----------------------------- MODULE StateLock -----------------------------
(***************************************************************************)
(* The lock of a state file: db_file_lock and db_file_unlock of            *)
(* src/libotp/db_file.c, run by any number of processes (PAM modules and   *)
(* agents) on the state file of one database.                              *)
(*                                                                         *)
(* The lock is an fcntl(F_SETLK) write lock on a separate file, "lck".     *)
(* The name lck lives in a directory; the kernel locks the inode behind    *)
(* the descriptor.  The two can part: unlock unlinks the name first and    *)
(* unlocks the inode second, while somebody else may have that inode open. *)
(* That is why the directory entry (link), the descriptors (fd) and the    *)
(* progress of each process (lpc) are separate variables.                  *)
(***************************************************************************)
EXTENDS Integers

CONSTANTS Proc,      \* processes which use the library on this database
          Inode,     \* inodes the file system can give to lck
          None,      \* no inode: lck does not exist, no descriptor
          TRIES      \* attempts of the fcntl loop (20 in the code)

ASSUME LockAssumption == /\ None \notin Inode
                         /\ TRIES \in Nat \ {0}

VARIABLES lpc,       \* progress of a process in lock/unlock, or the error
          fd,        \* the inode behind the descriptor of lck (s->lock)
          tries,     \* cnt of the loop in db_file_lock
          link,      \* the inode the name lck refers to
          stale      \* history: somebody locked an inode that lck did not name

lockVars == <<lpc, fd, tries, link, stale>>

(* What a failed db_file_lock returned; s->lock is -1, as in "none". *)
LockError == {"STATE_LOCK_ERROR", "STATE_NO_USER_HOME"}
LockPc == {"none", "trying", "held", "unlinked"} \cup LockError

TypeOK == /\ lpc   \in [Proc -> LockPc]
          /\ fd    \in [Proc -> Inode \cup {None}]
          /\ tries \in [Proc -> 0..TRIES]
          /\ link  \in Inode \cup {None}
          /\ stale \in BOOLEAN

(* s->lock = -1: db_file_lock may be called (its assertion). *)
Unlocked(p) == lpc[p] \in {"none"} \cup LockError

(* The kernel's view: p owns the fcntl lock of the inode it has open. *)
OwnsLock(p) == lpc[p] \in {"held", "unlinked"}

(* F_SETLK by p on its descriptor succeeds. *)
Lockable(p) == \A q \in Proc \ {p} : ~(OwnsLock(q) /\ fd[q] = fd[p])

(* An inode the file system may reuse: unlinked and closed everywhere. *)
FreeInode(i) == i # link /\ \A q \in Proc : fd[q] # i

Init == /\ lpc = [p \in Proc |-> "none"]
        /\ fd  = [p \in Proc |-> None]
        /\ tries = [p \in Proc |-> 0]
        /\ link \in {None} \cup Inode    \* lck may be left over from a crash
        /\ stale = FALSE
-----------------------------------------------------------------------------
(***************************************************************************)
(* db_file_lock: the error exits before the loop.  _db_path finds no home  *)
(* directory, the permission check fails or open fails.                    *)
(***************************************************************************)
db_file_lock_refused(p) ==
    /\ Unlocked(p)
    /\ \E r \in LockError : lpc' = [lpc EXCEPT ![p] = r]
    /\ UNCHANGED <<fd, tries, link, stale>>

(* db_file_lock: open(lck, O_WRONLY|O_CREAT). *)
db_file_lock_open(p) ==
    /\ Unlocked(p)
    /\ \E i \in Inode :
          /\ IF link = None THEN FreeInode(i) ELSE i = link
          /\ link' = i
          /\ fd' = [fd EXCEPT ![p] = i]
    /\ lpc' = [lpc EXCEPT ![p] = "trying"]
    /\ tries' = [tries EXCEPT ![p] = 0]
    /\ UNCHANGED stale

(* Mutant: the loop runs once too often (cnt <= 20). *)
try_off_by_one(p) ==
    /\ lpc[p] = "trying"
    /\ tries[p] <= TRIES
    /\ IF Lockable(p)
          THEN /\ lpc' = [lpc EXCEPT ![p] = "held"]
               /\ tries' = [tries EXCEPT ![p] = 0]
               /\ stale' = (stale \/ link # fd[p])
          ELSE /\ tries' = [tries EXCEPT ![p] = tries[p] + 1]
               /\ UNCHANGED <<lpc, stale>>
    /\ UNCHANGED <<fd, link>>

(* Mutant: the loop forgets to count. *)
try_uncounted(p) ==
    /\ lpc[p] = "trying"
    /\ IF Lockable(p)
          THEN /\ lpc' = [lpc EXCEPT ![p] = "held"]
               /\ stale' = (stale \/ link # fd[p])
          ELSE UNCHANGED <<lpc, stale>>
    /\ UNCHANGED <<fd, link, tries>>

(* db_file_lock: one turn of the loop, fcntl returns 0 or fails. *)
db_file_lock_try(p) ==
    /\ lpc[p] = "trying"
    /\ tries[p] < TRIES
    /\ \/ /\ Lockable(p)
          /\ lpc' = [lpc EXCEPT ![p] = "held"]
          /\ stale' = (stale \/ link # fd[p])
          /\ tries' = [tries EXCEPT ![p] = 0]
       \/ /\ ~Lockable(p)
          /\ tries' = [tries EXCEPT ![p] = tries[p] + 1]
          /\ UNCHANGED <<lpc, stale>>
    /\ UNCHANGED <<fd, link>>

(* Mutant: the error exit tidies up the lock file as unlock does. *)
giveup_unlinks(p) ==
    /\ lpc[p] = "trying"
    /\ tries[p] = TRIES
    /\ lpc' = [lpc EXCEPT ![p] = "STATE_LOCK_ERROR"]
    /\ fd' = [fd EXCEPT ![p] = None]
    /\ tries' = [tries EXCEPT ![p] = 0]
    /\ link' = None
    /\ UNCHANGED stale

(* db_file_lock: the loop ended without the lock; close(fd). *)
db_file_lock_giveup(p) ==
    /\ lpc[p] = "trying"
    /\ tries[p] = TRIES
    /\ lpc' = [lpc EXCEPT ![p] = "STATE_LOCK_ERROR"]
    /\ fd' = [fd EXCEPT ![p] = None]
    /\ tries' = [tries EXCEPT ![p] = 0]
    /\ UNCHANGED <<link, stale>>

db_file_lock(p) == \/ db_file_lock_open(p)
                   \/ db_file_lock_try(p)
                   \/ db_file_lock_giveup(p)

(* Mutant: unlock first, then unlink. *)
unlock_then_unlink(p) ==
    \/ /\ lpc[p] = "held"
       /\ lpc' = [lpc EXCEPT ![p] = "unlinked"]
       /\ fd' = [fd EXCEPT ![p] = None]
       /\ UNCHANGED <<link, tries, stale>>
    \/ /\ lpc[p] = "unlinked"
       /\ lpc' = [lpc EXCEPT ![p] = "none"]
       /\ link' = None
       /\ UNCHANGED <<fd, tries, stale>>

(***************************************************************************)
(* db_file_unlock: unlink(lck), then F_UNLCK and close.  unlink removes    *)
(* the name, whichever inode it refers to by then.                         *)
(***************************************************************************)
db_file_unlock(p) ==
    \/ /\ lpc[p] = "held"
       /\ lpc' = [lpc EXCEPT ![p] = "unlinked"]
       /\ link' = None
       /\ UNCHANGED <<fd, tries, stale>>
    \/ /\ lpc[p] = "unlinked"
       /\ lpc' = [lpc EXCEPT ![p] = "none"]
       /\ fd' = [fd EXCEPT ![p] = None]
       /\ UNCHANGED <<tries, link, stale>>

(* The process dies anywhere: the kernel closes fd, lck stays behind. *)
die(p) ==
    /\ ~Unlocked(p)
    /\ lpc' = [lpc EXCEPT ![p] = "none"]
    /\ fd' = [fd EXCEPT ![p] = None]
    /\ tries' = [tries EXCEPT ![p] = 0]
    /\ UNCHANGED <<link, stale>>

Next == \E p \in Proc : \/ db_file_lock(p)
                        \/ db_file_lock_refused(p)
                        \/ db_file_unlock(p)
                        \/ die(p)

(***************************************************************************)
(* Every live process goes on: the loop is bounded by TRIES * 700us and    *)
(* "any working otpasswd session" releases what it locked.  Opening lck    *)
(* for a new transaction and dying are never forced.                       *)
(***************************************************************************)
Fairness == \A p \in Proc : WF_lockVars(\/ db_file_lock_try(p)
                                        \/ db_file_lock_giveup(p)
                                        \/ db_file_unlock(p))

Spec == Init /\ [][Next]_lockVars /\ Fairness
-----------------------------------------------------------------------------
(* p may read and write the state file under its lock. *)
InCritical(p) == lpc[p] = "held"

(***************************************************************************)
(* What the lock is for (README: "Locking of state files to resolve race   *)
(* conditions"; db_file.c: "First unlink, then unlock to solve race        *)
(* condition"): no two processes work on the state file at the same time.  *)
(* The code does not give this: see the run lock_race.                     *)
(***************************************************************************)
MutualExclusion ==
    \A p, q \in Proc : InCritical(p) /\ InCritical(q) => p = q

(***************************************************************************)
(* What the code does give: two processes can be inside together only      *)
(* after some process waiting in the loop of db_file_lock was handed the   *)
(* lock of an inode which an unlock had already unlinked.  Without such a  *)
(* late waiter the order "unlink, then unlock" excludes.                   *)
(***************************************************************************)
ExclusionUnlessStale == ~stale => MutualExclusion

(***************************************************************************)
(* The same reason in terms of the name: while no waiter was late, whoever *)
(* is inside holds the inode that lck names now, so a newcomer's open      *)
(* finds the locked file and not a fresh one.                              *)
(***************************************************************************)
HolderIsNamed == ~stale => \A p \in Proc : InCritical(p) => link = fd[p]

(***************************************************************************)
(* Action property of db_file_unlock: unless a waiter was late, unlink     *)
(* only ever removes the lock file of the process that unlinks it, never   *)
(* the file another process has locked.                                    *)
(***************************************************************************)
UnlinksOwnFile ==
    [][~stale /\ link # None /\ link' = None =>
          \A q \in Proc : OwnsLock(q) /\ fd[q] = link => lpc'[q] = "unlinked"]_lockVars

(***************************************************************************)
(* Liveness of the loop in db_file_lock: a process that opened the lock    *)
(* file gets the lock or leaves with STATE_LOCK_ERROR, whatever the others *)
(* do and whoever dies holding the lock; nobody waits for ever.            *)
(***************************************************************************)
LockAttemptEnds ==
    \A p \in Proc : lpc[p] = "trying" ~> lpc[p] # "trying"
=============================================================================
