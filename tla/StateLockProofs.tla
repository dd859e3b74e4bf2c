-------------------------- MODULE StateLockProofs --------------------------
(***************************************************************************)
(* Theorems about StateLock, for every set of processes, every set of      *)
(* inodes and every number of tries.                                       *)
(***************************************************************************)
EXTENDS StateLock, TLAPS

(* A descriptor is open exactly between open and close. *)
DescriptorOpen == \A p \in Proc : ~Unlocked(p) => fd[p] \in Inode

(* The kernel's guarantee: one owner per inode. *)
InodeExclusive ==
    \A p, q \in Proc : OwnsLock(p) /\ OwnsLock(q) /\ fd[p] = fd[q] => p = q

(***************************************************************************)
(* The inductive invariant.  ExclusionUnlessStale alone is not inductive:  *)
(* it needs to know that holders hold what lck names, and that an inode    *)
(* has one owner.                                                          *)
(***************************************************************************)
LockInv == TypeOK /\ DescriptorOpen /\ InodeExclusive /\ HolderIsNamed

(* The initial states, with a left-over lock file or without, are good. *)
LEMMA LockInvInit == Init => LockInv
<1> SUFFICES ASSUME Init PROVE LockInv
  OBVIOUS
<1>1. TypeOK
  <2>1. 0 \in 0..TRIES
    BY LockAssumption
  <2>2. stale \in BOOLEAN
    BY DEF Init
  <2> QED
    BY <2>1, <2>2 DEF Init, TypeOK, LockPc
<1>2. \A p \in Proc : lpc[p] = "none"
  BY DEF Init
<1>3. DescriptorOpen /\ InodeExclusive /\ HolderIsNamed
  BY <1>2 DEF DescriptorOpen, InodeExclusive, HolderIsNamed, Unlocked,
              LockError, OwnsLock, InCritical
<1> QED
  BY <1>1, <1>3 DEF LockInv

(* Every step of the lock protocol keeps the invariant. *)
LEMMA LockInvStep == LockInv /\ [Next]_lockVars => LockInv'
<1> SUFFICES ASSUME LockInv, [Next]_lockVars PROVE LockInv'
  OBVIOUS
<1> USE LockAssumption
<1> USE DEF LockInv, TypeOK, LockPc, LockError, DescriptorOpen, InodeExclusive,
            HolderIsNamed, Unlocked, OwnsLock, InCritical
<1>1. ASSUME NEW p \in Proc, db_file_lock_open(p) PROVE LockInv'
  <2>1. PICK i \in Inode : /\ IF link = None THEN FreeInode(i) ELSE i = link
                           /\ link' = i
                           /\ fd' = [fd EXCEPT ![p] = i]
    BY <1>1 DEF db_file_lock_open
  <2>2. /\ lpc' = [lpc EXCEPT ![p] = "trying"]
        /\ tries' = [tries EXCEPT ![p] = 0]
        /\ stale' = stale
        /\ Unlocked(p)
    BY <1>1 DEF db_file_lock_open
  <2>3. TypeOK'
    BY <2>1, <2>2
  <2>4. DescriptorOpen'
    BY <2>1, <2>2
  <2>5. InodeExclusive'
    BY <2>1, <2>2
  <2>6. HolderIsNamed'
    BY <2>1, <2>2
  <2> QED
    BY <2>3, <2>4, <2>5, <2>6
<1>2. ASSUME NEW p \in Proc, db_file_lock_try(p) PROVE LockInv'
  <2>1. CASE Lockable(p)
    <3>1. TypeOK' /\ DescriptorOpen'
      BY <1>2, <2>1 DEF db_file_lock_try
    <3>2. InodeExclusive'
      BY <1>2, <2>1 DEF db_file_lock_try, Lockable
    <3>3. HolderIsNamed'
      BY <1>2, <2>1 DEF db_file_lock_try
    <3> QED
      BY <3>1, <3>2, <3>3
  <2>2. CASE ~Lockable(p)
    BY <1>2, <2>2 DEF db_file_lock_try
  <2> QED
    BY <2>1, <2>2
<1>3. ASSUME NEW p \in Proc, db_file_lock_giveup(p) PROVE LockInv'
  BY <1>3 DEF db_file_lock_giveup
<1>4. ASSUME NEW p \in Proc, db_file_lock_refused(p) PROVE LockInv'
  BY <1>4 DEF db_file_lock_refused
<1>5. ASSUME NEW p \in Proc, db_file_unlock(p) PROVE LockInv'
  <2>1. CASE lpc[p] = "held"
    <3>1. TypeOK' /\ DescriptorOpen' /\ InodeExclusive'
      BY <1>5, <2>1 DEF db_file_unlock
    <3>2. HolderIsNamed'
      BY <1>5, <2>1 DEF db_file_unlock
    <3> QED
      BY <3>1, <3>2
  <2>2. CASE lpc[p] = "unlinked"
    BY <1>5, <2>2 DEF db_file_unlock
  <2> QED
    BY <1>5, <2>1, <2>2 DEF db_file_unlock
<1>6. ASSUME NEW p \in Proc, die(p) PROVE LockInv'
  BY <1>6 DEF die
<1>7. CASE UNCHANGED lockVars
  BY <1>7 DEF lockVars
<1> QED
  BY <1>1, <1>2, <1>3, <1>4, <1>5, <1>6, <1>7 DEF Next, db_file_lock

(* One owner per inode and holders of the named inode exclude each other. *)
LEMMA LockInvExcludes == LockInv => ExclusionUnlessStale
BY DEF LockInv, InodeExclusive, HolderIsNamed, ExclusionUnlessStale,
       MutualExclusion, InCritical, OwnsLock

(* The invariant holds in every reachable state. *)
THEOREM LockInvariant == Spec => []LockInv
<1>1. Init => LockInv
  BY LockInvInit
<1>2. LockInv /\ [Next]_lockVars => LockInv'
  BY LockInvStep
<1> QED
  BY <1>1, <1>2, PTL DEF Spec

(***************************************************************************)
(* Type correctness of the lock protocol; in particular the loop never     *)
(* counts past TRIES.                                                      *)
(***************************************************************************)
THEOREM LockTyping == Spec => []TypeOK
<1>1. LockInv => TypeOK
  BY DEF LockInv
<1> QED
  BY <1>1, LockInvariant, PTL

(***************************************************************************)
(* "Unlink, then unlock" excludes, unless a waiter got the lock of a file  *)
(* already unlinked: for any number of processes, crashes included.        *)
(***************************************************************************)
THEOREM LockExcludes == Spec => []ExclusionUnlessStale
BY LockInvariant, LockInvExcludes, PTL

(* Until then, whoever is inside holds the inode that lck names. *)
THEOREM LockHolderNamed == Spec => []HolderIsNamed
<1>1. LockInv => HolderIsNamed
  BY DEF LockInv
<1> QED
  BY <1>1, LockInvariant, PTL

(***************************************************************************)
(* Until then, unlink in db_file_unlock removes no lock file that another  *)
(* process has locked.                                                     *)
(***************************************************************************)
THEOREM LockUnlinksOwn == Spec => UnlinksOwnFile
<1> DEFINE A == ~stale /\ link # None /\ link' = None =>
        \A q \in Proc : OwnsLock(q) /\ fd[q] = link => lpc'[q] = "unlinked"
<1>1. LockInv /\ [Next]_lockVars => [A]_lockVars
  <2> SUFFICES ASSUME LockInv, Next, ~stale, link # None, link' = None,
                      NEW q \in Proc, OwnsLock(q), fd[q] = link
               PROVE  lpc'[q] = "unlinked"
    BY DEF LockInv
  <2>1. PICK p \in Proc : db_file_lock(p) \/ db_file_lock_refused(p)
                             \/ db_file_unlock(p) \/ die(p)
    BY DEF Next
  <2>2. db_file_unlock(p) /\ lpc[p] = "held"
    BY <2>1, LockAssumption
       DEF db_file_lock, db_file_lock_open, db_file_lock_try, db_file_lock_giveup,
           db_file_lock_refused, db_file_unlock, die, LockInv, TypeOK
  <2>3. fd[p] = link /\ OwnsLock(p)
    BY <2>2 DEF LockInv, HolderIsNamed, InCritical, OwnsLock
  <2>4. q = p
    BY <2>3 DEF LockInv, InodeExclusive
  <2> QED
    BY <2>2, <2>4 DEF db_file_unlock, LockInv, TypeOK
<1> QED
  BY <1>1, LockInvariant, PTL DEF Spec, UnlinksOwnFile
=============================================================================
