------------------------------- MODULE StateDb -------------------------------
(***************************************************************************)
(* db_file_store of src/libotp/db_file.c: how the entry of one user is     *)
(* replaced in, added to or removed from the state file.  The caller holds *)
(* the lock (StateLock), so one store is in progress at a time; it may     *)
(* fail at any system call, its process may be killed between any two of   *)
(* them, and the machine may lose power.                                   *)
(*                                                                         *)
(* A file is a sequence of lines.  A line that passes the length checks of *)
(* _db_find_user_entry is sound; it carries a user and the rest, a value.  *)
(***************************************************************************)
EXTENDS Integers, Sequences, FiniteSetsExt

CONSTANTS User, Value, NoValue,
          Absent,        \* the file does not exist
          Global,        \* cfg->db = CONFIG_DB_GLOBAL: nobody's own file
          Files,         \* contents the state file may have at first
          MAX_STORES     \* bound: calls of db_file_store

Line == [user : User, val : Value, sound : BOOLEAN]

ASSUME DbAssumption == /\ NoValue \notin Value
                       /\ Global \notin User
                       /\ Absent \notin Seq(Line)
                       /\ Files \subseteq Seq(Line) \cup {Absent}
                       /\ MAX_STORES \in Nat

VARIABLES db,        \* the file db as everybody sees it
          disk,      \* what the last sync made durable under that name
          tmp,       \* the file db.tmp
          synced,    \* the data of the file now named db is on disk
          at,        \* where db_file_store is
          who,       \* s->username
          new,       \* the value to store; NoValue: remove
          in,        \* lines of db not read yet; Absent: in = NULL
          ret,       \* its variable ret
          stores,    \* calls so far
          owner      \* whose file it is with DB=user; Global

vars == <<db, disk, tmp, synced, at, who, new, in, ret, stores, owner>>

Ret == {"ok", "STATE_IO_ERROR", "STATE_PARSE_ERROR", "STATE_NO_USER_ENTRY"}

TypeOK == /\ {db, disk, tmp, in} \subseteq Seq(Line) \cup {Absent}
          /\ synced \in BOOLEAN
          /\ at \in {"idle", "unlink", "open", "before", "entry", "rest", "close",
                     "cleanup", "sync", "rename", "done"}
          /\ who \in User
          /\ new \in Value \cup {NoValue}
          /\ ret \in Ret
          /\ stores \in 0..MAX_STORES
          /\ owner \in User \cup {Global}

(* The lines of f which are not u's, in their order. *)
Kept(f, u) ==
    LET kept[n \in 0..Len(f)] ==
            IF n = 0 THEN <<>>
            ELSE IF f[n].user = u THEN kept[n - 1] ELSE Append(kept[n - 1], f[n])
    IN kept
Others(f, u) == IF f = Absent THEN <<>> ELSE Kept(f, u)[Len(f)]

Init == /\ db \in Files
        /\ owner \in User \cup {Global}
        /\ owner # Global => Others(db, owner) = <<>>
        /\ disk = db
        /\ tmp = Absent
        /\ synced = TRUE
        /\ at = "idle"
        /\ who \in User
        /\ new = NoValue
        /\ in = Absent
        /\ ret = "ok"
        /\ stores = 0
-----------------------------------------------------------------------------
(* The lines at which _db_find_user_entry stops, in the lines q. *)
Stops(u, q) == {i \in 1..Len(q) : ~q[i].sound \/ q[i].user = u}

(***************************************************************************)
(* _db_find_user_entry(u, q, out): the lines it copies to out, the lines   *)
(* it leaves unread and what it returns.                                   *)
(***************************************************************************)
db_find_user_entry(u, q) ==
    IF Stops(u, q) = {}
      THEN [copied |-> q, left |-> <<>>, ret |-> "STATE_NO_USER_ENTRY"]
      ELSE LET i == Min(Stops(u, q))
           IN [copied |-> SubSeq(q, 1, i - 1),
               left   |-> SubSeq(q, i + 1, Len(q)),
               ret    |-> IF q[i].sound THEN "ok" ELSE "STATE_PARSE_ERROR"]

(***************************************************************************)
(* What is left of a file f whose data did not all reach the disk: some of *)
(* its lines, the last of them perhaps cut in the middle.                  *)
(***************************************************************************)
Torn(f) == {SubSeq(f, 1, n) : n \in 0..Len(f)} \cup
           {Append(SubSeq(f, 1, n), [f[n + 1] EXCEPT !.sound = FALSE]) : n \in 0..(Len(f) - 1)}

(* fgets or fputs fails in the middle of _db_find_user_entry. *)
copy_breaks ==
    /\ in # Absent
    /\ LET f == db_find_user_entry(who, in)
       IN \E n \in 0..Len(f.copied) : tmp' = tmp \o SubSeq(f.copied, 1, n)
    /\ UNCHANGED in

Continue(l) == at' = l /\ UNCHANGED ret
Fail(r) == at' = "cleanup" /\ ret' = r

(* db_file_store(s, remove) is called. *)
db_file_store(u, v) ==
    /\ at = "idle"
    /\ owner \in {u, Global}
    /\ stores < MAX_STORES
    /\ stores' = stores + 1
    /\ who' = u
    /\ new' = v
    /\ at' = IF owner # Global /\ v = NoValue THEN "unlink" ELSE "open"
    /\ ret' = "ok"
    /\ UNCHANGED <<db, disk, tmp, synced, in, owner>>

(* DB=user and remove: the user's whole file goes. *)
store_unlink ==
    /\ at = "unlink"
    /\ at' = "done"
    /\ \/ db # Absent /\ db' = Absent /\ ret' = "ok"
       \/ UNCHANGED db /\ ret' = "STATE_IO_ERROR"
    /\ UNCHANGED <<disk, tmp, synced, who, new, in, stores, owner>>

(* fopen(db, "r"), fopen(tmp, "w") and chown. *)
store_open ==
    /\ at = "open"
    /\ in' = db
    /\ \/ tmp' = <<>> /\ Continue("before")
       \/ tmp' = <<>> /\ Fail("STATE_IO_ERROR")
       \/ UNCHANGED tmp /\ at' = "sync" /\ ret' = "STATE_IO_ERROR"    \* out = NULL
    /\ UNCHANGED <<db, disk, synced, who, new, stores, owner>>

(* 1) Copy entries before our username. *)
store_before ==
    /\ at = "before"
    /\ \/ /\ in = Absent
          /\ Continue("entry")
          /\ UNCHANGED <<in, tmp>>
       \/ /\ in # Absent
          /\ LET f == db_find_user_entry(who, in)
             IN /\ tmp' = tmp \o f.copied
                /\ in' = f.left
                /\ IF f.ret = "STATE_PARSE_ERROR" THEN Fail(f.ret)
                                                  ELSE Continue("entry")
       \/ copy_breaks /\ Fail("STATE_IO_ERROR")
    /\ UNCHANGED <<db, disk, synced, who, new, stores, owner>>

(* Mutant: the remove flag is forgotten. *)
entry_always ==
    /\ at = "entry"
    /\ tmp' = Append(tmp, [user |-> who, val |-> new, sound |-> TRUE])
    /\ Continue("rest")
    /\ UNCHANGED <<db, disk, synced, who, new, in, stores, owner>>

(* 2) Generate our new entry and store it into file. *)
store_entry ==
    /\ at = "entry"
    /\ \/ /\ new # NoValue
          /\ tmp' = Append(tmp, [user |-> who, val |-> new, sound |-> TRUE])
          /\ Continue("rest")
       \/ /\ new = NoValue
          /\ Continue("rest")
          /\ UNCHANGED tmp
       \/ /\ new # NoValue          \* fputs fails
          /\ Fail("STATE_IO_ERROR")
          /\ UNCHANGED tmp
    /\ UNCHANGED <<db, disk, synced, who, new, in, stores, owner>>

(* Mutant: an unsound line ends the copy without an error. *)
rest_stops_quietly ==
    /\ at = "rest"
    /\ tmp' = IF in = Absent THEN tmp
                             ELSE tmp \o db_find_user_entry(who, in).copied
    /\ Continue("close")
    /\ UNCHANGED <<db, disk, synced, who, new, in, stores, owner>>

(***************************************************************************)
(* 3) Copy rest of the file.  A second entry of the user is reported and   *)
(* jumps to cleanup with ret == 0, the lines after it not copied.          *)
(***************************************************************************)
store_rest ==
    /\ at = "rest"
    /\ \/ /\ in = Absent
          /\ Continue("close")
          /\ UNCHANGED <<in, tmp>>
       \/ /\ in # Absent
          /\ LET f == db_find_user_entry(who, in)
             IN /\ tmp' = tmp \o f.copied
                /\ in' = f.left
                /\ at' = IF f.ret = "STATE_NO_USER_ENTRY" THEN "close" ELSE "cleanup"
                /\ ret' = IF f.ret = "STATE_PARSE_ERROR" THEN f.ret ELSE ret
       \/ copy_breaks /\ Fail("STATE_PARSE_ERROR")
    /\ UNCHANGED <<db, disk, synced, who, new, stores, owner>>

(* Mutant: a full disk is tried again instead of reported. *)
close_retried ==
    /\ at = "close"
    /\ at' \in {"sync", "open"}
    /\ UNCHANGED <<db, disk, tmp, synced, who, new, in, ret, stores, owner>>

(* 4) Flush, save: fflush and fclose; they may find the disk full. *)
store_close ==
    /\ at = "close"
    /\ at' = "sync"
    /\ \/ UNCHANGED <<tmp, ret>>
       \/ tmp' \in Torn(tmp) /\ ret' = "STATE_IO_ERROR"
    /\ UNCHANGED <<db, disk, synced, who, new, in, stores, owner>>

(***************************************************************************)
(* cleanup with out still open: fflush and fclose, their errors ignored.   *)
(* ret is not 0 here, except after a second entry of the user.             *)
(***************************************************************************)
store_cleanup ==
    /\ at = "cleanup"
    /\ at' = "sync"
    /\ tmp' \in Torn(tmp)
    /\ UNCHANGED <<db, disk, synced, who, new, in, ret, stores, owner>>

(* Mutant: the data of the new file is not flushed before the rename. *)
no_sync ==
    /\ at = "sync"
    /\ at' = "rename"
    /\ synced' = FALSE
    /\ UNCHANGED <<db, disk, tmp, who, new, in, ret, stores, owner>>

(* sync(): earlier renames and the data of tmp reach the disk. *)
store_sync ==
    /\ at = "sync"
    /\ at' = "rename"
    /\ disk' = db
    /\ synced' = TRUE
    /\ UNCHANGED <<db, tmp, who, new, in, ret, stores, owner>>

(* Mutant: tmp is renamed whatever ret says. *)
rename_always ==
    /\ at = "rename"
    /\ at' = "done"
    /\ tmp # Absent
    /\ db' = tmp
    /\ tmp' = Absent
    /\ UNCHANGED <<disk, synced, who, new, in, ret, stores, owner>>

(* rename(tmp, db) if everything went fine, else unlink(tmp). *)
store_rename ==
    /\ at = "rename"
    /\ at' = "done"
    /\ \/ /\ ret = "ok"
          /\ db' = tmp
          /\ tmp' = Absent
          /\ UNCHANGED ret
       \/ /\ ret = "ok"              \* rename fails
          /\ ret' = "STATE_IO_ERROR"
          /\ UNCHANGED <<db, tmp>>
       \/ /\ ret # "ok"
          /\ tmp' = Absent
          /\ UNCHANGED <<db, ret>>
    /\ UNCHANGED <<disk, synced, who, new, in, stores, owner>>

(* return ret. *)
store_return ==
    /\ at = "done"
    /\ at' = "idle"
    /\ in' = Absent
    /\ UNCHANGED <<db, disk, tmp, synced, who, new, ret, stores, owner>>

(* The process is killed: what it wrote to tmp stays there. *)
killed ==
    /\ at # "idle"
    /\ at' = "idle"
    /\ in' = Absent
    /\ ret' = "ok"
    /\ UNCHANGED <<db, disk, tmp, synced, who, new, stores, owner>>

(***************************************************************************)
(* Power is lost.  The rename may or may not have reached the disk; if it  *)
(* did, a file whose data was not flushed may be torn.                     *)
(***************************************************************************)
power_failure ==
    /\ \/ db' = disk
       \/ synced /\ db' = db
       \/ ~synced /\ db # Absent /\ db' \in Torn(db)
    /\ disk' = db'
    /\ synced' = TRUE
    /\ at' = "idle"
    /\ in' = Absent
    /\ ret' = "ok"
    /\ UNCHANGED <<tmp, who, new, stores, owner>>

Store == \/ store_unlink
         \/ store_open
         \/ store_before
         \/ store_entry
         \/ store_rest
         \/ store_close
         \/ store_cleanup
         \/ store_sync
         \/ store_rename
         \/ store_return

Next == \/ \E u \in User, v \in Value \cup {NoValue} : db_file_store(u, v)
        \/ Store
        \/ killed
        \/ power_failure

Spec == Init /\ [][Next]_vars /\ WF_vars(Store)
-----------------------------------------------------------------------------
(***************************************************************************)
(* What db_file_load finds for u: the first entry; nothing, and an error,  *)
(* if a line before it is broken.                                          *)
(***************************************************************************)
Lookup(f, u) ==
    IF f = Absent THEN NoValue
    ELSE IF Stops(u, f) = {} THEN NoValue
    ELSE LET l == f[Min(Stops(u, f))] IN IF l.sound THEN l.val ELSE NoValue

(* What a file says of every user it serves: with DB=user, of its owner. *)
Loaded(f) == [u \in User |-> IF owner \in {u, Global} THEN Lookup(f, u) ELSE NoValue]

(***************************************************************************)
(* The file implements a table of users (UserTable): whatever fails, is    *)
(* killed or loses power in the middle of a store, a load finds for every  *)
(* user the old state or, for the user stored, the new one.                *)
(***************************************************************************)
Abstract == INSTANCE UserTable
              WITH table   <- Loaded(db),
                   durable <- Loaded(disk)
ImplementsTable == Abstract!TableSpec

(***************************************************************************)
(* db_file_store for one user never drops, changes or reorders a line of   *)
(* another user, comments and unknown versions included.                   *)
(***************************************************************************)
OthersKept == [][at = "rename" /\ db' # db /\ at' = "done" =>
                   Others(db', who) = Others(db, who)]_vars

(***************************************************************************)
(* The return value is honest: a store that returns 0 has put the value    *)
(* into the file, a store that fails or is killed has not changed it.      *)
(* "If everything went fine, rename tmp to normal file" (db_file_store);   *)
(* it does not hold in a file with a second entry of the user, where a     *)
(* failing flush goes unnoticed (store_cleanup).                           *)
(***************************************************************************)
ReturnHonest ==
    [][/\ db' # db /\ at' # "idle" => at' = "done" /\ ret' = "ok"
       /\ at # "done" /\ at' = "done" /\ ret' = "ok" => Lookup(db', who) = new]_vars

(* A store that is not killed returns, whatever fails. *)
StoreReturns == at # "idle" ~> at = "idle"
=============================================================================
