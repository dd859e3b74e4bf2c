------------------------------ MODULE PppState ------------------------------
(***************************************************************************)
(* The transactions of src/libotp/ppp.c on one user's state: lock, load,   *)
(* work, store, unlock.  Every process which uses libotp (the PAM module,  *)
(* the agent) changes the state file through one of them.                  *)
(*                                                                         *)
(* The lock is the protocol of StateLock, with its interleavings, not an   *)
(* atomic lock.  db is the user's entry in the state file; db_file_store   *)
(* replaces it in one step (rename) or leaves it alone, which StateDb      *)
(* shows.  A key is a number, the ordinal of its generation: keys are      *)
(* random and never repeat.  A passcode is a pair <<key, counter>>.        *)
(***************************************************************************)
EXTENDS StateLock

CONSTANTS NoState,   \* the user has no entry
          MAX_CODE,  \* s->max_code: counters from here on are exhausted
          MAX_KEYS   \* bound: keys generated in a behaviour

VARIABLES db,        \* the entry on disk
          step,      \* where a process is in its transaction
          tx,        \* which transaction it runs
          buf,       \* the state the transaction works on (s or s_tmp)
          res,       \* what the transaction returned
          keys,      \* keys generated so far
          clock,     \* time(NULL)
          rewound    \* history: a skip went back to a passcode already used

txVars  == <<db, step, tx, buf, res, keys, clock, rewound>>
pppVars == <<lockVars, txVars>>

Tx == {"load", "increment", "skip", "failures", "session", "oob_time",
       "store_new", "remove", "flags"}

TxError == LockError \cup
           {"STATE_IO_ERROR", "STATE_NON_EXISTENT", "STATE_NO_USER_ENTRY",
            "STATE_NUMSPACE", "PPP_ERROR_POLICY", "PPP_ERROR_DISABLED",
            "PPP_ERROR_RANGE"}

(* The fields of state that transactions change or decide on. *)
State == [key : 1..MAX_KEYS, counter : 0..MAX_CODE, failures : Nat,
          recent : Nat, channel_time : Nat, disabled : BOOLEAN,
          lawful : BOOLEAN]    \* flags, alphabet and length obey the policy

ASSUME PppAssumption == /\ MAX_CODE \in Nat \ {0}
                        /\ MAX_KEYS \in Nat \ {0}
                        /\ NoState \notin State

PppTypeOK == /\ TypeOK
             /\ db   \in State \cup {NoState}
             /\ step \in [Proc -> {"idle", "lock", "load", "work", "unlock", "return"}]
             /\ tx   \in [Proc -> Tx]
             /\ buf  \in [Proc -> State \cup {NoState}]
             /\ res  \in [Proc -> {"ok"} \cup TxError]
             /\ keys \in 0..MAX_KEYS
             /\ clock \in Nat
             /\ rewound \in BOOLEAN

(* ppp_state_init and state_key_generate: the state of a fresh key. *)
NewState(k) == [key |-> k, counter |-> 0, failures |-> 0, recent |-> 0,
                channel_time |-> 0, disabled |-> FALSE, lawful |-> TRUE]

PppInit == /\ Init
           /\ \/ db = NoState /\ keys = 0
              \/ /\ keys = 1
                 /\ \E b \in BOOLEAN : db = [NewState(1) EXCEPT !.lawful = b]
           /\ step = [p \in Proc |-> "idle"]
           /\ tx = [p \in Proc |-> "load"]
           /\ buf = [p \in Proc |-> NoState]
           /\ res = [p \in Proc |-> "ok"]
           /\ clock = 0
           /\ rewound = FALSE
-----------------------------------------------------------------------------
(* The transaction leaves for its next step with r as its return value. *)
Goto(p, to, r) == /\ step' = [step EXCEPT ![p] = to]
                  /\ res' = [res EXCEPT ![p] = r]

(* A process calls one of the transactions on a state. *)
Call(p, t) == /\ step' = [step EXCEPT ![p] = "lock"]
              /\ tx' = [tx EXCEPT ![p] = t]
              /\ res' = [res EXCEPT ![p] = "ok"]

(* ppp_key_generate, and the call that will store the new state. *)
ppp_key_generate(p) ==
    /\ keys < MAX_KEYS
    /\ keys' = keys + 1
    /\ buf' = [buf EXCEPT ![p] = NewState(keys + 1)]
    /\ Call(p, "store_new")

(* Mutant: the state is read when lck is opened, before the lock is held. *)
lock_after_load(p) ==
    /\ step[p] = "lock"
    /\ db_file_lock(p) \/ db_file_lock_refused(p)
    /\ CASE lpc'[p] = "held" -> Goto(p, "work", "ok")
         [] lpc'[p] \in LockError -> Goto(p, "return", "STATE_LOCK_ERROR")
         [] OTHER -> UNCHANGED <<step, res>>
    /\ buf' = IF Unlocked(p) /\ tx[p] # "store_new"
                THEN [buf EXCEPT ![p] = db] ELSE buf
    /\ lpc'[p] = "held" => buf'[p] # NoState
    /\ UNCHANGED <<db, tx, keys, clock, rewound>>

(***************************************************************************)
(* state_lock: one step of db_file_lock.  When it returns, the transaction *)
(* loads the state; state_store of a new key locks by itself and loads     *)
(* nothing, and turns every locking error into STATE_LOCK_ERROR.           *)
(***************************************************************************)
state_lock(p) ==
    /\ step[p] = "lock"
    /\ db_file_lock(p) \/ db_file_lock_refused(p)
    /\ CASE lpc'[p] = "held" ->
              Goto(p, IF tx[p] = "store_new" THEN "work" ELSE "load", "ok")
         [] lpc'[p] \in LockError ->
              Goto(p, "return", IF tx[p] = "store_new" THEN "STATE_LOCK_ERROR"
                                                       ELSE lpc'[p])
         [] OTHER -> UNCHANGED <<step, res>>
    /\ UNCHANGED <<db, tx, buf, keys, clock, rewound>>

(* Mutant: the error exit of ppp_state_load forgets to unlock. *)
load_keeps_lock(p) ==
    /\ step[p] = "load"
    /\ IF db = NoState
         THEN /\ Goto(p, "return", "STATE_NON_EXISTENT")
              /\ UNCHANGED buf
         ELSE /\ buf' = [buf EXCEPT ![p] = db]
              /\ Goto(p, "work", "ok")
    /\ UNCHANGED <<lockVars, db, tx, keys, clock, rewound>>

(* Mutant: counter > max_code instead of >= in ppp_verify_range. *)
load_range_off_by_one(p) ==
    /\ step[p] = "load"
    /\ IF db = NoState \/ (db # NoState /\ db.counter > MAX_CODE)
         THEN Goto(p, "unlock", "STATE_NUMSPACE") /\ UNCHANGED buf
         ELSE /\ buf' = [buf EXCEPT ![p] = db]
              /\ Goto(p, "work", "ok")
    /\ UNCHANGED <<lockVars, db, tx, keys, clock, rewound>>

(***************************************************************************)
(* ppp_state_load after locking: state_load, ppp_calculate and             *)
(* ppp_verify_range; on an error the lock is released.                     *)
(***************************************************************************)
ppp_state_load(p) ==
    /\ step[p] = "load"
    /\ \/ /\ db = NoState
          /\ \E r \in {"STATE_NON_EXISTENT", "STATE_NO_USER_ENTRY"} :
                Goto(p, "unlock", r)
          /\ UNCHANGED buf
       \/ /\ db # NoState
          /\ Goto(p, "unlock", "STATE_IO_ERROR")
          /\ UNCHANGED buf
       \/ /\ db # NoState
          /\ buf' = [buf EXCEPT ![p] = db]
          /\ IF db.counter >= MAX_CODE
               THEN Goto(p, "unlock", "STATE_NUMSPACE")
               ELSE Goto(p, IF tx[p] = "load" THEN "unlock" ELSE "work", "ok")
    /\ UNCHANGED <<lockVars, db, tx, keys, clock, rewound>>
-----------------------------------------------------------------------------
Working(p, t) == step[p] = "work" /\ tx[p] = t

(* ppp_state_release with PPP_STORE: the whole entry is written, or nothing. *)
state_store(p, new) == \/ /\ db' = new
                          /\ Goto(p, "unlock", "ok")
                       \/ /\ UNCHANGED db
                          /\ Goto(p, "unlock", "STATE_IO_ERROR")

(* Mutant: the old counter is restored before the state is stored. *)
increment_not_stored(p) ==
    /\ Working(p, "increment")
    /\ IF buf[p].lawful /\ ~buf[p].disabled
         THEN state_store(p, buf[p])
         ELSE Goto(p, "unlock", "PPP_ERROR_POLICY") /\ UNCHANGED db
    /\ UNCHANGED <<lockVars, tx, buf, keys, clock, rewound>>

(***************************************************************************)
(* ppp_increment: verify, refuse the disabled, store counter + 1.  The     *)
(* state in memory keeps the old counter: the passcode now reserved.       *)
(***************************************************************************)
ppp_increment(p) ==
    /\ Working(p, "increment")
    /\ \/ /\ ~buf[p].lawful
          /\ Goto(p, "unlock", "PPP_ERROR_POLICY")
          /\ UNCHANGED db
       \/ /\ buf[p].lawful /\ buf[p].disabled
          /\ Goto(p, "unlock", "PPP_ERROR_DISABLED")
          /\ UNCHANGED db
       \/ /\ buf[p].lawful /\ ~buf[p].disabled
          /\ state_store(p, [buf[p] EXCEPT !.counter = @ + 1])
    /\ UNCHANGED <<lockVars, tx, buf, keys, clock, rewound>>

(* Mutant: ppp_skip does not look at FLAG_DISABLED. *)
skip_disabled(p, c) ==
    /\ Working(p, "skip")
    /\ c < MAX_CODE
    /\ buf' = [buf EXCEPT ![p].counter = c]
    /\ state_store(p, [buf[p] EXCEPT !.counter = c])
    /\ rewound' = (rewound \/ c < buf[p].counter)
    /\ UNCHANGED <<lockVars, tx, keys, clock>>

(* ppp_skip to passcode c: any number below max_code is taken. *)
ppp_skip(p, c) ==
    /\ Working(p, "skip")
    /\ \/ /\ ~buf[p].lawful
          /\ Goto(p, "unlock", "PPP_ERROR_POLICY")
          /\ UNCHANGED <<db, buf, rewound>>
       \/ /\ buf[p].lawful /\ buf[p].disabled
          /\ Goto(p, "unlock", "PPP_ERROR_DISABLED")
          /\ UNCHANGED <<db, buf, rewound>>
       \/ /\ buf[p].lawful /\ ~buf[p].disabled
          /\ c >= MAX_CODE
          /\ Goto(p, "unlock", "PPP_ERROR_RANGE")
          /\ UNCHANGED <<db, buf, rewound>>
       \/ /\ buf[p].lawful /\ ~buf[p].disabled
          /\ c < MAX_CODE
          /\ buf' = [buf EXCEPT ![p].counter = c]
          /\ state_store(p, [buf[p] EXCEPT !.counter = c])
          /\ rewound' = (rewound \/ c < buf[p].counter)
    /\ UNCHANGED <<lockVars, tx, keys, clock>>

(* ppp_failures(s, 0) works on a second state read from disk under the lock. *)
ppp_failures(p) ==
    /\ Working(p, "failures")
    /\ state_store(p, [buf[p] EXCEPT !.failures = @ + 1, !.recent = @ + 1])
    /\ UNCHANGED <<lockVars, tx, buf, keys, clock, rewound>>

(* pam_sm_open_session: clears recent_failures if there was one to report. *)
pam_sm_open_session(p) ==
    /\ Working(p, "session")
    /\ IF buf[p].recent > 0
         THEN state_store(p, [buf[p] EXCEPT !.recent = 0])
         ELSE Goto(p, "unlock", "ok") /\ UNCHANGED db
    /\ UNCHANGED <<lockVars, tx, buf, keys, clock, rewound>>

(* ppp_oob_time: channel_time = time(NULL). *)
ppp_oob_time(p) ==
    /\ Working(p, "oob_time")
    /\ state_store(p, [buf[p] EXCEPT !.channel_time = clock])
    /\ UNCHANGED <<lockVars, tx, buf, keys, clock, rewound>>

(* state_store of a state with new_key set, after ppp_key_generate. *)
ppp_store_new(p) ==
    /\ Working(p, "store_new")
    /\ state_store(p, buf[p])
    /\ UNCHANGED <<lockVars, tx, buf, keys, clock, rewound>>

(* ppp_state_release with PPP_REMOVE. *)
ppp_remove(p) ==
    /\ Working(p, "remove")
    /\ state_store(p, NoState)
    /\ UNCHANGED <<lockVars, tx, buf, keys, clock, rewound>>

(* ppp_flag_add or ppp_flag_del of FLAG_DISABLED, then store. *)
ppp_set_disabled(p) ==
    /\ Working(p, "flags")
    /\ \E b \in BOOLEAN : state_store(p, [buf[p] EXCEPT !.disabled = b])
    /\ UNCHANGED <<lockVars, tx, buf, keys, clock, rewound>>

(* state_unlock: the steps of db_file_unlock; the transaction returns. *)
state_unlock(p) ==
    /\ step[p] = "unlock"
    /\ db_file_unlock(p)
    /\ step' = [step EXCEPT ![p] = IF lpc'[p] = "none" THEN "return" ELSE "unlock"]
    /\ UNCHANGED <<db, tx, buf, res, keys, clock, rewound>>

(* One step of the transaction p is in. *)
Transaction(p) == \/ state_lock(p)
                  \/ ppp_state_load(p)
                  \/ ppp_increment(p)
                  \/ \E c \in 0..MAX_CODE : ppp_skip(p, c)
                  \/ ppp_failures(p)
                  \/ pam_sm_open_session(p)
                  \/ ppp_oob_time(p)
                  \/ ppp_store_new(p)
                  \/ ppp_remove(p)
                  \/ ppp_set_disabled(p)
                  \/ state_unlock(p)
=============================================================================
