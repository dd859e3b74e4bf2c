----------------------------- MODULE PamProofs ------------------------------
(***************************************************************************)
(* Theorems about PamAuth: typing, the lock, and what a write may change,  *)
(* for every number of processes, inodes, keys and passcodes and every     *)
(* configuration _config_parse accepts.                                    *)
(***************************************************************************)
EXTENDS PamAuth, StateLockProofs

(* Where a transaction is and what db_file_lock gave its process. *)
LockPhase ==
    \A p \in Proc :
        /\ step[p] \in {"idle", "return"} => Unlocked(p)
        /\ step[p] = "lock" => ~OwnsLock(p)
        /\ step[p] \in {"load", "work"} => lpc[p] = "held"
        /\ step[p] = "unlock" => OwnsLock(p)

Quiet == {"idle", "loop", "oob", "ask", "secure", "exec"}
Asking == {"ask", "oob", "secure", "exec", "oob_time"}

(* Which transaction a process is in, by the place it was called from. *)
CallPlace ==
    \A p \in Proc :
        /\ pc[p] \in Quiet <=> step[p] = "idle"
        /\ pc[p] \in {"increment", "failures", "oob_time"} => tx[p] = pc[p]
        /\ pc[p] = "spass" => tx[p] = "load"
        /\ pc[p] = "utility" => tx[p] \in UTILITY

(* Whether a transaction has a state to work on. *)
Loaded(p) == buf[p] # NoState /\ buf[p].counter < MAX_CODE
WorkLoaded ==
    \A p \in Proc :
        /\ step[p] = "work" => Loaded(p)
        /\ tx[p] = "store_new" /\ step[p] = "lock" => Loaded(p)
        /\ tx[p] = "increment" /\ step[p] \in {"unlock", "return"} /\ res[p] = "ok"
              => Loaded(p)

(* Whether a session has a passcode in memory. *)
SessionState ==
    \A p \in Proc :
        /\ pc[p] \in Asking \cup {"failures"} => s[p] # NoState
        /\ pc[p] = "loop" /\ (~turn[p].first_try \/ turn[p].dont_increment)
              => s[p] # NoState
        /\ pc[p] \in {"idle", "spass", "utility"} => s[p] = NoState /\ turn[p] = FirstTurn

(* How often a session has asked. *)
TriesBounded ==
    \A p \in Proc :
        /\ turn[p].tries <= Limit
        /\ pc[p] \in Asking \cup {"increment"} => turn[p].tries < Limit

ClockBounded == clock <= MAX_TIME

(***************************************************************************)
(* The inductive invariant of the control: PamTypeOK alone says neither    *)
(* that a transaction that works has loaded a state, nor that a session    *)
(* which asks has a passcode and a try left, which its types rest on.      *)
(***************************************************************************)
PamInv == /\ PamTypeOK /\ LockInv
          /\ LockPhase /\ CallPlace /\ WorkLoaded
          /\ SessionState /\ TriesBounded /\ ClockBounded

-----------------------------------------------------------------------------
(* A state with one field changed, as the transactions change it. *)
LEMMA StateUpdates ==
    ASSUME NEW x \in State
    PROVE  /\ x.counter < MAX_CODE => [x EXCEPT !.counter = @ + 1] \in State
           /\ \A c \in 0..MAX_CODE : [x EXCEPT !.counter = c] \in State
           /\ [x EXCEPT !.failures = @ + 1, !.recent = @ + 1] \in State
           /\ [x EXCEPT !.recent = 0] \in State
           /\ \A t \in Nat : [x EXCEPT !.channel_time = t] \in State
           /\ \A b \in BOOLEAN : [x EXCEPT !.disabled = b] \in State
           /\ \A c : [x EXCEPT !.counter = c].counter = c
           /\ \A b : [x EXCEPT !.disabled = b].disabled = b
<1> USE PppAssumption DEF State
<1>1. x.counter < MAX_CODE => [x EXCEPT !.counter = @ + 1] \in State
  OBVIOUS
<1>2. ASSUME NEW c \in 0..MAX_CODE PROVE [x EXCEPT !.counter = c] \in State
  OBVIOUS
<1>3. [x EXCEPT !.failures = @ + 1, !.recent = @ + 1] \in State
  <2>1. ASSUME NEW m \in Nat, NEW n \in Nat
        PROVE  [x EXCEPT !.failures = m, !.recent = n] \in State
    OBVIOUS
  <2>2. x.failures + 1 \in Nat /\ x.recent + 1 \in Nat
    OBVIOUS
  <2> QED
    BY <2>1, <2>2, Zenon
<1>4. [x EXCEPT !.recent = 0] \in State
  OBVIOUS
<1>5. ASSUME NEW t \in Nat PROVE [x EXCEPT !.channel_time = t] \in State
  OBVIOUS
<1>6. ASSUME NEW b \in BOOLEAN PROVE [x EXCEPT !.disabled = b] \in State
  OBVIOUS
<1>7. ASSUME NEW c PROVE /\ [x EXCEPT !.counter = c].counter = c
                         /\ [x EXCEPT !.disabled = c].disabled = c
  OBVIOUS
<1> QED
  BY <1>1, <1>2, <1>3, <1>4, <1>5, <1>6, <1>7, Zenon

(* The state of a fresh key is a state, and has passcodes left. *)
LEMMA NewStates ==
    ASSUME NEW k \in 1..MAX_KEYS
    PROVE  NewState(k) \in State /\ NewState(k) # NoState /\ NewState(k).counter = 0
<1>1. NewState(k) \in State
  BY PppAssumption DEF State, NewState
<1> QED
  BY <1>1, PppAssumption DEF NewState

(***************************************************************************)
(* What any of the transactions does once it has its state: it leaves the  *)
(* entry alone or changes the fields of its own operation in the state it  *)
(* loaded, never takes back rewound, and goes on to unlock.                *)
(***************************************************************************)
WorkStep(p) ==
    /\ step[p] = "work"
    /\ step' = [step EXCEPT ![p] = "unlock"]
    /\ \E r \in {"ok"} \cup TxError : res' = [res EXCEPT ![p] = r]
    /\ db' \in State \cup {NoState}
    /\ \/ buf' = buf
       \/ /\ tx[p] = "skip"
          /\ \E c \in 0..MAX_CODE : buf' = [buf EXCEPT ![p] = [buf[p] EXCEPT !.counter = c]]
    /\ UNCHANGED <<lockVars, tx, keys, clock>>
    /\ rewound' \in BOOLEAN /\ (rewound => rewound')
    /\ db' # db => OwnUpdate(p, buf[p], db')
    /\ db' # db /\ tx[p] = "store_new" => db' = buf[p]
    /\ db' # db /\ tx[p] \in {"increment", "skip"} => ~buf[p].disabled
    /\ db' # db /\ tx[p] = "skip" => rewound' \/ db'.counter >= buf[p].counter
    /\ tx[p] = "increment" /\ res'[p] = "ok" => db' = [buf[p] EXCEPT !.counter = @ + 1]
    /\ tx[p] = "oob_time" /\ res'[p] = "ok" => db' = [buf[p] EXCEPT !.channel_time = clock]

(* Every transaction under the lock is a WorkStep. *)
LEMMA WorkSteps ==
    ASSUME PamInv, NEW p \in Proc,
           \/ ppp_increment(p)
           \/ \E c \in 0..MAX_CODE : ppp_skip(p, c)
           \/ ppp_failures(p) \/ pam_sm_open_session(p) \/ ppp_oob_time(p)
           \/ ppp_store_new(p) \/ ppp_remove(p) \/ ppp_set_disabled(p)
    PROVE  WorkStep(p)
<1> USE DEF Working, state_store, Goto
<1>1. /\ db \in State \cup {NoState} /\ buf[p] \in State \cup {NoState}
      /\ step \in [Proc -> {"idle", "lock", "load", "work", "unlock", "return"}]
      /\ res \in [Proc -> {"ok"} \cup TxError]
      /\ buf \in [Proc -> State \cup {NoState}]
      /\ rewound \in BOOLEAN /\ clock \in Nat
  BY DEF PamInv, PamTypeOK, PppTypeOK
<1>2. step[p] = "work" => buf[p] \in State /\ buf[p] # NoState /\ buf[p].counter < MAX_CODE
  BY <1>1 DEF PamInv, WorkLoaded, Loaded
<1>3. {"STATE_IO_ERROR", "PPP_ERROR_POLICY", "PPP_ERROR_DISABLED", "PPP_ERROR_RANGE"}
        \subseteq TxError
  BY DEF TxError
<1>4. CASE ppp_increment(p)
  <2>1. CASE db' = db
    BY <1>1, <1>2, <1>3, <1>4, <2>1 DEF ppp_increment, WorkStep
  <2>2. CASE db' # db
    <3>1. /\ step[p] = "work" /\ tx[p] = "increment" /\ ~buf[p].disabled
          /\ db' = [buf[p] EXCEPT !.counter = @ + 1]
          /\ step' = [step EXCEPT ![p] = "unlock"]
          /\ res' = [res EXCEPT ![p] = "ok"]
          /\ UNCHANGED <<lockVars, tx, buf, keys, clock, rewound>>
      BY <1>4, <2>2 DEF ppp_increment
    <3>2. db' \in State /\ OwnUpdate(p, buf[p], db')
      BY <1>2, <3>1, StateUpdates, PppAssumption DEF OwnUpdate
    <3> QED
      BY <1>1, <1>3, <3>1, <3>2 DEF WorkStep
  <2> QED
    BY <2>1, <2>2
<1>5. CASE \E c \in 0..MAX_CODE : ppp_skip(p, c)
  <2>1. PICK c \in 0..MAX_CODE : ppp_skip(p, c)
    BY <1>5
  <2>2. CASE db' = db
    <3>1. /\ step[p] = "work" /\ tx[p] = "skip"
          /\ step' = [step EXCEPT ![p] = "unlock"]
          /\ \E r \in {"ok"} \cup TxError : res' = [res EXCEPT ![p] = r]
          /\ \/ buf' = buf
             \/ buf' = [buf EXCEPT ![p] = [buf[p] EXCEPT !.counter = c]]
          /\ UNCHANGED <<lockVars, tx, keys, clock>>
          /\ rewound' \in BOOLEAN /\ (rewound => rewound')
      BY <1>1, <1>3, <2>1 DEF ppp_skip
    <3> QED
      BY <1>1, <2>2, <3>1 DEF WorkStep
  <2>3. CASE db' # db
    <3>1. /\ step[p] = "work" /\ tx[p] = "skip" /\ ~buf[p].disabled
          /\ db' = [buf[p] EXCEPT !.counter = c]
          /\ buf' = [buf EXCEPT ![p] = [buf[p] EXCEPT !.counter = c]]
          /\ step' = [step EXCEPT ![p] = "unlock"]
          /\ res' = [res EXCEPT ![p] = "ok"]
          /\ UNCHANGED <<lockVars, tx, keys, clock>>
          /\ rewound' = (rewound \/ c < buf[p].counter)
      BY <2>1, <2>3 DEF ppp_skip
    <3>2. db' \in State /\ db'.counter = c /\ OwnUpdate(p, buf[p], db')
      <4>1. db' \in State /\ db'.counter = c
        BY <1>2, <3>1, StateUpdates
      <4> QED
        BY <1>2, <3>1, <4>1, PppAssumption DEF OwnUpdate
    <3>3. rewound' \in BOOLEAN /\ (rewound => rewound') /\ (rewound' \/ c >= buf[p].counter)
      <4>1. buf[p].counter \in Nat /\ c \in Nat
        BY <1>2, <3>1, PppAssumption DEF State
      <4>2. CASE c < buf[p].counter
        BY <1>1, <3>1, <4>2
      <4>3. CASE ~(c < buf[p].counter)
        BY <1>1, <3>1, <4>1, <4>3
      <4> QED
        BY <4>2, <4>3
    <3> QED
      BY <1>1, <1>3, <3>1, <3>2, <3>3 DEF WorkStep
  <2> QED
    BY <2>2, <2>3
<1>6. CASE ppp_failures(p)
  <2>1. CASE db' = db
    BY <1>1, <1>2, <1>3, <1>6, <2>1 DEF ppp_failures, WorkStep
  <2>2. CASE db' # db
    <3>1. /\ step[p] = "work" /\ tx[p] = "failures"
          /\ db' = [buf[p] EXCEPT !.failures = @ + 1, !.recent = @ + 1]
          /\ step' = [step EXCEPT ![p] = "unlock"]
          /\ res' = [res EXCEPT ![p] = "ok"]
          /\ UNCHANGED <<lockVars, tx, buf, keys, clock, rewound>>
      BY <1>6, <2>2 DEF ppp_failures
    <3>2. db' \in State /\ OwnUpdate(p, buf[p], db')
      BY <1>1, <1>2, <3>1, StateUpdates, PppAssumption DEF OwnUpdate
    <3> QED
      BY <1>1, <1>3, <3>1, <3>2 DEF WorkStep
  <2> QED
    BY <2>1, <2>2
<1>7. CASE pam_sm_open_session(p)
  <2>1. CASE db' = db
    BY <1>1, <1>2, <1>3, <1>7, <2>1 DEF pam_sm_open_session, WorkStep
  <2>2. CASE db' # db
    <3>1. /\ step[p] = "work" /\ tx[p] = "session"
          /\ db' = [buf[p] EXCEPT !.recent = 0]
          /\ step' = [step EXCEPT ![p] = "unlock"]
          /\ res' = [res EXCEPT ![p] = "ok"]
          /\ UNCHANGED <<lockVars, tx, buf, keys, clock, rewound>>
      BY <1>7, <2>2 DEF pam_sm_open_session
    <3>2. db' \in State /\ OwnUpdate(p, buf[p], db')
      BY <1>1, <1>2, <3>1, StateUpdates, PppAssumption DEF OwnUpdate
    <3> QED
      BY <1>1, <1>3, <3>1, <3>2 DEF WorkStep
  <2> QED
    BY <2>1, <2>2
<1>8. CASE ppp_oob_time(p)
  <2>1. CASE db' = db
    BY <1>1, <1>2, <1>3, <1>8, <2>1 DEF ppp_oob_time, WorkStep
  <2>2. CASE db' # db
    <3>1. /\ step[p] = "work" /\ tx[p] = "oob_time"
          /\ db' = [buf[p] EXCEPT !.channel_time = clock]
          /\ step' = [step EXCEPT ![p] = "unlock"]
          /\ res' = [res EXCEPT ![p] = "ok"]
          /\ UNCHANGED <<lockVars, tx, buf, keys, clock, rewound>>
      BY <1>8, <2>2 DEF ppp_oob_time
    <3>2. db' \in State /\ OwnUpdate(p, buf[p], db')
      <4>1. db' \in State
        BY <1>1, <1>2, <3>1, StateUpdates
      <4> QED
        BY <1>2, <3>1, <4>1, PppAssumption DEF OwnUpdate
    <3> QED
      BY <1>1, <1>3, <3>1, <3>2 DEF WorkStep
  <2> QED
    BY <2>1, <2>2
<1>9. CASE ppp_store_new(p)
  <2>1. CASE db' = db
    BY <1>1, <1>2, <1>3, <1>9, <2>1 DEF ppp_store_new, WorkStep
  <2>2. CASE db' # db
    <3>1. /\ step[p] = "work" /\ tx[p] = "store_new"
          /\ db' = buf[p]
          /\ step' = [step EXCEPT ![p] = "unlock"]
          /\ res' = [res EXCEPT ![p] = "ok"]
          /\ UNCHANGED <<lockVars, tx, buf, keys, clock, rewound>>
      BY <1>9, <2>2 DEF ppp_store_new
    <3>2. db' \in State /\ OwnUpdate(p, buf[p], db')
      BY <1>1, <1>2, <3>1, PppAssumption DEF OwnUpdate
    <3> QED
      BY <1>1, <1>3, <3>1, <3>2 DEF WorkStep
  <2> QED
    BY <2>1, <2>2
<1>10. CASE ppp_remove(p)
  <2>1. CASE db' = db
    BY <1>1, <1>2, <1>3, <1>10, <2>1 DEF ppp_remove, WorkStep
  <2>2. CASE db' # db
    <3>1. /\ step[p] = "work" /\ tx[p] = "remove"
          /\ db' = NoState
          /\ step' = [step EXCEPT ![p] = "unlock"]
          /\ res' = [res EXCEPT ![p] = "ok"]
          /\ UNCHANGED <<lockVars, tx, buf, keys, clock, rewound>>
      BY <1>10, <2>2 DEF ppp_remove
    <3>2. db' \in {NoState} /\ OwnUpdate(p, buf[p], db')
      BY <1>1, <1>2, <3>1, PppAssumption DEF OwnUpdate
    <3> QED
      BY <1>1, <1>3, <3>1, <3>2 DEF WorkStep
  <2> QED
    BY <2>1, <2>2
<1>11. CASE ppp_set_disabled(p)
  <2>1. CASE db' = db
    BY <1>1, <1>2, <1>3, <1>11, <2>1 DEF ppp_set_disabled, WorkStep
  <2>2. CASE db' # db
    <3>1. /\ step[p] = "work" /\ tx[p] = "flags"
          /\ \E b \in BOOLEAN : db' = [buf[p] EXCEPT !.disabled = b]
          /\ step' = [step EXCEPT ![p] = "unlock"]
          /\ res' = [res EXCEPT ![p] = "ok"]
          /\ UNCHANGED <<lockVars, tx, buf, keys, clock, rewound>>
      BY <1>11, <2>2 DEF ppp_set_disabled
    <3>2. db' \in State /\ OwnUpdate(p, buf[p], db')
      <4>1. PICK b \in BOOLEAN : db' = [buf[p] EXCEPT !.disabled = b]
        BY <3>1
      <4>2. db' \in State /\ db'.disabled = b
        BY <1>2, <3>1, <4>1, StateUpdates
      <4> QED
        BY <1>2, <3>1, <4>1, <4>2, PppAssumption DEF OwnUpdate
    <3> QED
      BY <1>1, <1>3, <3>1, <3>2 DEF WorkStep
  <2> QED
    BY <2>1, <2>2
<1> QED
  BY <1>4, <1>5, <1>6, <1>7, <1>8, <1>9, <1>10, <1>11
-----------------------------------------------------------------------------
(* The lock of p moves by a step of the lock protocol or not at all. *)
LEMMA PamLockStep == [PamNext]_vars => [Next]_lockVars
<1> SUFFICES ASSUME [PamNext]_vars PROVE [Next]_lockVars
  OBVIOUS
<1> USE DEF pppVars, vars, Next
<1>1. CASE UNCHANGED vars
  BY <1>1
<1>2. ASSUME NEW p \in Proc, Transaction(p) PROVE [Next]_lockVars
  BY <1>2 DEF Transaction, state_lock, ppp_state_load, ppp_increment, ppp_skip, ppp_failures,
              pam_sm_open_session, ppp_oob_time, ppp_store_new, ppp_remove,
              ppp_set_disabled, state_unlock
<1>3. ASSUME NEW p \in Proc, Advance(p) PROVE [Next]_lockVars
  BY <1>2, <1>3 DEF Advance, Retire, CallFor, ph_validate_spass, loop_head, ph_increment, ph_oob_send,
              ph_oob_recorded, ph_oob_wait, no_answer, answer_dot, secure_request,
              answer_passcode, failure_counted, utility_done
<1>4. ASSUME NEW p \in Proc, ph_init(p) \/ utility_call(p) \/ killed(p) PROVE [Next]_lockVars
  BY <1>4 DEF ph_init, utility_call, killed, CallFor
<1>5. CASE tick \/ finished
  BY <1>5 DEF tick, finished
<1> QED
  BY <1>1, <1>3, <1>4, <1>5 DEF PamNext

(* One step of db_file_lock leaves its caller waiting, inside or refused. *)
LEMMA LockTurn ==
    ASSUME LockInv, NEW p \in Proc, db_file_lock(p) \/ db_file_lock_refused(p)
    PROVE  /\ lpc' = [lpc EXCEPT ![p] = lpc'[p]]
           /\ lpc'[p] \in {"trying", "held"} \cup LockError
           /\ ~OwnsLock(p)
<1>1. lpc \in [Proc -> LockPc]
  BY DEF LockInv, TypeOK
<1> QED
  BY <1>1 DEF db_file_lock, db_file_lock_open, db_file_lock_try, db_file_lock_giveup,
         db_file_lock_refused, LockError, OwnsLock, Unlocked

(* A step of a transaction keeps the invariant. *)
LEMMA TransactionKeepsInv ==
    ASSUME PamInv, LockInv', NEW p \in Proc, Transaction(p), UNCHANGED pamVars
    PROVE  PamInv'
<1> USE DEF Goto
<1>1. /\ step \in [Proc -> {"idle", "lock", "load", "work", "unlock", "return"}]
      /\ tx \in [Proc -> Tx] /\ buf \in [Proc -> State \cup {NoState}]
      /\ res \in [Proc -> {"ok"} \cup TxError] /\ db \in State \cup {NoState}
      /\ lpc \in [Proc -> LockPc] /\ rewound \in BOOLEAN
  BY DEF PamInv, PamTypeOK, PppTypeOK, LockInv, TypeOK
<1>2. UNCHANGED <<cfg, pc, s, turn, pam, ops, judged, accepted, sent, aborted>>
  BY DEF pamVars
<1>3. TypeOK'
  BY DEF LockInv
<1>4. SessionState' /\ TriesBounded'
  BY <1>2 DEF PamInv, SessionState, TriesBounded, Limit
<1>5. CASE state_lock(p)
  <2>1. /\ step[p] = "lock"
        /\ lpc' = [lpc EXCEPT ![p] = lpc'[p]]
        /\ lpc'[p] \in {"trying", "held"} \cup LockError
        /\ UNCHANGED <<db, tx, buf, keys, clock, rewound>>
    BY <1>5, LockTurn DEF state_lock, PamInv
  <2>2. \/ /\ lpc'[p] = "trying"
           /\ UNCHANGED <<step, res>>
        \/ /\ lpc'[p] = "held"
           /\ step' = [step EXCEPT ![p] = IF tx[p] = "store_new" THEN "work" ELSE "load"]
           /\ res' = [res EXCEPT ![p] = "ok"]
        \/ /\ lpc'[p] \in LockError
           /\ step' = [step EXCEPT ![p] = "return"]
           /\ \E r \in LockError : res' = [res EXCEPT ![p] = r]
    BY <1>5, <2>1 DEF state_lock, LockError
  <2>3. PamTypeOK'
    BY <1>1, <1>2, <1>3, <2>1, <2>2 DEF PamInv, PamTypeOK, PppTypeOK, TxError
  <2>4. LockPhase'
    BY <1>1, <2>1, <2>2 DEF PamInv, LockPhase, Unlocked, OwnsLock, LockError
  <2>5. CallPlace' /\ WorkLoaded' /\ ClockBounded'
    BY <1>1, <1>2, <2>1, <2>2 DEF PamInv, CallPlace, WorkLoaded, Loaded, ClockBounded,
          Quiet, LockError
  <2> QED
    BY <1>4, <2>3, <2>4, <2>5 DEF PamInv
<1>6. CASE ppp_state_load(p)
  <2>1. PamTypeOK'
    BY <1>1, <1>2, <1>3, <1>6 DEF ppp_state_load, PamInv, PamTypeOK, PppTypeOK, TxError
  <2>2. LockPhase'
    BY <1>1, <1>6 DEF ppp_state_load, lockVars, PamInv, LockPhase, Unlocked, OwnsLock, LockError
  <2>3. CallPlace' /\ ClockBounded'
    BY <1>1, <1>2, <1>6 DEF ppp_state_load, PamInv, CallPlace, ClockBounded, Quiet
  <2>4. WorkLoaded'
    BY <1>1, <1>6, PppAssumption DEF ppp_state_load, PamInv, WorkLoaded, Loaded, State
  <2> QED
    BY <1>4, <2>1, <2>2, <2>3, <2>4 DEF PamInv
<1>7. CASE WorkStep(p)
  <2>1. PamTypeOK'
    <3>1. buf' \in [Proc -> State \cup {NoState}]
      <4>1. buf[p] \in State
        BY <1>1, <1>7 DEF WorkStep, PamInv, WorkLoaded, Loaded
      <4>2. \A c \in 0..MAX_CODE : [buf[p] EXCEPT !.counter = c] \in State
        BY <4>1, StateUpdates
      <4> QED
        BY <1>1, <1>7, <4>2 DEF WorkStep
    <3>2. /\ step' \in [Proc -> {"idle", "lock", "load", "work", "unlock", "return"}]
          /\ res' \in [Proc -> {"ok"} \cup TxError]
      BY <1>1, <1>7 DEF WorkStep
    <3>3. PppTypeOK'
      BY <1>3, <1>7, <3>1, <3>2 DEF WorkStep, PamInv, PamTypeOK, PppTypeOK
    <3> QED
      BY <1>2, <3>3 DEF PamInv, PamTypeOK
  <2>2. LockPhase'
    BY <1>1, <1>7 DEF WorkStep, lockVars, PamInv, LockPhase, Unlocked, OwnsLock, LockError
  <2>3. CallPlace' /\ ClockBounded'
    BY <1>1, <1>2, <1>7 DEF WorkStep, PamInv, CallPlace, ClockBounded, Quiet
  <2>4. WorkLoaded'
    BY <1>1, <1>7 DEF WorkStep, PamInv, WorkLoaded, Loaded
  <2> QED
    BY <1>4, <2>1, <2>2, <2>3, <2>4 DEF PamInv
<1>8. CASE state_unlock(p)
  <2>1. /\ step[p] = "unlock"
        /\ UNCHANGED <<db, tx, buf, res, keys, clock, rewound>>
        /\ \/ /\ lpc' = [lpc EXCEPT ![p] = "unlinked"]
              /\ step' = [step EXCEPT ![p] = "unlock"]
           \/ /\ lpc' = [lpc EXCEPT ![p] = "none"]
              /\ step' = [step EXCEPT ![p] = "return"]
    BY <1>1, <1>8 DEF state_unlock, db_file_unlock
  <2>2. PamTypeOK'
    BY <1>1, <1>2, <1>3, <2>1 DEF PamInv, PamTypeOK, PppTypeOK
  <2>3. LockPhase'
    BY <1>1, <2>1 DEF PamInv, LockPhase, Unlocked, OwnsLock, LockError
  <2>4. CallPlace' /\ WorkLoaded' /\ ClockBounded'
    BY <1>1, <1>2, <2>1 DEF PamInv, CallPlace, WorkLoaded, Loaded, ClockBounded, Quiet
  <2> QED
    BY <1>4, <2>2, <2>3, <2>4 DEF PamInv
<1> QED
  BY <1>5, <1>6, <1>7, <1>8, WorkSteps DEF Transaction

(* A call of a transaction, its return, and steps beside it. *)
LEMMA PppFrame ==
    ASSUME PamInv, LockInv', NEW p \in Proc,
           \/ UNCHANGED pppVars
           \/ step[p] = "return" /\ Retire(p)
           \/ /\ step[p] = "idle"
              /\ \E t \in Tx \ {"store_new"} : Call(p, t)
              /\ UNCHANGED <<lockVars, db, buf, keys, clock, rewound>>
    PROVE  PppTypeOK' /\ LockPhase' /\ WorkLoaded' /\ ClockBounded'
<1>1. TypeOK' /\ PppTypeOK /\ LockPhase /\ WorkLoaded /\ ClockBounded
  BY DEF LockInv, PamInv, PamTypeOK
<1>2. CASE UNCHANGED pppVars
  BY <1>1, <1>2 DEF pppVars, lockVars, txVars, PppTypeOK, LockPhase, WorkLoaded, Loaded,
                    ClockBounded, Unlocked, OwnsLock
<1>3. CASE step[p] = "return" /\ Retire(p)
  <2>1. PppTypeOK'
    BY <1>1, <1>3 DEF Retire, PppTypeOK, Tx
  <2>2. LockPhase' /\ WorkLoaded' /\ ClockBounded'
    BY <1>1, <1>3 DEF Retire, lockVars, PppTypeOK, LockPhase, WorkLoaded, Loaded, ClockBounded,
                      Unlocked, OwnsLock, LockError
  <2> QED
    BY <2>1, <2>2
<1>4. ASSUME step[p] = "idle", NEW t \in Tx \ {"store_new"}, Call(p, t),
             UNCHANGED <<lockVars, db, buf, keys, clock, rewound>>
      PROVE  PppTypeOK' /\ LockPhase' /\ WorkLoaded' /\ ClockBounded'
  <2>1. PppTypeOK'
    BY <1>1, <1>4 DEF Call, PppTypeOK
  <2>2. LockPhase' /\ WorkLoaded' /\ ClockBounded'
    BY <1>1, <1>4 DEF Call, lockVars, PppTypeOK, LockPhase, WorkLoaded, Loaded, ClockBounded,
                      Unlocked, OwnsLock, LockError
  <2> QED
    BY <2>1, <2>2
<1> QED
  BY <1>2, <1>3, <1>4

(* What the configuration bounds: one to five tries. *)
LEMMA LimitType == cfg \in Config => Limit \in 1..5 /\ cfg \in cfg_t
BY PamAssumption DEF cfg_t, Limit

(* What the assignments to tries, first_try, dont_increment, oob_sent and times do. *)
TurnIs(f, p, n, ft, di) ==
    /\ f \in [Proc -> Turn]
    /\ f[p].tries = n /\ f[p].first_try = ft /\ f[p].dont_increment = di
    /\ \A q \in Proc \ {p} : f[q] = turn[q]

(* Each assignment to the variables of a turn, as the code makes it. *)
LEMMA TurnChanges ==
    ASSUME turn \in [Proc -> Turn], NEW p \in Proc, NEW ok \in BOOLEAN
    PROVE  LET x == turn[p] IN
           /\ TurnIs([turn EXCEPT ![p] = FirstTurn], p, 0, TRUE, FALSE)
           /\ TurnIs([turn EXCEPT ![p].first_try = FALSE],
                     p, x.tries, FALSE, x.dont_increment)
           /\ TurnIs([turn EXCEPT ![p].first_try = FALSE, ![p].dont_increment = FALSE],
                     p, x.tries, FALSE, FALSE)
           /\ TurnIs([turn EXCEPT ![p].times = 0, ![p].dont_increment = TRUE, ![p].oob_sent = @ \/ ok],
                     p, x.tries, x.first_try, TRUE)
           /\ \A n \in 0..WAITS :
                TurnIs([turn EXCEPT ![p].times = n], p, x.tries, x.first_try, x.dont_increment)
           /\ TurnIs([turn EXCEPT ![p].dont_increment = TRUE],
                     p, x.tries, x.first_try, TRUE)
           /\ x.tries < 5 => TurnIs([turn EXCEPT ![p].tries = @ + 1, ![p].dont_increment = TRUE],
                     p, x.tries + 1, x.first_try, TRUE)
           /\ x.tries < 5 => TurnIs([turn EXCEPT ![p].tries = @ + 1],
                     p, x.tries + 1, x.first_try, x.dont_increment)
<1> DEFINE x == turn[p]
<1>1. x \in Turn
  OBVIOUS
<1>2. ASSUME NEW y \in Turn
      PROVE  TurnIs([turn EXCEPT ![p] = y], p, y.tries, y.first_try, y.dont_increment)
  BY DEF TurnIs
<1>3. FirstTurn \in Turn
  BY PamAssumption DEF FirstTurn, Turn
<1>4. /\ FirstTurn.tries = 0 /\ FirstTurn.first_try = TRUE /\ FirstTurn.dont_increment = FALSE
  BY DEF FirstTurn
<1>5. TurnIs([turn EXCEPT ![p].first_try = FALSE],
             p, x.tries, FALSE, x.dont_increment)
  <2> DEFINE y == [x EXCEPT !.first_try = FALSE]
  <2>1. y \in Turn
    BY <1>1 DEF Turn
  <2>2. y.tries = x.tries /\ y.first_try = FALSE /\ y.dont_increment = x.dont_increment
    BY <1>1 DEF Turn
  <2>3. [turn EXCEPT ![p].first_try = FALSE] = [turn EXCEPT ![p] = y]
    OBVIOUS
  <2> HIDE DEF y
  <2> QED
    BY <1>2, <2>1, <2>2, <2>3
<1>6. TurnIs([turn EXCEPT ![p].first_try = FALSE, ![p].dont_increment = FALSE],
             p, x.tries, FALSE, FALSE)
  <2> DEFINE y == [x EXCEPT !.first_try = FALSE, !.dont_increment = FALSE]
  <2>1. y \in Turn
    BY <1>1 DEF Turn
  <2>2. y.tries = x.tries /\ y.first_try = FALSE /\ y.dont_increment = FALSE
    BY <1>1 DEF Turn
  <2>3. [turn EXCEPT ![p].first_try = FALSE, ![p].dont_increment = FALSE] = [turn EXCEPT ![p] = y]
    OBVIOUS
  <2> HIDE DEF y
  <2> QED
    BY <1>2, <2>1, <2>2, <2>3
<1>7. TurnIs([turn EXCEPT ![p].times = 0, ![p].dont_increment = TRUE, ![p].oob_sent = @ \/ ok],
             p, x.tries, x.first_try, TRUE)
  <2> DEFINE y == [x EXCEPT !.times = 0, !.dont_increment = TRUE, !.oob_sent = @ \/ ok]
  <2>1. y \in Turn
    <3>1. ASSUME NEW n \in 0..WAITS, NEW b \in BOOLEAN
          PROVE  [x EXCEPT !.times = n, !.dont_increment = TRUE, !.oob_sent = b] \in Turn
      BY <1>1 DEF Turn
    <3>2. 0 \in 0..WAITS
      BY PamAssumption
    <3>3. (x.oob_sent \/ ok) \in BOOLEAN
      OBVIOUS
    <3> QED
      BY <3>1, <3>2, <3>3
  <2>2. y.tries = x.tries /\ y.first_try = x.first_try /\ y.dont_increment = TRUE
    BY <1>1 DEF Turn
  <2>3. [turn EXCEPT ![p].times = 0, ![p].dont_increment = TRUE, ![p].oob_sent = @ \/ ok] = [turn EXCEPT ![p] = y]
    OBVIOUS
  <2> HIDE DEF y
  <2> QED
    BY <1>2, <2>1, <2>2, <2>3
<1>w. ASSUME NEW n \in 0..WAITS
      PROVE  TurnIs([turn EXCEPT ![p].times = n], p, x.tries, x.first_try, x.dont_increment)
  <2> DEFINE y == [x EXCEPT !.times = n]
  <2>1. y \in Turn
    BY <1>1 DEF Turn
  <2>2. y.tries = x.tries /\ y.first_try = x.first_try /\ y.dont_increment = x.dont_increment
    BY <1>1 DEF Turn
  <2>3. [turn EXCEPT ![p].times = n] = [turn EXCEPT ![p] = y]
    OBVIOUS
  <2> HIDE DEF y
  <2> QED
    BY <1>2, <2>1, <2>2, <2>3
<1>8. TurnIs([turn EXCEPT ![p].dont_increment = TRUE],
             p, x.tries, x.first_try, TRUE)
  <2> DEFINE y == [x EXCEPT !.dont_increment = TRUE]
  <2>1. y \in Turn
    BY <1>1 DEF Turn
  <2>2. y.tries = x.tries /\ y.first_try = x.first_try /\ y.dont_increment = TRUE
    BY <1>1 DEF Turn
  <2>3. [turn EXCEPT ![p].dont_increment = TRUE] = [turn EXCEPT ![p] = y]
    OBVIOUS
  <2> HIDE DEF y
  <2> QED
    BY <1>2, <2>1, <2>2, <2>3
<1>9. ASSUME x.tries < 5 PROVE TurnIs([turn EXCEPT ![p].tries = @ + 1, ![p].dont_increment = TRUE],
             p, x.tries + 1, x.first_try, TRUE)
  <2> DEFINE y == [x EXCEPT !.tries = @ + 1, !.dont_increment = TRUE]
  <2>1. y \in Turn
    <3>1. ASSUME NEW n \in 0..5 PROVE [x EXCEPT !.tries = n, !.dont_increment = TRUE] \in Turn
      BY <1>1 DEF Turn
    <3>2. x.tries + 1 \in 0..5
      BY <1>9, <1>1 DEF Turn
    <3> QED
      BY <3>1, <3>2
  <2>2. y.tries = x.tries + 1 /\ y.first_try = x.first_try /\ y.dont_increment = TRUE
    BY <1>1 DEF Turn
  <2>3. [turn EXCEPT ![p].tries = @ + 1, ![p].dont_increment = TRUE] = [turn EXCEPT ![p] = y]
    OBVIOUS
  <2> HIDE DEF y
  <2> QED
    BY <1>2, <2>1, <2>2, <2>3
<1>10. ASSUME x.tries < 5 PROVE TurnIs([turn EXCEPT ![p].tries = @ + 1],
             p, x.tries + 1, x.first_try, x.dont_increment)
  <2> DEFINE y == [x EXCEPT !.tries = @ + 1]
  <2>1. y \in Turn
    BY <1>10, <1>1 DEF Turn
  <2>2. y.tries = x.tries + 1 /\ y.first_try = x.first_try /\ y.dont_increment = x.dont_increment
    BY <1>1 DEF Turn
  <2>3. [turn EXCEPT ![p].tries = @ + 1] = [turn EXCEPT ![p] = y]
    OBVIOUS
  <2> HIDE DEF y
  <2> QED
    BY <1>2, <2>1, <2>2, <2>3
<1> QED
  BY <1>2, <1>3, <1>4, <1>5, <1>6, <1>7, <1>w, <1>8, <1>9, <1>10

(* A session's own steps keep the invariant. *)
LEMMA SessionKeepsInv ==
    ASSUME PamInv, LockInv', NEW p \in Proc,
           \/ ph_validate_spass(p) \/ loop_head(p) \/ ph_increment(p) \/ ph_oob_send(p)
           \/ ph_oob_recorded(p) \/ ph_oob_wait(p) \/ no_answer(p) \/ answer_dot(p)
           \/ secure_request(p) \/ answer_passcode(p) \/ failure_counted(p)
           \/ utility_done(p) \/ ph_init(p)
    PROVE  PamInv'
<1> USE DEF At, Returned, Move, CallFor, ph_fini, hist, pamVars
<1>1. /\ step \in [Proc -> {"idle", "lock", "load", "work", "unlock", "return"}]
      /\ tx \in [Proc -> Tx] /\ buf \in [Proc -> State \cup {NoState}]
      /\ pc \in [Proc -> PamPc] /\ s \in [Proc -> State \cup {NoState}]
      /\ turn \in [Proc -> Turn] /\ pam \in [Proc -> PamResult]
      /\ cfg \in Config /\ Limit \in 1..5
      /\ judged \in [Passcode -> Nat] /\ accepted \in [Passcode -> Nat]
      /\ clock \in 0..MAX_TIME /\ ops \in 0..MAX_OPS
  BY LimitType, PamAssumption DEF PamInv, PamTypeOK, PppTypeOK, ClockBounded
<1>2. CallPlace /\ SessionState /\ TriesBounded /\ PamTypeOK
  BY DEF PamInv
<1>3. FirstTurn \in Turn /\ FirstTurn.tries = 0 /\ FirstTurn.first_try /\ ~FirstTurn.dont_increment
  BY PamAssumption DEF FirstTurn, Turn
<1>t. /\ TurnIs([turn EXCEPT ![p] = FirstTurn], p, 0, TRUE, FALSE)
      /\ TurnIs([turn EXCEPT ![p].first_try = FALSE],
                p, turn[p].tries, FALSE, turn[p].dont_increment)
      /\ TurnIs([turn EXCEPT ![p].first_try = FALSE, ![p].dont_increment = FALSE],
                p, turn[p].tries, FALSE, FALSE)
      /\ TurnIs([turn EXCEPT ![p].dont_increment = TRUE],
                p, turn[p].tries, turn[p].first_try, TRUE)
      /\ \A ok \in BOOLEAN :
           TurnIs([turn EXCEPT ![p].times = 0, ![p].dont_increment = TRUE, ![p].oob_sent = @ \/ ok],
                  p, turn[p].tries, turn[p].first_try, TRUE)
      /\ \A n \in 0..WAITS :
           TurnIs([turn EXCEPT ![p].times = n],
                  p, turn[p].tries, turn[p].first_try, turn[p].dont_increment)
  BY <1>1, TurnChanges
<1>u. turn[p].tries < 5 =>
        /\ TurnIs([turn EXCEPT ![p].tries = @ + 1, ![p].dont_increment = TRUE],
                  p, turn[p].tries + 1, turn[p].first_try, TRUE)
        /\ TurnIs([turn EXCEPT ![p].tries = @ + 1],
                  p, turn[p].tries + 1, turn[p].first_try, turn[p].dont_increment)
  BY <1>1, TurnChanges
<1>w. ASSUME NEW n \in 0..WAITS, turn' = [turn EXCEPT ![p].times = n]
      PROVE  TurnIs(turn', p, turn[p].tries, turn[p].first_try, turn[p].dont_increment)
  BY <1>t, <1>w
<1>o. ASSUME NEW ok \in BOOLEAN, oob_done(p, ok)
      PROVE  /\ pc' = [pc EXCEPT ![p] = "ask"] \/ pc' = [pc EXCEPT ![p] = "loop"]
             /\ \E di \in BOOLEAN : TurnIs(turn', p, turn[p].tries, turn[p].first_try, di)
  <2>1. 0 \in 0..WAITS /\ turn[p].dont_increment \in BOOLEAN
    BY <1>1, PamAssumption DEF Turn
  <2>2. CASE cfg.pam_oob = 3
    BY <1>o, <1>w, <2>1, <2>2 DEF oob_done
  <2>3. CASE cfg.pam_oob # 3
    <3>1. turn' = [turn EXCEPT ![p].times = 0, ![p].dont_increment = TRUE, ![p].oob_sent = @ \/ ok]
      BY <1>o, <2>3 DEF oob_done
    <3>2. TurnIs(turn', p, turn[p].tries, turn[p].first_try, TRUE)
      BY <1>t, <3>1
    <3> QED
      BY <1>o, <2>3, <3>2 DEF oob_done
  <2> QED
    BY <2>2, <2>3
<1>4. ASSUME PppTypeOK', LockPhase', WorkLoaded', ClockBounded',
             PamTypeOK', CallPlace', SessionState', TriesBounded'
      PROVE  PamInv'
  BY <1>4 DEF PamInv
<1>5. CASE ph_validate_spass(p)
  <2>1. PppTypeOK' /\ LockPhase' /\ WorkLoaded' /\ ClockBounded'
    BY <1>5, PppFrame DEF ph_validate_spass
  <2>2. PamTypeOK'
    BY <1>1, <1>2, <1>3, <1>5, <2>1 DEF ph_validate_spass, PamTypeOK, PamPc, PamResult
  <2>3. CallPlace'
    BY <1>1, <1>2, <1>5 DEF ph_validate_spass, Retire, CallPlace, Quiet
  <2>4. SessionState' /\ TriesBounded'
    BY <1>1, <1>2, <1>3, <1>5 DEF ph_validate_spass, SessionState, TriesBounded, Limit, Asking
  <2> QED
    BY <1>4, <2>1, <2>2, <2>3, <2>4
<1>6. CASE loop_head(p)
  <2>1. PppTypeOK' /\ LockPhase' /\ WorkLoaded' /\ ClockBounded'
    BY <1>6, PppFrame DEF loop_head, Tx
  <2>2. PamTypeOK'
    <3>1. turn' \in [Proc -> Turn]
      <4>1. \/ turn' = turn
            \/ turn' = [turn EXCEPT ![p] = FirstTurn]
            \/ turn' = [turn EXCEPT ![p].first_try = FALSE]
            \/ turn' = [turn EXCEPT ![p].first_try = FALSE, ![p].dont_increment = FALSE]
        BY <1>6 DEF loop_head
      <4> QED
        BY <1>1, <1>t, <4>1 DEF TurnIs
    <3>2. pc' \in [Proc -> PamPc] /\ s' \in [Proc -> State \cup {NoState}]
      BY <1>1, <1>6 DEF loop_head, PamPc, AskOrSend
    <3>3. /\ pam' \in [Proc -> PamResult] /\ cfg' \in Config
          /\ judged' \in [Passcode -> Nat] /\ accepted' \in [Passcode -> Nat]
          /\ sent' \subseteq 0..MAX_TIME /\ aborted' \in BOOLEAN /\ ops' \in 0..MAX_OPS
      BY <1>1, <1>2, <1>6 DEF loop_head, PamTypeOK, PamResult, AskOrSend
    <3> QED
      BY <2>1, <3>1, <3>2, <3>3 DEF PamTypeOK
  <2>3. CallPlace'
    BY <1>1, <1>2, <1>6 DEF loop_head, CallPlace, Quiet, Call, AskOrSend, pppVars, txVars
  <2>4. SessionState' /\ TriesBounded'
    BY <1>1, <1>2, <1>3, <1>6 DEF loop_head, SessionState, TriesBounded, Limit, Asking, Turn, AskOrSend
  <2> QED
    BY <1>4, <2>1, <2>2, <2>3, <2>4
<1>7. CASE ph_increment(p)
  <2>1. PppTypeOK' /\ LockPhase' /\ WorkLoaded' /\ ClockBounded'
    BY <1>7, PppFrame DEF ph_increment
  <2>2. PamTypeOK'
    BY <1>1, <1>2, <1>3, <1>7, <2>1 DEF ph_increment, PamTypeOK, PamPc, PamResult, AskOrSend, IncrementResult, Retire
  <2>3. CallPlace'
    BY <1>1, <1>2, <1>7 DEF ph_increment, CallPlace, Quiet, Retire, AskOrSend
  <2>4. SessionState' /\ TriesBounded'
    <3>1. CASE res[p] = "ok"
      <4>1. /\ pc[p] = "increment" /\ UNCHANGED <<turn, cfg>>
            /\ s' = [s EXCEPT ![p] = buf[p]]
            /\ pc' = [pc EXCEPT ![p] = AskOrSend] /\ AskOrSend \in {"oob", "ask"}
        BY <1>7, <3>1 DEF ph_increment, AskOrSend
      <4>2. buf[p] # NoState
        BY <1>2, <1>7, <3>1 DEF ph_increment, CallPlace, PamInv, WorkLoaded, Loaded
      <4> QED
        BY <1>1, <1>2, <4>1, <4>2 DEF SessionState, TriesBounded, Limit, Asking
    <3>2. CASE res[p] # "ok"
      BY <1>1, <1>2, <1>3, <1>7, <3>2 DEF ph_increment, SessionState, TriesBounded, Limit, Asking
    <3> QED
      BY <3>1, <3>2
  <2> QED
    BY <1>4, <2>1, <2>2, <2>3, <2>4
<1>8. CASE ph_oob_send(p)
  <2>1. PppTypeOK' /\ LockPhase' /\ WorkLoaded' /\ ClockBounded'
    BY <1>8, PppFrame DEF ph_oob_send, Tx, oob_done
  <2>0. /\ \E l \in {"oob_time", "ask", "loop"} : pc' = [pc EXCEPT ![p] = l]
        /\ \E di \in BOOLEAN : TurnIs(turn', p, turn[p].tries, turn[p].first_try, di)
    <3>1. CASE oob_done(p, FALSE)
      BY <1>o, <3>1
    <3>2. CASE pc' = [pc EXCEPT ![p] = "oob_time"] /\ UNCHANGED turn
      BY <1>1, <3>2 DEF TurnIs, Turn
    <3> QED
      BY <1>8, <3>1, <3>2 DEF ph_oob_send
  <2>2. PamTypeOK'
    <3>1. turn' \in [Proc -> Turn]
      BY <2>0 DEF TurnIs
    <3>2. pc' \in [Proc -> PamPc] /\ s' \in [Proc -> State \cup {NoState}]
      BY <1>1, <1>8 DEF ph_oob_send, PamPc, oob_done
    <3>3. /\ pam' \in [Proc -> PamResult] /\ cfg' \in Config
          /\ judged' \in [Passcode -> Nat] /\ accepted' \in [Passcode -> Nat]
          /\ sent' \subseteq 0..MAX_TIME /\ aborted' \in BOOLEAN /\ ops' \in 0..MAX_OPS
      BY <1>1, <1>2, <1>8 DEF ph_oob_send, PamTypeOK, PamResult, oob_done
    <3> QED
      BY <2>1, <3>1, <3>2, <3>3 DEF PamTypeOK
  <2>3. CallPlace'
    BY <1>1, <1>2, <1>8 DEF ph_oob_send, CallPlace, Quiet, Call, oob_done, pppVars, txVars
  <2>4. SessionState' /\ TriesBounded'
    <3>1. /\ pc[p] \in Asking \ {"idle", "spass", "utility"} /\ UNCHANGED <<s, cfg>>
      BY <1>8 DEF ph_oob_send, Asking
    <3> QED
      BY <1>1, <1>2, <2>0, <3>1 DEF SessionState, TriesBounded, Limit, Asking, TurnIs
  <2> QED
    BY <1>4, <2>1, <2>2, <2>3, <2>4
<1>9. CASE ph_oob_recorded(p)
  <2>1. PppTypeOK' /\ LockPhase' /\ WorkLoaded' /\ ClockBounded'
    BY <1>9, PppFrame DEF ph_oob_recorded, oob_done
  <2>0. /\ \E l \in {"exec", "ask", "loop"} : pc' = [pc EXCEPT ![p] = l]
        /\ \E di \in BOOLEAN : TurnIs(turn', p, turn[p].tries, turn[p].first_try, di)
    <3>1. CASE oob_done(p, FALSE)
      BY <1>o, <3>1
    <3>2. CASE pc' = [pc EXCEPT ![p] = "exec"] /\ turn' = [turn EXCEPT ![p].times = WAITS]
      <4>1. WAITS \in 0..WAITS /\ turn[p].dont_increment \in BOOLEAN
        BY <1>1, PamAssumption DEF Turn
      <4> QED
        BY <1>w, <3>2, <4>1
    <3> QED
      BY <1>9, <3>1, <3>2 DEF ph_oob_recorded
  <2>2. PamTypeOK'
    <3>1. turn' \in [Proc -> Turn]
      BY <2>0 DEF TurnIs
    <3>2. pc' \in [Proc -> PamPc] /\ s' \in [Proc -> State \cup {NoState}]
      BY <1>1, <1>9 DEF ph_oob_recorded, PamPc, oob_done
    <3>3. /\ pam' \in [Proc -> PamResult] /\ cfg' \in Config
          /\ judged' \in [Passcode -> Nat] /\ accepted' \in [Passcode -> Nat]
          /\ sent' \subseteq 0..MAX_TIME /\ aborted' \in BOOLEAN /\ ops' \in 0..MAX_OPS
      BY <1>1, <1>2, <1>9 DEF ph_oob_recorded, PamTypeOK, PamResult, oob_done
    <3> QED
      BY <2>1, <3>1, <3>2, <3>3 DEF PamTypeOK
  <2>3. CallPlace'
    BY <1>1, <1>2, <1>9 DEF ph_oob_recorded, CallPlace, Quiet, Retire, oob_done
  <2>4. SessionState' /\ TriesBounded'
    <3>1. /\ pc[p] \in Asking \ {"idle", "spass", "utility"} /\ UNCHANGED <<s, cfg>>
      BY <1>9 DEF ph_oob_recorded, Asking
    <3> QED
      BY <1>1, <1>2, <2>0, <3>1 DEF SessionState, TriesBounded, Limit, Asking, TurnIs
  <2> QED
    BY <1>4, <2>1, <2>2, <2>3, <2>4
<1>10. CASE ph_oob_wait(p)
  <2>1. PppTypeOK' /\ LockPhase' /\ WorkLoaded' /\ ClockBounded'
    BY <1>10, PppFrame DEF ph_oob_wait
  <2>0. /\ \E l \in {"exec", "ask", "loop"} : pc' = [pc EXCEPT ![p] = l]
        /\ \E di \in BOOLEAN : TurnIs(turn', p, turn[p].tries, turn[p].first_try, di)
    <3>1. CASE \E ok \in BOOLEAN : oob_done(p, ok)
      BY <1>o, <3>1
    <3>2. CASE /\ pc[p] = "exec" /\ UNCHANGED pc /\ turn[p].times > 0
               /\ turn' = [turn EXCEPT ![p].times = @ - 1]
      <4>1. turn[p].times - 1 \in 0..WAITS /\ turn[p].dont_increment \in BOOLEAN
        BY <1>1, <3>2, PamAssumption DEF Turn
      <4>2. turn' = [turn EXCEPT ![p].times = turn[p].times - 1]
        BY <1>1, <3>2
      <4> QED
        BY <1>1, <1>w, <3>2, <4>1, <4>2
    <3> QED
      BY <1>10, <3>1, <3>2 DEF ph_oob_wait
  <2>2. PamTypeOK'
    <3>1. turn' \in [Proc -> Turn]
      BY <2>0 DEF TurnIs
    <3>2. pc' \in [Proc -> PamPc] /\ s' \in [Proc -> State \cup {NoState}]
      BY <1>1, <1>10 DEF ph_oob_wait, PamPc, oob_done
    <3>3. /\ pam' \in [Proc -> PamResult] /\ cfg' \in Config
          /\ judged' \in [Passcode -> Nat] /\ accepted' \in [Passcode -> Nat]
          /\ sent' \subseteq 0..MAX_TIME /\ aborted' \in BOOLEAN /\ ops' \in 0..MAX_OPS
      BY <1>1, <1>2, <1>10 DEF ph_oob_wait, PamTypeOK, PamResult, oob_done
    <3> QED
      BY <2>1, <3>1, <3>2, <3>3 DEF PamTypeOK
  <2>3. CallPlace'
    BY <1>1, <1>2, <1>10 DEF ph_oob_wait, CallPlace, Quiet, oob_done, pppVars, txVars
  <2>4. SessionState' /\ TriesBounded'
    <3>1. /\ pc[p] \in Asking \ {"idle", "spass", "utility"} /\ UNCHANGED <<s, cfg>>
      BY <1>10 DEF ph_oob_wait, Asking
    <3> QED
      BY <1>1, <1>2, <2>0, <3>1 DEF SessionState, TriesBounded, Limit, Asking, TurnIs
  <2> QED
    BY <1>4, <2>1, <2>2, <2>3, <2>4
<1>11. CASE no_answer(p)
  <2>1. PppTypeOK' /\ LockPhase' /\ WorkLoaded' /\ ClockBounded'
    BY <1>11, PppFrame DEF no_answer
  <2>2. PamTypeOK'
    BY <1>1, <1>2, <1>3, <1>11, <2>1 DEF no_answer, PamTypeOK, PamPc, PamResult
  <2>3. CallPlace'
    BY <1>1, <1>2, <1>11 DEF no_answer, CallPlace, Quiet, pppVars, txVars
  <2>4. SessionState' /\ TriesBounded'
    BY <1>1, <1>2, <1>3, <1>11 DEF no_answer, SessionState, TriesBounded, Limit, Asking
  <2> QED
    BY <1>4, <2>1, <2>2, <2>3, <2>4
<1>12. CASE answer_dot(p)
  <2>1. PppTypeOK' /\ LockPhase' /\ WorkLoaded' /\ ClockBounded'
    BY <1>12, PppFrame DEF answer_dot
  <2>2. PamTypeOK'
    <3>1. turn' \in [Proc -> Turn]
      <4>1. \/ turn' = turn
            \/ turn' = [turn EXCEPT ![p] = FirstTurn]
            \/ turn' = [turn EXCEPT ![p].dont_increment = TRUE]
        BY <1>12 DEF answer_dot
      <4> QED
        BY <1>1, <1>t, <4>1 DEF TurnIs
    <3>2. pc' \in [Proc -> PamPc] /\ s' \in [Proc -> State \cup {NoState}]
      BY <1>1, <1>12 DEF answer_dot, PamPc
    <3>3. /\ pam' \in [Proc -> PamResult] /\ cfg' \in Config
          /\ judged' \in [Passcode -> Nat] /\ accepted' \in [Passcode -> Nat]
          /\ sent' \subseteq 0..MAX_TIME /\ aborted' \in BOOLEAN /\ ops' \in 0..MAX_OPS
      BY <1>1, <1>2, <1>12 DEF answer_dot, PamTypeOK, PamResult
    <3> QED
      BY <2>1, <3>1, <3>2, <3>3 DEF PamTypeOK
  <2>3. CallPlace'
    BY <1>1, <1>2, <1>12 DEF answer_dot, CallPlace, Quiet, pppVars, txVars
  <2>4. SessionState' /\ TriesBounded'
    <3>1. /\ pc[p] = "ask" /\ UNCHANGED cfg
          /\ \/ /\ pc' = [pc EXCEPT ![p] = "loop"] /\ UNCHANGED s
                /\ TurnIs(turn', p, turn[p].tries, turn[p].first_try, TRUE)
             \/ pc' \in {[pc EXCEPT ![p] = l] : l \in {"oob", "secure"}} /\ UNCHANGED <<s, turn>>
             \/ /\ pc' = [pc EXCEPT ![p] = "idle"] /\ s' = [s EXCEPT ![p] = NoState]
                /\ turn' = [turn EXCEPT ![p] = FirstTurn]
      BY <1>12, <1>t DEF answer_dot
    <3> QED
      BY <1>1, <1>2, <1>3, <3>1 DEF SessionState, TriesBounded, Limit, Asking, TurnIs
  <2> QED
    BY <1>4, <2>1, <2>2, <2>3, <2>4
<1>13. CASE secure_request(p)
  <2>1. PppTypeOK' /\ LockPhase' /\ WorkLoaded' /\ ClockBounded'
    BY <1>13, PppFrame DEF secure_request
  <2>2. PamTypeOK'
    <3>1. turn' \in [Proc -> Turn]
      <4>1. \/ turn' = turn
            \/ turn' = [turn EXCEPT ![p].tries = @ + 1, ![p].dont_increment = TRUE]
        BY <1>13 DEF secure_request
      <4>2. turn[p].tries < 5
        BY <1>1, <1>2, <1>13 DEF secure_request, TriesBounded, Asking, Turn
      <4> QED
        BY <1>1, <1>t, <1>u, <4>1, <4>2 DEF TurnIs
    <3>2. pc' \in [Proc -> PamPc] /\ s' \in [Proc -> State \cup {NoState}]
      BY <1>1, <1>13 DEF secure_request, PamPc
    <3>3. /\ pam' \in [Proc -> PamResult] /\ cfg' \in Config
          /\ judged' \in [Passcode -> Nat] /\ accepted' \in [Passcode -> Nat]
          /\ sent' \subseteq 0..MAX_TIME /\ aborted' \in BOOLEAN /\ ops' \in 0..MAX_OPS
      BY <1>1, <1>2, <1>13 DEF secure_request, PamTypeOK, PamResult
    <3> QED
      BY <2>1, <3>1, <3>2, <3>3 DEF PamTypeOK
  <2>3. CallPlace'
    BY <1>1, <1>2, <1>13 DEF secure_request, CallPlace, Quiet, pppVars, txVars
  <2>4. SessionState' /\ TriesBounded'
    BY <1>1, <1>2, <1>3, <1>13 DEF secure_request, SessionState, TriesBounded, Limit, Asking, Turn
  <2> QED
    BY <1>4, <2>1, <2>2, <2>3, <2>4
<1>14. CASE answer_passcode(p)
  <2>1. PppTypeOK' /\ LockPhase' /\ WorkLoaded' /\ ClockBounded'
    BY <1>14, PppFrame DEF answer_passcode, Tx
  <2>2. PamTypeOK'
    <3>1. turn' \in [Proc -> Turn]
      <4>1. \/ turn' = [turn EXCEPT ![p] = FirstTurn]
            \/ turn' = [turn EXCEPT ![p].tries = @ + 1]
        BY <1>14 DEF answer_passcode
      <4>2. turn[p].tries < 5
        BY <1>1, <1>2, <1>14 DEF answer_passcode, TriesBounded, Asking, Turn
      <4> QED
        BY <1>1, <1>t, <1>u, <4>1, <4>2 DEF TurnIs
    <3>2. pc' \in [Proc -> PamPc] /\ s' \in [Proc -> State \cup {NoState}]
      BY <1>1, <1>14 DEF answer_passcode, PamPc
    <3>3. /\ pam' \in [Proc -> PamResult] /\ cfg' \in Config
          /\ judged' \in [Passcode -> Nat] /\ accepted' \in [Passcode -> Nat]
          /\ sent' \subseteq 0..MAX_TIME /\ aborted' \in BOOLEAN /\ ops' \in 0..MAX_OPS
      <4>1. judged' \in [Passcode -> Nat] /\ accepted' \in [Passcode -> Nat]
        <5>1. ASSUME NEW f \in [Passcode -> Nat], NEW c
              PROVE  [f EXCEPT ![c] = @ + 1] \in [Passcode -> Nat]
          <6>1. CASE c \in Passcode
            BY <6>1
          <6>2. CASE c \notin Passcode
            BY <6>2
          <6> QED
            BY <6>1, <6>2
        <5>2. /\ judged' = [judged EXCEPT ![Reserved(p)] = @ + 1]
              /\ accepted' \in {accepted, [accepted EXCEPT ![Reserved(p)] = @ + 1]}
          BY <1>14 DEF answer_passcode
        <5> QED
          BY <1>1, <5>1, <5>2
      <4>2. pam' \in [Proc -> PamResult]
        BY <1>1, <1>14 DEF answer_passcode, PamResult
      <4> QED
        BY <1>1, <1>2, <1>14, <4>1, <4>2 DEF answer_passcode, PamTypeOK
    <3> QED
      BY <2>1, <3>1, <3>2, <3>3 DEF PamTypeOK
  <2>3. CallPlace'
    BY <1>1, <1>2, <1>14 DEF answer_passcode, CallPlace, Quiet, Call, pppVars, txVars
  <2>4. SessionState' /\ TriesBounded'
    <3>1. pc[p] = "ask" /\ turn[p].tries < Limit /\ turn[p].tries < 5 /\ turn[p].tries \in Nat
      BY <1>1, <1>2, <1>14 DEF answer_passcode, TriesBounded, Asking, Turn
    <3>2. /\ UNCHANGED cfg
          /\ \/ /\ pc' = [pc EXCEPT ![p] = "failures"] /\ UNCHANGED s
                /\ TurnIs(turn', p, turn[p].tries + 1, turn[p].first_try, turn[p].dont_increment)
             \/ /\ pc' = [pc EXCEPT ![p] = "idle"] /\ s' = [s EXCEPT ![p] = NoState]
                /\ turn' = [turn EXCEPT ![p] = FirstTurn]
      BY <1>14, <1>u, <3>1 DEF answer_passcode
    <3> QED
      BY <1>1, <1>2, <1>3, <3>1, <3>2 DEF SessionState, TriesBounded, Limit, Asking, TurnIs
  <2> QED
    BY <1>4, <2>1, <2>2, <2>3, <2>4
<1>15. CASE failure_counted(p)
  <2>1. PppTypeOK' /\ LockPhase' /\ WorkLoaded' /\ ClockBounded'
    BY <1>15, PppFrame DEF failure_counted
  <2>2. PamTypeOK'
    BY <1>1, <1>2, <1>3, <1>15, <2>1 DEF failure_counted, PamTypeOK, PamPc, PamResult
  <2>3. CallPlace'
    BY <1>1, <1>2, <1>15 DEF failure_counted, CallPlace, Quiet, Retire
  <2>4. SessionState' /\ TriesBounded'
    BY <1>1, <1>2, <1>3, <1>15 DEF failure_counted, SessionState, TriesBounded, Limit, Asking
  <2> QED
    BY <1>4, <2>1, <2>2, <2>3, <2>4
<1>16. CASE utility_done(p)
  <2>1. PppTypeOK' /\ LockPhase' /\ WorkLoaded' /\ ClockBounded'
    BY <1>16, PppFrame DEF utility_done
  <2>2. PamTypeOK'
    BY <1>1, <1>2, <1>3, <1>16, <2>1 DEF utility_done, PamTypeOK, PamPc, PamResult
  <2>3. CallPlace'
    BY <1>1, <1>2, <1>16 DEF utility_done, CallPlace, Quiet, Retire
  <2>4. SessionState' /\ TriesBounded'
    BY <1>1, <1>2, <1>3, <1>16 DEF utility_done, SessionState, TriesBounded, Limit, Asking
  <2> QED
    BY <1>4, <2>1, <2>2, <2>3, <2>4
<1>17. CASE ph_init(p)
  <2>1. PppTypeOK' /\ LockPhase' /\ WorkLoaded' /\ ClockBounded'
    BY <1>17, PppFrame DEF ph_init, Tx
  <2>2. PamTypeOK'
    <3>1. turn' \in [Proc -> Turn]
      <4>1. \/ turn' = turn
        BY <1>17 DEF ph_init
      <4> QED
        BY <1>1, <1>t, <4>1 DEF TurnIs
    <3>2. pc' \in [Proc -> PamPc] /\ s' \in [Proc -> State \cup {NoState}]
      BY <1>1, <1>17 DEF ph_init, PamPc
    <3>3. /\ pam' \in [Proc -> PamResult] /\ cfg' \in Config
          /\ judged' \in [Passcode -> Nat] /\ accepted' \in [Passcode -> Nat]
          /\ sent' \subseteq 0..MAX_TIME /\ aborted' \in BOOLEAN /\ ops' \in 0..MAX_OPS
      BY <1>1, <1>2, <1>17, PamAssumption DEF ph_init, PamTypeOK
    <3> QED
      BY <2>1, <3>1, <3>2, <3>3 DEF PamTypeOK
  <2>3. CallPlace'
    BY <1>1, <1>2, <1>17 DEF ph_init, CallPlace, Quiet, Call, pppVars, txVars
  <2>4. SessionState' /\ TriesBounded'
    BY <1>1, <1>2, <1>3, <1>17 DEF ph_init, SessionState, TriesBounded, Limit, Asking
  <2> QED
    BY <1>4, <2>1, <2>2, <2>3, <2>4
<1> QED
  BY <1>5, <1>6, <1>7, <1>8, <1>9, <1>10, <1>11, <1>12, <1>13, <1>14, <1>15, <1>16, <1>17

(* A utility's call and a kill keep the invariant. *)
LEMMA OutsideKeepsInv ==
    ASSUME PamInv, LockInv', NEW p \in Proc, utility_call(p) \/ killed(p)
    PROVE  PamInv'
<1> USE DEF At, Move, hist, pamVars
<1>1. /\ step \in [Proc -> {"idle", "lock", "load", "work", "unlock", "return"}]
      /\ tx \in [Proc -> Tx] /\ buf \in [Proc -> State \cup {NoState}]
      /\ res \in [Proc -> {"ok"} \cup TxError]
      /\ pc \in [Proc -> PamPc] /\ s \in [Proc -> State \cup {NoState}]
      /\ turn \in [Proc -> Turn] /\ pam \in [Proc -> PamResult]
      /\ lpc \in [Proc -> LockPc]
      /\ keys \in 0..MAX_KEYS /\ clock \in 0..MAX_TIME /\ ops \in 0..MAX_OPS
      /\ cfg \in Config /\ Limit \in 1..5
  BY LimitType, PamAssumption DEF PamInv, PamTypeOK, PppTypeOK, ClockBounded, LockInv, TypeOK
<1>2. /\ CallPlace /\ SessionState /\ TriesBounded /\ PamTypeOK /\ PppTypeOK
      /\ LockPhase /\ WorkLoaded /\ ClockBounded /\ TypeOK'
  BY DEF PamInv, PamTypeOK, LockInv
<1>3. FirstTurn \in Turn /\ FirstTurn.tries = 0
  BY PamAssumption DEF FirstTurn, Turn
<1>4. ASSUME utility_call(p), NEW t \in UTILITY \ {"store_new"}, CallFor(p, t, "utility"),
             UNCHANGED buf
      PROVE  PamInv'
  <2>1. t \in Tx \ {"store_new"} /\ t \in UTILITY
    BY PamAssumption
  <2>2. PppTypeOK' /\ LockPhase' /\ WorkLoaded' /\ ClockBounded'
    BY <1>4, <2>1, PppFrame DEF utility_call, CallFor
  <2>3. PamTypeOK' /\ CallPlace' /\ SessionState' /\ TriesBounded'
    BY <1>1, <1>2, <1>4, <2>1, <2>2, PamAssumption
       DEF utility_call, CallFor, Call, PamTypeOK, PamPc, CallPlace, SessionState, TriesBounded,
           Limit, Quiet, Asking
  <2> QED
    BY <2>2, <2>3 DEF PamInv
<1>5. ASSUME utility_call(p), ppp_key_generate(p), Move(p, "utility"), "store_new" \in UTILITY,
             UNCHANGED <<lockVars, db, clock, rewound>>
      PROVE  PamInv'
  <2>1. keys + 1 \in 1..MAX_KEYS
    BY <1>1, <1>5, PppAssumption DEF ppp_key_generate
  <2>2. NewState(keys + 1) \in State /\ NewState(keys + 1) # NoState
          /\ NewState(keys + 1).counter < MAX_CODE
    BY <2>1, NewStates, PppAssumption
  <2>3. PppTypeOK'
    BY <1>1, <1>2, <1>5, <2>1, <2>2 DEF ppp_key_generate, Call, PppTypeOK, Tx
  <2>4. LockPhase' /\ ClockBounded'
    BY <1>1, <1>2, <1>5 DEF utility_call, ppp_key_generate, Call, lockVars, LockPhase, ClockBounded,
                            Unlocked, OwnsLock, LockError
  <2>5. WorkLoaded'
    BY <1>1, <1>2, <1>5, <2>2 DEF ppp_key_generate, Call, WorkLoaded, Loaded
  <2>6. PamTypeOK' /\ CallPlace' /\ SessionState' /\ TriesBounded'
    BY <1>1, <1>2, <1>5, <2>3, PamAssumption
       DEF utility_call, ppp_key_generate, Call, PamTypeOK, PamPc, CallPlace, SessionState,
           TriesBounded, Limit, Quiet, Asking
  <2> QED
    BY <2>3, <2>4, <2>5, <2>6 DEF PamInv
<1>6. CASE killed(p)
  <2>1. /\ lpc' = [lpc EXCEPT ![p] = lpc'[p]] /\ Unlocked(p)'
    BY <1>1, <1>6 DEF killed, die, lockVars, Unlocked
  <2>2. PppTypeOK'
    BY <1>1, <1>2, <1>6 DEF killed, PppTypeOK, Tx
  <2>3. LockPhase' /\ WorkLoaded' /\ ClockBounded'
    BY <1>1, <1>2, <1>6, <2>1 DEF killed, LockPhase, WorkLoaded, Loaded, ClockBounded,
                                  Unlocked, OwnsLock, LockError
  <2>4. PamTypeOK' /\ CallPlace'
    BY <1>1, <1>2, <1>3, <1>6, <2>2 DEF killed, ph_fini, PamTypeOK, PamPc, PamResult, CallPlace, Quiet
  <2>5. SessionState' /\ TriesBounded'
    BY <1>1, <1>2, <1>3, <1>6 DEF killed, ph_fini, SessionState, TriesBounded, Limit, Asking
  <2> QED
    BY <2>2, <2>3, <2>4, <2>5 DEF PamInv
<1> QED
  BY <1>4, <1>5, <1>6 DEF utility_call

(* So does a tick of the clock. *)
LEMMA TickKeepsInv == ASSUME PamInv, LockInv', tick PROVE PamInv'
<1>1. clock \in 0..MAX_TIME /\ TypeOK' /\ PamTypeOK /\ PppTypeOK
  BY PamAssumption DEF PamInv, PamTypeOK, PppTypeOK, ClockBounded, LockInv
<1>2. PppTypeOK' /\ ClockBounded'
  BY <1>1, PamAssumption DEF tick, PppTypeOK, ClockBounded
<1>3. LockPhase' /\ WorkLoaded' /\ CallPlace' /\ SessionState' /\ TriesBounded'
  BY DEF PamInv, tick, lockVars, pamVars, LockPhase, WorkLoaded, Loaded, CallPlace, SessionState,
         TriesBounded, Limit, Unlocked, OwnsLock
<1>4. PamTypeOK'
  BY <1>1, <1>2 DEF tick, pamVars, PamTypeOK
<1> QED
  BY <1>2, <1>3, <1>4 DEF PamInv

(* The initial states, with a key or without, satisfy the invariant. *)
LEMMA PamInvInit == PamInit => PamInv
<1> SUFFICES ASSUME PamInit PROVE PamInv
  OBVIOUS
<1> USE DEF PamInit, PppInit
<1>1. LockInv
  BY LockInvInit
<1>2. db \in State \cup {NoState} /\ keys \in 0..MAX_KEYS
  <2>1. NewState(1) \in State
    BY NewStates, PppAssumption
  <2>2. ASSUME NEW b \in BOOLEAN PROVE [NewState(1) EXCEPT !.lawful = b] \in State
    BY <2>1 DEF State
  <2> QED
    BY <2>2, PppAssumption
<1>3. FirstTurn \in Turn /\ FirstTurn.tries = 0
  BY PamAssumption DEF FirstTurn, Turn
<1>4. PppTypeOK
  BY <1>1, <1>2 DEF LockInv, PppTypeOK, Tx
<1>5. PamTypeOK
  <2>1. /\ pc \in [Proc -> PamPc] /\ s \in [Proc -> State \cup {NoState}]
        /\ turn \in [Proc -> Turn] /\ pam \in [Proc -> PamResult]
    BY <1>3 DEF PamPc, PamResult
  <2>2. judged \in [Passcode -> Nat] /\ accepted \in [Passcode -> Nat]
    OBVIOUS
  <2>3. ops \in 0..MAX_OPS /\ cfg \in Config /\ sent \subseteq 0..MAX_TIME
    BY PamAssumption
  <2>4. aborted \in BOOLEAN
    OBVIOUS
  <2> QED
    BY <1>4, <2>1, <2>2, <2>3, <2>4 DEF PamTypeOK
<1>6. LockPhase
  BY DEF Init, LockPhase, Unlocked
<1>7. CallPlace /\ WorkLoaded /\ SessionState /\ ClockBounded
  BY PamAssumption DEF CallPlace, WorkLoaded, SessionState, ClockBounded, Quiet, Asking
<1>8. TriesBounded
  <2>1. Limit \in 1..5
    BY LimitType
  <2>2. ASSUME NEW p \in Proc PROVE turn[p].tries = 0 /\ pc[p] = "idle"
    BY Zenon DEF FirstTurn
  <2>3. ASSUME NEW n \in 1..5 PROVE 0 <= n
    OBVIOUS
  <2> QED
    BY <2>1, <2>2, <2>3, Zenon DEF TriesBounded, Asking
<1> QED
  BY <1>1, <1>5, <1>6, <1>7, <1>8 DEF PamInv

(* Every step keeps the invariant. *)
LEMMA PamInvStep == PamInv /\ [PamNext]_vars => PamInv'
<1> SUFFICES ASSUME PamInv, [PamNext]_vars PROVE PamInv'
  OBVIOUS
<1>1. LockInv'
  BY PamLockStep, LockInvStep DEF PamInv
<1>2. CASE UNCHANGED vars
  <2>1. PppTypeOK' /\ LockPhase' /\ WorkLoaded' /\ ClockBounded'
    BY <1>1, <1>2 DEF vars, pppVars, lockVars, txVars, PamInv, PamTypeOK, LockInv, PppTypeOK, LockPhase,
          WorkLoaded, Loaded, ClockBounded, Unlocked, OwnsLock
  <2>2. PamTypeOK' /\ CallPlace' /\ SessionState' /\ TriesBounded'
    BY <1>2, <2>1 DEF vars, pppVars, txVars, pamVars, PamInv, PamTypeOK, CallPlace, SessionState,
          TriesBounded, Limit
  <2> QED
    BY <1>1, <2>1, <2>2 DEF PamInv
<1>3. ASSUME NEW p \in Proc, Advance(p) PROVE PamInv'
  BY <1>1, <1>3, TransactionKeepsInv, SessionKeepsInv DEF Advance
<1>4. ASSUME NEW p \in Proc, ph_init(p) \/ utility_call(p) \/ killed(p) PROVE PamInv'
  BY <1>1, <1>4, SessionKeepsInv, OutsideKeepsInv
<1>5. CASE tick
  BY <1>1, <1>5, TickKeepsInv
<1> QED
  BY <1>2, <1>3, <1>4, <1>5 DEF PamNext, finished

(* The invariant holds in every reachable state. *)
THEOREM PamInvariant == PamSpec => []PamInv
BY PamInvInit, PamInvStep, PTL DEF PamSpec

(***************************************************************************)
(* Type correctness of the PAM module's sessions; in particular a counter  *)
(* never passes max_code and no session asks more often than it may.       *)
(***************************************************************************)
THEOREM PamTyping == PamSpec => []PamTypeOK
<1>1. PamInv => PamTypeOK
  BY DEF PamInv
<1> QED
  BY <1>1, PamInvariant, PTL

(***************************************************************************)
(* Every path through a transaction gives the lock back: no process holds  *)
(* it while its user is asked, the OOB sender runs, or after the session.  *)
(***************************************************************************)
THEOREM PamUnlocks == PamSpec => []LockReleased
<1>1. PamInv => LockReleased
  BY DEF PamInv, LockPhase, LockReleased
<1> QED
  BY <1>1, PamInvariant, PTL
=============================================================================
