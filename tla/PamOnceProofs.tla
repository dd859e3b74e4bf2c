--------------------------- MODULE PamOnceProofs ----------------------------
(***************************************************************************)
(* Theorems about PamAuth, for every number of processes, keys and         *)
(* passcodes: an update of the entry on disk is not lost, a disabled one   *)
(* stays as it is, a passcode is accepted once and guessed no more often   *)
(* than the configuration says; and what is on disk about an out-of-band   *)
(* message when the sender program is started.                             *)
(***************************************************************************)
EXTENDS PamProofs

(* A key is generated and not yet stored. *)
Pending(p) == tx[p] = "store_new" /\ step[p] \in {"lock", "work"}

(* ppp_increment has stored the next counter; its passcode is reserved. *)
InFlight(p) == tx[p] = "increment" /\ step[p] \in {"unlock", "return"} /\ res[p] = "ok"

Asks(p, c) == s[p] # NoState /\ c = Reserved(p)
Takes(p, c) == InFlight(p) /\ c = <<buf[p].key, buf[p].counter>>
Claims(p, c) == Asks(p, c) \/ Takes(p, c)

Spent(c) == judged[c] > 0 \/ accepted[c] > 0 \/ \E p \in Proc : Claims(p, c)

(* No later increment can hand out c. *)
Behind(c) == /\ c[1] <= keys
             /\ \A p \in Proc : Pending(p) => buf[p].key # c[1]
             /\ db # NoState /\ db.key = c[1] => c[2] < db.counter

(* A work step writes from the entry now on disk, unless a lock was stale. *)
Current == ~stale => \A p \in Proc :
              step[p] = "work" /\ tx[p] # "store_new" => buf[p] = db

(* state_store of a new key loads nothing. *)
NewNotLoaded == \A p \in Proc : step[p] = "load" => tx[p] # "store_new"

(* Keys in use have been generated. *)
KeysKnown == /\ db # NoState => db.key <= keys
             /\ \A p \in Proc : buf[p] # NoState => buf[p].key <= keys

(* A key waiting to be stored is nobody else's. *)
KeysFresh ==
    ~stale =>
        \A p \in Proc : Pending(p) =>
            /\ db # NoState => db.key # buf[p].key
            /\ \A q \in Proc : Pending(q) /\ buf[q].key = buf[p].key => q = p

(***************************************************************************)
(* The inductive invariant of the disk: NoLostUpdate needs to know that    *)
(* what a transaction loaded is still there when it stores, and            *)
(* DisabledFrozen that a key in force is never stored a second time.       *)
(***************************************************************************)
DiskInv == Current /\ NewNotLoaded /\ KeysKnown /\ KeysFresh

SpentBehind == \A c \in Passcode : Spent(c) => Behind(c)
ClaimsDiffer == \A p, q \in Proc, c \in Passcode : Claims(p, c) /\ Claims(q, c) => p = q
ClaimsOpen == \A p \in Proc, c \in Passcode :
                 /\ Claims(p, c) => accepted[c] = 0
                 /\ Takes(p, c) => judged[c] = 0
                 /\ Asks(p, c) => judged[c] <= turn[p].tries
AcceptedOnce == \A c \in Passcode : accepted[c] <= 1
Bound == IF cfg.pam_retry <= 1 THEN 1 ELSE cfg.pam_retries
JudgedBounded == \A c \in Passcode : judged[c] <= Bound

(* With a new passcode for each try, the one asked for was not tried yet. *)
Untried == cfg.pam_retry = 1 =>
    \A p \in Proc : (pc[p] \in Asking \/ (pc[p] = "loop" /\ turn[p].dont_increment))
                       => judged[Reserved(p)] = 0
NextAsked == cfg.pam_retry = 1 =>
    \A p \in Proc : pc[p] \in Asking \cup {"increment", "failures"}
                       => ~turn[p].dont_increment

Safe == ~stale /\ ~rewound
OnceInv == Safe => /\ SpentBehind /\ ClaimsDiffer /\ ClaimsOpen
                   /\ AcceptedOnce /\ JudgedBounded /\ Untried

(***************************************************************************)
(* The inductive invariant.  OneTime and GuessesBounded need to know which *)
(* passcodes are reserved and by whom: no two sessions have the same, and  *)
(* each lies behind the counter of its key or belongs to a key that is     *)
(* gone for good.                                                          *)
(***************************************************************************)
PamOnceInv == NextAsked /\ OnceInv
-----------------------------------------------------------------------------
(* Whether a lock was stale, and whether a skip went back, is never forgotten. *)
LEMMA StaleKept == LockInv /\ [Next]_lockVars => (stale => stale')
<1> SUFFICES ASSUME LockInv, Next, stale PROVE stale'
  BY DEF lockVars
<1> QED
  BY DEF LockInv, TypeOK, Next, db_file_lock, db_file_lock_open, db_file_lock_try,
         db_file_lock_giveup, db_file_lock_refused, db_file_unlock, die

(* Outside a transaction's own steps: calls, returns and kills. *)
Aside(p) ==
    /\ UNCHANGED <<db, rewound>>
    /\ \A q \in Proc \ {p} : step'[q] = step[q] /\ tx'[q] = tx[q] /\ buf'[q] = buf[q] /\ res'[q] = res[q]
    /\ \/ step'[p] = "idle" /\ keys' = keys /\ buf'[p] = NoState
       \/ /\ step[p] = "idle" /\ step'[p] = "lock" /\ tx'[p] # "store_new"
          /\ keys' = keys /\ buf'[p] = buf[p]
       \/ /\ step[p] = "idle" /\ step'[p] = "lock" /\ tx'[p] = "store_new"
          /\ keys' = keys + 1 /\ buf'[p] = NewState(keys + 1)

(* What a process does outside its transactions. *)
SessionStep(p) ==
    \/ ph_validate_spass(p) \/ loop_head(p) \/ ph_increment(p) \/ ph_oob_send(p)
    \/ ph_oob_recorded(p) \/ ph_oob_wait(p) \/ no_answer(p) \/ answer_dot(p)
    \/ secure_request(p) \/ answer_passcode(p) \/ failure_counted(p)
    \/ utility_done(p) \/ ph_init(p) \/ utility_call(p) \/ killed(p)

(* Outside its transactions a process leaves those of others and the entry. *)
LEMMA SessionAside ==
    ASSUME PamInv, NEW p \in Proc, SessionStep(p)
    PROVE  UNCHANGED txVars \/ Aside(p)
<1>1. /\ step \in [Proc -> {"idle", "lock", "load", "work", "unlock", "return"}]
      /\ tx \in [Proc -> Tx] /\ buf \in [Proc -> State \cup {NoState}]
      /\ res \in [Proc -> {"ok"} \cup TxError]
  BY DEF PamInv, PamTypeOK, PppTypeOK
<1>2. ASSUME Retire(p) PROVE Aside(p)
  BY <1>1, <1>2 DEF Retire, Aside
<1>3. ASSUME NEW t, t # "store_new", NEW l, step[p] = "idle", CallFor(p, t, l), UNCHANGED buf
      PROVE  Aside(p)
  BY <1>1, <1>3 DEF CallFor, Call, Aside
<1>4. CASE utility_call(p)
  <2>1. CASE \E t \in UTILITY \ {"store_new"} : CallFor(p, t, "utility") /\ UNCHANGED buf
    BY <1>3, <1>4, <2>1 DEF utility_call, At
  <2>2. CASE ppp_key_generate(p) /\ UNCHANGED <<lockVars, db, clock, rewound>>
    BY <1>1, <1>4, <2>2 DEF utility_call, At, ppp_key_generate, Call, Aside
  <2> QED
    BY <1>4, <2>1, <2>2 DEF utility_call
<1>5. CASE killed(p)
  BY <1>1, <1>5 DEF killed, Aside
<1>6. CASE ~utility_call(p) /\ ~killed(p)
  BY <1>2, <1>3, <1>6
     DEF SessionStep, At, pppVars, ph_validate_spass, loop_head, ph_increment, ph_oob_send,
         ph_oob_recorded, ph_oob_wait, no_answer, answer_dot, secure_request,
         answer_passcode, failure_counted, utility_done, ph_init
<1> QED
  BY <1>4, <1>5, <1>6

(* What any step does: a transaction's step, a session's, or a tick. *)
LEMMA StepKinds ==
    ASSUME PamInv, PamNext
    PROVE  \/ UNCHANGED <<txVars, pamVars>>
           \/ UNCHANGED <<db, step, tx, buf, res, keys, rewound, pamVars>>
           \/ \E p \in Proc :
                 \/ /\ UNCHANGED pamVars
                    /\ \/ state_lock(p) \/ ppp_state_load(p)
                       \/ WorkStep(p) \/ state_unlock(p)
                 \/ SessionStep(p) /\ (UNCHANGED txVars \/ Aside(p))
<1>1. ASSUME NEW p \in Proc, Transaction(p)
      PROVE  state_lock(p) \/ ppp_state_load(p) \/ WorkStep(p) \/ state_unlock(p)
  BY <1>1, WorkSteps DEF Transaction
<1>2. CASE tick
  BY <1>2 DEF tick
<1>3. CASE finished
  BY <1>3 DEF finished, vars, pppVars
<1>4. ASSUME NEW p \in Proc, SessionStep(p) PROVE UNCHANGED txVars \/ Aside(p)
  BY <1>4, SessionAside
<1> QED
  BY <1>1, <1>2, <1>3, <1>4 DEF PamNext, Advance, SessionStep

(* The initial states satisfy the invariant of the disk. *)
LEMMA DiskInvInit == PamInit => DiskInv
<1> SUFFICES ASSUME PamInit PROVE DiskInv
  OBVIOUS
<1>1. \A p \in Proc : step[p] = "idle" /\ buf[p] = NoState
  BY DEF PamInit, PppInit
<1>2. db # NoState => db.key <= keys
  BY DEF PamInit, PppInit, NewState
<1> QED
  BY <1>1, <1>2 DEF DiskInv, Current, NewNotLoaded, KeysKnown, KeysFresh, Pending

(* While no lock was stale, one process works on the state at a time. *)
LEMMA OneWorks ==
    ASSUME PamInv, ~stale, NEW p \in Proc, NEW q \in Proc,
           step[p] \in {"load", "work"}, step[q] \in {"load", "work"}
    PROVE  p = q
<1>1. ExclusionUnlessStale
  BY LockInvExcludes DEF PamInv
<1> QED
  BY <1>1 DEF ExclusionUnlessStale, MutualExclusion, InCritical, PamInv, LockPhase

(* Every step keeps the invariant of the disk. *)
LEMMA DiskInvStep == PamInv /\ DiskInv /\ [PamNext]_vars => DiskInv'
<1> SUFFICES ASSUME PamInv, DiskInv, [PamNext]_vars PROVE DiskInv'
  OBVIOUS
<1>1. /\ step \in [Proc -> {"idle", "lock", "load", "work", "unlock", "return"}]
      /\ tx \in [Proc -> Tx] /\ buf \in [Proc -> State \cup {NoState}]
      /\ db \in State \cup {NoState} /\ keys \in Nat /\ stale \in BOOLEAN
  BY PppAssumption DEF PamInv, PamTypeOK, PppTypeOK, LockInv, TypeOK
<1>2. stale => stale'
  BY PamLockStep, StaleKept DEF PamInv
<1>3. /\ \A x \in State : x.key \in 1..MAX_KEYS /\ x.counter \in 0..MAX_CODE
      /\ NoState \notin State
  BY PppAssumption DEF State
<1>4. Current /\ NewNotLoaded /\ KeysKnown /\ KeysFresh
  BY DEF DiskInv
<1>5. CASE UNCHANGED <<db, step, tx, buf, keys>>
  BY <1>2, <1>4, <1>5 DEF DiskInv, Current, NewNotLoaded, KeysKnown, KeysFresh, Pending
<1>6. ASSUME NEW p \in Proc, state_lock(p) PROVE DiskInv'
  <2>1. /\ step[p] = "lock" /\ UNCHANGED <<db, tx, buf, keys>>
        /\ \/ step' = step
           \/ step' = [step EXCEPT ![p] = "return"]
           \/ tx[p] = "store_new" /\ step' = [step EXCEPT ![p] = "work"]
           \/ tx[p] # "store_new" /\ step' = [step EXCEPT ![p] = "load"]
    BY <1>6, LockTurn DEF state_lock, Goto, PamInv, LockError
  <2> QED
    BY <1>1, <1>2, <1>4, <2>1 DEF DiskInv, Current, NewNotLoaded, KeysKnown, KeysFresh, Pending
<1>7. ASSUME NEW p \in Proc, ppp_state_load(p) PROVE DiskInv'
  <2>1. /\ step[p] = "load" /\ tx[p] # "store_new" /\ UNCHANGED <<db, tx, keys>>
        /\ \/ step' = [step EXCEPT ![p] = "unlock"] /\ buf' = buf
           \/ /\ \E l \in {"unlock", "work"} : step' = [step EXCEPT ![p] = l]
              /\ buf' = [buf EXCEPT ![p] = db]
    BY <1>4, <1>7 DEF ppp_state_load, Goto, NewNotLoaded
  <2> QED
    BY <1>1, <1>2, <1>4, <2>1 DEF DiskInv, Current, NewNotLoaded, KeysKnown, KeysFresh, Pending
<1>8. ASSUME NEW p \in Proc, WorkStep(p) PROVE DiskInv'
  <2>1. /\ step[p] = "work" /\ step' = [step EXCEPT ![p] = "unlock"]
        /\ UNCHANGED <<tx, keys, lockVars>> /\ db' \in State \cup {NoState}
    BY <1>8 DEF WorkStep
  <2>2. buf[p] \in State /\ buf[p] # NoState
    BY <1>1, <2>1 DEF PamInv, WorkLoaded, Loaded
  <2>3. db' # db /\ db' # NoState => db'.key = buf[p].key
    BY <1>8, <2>1, <2>2 DEF WorkStep, OwnUpdate, State
  <2>4. /\ \A q \in Proc \ {p} : buf'[q] = buf[q]
        /\ buf'[p] # NoState => buf'[p].key = buf[p].key
    BY <1>1, <1>8, <2>2 DEF WorkStep, State
  <2>5. ~stale => \A q \in Proc \ {p} : step[q] \notin {"load", "work"}
    BY <2>1, OneWorks
  <2>6. Current' /\ NewNotLoaded'
    BY <1>1, <1>2, <1>4, <2>1, <2>5 DEF Current, NewNotLoaded, lockVars
  <2>7. KeysKnown'
    BY <1>1, <1>4, <2>1, <2>2, <2>3, <2>4 DEF KeysKnown
  <2>8. KeysFresh'
    <3>1. ASSUME ~stale', NEW q \in Proc, Pending(q)'
          PROVE  Pending(q) /\ q # p /\ ~stale /\ buf'[q] = buf[q]
      BY <1>1, <1>2, <2>1, <2>4, <3>1 DEF Pending
    <3>2. ASSUME ~stale', NEW q \in Proc, Pending(q)', db' # NoState
          PROVE  db'.key # buf'[q].key
      <4>1. CASE db' = db
        BY <1>4, <3>1, <3>2, <4>1 DEF KeysFresh
      <4>2. CASE db' # db /\ tx[p] = "store_new"
        BY <1>4, <2>1, <2>3, <3>1, <3>2, <4>2 DEF KeysFresh, Pending
      <4>3. CASE db' # db /\ tx[p] # "store_new"
        BY <1>4, <2>1, <2>2, <2>3, <3>1, <3>2, <4>3 DEF KeysFresh, Current
      <4> QED
        BY <4>1, <4>2, <4>3
    <3> QED
      BY <1>4, <3>1, <3>2 DEF KeysFresh
  <2> QED
    BY <2>6, <2>7, <2>8 DEF DiskInv
<1>9. ASSUME NEW p \in Proc, state_unlock(p) PROVE DiskInv'
  <2>1. /\ step[p] = "unlock" /\ UNCHANGED <<db, tx, buf, keys>>
        /\ \E l \in {"unlock", "return"} : step' = [step EXCEPT ![p] = l]
    BY <1>9 DEF state_unlock
  <2> QED
    BY <1>1, <1>2, <1>4, <2>1 DEF DiskInv, Current, NewNotLoaded, KeysKnown, KeysFresh, Pending
<1>10. ASSUME NEW p \in Proc, Aside(p) PROVE DiskInv'
  <2>1. /\ db' = db /\ keys' \in {keys, keys + 1} /\ step'[p] \in {"idle", "lock"}
        /\ \A q \in Proc \ {p} : step'[q] = step[q] /\ tx'[q] = tx[q] /\ buf'[q] = buf[q]
    BY <1>10 DEF Aside
  <2>2. Current' /\ NewNotLoaded'
    BY <1>1, <1>2, <1>4, <2>1 DEF Current, NewNotLoaded
  <2>3. CASE keys' = keys + 1
    <3>1. buf'[p].key = keys + 1
      BY <1>1, <1>10, <2>3 DEF Aside, NewState
    <3>2. KeysKnown'
      BY <1>1, <1>3, <1>4, <2>1, <2>3, <3>1 DEF KeysKnown
    <3>3. KeysFresh'
      BY <1>1, <1>2, <1>3, <1>4, <2>1, <2>3, <3>1 DEF KeysKnown, KeysFresh, Pending, PamInv, WorkLoaded, Loaded
    <3> QED
      BY <2>2, <3>2, <3>3 DEF DiskInv
  <2>4. CASE keys' = keys
    <3>1. ~Pending(p)' /\ buf'[p] \in {NoState, buf[p]}
      BY <1>1, <1>10, <2>4 DEF Aside, Pending
    <3>2. KeysKnown' /\ KeysFresh'
      BY <1>1, <1>2, <1>4, <2>1, <2>4, <3>1 DEF KeysKnown, KeysFresh, Pending
    <3> QED
      BY <2>2, <3>2 DEF DiskInv
  <2> QED
    BY <2>1, <2>3, <2>4
<1> QED
  BY <1>5, <1>6, <1>7, <1>8, <1>9, <1>10, StepKinds DEF vars, pppVars, txVars

(* The invariant of the disk holds in every reachable state. *)
THEOREM DiskInvariant == PamSpec => [](PamInv /\ DiskInv)
BY PamInvInit, PamInvStep, DiskInvInit, DiskInvStep, PTL DEF PamSpec

(* Only a work step changes the entry, and it starts from what is there. *)
LEMMA WriterCurrent ==
    ASSUME PamInv, DiskInv, [PamNext]_vars, ~stale, db' # db
    PROVE  \E p \in Proc : /\ WorkStep(p) /\ OwnUpdate(p, db, db')
                           /\ tx[p] # "store_new" => buf[p] = db
<1>1. PICK p \in Proc : WorkStep(p)
  BY StepKinds DEF vars, pppVars, txVars, state_lock, ppp_state_load, state_unlock, Aside
<1>2. tx[p] # "store_new" => buf[p] = db
  BY <1>1 DEF WorkStep, DiskInv, Current
<1>3. OwnUpdate(p, buf[p], db')
  BY <1>1 DEF WorkStep
<1>4. OwnUpdate(p, db, db')
  BY <1>2, <1>3 DEF OwnUpdate
<1> QED
  BY <1>1, <1>2, <1>4

(***************************************************************************)
(* No update is lost: whatever the interleaving, each write to the state   *)
(* file changes the entry that is there in the fields of its own           *)
(* transaction only, unless a lock was stale.                              *)
(***************************************************************************)
THEOREM PamUpdates == PamSpec => NoLostUpdate
<1> DEFINE A == ~stale /\ db' # db => \E p \in Proc : OwnUpdate(p, db, db')
<1>1. PamInv /\ DiskInv /\ [PamNext]_vars => [A]_vars
  BY WriterCurrent
<1> QED
  BY <1>1, DiskInvariant, PTL DEF PamSpec, NoLostUpdate

(***************************************************************************)
(* The counter of a disabled state does not move, whoever was about to     *)
(* authenticate or to skip when it was disabled.                           *)
(***************************************************************************)
THEOREM PamFrozen == PamSpec => DisabledFrozen
<1> DEFINE A == ~stale /\ db # NoState /\ db' # NoState /\ db.disabled
                  /\ db'.key = db.key => db'.counter = db.counter
<1>1. PamInv /\ DiskInv /\ [PamNext]_vars => [A]_vars
  <2> SUFFICES ASSUME PamInv, DiskInv, [PamNext]_vars, ~stale, db' # db,
                      db # NoState, db' # NoState, db.disabled, db'.key = db.key
               PROVE  db'.counter = db.counter
    OBVIOUS
  <2>1. PICK p \in Proc : /\ WorkStep(p) /\ OwnUpdate(p, db, db')
                          /\ tx[p] # "store_new" => buf[p] = db
    BY WriterCurrent
  <2>2. db \in State
    BY DEF PamInv, PamTypeOK, PppTypeOK
  <2>3. CASE tx[p] = "store_new"
    BY <2>1, <2>3 DEF WorkStep, DiskInv, KeysFresh, Pending
  <2>4. CASE tx[p] \in {"increment", "skip"}
    BY <2>1, <2>4 DEF WorkStep
  <2>5. CASE tx[p] \notin {"store_new", "increment", "skip"}
    BY <2>1, <2>2, <2>5 DEF OwnUpdate, State
  <2> QED
    BY <2>3, <2>4, <2>5
<1> QED
  BY <1>1, DiskInvariant, PTL DEF PamSpec, DisabledFrozen
-----------------------------------------------------------------------------
(* A passcode is shown, or will be without another increment. *)
Open(p) == pc[p] \in Asking \/ (pc[p] = "loop" /\ turn[p].dont_increment)

(* A session's step which neither takes nor judges a passcode. *)
Untouched(p) ==
    /\ UNCHANGED <<cfg, judged, accepted>>
    /\ \A q \in Proc \ {p} : pc'[q] = pc[q] /\ s'[q] = s[q] /\ turn'[q] = turn[q]
    /\ \/ s'[p] = NoState
       \/ s'[p] = s[p] /\ turn'[p].tries >= turn[p].tries
    /\ cfg.pam_retry = 1 =>
          /\ pc'[p] \in Asking \cup {"increment", "failures"} => ~turn'[p].dont_increment
          /\ Open(p)' => Open(p) /\ s'[p] = s[p]

(* ph_increment hands the session the passcode its transaction reserved. *)
Taken(p) ==
    /\ pc[p] = "increment" /\ step[p] = "return" /\ res[p] = "ok"
    /\ s' = [s EXCEPT ![p] = buf[p]]
    /\ \E l \in Asking : pc' = [pc EXCEPT ![p] = l]
    /\ UNCHANGED <<cfg, judged, accepted, turn>>

(* A session's step takes a passcode, judges one, or does neither. *)
LEMMA SessionKinds ==
    ASSUME PamInv, NextAsked, NEW p \in Proc, SessionStep(p)
    PROVE  Untouched(p) \/ Taken(p) \/ answer_passcode(p)
<1> USE DEF At, Returned, Move, hist
<1>1. /\ pc \in [Proc -> PamPc] /\ s \in [Proc -> State \cup {NoState}]
      /\ turn \in [Proc -> Turn] /\ turn[p].tries \in 0..5
  BY DEF PamInv, PamTypeOK, Turn
<1>2. FirstTurn.dont_increment = FALSE
  BY DEF FirstTurn
<1>t. \A ok \in BOOLEAN :
        /\ TurnIs([turn EXCEPT ![p] = FirstTurn], p, 0, TRUE, FALSE)
        /\ TurnIs([turn EXCEPT ![p].first_try = FALSE],
                  p, turn[p].tries, FALSE, turn[p].dont_increment)
        /\ TurnIs([turn EXCEPT ![p].first_try = FALSE, ![p].dont_increment = FALSE],
                  p, turn[p].tries, FALSE, FALSE)
        /\ TurnIs([turn EXCEPT ![p].times = 0, ![p].dont_increment = TRUE, ![p].oob_sent = @ \/ ok],
                  p, turn[p].tries, turn[p].first_try, TRUE)
        /\ \A n \in 0..WAITS :
              TurnIs([turn EXCEPT ![p].times = n],
                     p, turn[p].tries, turn[p].first_try, turn[p].dont_increment)
        /\ TurnIs([turn EXCEPT ![p].dont_increment = TRUE],
                  p, turn[p].tries, turn[p].first_try, TRUE)
        /\ turn[p].tries < 5 =>
              TurnIs([turn EXCEPT ![p].tries = @ + 1, ![p].dont_increment = TRUE],
                     p, turn[p].tries + 1, turn[p].first_try, TRUE)
  BY <1>1, TurnChanges
<1>w. ASSUME NEW n \in 0..WAITS, turn' = [turn EXCEPT ![p].times = n]
      PROVE  TurnIs(turn', p, turn[p].tries, turn[p].first_try, turn[p].dont_increment)
  BY <1>t, <1>w
<1>3. ASSUME NEW r, ph_fini(p, r), UNCHANGED <<cfg, judged, accepted>> PROVE Untouched(p)
  BY <1>1, <1>3 DEF ph_fini, Untouched, Open, Asking
<1>4. ASSUME NEW l \in PamPc, pc' = [pc EXCEPT ![p] = l], UNCHANGED <<s, turn, cfg, judged, accepted>>,
             ~turn[p].dont_increment \/ cfg.pam_retry # 1
                                     \/ l \notin Asking \cup {"loop", "increment", "failures"},
             pc[p] \in Asking \/ cfg.pam_retry # 1 \/ l \notin Asking
      PROVE  Untouched(p)
  BY <1>1, <1>4 DEF Untouched, Open
<1>5. ASSUME NEW n \in {turn[p].tries, turn[p].tries + 1}, NEW ft, TurnIs(turn', p, n, ft, TRUE),
             Open(p), pc' = [pc EXCEPT ![p] = "loop"], UNCHANGED <<s, cfg, judged, accepted>>
      PROVE  Untouched(p)
  BY <1>1, <1>5 DEF Untouched, Open, Asking, TurnIs
<1>6. CASE ph_validate_spass(p) \/ utility_done(p) \/ ph_init(p) \/ utility_call(p)
  <2>1. turn[p] = FirstTurn /\ s[p] = NoState
    BY <1>6 DEF ph_validate_spass, utility_done, ph_init, utility_call, PamInv, SessionState
  <2> QED
    BY <1>2, <1>3, <1>4, <1>6, <2>1
       DEF ph_validate_spass, utility_done, ph_init, utility_call, CallFor, PamPc, Asking
<1>7. CASE loop_head(p)
  <2>1. CASE \E r \in {"PAM_AUTH_ERR"} : ph_fini(p, r)
    BY <1>3, <1>7, <2>1 DEF loop_head
  <2>2. CASE /\ ~turn[p].dont_increment
             /\ turn' = [turn EXCEPT ![p].first_try = FALSE]
             /\ pc' = [pc EXCEPT ![p] = "increment"]
             /\ UNCHANGED s
    <3>1. /\ TurnIs(turn', p, turn[p].tries, FALSE, FALSE) /\ UNCHANGED <<cfg, judged, accepted>>
      BY <1>1, <1>7, <1>t, <2>2 DEF loop_head, Turn
    <3> QED
      BY <1>1, <2>2, <3>1 DEF Untouched, Open, Asking, TurnIs
  <2>3. CASE /\ turn[p].dont_increment
             /\ turn' = [turn EXCEPT ![p].first_try = FALSE, ![p].dont_increment = FALSE]
             /\ pc' = [pc EXCEPT ![p] = AskOrSend]
             /\ UNCHANGED s
    <3>1. /\ TurnIs(turn', p, turn[p].tries, FALSE, FALSE) /\ UNCHANGED <<cfg, judged, accepted>>
          /\ pc[p] = "loop" /\ AskOrSend \in {"oob", "ask"}
      BY <1>7, <1>t, <2>3 DEF loop_head, AskOrSend
    <3> QED
      BY <1>1, <2>3, <3>1 DEF Untouched, Open, Asking, TurnIs
  <2>4. CASE /\ cfg.pam_retry # 1
             /\ pc' = [pc EXCEPT ![p] = AskOrSend]
             /\ UNCHANGED <<s, turn>>
    BY <1>1, <1>4, <1>7, <2>4 DEF loop_head, AskOrSend, PamPc
  <2> QED
    BY <1>7, <2>1, <2>2, <2>3, <2>4 DEF loop_head, CallFor
<1>8. CASE ph_increment(p)
  BY <1>3, <1>8 DEF ph_increment, Taken, Asking, AskOrSend
<1>9. ASSUME NEW ok \in BOOLEAN, oob_done(p, ok), pc[p] \in Asking,
             UNCHANGED <<s, cfg, judged, accepted>>
      PROVE  Untouched(p)
  <2>1. CASE cfg.pam_oob = 3
    <3>1. TurnIs(turn', p, turn[p].tries, turn[p].first_try, turn[p].dont_increment)
      <4>1. 0 \in 0..WAITS
        BY PamAssumption
      <4> QED
        BY <1>9, <1>w, <2>1, <4>1 DEF oob_done
    <3> QED
      BY <1>1, <1>9, <2>1, <3>1 DEF oob_done, Untouched, Open, NextAsked, TurnIs, Asking
  <2>2. CASE cfg.pam_oob # 3
    BY <1>5, <1>9, <1>t, <2>2 DEF oob_done, Open
  <2> QED
    BY <2>1, <2>2
<1>10. CASE ph_oob_send(p) \/ ph_oob_recorded(p) \/ ph_oob_wait(p)
  <2>1. pc[p] \in Asking /\ (cfg.pam_retry = 1 => ~turn[p].dont_increment)
        /\ UNCHANGED <<s, cfg, judged, accepted>>
    BY <1>10 DEF ph_oob_send, ph_oob_recorded, ph_oob_wait, NextAsked, Asking
  <2>2. CASE \E ok \in BOOLEAN : oob_done(p, ok)
    BY <1>9, <2>1, <2>2
  <2>3. CASE /\ pc' \in {[pc EXCEPT ![p] = l] : l \in {"oob_time", "exec"}}
             /\ UNCHANGED turn \/ \E n \in 0..WAITS : turn' = [turn EXCEPT ![p].times = n]
    <3>1. \/ UNCHANGED turn
          \/ TurnIs(turn', p, turn[p].tries, turn[p].first_try, turn[p].dont_increment)
      BY <1>t, <2>3
    <3> QED
      BY <1>1, <2>1, <2>3, <3>1 DEF Untouched, Open, Asking, TurnIs
  <2>4. CASE ph_oob_send(p)
    BY <2>2, <2>3, <2>4 DEF ph_oob_send, CallFor
  <2>5. CASE ph_oob_recorded(p)
    <3>1. WAITS \in 0..WAITS
      BY PamAssumption
    <3> QED
      BY <2>2, <2>3, <2>5, <3>1 DEF ph_oob_recorded
  <2>6. CASE ph_oob_wait(p)
    <3>1. CASE \E ok \in BOOLEAN : oob_done(p, ok)
      BY <2>2, <3>1
    <3>2. CASE /\ pc[p] = "exec" /\ UNCHANGED pc /\ turn[p].times > 0
               /\ turn' = [turn EXCEPT ![p].times = @ - 1]
      <4>1. turn[p].times - 1 \in 0..WAITS
        BY <1>1, <3>2, PamAssumption DEF Turn
      <4>2. turn' = [turn EXCEPT ![p].times = turn[p].times - 1] /\ pc' = [pc EXCEPT ![p] = "exec"]
        BY <1>1, <3>2
      <4> QED
        BY <2>3, <4>1, <4>2
    <3> QED
      BY <2>6, <3>1, <3>2 DEF ph_oob_wait
  <2> QED
    BY <1>10, <2>4, <2>5, <2>6
<1>11. CASE no_answer(p) \/ killed(p)
  BY <1>3, <1>11 DEF no_answer, killed
<1>12. CASE answer_dot(p)
  <2>1. pc[p] = "ask" /\ (cfg.pam_retry = 1 => ~turn[p].dont_increment) /\ Open(p)
        /\ UNCHANGED <<cfg, judged, accepted>>
    BY <1>12 DEF answer_dot, NextAsked, Asking, Open
  <2> QED
    BY <1>3, <1>4, <1>5, <1>12, <1>t, <2>1 DEF answer_dot, PamPc, Asking
<1>13. CASE secure_request(p)
  <2>1. pc[p] = "secure" /\ (cfg.pam_retry = 1 => ~turn[p].dont_increment) /\ Open(p)
        /\ UNCHANGED <<cfg, judged, accepted, s>>
    BY <1>13 DEF secure_request, NextAsked, Asking, Open
  <2>2. turn[p].tries < 5
    BY <1>1, <2>1, LimitType DEF PamInv, PamTypeOK, TriesBounded, Asking
  <2> QED
    BY <1>4, <1>5, <1>13, <1>t, <2>1, <2>2 DEF secure_request, PamPc, Asking
<1>14. CASE failure_counted(p)
  <2>1. cfg.pam_retry = 1 => ~turn[p].dont_increment
    BY <1>14 DEF failure_counted, NextAsked
  <2> QED
    BY <1>4, <1>14, <2>1 DEF failure_counted, PamPc, Asking
<1> QED
  BY <1>6, <1>7, <1>8, <1>10, <1>11, <1>12, <1>13, <1>14 DEF SessionStep

(* Every step keeps NextAsked. *)
LEMMA NextAskedStep == PamInv /\ NextAsked /\ [PamNext]_vars => NextAsked'
<1> SUFFICES ASSUME PamInv, NextAsked, [PamNext]_vars PROVE NextAsked'
  OBVIOUS
<1>1. pc \in [Proc -> PamPc] /\ turn \in [Proc -> Turn]
  BY DEF PamInv, PamTypeOK
<1>2. CASE UNCHANGED pamVars
  BY <1>2 DEF pamVars, NextAsked
<1>3. ASSUME NEW p \in Proc, Untouched(p) PROVE NextAsked'
  BY <1>1, <1>3 DEF Untouched, NextAsked
<1>4. ASSUME NEW p \in Proc, Taken(p) PROVE NextAsked'
  BY <1>1, <1>4 DEF Taken, NextAsked
<1>5. ASSUME NEW p \in Proc, answer_passcode(p) PROVE NextAsked'
  <2>1. cfg' = cfg /\ pc[p] = "ask"
    BY <1>5 DEF answer_passcode, At
  <2>2. CASE pc' = [pc EXCEPT ![p] = "idle"] /\ turn' = [turn EXCEPT ![p] = FirstTurn]
    BY <1>1, <2>1, <2>2 DEF NextAsked, Asking
  <2>3. CASE pc' = [pc EXCEPT ![p] = "failures"] /\ turn' = [turn EXCEPT ![p].tries = @ + 1]
    <3>1. turn'[p].dont_increment = turn[p].dont_increment
      BY <1>1, <2>3 DEF Turn
    <3> QED
      BY <1>1, <2>1, <2>3, <3>1 DEF NextAsked, Asking
  <2> QED
    BY <1>5, <2>2, <2>3 DEF answer_passcode, ph_fini, CallFor, Move
<1> QED
  BY <1>2, <1>3, <1>4, <1>5, StepKinds, SessionKinds DEF vars

(* A work step hands out no passcode again unless a skip goes back. *)
LEMMA BehindWork ==
    ASSUME PamInv, DiskInv, NEW p \in Proc, WorkStep(p), ~stale, ~rewound',
           NEW c \in Passcode, Behind(c)
    PROVE  Behind(c)'
<1>1. /\ step \in [Proc -> {"idle", "lock", "load", "work", "unlock", "return"}]
      /\ buf \in [Proc -> State \cup {NoState}] /\ db \in State \cup {NoState}
      /\ buf[p] \in State
  BY DEF PamInv, PamTypeOK, PppTypeOK, WorkLoaded, Loaded, WorkStep
<1>2. \A x \in State : x.counter \in Nat
  BY PppAssumption DEF State
<1>3. c[2] \in Nat
  BY PppAssumption DEF Passcode
<1>4. \A q \in Proc : Pending(q)' => Pending(q) /\ buf'[q] = buf[q]
  BY <1>1 DEF WorkStep, Pending
<1>5. ASSUME db' # db, db' # NoState, db'.key = c[1] PROVE c[2] < db'.counter
  <2>1. OwnUpdate(p, buf[p], db')
    BY <1>5 DEF WorkStep
  <2>2. CASE tx[p] = "store_new"
    BY <1>5, <2>2 DEF WorkStep, Behind, Pending
  <2>3. CASE tx[p] # "store_new"
    <3>1. buf[p] = db
      BY <2>3 DEF WorkStep, DiskInv, Current
    <3>2. db'.key = db.key /\ db'.counter >= db.counter
      <4>1. CASE tx[p] = "skip"
        BY <1>1, <1>5, <2>1, <3>1, <4>1 DEF WorkStep, OwnUpdate, State
      <4>2. CASE tx[p] = "increment"
        BY <1>1, <1>2, <1>5, <2>1, <3>1, <4>2 DEF OwnUpdate, State
      <4>3. CASE tx[p] \notin {"store_new", "skip", "increment"}
        <5>1. db'.key = db.key /\ db'.counter = db.counter
          BY <1>1, <1>5, <2>1, <3>1, <4>3 DEF OwnUpdate, State
        <5> QED
          BY <1>1, <1>2, <3>1, <5>1
      <4> QED
        BY <2>3, <4>1, <4>2, <4>3
    <3>3. db # NoState /\ db'.counter \in Nat /\ db.counter \in Nat
      BY <1>1, <1>2, <1>5, <3>1, PppAssumption DEF WorkStep
    <3> QED
      BY <1>3, <1>5, <3>2, <3>3 DEF Behind
  <2> QED
    BY <2>2, <2>3
<1> QED
  BY <1>4, <1>5 DEF Behind, WorkStep

(* Nor does a call, a return, a kill or the generation of a key. *)
LEMMA BehindAside ==
    ASSUME PamInv, NEW p \in Proc, Aside(p), NEW c \in Passcode, Behind(c)
    PROVE  Behind(c)'
<1>1. keys \in Nat /\ c[1] \in Nat
  BY PppAssumption DEF PamInv, PamTypeOK, PppTypeOK, Passcode
<1>2. keys' = keys + 1 => buf'[p].key = keys + 1
  BY <1>1 DEF Aside, NewState
<1>3. Pending(p)' => keys' = keys + 1 /\ buf'[p].key = keys + 1
  BY <1>2 DEF Aside, Pending
<1> QED
  BY <1>1, <1>3 DEF Aside, Behind, Pending

(***************************************************************************)
(* A step which judges nothing and reserves nothing: sessions keep or give *)
(* up their passcodes, or take the one their increment reserved.           *)
(***************************************************************************)
LEMMA OnceKept ==
    ASSUME PamInv, PamInv', OnceInv, Safe,
           UNCHANGED <<judged, accepted, cfg>>,
           \A q \in Proc, c \in Passcode :
              /\ Asks(q, c)' => Takes(q, c) \/ (Asks(q, c) /\ turn'[q].tries >= turn[q].tries)
              /\ Takes(q, c)' => Takes(q, c),
           \A c \in Passcode : Behind(c) => Behind(c)',
           Untried'
    PROVE  OnceInv'
<1>1. /\ SpentBehind /\ ClaimsDiffer /\ ClaimsOpen
      /\ AcceptedOnce /\ JudgedBounded
  BY DEF OnceInv
<1>2. \A q \in Proc, c \in Passcode : Claims(q, c)' => Claims(q, c)
  BY DEF Claims
<1>3. SpentBehind'
  BY <1>1, <1>2 DEF SpentBehind, Spent
<1>4. ClaimsDiffer'
  BY <1>1, <1>2 DEF ClaimsDiffer
<1>5. ClaimsOpen'
  <2>1. ASSUME NEW q \in Proc, NEW c \in Passcode
        PROVE  /\ Claims(q, c)' => accepted'[c] = 0
               /\ Takes(q, c)' => judged'[c] = 0
    BY <1>1, <1>2 DEF ClaimsOpen
  <2>2. ASSUME NEW q \in Proc, NEW c \in Passcode, Asks(q, c)'
        PROVE  judged'[c] <= turn'[q].tries
    <3>1. turn'[q].tries \in Nat /\ turn[q].tries \in Nat /\ judged[c] \in Nat
      BY DEF PamInv, PamTypeOK, Turn
    <3>2. CASE Takes(q, c)
      BY <1>1, <3>1, <3>2 DEF ClaimsOpen
    <3>3. CASE Asks(q, c) /\ turn'[q].tries >= turn[q].tries
      BY <1>1, <3>1, <3>3 DEF ClaimsOpen
    <3> QED
      BY <2>2, <3>2, <3>3
  <2> QED
    BY <2>1, <2>2 DEF ClaimsOpen
<1>6. AcceptedOnce' /\ JudgedBounded'
  BY <1>1 DEF AcceptedOnce, JudgedBounded, Bound
<1> QED
  BY <1>3, <1>4, <1>5, <1>6 DEF OnceInv

(* What a session asks for is a passcode. *)
LEMMA PasscodeTypes ==
    ASSUME PamInv, NEW p \in Proc
    PROVE  /\ s[p] # NoState => Reserved(p) \in Passcode
           /\ buf[p] # NoState => <<buf[p].key, buf[p].counter>> \in Passcode
<1>1. \A x \in State : <<x.key, x.counter>> \in Passcode
  BY DEF State, Passcode
<1>2. s[p] \in State \cup {NoState} /\ buf[p] \in State \cup {NoState}
  BY DEF PamInv, PamTypeOK, PppTypeOK
<1> QED
  BY <1>1, <1>2 DEF Reserved

(* Locking, loading and unlocking reserve nothing. *)
LEMMA OnceLocks ==
    ASSUME PamInv, PamInv', DiskInv, OnceInv, Safe, NEW p \in Proc, UNCHANGED pamVars,
           state_lock(p) \/ ppp_state_load(p) \/ state_unlock(p)
    PROVE  OnceInv'
<1>1. /\ step \in [Proc -> {"idle", "lock", "load", "work", "unlock", "return"}]
      /\ buf \in [Proc -> State \cup {NoState}] /\ res \in [Proc -> {"ok"} \cup TxError]
  BY DEF PamInv, PamTypeOK, PppTypeOK
<1>2. /\ UNCHANGED <<db, tx, keys>>
      /\ \A q \in Proc \ {p} : step'[q] = step[q] /\ buf'[q] = buf[q] /\ res'[q] = res[q]
  BY <1>1, LockTurn DEF state_lock, ppp_state_load, state_unlock, Goto, PamInv
<1>3. InFlight(p)' => InFlight(p) /\ buf'[p] = buf[p]
  <2>1. CASE state_lock(p)
    BY <1>1, <2>1, LockTurn DEF state_lock, Goto, PamInv, LockError, InFlight
  <2>2. CASE ppp_state_load(p)
    BY <1>1, <2>2 DEF ppp_state_load, Goto, InFlight
  <2>3. CASE state_unlock(p)
    BY <1>1, <2>3 DEF state_unlock, InFlight
  <2> QED
    BY <2>1, <2>2, <2>3
<1>4. Pending(p)' => Pending(p) /\ buf'[p] = buf[p]
  <2>1. CASE state_lock(p)
    BY <1>1, <2>1, LockTurn DEF state_lock, Goto, PamInv, LockError, Pending
  <2>2. CASE ppp_state_load(p)
    BY <1>1, <2>2 DEF ppp_state_load, Pending, DiskInv, NewNotLoaded
  <2>3. CASE state_unlock(p)
    BY <1>1, <2>3 DEF state_unlock, Pending
  <2> QED
    BY <2>1, <2>2, <2>3
<1>5. ASSUME NEW q \in Proc, NEW c \in Passcode
      PROVE  /\ Asks(q, c)' => Asks(q, c) /\ turn'[q].tries >= turn[q].tries
             /\ Takes(q, c)' => Takes(q, c)
  <2>1. turn[q].tries \in Nat /\ turn' = turn /\ s' = s
    BY DEF PamInv, PamTypeOK, Turn, pamVars
  <2> QED
    BY <1>2, <1>3, <2>1 DEF Asks, Reserved, Takes, InFlight
<1>6. ASSUME NEW c \in Passcode, Behind(c) PROVE Behind(c)'
  BY <1>2, <1>4, <1>6 DEF Behind, Pending
<1>7. Untried'
  BY DEF OnceInv, Untried, Reserved, pamVars
<1> QED
  BY <1>5, <1>6, <1>7, OnceKept DEF pamVars

(* A work step reserves the passcode of the counter it moved past, once. *)
LEMMA OnceWork ==
    ASSUME PamInv, PamInv', DiskInv, OnceInv, Safe, Safe', NEW p \in Proc, UNCHANGED pamVars,
           WorkStep(p)
    PROVE  OnceInv'
<1>1. /\ step \in [Proc -> {"idle", "lock", "load", "work", "unlock", "return"}]
      /\ buf \in [Proc -> State \cup {NoState}] /\ res \in [Proc -> {"ok"} \cup TxError]
      /\ step[p] = "work" /\ buf[p] \in State /\ judged \in [Passcode -> Nat]
      /\ accepted \in [Passcode -> Nat]
  BY DEF PamInv, PamTypeOK, PppTypeOK, WorkLoaded, Loaded, WorkStep
<1>2. /\ UNCHANGED <<tx, keys, judged, accepted, cfg, s, turn, pc>>
      /\ \A q \in Proc \ {p} : step'[q] = step[q] /\ buf'[q] = buf[q] /\ res'[q] = res[q]
  BY <1>1 DEF WorkStep, pamVars
<1>3. ASSUME NEW c \in Passcode, Behind(c) PROVE Behind(c)'
  BY <1>3, BehindWork DEF Safe
<1>4. Untried'
  BY <1>2 DEF OnceInv, Untried, Reserved
<1>5. ASSUME NEW q \in Proc, NEW c \in Passcode
      PROVE  Asks(q, c)' <=> Asks(q, c)
  BY <1>2 DEF Asks, Reserved
<1>6. CASE tx[p] # "increment" \/ res'[p] # "ok"
  <2>1. ASSUME NEW q \in Proc, NEW c \in Passcode
        PROVE  Takes(q, c)' => Takes(q, c)
    BY <1>2, <1>6 DEF Takes, InFlight
  <2>2. \A q \in Proc : turn'[q].tries >= turn[q].tries
    BY <1>2 DEF PamInv, PamTypeOK, Turn
  <2> QED
    BY <1>2, <1>3, <1>4, <1>5, <2>1, <2>2, OnceKept
<1>7. CASE tx[p] = "increment" /\ res'[p] = "ok"
  <2>0. PICK c0 \in Passcode : c0 = <<buf[p].key, buf[p].counter>>
    BY <1>1, PasscodeTypes, PppAssumption
  <2>1. /\ db = buf[p] /\ db' = [buf[p] EXCEPT !.counter = @ + 1] /\ buf' = buf
        /\ db # NoState /\ db' # NoState
    <3>1. db = buf[p] /\ db # NoState /\ buf[p].counter < MAX_CODE
      BY <1>1, <1>7 DEF Safe, DiskInv, Current, PamInv, WorkLoaded, Loaded
    <3>2. db' = [buf[p] EXCEPT !.counter = @ + 1] /\ buf' = buf
      BY <1>7 DEF WorkStep
    <3>3. db' \in State
      BY <1>1, <3>1, <3>2, StateUpdates
    <3> QED
      BY <3>1, <3>2, <3>3, PppAssumption
  <2>2. c0[1] = buf[p].key /\ c0[2] = buf[p].counter
    BY <2>0
  <2>3. ~Spent(c0)
    <3>1. buf[p].counter \in Nat
      BY <1>1, PppAssumption DEF State
    <3>2. ~Behind(c0)
      BY <2>1, <2>2, <3>1 DEF Behind
    <3> QED
      BY <2>2, <3>2 DEF OnceInv, SpentBehind
  <2>4. Behind(c0)'
    <3>1. c0[1] <= keys'
      BY <1>2, <2>1, <2>2 DEF DiskInv, KeysKnown
    <3>2. ASSUME NEW q \in Proc, Pending(q)' PROVE buf'[q].key # c0[1]
      <4>1. Pending(q)
        BY <1>1, <1>2, <1>7, <3>2 DEF Pending
      <4> QED
        BY <2>1, <2>2, <4>1 DEF Safe, DiskInv, KeysFresh
    <3>3. c0[2] < db'.counter
      <4>1. buf[p].counter \in Nat /\ db'.counter = buf[p].counter + 1
        BY <1>1, <2>1, PppAssumption DEF State
      <4> QED
        BY <2>2, <4>1
    <3> QED
      BY <3>1, <3>2, <3>3 DEF Behind
  <2>5. ASSUME NEW q \in Proc, NEW c \in Passcode, Claims(q, c)'
        PROVE  Claims(q, c) \/ (q = p /\ c = c0)
    BY <1>2, <1>5, <2>0, <2>1, <2>5 DEF Claims, Takes, InFlight
  <2>6. SpentBehind'
    <3>1. ASSUME NEW c \in Passcode, Spent(c)' PROVE Spent(c) \/ c = c0
      BY <1>2, <2>5, <3>1 DEF Spent
    <3> QED
      BY <1>3, <2>4, <3>1 DEF OnceInv, SpentBehind
  <2>7. ClaimsDiffer'
    BY <2>3, <2>5 DEF OnceInv, ClaimsDiffer, Spent
  <2>8. ClaimsOpen'
    <3>1. judged[c0] = 0 /\ accepted[c0] = 0
      BY <1>1, <2>2, <2>3 DEF Spent
    <3>2. ASSUME NEW q \in Proc, NEW c \in Passcode
          PROVE  /\ Claims(q, c)' => accepted'[c] = 0
                 /\ Asks(q, c)' => judged'[c] <= turn'[q].tries
      BY <1>2, <1>5, <2>5, <3>1 DEF OnceInv, ClaimsOpen
    <3>3. ASSUME NEW q \in Proc, NEW c \in Passcode, Takes(q, c)' PROVE judged'[c] = 0
      <4>1. CASE q = p
        BY <1>2, <2>0, <2>1, <3>1, <3>3, <4>1 DEF Takes
      <4>2. CASE q # p
        BY <1>2, <3>3, <4>2 DEF Takes, InFlight, OnceInv, ClaimsOpen
      <4> QED
        BY <4>1, <4>2
    <3> QED
      BY <3>2, <3>3 DEF ClaimsOpen
  <2>9. AcceptedOnce' /\ JudgedBounded'
    BY <1>2 DEF OnceInv, AcceptedOnce, JudgedBounded, Bound
  <2> QED
    BY <1>4, <2>6, <2>7, <2>8, <2>9 DEF OnceInv
<1> QED
  BY <1>6, <1>7

(* The rest of a session's steps leave every passcode as it was. *)
LEMMA OnceSession ==
    ASSUME PamInv, PamInv', OnceInv, Safe, NEW p \in Proc,
           UNCHANGED txVars \/ Aside(p), Untouched(p) \/ Taken(p)
    PROVE  OnceInv'
<1>1. /\ pc \in [Proc -> PamPc] /\ s \in [Proc -> State \cup {NoState}]
      /\ \A q \in Proc : turn[q].tries \in Nat
      /\ judged \in [Passcode -> Nat]
  BY DEF PamInv, PamTypeOK, Turn
<1>2. /\ UNCHANGED <<cfg, judged, accepted>>
      /\ \A q \in Proc \ {p} : pc'[q] = pc[q] /\ s'[q] = s[q] /\ turn'[q] = turn[q]
  BY <1>1 DEF Untouched, Taken
<1>3. ASSUME NEW q \in Proc, NEW c \in Passcode, Takes(q, c)' PROVE Takes(q, c)
  <2>1. CASE UNCHANGED txVars
    BY <1>3, <2>1 DEF Takes, InFlight, txVars
  <2>2. CASE Aside(p)
    BY <1>3, <2>2 DEF Aside, Takes, InFlight
  <2> QED
    BY <2>1, <2>2
<1>4. ASSUME NEW c \in Passcode, Behind(c) PROVE Behind(c)'
  <2>1. CASE UNCHANGED txVars
    BY <1>4, <2>1 DEF Behind, Pending, txVars
  <2> QED
    BY <1>4, <2>1, BehindAside
<1>5. ASSUME Taken(p)
      PROVE  Takes(p, Reserved(p)') /\ s'[p] # NoState /\ Reserved(p)' \in Passcode
  <2>1. InFlight(p) /\ buf[p] # NoState
    BY <1>5 DEF Taken, InFlight, PamInv, CallPlace, WorkLoaded, Loaded
  <2> QED
    BY <1>1, <1>5, <2>1, PasscodeTypes DEF Taken, Takes, Reserved
<1>6. ASSUME NEW q \in Proc, NEW c \in Passcode, Asks(q, c)'
      PROVE  Takes(q, c) \/ (Asks(q, c) /\ turn'[q].tries >= turn[q].tries)
  <2>1. CASE q # p
    BY <1>1, <1>2, <1>6, <2>1 DEF Asks, Reserved
  <2>2. CASE q = p /\ Untouched(p)
    BY <1>6, <2>2 DEF Untouched, Asks, Reserved
  <2>3. CASE q = p /\ Taken(p)
    BY <1>5, <1>6, <2>3 DEF Asks
  <2> QED
    BY <2>1, <2>2, <2>3
<1>7. Untried'
  <2> SUFFICES ASSUME cfg'.pam_retry = 1, NEW q \in Proc, Open(q)'
               PROVE  judged'[Reserved(q)'] = 0
    BY DEF Untried, Open
  <2>1. \A x \in Proc : Open(x) => judged[Reserved(x)] = 0
    BY <1>2 DEF OnceInv, Untried, Open
  <2>2. CASE q # p
    BY <1>2, <2>1, <2>2 DEF Open, Reserved
  <2>3. CASE q = p /\ Untouched(p)
    BY <1>2, <2>1, <2>3 DEF Untouched, Reserved
  <2>4. CASE q = p /\ Taken(p)
    <3>1. Takes(p, Reserved(p)') /\ Reserved(p)' \in Passcode
      BY <1>5, <2>4
    <3>2. \A c \in Passcode : Takes(p, c) => judged[c] = 0
      BY DEF OnceInv, ClaimsOpen
    <3> QED
      BY <1>2, <2>4, <3>1, <3>2
  <2> QED
    BY <2>2, <2>3, <2>4
<1> QED
  BY <1>2, <1>3, <1>4, <1>6, <1>7, OnceKept

(***************************************************************************)
(* An answer is compared with the session's own passcode, which no other   *)
(* session has, and which was compared at most as often as it was asked.   *)
(***************************************************************************)
LEMMA OnceJudge ==
    ASSUME PamInv, PamInv', OnceInv, Safe, NEW p \in Proc,
           UNCHANGED txVars \/ Aside(p), answer_passcode(p)
    PROVE  OnceInv'
<1>1. /\ pc \in [Proc -> PamPc] /\ s \in [Proc -> State \cup {NoState}]
      /\ turn \in [Proc -> Turn] /\ \A q \in Proc : turn[q].tries \in Nat
      /\ judged \in [Passcode -> Nat] /\ accepted \in [Passcode -> Nat]
      /\ pc[p] = "ask" /\ step[p] = "idle" /\ cfg' = cfg /\ cfg \in cfg_t
  <2>1. /\ pc \in [Proc -> PamPc] /\ s \in [Proc -> State \cup {NoState}]
        /\ turn \in [Proc -> Turn]
        /\ judged \in [Passcode -> Nat] /\ accepted \in [Passcode -> Nat]
        /\ cfg \in cfg_t
    BY LimitType DEF PamInv, PamTypeOK
  <2>2. \A q \in Proc : turn[q].tries \in Nat
    BY <2>1 DEF Turn
  <2>3. pc[p] = "ask" /\ step[p] = "idle" /\ cfg' = cfg
    BY DEF answer_passcode, At
  <2> QED
    BY <2>1, <2>2, <2>3
<1>2. s[p] # NoState /\ turn[p].tries < Limit
  BY <1>1 DEF PamInv, SessionState, TriesBounded, Asking
<1>3. PICK c0 \in Passcode : c0 = Reserved(p)
  BY <1>2, PasscodeTypes
<1>4. /\ SpentBehind /\ ClaimsDiffer /\ ClaimsOpen
      /\ AcceptedOnce /\ JudgedBounded /\ Untried
  BY DEF OnceInv
<1>5. Asks(p, c0) /\ Claims(p, c0) /\ Spent(c0)
  BY <1>2, <1>3 DEF Asks, Claims, Spent
<1>6. judged' = [judged EXCEPT ![c0] = @ + 1]
  BY <1>3 DEF answer_passcode
<1>7. \/ /\ accepted' = [accepted EXCEPT ![c0] = @ + 1] /\ s' = [s EXCEPT ![p] = NoState]
         /\ pc' = [pc EXCEPT ![p] = "idle"] /\ turn' = [turn EXCEPT ![p] = FirstTurn]
      \/ /\ accepted' = accepted /\ s' = s /\ pc' = [pc EXCEPT ![p] = "failures"]
         /\ turn' = [turn EXCEPT ![p].tries = @ + 1]
  BY <1>3 DEF answer_passcode, ph_fini, CallFor, Move
<1>8. turn' = [turn EXCEPT ![p].tries = @ + 1] => turn'[p].tries = turn[p].tries + 1
  BY <1>1 DEF Turn
<1>9. judged[c0] <= turn[p].tries /\ accepted[c0] = 0
  BY <1>4, <1>5 DEF ClaimsOpen
<1>10. ASSUME NEW q \in Proc, NEW c \in Passcode
       PROVE  /\ Takes(q, c)' => Takes(q, c) /\ q # p
              /\ Asks(q, c)' => Asks(q, c) /\ (q = p => s' = s)
  <2>1. Asks(q, c)' => Asks(q, c) /\ (q = p => s' = s)
    BY <1>1, <1>7 DEF Asks, Reserved
  <2>2. CASE UNCHANGED txVars
    BY <1>1, <2>1, <2>2 DEF Takes, InFlight, txVars
  <2>3. CASE Aside(p)
    BY <2>1, <2>3 DEF Aside, Takes, InFlight
  <2> QED
    BY <2>2, <2>3
<1>11. ASSUME NEW q \in Proc, NEW c \in Passcode, Claims(q, c)' PROVE Claims(q, c)
  BY <1>10, <1>11 DEF Claims
<1>12. SpentBehind'
  <2>1. ASSUME NEW c \in Passcode, Spent(c)' PROVE Spent(c)
    <3>1. CASE c = c0
      BY <1>5, <3>1
    <3>2. CASE c # c0
      BY <1>1, <1>6, <1>7, <1>11, <2>1, <3>2 DEF Spent
    <3> QED
      BY <3>1, <3>2
  <2>2. ASSUME NEW c \in Passcode, Behind(c) PROVE Behind(c)'
    <3>1. CASE UNCHANGED txVars
      BY <2>2, <3>1 DEF Behind, Pending, txVars
    <3> QED
      BY <2>2, <3>1, BehindAside
  <2> QED
    BY <1>4, <2>1, <2>2 DEF SpentBehind
<1>13. ClaimsDiffer'
  BY <1>4, <1>11 DEF ClaimsDiffer
<1>14. ClaimsOpen'
  <2> SUFFICES ASSUME NEW q \in Proc, NEW c \in Passcode
               PROVE  /\ Claims(q, c)' => accepted'[c] = 0
                      /\ Takes(q, c)' => judged'[c] = 0
                      /\ Asks(q, c)' => judged'[c] <= turn'[q].tries
    BY DEF ClaimsOpen
  <2>1. CASE q # p
    <3>1. Claims(q, c)' => c # c0 /\ Claims(q, c)
      BY <1>4, <1>5, <1>11, <2>1 DEF ClaimsDiffer
    <3>2. c # c0 => judged'[c] = judged[c] /\ accepted'[c] = accepted[c]
      BY <1>1, <1>6, <1>7
    <3>3. turn'[q] = turn[q]
      BY <1>1, <1>7, <2>1
    <3> QED
      BY <1>4, <1>10, <3>1, <3>2, <3>3 DEF ClaimsOpen, Claims
  <2>2. CASE q = p
    <3>1. ~Takes(q, c)'
      BY <1>10, <2>2
    <3>2. ASSUME Asks(q, c)' PROVE accepted'[c] = 0 /\ judged'[c] <= turn'[q].tries
      <4>1. s' = s /\ c = c0
        BY <1>3, <1>10, <2>2, <3>2 DEF Asks
      <4>2. accepted' = accepted /\ turn'[p].tries = turn[p].tries + 1
        <5>1. [s EXCEPT ![p] = NoState] # s
          BY <1>1, <1>2
        <5> QED
          BY <1>7, <1>8, <4>1, <5>1
      <4> QED
        BY <1>1, <1>6, <1>9, <2>2, <4>1, <4>2
    <3> QED
      BY <3>1, <3>2 DEF Claims
  <2> QED
    BY <2>1, <2>2
<1>15. AcceptedOnce'
  <2> SUFFICES ASSUME NEW c \in Passcode PROVE accepted'[c] <= 1
    BY DEF AcceptedOnce
  <2>1. accepted[c] <= 1
    BY <1>4 DEF AcceptedOnce
  <2> QED
    BY <1>1, <1>7, <1>9, <2>1
<1>16. JudgedBounded'
  <2>1. judged[c0] + 1 <= Bound
    <3>1. CASE cfg.pam_retry = 1
      BY <1>1, <1>3, <1>4, <3>1 DEF Untried, Asking, Bound
    <3>2. CASE cfg.pam_retry = 0
      BY <1>1, <1>2, <1>9, <3>2 DEF Limit, Bound
    <3>3. CASE cfg.pam_retry \in 2..3
      <4>1. Limit = Bound /\ Bound \in Nat
        BY <1>1, <3>3 DEF Limit, Bound, cfg_t
      <4> QED
        BY <1>1, <1>2, <1>9, <4>1
    <3> QED
      BY <1>1, <3>1, <3>2, <3>3 DEF cfg_t
  <2>2. Bound' = Bound
    BY <1>1 DEF Bound
  <2> QED
    BY <1>1, <1>4, <1>6, <2>1, <2>2 DEF JudgedBounded
<1>17. Untried'
  <2> SUFFICES ASSUME cfg'.pam_retry = 1, NEW q \in Proc, Open(q)'
               PROVE  judged'[Reserved(q)'] = 0
    BY DEF Untried, Open
  <2>1. q # p
    BY <1>1, <1>7 DEF Open, Asking
  <2>2. Open(q) /\ s'[q] = s[q]
    BY <1>1, <1>7, <2>1 DEF Open
  <2>3. s[q] # NoState
    BY <2>2 DEF Open, PamInv, SessionState
  <2>4. Reserved(q) \in Passcode /\ Claims(q, Reserved(q))
    BY <2>3, PasscodeTypes DEF Claims, Asks
  <2>5. Reserved(q) # c0
    BY <1>4, <1>5, <2>1, <2>4 DEF ClaimsDiffer
  <2>6. judged[Reserved(q)] = 0
    BY <1>1, <1>4, <2>2 DEF Untried, Open
  <2> QED
    BY <1>1, <1>6, <2>2, <2>4, <2>5, <2>6 DEF Reserved
<1> QED
  BY <1>12, <1>13, <1>14, <1>15, <1>16, <1>17 DEF OnceInv

(* The initial states satisfy the invariant: nothing is reserved yet. *)
LEMMA PamOnceInit == PamInit => PamOnceInv
<1> SUFFICES ASSUME PamInit PROVE PamOnceInv
  OBVIOUS
<1>1. /\ \A p \in Proc : s[p] = NoState /\ step[p] = "idle" /\ pc[p] = "idle"
      /\ \A c \in Passcode : judged[c] = 0 /\ accepted[c] = 0
  BY DEF PamInit, PppInit
<1>2. \A p \in Proc, c \in Passcode : ~Claims(p, c)
  BY <1>1 DEF Claims, Asks, Takes, InFlight
<1>3. SpentBehind /\ ClaimsDiffer /\ ClaimsOpen
  BY <1>1, <1>2 DEF SpentBehind, Spent, ClaimsDiffer, ClaimsOpen, Claims
<1>4. Bound \in Nat
  BY PamAssumption DEF PamInit, Bound, cfg_t
<1>5. AcceptedOnce /\ JudgedBounded
  BY <1>1, <1>4 DEF AcceptedOnce, JudgedBounded
<1>6. Untried /\ NextAsked
  BY <1>1 DEF Untried, NextAsked, Asking
<1> QED
  BY <1>3, <1>5, <1>6 DEF PamOnceInv, OnceInv

(* Every step keeps the invariant. *)
LEMMA PamOnceStep == PamInv /\ DiskInv /\ PamOnceInv /\ [PamNext]_vars => PamOnceInv'
<1> SUFFICES ASSUME PamInv, DiskInv, PamOnceInv, [PamNext]_vars PROVE PamOnceInv'
  OBVIOUS
<1>1. NextAsked'
  BY NextAskedStep DEF PamOnceInv
<1>2. PamInv' /\ NextAsked /\ OnceInv
  BY PamInvStep DEF PamOnceInv
<1>3. ASSUME Safe' PROVE OnceInv'
  <2>1. Safe
    <3>1. ~stale
      BY <1>3, PamLockStep, StaleKept DEF PamInv, Safe
    <3>2. ~rewound
      BY <1>3, StepKinds DEF Safe, vars, pppVars, txVars, state_lock, ppp_state_load, WorkStep,
                             state_unlock, Aside
    <3> QED
      BY <3>1, <3>2 DEF Safe
  <2>2. CASE UNCHANGED <<db, step, tx, buf, res, keys, rewound, pamVars>>
    BY <1>2, <2>1, <2>2
       DEF OnceInv, SpentBehind, ClaimsDiffer, ClaimsOpen, AcceptedOnce, JudgedBounded, Bound,
           Untried, Spent, Claims, Asks, Takes, InFlight, Behind, Pending, Reserved, pamVars
  <2>3. ASSUME NEW p \in Proc, UNCHANGED pamVars,
               state_lock(p) \/ ppp_state_load(p) \/ WorkStep(p) \/ state_unlock(p)
        PROVE  OnceInv'
    BY <1>2, <1>3, <2>1, <2>3, OnceLocks, OnceWork
  <2>4. ASSUME NEW p \in Proc, SessionStep(p), UNCHANGED txVars \/ Aside(p) PROVE OnceInv'
    BY <1>2, <2>1, <2>4, SessionKinds, OnceSession, OnceJudge
  <2> QED
    BY <2>2, <2>3, <2>4, StepKinds DEF vars, pppVars, txVars
<1> QED
  BY <1>1, <1>3 DEF PamOnceInv, OnceInv

(* The invariant of the passcodes holds in every reachable state. *)
THEOREM PamOnceInvariant == PamSpec => []PamOnceInv
BY PamOnceInit, PamOnceStep, DiskInvariant, PTL DEF PamSpec

(***************************************************************************)
(* The one-time property: no passcode is accepted twice, for any number of *)
(* sessions, keys and passcodes, unless a lock was stale or a skip went    *)
(* back.                                                                   *)
(***************************************************************************)
THEOREM PamOneTime == PamSpec => []OneTime
<1>1. PamOnceInv => OneTime
  BY DEF PamOnceInv, OnceInv, Safe, AcceptedOnce, OneTime
<1> QED
  BY <1>1, PamOnceInvariant, PTL

(***************************************************************************)
(* A passcode is compared with at most one answer, or with pam_retries     *)
(* where a retry asks for the same one, over all sessions together.        *)
(***************************************************************************)
THEOREM PamGuesses == PamSpec => []GuessesBounded
<1>1. PamOnceInv => GuessesBounded
  BY DEF PamOnceInv, OnceInv, Safe, JudgedBounded, Bound, GuessesBounded
<1> QED
  BY <1>1, PamOnceInvariant, PTL

-----------------------------------------------------------------------------
(***************************************************************************)
(* Out-of-band messages: no two senders within the delay.                  *)
(***************************************************************************)
(* No stored or loaded channel time lies in the future. *)
TimesPast == /\ db # NoState => db.channel_time <= clock
             /\ \A p \in Proc : buf[p] # NoState => buf[p].channel_time <= clock

(* The keys sessions have in memory have been generated. *)
SeenKeys == \A p \in Proc : s[p] # NoState => s[p].key <= keys

(* Nobody has seen a key that waits to be stored. *)
NewUnseen ==
    ~stale => \A q \in Proc : Pending(q) =>
        \A p \in Proc : /\ s[p] # NoState => s[p].key # buf[q].key
                        /\ p # q /\ buf[p] # NoState => buf[p].key # buf[q].key

(* The delay has passed between the time in the session's memory and t. *)
Due(p, t) == t - s[p].channel_time >= cfg.pam_oob_delay

(* ppp_oob_time stored its time? *)
Stored(p) == step[p] \in {"unlock", "return"} /\ res[p] = "ok"

Recorded ==
    ~stale => \A p \in Proc : pc[p] = "oob_time" =>
        /\ step[p] \in {"lock", "load", "work"} => Due(p, clock)
        /\ Stored(p) /\ db # NoState /\ db.key = s[p].key => Due(p, db.channel_time)

(***************************************************************************)
(* The inductive invariant.  OobRecordedFirst speaks of the disk at the    *)
(* moment the sender starts, steps after ppp_oob_time released the lock:   *)
(* it needs to know that nobody put an older time there meanwhile, neither *)
(* from a state loaded before nor by storing that key anew.                *)
(***************************************************************************)
OobInv == TimesPast /\ SeenKeys /\ NewUnseen /\ Recorded
-----------------------------------------------------------------------------
(* Time goes on, by a tick, or stands still. *)
LEMMA ClockForward ==
    ASSUME PamInv, [PamNext]_vars
    PROVE  clock \in Nat /\ clock' \in Nat /\ clock <= clock'
<1>1. clock \in Nat
  BY DEF PamInv, PamTypeOK, PppTypeOK
<1>2. CASE clock' = clock
  BY <1>1, <1>2
<1>3. CASE tick
  BY <1>1, <1>3 DEF tick
<1>4. ASSUME NEW p \in Proc, Transaction(p) PROVE clock' = clock
  BY <1>4 DEF Transaction, state_lock, ppp_state_load, ppp_increment, ppp_skip, ppp_failures,
              pam_sm_open_session, ppp_oob_time, ppp_store_new, ppp_remove,
              ppp_set_disabled, state_unlock
<1>5. ASSUME NEW p \in Proc, SessionStep(p) PROVE clock' = clock
  BY <1>5 DEF SessionStep, pppVars, txVars, Retire, CallFor, ph_validate_spass, loop_head, ph_increment,
              ph_oob_send, ph_oob_recorded, ph_oob_wait, no_answer, answer_dot, secure_request,
              answer_passcode, failure_counted, utility_done, ph_init, utility_call, killed
<1> QED
  BY <1>2, <1>3, <1>4, <1>5 DEF PamNext, Advance, SessionStep, finished, vars, pppVars, txVars

(* What a session's step does to the states in memory. *)
LEMMA SessionMemory ==
    ASSUME PamInv, NextAsked, NEW p \in Proc, SessionStep(p)
    PROVE  /\ cfg' = cfg
           /\ \A q \in Proc \ {p} : pc'[q] = pc[q] /\ s'[q] = s[q]
           /\ s'[p] \in {NoState, s[p], buf[p]}
<1>1. /\ pc \in [Proc -> PamPc] /\ s \in [Proc -> State \cup {NoState}]
  BY DEF PamInv, PamTypeOK
<1>2. CASE Untouched(p)
  BY <1>2 DEF Untouched
<1>3. CASE Taken(p)
  BY <1>1, <1>3 DEF Taken
<1>4. CASE answer_passcode(p)
  BY <1>1, <1>4 DEF answer_passcode, ph_fini, CallFor, Move
<1> QED
  BY <1>2, <1>3, <1>4, SessionKinds

(* A session calls ppp_oob_time only after it checked the delay. *)
LEMMA OobEntered ==
    ASSUME PamInv, NEW p \in Proc, SessionStep(p), pc'[p] = "oob_time"
    PROVE  step'[p] = "lock" /\ UNCHANGED <<s, clock, cfg>> /\ Due(p, clock)
<1> USE DEF At, Returned, Move, hist
<1>1. /\ pc \in [Proc -> PamPc]
      /\ step \in [Proc -> {"idle", "lock", "load", "work", "unlock", "return"}]
  BY DEF PamInv, PamTypeOK, PppTypeOK
<1>2. CASE ph_oob_send(p)
  BY <1>1, <1>2 DEF ph_oob_send, oob_done, CallFor, Call, Due
<1>3. CASE ~ph_oob_send(p)
  <2>1. \E l \in PamPc \ {"oob_time"} : pc' = [pc EXCEPT ![p] = l]
    BY <1>3 DEF SessionStep, ph_validate_spass, loop_head, ph_increment, ph_oob_recorded,
                ph_oob_wait, no_answer, answer_dot, secure_request, answer_passcode,
                failure_counted, utility_done, ph_init, utility_call, killed, oob_done,
                ph_fini, CallFor, AskOrSend, PamPc
  <2> QED
    BY <1>1, <2>1
<1> QED
  BY <1>2, <1>3

(* The initial states satisfy the invariant. *)
LEMMA OobInvInit == PamInit => OobInv
<1> SUFFICES ASSUME PamInit PROVE OobInv
  OBVIOUS
<1>1. \A p \in Proc : s[p] = NoState /\ buf[p] = NoState /\ pc[p] = "idle" /\ step[p] = "idle"
  BY DEF PamInit, PppInit
<1>2. db # NoState => db.channel_time <= clock
  BY DEF PamInit, PppInit, NewState
<1> QED
  BY <1>1, <1>2 DEF OobInv, TimesPast, SeenKeys, NewUnseen, Recorded, Pending

(* Locking, loading and unlocking keep the invariant. *)
LEMMA OobLocks ==
    ASSUME PamInv, DiskInv, OobInv, stale => stale', NEW p \in Proc,
           UNCHANGED pamVars, clock' = clock,
           state_lock(p) \/ ppp_state_load(p) \/ state_unlock(p)
    PROVE  OobInv'
<1>1. /\ step \in [Proc -> {"idle", "lock", "load", "work", "unlock", "return"}]
      /\ buf \in [Proc -> State \cup {NoState}] /\ res \in [Proc -> {"ok"} \cup TxError]
      /\ TimesPast /\ SeenKeys /\ NewUnseen /\ Recorded
  BY DEF PamInv, PamTypeOK, PppTypeOK, OobInv
<1>2. /\ UNCHANGED <<db, tx, keys, pc, s, cfg>>
      /\ \A q \in Proc \ {p} : step'[q] = step[q] /\ buf'[q] = buf[q] /\ res'[q] = res[q]
      /\ buf'[p] \in {buf[p], db}
  BY <1>1, LockTurn DEF state_lock, ppp_state_load, state_unlock, Goto, PamInv, pamVars
<1>3. Pending(p)' => Pending(p) /\ buf'[p] = buf[p]
  <2>1. CASE state_lock(p)
    BY <1>1, <2>1, LockTurn DEF state_lock, Goto, PamInv, LockError, Pending
  <2>2. CASE ppp_state_load(p)
    BY <1>1, <2>2 DEF ppp_state_load, Pending, DiskInv, NewNotLoaded
  <2>3. CASE state_unlock(p)
    BY <1>1, <2>3 DEF state_unlock, Pending
  <2> QED
    BY <2>1, <2>2, <2>3
<1>4. pc[p] = "oob_time" =>
         /\ step'[p] \in {"lock", "load", "work"} => step[p] \in {"lock", "load", "work"}
         /\ Stored(p)' => Stored(p)
  <2>1. pc[p] = "oob_time" => tx[p] = "oob_time"
    BY DEF PamInv, CallPlace
  <2>2. CASE state_lock(p)
    BY <1>1, <2>2, LockTurn DEF state_lock, Goto, PamInv, LockError, Stored
  <2>3. CASE ppp_state_load(p)
    BY <1>1, <2>1, <2>3 DEF ppp_state_load, Goto, Stored
  <2>4. CASE state_unlock(p)
    BY <1>1, <2>4 DEF state_unlock, Stored
  <2> QED
    BY <2>2, <2>3, <2>4
<1>5. TimesPast' /\ SeenKeys'
  BY <1>1, <1>2 DEF TimesPast, SeenKeys
<1>6. NewUnseen'
  <2>1. \A q \in Proc : Pending(q)' => Pending(q) /\ buf'[q] = buf[q]
    BY <1>2, <1>3 DEF Pending
  <2>2. ~stale => \A q \in Proc : Pending(q) /\ db # NoState => db.key # buf[q].key
    BY DEF DiskInv, KeysFresh
  <2> QED
    BY <1>1, <1>2, <2>1, <2>2 DEF NewUnseen
<1>7. Recorded'
  <2>1. \A q \in Proc : pc[q] = "oob_time" =>
          /\ step'[q] \in {"lock", "load", "work"} => step[q] \in {"lock", "load", "work"}
          /\ Stored(q)' => Stored(q)
    BY <1>2, <1>4 DEF Stored
  <2> QED
    BY <1>1, <1>2, <2>1 DEF Recorded, Due
<1> QED
  BY <1>5, <1>6, <1>7 DEF OobInv

(* A transaction's work keeps it: no time on disk goes back. *)
LEMMA OobWork ==
    ASSUME PamInv, DiskInv, OobInv, NEW p \in Proc, UNCHANGED pamVars, WorkStep(p)
    PROVE  OobInv'
<1>1. /\ step \in [Proc -> {"idle", "lock", "load", "work", "unlock", "return"}]
      /\ buf \in [Proc -> State \cup {NoState}] /\ res \in [Proc -> {"ok"} \cup TxError]
      /\ step[p] = "work" /\ buf[p] \in State /\ buf[p] # NoState
      /\ db \in State \cup {NoState} /\ clock \in Nat
      /\ TimesPast /\ SeenKeys /\ NewUnseen /\ Recorded
  BY DEF PamInv, PamTypeOK, PppTypeOK, OobInv, WorkLoaded, Loaded, WorkStep
<1>2. /\ UNCHANGED <<tx, keys, clock, pc, s, cfg, stale>>
      /\ \A q \in Proc \ {p} : step'[q] = step[q] /\ buf'[q] = buf[q] /\ res'[q] = res[q]
      /\ step'[p] = "unlock"
  BY <1>1 DEF WorkStep, pamVars, lockVars
<1>3. buf'[p].key = buf[p].key /\ buf'[p].channel_time = buf[p].channel_time
  BY <1>1 DEF WorkStep, State
<1>4. db' # db /\ db' # NoState =>
         /\ db'.key = buf[p].key
         /\ IF tx[p] = "oob_time" THEN db'.channel_time = clock
                                  ELSE tx[p] # "store_new" => db'.channel_time = buf[p].channel_time
  BY <1>1 DEF WorkStep, OwnUpdate, State
<1>5. db' # db /\ tx[p] = "store_new" => db' = buf[p]
  BY DEF WorkStep
<1>6. buf[p].channel_time <= clock /\ buf[p].channel_time \in Nat /\ clock <= clock
  BY <1>1 DEF TimesPast, State
<1>7. TimesPast'
  BY <1>1, <1>2, <1>3, <1>4, <1>5, <1>6 DEF TimesPast
<1>8. SeenKeys'
  BY <1>1, <1>2 DEF SeenKeys
<1>9. NewUnseen'
  <2>1. \A q \in Proc : Pending(q)' => Pending(q) /\ q # p /\ buf'[q] = buf[q]
    BY <1>1, <1>2 DEF Pending
  <2> QED
    BY <1>1, <1>2, <1>3, <2>1 DEF NewUnseen
<1>10. Recorded'
  <2> SUFFICES ASSUME ~stale, NEW q \in Proc, pc[q] = "oob_time"
               PROVE  /\ step'[q] \in {"lock", "load", "work"} => Due(q, clock)
                      /\ Stored(q)' /\ db' # NoState /\ db'.key = s[q].key
                            => Due(q, db'.channel_time)
    BY <1>2 DEF Recorded, Due
  <2>1. s[q] \in State /\ s[q] # NoState
    BY DEF PamInv, PamTypeOK, SessionState, Asking
  <2>2. cfg.pam_oob_delay \in Nat
    BY LimitType DEF PamInv, PamTypeOK, cfg_t
  <2>3. step'[q] \in {"lock", "load", "work"} => Due(q, clock)
    BY <1>1, <1>2 DEF Recorded
  <2>4. ASSUME Stored(q)', db' # NoState, db'.key = s[q].key PROVE Due(q, db'.channel_time)
    <3>1. CASE q = p
      <4>1. res'[p] = "ok" /\ tx[p] = "oob_time"
        BY <2>4, <3>1 DEF Stored, PamInv, CallPlace
      <4>2. db'.channel_time = clock
        BY <1>1, <4>1 DEF WorkStep, State
      <4>3. Due(q, clock)
        BY <1>1, <3>1 DEF Recorded
      <4> QED
        BY <4>2, <4>3
    <3>2. CASE q # p
      <4>1. Stored(q)
        BY <1>2, <2>4, <3>2 DEF Stored
      <4>2. CASE db' = db
        BY <1>1, <2>4, <4>1, <4>2 DEF Recorded
      <4>3. CASE db' # db /\ tx[p] = "store_new"
        <5>1. Pending(p) /\ buf[p].key = s[q].key
          BY <1>1, <2>4, <4>3, <1>5 DEF Pending
        <5> QED
          BY <1>1, <2>1, <5>1 DEF NewUnseen
      <4>4. CASE db' # db /\ tx[p] # "store_new"
        <5>1. buf[p] = db
          BY <1>1, <4>4 DEF DiskInv, Current
        <5>2. Due(q, db.channel_time)
          BY <1>1, <1>4, <2>4, <4>1, <4>4, <5>1 DEF Recorded
        <5>3. db.channel_time \in Nat /\ db'.channel_time \in Nat
                /\ db.channel_time <= db'.channel_time
          BY <1>1, <1>4, <1>6, <2>4, <4>4, <5>1
        <5>4. s[q].channel_time \in Nat
          BY <2>1 DEF State
        <5> QED
          BY <2>2, <5>2, <5>3, <5>4 DEF Due
      <4> QED
        BY <4>2, <4>3, <4>4
    <3> QED
      BY <3>1, <3>2
  <2> QED
    BY <2>3, <2>4
<1> QED
  BY <1>7, <1>8, <1>9, <1>10 DEF OobInv

(* So do the steps of sessions, calls, returns and kills. *)
LEMMA OobSession ==
    ASSUME PamInv, DiskInv, NextAsked, OobInv, stale => stale', NEW p \in Proc,
           SessionStep(p), UNCHANGED txVars \/ Aside(p),
           clock \in Nat, clock' \in Nat, clock <= clock'
    PROVE  OobInv'
<1>1. /\ step \in [Proc -> {"idle", "lock", "load", "work", "unlock", "return"}]
      /\ buf \in [Proc -> State \cup {NoState}] /\ db \in State \cup {NoState}
      /\ s \in [Proc -> State \cup {NoState}] /\ keys \in Nat
      /\ TimesPast /\ SeenKeys /\ NewUnseen /\ Recorded
  BY PppAssumption DEF PamInv, PamTypeOK, PppTypeOK, OobInv
<1>2. \A x \in State : x.channel_time \in Nat /\ x.key \in Nat
  BY PppAssumption DEF State
<1>3. /\ cfg' = cfg
      /\ \A q \in Proc \ {p} : pc'[q] = pc[q] /\ s'[q] = s[q]
      /\ s'[p] \in {NoState, s[p], buf[p]}
  BY SessionMemory
<1>4. /\ db' = db
      /\ \A q \in Proc \ {p} : step'[q] = step[q] /\ tx'[q] = tx[q] /\ buf'[q] = buf[q] /\ res'[q] = res[q]
  BY DEF txVars, Aside
<1>5. \/ keys' = keys /\ buf'[p] \in {buf[p], NoState} /\ (Pending(p)' => Pending(p) /\ buf'[p] = buf[p])
      \/ keys' = keys + 1 /\ buf'[p].key = keys + 1 /\ buf'[p].channel_time = 0
  BY <1>1 DEF txVars, Aside, Pending, NewState
<1>6. KeysKnown
  BY DEF DiskInv
<1>7. TimesPast'
  BY <1>1, <1>2, <1>4, <1>5 DEF TimesPast
<1>8. SeenKeys'
  BY <1>1, <1>2, <1>3, <1>5, <1>6 DEF SeenKeys, KeysKnown
<1>9. NewUnseen'
  <2> SUFFICES ASSUME ~stale', NEW q \in Proc, Pending(q)', NEW r \in Proc
               PROVE  /\ s'[r] # NoState => s'[r].key # buf'[q].key
                      /\ r # q /\ buf'[r] # NoState => buf'[r].key # buf'[q].key
    BY DEF NewUnseen
  <2>1. CASE keys' = keys + 1 /\ q = p
    BY <1>1, <1>2, <1>3, <1>4, <1>5, <1>6, <2>1 DEF SeenKeys, KeysKnown
  <2>2. CASE q # p \/ keys' = keys
    <3>1. Pending(q) /\ buf'[q] = buf[q]
      BY <1>1, <1>4, <1>5, <2>2 DEF Pending
    <3>2. ~stale /\ buf[q] \in State /\ buf[q].key <= keys
      BY <1>1, <1>6, <3>1 DEF KeysKnown, Pending, PamInv, WorkLoaded, Loaded
    <3>3. \A x \in Proc : /\ s[x] # NoState => s[x].key # buf[q].key
                          /\ x # q /\ buf[x] # NoState => buf[x].key # buf[q].key
      BY <1>1, <3>1, <3>2 DEF NewUnseen
    <3>4. r # q /\ buf'[r] # NoState => buf'[r].key # buf'[q].key
      BY <1>1, <1>2, <1>4, <1>5, <3>1, <3>2, <3>3
    <3>5. s'[r] # NoState => s'[r].key # buf'[q].key
      <4>1. CASE r # p \/ s'[r] \in {NoState, s[r]}
        BY <1>3, <3>1, <3>3, <4>1
      <4>2. CASE r = p /\ s'[p] = buf[p] /\ p # q
        BY <3>1, <3>3, <4>2
      <4>3. CASE r = p /\ s'[p] \notin {NoState, s[p]} /\ p = q
        <5>1. Taken(p)
          <6>1. s'[p] \in {NoState, s[p]} \/ Taken(p)
            BY <1>1, SessionKinds DEF Untouched, answer_passcode, ph_fini, CallFor
          <6> QED
            BY <4>3, <6>1
        <5> QED
          BY <3>1, <4>3, <5>1 DEF Taken, Pending, PamInv, CallPlace
      <4> QED
        BY <1>3, <4>1, <4>2, <4>3
    <3> QED
      BY <3>4, <3>5
  <2> QED
    BY <1>5, <2>1, <2>2
<1>10. Recorded'
  <2> SUFFICES ASSUME ~stale', NEW q \in Proc, pc'[q] = "oob_time"
               PROVE  /\ step'[q] \in {"lock", "load", "work"} => Due(q, clock)'
                      /\ Stored(q)' /\ db' # NoState /\ db'.key = s'[q].key
                            => Due(q, db.channel_time)'
    BY DEF Recorded
  <2>1. CASE q = p
    <3>1. step'[p] = "lock" /\ UNCHANGED <<s, clock, cfg>> /\ Due(p, clock)
      BY <2>1, OobEntered
    <3> QED
      BY <2>1, <3>1 DEF Due, Stored
  <2>2. CASE q # p
    <3>1. s[q] \in State
      BY <1>1, <1>3, <2>2 DEF PamInv, SessionState, Asking
    <3>2. cfg.pam_oob_delay \in Nat /\ s[q].channel_time \in Nat
      BY <1>2, <3>1, LimitType DEF PamInv, PamTypeOK, cfg_t
    <3>3. step'[q] \in {"lock", "load", "work"} => Due(q, clock)
      BY <1>1, <1>3, <1>4, <2>2 DEF Recorded
    <3>4. Due(q, clock) => Due(q, clock)'
      BY <1>3, <2>2, <3>2 DEF Due
    <3>5. Stored(q)' /\ db # NoState /\ db.key = s[q].key => Due(q, db.channel_time)
      BY <1>1, <1>3, <1>4, <2>2 DEF Recorded, Stored
    <3> QED
      BY <1>3, <1>4, <2>2, <3>3, <3>4, <3>5 DEF Due
  <2> QED
    BY <2>1, <2>2
<1> QED
  BY <1>7, <1>8, <1>9, <1>10 DEF OobInv

(* Every step keeps the invariant. *)
LEMMA OobInvStep ==
    PamInv /\ DiskInv /\ PamOnceInv /\ OobInv /\ [PamNext]_vars => OobInv'
<1> SUFFICES ASSUME PamInv, DiskInv, PamOnceInv, OobInv, [PamNext]_vars PROVE OobInv'
  OBVIOUS
<1>1. clock \in Nat /\ clock' \in Nat /\ clock <= clock'
  BY ClockForward
<1>2. stale => stale'
  BY PamLockStep, StaleKept DEF PamInv
<1>3. CASE UNCHANGED <<db, step, tx, buf, res, keys, rewound, pamVars>>
  <2>1. /\ buf \in [Proc -> State \cup {NoState}] /\ db \in State \cup {NoState}
        /\ s \in [Proc -> State \cup {NoState}] /\ cfg.pam_oob_delay \in Nat
    BY LimitType DEF PamInv, PamTypeOK, PppTypeOK, cfg_t
  <2>2. \A x \in State : x.channel_time \in Nat
    BY DEF State
  <2>3. TimesPast'
    BY <1>1, <1>3, <2>1, <2>2 DEF OobInv, TimesPast
  <2>4. SeenKeys' /\ NewUnseen'
    BY <1>2, <1>3 DEF OobInv, SeenKeys, NewUnseen, Pending, pamVars
  <2>5. \A p \in Proc : pc[p] = "oob_time" => s[p] \in State
    BY <2>1 DEF PamInv, SessionState, Asking
  <2>6. ASSUME NEW p \in Proc, pc[p] = "oob_time", Due(p, clock) PROVE Due(p, clock)'
    BY <1>1, <1>3, <2>1, <2>2, <2>5, <2>6 DEF Due, pamVars
  <2>7. Recorded'
    BY <1>2, <1>3, <2>6 DEF OobInv, Recorded, Stored, Due, pamVars
  <2> QED
    BY <2>3, <2>4, <2>7 DEF OobInv
<1>4. ASSUME NEW p \in Proc, UNCHANGED pamVars,
             state_lock(p) \/ ppp_state_load(p) \/ WorkStep(p) \/ state_unlock(p)
      PROVE  OobInv'
  BY <1>2, <1>4, OobLocks, OobWork DEF state_lock, ppp_state_load, state_unlock
<1>5. ASSUME NEW p \in Proc, SessionStep(p), UNCHANGED txVars \/ Aside(p) PROVE OobInv'
  BY <1>1, <1>2, <1>5, OobSession DEF PamOnceInv
<1> QED
  BY <1>3, <1>4, <1>5, StepKinds DEF vars, pppVars, txVars

(* The invariant of the channel times holds in every reachable state. *)
THEOREM OobInvariant == PamSpec => []OobInv
BY OobInvInit, OobInvStep, DiskInvariant, PamOnceInvariant, PTL DEF PamSpec

(* Only a session whose ppp_oob_time returned without an error sends. *)
LEMMA SenderStored ==
    ASSUME PamInv, [PamNext]_vars, sent' # sent
    PROVE  \E p \in Proc : pc[p] = "oob_time" /\ step[p] = "return" /\ res[p] = "ok"
<1>1. PICK p \in Proc : SessionStep(p)
  BY StepKinds DEF vars, pamVars
<1> QED
  BY <1>1 DEF SessionStep, hist, Returned, ph_validate_spass, loop_head, ph_increment,
              ph_oob_send, ph_oob_recorded, ph_oob_wait, no_answer, answer_dot, secure_request,
              answer_passcode, failure_counted, utility_done, ph_init, utility_call, killed

(***************************************************************************)
(* When the sender of an out-of-band message is started, the disk holds a  *)
(* channel time the configured delay past the one the session had checked, *)
(* although the lock was released in between (ph_oob_send after            *)
(* ppp_oob_time).                                                          *)
(***************************************************************************)
THEOREM PamOobRecorded == PamSpec => OobRecordedFirst
<1> DEFINE A == sent' # sent /\ ~stale /\ db # NoState /\ keys <= 1 =>
                  \E p \in Proc : /\ s[p] # NoState
                                  /\ db.channel_time - s[p].channel_time >= cfg.pam_oob_delay
<1>1. PamInv /\ DiskInv /\ OobInv /\ [PamNext]_vars => [A]_vars
  <2> SUFFICES ASSUME PamInv, DiskInv, OobInv, [PamNext]_vars,
                      sent' # sent, ~stale, db # NoState, keys <= 1
               PROVE  \E p \in Proc : s[p] # NoState /\ Due(p, db.channel_time)
    BY DEF Due
  <2>1. PICK p \in Proc : pc[p] = "oob_time" /\ step[p] = "return" /\ res[p] = "ok"
    BY SenderStored
  <2>2. s[p] \in State /\ s[p] # NoState /\ db \in State /\ keys \in Nat
    BY <2>1, PppAssumption DEF PamInv, PamTypeOK, PppTypeOK, SessionState, Asking
  <2>3. db.key = 1 /\ s[p].key = 1
    <3>1. db.key <= keys /\ s[p].key <= keys
      BY <2>2 DEF DiskInv, KeysKnown, OobInv, SeenKeys
    <3>2. db.key \in 1..MAX_KEYS /\ s[p].key \in 1..MAX_KEYS
      BY <2>2 DEF State
    <3> QED
      BY <2>2, <3>1, <3>2, PppAssumption
  <2> QED
    BY <2>1, <2>2, <2>3 DEF OobInv, Recorded, Stored
<1> QED
  BY <1>1, DiskInvariant, OobInvariant, PTL DEF PamSpec, OobRecordedFirst
=============================================================================
