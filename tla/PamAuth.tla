------------------------------- MODULE PamAuth -------------------------------
(***************************************************************************)
(* pam_sm_authenticate of src/pam/pam_otpasswd.c with the helpers of       *)
(* pam_helpers.c, run by several processes for one user, while the utility *)
(* (through its agent) skips, regenerates, removes, disables, and new      *)
(* sessions are opened.  Each of them works on the state file through the  *)
(* transactions of PppState.                                               *)
(*                                                                         *)
(* s is the state in the memory of the PAM module: it is read once and     *)
(* used while the user thinks, whatever happens to the file meanwhile.     *)
(***************************************************************************)
EXTENDS PppState, FiniteSets

CONSTANTS Config,        \* the configurations to start with
          UTILITY,       \* transactions the utility runs beside PAM
          WAITS,         \* how often ph_oob_send looks whether its child ended
          MAX_OPS,       \* bound: sessions and utility calls in a behaviour
          MAX_TIME       \* bound: ticks of the clock

(***************************************************************************)
(* What _config_parse accepts.  pam_retry: 0 no retry, 1 next passcode,    *)
(* 2 (and 3) the same passcode.  pam_oob: 0 none, 1 on request, 2 on       *)
(* request with the static password, 3 always.  db_user: DB=user.          *)
(***************************************************************************)
cfg_t == [pam_retry : 0..3, pam_retries : 2..5, pam_enforce : BOOLEAN,
          pam_oob : 0..3, pam_oob_delay : Nat, pam_spass_require : BOOLEAN,
          db_user : BOOLEAN]

ASSUME PamAssumption == /\ Config \subseteq cfg_t
                        /\ UTILITY \subseteq Tx \ {"increment", "failures"}
                        /\ WAITS \in Nat
                        /\ MAX_OPS \in Nat
                        /\ MAX_TIME \in Nat

VARIABLES cfg,       \* cfg_get(): read once, never changed
          pc,        \* where a process is in pam_sm_authenticate
          s,         \* state *s of the session
          turn,      \* tries, first_try, dont_increment, oob_sent; times
          pam,       \* what the last session of the process returned
          ops,       \* operations started
          judged,    \* history: how often a passcode was compared
          accepted,  \* history: how often a passcode was accepted
          sent,      \* history: times of OOB messages
          aborted    \* history: an assertion of pam_sm_authenticate failed

pamVars == <<cfg, pc, s, turn, pam, ops, judged, accepted, sent, aborted>>
vars == <<pppVars, pamVars>>

Passcode == (1..MAX_KEYS) \X (0..MAX_CODE)

Turn == [tries : 0..5, first_try : BOOLEAN,
         dont_increment : BOOLEAN, oob_sent : BOOLEAN, times : 0..WAITS]

FirstTurn == [tries |-> 0, first_try |-> TRUE,
              dont_increment |-> FALSE, oob_sent |-> FALSE, times |-> 0]

PamResult == {"none", "PAM_SUCCESS", "PAM_AUTH_ERR", "PAM_IGNORE"}

PamPc == {"idle", "utility", "spass", "loop", "increment", "oob", "ask",
          "secure", "oob_time", "exec", "failures"}

PamTypeOK == /\ PppTypeOK
             /\ cfg \in Config
             /\ pc \in [Proc -> PamPc]
             /\ s \in [Proc -> State \cup {NoState}]
             /\ turn \in [Proc -> Turn]
             /\ pam \in [Proc -> PamResult]
             /\ ops \in 0..MAX_OPS
             /\ judged \in [Passcode -> Nat]
             /\ accepted \in [Passcode -> Nat]
             /\ sent \subseteq 0..MAX_TIME
             /\ aborted \in BOOLEAN

PamInit == /\ PppInit
           /\ cfg \in Config
           /\ pc = [p \in Proc |-> "idle"]
           /\ s = [p \in Proc |-> NoState]
           /\ turn = [p \in Proc |-> FirstTurn]
           /\ pam = [p \in Proc |-> "none"]
           /\ ops = 0
           /\ judged = [c \in Passcode |-> 0]
           /\ accepted = [c \in Passcode |-> 0]
           /\ sent = {}
           /\ aborted = FALSE
-----------------------------------------------------------------------------
(* The passcode of the counter in the session's memory. *)
Reserved(p) == <<s[p].key, s[p].counter>>

At(p, l) == pc[p] = l /\ step[p] = "idle"
Move(p, l) == pc' = [pc EXCEPT ![p] = l]

(* A transaction of p came back; its second state is cleared. *)
Returned(p, l) == pc[p] = l /\ step[p] = "return"
Retire(p) == /\ step' = [step EXCEPT ![p] = "idle"]
             /\ tx' = [tx EXCEPT ![p] = "load"]
             /\ res' = [res EXCEPT ![p] = "ok"]
             /\ buf' = [buf EXCEPT ![p] = NoState]
             /\ UNCHANGED <<lockVars, db, keys, clock, rewound>>

(* cleanup: ph_fini(s); return r. *)
ph_fini(p, r) == /\ Move(p, "idle")
                 /\ s' = [s EXCEPT ![p] = NoState]
                 /\ turn' = [turn EXCEPT ![p] = FirstTurn]
                 /\ pam' = [pam EXCEPT ![p] = r]

hist == <<cfg, judged, accepted, sent, aborted>>

(* The rest of the transaction's variables while p calls transaction t. *)
CallFor(p, t, l) == /\ Call(p, t)
                    /\ Move(p, l)
                    /\ UNCHANGED <<lockVars, db, keys, clock, rewound>>

(* ph_init; with pam_spass_require the state is read to check the password. *)
ph_init(p) ==
    /\ At(p, "idle")
    /\ ops < MAX_OPS
    /\ ops' = ops + 1
    /\ IF cfg.pam_spass_require
         THEN CallFor(p, "load", "spass") /\ UNCHANGED buf
         ELSE Move(p, "loop") /\ UNCHANGED pppVars
    /\ UNCHANGED <<s, turn, pam, hist>>

(***************************************************************************)
(* The static password before the loop: without a state it is asked for    *)
(* and refused all the same.                                               *)
(***************************************************************************)
ph_validate_spass(p) ==
    /\ Returned(p, "spass")
    /\ Retire(p)
    /\ \/ /\ res[p] = "ok"       \* the right password
          /\ Move(p, "loop")
          /\ UNCHANGED <<s, turn, pam>>
       \/ ph_fini(p, "PAM_AUTH_ERR")
    /\ UNCHANGED <<ops, hist>>

Limit == IF cfg.pam_retry = 0 THEN 1 ELSE cfg.pam_retries

(* Where a turn of the loop goes after its increment. *)
AskOrSend == IF cfg.pam_oob = 3 THEN "oob" ELSE "ask"

(***************************************************************************)
(* The head of the loop: leave when tries are used up, reserve a new       *)
(* passcode on the first turn or when each try takes the next one, except  *)
(* after an OOB request, which is answered with the same question.         *)
(***************************************************************************)
loop_head(p) ==
    /\ At(p, "loop")
    /\ LET t == turn[p]
           fresh == t.first_try \/ cfg.pam_retry = 1
       IN \/ /\ t.tries >= Limit
             /\ ph_fini(p, "PAM_AUTH_ERR")
             /\ UNCHANGED pppVars
          \/ /\ t.tries < Limit /\ fresh /\ ~t.dont_increment
             /\ turn' = [turn EXCEPT ![p].first_try = FALSE]
             /\ CallFor(p, "increment", "increment")
             /\ UNCHANGED <<s, pam, buf>>
          \/ /\ t.tries < Limit /\ fresh /\ t.dont_increment
             /\ turn' = [turn EXCEPT ![p].first_try = FALSE,
                                     ![p].dont_increment = FALSE]
             /\ Move(p, AskOrSend)
             /\ UNCHANGED <<pppVars, s, pam>>
          \/ /\ t.tries < Limit /\ ~fresh
             /\ Move(p, AskOrSend)
             /\ UNCHANGED <<pppVars, s, turn, pam>>
    /\ UNCHANGED <<ops, hist>>

(* ph_increment: how PAM answers an error of ppp_increment. *)
IncrementResult(r) ==
    CASE r \in {"STATE_NO_USER_HOME", "STATE_NON_EXISTENT"} ->
           IF cfg.pam_enforce /\ cfg.db_user THEN "PAM_AUTH_ERR" ELSE "PAM_IGNORE"
      [] r \in {"STATE_NO_USER_ENTRY", "PPP_ERROR_DISABLED"} ->
           IF cfg.pam_enforce THEN "PAM_AUTH_ERR" ELSE "PAM_IGNORE"
      [] OTHER -> "PAM_AUTH_ERR"

ph_increment(p) ==
    /\ Returned(p, "increment")
    /\ Retire(p)
    /\ \/ /\ res[p] = "ok"
          /\ s' = [s EXCEPT ![p] = buf[p]]
          /\ Move(p, AskOrSend)
          /\ UNCHANGED <<turn, pam>>
       \/ /\ res[p] # "ok"
          /\ ph_fini(p, IncrementResult(res[p]))
    /\ UNCHANGED <<ops, hist>>

(* Where the turn goes after an OOB message was sent or refused. *)
oob_done(p, ok) ==
    IF cfg.pam_oob = 3
      THEN Move(p, "ask") /\ turn' = [turn EXCEPT ![p].times = 0]
      ELSE /\ Move(p, "loop")
           /\ turn' = [turn EXCEPT ![p].times = 0,
                                   ![p].dont_increment = TRUE,
                                   ![p].oob_sent = @ \/ ok]

(* Mutant: the sender is started before the channel time is stored. *)
oob_sent_first(p) ==
    /\ At(p, "oob")
    /\ clock - s[p].channel_time >= cfg.pam_oob_delay
    /\ sent' = sent \cup {clock}
    /\ CallFor(p, "oob_time", "oob_time")
    /\ UNCHANGED <<buf, turn, s, pam, ops, cfg, judged, accepted, aborted>>

(***************************************************************************)
(* ph_oob_send, before it forks: the delay is checked with the time in the *)
(* session's memory; the sender program and the contact may be missing.    *)
(***************************************************************************)
ph_oob_send(p) ==
    /\ At(p, "oob")
    /\ \/ /\ clock - s[p].channel_time >= cfg.pam_oob_delay
          /\ CallFor(p, "oob_time", "oob_time")
          /\ UNCHANGED <<buf, turn>>
       \/ /\ oob_done(p, FALSE)      \* too early, or no sender, or no contact
          /\ UNCHANGED pppVars
    /\ UNCHANGED <<s, pam, ops, hist>>

(* ph_oob_send, after ppp_oob_time: fork, which may fail; the child sends. *)
ph_oob_recorded(p) ==
    /\ Returned(p, "oob_time")
    /\ Retire(p)
    /\ \/ /\ res[p] = "ok"
          /\ Move(p, "exec")
          /\ sent' = sent \cup {clock}
          /\ turn' = [turn EXCEPT ![p].times = WAITS]
       \/ /\ oob_done(p, FALSE)
          /\ UNCHANGED sent
    /\ UNCHANGED <<cfg, s, pam, ops, judged, accepted, aborted>>

(* Mutant: the sender that does not end is waited for, not killed. *)
oob_not_killed(p) ==
    /\ At(p, "exec")
    /\ turn[p].times > 0
    /\ \/ \E ok \in BOOLEAN : oob_done(p, ok)
       \/ /\ turn' = [turn EXCEPT ![p].times = @ - 1]
          /\ UNCHANGED pc
    /\ UNCHANGED <<pppVars, s, pam, ops, hist>>

(***************************************************************************)
(* One turn of the loop which waits for the sender, 7 ms each: it has      *)
(* ended (whatever its exit status), waitpid fails, or it goes on.  When   *)
(* the turns are used up it is killed and counts as not sent.              *)
(***************************************************************************)
ph_oob_wait(p) ==
    /\ At(p, "exec")
    /\ \/ /\ turn[p].times > 0
          /\ \E ok \in BOOLEAN : oob_done(p, ok)
       \/ /\ turn[p].times > 0
          /\ turn' = [turn EXCEPT ![p].times = @ - 1]
          /\ UNCHANGED pc
       \/ /\ turn[p].times = 0
          /\ oob_done(p, FALSE)
    /\ UNCHANGED <<pppVars, s, pam, ops, hist>>

(* ph_query_user: the conversation ends without an answer. *)
no_answer(p) ==
    /\ At(p, "ask")
    /\ ph_fini(p, "PAM_AUTH_ERR")
    /\ UNCHANGED <<pppVars, ops, hist>>

(* The user asks for an out-of-band message with ".". *)
answer_dot(p) ==
    /\ At(p, "ask")
    /\ \/ /\ turn[p].oob_sent
          /\ Move(p, "loop")
          /\ turn' = [turn EXCEPT ![p].dont_increment = TRUE]
          /\ UNCHANGED <<s, pam, aborted>>
       \/ /\ ~turn[p].oob_sent /\ cfg.pam_oob = 1
          /\ Move(p, "oob")
          /\ UNCHANGED <<s, turn, pam, aborted>>
       \/ /\ ~turn[p].oob_sent /\ cfg.pam_oob = 2
          /\ Move(p, "secure")
          /\ UNCHANGED <<s, turn, pam, aborted>>
       \/ /\ ~turn[p].oob_sent /\ cfg.pam_oob \in {0, 3}
          /\ aborted' = TRUE         \* default: assert(0)
          /\ ph_fini(p, "PAM_AUTH_ERR")
    /\ UNCHANGED <<pppVars, cfg, ops, judged, accepted, sent>>

(* OOB_SECURE_REQUEST: the static password; a wrong one counts as a try. *)
secure_request(p) ==
    /\ At(p, "secure")
    /\ \/ /\ Move(p, "oob")
          /\ UNCHANGED turn
       \/ /\ Move(p, "loop")
          /\ turn' = [turn EXCEPT ![p].tries = @ + 1,
                                  ![p].dont_increment = TRUE]
    /\ UNCHANGED <<pppVars, s, pam, ops, hist>>

(* ppp_authenticate: the state in memory allows a right answer to pass. *)
ppp_authenticate(p) == s[p].lawful /\ ~s[p].disabled

(***************************************************************************)
(* The user answers with a passcode, which is compared with the one of the *)
(* counter in memory.  A wrong answer is counted on disk.                  *)
(***************************************************************************)
answer_passcode(p) ==
    /\ At(p, "ask")
    /\ judged' = [judged EXCEPT ![Reserved(p)] = @ + 1]
    /\ \/ /\ ppp_authenticate(p)
          /\ accepted' = [accepted EXCEPT ![Reserved(p)] = @ + 1]
          /\ ph_fini(p, "PAM_SUCCESS")
          /\ UNCHANGED pppVars
       \/ /\ turn' = [turn EXCEPT ![p].tries = @ + 1]
          /\ CallFor(p, "failures", "failures")
          /\ UNCHANGED <<buf, s, pam, accepted>>
    /\ UNCHANGED <<cfg, ops, sent, aborted>>

(* ppp_failures came back; its error is only logged. *)
failure_counted(p) ==
    /\ Returned(p, "failures")
    /\ Retire(p)
    /\ Move(p, "loop")
    /\ UNCHANGED <<s, turn, pam, ops, hist>>
-----------------------------------------------------------------------------
(* Another program calls libotp: the utility's agent, or open_session. *)
utility_call(p) ==
    /\ At(p, "idle")
    /\ ops < MAX_OPS
    /\ ops' = ops + 1
    /\ \/ \E t \in UTILITY \ {"store_new"} :
             CallFor(p, t, "utility") /\ UNCHANGED buf
       \/ /\ "store_new" \in UTILITY
          /\ ppp_key_generate(p)
          /\ Move(p, "utility")
          /\ UNCHANGED <<lockVars, db, clock, rewound>>
    /\ UNCHANGED <<s, turn, pam, hist>>

utility_done(p) ==
    /\ Returned(p, "utility")
    /\ Retire(p)
    /\ Move(p, "idle")
    /\ UNCHANGED <<s, turn, pam, ops, hist>>

(* The process is killed: sshd, login or the agent goes away. *)
killed(p) ==
    /\ pc[p] # "idle"
    /\ die(p) \/ (Unlocked(p) /\ UNCHANGED lockVars)
    /\ step' = [step EXCEPT ![p] = "idle"]
    /\ tx' = [tx EXCEPT ![p] = "load"]
    /\ res' = [res EXCEPT ![p] = "ok"]
    /\ buf' = [buf EXCEPT ![p] = NoState]
    /\ ph_fini(p, "none")
    /\ UNCHANGED <<db, keys, clock, rewound, ops, hist>>

tick == /\ clock < MAX_TIME
        /\ clock' = clock + 1
        /\ UNCHANGED <<lockVars, db, step, tx, buf, res, keys, rewound, pamVars>>

(* Nothing is left to start within the bound. *)
finished == /\ ops = MAX_OPS
            /\ \A p \in Proc : pc[p] = "idle"
            /\ UNCHANGED vars

(* What the code of one process does by itself, or after its user answers. *)
Advance(p) == \/ /\ Transaction(p)
                 /\ lpc'[p] = "STATE_NO_USER_HOME" => cfg.db_user
                 /\ UNCHANGED pamVars
              \/ ph_validate_spass(p)
              \/ loop_head(p)
              \/ ph_increment(p)
              \/ ph_oob_send(p)
              \/ ph_oob_recorded(p)
              \/ ph_oob_wait(p)
              \/ no_answer(p)
              \/ answer_dot(p)
              \/ secure_request(p)
              \/ answer_passcode(p)
              \/ failure_counted(p)
              \/ utility_done(p)

PamNext == \/ \E p \in Proc : \/ Advance(p)
                              \/ ph_init(p)
                              \/ utility_call(p)
                              \/ killed(p)
           \/ tick
           \/ finished

PamSpec == PamInit /\ [][PamNext]_vars /\ \A p \in Proc : WF_vars(Advance(p))
-----------------------------------------------------------------------------
(***************************************************************************)
(* The one-time property (README: each passcode is used once): as long as  *)
(* no lock was stale and no skip went backwards, no passcode is accepted   *)
(* twice, whatever the sessions, crashes and failed writes, because a      *)
(* session takes its passcode only after counter + 1 is on disk.           *)
(***************************************************************************)
OneTime == ~stale /\ ~rewound => \A c \in Passcode : accepted[c] <= 1

(***************************************************************************)
(* Guesses against one passcode, over all sessions: one when a retry takes *)
(* the next passcode ("1 - retry using next passcode"), pam_retries when   *)
(* it asks for the same; "." never lets a user try a passcode again.       *)
(***************************************************************************)
GuessesBounded ==
    ~stale /\ ~rewound =>
        \A c \in Passcode : judged[c] <= (IF cfg.pam_retry <= 1 THEN 1 ELSE cfg.pam_retries)

(***************************************************************************)
(* Every path through a transaction, error exits included, gives the lock  *)
(* back: nobody holds it while a user is asked, the OOB sender runs or     *)
(* after the session (assert(ppp_is_locked(s) == 0) in ph_oob_send).       *)
(***************************************************************************)
LockReleased == \A p \in Proc : step[p] \in {"idle", "return"} => Unlocked(p)

(* What a step of p may make of the entry d on disk, if p works on it. *)
OwnUpdate(p, d, e) ==
    /\ step[p] = "work"
    /\ \/ tx[p] = "store_new"
       \/ /\ d # NoState
          /\ \/ tx[p] = "remove" /\ e = NoState
             \/ /\ e # NoState
                /\ \/ tx[p] = "increment" /\ e = [d EXCEPT !.counter = @ + 1]
                   \/ tx[p] = "skip" /\ e = [d EXCEPT !.counter = e.counter]
                   \/ tx[p] = "failures"
                      /\ e = [d EXCEPT !.failures = @ + 1, !.recent = @ + 1]
                   \/ tx[p] = "session" /\ e = [d EXCEPT !.recent = 0]
                   \/ tx[p] = "oob_time" /\ e = [d EXCEPT !.channel_time = clock]
                   \/ tx[p] = "flags" /\ e = [d EXCEPT !.disabled = e.disabled]

(***************************************************************************)
(* No lost update: a transaction rewrites the whole entry from what it     *)
(* loaded, yet each write changes the entry now on disk in the fields of   *)
(* its own operation only; a removed or replaced state never comes back.   *)
(***************************************************************************)
NoLostUpdate ==
    [][~stale /\ db' # db => \E p \in Proc : OwnUpdate(p, db, db')]_vars

(***************************************************************************)
(* A disabled state is frozen: whoever disabled it, and whoever was about  *)
(* to authenticate or skip meanwhile, its counter does not move.           *)
(***************************************************************************)
DisabledFrozen ==
    [][~stale /\ db # NoState /\ db' # NoState /\ db.disabled
          /\ db'.key = db.key => db'.counter = db.counter]_vars

(***************************************************************************)
(* Every call of pam_sm_authenticate, of pam_sm_open_session or of the     *)
(* utility returns, if its user answers each question: no waiting for ever *)
(* on the lock or on the sender of an OOB message, no endless loop,        *)
(* whoever is killed where.  The one exception is a user who answers the   *)
(* passcode prompt with "." again and again: after an OOB request the loop *)
(* continues with the same question and counts no try, so nothing but the  *)
(* user ends such a session.                                               *)
(***************************************************************************)
SessionEnds ==
    \A p \in Proc : []<>(pc[p] = "idle") \/ []<><<answer_dot(p)>>_vars

(***************************************************************************)
(* ph_oob_send: "before doing anything invasive: update channel time".     *)
(* When the sender is started, the disk already holds a channel time       *)
(* pam_oob_delay past the one the session checked.                         *)
(***************************************************************************)
OobRecordedFirst ==
    [][sent' # sent /\ ~stale /\ db # NoState /\ keys <= 1 =>
          \E p \in Proc : /\ s[p] # NoState
                          /\ db.channel_time - s[p].channel_time >= cfg.pam_oob_delay]_vars

(***************************************************************************)
(* config.h on pam_oob_delay: "Delay in seconds between two consecutive    *)
(* uses of oob"; docs/otpasswd.5: the timestamp "allows throttling the     *)
(* rate at which OOB passcodes are sent".  The channel time on disk is     *)
(* that old whenever a new one is stored.  The code does not give this:    *)
(* it checks the time it read with its passcode; see the run oob_throttle. *)
(***************************************************************************)
OobThrottled ==
    [][~stale => \A p \in Proc :
          Working(p, "oob_time") /\ step'[p] = "unlock" /\ res'[p] = "ok"
            => clock - db.channel_time >= cfg.pam_oob_delay]_vars

(***************************************************************************)
(* docs/otpasswd.1: "Skip forward to a specific point in the passcode      *)
(* sequence."  While a key is in use its counter never goes back.  The     *)
(* code does not give this: see the run skip_backward.                     *)
(***************************************************************************)
CounterForward ==
    [][~stale /\ db # NoState /\ db' # NoState /\ db'.key = db.key =>
          db'.counter >= db.counter]_vars
=============================================================================
