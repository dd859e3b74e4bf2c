---------------------------- MODULE AgentRequest ----------------------------
(***************************************************************************)
(* The agent's requests (src/agent/request.c) over the state of one user:  *)
(* policy check, execution, reply.  Each process p is a utility with the   *)
(* agent it started; agents share the user's entry db and its lock.        *)
(*                                                                         *)
(* A request is answered before the next one is sent (AgentSession), so    *)
(* request and reply are req[p] and status[p].  The lock is the one that   *)
(* StateLock describes: free or held by one process, an attempt fails when *)
(* another holds it.  db_file_store replaces the entry in one step or      *)
(* leaves it alone (StateDb).  Counters are unsalted (Passcard has salts). *)
(***************************************************************************)
EXTENDS Integers, Sequences, FiniteSets

CONSTANTS Proc, Root,   \* processes; the ones root started
          Free,         \* nobody holds the lock
          NULL,         \* no entry, no loaded state, no password
          Config,       \* policies the administrator may have chosen
          Codes,        \* codes_on_card for each code_length
          NUMSPACE,     \* number of counters
          Alphabets,    \* alphabet ids
          Garbage,      \* what malloc'ed memory may hold in s->flags
          MAX_KEYS      \* bound: keys generated in a behaviour

VARIABLES cfg,          \* cfg_get()
          db,           \* the user's entry on disk
          lock,         \* who holds its lock
          keys,         \* keys generated so far
          at,           \* where p is: see At
          s,            \* a->s
          new_state,    \* a->new_state
          req,          \* the request p's agent got last
          status,       \* the status it replied
          out           \* result and entry of the transaction p is in

agentVars == <<cfg, db, lock, keys, at, s, new_state, req, status, out>>

Flags == {"show", "salted", "disabled"}

(* Every code_length the policy allows has its codes on a card. *)
Lengths(c) == {c.passcode_def_length} \cup
              {n \in 2..16 : c.passcode_min_length <= n /\ n <= c.passcode_max_length}

ASSUME RequestAssumption == /\ Root \subseteq Proc
                            /\ Free \notin Proc
                            /\ NUMSPACE \in Nat
                            /\ \A l \in DOMAIN Codes : Codes[l] \in 1..NUMSPACE
                            /\ \A c \in Config : /\ c.passcode_min_length \in Int
                                                 /\ c.passcode_max_length \in Int
                                                 /\ Lengths(c) \subseteq DOMAIN Codes
                            /\ \A c \in Config : c.alphabet_def \in Alphabets
                            /\ Garbage \subseteq SUBSET Flags
                            /\ MAX_KEYS \in Nat

(***************************************************************************)
(* off: no process.  client: the utility runs, the agent waits for it.     *)
(* ask: so it does while the user is asked.  request: the agent handles a  *)
(* request.  store: it has loaded and changed the state and is about to    *)
(* store it.  bye: it has ended after its last reply.                      *)
(***************************************************************************)
At == {"off", "client", "ask", "request", "store", "bye"}

(* A request: its type and the fields of the header it uses. *)
Req(t, arg) == [type |-> t, arg |-> arg]
Changed(st, r) == [st |-> st, ret |-> r]

codes_on_card(e) == Codes[e.code_length]
max_card(e) == NUMSPACE \div codes_on_card(e)
max_code(e) == max_card(e) * codes_on_card(e)

(* ppp_calculate: a->s with the card of its counter. *)
ppp_calculate(e) == [e |-> e, card |-> (e.counter \div codes_on_card(e)) + 1,
                     new_key |-> FALSE]

Exhausted(e) == e.counter >= max_code(e)

(* state_init: flags are assigned only if show_def is CONFIG_ENABLED and   *)
(* then or-ed, so otherwise they hold what malloc left there.              *)
state_init(garbage) ==
    [e |-> [key |-> 0, counter |-> 0, latest |-> 0, recent |-> 0,
            flags |-> (IF cfg.show_def THEN {"show"} ELSE garbage)
                      \cup (IF cfg.salt_def THEN {"salted"} ELSE {}),
            code_length |-> cfg.passcode_def_length,
            alphabet |-> cfg.alphabet_def,
            label |-> "", contact |-> "", spass |-> NULL],
     card |-> 0, new_key |-> FALSE]
-----------------------------------------------------------------------------
(* Verification against the policy. *)
ppp_verify_code_length(n) ==
    IF n \notin 2..16 THEN "PPP_ERROR_RANGE"
    ELSE IF n < cfg.passcode_min_length \/ n > cfg.passcode_max_length
         THEN "PPP_ERROR_POLICY" ELSE "OK"

ppp_verify_alphabet(id) ==
    IF id \notin Alphabets THEN "PPP_ERROR_RANGE"
    ELSE IF \/ cfg.alphabet_change = "disallow" /\ id # cfg.alphabet_def
            \/ id \notin cfg.alphabets          \* too short or too long
         THEN "PPP_ERROR_POLICY" ELSE "OK"

ppp_verify_flags(f) ==
    IF \/ "show" \in f /\ cfg.show = "disallow"
       \/ "show" \notin f /\ cfg.show = "enforce"
       \/ "salted" \in f /\ cfg.salt = "disallow"
       \/ "salted" \notin f /\ cfg.salt = "enforce"
    THEN "PPP_ERROR_POLICY" ELSE "OK"

ppp_state_verify(e) ==
    IF \/ ppp_verify_flags(e.flags) # "OK"
       \/ ppp_verify_alphabet(e.alphabet) # "OK"
       \/ ppp_verify_code_length(e.code_length) # "OK"
       \/ Exhausted(e)
    THEN "PPP_ERROR_POLICY" ELSE "OK"

(* ppp_get_passcode, for the passcodes of these cards.  It returns 0 and   *)
(* no passcode if the policy denies the alphabet of the state.             *)
ppp_get_passcode(e, cards) ==
    IF ppp_verify_alphabet(e.alphabet) = "OK" THEN cards ELSE {}

(* _verify_spass: length starts as strlen and counts each character again. *)
_verify_spass(pass) ==
    (IF cfg.spass_min_length > pass.length + pass.length THEN {"SHORT"} ELSE {})
    \cup (IF pass.digits < cfg.spass_require_digit THEN {"NO_DIGITS"} ELSE {})

Denied(p, field) == p \notin Root /\ cfg[field] = "disallow"

(* request_verify_policy; for STATE_NEW it reads the entry e, NULL if it   *)
(* cannot.                                                                 *)
request_verify_policy(p, r, e) ==
    CASE r.type = "USER_SET" ->
           IF p \in Root THEN "OK" ELSE "AGENT_ERR_POLICY"
      [] r.type = "KEY_GENERATE" ->
           IF Denied(p, "key_generation") THEN "AGENT_ERR_POLICY" ELSE "OK"
      [] r.type = "KEY_REMOVE" ->
           IF Denied(p, "key_removal") THEN "AGENT_ERR_POLICY" ELSE "OK"
      [] r.type = "AUTHENTICATE" ->
           IF Denied(p, "shell_auth") THEN "AGENT_ERR_POLICY" ELSE "OK"
      [] r.type = "SKIP" ->
           IF Denied(p, "skipping") THEN "AGENT_ERR_POLICY" ELSE "OK"
      [] r.type = "GET_PASSCODE" ->
           IF Denied(p, "passcode_print") THEN "AGENT_ERR_POLICY" ELSE "OK"
      [] r.type = "GET_STR" ->
           IF r.arg.str \in {"key", "counter"} /\ Denied(p, "key_print")
           THEN "AGENT_ERR_POLICY" ELSE "OK"
      [] r.type = "STATE_NEW" ->
           IF s[p] # NULL THEN "AGENT_ERR_MUST_DROP_STATE"
           ELSE IF p \in Root THEN "OK"
           ELSE IF e = NULL
             THEN IF cfg.key_generation = "disallow"
                  THEN "AGENT_ERR_POLICY_GENERATION" ELSE "OK"
           ELSE IF "disabled" \in e.flags /\ cfg.disabling = "disallow"
             THEN "AGENT_ERR_POLICY"
           ELSE IF cfg.key_regeneration = "disallow"
             THEN "AGENT_ERR_POLICY_REGENERATION" ELSE "OK"
      [] r.type = "FLAG_ADD" ->
           IF "salted" \in r.arg.flags /\ cfg.salt = "disallow"
             THEN "AGENT_ERR_POLICY_SALT"
           ELSE IF "disabled" \in r.arg.flags /\ Denied(p, "disabling")
             THEN "AGENT_ERR_POLICY_DISABLED"
           ELSE IF "show" \in r.arg.flags /\ Denied(p, "show")
             THEN "AGENT_ERR_POLICY_SHOW" ELSE "OK"
      [] r.type = "FLAG_CLEAR" ->
           IF "salted" \in r.arg.flags /\ cfg.salt = "enforce"
             THEN "AGENT_ERR_POLICY_SALT"
           ELSE IF "disabled" \in r.arg.flags /\ Denied(p, "disabling")
             THEN "AGENT_ERR_POLICY_DISABLED"
           ELSE IF "show" \in r.arg.flags /\ p \notin Root /\ cfg.show = "enforce"
             THEN "AGENT_ERR_POLICY_SHOW" ELSE "OK"
      [] OTHER -> "OK"
-----------------------------------------------------------------------------
(* _send_reply: back to waiting for the client. *)
Reply(p, r) == /\ at' = [at EXCEPT ![p] = "client"]
               /\ status' = [status EXCEPT ![p] = r]

(* A request that touches nothing outside the agent's memory. *)
Answer(p, st, r) == /\ s' = [s EXCEPT ![p] = st]
                    /\ Reply(p, r)
                    /\ UNCHANGED <<cfg, db, lock, req, out>>

Handles(p, types) == /\ at[p] = "request"
                     /\ req[p].type \in types
                     /\ \E e \in {db, NULL} : request_verify_policy(p, req[p], e) = "OK"

(* request_handle: a request the policy refuses is answered at once.  Any  *)
(* refusal but AGENT_ERR_POLICY is an error that ends main_loop.           *)
Refuse(p) ==
    /\ at[p] = "request"
    /\ \E e \in {db, NULL} :
         LET r == request_verify_policy(p, req[p], e) IN
         /\ r # "OK"
         /\ status' = [status EXCEPT ![p] = r]
         /\ at' = [at EXCEPT ![p] = IF r = "AGENT_ERR_POLICY" THEN "client" ELSE "bye"]
    /\ UNCHANGED <<cfg, db, lock, keys, s, new_state, req, out>>

(* What ppp_state_load may return without the lock, and with it.           *)
Reading == {"STATE_IO_ERROR"} \cup
           IF db = NULL THEN {"STATE_NO_USER_ENTRY"}
           ELSE {"STATE_PARSE_ERROR", IF Exhausted(db) THEN "STATE_NUMSPACE" ELSE "OK"}
Loading == IF lock # Free THEN {"STATE_LOCK_ERROR"} ELSE Reading

(* _state_init takes STATE_NUMSPACE for success. *)
Success == {"OK", "STATE_NUMSPACE"}
Loaded == Loading \cap Success # {}

(* security_parse_user finds the user or not; a->s is dropped. *)
user_set(p) == /\ Handles(p, {"USER_SET"})
               /\ \/ Answer(p, s[p], "AGENT_ERR_INIT_USER") /\ UNCHANGED new_state
                  \/ /\ Answer(p, NULL, "OK")
                     /\ new_state' = [new_state EXCEPT ![p] = @ /\ s[p] = NULL]
               /\ UNCHANGED keys

state_new(p) == /\ Handles(p, {"STATE_NEW"})
                /\ \E g \in Garbage : Answer(p, state_init(g), "OK")
                /\ new_state' = [new_state EXCEPT ![p] = TRUE]
                /\ UNCHANGED keys

(* _state_init(a, _LOAD): without the lock. *)
state_load(p) ==
    /\ Handles(p, {"STATE_LOAD"})
    /\ s[p] = NULL
    /\ \/ \E r \in Reading \ Success : Answer(p, NULL, r)
       \/ db # NULL /\ Answer(p, ppp_calculate(db), "OK")
    /\ new_state' = [new_state EXCEPT ![p] = FALSE]
    /\ UNCHANGED keys

state_drop(p) == /\ Handles(p, {"STATE_DROP"})
                 /\ Answer(p, NULL, IF s[p] = NULL THEN "AGENT_ERR_NO_STATE" ELSE "OK")
                 /\ new_state' = [new_state EXCEPT ![p] = @ /\ s[p] = NULL]
                 /\ UNCHANGED keys

(* ppp_key_generate checks the policy with the entry of this moment. *)
key_generate(p) ==
    /\ Handles(p, {"KEY_GENERATE"})
    /\ IF s[p] = NULL
         THEN Answer(p, NULL, "AGENT_ERR_MUST_CREATE_STATE") /\ UNCHANGED keys
       ELSE IF Denied(p, "key_regeneration") /\ db # NULL /\ ~Exhausted(db)
         THEN Answer(p, s[p], "PPP_ERROR_POLICY") /\ UNCHANGED keys
       ELSE /\ keys < MAX_KEYS
            /\ keys' = keys + 1
            /\ Answer(p, [s[p] EXCEPT !.e.key = keys + 1, !.e.counter = 0,
                                      !.e.latest = 0, !.new_key = TRUE], "OK")
    /\ UNCHANGED new_state

Getters == {"FLAG_GET", "GET_NUM", "GET_INT", "GET_STR", "GET_PASSCODE", "GET_WARNINGS"}

get_field(p) == /\ Handles(p, Getters)
                /\ Answer(p, s[p], IF s[p] = NULL THEN "AGENT_ERR_NO_STATE" ELSE "OK")
                /\ UNCHANGED <<keys, new_state>>

(* ppp_get_prompt leaves a cleared counter behind: num_clear(s->counter). *)
get_prompt(p) ==
    /\ Handles(p, {"GET_PROMPT"})
    /\ IF s[p] = NULL
         THEN Answer(p, NULL, "AGENT_ERR_NO_STATE")
         ELSE Answer(p, [ppp_calculate([s[p].e EXCEPT !.counter = 0])
                           EXCEPT !.new_key = s[p].new_key], "OK")
    /\ UNCHANGED <<keys, new_state>>

get_alphabet(p) == /\ Handles(p, {"GET_ALPHABET"})
                   /\ Answer(p, s[p], ppp_verify_alphabet(req[p].arg.num))
                   /\ UNCHANGED <<keys, new_state>>
-----------------------------------------------------------------------------
(***************************************************************************)
(* Transactions: lock and load in one step, store and unlock in a second.  *)
(* Work(p, st, r, e, l): go to store with a->s = st, result r and entry e. *)
(***************************************************************************)
Work(p, st, r, e, l) == /\ s' = [s EXCEPT ![p] = st]
                        /\ out' = [out EXCEPT ![p] = [ret |-> r, entry |-> e]]
                        /\ lock' = l
                        /\ at' = [at EXCEPT ![p] = "store"]
                        /\ UNCHANGED <<cfg, db, keys, req, status>>

(* ppp_state_load keeps the lock only if it returns 0. *)
LockAfterLoad(p) == IF "OK" \in Loading THEN p ELSE Free

(* ppp_set_int on PPP_FIELD_FLAGS. *)
ppp_set_flags(st, f) ==
    IF ~(f \subseteq Flags) THEN Changed(st, "PPP_ERROR")
    ELSE IF ppp_verify_flags(f) = "OK"
    THEN Changed([st EXCEPT !.e.flags = f], "OK")
    ELSE Changed(st, ppp_verify_flags(f))

(* ppp_set_int on the fields the utility sets. *)
ppp_set_int(st, field, v) ==
    LET r == IF field = "alphabet" THEN ppp_verify_alphabet(v)
                                   ELSE ppp_verify_code_length(v)
    IN IF r = "OK" THEN Changed([st EXCEPT !.e[field] = v], "OK")
                   ELSE Changed(st, r)

(* ppp_set_str; a string of the model is short and legal or "illegal". *)
ppp_set_str(p, st, field, v) ==
    IF Denied(p, IF field = "label" THEN "label_change" ELSE "contact_change")
    THEN Changed(st, "PPP_ERROR_POLICY")
    ELSE IF v = "illegal" THEN Changed(st, "PPP_ERROR_ILL_CHAR")
    ELSE Changed([st EXCEPT !.e[field] = v], "OK")

(* Mutant: the old password is cleared first. *)
spass_cleared_first(p, st, pass) ==
    IF Denied(p, "spass_change") THEN Changed(st, "PPP_ERROR_SPASS_POLICY")
    ELSE IF pass = NULL
      THEN Changed([st EXCEPT !.e.spass = NULL], "PPP_ERROR_SPASS_UNSET")
    ELSE IF p \notin Root /\ _verify_spass(pass) # {}
      THEN Changed([st EXCEPT !.e.spass = NULL], "PPP_ERROR_SPASS")
    ELSE Changed([st EXCEPT !.e.spass = pass], "PPP_ERROR_SPASS_SET")

(* ppp_set_spass *)
ppp_set_spass(p, st, pass) ==
    IF Denied(p, "spass_change") THEN Changed(st, "PPP_ERROR_SPASS_POLICY")
    ELSE IF pass = NULL
      THEN Changed([st EXCEPT !.e.spass = NULL], "PPP_ERROR_SPASS_UNSET")
    ELSE IF p \notin Root /\ _verify_spass(pass) # {}
      THEN Changed(st, "PPP_ERROR_SPASS")
    ELSE Changed([st EXCEPT !.e.spass = pass], "PPP_ERROR_SPASS_SET")

(* Not after the latest card or the current one: refused. *)
Adjacent(st, n) == n = st.e.latest + 1 \/ n = st.card + 1
RefusesLatest(st, n) == st.e.latest > n \/ ~Adjacent(st, n)

(* Mutant: only the state loaded at the start is asked. *)
set_latest_unchecked(st, n) == Changed([st EXCEPT !.e.latest = n], "OK")

(* The second half of UPDATE_LATEST, on the state loaded under the lock. *)
set_latest(st, n) == IF RefusesLatest(st, n) THEN Changed(st, "AGENT_ERR_REQ_ARG")
                     ELSE Changed([st EXCEPT !.e.latest = n], "OK")

(* What an atomical request makes of the state, and its result. *)
Change(p, st) ==
    LET a == req[p].arg IN
    CASE req[p].type = "FLAG_ADD" -> ppp_set_flags(st, st.e.flags \cup a.flags)
      [] req[p].type = "FLAG_CLEAR" -> ppp_set_flags(st, st.e.flags \ a.flags)
      [] req[p].type = "SET_INT" -> ppp_set_int(st, a.field, a.int)
      [] req[p].type = "SET_STR" -> ppp_set_str(p, st, a.field, a.str)
      [] req[p].type = "UPDATE_LATEST" -> set_latest(st, a.num)

(* Mutant: the state loaded before is good enough. *)
atomical_stale(p) ==
    \/ /\ ~new_state[p] /\ Loaded
       /\ LET c == Change(p, IF s[p] # NULL THEN s[p] ELSE ppp_calculate(db))
          IN Work(p, c.st, c.ret, c.st.e, LockAfterLoad(p))
       /\ UNCHANGED new_state
    \/ /\ ~new_state[p]
       /\ \E r \in Loading \ Success : Answer(p, NULL, r)
       /\ UNCHANGED <<keys, new_state>>
    \/ /\ new_state[p]
       /\ LET c == Change(p, s[p]) IN Answer(p, c.st, c.ret)
       /\ UNCHANGED <<keys, new_state>>

(***************************************************************************)
(* _state_init_atomical and the change.  A state under construction is     *)
(* changed in memory; otherwise a->s is dropped and loaded again under the *)
(* lock.  After STATE_NUMSPACE the change goes on without the lock.        *)
(***************************************************************************)
Atomical(p) ==
    \/ /\ new_state[p]
       /\ LET c == Change(p, s[p]) IN Answer(p, c.st, c.ret)
       /\ UNCHANGED <<keys, new_state>>
    \/ /\ ~new_state[p]
       /\ \E r \in Loading \ Success : Answer(p, NULL, r)
       /\ UNCHANGED <<keys, new_state>>
    \/ /\ ~new_state[p] /\ Loaded
       /\ LET c == Change(p, ppp_calculate(db))
          IN Work(p, c.st, c.ret, c.st.e, LockAfterLoad(p))
       /\ UNCHANGED new_state

flag_add(p) == Handles(p, {"FLAG_ADD"}) /\ Atomical(p)
flag_clear(p) == Handles(p, {"FLAG_CLEAR"}) /\ Atomical(p)
set_int(p) == Handles(p, {"SET_INT"}) /\ Atomical(p)
set_str(p) == Handles(p, {"SET_STR"}) /\ Atomical(p)

(* UPDATE_LATEST: checked with the state at hand, then with the one loaded *)
(* under the lock.                                                         *)
update_latest(p) ==
    /\ Handles(p, {"UPDATE_LATEST"})
    /\ IF s[p] # NULL /\ RefusesLatest(s[p], req[p].arg.num)
         THEN Answer(p, s[p], "AGENT_ERR_REQ_ARG") /\ UNCHANGED <<keys, new_state>>
         ELSE Atomical(p)

(***************************************************************************)
(* SET_SPASS.  The condition ret2 == ..._SET || ..._UNSET is always true:  *)
(* the state is stored whatever ppp_set_spass returned, and that result is *)
(* the reply if the store succeeds.                                        *)
(***************************************************************************)
set_spass(p) ==
    /\ Handles(p, {"SET_SPASS"})
    /\ \/ /\ \E r \in Loading \ Success : Answer(p, NULL, r)
          /\ UNCHANGED keys
       \/ /\ Loaded
          /\ LET c == ppp_set_spass(p, ppp_calculate(db), req[p].arg.spass)
             IN Work(p, c.st, "OK", c.st.e, LockAfterLoad(p))
    /\ UNCHANGED new_state

(* ppp_increment or ppp_skip on a->s: any load error ends it.  e goes to   *)
(* the disk, after stays in memory.                                        *)
Combo(p, r, e, after) ==
    \/ /\ s[p] = NULL
       /\ Answer(p, NULL, "AGENT_ERR_NO_STATE")
       /\ UNCHANGED keys
    \/ /\ s[p] # NULL
       /\ \E l \in Loading \ Success : Answer(p, s[p], l)
       /\ UNCHANGED keys
    \/ /\ s[p] # NULL /\ "STATE_NUMSPACE" \in Loading
       /\ Answer(p, ppp_calculate(db), "STATE_NUMSPACE")
       /\ UNCHANGED keys
    \/ /\ s[p] # NULL /\ "OK" \in Loading
       /\ LET v == IF ppp_state_verify(db) # "OK" THEN "PPP_ERROR_POLICY"
                   ELSE IF "disabled" \in db.flags THEN "PPP_ERROR_DISABLED" ELSE r
          IN Work(p, [ppp_calculate(db) EXCEPT !.e = IF v = "OK" THEN after ELSE db],
                  v, e, p)

Counter(n) == IF db = NULL THEN NULL ELSE [db EXCEPT !.counter = n]

(* Mutant: no range check. *)
skip_unchecked(p) ==
    /\ Handles(p, {"SKIP"})
    /\ Combo(p, "OK", Counter(req[p].arg.num), Counter(req[p].arg.num))
    /\ UNCHANGED new_state

skip(p) == /\ Handles(p, {"SKIP"})
           /\ Combo(p, IF db # NULL /\ req[p].arg.num >= max_code(db)
                       THEN "PPP_ERROR_RANGE" ELSE "OK",
                    Counter(req[p].arg.num), Counter(req[p].arg.num))
           /\ UNCHANGED new_state

(* AUTHENTICATE: ppp_increment takes a passcode, then it is compared. *)
authenticate(p) ==
    /\ Handles(p, {"AUTHENTICATE"})
    /\ Combo(p, "OK", IF db = NULL THEN NULL ELSE Counter(db.counter + 1), db)
    /\ UNCHANGED new_state

(* ppp_failures(s, 1) works on a second state. *)
clear_recent_failures(p) ==
    /\ Handles(p, {"CLEAR_RECENT_FAILURES"})
    /\ \/ /\ s[p] = NULL
          /\ Answer(p, NULL, "AGENT_ERR_NO_STATE")
          /\ UNCHANGED keys
       \/ /\ s[p] # NULL
          /\ \E r \in Loading \ {"OK"} : Answer(p, s[p], r)
          /\ UNCHANGED keys
       \/ /\ s[p] # NULL /\ "OK" \in Loading
          /\ Work(p, s[p], "OK", [db EXCEPT !.recent = 0], p)
    /\ UNCHANGED new_state

key_remove(p) ==
    /\ Handles(p, {"KEY_REMOVE"})
    /\ IF s[p] # NULL
         THEN Answer(p, s[p], "AGENT_ERR_MUST_DROP_STATE")
              /\ UNCHANGED <<keys, new_state>>
       ELSE \/ /\ \E r \in Loading \ Success : Answer(p, NULL, r)
               /\ UNCHANGED <<keys, new_state>>
            \/ /\ Loaded
               /\ Work(p, NULL, "OK", NULL, LockAfterLoad(p))
               /\ new_state' = [new_state EXCEPT ![p] = FALSE]

(* STATE_STORE: state_store locks by itself, for a new key only. *)
state_store(p) ==
    /\ Handles(p, {"STATE_STORE"})
    /\ IF s[p] = NULL
         THEN Answer(p, NULL, "AGENT_ERR_NO_STATE") /\ UNCHANGED <<keys, new_state>>
       ELSE /\ IF ~s[p].new_key
                 THEN Work(p, NULL, "OK", s[p].e, lock)
               ELSE IF lock # Free
                 THEN Answer(p, NULL, "STATE_LOCK_ERROR") /\ UNCHANGED keys
               ELSE Work(p, NULL, "OK", s[p].e, p)
            /\ new_state' = [new_state EXCEPT ![p] = FALSE]

Unlock(p) == lock' = IF lock = p THEN Free ELSE lock

(* Mutant: after an error the state is kept, and its lock. *)
finish_error_locked(p) ==
    /\ at[p] = "store"
    /\ IF out[p].ret = "OK" /\ lock = p
         THEN db' = out[p].entry /\ Unlock(p) ELSE UNCHANGED <<db, lock>>
    /\ Reply(p, out[p].ret)
    /\ UNCHANGED <<cfg, keys, s, new_state, req, out>>

(* What SET_SPASS and AUTHENTICATE reply once their store succeeded. *)
Replies(p) ==
    CASE req[p].type = "SET_SPASS" ->
           {ppp_set_spass(p, ppp_calculate(db), req[p].arg.spass).ret}
      [] req[p].type = "AUTHENTICATE" -> {"OK", "WRONG_PASSCODE"}
      [] OTHER -> {"OK"}

(***************************************************************************)
(* ppp_state_release: store unless an error came before, refuse to store   *)
(* without the lock, unlock in any case, reply.                            *)
(***************************************************************************)
Finish(p) ==
    /\ at[p] = "store"
    /\ \/ /\ out[p].ret # "OK"
          /\ Reply(p, out[p].ret)
          /\ UNCHANGED db
       \/ /\ out[p].ret = "OK" /\ lock # p
          /\ Reply(p, "NOT_LOCKED")
          /\ UNCHANGED db
       \/ /\ out[p].ret = "OK" /\ lock = p
          /\ Reply(p, "STATE_IO_ERROR")
          /\ UNCHANGED db
       \/ /\ out[p].ret = "OK" /\ lock = p
          /\ db' = out[p].entry
          /\ \E r \in Replies(p) : Reply(p, r)
    /\ Unlock(p)
    /\ UNCHANGED <<cfg, keys, s, new_state, req, out>>

(* request_execute: one action per request type. *)
request_execute(p) ==
    \/ user_set(p) \/ state_new(p) \/ state_load(p) \/ state_drop(p)
    \/ key_generate(p) \/ get_field(p) \/ get_prompt(p) \/ get_alphabet(p)
    \/ flag_add(p) \/ flag_clear(p) \/ set_int(p) \/ set_str(p)
    \/ set_spass(p) \/ update_latest(p) \/ skip(p) \/ authenticate(p)
    \/ clear_recent_failures(p) \/ key_remove(p) \/ state_store(p)

request_handle(p) == Refuse(p) \/ request_execute(p) \/ Finish(p)
=============================================================================
