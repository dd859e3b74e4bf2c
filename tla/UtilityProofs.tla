---------------------------- MODULE UtilityProofs ---------------------------
(***************************************************************************)
(* Proofs about Utility, for any number of utilities and any command       *)
(* lines.  The lock first: every step is one of a few kinds, seen from the *)
(* lock and the entry on disk (Moved, Worked, Finished, Left, login), and  *)
(* only an agent about to store ever holds the lock.  What such an agent   *)
(* is about to write therefore stays what it made of the entry on disk.    *)
(* Then the types, the keys in use, and the order of the steps that print. *)
(***************************************************************************)
EXTENDS Utility, TLAPS

(* Every utility has its place, its agent's memory and its messages. *)
Arrays == /\ at \in [Proc -> At]
          /\ s = [q \in Proc |-> s[q]]
          /\ new_state = [q \in Proc |-> new_state[q]]
          /\ req = [q \in Proc |-> req[q]]
          /\ status = [q \in Proc |-> status[q]]
          /\ out = [q \in Proc |-> out[q]]
          /\ options = [q \in Proc |-> options[q]]
          /\ script = [q \in Proc |-> script[q]]

(* Only an agent that is about to store holds the lock. *)
LockStored == /\ lock \in Proc \cup {Free}
              /\ \A p \in Proc : lock = p => at[p] = "store"

(* p goes on without touching the lock. *)
Moved(p) == /\ at[p] # "store"
            /\ \E x \in At \ {"store"} : at' = [at EXCEPT ![p] = x]
            /\ UNCHANGED <<cfg, db, lock>>
            /\ \A q \in Proc \ {p} : req'[q] = req[q] /\ out'[q] = out[q]

(* p has taken the lock, or goes on to store without it. *)
Worked(p) == /\ at[p] = "request"
             /\ at' = [at EXCEPT ![p] = "store"]
             /\ lock' = lock \/ (lock = Free /\ lock' = p)
             /\ UNCHANGED <<cfg, db, req>>
             /\ \A q \in Proc \ {p} : out'[q] = out[q]

(* p leaves, and its lock with it. *)
Left(p) == /\ at' = [at EXCEPT ![p] = "off"]
           /\ Unlock(p)
           /\ UNCHANGED <<cfg, db>>
           /\ \A q \in Proc \ {p} : req'[q] = req[q] /\ out'[q] = out[q]

(* A refusal: nothing but the reply, and perhaps the end of the agent. *)
LEMMA Refused ==
  ASSUME NEW p \in Proc, Arrays, Refuse(p)
  PROVE  /\ at[p] = "request"
         /\ \E x \in {"client", "bye"} : at' = [at EXCEPT ![p] = x]
         /\ \E r : r # "OK" /\ status' = [status EXCEPT ![p] = r]
         /\ UNCHANGED <<cfg, db, lock, keys, s, new_state, req, out>>
<1>1. PICK r : /\ r # "OK" /\ status' = [status EXCEPT ![p] = r]
               /\ at' = [at EXCEPT ![p] = IF r = "AGENT_ERR_POLICY"
                                          THEN "client" ELSE "bye"]
  BY DEF Refuse
<1>2. \E x \in {"client", "bye"} : at' = [at EXCEPT ![p] = x]
  <2>1. CASE r = "AGENT_ERR_POLICY"
    BY <1>1, <2>1
  <2>2. CASE r # "AGENT_ERR_POLICY"
    BY <1>1, <2>2
  <2> QED  BY <2>1, <2>2
<1> QED  BY <1>1, <1>2 DEF Refuse

(* Every step of an agent before its store is of one of two kinds. *)
LEMMA RequestKinds ==
  ASSUME NEW p \in Proc, Arrays, Refuse(p) \/ request_execute(p)
  PROVE  /\ at[p] = "request" /\ at'[p] \in {"client", "store", "bye"} /\ UNCHANGED req
         /\ Moved(p) \/ Worked(p)
<1> DEFINE Kind == /\ at'[p] \in {"client", "store", "bye"} /\ UNCHANGED req
                   /\ Moved(p) \/ Worked(p)
<1>a. ASSUME NEW st, NEW r, at[p] = "request", Answer(p, st, r)  PROVE Kind
  BY <1>a DEF Answer, Reply, Arrays, Moved, At
<1>b. ASSUME NEW st, NEW r, NEW e, NEW l, at[p] = "request", Work(p, st, r, e, l),
             l = lock \/ (lock = Free /\ l = p)
      PROVE  Kind
  BY <1>b DEF Work, Arrays, Worked
<1> HIDE DEF Kind
<1>c. Loaded => LockAfterLoad(p) = lock \/ (lock = Free /\ LockAfterLoad(p) = p)
  BY DEF Loaded, Loading, Success, LockAfterLoad
<1>d. "OK" \in Loading => lock = Free
  BY DEF Loading
<1>e. ASSUME at[p] = "request", Atomical(p)  PROVE Kind
  BY <1>a, <1>b, <1>c, <1>e DEF Atomical
<1>f. ASSUME NEW r, NEW e, NEW a, at[p] = "request", Combo(p, r, e, a)
      PROVE  Kind
  BY <1>a, <1>b, <1>d, <1>f DEF Combo
<1> SUFFICES at[p] = "request" /\ Kind
  BY DEF Kind
<1>1. CASE Refuse(p)
  BY <1>1, Refused DEF Arrays, Moved, At, Kind
<1>2. CASE user_set(p) \/ state_new(p) \/ state_load(p) \/ state_drop(p)
           \/ key_generate(p) \/ get_field(p) \/ get_prompt(p) \/ get_alphabet(p)
  BY <1>2, <1>a DEF user_set, state_new, state_load, state_drop, key_generate,
                    get_field, get_prompt, get_alphabet, Handles
<1>3. CASE flag_add(p) \/ flag_clear(p) \/ set_int(p) \/ set_str(p)
  BY <1>3, <1>e DEF flag_add, flag_clear, set_int, set_str, Handles
<1>4. CASE update_latest(p)
  BY <1>4, <1>a, <1>e DEF update_latest, Handles
<1>5. CASE skip(p) \/ authenticate(p)
  BY <1>5, <1>f DEF skip, authenticate, Handles
<1>6. CASE set_spass(p) \/ key_remove(p)
  BY <1>6, <1>a, <1>b, <1>c DEF set_spass, key_remove, Handles
<1>7. CASE clear_recent_failures(p)
  BY <1>7, <1>a, <1>b, <1>d DEF clear_recent_failures, Handles
<1>8. CASE state_store(p)
  BY <1>8, <1>a, <1>b DEF state_store, Handles
<1> QED
  BY <1>1, <1>2, <1>3, <1>4, <1>5, <1>6, <1>7, <1>8 DEF request_execute

(* So is every step of the utility itself. *)
LEMMA UtilityKinds ==
  ASSUME NEW p \in Proc, Arrays, run_cli(p) \/ receive(p) \/ receive_last(p) \/ answer(p) \/ kill(p)
  PROVE  (at[p] \notin {"request", "store"} /\ Moved(p)) \/ Left(p)
<1>a. ASSUME Leave(p), UNCHANGED <<cfg, db>>  PROVE Left(p)
  BY <1>a DEF Leave, Left, Arrays
<1>b. ASSUME NEW sc, at[p] \in {"client", "ask"}, Continue(p, sc)
      PROVE  Moved(p) \/ Left(p)
  <2>1. CASE sc = <<>>
    BY <1>a, <1>b, <2>1 DEF Continue
  <2>2. CASE sc # <<>> /\ Head(sc).type \in Questions
    BY <1>b, <2>2 DEF Continue, Moved, At, Arrays
  <2>3. CASE sc # <<>> /\ Head(sc).type \notin Questions
    <3>1. /\ at' = [at EXCEPT ![p] = "request"]
          /\ req' = [req EXCEPT ![p] = Head(sc)]
          /\ UNCHANGED <<cfg, db, lock, out>>
      BY <1>b, <2>3 DEF Continue
    <3>2. \A q \in Proc \ {p} : req'[q] = req[q]
      BY <3>1 DEF Arrays
    <3> QED  BY <1>b, <3>1, <3>2 DEF Moved, At
  <2> QED  BY <2>1, <2>2, <2>3
<1>1. CASE run_cli(p)
  <2>1. PICK r : req' = [req EXCEPT ![p] = r]
    BY <1>1 DEF run_cli
  <2>2. \A q \in Proc \ {p} : req'[q] = req[q]
    BY <2>1 DEF Arrays
  <2>3. /\ at[p] = "off" /\ at' = [at EXCEPT ![p] = "request"]
        /\ UNCHANGED <<cfg, db, lock, out>>
    BY <1>1 DEF run_cli
  <2> QED  BY <2>2, <2>3 DEF Moved, At
<1>2. CASE receive(p)
  BY <1>2, <1>b DEF receive
<1>3. CASE answer(p)
  BY <1>3, <1>b DEF answer
<1>4. CASE kill(p) \/ receive_last(p)
  BY <1>4, <1>a DEF kill, receive_last
<1> QED  BY <1>1, <1>2, <1>3, <1>4

(* The others have what they had. *)
Frame(p) == \A q \in Proc \ {p} :
              /\ at'[q] = at[q] /\ s'[q] = s[q] /\ new_state'[q] = new_state[q]
              /\ req'[q] = req[q] /\ status'[q] = status[q] /\ out'[q] = out[q]
              /\ options'[q] = options[q] /\ script'[q] = script[q]

(* A step of an agent keeps the arrays; new_state aside, by its kind. *)
LEMMA AgentArrays ==
  ASSUME NEW p \in Proc, Arrays, agent(p)
  PROVE  Arrays' /\ Frame(p)
<1> DEFINE Rest == /\ at' \in [Proc -> At]
                   /\ s' = [q \in Proc |-> s'[q]]
                   /\ req' = [q \in Proc |-> req'[q]]
                   /\ status' = [q \in Proc |-> status'[q]]
                   /\ out' = [q \in Proc |-> out'[q]]
                   /\ \A q \in Proc \ {p} :
                        /\ at'[q] = at[q] /\ s'[q] = s[q] /\ req'[q] = req[q]
                        /\ status'[q] = status[q] /\ out'[q] = out[q]
           New == /\ new_state' = [q \in Proc |-> new_state'[q]]
                  /\ \A q \in Proc \ {p} : new_state'[q] = new_state[q]
<1> SUFFICES Rest /\ New
  BY DEF agent, utilityVars, Arrays, Frame
<1>a. ASSUME NEW st, NEW r, Answer(p, st, r)  PROVE Rest
  BY <1>a DEF Answer, Reply, Arrays, At
<1>b. ASSUME NEW st, NEW r, NEW e, NEW l, Work(p, st, r, e, l)  PROVE Rest
  BY <1>b DEF Work, Arrays, At
<1>c. ASSUME UNCHANGED new_state  PROVE New
  BY <1>c DEF Arrays
<1>d. ASSUME NEW b, new_state' = [new_state EXCEPT ![p] = b]  PROVE New
  BY <1>d DEF Arrays
<1> HIDE DEF Rest, New
<1>e. ASSUME Atomical(p)  PROVE Rest /\ New
  BY <1>a, <1>b, <1>c, <1>e DEF Atomical
<1>f. ASSUME NEW r, NEW e, NEW a, Combo(p, r, e, a)  PROVE Rest
  BY <1>a, <1>b, <1>f DEF Combo
<1>1. CASE Refuse(p)
  BY <1>1, Refused DEF Arrays, At, Rest, New
<1>2. CASE user_set(p) \/ state_drop(p)
  <2>1. Rest  BY <1>2, <1>a DEF user_set, state_drop
  <2>2. New  BY <1>2, <1>c, <1>d DEF user_set, state_drop
  <2> QED  BY <2>1, <2>2
<1>3. CASE state_new(p) \/ state_load(p)
  <2>1. Rest  BY <1>3, <1>a DEF state_new, state_load
  <2>2. New  BY <1>3, <1>c, <1>d DEF state_new, state_load
  <2> QED  BY <2>1, <2>2
<1>4. CASE key_generate(p) \/ get_field(p) \/ get_prompt(p) \/ get_alphabet(p)
  BY <1>4, <1>a, <1>c DEF key_generate, get_field, get_prompt, get_alphabet
<1>5. CASE flag_add(p) \/ flag_clear(p) \/ set_int(p) \/ set_str(p) \/ update_latest(p)
  BY <1>5, <1>a, <1>c, <1>e DEF flag_add, flag_clear, set_int, set_str, update_latest
<1>6. CASE set_spass(p) \/ skip(p) \/ authenticate(p) \/ clear_recent_failures(p)
  BY <1>6, <1>a, <1>b, <1>c, <1>f
     DEF set_spass, skip, authenticate, clear_recent_failures
<1>7. CASE key_remove(p) \/ state_store(p)
  <2>1. Rest  BY <1>7, <1>a, <1>b DEF key_remove, state_store
  <2>2. New  BY <1>7, <1>c, <1>d DEF key_remove, state_store
  <2> QED  BY <2>1, <2>2
<1>8. CASE Finish(p)
  <2>1. PICK r : Reply(p, r)  BY <1>8 DEF Finish
  <2>2. Rest  BY <2>1, <1>8 DEF Finish, Reply, Arrays, At, Rest
  <2>3. New  BY <1>8, <1>c DEF Finish
  <2> QED  BY <2>2, <2>3
<1> QED
  BY <1>1, <1>2, <1>3, <1>4, <1>5, <1>6, <1>7, <1>8
     DEF agent, request_handle, request_execute

(* A step of a utility keeps the arrays. *)
LEMMA UtilityArrays ==
  ASSUME NEW p \in Proc, Arrays, run_cli(p) \/ receive(p) \/ receive_last(p) \/ answer(p) \/ kill(p)
  PROVE  Arrays' /\ Frame(p)
<1> USE DEF Frame
<1>a. ASSUME Leave(p)  PROVE Arrays' /\ Frame(p)
  BY <1>a DEF Leave, Arrays, At
<1>b. ASSUME NEW sc, Continue(p, sc)  PROVE Arrays' /\ Frame(p)
  <2>1. CASE sc = <<>>
    BY <1>a, <1>b, <2>1 DEF Continue
  <2>2. CASE sc # <<>> /\ Head(sc).type \in Questions
    <3>1. /\ at' = [at EXCEPT ![p] = "ask"]
          /\ script' = [script EXCEPT ![p] = sc]
          /\ UNCHANGED <<s, new_state, req, status, out, options>>
      BY <1>b, <2>2 DEF Continue
    <3> QED  BY <3>1 DEF Arrays, At
  <2>3. CASE sc # <<>> /\ Head(sc).type \notin Questions
    <3>1. PICK r, t : /\ at' = [at EXCEPT ![p] = "request"]
                      /\ req' = [req EXCEPT ![p] = r]
                      /\ script' = [script EXCEPT ![p] = t]
                      /\ UNCHANGED <<s, new_state, status, out, options>>
      BY <1>b, <2>3 DEF Continue
    <3> QED  BY <3>1 DEF Arrays, At
  <2> QED  BY <2>1, <2>2, <2>3
<1>1. CASE run_cli(p)
  <2>1. /\ \E o : options' = [options EXCEPT ![p] = o]
        /\ \E r : req' = [req EXCEPT ![p] = r]
        /\ \E t : script' = [script EXCEPT ![p] = t]
    BY <1>1 DEF run_cli
  <2>2. /\ at' = [at EXCEPT ![p] = "request"]
        /\ UNCHANGED <<s, new_state, status, out>>
    BY <1>1 DEF run_cli
  <2> QED  BY <2>1, <2>2 DEF Arrays, At
<1>2. CASE receive(p) \/ answer(p)
  BY <1>2, <1>b DEF receive, answer
<1>3. CASE kill(p) \/ receive_last(p)
  BY <1>3, <1>a DEF kill, receive_last
<1> QED  BY <1>1, <1>2, <1>3

(* At first they have. *)
LEMMA ArraysInit == Init => Arrays
BY DEF Init, Arrays, At

(* Every step keeps it. *)
LEMMA ArraysStep == Arrays /\ [Next]_vars => Arrays'
<1> SUFFICES ASSUME Arrays, [Next]_vars  PROVE Arrays'
  OBVIOUS
<1>1. CASE UNCHANGED vars
  BY <1>1 DEF vars, agentVars, utilityVars, Arrays
<1>2. CASE login
  BY <1>2 DEF login, Arrays
<1>3. ASSUME NEW p \in Proc,
             run_cli(p) \/ receive(p) \/ receive_last(p) \/ answer(p) \/ agent(p) \/ kill(p)
      PROVE  Arrays'
  BY <1>3, AgentArrays, UtilityArrays
<1> QED  BY <1>1, <1>2, <1>3 DEF Next
-----------------------------------------------------------------------------
(* The kinds of all steps. *)
LEMMA StepKinds ==
  ASSUME Arrays, [Next]_vars
  PROVE  \/ UNCHANGED <<cfg, db, lock, at, req, out>>
         \/ lock = Free /\ login
         \/ \E p \in Proc : Moved(p) \/ Worked(p) \/ Finish(p) \/ Left(p)
<1>1. CASE UNCHANGED vars
  BY <1>1 DEF vars, agentVars
<1>2. CASE login
  BY <1>2 DEF login
<1>3. ASSUME NEW p \in Proc, run_cli(p) \/ receive(p) \/ receive_last(p) \/ answer(p) \/ kill(p)
      PROVE  Moved(p) \/ Left(p)
  BY <1>3, UtilityKinds
<1>4. ASSUME NEW p \in Proc, agent(p)
      PROVE  Moved(p) \/ Worked(p) \/ Finish(p)
  BY <1>4, RequestKinds DEF agent, request_handle
<1> QED  BY <1>1, <1>2, <1>3, <1>4 DEF Next

(* Initially nobody holds the lock. *)
LEMMA LockStoredInit == Init => LockStored
BY RequestAssumption DEF Init, LockStored

(* The lock is taken on the way to the store and given back on every way   *)
(* out of it.                                                              *)
LEMMA LockStoredStep == Arrays /\ LockStored /\ [Next]_vars => LockStored'
<1> SUFFICES ASSUME Arrays, LockStored, [Next]_vars  PROVE LockStored'
  OBVIOUS
<1>0. Free \notin Proc
  BY RequestAssumption
<1>1. CASE UNCHANGED <<cfg, db, lock, at, req, out>>
  BY <1>1 DEF LockStored
<1>2. CASE login
  BY <1>2 DEF login, LockStored
<1>3. ASSUME NEW p \in Proc, Moved(p)  PROVE LockStored'
  BY <1>3 DEF Moved, LockStored, Arrays
<1>4. ASSUME NEW p \in Proc, Worked(p)  PROVE LockStored'
  BY <1>4, <1>0 DEF Worked, LockStored, Arrays
<1>5. ASSUME NEW p \in Proc, NEW x, at' = [at EXCEPT ![p] = x], Unlock(p)
      PROVE  LockStored'
  BY <1>5, <1>0 DEF Unlock, LockStored, Arrays
<1>6. ASSUME NEW p \in Proc, Finish(p)  PROVE LockStored'
  <2>1. at' = [at EXCEPT ![p] = "client"]  BY <1>6 DEF Finish, Reply
  <2> QED  BY <1>5, <1>6, <2>1 DEF Finish
<1>7. ASSUME NEW p \in Proc, Left(p)  PROVE LockStored'
  BY <1>5, <1>7 DEF Left
<1> QED  BY <1>1, <1>2, <1>3, <1>4, <1>6, <1>7, StepKinds

(***************************************************************************)
(* PipesUnlocked: no agent holds the lock while its utility thinks, asks   *)
(* the user or is gone, for any number of utilities.                       *)
(***************************************************************************)
THEOREM UtilityUnlocks == Spec => []PipesUnlocked
<1>1. Init => Arrays /\ LockStored
  BY ArraysInit, LockStoredInit
<1>2. Arrays /\ LockStored /\ [Next]_vars => (Arrays /\ LockStored)'
  BY ArraysStep, LockStoredStep
<1>3. LockStored => PipesUnlocked
  BY DEF LockStored, PipesUnlocked
<1> QED  BY <1>1, <1>2, <1>3, PTL DEF Spec
-----------------------------------------------------------------------------
(* What p is about to write is the entry on disk with the fields of its    *)
(* request changed; of a password, as ppp_set_spass changes it.            *)
Pending(p) ==
  /\ req[p].type \notin {"STATE_STORE", "KEY_REMOVE"} =>
       /\ db # NULL
       /\ \A f \in DOMAIN db : out[p].entry[f] # db[f] => f \in OwnFields(req[p])
  /\ req[p].type = "SET_SPASS" =>
       out[p].entry = ppp_set_spass(p, ppp_calculate(db), req[p].arg.spass).st.e

(* It is so as long as p holds the lock. *)
PendingKept == \A p \in Proc : at[p] = "store" /\ lock = p => Pending(p)

(* Others leave it so: nobody else writes the entry. *)
LEMMA PendingStays ==
  ASSUME NEW p \in Proc, Pending(p), UNCHANGED <<cfg, db>>,
         req'[p] = req[p], out'[p] = out[p]
  PROVE  Pending(p)'
<1> USE DEF ppp_set_spass, ppp_calculate, Denied, Changed, _verify_spass, codes_on_card
<1>1. req[p].type \notin {"STATE_STORE", "KEY_REMOVE"} =>
       /\ db' # NULL
       /\ \A f \in DOMAIN db' : out'[p].entry[f] # db'[f] => f \in OwnFields(req[p])
  BY DEF Pending
<1>2. req[p].type = "SET_SPASS" =>
        out'[p].entry = ppp_set_spass(p, ppp_calculate(db), req[p].arg.spass).st.e'
  BY DEF Pending
<1> QED  BY <1>1, <1>2 DEF Pending, OwnFields

(* What an atomical request makes of a state differs in its own field. *)
LEMMA ChangeOwn ==
  ASSUME NEW p \in Proc, NEW st, DOMAIN st = {"e", "card", "new_key"},
         req[p].type \in {"FLAG_ADD", "FLAG_CLEAR", "SET_INT", "SET_STR", "UPDATE_LATEST"}
  PROVE  \A f \in DOMAIN st.e : Change(p, st).st.e[f] # st.e[f] => f \in OwnFields(req[p])
<1> USE DEF Changed
<1>a. ASSUME NEW g, NEW v
      PROVE  \A f \in DOMAIN st.e : [st EXCEPT !.e[g] = v].e[f] # st.e[f] => f = g
  OBVIOUS
<1>1. CASE req[p].type = "FLAG_ADD"
  <2>1. Change(p, st) = ppp_set_flags(st, st.e.flags \cup req[p].arg.flags)
    BY <1>1 DEF Change
  <2> QED  BY <1>1, <1>a, <2>1 DEF ppp_set_flags, OwnFields
<1>2. CASE req[p].type = "FLAG_CLEAR"
  <2>1. Change(p, st) = ppp_set_flags(st, st.e.flags \ req[p].arg.flags)
    BY <1>2 DEF Change
  <2> QED  BY <1>2, <1>a, <2>1 DEF ppp_set_flags, OwnFields
<1>3. CASE req[p].type = "SET_INT"
  <2>1. Change(p, st) = ppp_set_int(st, req[p].arg.field, req[p].arg.int)
    BY <1>3 DEF Change
  <2> QED  BY <1>3, <1>a, <2>1 DEF ppp_set_int, OwnFields
<1>4. CASE req[p].type = "SET_STR"
  <2>1. Change(p, st) = ppp_set_str(p, st, req[p].arg.field, req[p].arg.str)
    BY <1>4 DEF Change
  <2> QED  BY <1>4, <1>a, <2>1 DEF ppp_set_str, OwnFields
<1>5. CASE req[p].type = "UPDATE_LATEST"
  <2>1. Change(p, st) = set_latest(st, req[p].arg.num)
    BY <1>5 DEF Change
  <2> QED  BY <1>5, <1>a, <2>1 DEF set_latest, OwnFields
<1> QED  BY <1>1, <1>2, <1>3, <1>4, <1>5

(* An agent that took the lock has made its entry of the one on disk. *)
LEMMA PendingMade ==
  ASSUME NEW p \in Proc, Arrays, Refuse(p) \/ request_execute(p), lock # p, lock' = p
  PROVE  Pending(p)'
<1> DEFINE Own(e) == \A f \in DOMAIN db : e[f] # db[f] => f \in OwnFields(req[p])
           Password(e) == e = ppp_set_spass(p, ppp_calculate(db), req[p].arg.spass).st.e
           Plain == {"STATE_STORE", "KEY_REMOVE"}
<1>w. ASSUME NEW st, NEW r, NEW e, NEW l, Work(p, st, r, e, l),
             req[p].type \notin Plain => db # NULL /\ Own(e),
             req[p].type = "SET_SPASS" => Password(e)
      PROVE  Pending(p)'
  <2>1. out'[p].entry = e /\ UNCHANGED <<cfg, db, req>>
    BY <1>w DEF Work, Arrays
  <2>2. req[p].type \notin Plain =>
          /\ db' # NULL
          /\ \A f \in DOMAIN db' : out'[p].entry[f] # db'[f] => f \in OwnFields(req[p])
    BY <1>w, <2>1
  <2>3. req[p].type = "SET_SPASS" =>
        out'[p].entry = ppp_set_spass(p, ppp_calculate(db), req[p].arg.spass).st.e'
    BY <1>w, <2>1
       DEF ppp_set_spass, ppp_calculate, Denied, Changed, _verify_spass, codes_on_card
  <2> QED  BY <2>1, <2>2, <2>3 DEF Pending, OwnFields
<1>a. ASSUME NEW st, NEW r, Answer(p, st, r)  PROVE FALSE
  BY <1>a DEF Answer
<1>l. Loaded => db # NULL
  BY DEF Loaded, Loading, Reading, Success
<1> HIDE DEF Own, Password
<1>e. ASSUME Atomical(p),
             req[p].type \in {"FLAG_ADD", "FLAG_CLEAR", "SET_INT", "SET_STR", "UPDATE_LATEST"}
      PROVE  Pending(p)'
  <2> DEFINE st == ppp_calculate(db)
             c == Change(p, st)
  <2>1. Loaded /\ Work(p, c.st, c.ret, c.st.e, LockAfterLoad(p))
    BY <1>a, <1>e DEF Atomical
  <2>2. DOMAIN st = {"e", "card", "new_key"} /\ st.e = db
    BY DEF ppp_calculate
  <2>3. Own(c.st.e)
    BY <1>e, <2>2, ChangeOwn DEF Own
  <2> QED  BY <1>e, <1>l, <1>w, <2>1, <2>3
<1>f. ASSUME NEW r, NEW e, NEW a, Combo(p, r, e, a), db # NULL => Own(e),
             req[p].type \notin {"SET_SPASS"}
      PROVE  Pending(p)'
  <2>1. "OK" \in Loading => db # NULL  BY DEF Loading, Reading
  <2> QED  BY <1>a, <1>f, <1>w, <2>1 DEF Combo
<1>c. ASSUME NEW n, db # NULL, req[p].type \in {"SKIP", "AUTHENTICATE"}
      PROVE  Own(Counter(n))
  BY <1>c DEF Own, Counter, OwnFields
<1>1. CASE Refuse(p)
  BY <1>1, Refused
<1>2. CASE user_set(p) \/ state_new(p) \/ state_load(p) \/ state_drop(p)
           \/ key_generate(p) \/ get_field(p) \/ get_prompt(p) \/ get_alphabet(p)
  BY <1>2, <1>a DEF user_set, state_new, state_load, state_drop, key_generate,
                    get_field, get_prompt, get_alphabet
<1>3. CASE flag_add(p) \/ flag_clear(p) \/ set_int(p) \/ set_str(p) \/ update_latest(p)
  BY <1>3, <1>a, <1>e DEF flag_add, flag_clear, set_int, set_str, update_latest, Handles
<1>4. CASE skip(p)
  BY <1>4, <1>c, <1>f DEF skip, Handles
<1>5. CASE authenticate(p)
  BY <1>5, <1>c, <1>f DEF authenticate, Handles
<1>6. CASE set_spass(p)
  <2> DEFINE c == ppp_set_spass(p, ppp_calculate(db), req[p].arg.spass)
  <2>1. Loaded /\ Work(p, c.st, "OK", c.st.e, LockAfterLoad(p)) /\ req[p].type = "SET_SPASS"
    BY <1>6, <1>a DEF set_spass, Handles
  <2>2. Password(c.st.e)  BY DEF Password
  <2>3. Own(c.st.e)
    BY <2>1 DEF Own, ppp_set_spass, ppp_calculate, Changed, OwnFields
  <2> QED  BY <1>w, <1>l, <2>1, <2>2, <2>3
<1>7. CASE clear_recent_failures(p)
  <2>1. "OK" \in Loading => db # NULL  BY DEF Loading, Reading
  <2>2. req[p].type = "CLEAR_RECENT_FAILURES"
    BY <1>7 DEF clear_recent_failures, Handles
  <2>3. Own([db EXCEPT !.recent = 0])
    BY <2>2 DEF Own, OwnFields
  <2> QED  BY <1>7, <1>a, <1>w, <2>1, <2>2, <2>3 DEF clear_recent_failures
<1>8. CASE key_remove(p) \/ state_store(p)
  BY <1>8, <1>a, <1>w DEF key_remove, state_store, Handles
<1> QED
  BY <1>1, <1>2, <1>3, <1>4, <1>5, <1>6, <1>7, <1>8 DEF request_execute

(* The lock invariant of the utilities. *)
LockInv == Arrays /\ LockStored /\ PendingKept

(* A step that changes the entry is a login or the store of the agent that *)
(* holds the lock.                                                         *)
LEMMA WriterKinds ==
  ASSUME Arrays, [Next]_vars, db' # db
  PROVE  \/ login
         \/ \E p \in Proc : /\ Finish(p) /\ at[p] = "store" /\ lock = p
                            /\ db' = out[p].entry
                            /\ out[p].ret = "OK"
                            /\ \E r \in Replies(p) : Reply(p, r)
<1>1. ASSUME NEW p \in Proc, Finish(p)
      PROVE  /\ at[p] = "store" /\ lock = p /\ db' = out[p].entry
             /\ out[p].ret = "OK" /\ \E r \in Replies(p) : Reply(p, r)
  BY <1>1 DEF Finish
<1> QED  BY <1>1, StepKinds DEF Moved, Worked, Left

(* Nobody writes the entry that another is about to change. *)
LEMMA PendingStep == LockInv /\ [Next]_vars => PendingKept'
<1> SUFFICES ASSUME LockInv, [Next]_vars, NEW q \in Proc, at'[q] = "store", lock' = q
             PROVE  Pending(q)'
  BY DEF PendingKept
<1>0. Free \notin Proc
  BY RequestAssumption
<1> USE DEF LockInv, PendingKept
<1>1. CASE UNCHANGED <<cfg, db, lock, at, req, out>>
  BY <1>1, PendingStays
<1>2. CASE login
  BY <1>2, <1>0 DEF login
<1>3. ASSUME NEW p \in Proc, run_cli(p) \/ receive(p) \/ receive_last(p) \/ answer(p) \/ kill(p)
      PROVE  Pending(q)'
  <2>1. CASE Moved(p)
    <3>1. p # q  BY <2>1 DEF Moved, Arrays, LockStored
    <3>2. at[q] = "store" /\ lock = q  BY <2>1, <3>1 DEF Moved, Arrays
    <3> QED  BY <2>1, <3>1, <3>2, PendingStays DEF Moved
  <2>2. CASE Left(p)
    <3>1. p # q  BY <2>2, <1>0 DEF Left, Unlock
    <3>2. at[q] = "store" /\ lock = q  BY <2>2, <3>1, <1>0 DEF Left, Unlock, Arrays
    <3> QED  BY <2>2, <3>1, <3>2, PendingStays DEF Left
  <2> QED  BY <1>3, <2>1, <2>2, UtilityKinds
<1>4. ASSUME NEW p \in Proc, Refuse(p) \/ request_execute(p)  PROVE Pending(q)'
  <2>1. at[p] = "request" /\ (Moved(p) \/ Worked(p))
    BY <1>4, RequestKinds
  <2>2. CASE p = q
    <3>1. lock # p  BY <2>1 DEF LockStored
    <3> QED  BY <1>4, <2>2, <3>1, PendingMade
  <2>3. CASE p # q
    <3>1. at[q] = "store" /\ lock = q
      BY <2>1, <2>3 DEF Moved, Worked, Arrays
    <3> QED  BY <2>1, <2>3, <3>1, PendingStays DEF Moved, Worked
  <2> QED  BY <2>2, <2>3
<1>5. ASSUME NEW p \in Proc, Finish(p)  PROVE Pending(q)'
  <2>1. p # q  BY <1>5, <1>0 DEF Finish, Unlock
  <2>2. lock = q /\ at[q] = "store"
    BY <1>5, <2>1, <1>0 DEF Finish, Unlock, Reply, Arrays
  <2>3. db' = db /\ UNCHANGED <<cfg, req, out>>
    BY <1>5, <2>1, <2>2 DEF Finish
  <2> QED  BY <2>2, <2>3, PendingStays
<1> QED
  BY <1>1, <1>2, <1>3, <1>4, <1>5 DEF Next, vars, agentVars, agent, request_handle

(* The lock invariant holds of every behaviour of the utilities. *)
THEOREM LockInvariant == Spec => []LockInv
<1>1. Init => LockInv
  BY ArraysInit, LockStoredInit, RequestAssumption
     DEF LockInv, PendingKept, Init
<1>2. LockInv /\ [Next]_vars => LockInv'
  BY ArraysStep, LockStoredStep, PendingStep DEF LockInv
<1> QED  BY <1>1, <1>2, PTL DEF Spec

(***************************************************************************)
(* AgentWrites: an agent writes under the lock only, and changes nothing   *)
(* but the fields of its request in the entry on disk.                     *)
(***************************************************************************)
THEOREM UtilityWrites == Spec => AgentWrites
<1> DEFINE A == \A p \in Proc : at[p] = "store" /\ at'[p] = "client" /\ db' # db =>
                  /\ lock = p
                  /\ \/ req[p].type \in {"STATE_STORE", "KEY_REMOVE"}
                     \/ \A f \in DOMAIN db : db'[f] # db[f] => f \in OwnFields(req[p])
<1>1. LockInv /\ [Next]_vars => [A]_vars
  <2> SUFFICES ASSUME LockInv, [Next]_vars, NEW p \in Proc, at[p] = "store",
                      at'[p] = "client", db' # db
               PROVE  /\ lock = p
                      /\ \/ req[p].type \in {"STATE_STORE", "KEY_REMOVE"}
                         \/ \A f \in DOMAIN db : db'[f] # db[f] => f \in OwnFields(req[p])
    OBVIOUS
  <2>1. ~login
    BY DEF login
  <2>2. PICK q \in Proc : Finish(q) /\ at[q] = "store" /\ lock = q /\ db' = out[q].entry
    BY <2>1, WriterKinds DEF LockInv
  <2>3. p = q
    BY <2>2 DEF Finish, Reply, LockInv, Arrays
  <2> QED  BY <2>2, <2>3 DEF LockInv, PendingKept, Pending
<1> QED  BY <1>1, LockInvariant, PTL DEF Spec, AgentWrites

(***************************************************************************)
(* RefusedUnchanged: a request that is answered with an error has left the *)
(* entry as it was, SET_SPASS with its refused password too.               *)
(***************************************************************************)
THEOREM UtilityRefuses == Spec => RefusedUnchanged
<1> DEFINE Good == {"OK", "WRONG_PASSCODE", "PPP_ERROR_SPASS_SET", "PPP_ERROR_SPASS_UNSET"}
           A == \A p \in Proc :
                  /\ at[p] = "store" /\ at'[p] = "client"
                  /\ status'[p] \notin {"OK", "WRONG_PASSCODE", "PPP_ERROR_SPASS_SET",
                                        "PPP_ERROR_SPASS_UNSET"}
                  => db' = db
<1>1. LockInv /\ [Next]_vars => [A]_vars
  <2> SUFFICES ASSUME LockInv, [Next]_vars, NEW p \in Proc, at[p] = "store",
                      at'[p] = "client", db' # db
               PROVE  status'[p] \in Good
    OBVIOUS
  <2>1. ~login
    BY DEF login
  <2>2. PICK q \in Proc : /\ Finish(q) /\ at[q] = "store" /\ lock = q /\ db' = out[q].entry
                          /\ \E r \in Replies(q) : Reply(q, r)
    BY <2>1, WriterKinds DEF LockInv
  <2>3. p = q
    BY <2>2 DEF Finish, Reply, LockInv, Arrays
  <2>4. status'[p] \in Replies(p)
    BY <2>2, <2>3 DEF Reply, LockInv, Arrays
  <2>5. CASE req[p].type = "SET_SPASS"
    <3> DEFINE c == ppp_set_spass(p, ppp_calculate(db), req[p].arg.spass)
    <3>1. db' = c.st.e  BY <2>2, <2>3, <2>5 DEF LockInv, PendingKept, Pending
    <3>2. status'[p] = c.ret  BY <2>4, <2>5 DEF Replies
    <3>3. c.ret \in Good \/ c.st = ppp_calculate(db)
      BY DEF ppp_set_spass, Changed
    <3>4. ppp_calculate(db).e = db
      BY DEF ppp_calculate
    <3> QED  BY <3>1, <3>2, <3>3, <3>4
  <2>6. CASE req[p].type # "SET_SPASS"
    BY <2>4, <2>6 DEF Replies
  <2> QED  BY <2>5, <2>6
<1> QED  BY <1>1, LockInvariant, PTL DEF Spec, RefusedUnchanged
-----------------------------------------------------------------------------
(***************************************************************************)
(* Types.  UtilTypeOK is not inductive: an agent's entry is as good as the *)
(* requests it gets and the state it loaded, so the requests of a command  *)
(* line are typed too (Requests), entries carry all their fields, keys and *)
(* failures are bounded by the ones there have been, and only -k builds a  *)
(* new state, whose card is not computed yet.                              *)
(***************************************************************************)
Fields == {"key", "counter", "latest", "recent", "flags", "code_length", "alphabet",
           "label", "contact", "spass"}

(* Policy c does not deny its own default alphabet.                        *)
Printing(c) == c.alphabet_def \in c.alphabets

(* Alphabets with which passcodes are printed, if the default one is, under *)
(* policy c: an entry gets no other.                                       *)
Printable(c) ==
  {id \in Alphabets :
     Printing(c) =>
       id \in c.alphabets /\ (c.alphabet_change = "disallow" => id = c.alphabet_def)}

(* An entry after k keys and l logins, under policy c. *)
GoodEntry(e, c, k, l) ==
  /\ DOMAIN e = Fields
  /\ e.key \in 0..k
  /\ e.counter \in Number
  /\ e.latest \in Nat
  /\ e.recent \in 0..l
  /\ e.flags \subseteq Flags
  /\ e.code_length \in DOMAIN Codes
  /\ e.alphabet \in Printable(c)

(* The state an agent has in memory for action a. *)
GoodState(st, a, c, k, l) ==
  /\ DOMAIN st = {"e", "card", "new_key"}
  /\ GoodEntry(st.e, c, k, l)
  /\ st.card \in Nat
  /\ a # "k" => st.card >= 1
  /\ st.new_key \in BOOLEAN

(* Settings of -c, also given with -k. *)
Settings(o) == {Req("FLAG_ADD", [flags |-> o.set]), Req("FLAG_CLEAR", [flags |-> o.clear]),
                SetInt("code_length", o.code_length), SetInt("alphabet", o.alphabet),
                SetStr("label", o.label), SetStr("contact", o.contact)}

Common(o) == {Req("STATE_LOAD", NULL), Req("USER_SET", [str |-> o.username]),
              Req("FLAG_GET", NULL), Req("STATE_DROP", NULL), Req("SURE", NULL)}

KeyRequests(o) ==
  Common(o) \cup Settings(o) \cup
  {Req("STATE_NEW", NULL), Req("KEY_GENERATE", NULL), Req("READY", NULL),
   Req("STATE_STORE", NULL), card_ascii(1), UpdateLatest(1)}

Numbered(t) == {Req(t, [num |-> n]) : n \in Nat}

(* Requests of the other actions, with the ones they begin with first. *)
OtherPlain(o) ==
  Common(o) \cup Settings(o) \cup
  {Req(t, NULL) : t \in {"AUTHENTICATE", "KEY_REMOVE", "PASS", "GET_WARNINGS",
                         "CLEAR_RECENT_FAILURES", "GET_NUM", "GET_INT"}}
  \cup {Req("SET_SPASS", [spass |-> x]) : x \in Passwords \cup {o.spass}}
  \cup {Req("GET_STR", [str |-> f]) : f \in {"key", "contact"}}
  \cup Numbered("GET_ALPHABET")

OtherRequests(o) ==
  OtherPlain(o) \cup Numbered("UPDATE_LATEST") \cup Numbered("SKIP")
  \cup Numbered("GET_PROMPT") \cup {Passcodes(cards) : cards \in SUBSET Nat}

(* The requests and questions of a command line. *)
Requests(o) == IF o.action = "k" THEN KeyRequests(o) ELSE OtherRequests(o)

(* What p and its agent have is of its type. *)
Typed(p) ==
  /\ s[p] # NULL => GoodState(s[p], options[p].action, cfg, keys, logins)
  /\ new_state[p] \in BOOLEAN
  /\ new_state[p] => options[p].action = "k" /\ GoodState(s[p], "k", cfg, keys, logins)
  /\ at[p] = "off" => s[p] = NULL /\ new_state[p] = FALSE
  /\ at[p] = "store" /\ out[p].ret = "OK" /\ out[p].entry # NULL
       => GoodEntry(out[p].entry, cfg, keys, logins)
  /\ script[p] \in Seq(Requests(options[p]))
  /\ at[p] = "ask" => script[p] # <<>>
  /\ at[p] \in {"request", "store", "client"} => req[p] \in Requests(options[p])
  /\ req[p].type \in Getters =>
       at[p] # "store" /\ (at[p] = "client" /\ status[p] = "OK" => s[p] # NULL)

TypeInv ==
  /\ cfg \in Config
  /\ keys \in 0..MAX_KEYS
  /\ commands \in 0..MAX_COMMANDS
  /\ logins \in 0..MAX_LOGINS
  /\ db # NULL => GoodEntry(db, cfg, keys, logins)
  /\ \A p \in Proc : Typed(p)

(* What the proofs use of a request's type. *)
LEMMA RequestFacts ==
  ASSUME NEW o, NEW r \in Requests(o)
  PROVE  /\ r.type = "SET_INT" => r.arg.field \in {"alphabet", "code_length"}
         /\ r.type = "SET_STR" => r.arg.field \in {"label", "contact"}
         /\ r.type \in {"SKIP", "UPDATE_LATEST"} => r.arg.num \in Nat
         /\ r.type = "GET_ALPHABET" => r.arg.num \in Nat /\ o.action # "k"
         /\ r.type \in {"STATE_NEW", "KEY_GENERATE", "STATE_STORE"} => o.action = "k"
         /\ r.type \in {"SET_SPASS", "GET_WARNINGS", "GET_NUM", "KEY_REMOVE", "GET_PROMPT",
                        "SKIP", "AUTHENTICATE", "CLEAR_RECENT_FAILURES", "PASS"}
              => o.action # "k"
         /\ r.type = "FLAG_ADD" => r.arg.flags = o.set
         /\ r.type = "FLAG_CLEAR" => r.arg.flags = o.clear
         /\ r.type = "GET_PASSCODE" /\ o.action = "k" => r.arg.cards = {1}
BY DEF Requests, KeyRequests, OtherRequests, OtherPlain, Common, Settings, Numbered, Req, SetInt,
       SetStr, Passcodes, card_ascii, UpdateLatest

(* Entries stay good as keys and logins grow. *)
LEMMA GoodGrows ==
  ASSUME NEW k \in Nat, NEW l \in Nat, NEW k2 \in Nat, NEW l2 \in Nat, k <= k2, l <= l2
  PROVE  /\ \A e : GoodEntry(e, cfg, k, l) => GoodEntry(e, cfg, k2, l2)
         /\ \A st, a : GoodState(st, a, cfg, k, l) => GoodState(st, a, cfg, k2, l2)
BY DEF GoodEntry, GoodState

(* A passcode before the last one of the last card has a successor. *)
LEMMA MaxCode ==
  ASSUME NEW e, e.code_length \in DOMAIN Codes
  PROVE  /\ codes_on_card(e) \in Nat \ {0}
         /\ max_card(e) \in Nat /\ max_code(e) \in Nat
         /\ max_code(e) <= NUMSPACE
<1>1. codes_on_card(e) \in Nat \ {0} /\ NUMSPACE \in Nat
  BY RequestAssumption DEF codes_on_card
<1>2. ASSUME NEW c \in Nat \ {0}, NEW n \in Nat
      PROVE  n \div c \in Nat /\ (n \div c) * c \in Nat /\ (n \div c) * c <= n
  BY <1>2
<1> QED  BY <1>1, <1>2 DEF max_code, max_card

(* A state fresh from the disk is good for any action. *)
LEMMA CalculateGood ==
  ASSUME NEW e, NEW a, NEW k, NEW l, GoodEntry(e, cfg, k, l)
  PROVE  GoodState(ppp_calculate(e), a, cfg, k, l)
<1>1. codes_on_card(e) \in Nat \ {0} /\ e.counter \in Nat
  BY MaxCode, RequestAssumption DEF GoodEntry, Number
<1>2. ASSUME NEW c \in Nat \ {0}, NEW n \in Nat
      PROVE  (n \div c) + 1 \in Nat /\ (n \div c) + 1 >= 1
  BY <1>2
<1> QED  BY <1>1, <1>2 DEF GoodState, ppp_calculate

(* So is a new state for -k. *)
LEMMA InitGood ==
  ASSUME cfg \in Config, NEW g \in Garbage, NEW k \in Nat, NEW l \in Nat
  PROVE  GoodState(state_init(g), "k", cfg, k, l)
<1>1. /\ cfg.passcode_def_length \in DOMAIN Codes /\ cfg.alphabet_def \in Printable(cfg)
      /\ g \subseteq Flags /\ NUMSPACE \in Nat
  BY RequestAssumption DEF Lengths, Printable, Printing
<1> DEFINE st == state_init(g)
<1>2. /\ DOMAIN st = {"e", "card", "new_key"} /\ DOMAIN st.e = Fields
      /\ st.card = 0 /\ st.new_key = FALSE
  BY DEF state_init, Fields
<1>3. st.e.flags \subseteq Flags
  <2>1. st.e.flags = (IF cfg.show_def THEN {"show"} ELSE g)
                     \cup (IF cfg.salt_def THEN {"salted"} ELSE {})
    BY DEF state_init
  <2> QED  BY <1>1, <2>1 DEF Flags
<1>4. /\ st.e.key = 0 /\ st.e.counter = 0 /\ st.e.latest = 0 /\ st.e.recent = 0
      /\ st.e.code_length = cfg.passcode_def_length /\ st.e.alphabet = cfg.alphabet_def
  BY DEF state_init
<1> HIDE DEF st
<1>5. GoodEntry(st.e, cfg, k, l)
  BY <1>1, <1>2, <1>3, <1>4 DEF GoodEntry, Number
<1>6. GoodState(st, "k", cfg, k, l)
  <2>1. st.new_key \in BOOLEAN  BY <1>2
  <2>2. st.card \in Nat  BY <1>2
  <2> QED  BY <1>2, <1>5, <2>1, <2>2 DEF GoodState
<1> QED  BY <1>6 DEF st

(* One field changed keeps an entry good if its new value is. *)
LEMMA FieldGood ==
  ASSUME NEW st, NEW a, NEW k \in Nat, NEW l \in Nat, GoodState(st, a, cfg, k, l),
         NEW f \in {"flags", "code_length", "alphabet", "label", "contact", "latest"}, NEW v,
         f = "flags" => v \subseteq Flags,
         f = "code_length" => v \in DOMAIN Codes,
         f = "alphabet" => v \in Printable(cfg),
         f = "latest" => v \in Nat
  PROVE  GoodState([st EXCEPT !.e[f] = v], a, cfg, k, l)
<1> DEFINE new == [st EXCEPT !.e[f] = v]
<1>1. /\ DOMAIN new = DOMAIN st /\ new.card = st.card /\ new.new_key = st.new_key
      /\ DOMAIN new.e = DOMAIN st.e /\ new.e[f] = v
      /\ \A g \in Fields \ {f} : new.e[g] = st.e[g]
  BY DEF GoodState, GoodEntry, Fields
<1> HIDE DEF new
<1>2. GoodEntry(new.e, cfg, k, l)
  BY <1>1 DEF GoodState, GoodEntry, Fields
<1> QED  BY <1>1, <1>2 DEF GoodState, new

(* An atomical request keeps the state good. *)
LEMMA ChangeGood ==
  ASSUME cfg \in Config, NEW p \in Proc, NEW o, req[p] \in Requests(o),
         req[p].type \in {"FLAG_ADD", "FLAG_CLEAR", "SET_INT", "SET_STR", "UPDATE_LATEST"},
         NEW st, NEW a, NEW k \in Nat, NEW l \in Nat, GoodState(st, a, cfg, k, l)
  PROVE  GoodState(Change(p, st).st, a, cfg, k, l)
<1> USE DEF Changed
<1> DEFINE r == req[p]
<1>1. CASE r.type \in {"FLAG_ADD", "FLAG_CLEAR"}
  <2>1. PICK f : Change(p, st) = ppp_set_flags(st, f)
    BY <1>1 DEF Change
  <2>2. Change(p, st).st = st \/ (f \subseteq Flags /\ Change(p, st).st = [st EXCEPT !.e.flags = f])
    BY <2>1 DEF ppp_set_flags
  <2> QED  BY <2>2, FieldGood
<1>2. CASE r.type = "SET_INT"
  <2>1. Change(p, st) = ppp_set_int(st, r.arg.field, r.arg.int)
    BY <1>2 DEF Change
  <2>2. r.arg.field \in {"alphabet", "code_length"}
    BY <1>2, RequestFacts
  <2>3. CASE r.arg.field = "alphabet"
    <3>1. Change(p, st).st = st \/ (r.arg.int \in Printable(cfg)
                                    /\ Change(p, st).st = [st EXCEPT !.e["alphabet"] = r.arg.int])
      BY <2>1, <2>3 DEF ppp_set_int, ppp_verify_alphabet, Printable, Printing
    <3> QED  BY <3>1, FieldGood
  <2>4. CASE r.arg.field = "code_length"
    <3>1. \/ Change(p, st).st = st
          \/ /\ ppp_verify_code_length(r.arg.int) = "OK"
             /\ Change(p, st).st = [st EXCEPT !.e["code_length"] = r.arg.int]
      BY <2>1, <2>4 DEF ppp_set_int
    <3>2. ppp_verify_code_length(r.arg.int) = "OK" =>
            r.arg.int \in 2..16 /\ ~(r.arg.int < cfg.passcode_min_length)
            /\ ~(r.arg.int > cfg.passcode_max_length)
      BY DEF ppp_verify_code_length
    <3>3. ppp_verify_code_length(r.arg.int) = "OK" => r.arg.int \in Lengths(cfg)
      BY <3>2, RequestAssumption DEF Lengths
    <3> QED  BY <3>1, <3>3, FieldGood, RequestAssumption
  <2> QED  BY <2>2, <2>3, <2>4
<1>3. CASE r.type = "SET_STR"
  <2>1. Change(p, st) = ppp_set_str(p, st, r.arg.field, r.arg.str)
    BY <1>3 DEF Change
  <2>2. r.arg.field \in {"label", "contact"}
    BY <1>3, RequestFacts
  <2>3. Change(p, st).st = st \/ Change(p, st).st = [st EXCEPT !.e[r.arg.field] = r.arg.str]
    BY <2>1 DEF ppp_set_str
  <2>4. GoodState([st EXCEPT !.e[r.arg.field] = r.arg.str], a, cfg, k, l)
    BY <2>2, FieldGood
  <2> QED  BY <2>3, <2>4
<1>4. CASE r.type = "UPDATE_LATEST"
  <2>1. Change(p, st) = set_latest(st, r.arg.num)
    BY <1>4 DEF Change
  <2>2. r.arg.num \in Nat
    BY <1>4, RequestFacts
  <2>3. Change(p, st).st \in {st, [st EXCEPT !.e.latest = r.arg.num]}
    BY <2>1 DEF set_latest
  <2> QED  BY <2>2, <2>3, FieldGood
<1> QED  BY <1>1, <1>2, <1>3, <1>4

(* A generated key keeps it good. *)
LEMMA KeyGood ==
  ASSUME NEW st0, NEW a, NEW k \in Nat, NEW l \in Nat, GoodState(st0, a, cfg, k, l)
  PROVE  GoodState([st0 EXCEPT !.e.key = k + 1, !.e.counter = 0,
                               !.e.latest = 0, !.new_key = TRUE], a, cfg, k + 1, l)
<1> DEFINE st == [st0 EXCEPT !.e.key = k + 1, !.e.counter = 0,
                             !.e.latest = 0, !.new_key = TRUE]
<1>1. /\ DOMAIN st = {"e", "card", "new_key"} /\ DOMAIN st.e = Fields
      /\ st.card = st0.card /\ st.new_key = TRUE
      /\ st.e.key = k + 1 /\ st.e.counter = 0 /\ st.e.latest = 0
      /\ \A f \in Fields \ {"key", "counter", "latest"} : st.e[f] = st0.e[f]
  BY DEF GoodState, GoodEntry, Fields
<1> HIDE DEF st
<1>2. GoodEntry(st.e, cfg, k + 1, l)
  BY <1>1, RequestAssumption DEF GoodState, GoodEntry, Fields, Number
<1>3. st.new_key \in BOOLEAN  BY <1>1
<1> QED  BY <1>1, <1>2, <1>3 DEF GoodState, st

(* Memory and result of an agent after a step of its request. *)
StateOK(st, p, k) == st # NULL => GoodState(st, options[p].action, cfg, k, logins)
WriteOK(r, e) == r = "OK" /\ e # NULL => GoodEntry(e, cfg, keys, logins)

(* What a request leaves in the memory of p's agent is of its type. *)
LEMMA RequestTypes ==
  ASSUME Arrays, TypeInv, NEW p \in Proc, Refuse(p) \/ request_execute(p)
  PROVE  /\ keys' \in 0..MAX_KEYS /\ keys' >= keys
         /\ StateOK(s'[p], p, keys')
         /\ at'[p] = "store" => WriteOK(out'[p].ret, out'[p].entry)
<1> DEFINE a == options[p].action
           K == keys' = keys
           Result == /\ StateOK(s'[p], p, keys)
                     /\ at'[p] = "store" => WriteOK(out'[p].ret, out'[p].entry)
<1>k. keys \in Nat /\ logins \in Nat
  BY RequestAssumption, UtilityAssumption DEF TypeInv, Typed
<1>a. ASSUME NEW st, NEW r, Answer(p, st, r), StateOK(st, p, keys)  PROVE Result
  BY <1>a DEF Answer, Reply, Arrays
<1>b. ASSUME NEW st, NEW r, NEW e, NEW l, Work(p, st, r, e, l), StateOK(st, p, keys),
             WriteOK(r, e)
      PROVE  K /\ Result
  BY <1>b DEF Work, Arrays
<1>c. StateOK(s[p], p, keys) /\ StateOK(NULL, p, keys) /\ WriteOK("OK", NULL)
  BY DEF StateOK, WriteOK, TypeInv, Typed
<1>d. db # NULL => StateOK(ppp_calculate(db), p, keys)
  BY CalculateGood DEF StateOK, TypeInv, Typed
<1>l. (Loaded => db # NULL) /\ ("OK" \in Loading => db # NULL /\ ~Exhausted(db))
  BY DEF Loaded, Loading, Reading, Success
<1> HIDE DEF Result
<1>q. at[p] = "request" /\ req[p] \in Requests(options[p])
  BY RequestKinds DEF TypeInv, Typed
<1>e. ASSUME Atomical(p),
             req[p].type \in {"FLAG_ADD", "FLAG_CLEAR", "SET_INT", "SET_STR", "UPDATE_LATEST"}
      PROVE  K /\ Result
  <2> DEFINE c(st) == Change(p, st)
  <2>1. ASSUME NEW st, GoodState(st, a, cfg, keys, logins)
        PROVE  GoodState(c(st).st, a, cfg, keys, logins)
    BY <1>k, <1>e, <1>q, <2>1, ChangeGood DEF TypeInv, Typed
  <2>2. CASE new_state[p] /\ Answer(p, c(s[p]).st, c(s[p]).ret) /\ UNCHANGED <<keys, new_state>>
    <3>1. StateOK(c(s[p]).st, p, keys)
      BY <2>1, <2>2 DEF TypeInv, Typed, StateOK
    <3> QED  BY <1>a, <2>2, <3>1
  <2>3. CASE (\E l \in Loading \ Success : Answer(p, NULL, l)) /\ UNCHANGED <<keys, new_state>>
    BY <1>a, <1>c, <2>3
  <2>4. CASE ~new_state[p] /\ Loaded
             /\ Work(p, c(ppp_calculate(db)).st, c(ppp_calculate(db)).ret,
                     c(ppp_calculate(db)).st.e, LockAfterLoad(p))
    <3>1. GoodState(c(ppp_calculate(db)).st, a, cfg, keys, logins)
      BY <1>l, <2>1, <2>4, CalculateGood DEF TypeInv, Typed
    <3>2. /\ StateOK(c(ppp_calculate(db)).st, p, keys)
          /\ \A r : WriteOK(r, c(ppp_calculate(db)).st.e)
      BY <3>1 DEF StateOK, WriteOK, GoodState
    <3> HIDE DEF c
    <3> QED  BY <1>b, <2>4, <3>2
  <2> QED  BY <1>e, <2>2, <2>3, <2>4 DEF Atomical
<1>f. ASSUME NEW r, NEW e, NEW x, Combo(p, r, e, x),
             "OK" \in Loading => WriteOK(r, e) /\ (r = "OK" => GoodEntry(x, cfg, keys, logins))
      PROVE  K /\ Result
  <2>1. CASE s[p] = NULL /\ Answer(p, NULL, "AGENT_ERR_NO_STATE") /\ UNCHANGED keys
    BY <1>a, <1>c, <2>1
  <2>2. CASE (\E l \in Loading \ Success : Answer(p, s[p], l)) /\ UNCHANGED keys
    BY <1>a, <1>c, <2>2
  <2>3. CASE "STATE_NUMSPACE" \in Loading /\ UNCHANGED keys
             /\ Answer(p, ppp_calculate(db), "STATE_NUMSPACE")
    <3>1. Loaded  BY <2>3 DEF Loaded, Success
    <3> QED  BY <1>a, <1>d, <1>l, <2>3, <3>1
  <2> DEFINE v == IF ppp_state_verify(db) # "OK" THEN "PPP_ERROR_POLICY"
                  ELSE IF "disabled" \in db.flags THEN "PPP_ERROR_DISABLED" ELSE r
             st == [ppp_calculate(db) EXCEPT !.e = IF v = "OK" THEN x ELSE db]
  <2>4. CASE "OK" \in Loading /\ Work(p, st, v, e, p)
    <3>2. v = "OK" => r = "OK"
      OBVIOUS
    <3>3. GoodState(ppp_calculate(db), a, cfg, keys, logins) /\ GoodEntry(db, cfg, keys, logins)
      BY <1>l, <2>4, CalculateGood DEF TypeInv, Typed
    <3> HIDE DEF v
    <3>4. GoodState(st, a, cfg, keys, logins)
      BY <1>f, <2>4, <3>2, <3>3 DEF GoodState
    <3>5. StateOK(st, p, keys) /\ WriteOK(v, e)
      BY <1>f, <2>4, <3>2, <3>4 DEF StateOK, WriteOK
    <3> HIDE DEF st
    <3> QED  BY <1>b, <2>4, <3>5
  <2> QED  BY <1>f, <2>1, <2>2, <2>3, <2>4 DEF Combo
<1>n. ASSUME NEW n, n \in Nat, n <= max_code(db), "OK" \in Loading
      PROVE  GoodEntry(Counter(n), cfg, keys, logins)
  <2>1. GoodEntry(db, cfg, keys, logins) /\ n \in Number /\ Counter(n) = [db EXCEPT !.counter = n]
    BY <1>l, <1>n, MaxCode, RequestAssumption DEF TypeInv, Typed, GoodEntry, Number, Counter
  <2> QED  BY <2>1 DEF GoodEntry, Fields
<1>1. CASE Refuse(p)
  <2>1. s'[p] = s[p] /\ keys' = keys /\ at'[p] # "store"
    BY <1>1, Refused DEF Arrays
  <2> QED  BY <1>c, <1>k, <2>1 DEF TypeInv, Typed
<1>2. CASE user_set(p) \/ state_drop(p) \/ get_field(p) \/ get_alphabet(p)
  <2>1. K /\ Result
    BY <1>2, <1>a, <1>c DEF user_set, state_drop, get_field, get_alphabet
  <2> QED  BY <2>1, <1>k DEF Result, TypeInv, Typed
<1>3. CASE state_new(p) \/ state_load(p)
  <2>1. ASSUME NEW g \in Garbage, state_new(p)  PROVE StateOK(state_init(g), p, keys)
    <3>1. a = "k"  BY <1>q, <2>1, RequestFacts DEF state_new, Handles
    <3> QED  BY <1>k, <3>1, InitGood DEF StateOK, TypeInv, Typed
  <2>2. K /\ Result
    BY <1>3, <1>a, <1>c, <1>d, <2>1 DEF state_new, state_load
  <2> QED  BY <2>2, <1>k DEF Result, TypeInv, Typed
<1>4. CASE key_generate(p)
  <2>1. CASE K
    <3>1. Result
      BY <1>4, <1>a, <1>c, <1>k, <2>1 DEF key_generate
    <3> QED  BY <2>1, <3>1, <1>k DEF Result, TypeInv, Typed
  <2>2. CASE ~K
    <3> DEFINE st == [s[p] EXCEPT !.e.key = keys + 1, !.e.counter = 0,
                                  !.e.latest = 0, !.new_key = TRUE]
    <3>1. s[p] # NULL /\ keys < MAX_KEYS /\ keys' = keys + 1 /\ Answer(p, st, "OK")
      BY <1>4, <2>2 DEF key_generate
    <3>2. GoodState(s[p], a, cfg, keys, logins)
      BY <3>1 DEF TypeInv, Typed
    <3>5. GoodState(st, a, cfg, keys + 1, logins)
      BY <1>k, <3>2, KeyGood
    <3> HIDE DEF st
    <3>6. StateOK(st, p, keys')
      BY <3>1, <3>5 DEF StateOK
    <3>7. s'[p] = st /\ at'[p] = "client"
      BY <3>1 DEF Answer, Reply, Arrays
    <3>8. keys' \in 0..MAX_KEYS /\ keys' >= keys
      BY <1>k, <3>1, RequestAssumption
    <3> QED  BY <3>6, <3>7, <3>8
  <2> QED  BY <2>1, <2>2
<1>5. CASE get_prompt(p)
  <2> DEFINE e == [s[p].e EXCEPT !.counter = 0]
             st == [ppp_calculate(e) EXCEPT !.new_key = s[p].new_key]
  <2>1. ASSUME s[p] # NULL  PROVE StateOK(st, p, keys)
    <3>1. GoodState(s[p], a, cfg, keys, logins)
      BY <2>1 DEF TypeInv, Typed
    <3>2. GoodEntry(e, cfg, keys, logins)
      BY <3>1, RequestAssumption DEF GoodState, GoodEntry, Fields, Number
    <3>3. GoodState(ppp_calculate(e), a, cfg, keys, logins)
      BY <3>2, CalculateGood
    <3> HIDE DEF e
    <3>4. /\ DOMAIN st = {"e", "card", "new_key"} /\ st.e = ppp_calculate(e).e
          /\ st.card = ppp_calculate(e).card /\ st.new_key = s[p].new_key
      BY DEF ppp_calculate
    <3> QED  BY <3>1, <3>3, <3>4 DEF StateOK, GoodState
  <2> HIDE DEF st
  <2>2. K /\ Result
    BY <1>5, <1>a, <1>c, <2>1 DEF get_prompt, st
  <2> QED  BY <2>2, <1>k DEF Result, TypeInv, Typed
<1>6. CASE flag_add(p) \/ flag_clear(p) \/ set_int(p) \/ set_str(p) \/ update_latest(p)
  <2>1. K /\ Result
    BY <1>6, <1>a, <1>c, <1>e
       DEF flag_add, flag_clear, set_int, set_str, update_latest, Handles
  <2> QED  BY <2>1, <1>k DEF Result, TypeInv, Typed
<1>7. CASE skip(p)
  <2> DEFINE n == req[p].arg.num
             r == IF db # NULL /\ n >= max_code(db) THEN "PPP_ERROR_RANGE" ELSE "OK"
  <2>1. n \in Nat /\ Combo(p, r, Counter(n), Counter(n))
    BY <1>7, <1>q, RequestFacts DEF skip, Handles
  <2>2. "OK" \in Loading /\ r = "OK" => n <= max_code(db)
    BY <1>l, <2>1, MaxCode DEF TypeInv, Typed, GoodEntry
  <2> HIDE DEF n, r
  <2>3. "OK" \in Loading /\ r = "OK" => GoodEntry(Counter(n), cfg, keys, logins)
    BY <1>n, <2>1, <2>2
  <2>4. K /\ Result
    BY <1>f, <2>1, <2>3 DEF WriteOK
  <2> QED  BY <2>4, <1>k DEF Result, TypeInv, Typed
<1>8. CASE authenticate(p)
  <2> DEFINE e == IF db = NULL THEN NULL ELSE Counter(db.counter + 1)
  <2>1. Combo(p, "OK", e, db)
    BY <1>8 DEF authenticate
  <2>2. ASSUME "OK" \in Loading  PROVE WriteOK("OK", e) /\ GoodEntry(db, cfg, keys, logins)
    <3>1. GoodEntry(db, cfg, keys, logins) /\ e = Counter(db.counter + 1)
      BY <1>l, <2>2 DEF TypeInv, Typed
    <3>2. db.counter \in Nat /\ db.counter + 1 \in Nat /\ db.counter + 1 <= max_code(db)
      BY <1>l, <2>2, <3>1, MaxCode, RequestAssumption DEF GoodEntry, Number, Exhausted
    <3> QED  BY <1>n, <2>2, <3>1, <3>2 DEF WriteOK
  <2> HIDE DEF e
  <2>3. K /\ Result
    BY <1>f, <2>1, <2>2
  <2> QED  BY <2>3, <1>k DEF Result, TypeInv, Typed
<1>9. CASE set_spass(p)
  <2> DEFINE c == ppp_set_spass(p, ppp_calculate(db), req[p].arg.spass)
  <2>1. ASSUME Loaded  PROVE StateOK(c.st, p, keys) /\ WriteOK("OK", c.st.e)
    <3>1. GoodState(ppp_calculate(db), a, cfg, keys, logins) /\ GoodEntry(db, cfg, keys, logins)
      BY <1>l, <2>1, CalculateGood DEF TypeInv, Typed
    <3>2. \/ c.st = ppp_calculate(db)
          \/ \E v : c.st = [ppp_calculate(db) EXCEPT !.e.spass = v]
      BY DEF ppp_set_spass, Changed
    <3>3. ASSUME NEW v
          PROVE  GoodState([ppp_calculate(db) EXCEPT !.e.spass = v], a, cfg, keys, logins)
      <4> DEFINE st == [ppp_calculate(db) EXCEPT !.e.spass = v]
      <4>1. /\ DOMAIN st = {"e", "card", "new_key"} /\ st.card = ppp_calculate(db).card
            /\ st.new_key = ppp_calculate(db).new_key /\ DOMAIN st.e = Fields
            /\ \A f \in Fields \ {"spass"} : st.e[f] = db[f]
        BY <3>1 DEF ppp_calculate, GoodEntry, Fields
      <4> HIDE DEF st
      <4>2. GoodEntry(st.e, cfg, keys, logins)
        BY <3>1, <4>1 DEF GoodEntry, Fields
      <4> QED  BY <3>1, <4>1, <4>2 DEF GoodState, st
    <3>4. GoodState(c.st, a, cfg, keys, logins)
      BY <3>1, <3>2, <3>3
    <3> QED  BY <3>4 DEF StateOK, WriteOK, GoodState
  <2> HIDE DEF c
  <2>2. K /\ Result
    BY <1>9, <1>a, <1>b, <1>c, <2>1 DEF set_spass, c
  <2> QED  BY <2>2, <1>k DEF Result, TypeInv, Typed
<1>10. CASE clear_recent_failures(p)
  <2>1. "OK" \in Loading => WriteOK("OK", [db EXCEPT !.recent = 0])
    BY <1>l, <1>k DEF TypeInv, Typed, GoodEntry, WriteOK, Fields
  <2>2. K /\ Result
    BY <1>10, <1>a, <1>b, <1>c, <2>1 DEF clear_recent_failures
  <2> QED  BY <2>2, <1>k DEF Result, TypeInv, Typed
<1>11. CASE key_remove(p)
  <2>1. K /\ Result
    BY <1>11, <1>a, <1>b, <1>c DEF key_remove
  <2> QED  BY <2>1, <1>k DEF Result, TypeInv, Typed
<1>12. CASE state_store(p)
  <2>1. s[p] # NULL => WriteOK("OK", s[p].e)
    BY DEF WriteOK, TypeInv, Typed, GoodState
  <2>2. K /\ Result
    BY <1>12, <1>a, <1>b, <1>c, <2>1 DEF state_store
  <2> QED  BY <2>2, <1>k DEF Result, TypeInv, Typed
<1> QED
  BY <1>1, <1>2, <1>3, <1>4, <1>5, <1>6, <1>7, <1>8, <1>9, <1>10, <1>11, <1>12
     DEF request_execute

(* A state under construction is in memory, and -k builds it. *)
LEMMA NewStateStep ==
  ASSUME Arrays, TypeInv, NEW p \in Proc, Refuse(p) \/ request_execute(p)
  PROVE  /\ new_state'[p] \in BOOLEAN
         /\ new_state'[p] => options[p].action = "k" /\ GoodState(s'[p], "k", cfg, keys', logins)
<1> DEFINE k == options[p].action = "k"
           Built(st) == GoodState(st, "k", cfg, keys, logins)
           Good == /\ new_state'[p] \in BOOLEAN
                   /\ new_state'[p] => k /\ GoodState(s'[p], "k", cfg, keys', logins)
<1>q. at[p] = "request" /\ req[p] \in Requests(options[p])
  BY RequestKinds DEF TypeInv, Typed
<1>k. keys \in Nat /\ logins \in Nat
  BY RequestAssumption, UtilityAssumption DEF TypeInv, Typed
<1>n. new_state[p] \in BOOLEAN /\ (new_state[p] => k /\ Built(s[p]))
  BY DEF TypeInv, Typed
<1> SUFFICES Good
  OBVIOUS
<1>a. ASSUME NEW st, NEW r, Answer(p, st, r), new_state[p] /\ k => st = s[p] \/ Built(st),
             UNCHANGED <<keys, new_state>>
      PROVE  Good
  <2>1. s'[p] = st
    BY <1>a DEF Answer, Arrays
  <2> HIDE DEF k, Built
  <2>2. new_state[p] => k /\ Built(s'[p])
    BY <1>a, <1>n, <2>1
  <2> QED  BY <1>a, <1>n, <2>2 DEF Built
<1>b. ASSUME new_state' = [new_state EXCEPT ![p] = FALSE]  PROVE Good
  BY <1>b DEF Arrays
<1>c. ASSUME ~k, new_state' = new_state  PROVE Good
  BY <1>c, <1>n
<1>d. ASSUME NEW r, Answer(p, NULL, r), UNCHANGED keys,
             new_state' = [new_state EXCEPT ![p] = @ /\ s[p] = NULL]
      PROVE Good
  <2>1. new_state'[p] = (new_state[p] /\ s[p] = NULL)  BY <1>d DEF Arrays
  <2>2. s'[p] = NULL  BY <1>d DEF Answer, Arrays
  <2> QED  BY <1>d, <1>n, <2>1, <2>2
<1> HIDE DEF Good, k, Built
<1>e. ASSUME Atomical(p),
             req[p].type \in {"FLAG_ADD", "FLAG_CLEAR", "SET_INT", "SET_STR", "UPDATE_LATEST"}
      PROVE  Good
  <2>1. CASE new_state[p]
    <3> DEFINE c == Change(p, s[p])
    <3>1. Answer(p, c.st, c.ret) /\ UNCHANGED <<keys, new_state>>
      BY <1>e, <2>1 DEF Atomical
    <3>2. Built(c.st)
      BY <1>e, <1>k, <1>n, <1>q, <2>1, ChangeGood DEF Built, TypeInv, Typed
    <3> QED  BY <1>a, <3>1, <3>2
  <2>2. CASE ~new_state[p]
    <3>1. UNCHANGED new_state  BY <1>e DEF Atomical
    <3> QED  BY <1>n, <2>2, <3>1 DEF Good
  <2> QED  BY <2>1, <2>2
<1>0. CASE Refuse(p)
  <2>1. s'[p] = s[p] /\ keys' = keys /\ new_state'[p] = new_state[p]
    BY <1>0, Refused
  <2> QED  BY <1>n, <2>1 DEF Good, Built
<1>1. CASE get_field(p) \/ get_alphabet(p)
  BY <1>1, <1>a DEF get_field, get_alphabet
<1>2. CASE user_set(p) \/ state_drop(p)
  BY <1>2, <1>a, <1>d DEF user_set, state_drop
<1>3. CASE state_new(p)
  <2>1. k
    BY <1>3, <1>q, RequestFacts DEF state_new, Handles, k
  <2>2. PICK g \in Garbage : Answer(p, state_init(g), "OK")
    BY <1>3 DEF state_new
  <2>3. new_state'[p] = TRUE /\ s'[p] = state_init(g) /\ keys' = keys
    BY <1>3, <2>2 DEF state_new, Answer, Arrays
  <2>4. GoodState(state_init(g), "k", cfg, keys, logins)
    BY <1>k, InitGood DEF TypeInv, Typed
  <2> QED  BY <2>1, <2>3, <2>4 DEF Good
<1>4. CASE state_load(p)
  BY <1>4, <1>b DEF state_load
<1>5. CASE key_generate(p)
  <2> DEFINE st == [s[p] EXCEPT !.e.key = keys + 1, !.e.counter = 0,
                                !.e.latest = 0, !.new_key = TRUE]
  <2>1. CASE keys' = keys
    BY <1>5, <1>a, <1>k, <2>1 DEF key_generate
  <2>2. CASE keys' # keys
    <3>1. keys' = keys + 1 /\ Answer(p, st, "OK") /\ UNCHANGED new_state
      BY <1>5, <2>2 DEF key_generate
    <3>2. new_state[p] => GoodState(st, "k", cfg, keys + 1, logins)
      BY <1>k, <1>n, KeyGood DEF Built
    <3> HIDE DEF st
    <3>3. s'[p] = st
      BY <3>1 DEF Answer, Arrays
    <3> QED  BY <1>n, <3>1, <3>2, <3>3 DEF Good
  <2> QED  BY <2>1, <2>2
<1>6. CASE flag_add(p) \/ flag_clear(p) \/ set_int(p) \/ set_str(p) \/ update_latest(p)
  BY <1>6, <1>a, <1>e
     DEF flag_add, flag_clear, set_int, set_str, update_latest, Handles
<1>7. CASE get_prompt(p) \/ skip(p) \/ authenticate(p) \/ clear_recent_failures(p)
           \/ set_spass(p)
  <2>1. ~k
    BY <1>7, <1>q, RequestFacts DEF k, get_prompt, skip, authenticate,
       clear_recent_failures, set_spass, Handles
  <2> QED  BY <1>7, <1>c, <2>1
           DEF get_prompt, skip, authenticate, clear_recent_failures, set_spass
<1>8. CASE key_remove(p)
  <2>1. ~k
    BY <1>8, <1>q, RequestFacts DEF k, key_remove, Handles
  <2> QED  BY <1>8, <1>b, <1>c, <2>1 DEF key_remove
<1>9. CASE state_store(p)
  BY <1>9, <1>a, <1>b DEF state_store
<1> QED
  BY <1>0, <1>1, <1>2, <1>3, <1>4, <1>5, <1>6, <1>7, <1>8, <1>9 DEF request_execute
-----------------------------------------------------------------------------
(* A script cut short or left out. *)
LEMMA IfSeq ==
  ASSUME NEW S, NEW c, NEW sq \in Seq(S)
  PROVE  If(c, sq) \in Seq(S)
BY DEF If

(* The settings a command line gives are requests of it. *)
LEMMA SettingsTyped ==
  ASSUME NEW o
  PROVE  ah_set_options(o) \in Seq(Settings(o)) /\ action_config(o) \in Seq(Settings(o))
<1>1. \A r \in Settings(o) : <<r>> \in Seq(Settings(o))
  OBVIOUS
<1>2. \A c : \A r \in Settings(o) : If(c, <<r>>) \in Seq(Settings(o))
  BY <1>1, IfSeq
<1>3. \A x, y \in Seq(Settings(o)) : x \o y \in Seq(Settings(o))
  OBVIOUS
<1>4. /\ Req("FLAG_ADD", [flags |-> o.set]) \in Settings(o)
      /\ Req("FLAG_CLEAR", [flags |-> o.clear]) \in Settings(o)
      /\ SetInt("code_length", o.code_length) \in Settings(o)
      /\ SetInt("alphabet", o.alphabet) \in Settings(o)
      /\ SetStr("label", o.label) \in Settings(o)
      /\ SetStr("contact", o.contact) \in Settings(o)
  BY DEF Settings
<1> QED  BY <1>2, <1>3, <1>4 DEF ah_set_options, action_config

(* What an action sends first is typed. *)
LEMMA PerformTyped ==
  ASSUME NEW o, NEW has
  PROVE  /\ perform_action(o, has) \in Seq(Requests(o))
         /\ o.action # "k" => perform_action(o, has) \in Seq(OtherPlain(o))
<1> DEFINE R == IF o.action = "k" THEN KeyRequests(o) ELSE OtherPlain(o)
<1>0. \A x, y \in Seq(R) : x \o y \in Seq(R)
  OBVIOUS
<1>1. Settings(o) \subseteq R
  BY DEF KeyRequests, OtherPlain
<1>2. ah_set_options(o) \in Seq(R) /\ action_config(o) \in Seq(R)
  BY <1>1, SettingsTyped
<1>3. CASE o.action = "k"
  <2>1. /\ <<Req("FLAG_GET", NULL), Req("STATE_DROP", NULL)>> \in Seq(R)
        /\ <<Req("STATE_NEW", NULL)>> \in Seq(R)
        /\ <<Req("SURE", NULL)>> \in Seq(R)
        /\ <<Req("FLAG_GET", NULL), Req("KEY_GENERATE", NULL), card_ascii(1),
             UpdateLatest(1), Req("READY", NULL), Req("STATE_STORE", NULL)>> \in Seq(R)
    BY <1>3 DEF KeyRequests, Common
  <2>2. /\ If(has, <<Req("FLAG_GET", NULL), Req("STATE_DROP", NULL)>>) \in Seq(R)
        /\ If(has, <<Req("SURE", NULL)>>) \in Seq(R)
    BY <2>1, IfSeq
  <2> HIDE DEF R
  <2>3. action_key_generate(o, has) \in Seq(R)
    BY <1>0, <1>2, <2>1, <2>2 DEF action_key_generate
  <2>4. perform_action(o, has) = action_key_generate(o, has)
    BY <1>3 DEF perform_action, NeedsState, WithSpec
  <2> QED  BY <1>3, <2>3, <2>4 DEF R, Requests
<1>4. CASE o.action # "k"
  <2> USE DEF OtherPlain, Common, Numbered
  <2>1. /\ <<Req("AUTHENTICATE", NULL)>> \in Seq(R)
        /\ <<Req("SURE", NULL), Req("STATE_DROP", NULL), Req("KEY_REMOVE", NULL)>> \in Seq(R)
        /\ <<Req("PASS", NULL)>> \in Seq(R)
        /\ <<Req("GET_WARNINGS", NULL)>> \in Seq(R)
        /\ <<Req("GET_NUM", NULL)>> \in Seq(R)
        /\ <<Req("GET_NUM", NULL), Req("GET_INT", NULL)>> \in Seq(R)
    BY <1>4
  <2>2. SetSpass(o.spass) \in Seq(R)
    <3>1. Req("SET_SPASS", [spass |-> o.spass]) \in R
      BY <1>4
    <3> HIDE DEF R
    <3> QED  BY <3>1 DEF SetSpass
  <2>3. /\ <<Req("GET_STR", [str |-> "key"]), Req("GET_NUM", NULL)>> \in Seq(R)
        /\ <<Req("FLAG_GET", NULL), Req("GET_INT", NULL),
             Req("GET_STR", [str |-> "contact"])>> \in Seq(R)
    BY <1>4
  <2>4. <<Req("GET_ALPHABET", [num |-> 0])>> \in Seq(R)
    BY <1>4
  <2> HIDE DEF OtherPlain, Common, Numbered, R
  <2>5. action_spass(o) \in Seq(R)
    BY <2>1, <2>2 DEF action_spass
  <2>6. o.action \in {"i", "I", "A"} => action_info(o) \in Seq(R)
    <3>1. ah_show_state \o ah_show_flags \in Seq(R)
      BY <1>0, <2>1, <2>3 DEF ah_show_state, ah_show_flags
    <3> QED  BY <2>3, <2>4, <3>1 DEF action_info, ah_show_keys
  <2>7. <<>> \in Seq(R)
    OBVIOUS
  <2>8. perform_action(o, has) \in Seq(R)
    BY <1>2, <1>4, <2>1, <2>5, <2>6, <2>7
       DEF perform_action, action_authenticate, action_key_remove, action_warnings
  <2>9. OtherPlain(o) \subseteq Requests(o) /\ R = OtherPlain(o)
    BY <1>4 DEF Requests, OtherRequests, R
  <2> QED  BY <2>8, <2>9
<1> QED  BY <1>3, <1>4

(* So is what follows a passcode specification. *)
LEMMA ParsedTyped ==
  ASSUME NEW o, o.action # "k", NEW st, GoodState(st, o.action, cfg, keys, logins)
  PROVE  Parsed(o, st) \in Seq(Requests(o))
<1> DEFINE R == Requests(o)
           x == ah_parse_code_spec(o.arg, st)
<1>1. st.card \in Nat /\ st.card >= 1 /\ st.e.latest \in Nat /\ st.e.counter \in Nat
      /\ codes_on_card(st.e) \in Nat
  BY MaxCode, RequestAssumption DEF GoodState, GoodEntry, Number
<1>2. x.item \in Nat /\ (x.what = "card" => x.item >= 1)
  BY <1>1 DEF ah_parse_code_spec
<1>3. \A n \in Nat : UpdateLatest(n) \in R /\ Req("SKIP", [num |-> n]) \in R
                     /\ Req("GET_PROMPT", [num |-> n]) \in R
  BY DEF Requests, OtherRequests, OtherPlain, Numbered, UpdateLatest
<1>4. \A cards \in SUBSET Nat : Passcodes(cards) \in R
  BY DEF Requests, OtherRequests, OtherPlain
<1> HIDE DEF R, x
<1>5. card_latex(x.item, st) \in Seq(R)
  <2>1. LATEX \in Nat \ {0} /\ x.item + LATEX \in Nat
    BY <1>2, UtilityAssumption
  <2>2. x.item..(x.item + LATEX - 1) \in SUBSET Nat
    BY <1>2, <2>1
  <2>a. Passcodes(x.item..(x.item + LATEX - 1)) \in R
    BY <1>4, <2>2
  <2>b. UpdateLatest(x.item + LATEX) \in R
    BY <1>3, <2>1
  <2>3. <<Passcodes(x.item..(x.item + LATEX - 1)), UpdateLatest(x.item + LATEX)>> \in Seq(R)
    BY <2>a, <2>b
  <2> QED  BY <2>3, IfSeq DEF card_latex
<1>6. x.what = "card" => (x.item - 1) * codes_on_card(st.e) \in Nat
  <2>1. \A i, c \in Nat : i >= 1 => (i - 1) * c \in Nat
    OBVIOUS
  <2> QED  BY <1>1, <1>2, <2>1
<1>7. {x.item} \in SUBSET Nat /\ {} \in SUBSET Nat
  BY <1>2
<1>8. /\ <<card_ascii(x.item), UpdateLatest(x.item)>> \in Seq(R)
      /\ <<Passcodes({})>> \in Seq(R)
      /\ <<Req("GET_PROMPT", [num |-> x.item])>> \in Seq(R)
      /\ <<Req("SKIP", [num |-> x.item])>> \in Seq(R)
      /\ x.what = "card" =>
            <<Req("SKIP", [num |-> (x.item - 1) * codes_on_card(st.e)])>> \in Seq(R)
  BY <1>2, <1>3, <1>4, <1>6, <1>7 DEF card_ascii
<1>9. Parsed(o, st) \in Seq(R)
  BY <1>5, <1>8 DEF Parsed, x
<1> QED  BY <1>9 DEF R

(* A getter is answered at once, without an error if there is a state. *)
LEMMA GetterStep ==
  ASSUME Arrays, NEW p \in Proc, Refuse(p) \/ request_execute(p), req[p].type \in Getters
  PROVE  /\ at'[p] \in {"client", "bye"} /\ s'[p] = s[p]
         /\ (status'[p] = "OK" => s[p] # NULL)
<1>1. Refuse(p) \/ get_field(p)
  BY DEF request_execute, Getters, Handles, user_set, state_new, state_load, state_drop,
         key_generate, get_prompt, get_alphabet, flag_add, flag_clear, set_int, set_str,
         set_spass, update_latest, skip, authenticate, clear_recent_failures, key_remove,
         state_store
<1>2. CASE Refuse(p)
  <2>1. s'[p] = s[p] /\ at'[p] \in {"client", "bye"} /\ status'[p] # "OK"
    BY <1>2, Refused DEF Arrays
  <2> QED  BY <2>1
<1>3. CASE get_field(p)
  BY <1>3 DEF get_field, Answer, Reply, Arrays
<1> QED  BY <1>1, <1>2, <1>3

(* What the utility does next is of its type. *)
LEMMA AfterTyped ==
  ASSUME TypeInv, NEW p \in Proc, at[p] = "client"
  PROVE  After(p) \in Seq(Requests(options[p]))
<1> DEFINE o == options[p]
           R == Requests(o)
<1>1. script[p] \in Seq(R) /\ <<>> \in Seq(R) /\ req[p] \in R
  BY DEF TypeInv, Typed
<1>2. req[p].type = "GET_NUM" /\ status[p] = "OK" => Parsed(o, s[p]) \in Seq(R)
  BY <1>1, ParsedTyped, RequestFacts DEF TypeInv, Typed, Getters
<1>3. \A has : perform_action(o, has) \in Seq(R)
  BY PerformTyped
<1>4. req[p].type = "GET_ALPHABET" =>
        <<Req("GET_ALPHABET", [num |-> req[p].arg.num + 1])>> \in Seq(R)
  <2> SUFFICES ASSUME req[p].type = "GET_ALPHABET"
               PROVE  Req("GET_ALPHABET", [num |-> req[p].arg.num + 1]) \in R
    OBVIOUS
  <2>1. req[p].arg.num + 1 \in Nat /\ o.action # "k"
    BY <1>1, RequestFacts
  <2> QED  BY <2>1 DEF Requests, OtherRequests, OtherPlain, Numbered
<1>5. req[p].type = "GET_WARNINGS" => <<Req("CLEAR_RECENT_FAILURES", NULL)>> \in Seq(R)
  <2> SUFFICES ASSUME req[p].type = "GET_WARNINGS"
               PROVE  Req("CLEAR_RECENT_FAILURES", NULL) \in R
    OBVIOUS
  <2>1. o.action # "k"
    BY <1>1, RequestFacts
  <2> QED  BY <2>1 DEF Requests, OtherRequests, OtherPlain
<1> HIDE DEF R
<1>6. After(p) \in Seq(R)
  BY <1>1, <1>2, <1>3, <1>4, <1>5 DEF After, If
<1> QED  BY <1>6 DEF R

(* A utility that has left is typed. *)
LEMMA LeaveTyped ==
  ASSUME Arrays, NEW p \in Proc, Leave(p)
  PROVE  Typed(p)'
<1>1. /\ at'[p] = "off" /\ s'[p] = NULL /\ new_state'[p] = FALSE /\ script'[p] = <<>>
      /\ req'[p].type = "NONE"
  BY DEF Leave, Req, Arrays
<1>2. new_state'[p] \in BOOLEAN  BY <1>1
<1>3. script'[p] \in Seq(Requests(options[p])')  BY <1>1
<1>4. req'[p].type \notin Getters  BY <1>1 DEF Getters
<1> QED  BY <1>1, <1>2, <1>3, <1>4 DEF Typed

(* The next request or question, or the end, keeps p typed. *)
LEMMA ContinueTyped ==
  ASSUME Arrays, TypeInv, NEW p \in Proc, NEW sc \in Seq(Requests(options[p])),
         Continue(p, sc)
  PROVE  Typed(p)'
<1>0. logins' = logins /\ keys' = keys /\ cfg' = cfg
  BY DEF Continue
<1>1. CASE sc = <<>>
  <2>1. Leave(p)
    BY <1>1 DEF Continue
  <2> QED  BY <2>1, LeaveTyped
<1>2. CASE sc # <<>> /\ Head(sc).type \in Questions
  <2>1. /\ at' = [at EXCEPT ![p] = "ask"] /\ script' = [script EXCEPT ![p] = sc]
        /\ UNCHANGED <<s, new_state, req, status, out, options>>
    BY <1>2 DEF Continue
  <2>2. at'[p] = "ask" /\ script'[p] = sc
    BY <2>1 DEF Arrays
  <2> QED  BY <1>0, <1>2, <2>1, <2>2 DEF TypeInv, Typed
<1>3. CASE sc # <<>> /\ Head(sc).type \notin Questions
  <2>1. /\ at' = [at EXCEPT ![p] = "request"] /\ script' = [script EXCEPT ![p] = Tail(sc)]
        /\ req' = [req EXCEPT ![p] = Head(sc)]
        /\ UNCHANGED <<s, new_state, status, out, options>>
    BY <1>3 DEF Continue
  <2>2. at'[p] = "request" /\ script'[p] = Tail(sc) /\ req'[p] = Head(sc)
    BY <2>1 DEF Arrays
  <2>3. Head(sc) \in Requests(options[p]) /\ Tail(sc) \in Seq(Requests(options[p]))
    BY <1>3
  <2> QED  BY <1>0, <2>1, <2>2, <2>3 DEF TypeInv, Typed
<1> QED  BY <1>1, <1>2, <1>3

(* A step of p's utility keeps p typed. *)
LEMMA UtilityTyped ==
  ASSUME Arrays, TypeInv, NEW p \in Proc, run_cli(p) \/ receive(p) \/ receive_last(p) \/ answer(p) \/ kill(p)
  PROVE  Typed(p)'
<1>1. CASE run_cli(p)
  <2>1. PICK o : /\ options' = [options EXCEPT ![p] = o]
                 /\ req' = [req EXCEPT ![p] =
                      IF o.username # NULL THEN Req("USER_SET", [str |-> o.username])
                                           ELSE Req("STATE_LOAD", NULL)]
                 /\ script' = [script EXCEPT ![p] =
                      If(o.username # NULL, <<Req("STATE_LOAD", NULL)>>)]
    BY <1>1 DEF run_cli
  <2>2. /\ at[p] = "off" /\ at' = [at EXCEPT ![p] = "request"]
        /\ UNCHANGED <<keys, logins, s, new_state, status, out>>
    BY <1>1 DEF run_cli
  <2>3. Common(o) \subseteq Requests(o)
    BY DEF Requests, KeyRequests, OtherRequests, OtherPlain
  <2>4. <<Req("STATE_LOAD", NULL)>> \in Seq(Requests(o))
    BY <2>3 DEF Common
  <2>5. If(o.username # NULL, <<Req("STATE_LOAD", NULL)>>) \in Seq(Requests(o))
    BY <2>4, IfSeq
  <2>6. options'[p] = o /\ at'[p] = "request" /\ script'[p] \in Seq(Requests(o))
    BY <2>1, <2>2, <2>5 DEF Arrays
  <2>7. req'[p] \in Requests(o) /\ req'[p].type \notin Getters
    BY <2>1, <2>3 DEF Arrays, Common, Req, Getters
  <2>8. s'[p] = NULL /\ new_state'[p] = FALSE
    BY <2>2 DEF TypeInv, Typed
  <2> QED  BY <2>6, <2>7, <2>8 DEF Typed
<1>2. CASE receive(p)
  BY <1>2, AfterTyped, ContinueTyped DEF receive
<1>3. CASE answer(p)
  <2>1. script[p] \in Seq(Requests(options[p])) /\ script[p] # <<>>
    BY <1>3 DEF answer, TypeInv, Typed
  <2>2. ASSUME NEW R, NEW sq \in Seq(R), sq # <<>>  PROVE Tail(sq) \in Seq(R)
    BY <2>2
  <2>3. Tail(script[p]) \in Seq(Requests(options[p]))
    BY <2>1, <2>2
  <2>4. <<>> \in Seq(Requests(options[p]))
    OBVIOUS
  <2>5. ASSUME Head(script[p]).type = "PASS", NEW pass \in Passwords
        PROVE  SetSpass(pass) \in Seq(Requests(options[p]))
    <3>1. Head(script[p]) \in Requests(options[p])
      BY <2>1
    <3>2. options[p].action # "k"
      BY <2>5, <3>1, RequestFacts
    <3>3. Req("SET_SPASS", [spass |-> pass]) \in Requests(options[p])
      BY <3>2 DEF Requests, OtherRequests, OtherPlain
    <3> QED  BY <3>3 DEF SetSpass
  <2> QED  BY <1>3, <2>3, <2>4, <2>5, ContinueTyped DEF answer
<1>4. CASE kill(p) \/ receive_last(p)
  BY <1>4, LeaveTyped DEF kill, receive_last
<1> QED  BY <1>1, <1>2, <1>3, <1>4

(* A step of p's agent keeps p typed. *)
LEMMA AgentTyped ==
  ASSUME Arrays, TypeInv, NEW p \in Proc, agent(p)
  PROVE  Typed(p)'
<1>0. UNCHANGED <<options, script, logins, cfg>>
  <2>1. CASE Refuse(p) \/ request_execute(p)
    BY <2>1, RequestKinds DEF agent, utilityVars, Moved, Worked
  <2>2. CASE Finish(p)
    BY <2>2 DEF agent, utilityVars, Finish
  <2> QED  BY <2>1, <2>2 DEF agent, request_handle
<1>1. CASE Refuse(p) \/ request_execute(p)
  <2>1. /\ keys' >= keys
        /\ s'[p] # NULL => GoodState(s'[p], options[p].action, cfg, keys', logins)
        /\ at'[p] = "store" /\ out'[p].ret = "OK" /\ out'[p].entry # NULL
             => GoodEntry(out'[p].entry, cfg, keys, logins)
    BY <1>1, RequestTypes DEF StateOK, WriteOK
  <2>2. /\ new_state'[p] \in BOOLEAN
        /\ new_state'[p] => options[p].action = "k" /\ GoodState(s'[p], "k", cfg, keys', logins)
    BY <1>1, NewStateStep
  <2>3. at[p] = "request" /\ at'[p] \in {"client", "store", "bye"} /\ req'[p] = req[p]
    BY <1>1, RequestKinds
  <2>4. at'[p] = "store" /\ out'[p].ret = "OK" /\ out'[p].entry # NULL
             => GoodEntry(out'[p].entry, cfg, keys', logins)
    <3>1. keys' \in 0..MAX_KEYS
      BY <1>1, RequestTypes
    <3>2. keys \in Nat /\ keys' \in Nat /\ logins \in Nat
      BY <3>1, RequestAssumption, UtilityAssumption DEF TypeInv
    <3> QED  BY <2>1, <3>2, GoodGrows
  <2>5. req[p].type \in Getters =>
          at'[p] \in {"client", "bye"} /\ (status'[p] = "OK" => s'[p] # NULL)
    BY <1>1, GetterStep
  <2>6. script[p] \in Seq(Requests(options[p])) /\ req[p] \in Requests(options[p])
    BY <2>3 DEF TypeInv, Typed
  <2> QED  BY <1>0, <2>1, <2>2, <2>3, <2>4, <2>5, <2>6 DEF Typed
<1>2. CASE Finish(p)
  <2>1. at[p] = "store" /\ at'[p] = "client" /\ UNCHANGED <<keys, s, new_state, req, out>>
    BY <1>2 DEF Finish, Reply, Arrays
  <2> QED  BY <1>0, <2>1 DEF TypeInv, Typed
<1> QED  BY <1>1, <1>2 DEF agent, request_handle

(* The types hold initially. *)
LEMMA TypeInit == Init => TypeInv
<1> SUFFICES ASSUME Init  PROVE TypeInv
  OBVIOUS
<1>1. NULL # db => GoodEntry(db, cfg, 0, 0)
  <2> SUFFICES ASSUME NEW n \in Used, db = OldEntry(cfg, n)  PROVE GoodEntry(db, cfg, 0, 0)
    BY DEF Init
  <2>1. /\ cfg \in Config /\ cfg.passcode_def_length \in DOMAIN Codes
        /\ cfg.alphabet_def \in Printable(cfg) /\ n \in Number
    BY RequestAssumption, UtilityAssumption DEF Init, Lengths, Number, Printable, Printing
  <2>2. /\ DOMAIN db = Fields /\ db.key = 0 /\ db.counter = n /\ db.latest = 1
        /\ db.recent = 0 /\ db.flags = {"show"} /\ db.alphabet = cfg.alphabet_def
        /\ db.code_length = cfg.passcode_def_length
    BY DEF OldEntry, Fields
  <2> QED  BY <2>1, <2>2 DEF GoodEntry, Flags
<1>2. ASSUME NEW p \in Proc  PROVE Typed(p)
  <2>1. /\ at[p] = "off" /\ s[p] = NULL /\ new_state[p] = FALSE /\ script[p] = <<>>
        /\ req[p].type = "NONE"
    BY DEF Init, Req
  <2>2. new_state[p] \in BOOLEAN  BY <2>1
  <2>3. script[p] \in Seq(Requests(options[p]))  BY <2>1
  <2>4. req[p].type \notin Getters  BY <2>1 DEF Getters
  <2> QED  BY <2>1, <2>2, <2>3, <2>4 DEF Typed
<1> QED  BY <1>1, <1>2, RequestAssumption, UtilityAssumption DEF TypeInv, Init

(* Every step keeps them. *)
LEMMA TypeStep == Arrays /\ TypeInv /\ [Next]_vars => TypeInv'
<1> SUFFICES ASSUME Arrays, TypeInv, [Next]_vars  PROVE TypeInv'
  OBVIOUS
<1>0. /\ MAX_KEYS \in Nat /\ MAX_LOGINS \in Nat /\ MAX_COMMANDS \in Nat
      /\ keys \in Nat /\ logins \in Nat
  BY RequestAssumption, UtilityAssumption DEF TypeInv
<1>1. CASE UNCHANGED vars
  BY <1>1 DEF vars, agentVars, utilityVars, TypeInv, Typed
<1>2. CASE login
  <2>1. /\ logins' = logins + 1 /\ logins' \in 0..MAX_LOGINS /\ db # NULL
        /\ UNCHANGED <<cfg, keys, at, s, new_state, req, status, out, options, script, commands>>
        /\ ~Exhausted(db)
    BY <1>0, <1>2 DEF login, ppp_state_verify
  <2>2. PICK failed \in 0..1 : db' = [db EXCEPT !.counter = @ + 1, !.recent = @ + failed]
    BY <1>2 DEF login
  <2>3. GoodEntry(db, cfg, keys, logins)
    BY <2>1 DEF TypeInv
  <2>4. db.counter + 1 \in Number
    BY <2>1, <2>3, MaxCode, RequestAssumption DEF GoodEntry, Number, Exhausted
  <2>5. db.recent + failed \in 0..(logins + 1)
    BY <1>0, <2>3 DEF GoodEntry
  <2>6. /\ DOMAIN db' = Fields /\ db'.counter = db.counter + 1 /\ db'.recent = db.recent + failed
        /\ \A f \in Fields \ {"counter", "recent"} : db'[f] = db[f]
    BY <2>2, <2>3 DEF GoodEntry, Fields
  <2>7. GoodEntry(db', cfg, keys, logins')
    BY <2>1, <2>3, <2>4, <2>5, <2>6 DEF GoodEntry, Fields
  <2>8. ASSUME NEW q \in Proc  PROVE Typed(q)'
    <3>1. Typed(q)  BY DEF TypeInv
    <3>2. logins <= logins' /\ logins' \in Nat  BY <1>0, <2>1
    <3> QED  BY <1>0, <2>1, <3>1, <3>2, GoodGrows DEF Typed
  <2> QED  BY <2>1, <2>7, <2>8 DEF TypeInv
<1>3. ASSUME NEW p \in Proc,
             run_cli(p) \/ receive(p) \/ receive_last(p) \/ answer(p) \/ agent(p) \/ kill(p)
      PROVE  TypeInv'
  <2>1. Typed(p)'
    BY <1>3, AgentTyped, UtilityTyped
  <2>2. Frame(p)
    BY <1>3, AgentArrays, UtilityArrays
  <2>3. logins' = logins /\ cfg' = cfg /\ commands' \in 0..MAX_COMMANDS
        /\ keys' \in 0..MAX_KEYS /\ keys' >= keys
    <3>1. CASE run_cli(p)
      BY <1>0, <3>1 DEF run_cli, TypeInv
    <3>2. CASE receive(p) \/ receive_last(p) \/ answer(p) \/ kill(p)
      BY <1>0, <3>2 DEF receive, receive_last, answer, kill, Continue, TypeInv
    <3>3. CASE agent(p)
      <4>1. logins' = logins /\ commands' = commands
        BY <3>3 DEF agent, utilityVars
      <4>2. CASE Refuse(p) \/ request_execute(p)
        <5>1. cfg' = cfg  BY <4>2, RequestKinds DEF Moved, Worked
        <5> QED  BY <4>1, <4>2, <5>1, RequestTypes DEF TypeInv
      <4>3. CASE Finish(p)
        BY <1>0, <4>1, <4>3 DEF Finish, TypeInv
      <4> QED  BY <3>3, <4>2, <4>3 DEF agent, request_handle
    <3> QED  BY <1>3, <3>1, <3>2, <3>3
  <2>4. db' # NULL => GoodEntry(db', cfg, keys', logins')
    <3>1. ~login
      BY <1>0, <2>3 DEF login
    <3>2. db' # db => \E q \in Proc : at[q] = "store" /\ out[q].ret = "OK" /\ db' = out[q].entry
      BY <3>1, WriterKinds
    <3>3. db' # NULL => GoodEntry(db', cfg, keys, logins)
      BY <3>2 DEF TypeInv, Typed
    <3>4. keys' \in Nat /\ logins <= logins'  BY <1>0, <2>3
    <3> QED  BY <1>0, <2>3, <3>3, <3>4, GoodGrows
  <2>6. ASSUME NEW q \in Proc  PROVE Typed(q)'
    <3>1. Typed(q)  BY DEF TypeInv
    <3>2. keys' \in Nat  BY <1>0, <2>3
    <3>3. CASE q # p
      BY <1>0, <2>2, <2>3, <3>1, <3>2, <3>3, GoodGrows DEF Typed, Frame
    <3> QED  BY <2>1, <3>3
  <2> QED  BY <2>3, <2>4, <2>6 DEF TypeInv
<1> QED  BY <1>1, <1>2, <1>3 DEF Next

(* The type invariant of the utilities, inductive with the arrays. *)
THEOREM UtilityInvariant == Spec => [](LockInv /\ TypeInv)
<1>1. Init => TypeInv
  BY TypeInit
<1>2. LockInv /\ TypeInv /\ [Next]_vars => TypeInv'
  BY TypeStep DEF LockInv
<1> QED  BY <1>1, <1>2, LockInvariant, PTL DEF Spec

(***************************************************************************)
(* UtilTypeOK: entries keep their types for any command lines; the counter *)
(* in particular never leaves the passcode space (ppp_skip, ppp_increment).*)
(***************************************************************************)
THEOREM UtilityTyping == Spec => []UtilTypeOK
<1>1. ASSUME NEW e, NEW k, NEW l, GoodEntry(e, cfg, k, l), k \in 0..MAX_KEYS, l \in 0..MAX_LOGINS
      PROVE  Fits(e)
  <2>1. /\ e.key \in 0..MAX_KEYS /\ e.counter \in Number /\ e.latest \in Nat
        /\ e.recent \in 0..MAX_LOGINS /\ e.flags \in SUBSET Flags
        /\ e.code_length \in DOMAIN Codes /\ e.alphabet \in Alphabets
    BY <1>1, RequestAssumption, UtilityAssumption DEF GoodEntry, Printable
  <2> QED  BY <2>1 DEF Fits, Entry
<1>2. ASSUME LockInv, TypeInv  PROVE UtilTypeOK
  <2>1. cfg \in Config /\ keys \in 0..MAX_KEYS /\ commands \in 0..MAX_COMMANDS
        /\ logins \in 0..MAX_LOGINS
    BY <1>2 DEF TypeInv
  <2>2. lock \in Proc \cup {Free} /\ at \in [Proc -> At] /\ new_state \in [Proc -> BOOLEAN]
    BY <1>2 DEF LockInv, LockStored, Arrays, TypeInv, Typed
  <2>3. db # NULL => Fits(db)
    BY <1>1, <1>2 DEF TypeInv
  <2>4. \A p \in Proc : s[p] # NULL => Fits(s[p].e)
    BY <1>1, <1>2 DEF TypeInv, Typed, GoodState
  <2> QED  BY <2>1, <2>2, <2>3, <2>4 DEF UtilTypeOK
<1> QED  BY <1>2, UtilityInvariant, PTL
-----------------------------------------------------------------------------
(***************************************************************************)
(* Keys.  A key an agent has generated and not stored, or is storing, is   *)
(* neither on disk nor another agent's: so a store of the key on disk is   *)
(* never one of STATE_STORE, and the fields of other requests bound what   *)
(* may change.                                                             *)
(***************************************************************************)
Live(p) == s[p] # NULL \/ new_state[p]

(* p's agent is about to store under the lock. *)
Storing(p, t) == at[p] = "store" /\ lock = p /\ req[p].type = t

HasNew(p) == Live(p) /\ s[p].new_key

(* k is p's new key. *)
NewKey(p, k) == \/ HasNew(p) /\ k = s[p].e.key
                \/ Storing(p, "STATE_STORE") /\ k = out[p].entry.key

KeyPart(p) ==
  /\ at[p] = "store" /\ req[p].type = "STATE_STORE" => ~Live(p)
  /\ at[p] = "store" /\ req[p].type = "KEY_REMOVE" => out[p].entry = NULL
  /\ Storing(p, "UPDATE_LATEST") => out[p].entry.latest >= db.latest

KeysFresh ==
  \A p \in Proc : \A k : NewKey(p, k) =>
    /\ k \in 1..keys
    /\ db # NULL => db.key # k
    /\ \A q \in Proc \ {p} : ~NewKey(q, k)

KeyInv == (\A p \in Proc : KeyPart(p)) /\ KeysFresh

(* An atomical request changes neither the key nor that it is new, and the *)
(* latest card only if it is UPDATE_LATEST.                                *)
LEMMA ChangeKeepsKey ==
  ASSUME NEW p \in Proc, NEW o, req[p] \in Requests(o),
         req[p].type \in {"FLAG_ADD", "FLAG_CLEAR", "SET_INT", "SET_STR", "UPDATE_LATEST"},
         NEW st, NEW a, NEW k, NEW l, GoodState(st, a, cfg, k, l)
  PROVE  /\ Change(p, st).st.new_key = st.new_key /\ Change(p, st).st.e.key = st.e.key
         /\ \/ Change(p, st).st.e.latest = st.e.latest
            \/ req[p].type = "UPDATE_LATEST" /\ Change(p, st).st.e.latest = req[p].arg.num
<1>0. DOMAIN st = {"e", "card", "new_key"} /\ "key" \in DOMAIN st.e /\ "latest" \in DOMAIN st.e
  BY DEF GoodState, GoodEntry, Fields
<1>1. Change(p, st).st.e.key = st.e.key
  <2>1. "key" \notin OwnFields(req[p])
    BY RequestFacts DEF OwnFields
  <2> QED  BY <1>0, <2>1, ChangeOwn
<1>2. Change(p, st).st.new_key = st.new_key
  <2>1. \A f, v : [st EXCEPT !.e[f] = v].new_key = st.new_key
    BY <1>0
  <2> USE DEF Changed
  <2>2. CASE req[p].type \in {"FLAG_ADD", "FLAG_CLEAR"}
    <3>1. \E f : Change(p, st) = ppp_set_flags(st, f)
      BY <2>2 DEF Change
    <3> QED  BY <2>1, <3>1 DEF ppp_set_flags
  <2>3. CASE req[p].type = "SET_INT"
    <3>1. Change(p, st) = ppp_set_int(st, req[p].arg.field, req[p].arg.int)
      BY <2>3 DEF Change
    <3> QED  BY <2>1, <3>1 DEF ppp_set_int
  <2>4. CASE req[p].type = "SET_STR"
    <3>1. Change(p, st) = ppp_set_str(p, st, req[p].arg.field, req[p].arg.str)
      BY <2>4 DEF Change
    <3> QED  BY <2>1, <3>1 DEF ppp_set_str
  <2>5. CASE req[p].type = "UPDATE_LATEST"
    <3>1. Change(p, st) = set_latest(st, req[p].arg.num)
      BY <2>5 DEF Change
    <3> QED  BY <2>1, <3>1 DEF set_latest
  <2> QED  BY <2>2, <2>3, <2>4, <2>5
<1>3. \/ Change(p, st).st.e.latest = st.e.latest
      \/ req[p].type = "UPDATE_LATEST" /\ Change(p, st).st.e.latest = req[p].arg.num
  <2>1. CASE req[p].type # "UPDATE_LATEST"
    <3>1. "latest" \notin OwnFields(req[p])
      BY <2>1, RequestFacts DEF OwnFields
    <3> QED  BY <1>0, <3>1, ChangeOwn
  <2>2. CASE req[p].type = "UPDATE_LATEST"
    <3>1. Change(p, st) = set_latest(st, req[p].arg.num)
      BY <2>2 DEF Change
    <3> QED  BY <1>0, <2>2, <3>1 DEF set_latest, Changed
  <2> QED  BY <2>1, <2>2
<1> QED  BY <1>1, <1>2, <1>3

(* The latest card of a state is kept, or the one p notes. *)
Latest(p, st) == \/ st.e.latest = s[p].e.latest
                 \/ req[p].type = "UPDATE_LATEST" /\ st.e.latest = req[p].arg.num

(* What p's request makes of its new key. *)
KeepsKey(p) == /\ Live(p)' => \/ s'[p].new_key = FALSE
                              \/ Live(p) /\ s'[p].new_key = s[p].new_key
                                 /\ s'[p].e.key = s[p].e.key /\ Latest(p, s'[p])
                              \/ /\ s'[p].e.key = keys + 1 /\ keys' = keys + 1
                                 /\ s'[p].e.latest = 0 /\ req[p].type = "KEY_GENERATE"
               /\ keys' = keys \/ keys' = keys + 1

(* What it is about to store. *)
Stores(p) == at'[p] = "store" =>
    /\ req[p].type = "STATE_STORE" =>
         ~Live(p)' /\ (lock' = p => HasNew(p) /\ out'[p].entry = s[p].e)
    /\ req[p].type = "KEY_REMOVE" => out'[p].entry = NULL
    /\ req[p].type = "UPDATE_LATEST" =>
         /\ out'[p].entry.latest >= db.latest
         /\ db # NULL /\ out'[p].entry.latest \in {db.latest, req[p].arg.num}

(* Every request keeps or makes new keys, and stores, as these say. *)
LEMMA RequestKeys ==
  ASSUME LockInv, TypeInv, NEW p \in Proc, Refuse(p) \/ request_execute(p)
  PROVE  KeepsKey(p) /\ Stores(p)
<1> DEFINE Good == KeepsKey(p) /\ Stores(p)
           Same(st) == st = s[p] \/ (Live(p) /\ st.new_key = s[p].new_key
                                              /\ st.e.key = s[p].e.key /\ Latest(p, st))
           Old(st) == st.new_key = FALSE
           Gone(st) == st = NULL /\ ~new_state'[p]
           Kept(st) == Same(st) \/ Old(st) \/ Gone(st)
           Plain == req[p].type \notin {"STATE_STORE", "KEY_REMOVE", "UPDATE_LATEST"}
<1>q. at[p] = "request" /\ req[p] \in Requests(options[p]) /\ lock # p /\ Arrays
  BY RequestKinds DEF TypeInv, Typed, LockInv, LockStored
<1>n. new_state[p] \in BOOLEAN /\ (new_state[p] => options[p].action = "k")
  BY DEF TypeInv, Typed
<1>a. ASSUME NEW st, NEW r, Answer(p, st, r), Kept(st), keys' = keys,
             new_state'[p] => new_state[p] \/ Old(st)
      PROVE  Good
  <2>1. s'[p] = st /\ at'[p] = "client"
    BY <1>a, <1>q DEF Answer, Reply, Arrays
  <2> QED  BY <1>a, <2>1 DEF KeepsKey, Stores, Live, Latest
<1>b. ASSUME NEW st, NEW r, NEW e, NEW l, Work(p, st, r, e, l), Kept(st), Plain,
             new_state'[p] => new_state[p]
      PROVE  Good
  <2>1. s'[p] = st /\ keys' = keys
    BY <1>b, <1>q DEF Work, Arrays
  <2> QED  BY <1>b, <2>1 DEF KeepsKey, Stores, Live, Latest
<1>c. \A e : Old(ppp_calculate(e))
  BY DEF ppp_calculate
<1>d. UNCHANGED new_state => (new_state'[p] <=> new_state[p])
  OBVIOUS
<1>g. ASSUME NEW k \in Nat, NEW l, NEW a, GoodEntry(db, cfg, k, l)  PROVE db.latest \in Nat
  BY <1>g DEF GoodEntry
<1>s. Same(s[p])
  OBVIOUS
<1>l. Loaded => db # NULL
  BY DEF Loaded, Loading, Reading, Success
<1> HIDE DEF Good, Same, Old, Gone
<1>0. CASE Refuse(p)
  <2>1. s'[p] = s[p] /\ UNCHANGED <<keys, new_state>> /\ at'[p] # "store"
    BY <1>0, <1>q, Refused DEF Arrays
  <2> QED  BY <2>1 DEF Good, KeepsKey, Stores, Live, Latest
<1>1. CASE get_field(p) \/ get_alphabet(p)
  BY <1>1, <1>a, <1>d, <1>s DEF get_field, get_alphabet, Good
<1>2. CASE user_set(p) \/ state_drop(p)
  <2>1. CASE Answer(p, s[p], "AGENT_ERR_INIT_USER") /\ UNCHANGED <<keys, new_state>>
    BY <1>a, <1>d, <1>s, <2>1 DEF Good
  <2>2. ASSUME NEW r, Answer(p, NULL, r), keys' = keys,
               new_state' = [new_state EXCEPT ![p] = @ /\ s[p] = NULL]
        PROVE  Good
    <3>1. new_state'[p] = (new_state[p] /\ s[p] = NULL)
      BY <1>q, <2>2 DEF Arrays
    <3>2. CASE s[p] = NULL
      BY <1>a, <1>s, <2>2, <3>1, <3>2
    <3>3. CASE s[p] # NULL
      <4>1. Gone(NULL)  BY <3>1, <3>3 DEF Gone
      <4> QED  BY <1>a, <2>2, <3>1, <4>1
    <3> QED  BY <3>2, <3>3
  <2> QED  BY <1>2, <2>1, <2>2 DEF user_set, state_drop, Good
<1>3. CASE state_new(p)
  <2>1. \A g : Old(state_init(g))
    BY DEF state_init, Old
  <2> QED  BY <1>3, <1>a, <2>1 DEF state_new, Good
<1>4. CASE state_load(p)
  <2>1. new_state'[p] = FALSE /\ s[p] = NULL /\ keys' = keys
    BY <1>4, <1>q DEF state_load, Arrays
  <2> QED  BY <1>4, <1>a, <1>c, <1>s, <2>1 DEF state_load, Good
<1>5. CASE key_generate(p)
  <2> DEFINE st == [s[p] EXCEPT !.e.key = keys + 1, !.e.counter = 0,
                                !.e.latest = 0, !.new_key = TRUE]
  <2>1. CASE s[p] # NULL /\ keys' = keys + 1 /\ Answer(p, st, "OK")
    <3>1. s'[p] = st /\ at'[p] = "client"
      BY <1>q, <2>1 DEF Answer, Reply, Arrays
    <3>2. st.e.key = keys + 1 /\ st.e.latest = 0 /\ req[p].type = "KEY_GENERATE"
      BY <1>5, <2>1 DEF key_generate, Handles, TypeInv, Typed, GoodState, GoodEntry, Fields
    <3> HIDE DEF st
    <3> QED  BY <2>1, <3>1, <3>2 DEF KeepsKey, Stores
  <2>2. CASE keys' = keys /\ \E r : Answer(p, s[p], r) /\ UNCHANGED new_state
    BY <1>a, <1>d, <1>s, <2>2 DEF Good
  <2> QED  BY <1>5, <2>1, <2>2 DEF key_generate
<1>6. CASE get_prompt(p)
  <2> DEFINE st == [ppp_calculate([s[p].e EXCEPT !.counter = 0]) EXCEPT !.new_key = s[p].new_key]
  <2>1. s[p] # NULL => Same(st)
    BY DEF ppp_calculate, Same, Live, Latest, TypeInv, Typed, GoodState, GoodEntry, Fields
  <2> HIDE DEF st
  <2> QED  BY <1>6, <1>a, <1>d, <1>s, <2>1 DEF get_prompt, Good, st
<1>e. ASSUME Atomical(p),
             req[p].type \in {"FLAG_ADD", "FLAG_CLEAR", "SET_INT", "SET_STR", "UPDATE_LATEST"}
      PROVE  Good
  <2>0. keys \in Nat /\ logins \in Nat
    BY RequestAssumption, UtilityAssumption DEF TypeInv
  <2>1. CASE new_state[p]
    <3> DEFINE c == Change(p, s[p])
    <3>1. Answer(p, c.st, c.ret) /\ UNCHANGED <<keys, new_state>>
      BY <1>e, <2>1 DEF Atomical
    <3>2. GoodState(s[p], "k", cfg, keys, logins)
      BY <2>1 DEF TypeInv, Typed
    <3>3. Same(c.st)
      BY <1>e, <1>q, <2>1, <3>2, ChangeKeepsKey DEF Same, Live, Latest
    <3> QED  BY <1>a, <1>d, <3>1, <3>3
  <2>2. CASE /\ ~new_state[p] /\ UNCHANGED <<keys, new_state>>
             /\ \E l \in Loading \ Success : Answer(p, NULL, l)
    <3>1. Gone(NULL)  BY <2>2 DEF Gone
    <3> QED  BY <1>a, <1>d, <2>2, <3>1
  <2>3. CASE /\ ~new_state[p] /\ Loaded /\ UNCHANGED new_state
             /\ LET c == Change(p, ppp_calculate(db))
                IN Work(p, c.st, c.ret, c.st.e, LockAfterLoad(p))
    <3> DEFINE st == ppp_calculate(db)
               c == Change(p, st)
    <3>1. Work(p, c.st, c.ret, c.st.e, LockAfterLoad(p)) /\ UNCHANGED new_state
      BY <2>3
    <3>2. GoodState(st, options[p].action, cfg, keys, logins) /\ GoodEntry(db, cfg, keys, logins)
      BY <1>l, <2>3, CalculateGood DEF TypeInv
    <3>3. Old(st)  BY <1>c
    <3>4. Old(c.st)
      BY <1>e, <1>q, <3>2, <3>3, ChangeKeepsKey DEF Old
    <3>5. CASE req[p].type # "UPDATE_LATEST"
      <4>1. Plain  BY <1>e, <3>5
      <4> HIDE DEF c, Plain
      <4> QED  BY <1>b, <1>d, <3>1, <3>4, <4>1
    <3>6. CASE req[p].type = "UPDATE_LATEST"
      <4>1. c = set_latest(st, req[p].arg.num)
        BY <3>6 DEF Change
      <4>2. req[p].arg.num \in Nat /\ db.latest \in Nat
        BY <1>q, <3>2, <3>6, RequestFacts DEF GoodEntry
      <4>3. DOMAIN st = {"e", "card", "new_key"} /\ "latest" \in DOMAIN st.e /\ st.e = db
        BY <3>2 DEF GoodState, GoodEntry, Fields, ppp_calculate
      <4> HIDE DEF st, c
      <4>4. c.st.e.latest >= db.latest /\ c.st.e.latest \in {db.latest, req[p].arg.num}
        BY <4>1, <4>2, <4>3 DEF set_latest, RefusesLatest, Changed
      <4>5. s'[p] = c.st /\ out'[p].entry = c.st.e /\ UNCHANGED keys
        BY <1>q, <3>1 DEF Work, Arrays
      <4>6. db # NULL  BY <1>l, <2>3
      <4> QED  BY <1>d, <3>1, <3>4, <3>6, <4>4, <4>5, <4>6 DEF Good, KeepsKey, Stores, Old, Live
    <3> QED  BY <3>5, <3>6
  <2> QED  BY <1>e, <2>1, <2>2, <2>3 DEF Atomical
<1>f. ASSUME NEW r, NEW e, NEW x, Combo(p, r, e, x), Plain, UNCHANGED new_state
      PROVE  Good
  <2>1. CASE \E st, y : Answer(p, st, y) /\ keys' = keys /\ st \in {s[p], ppp_calculate(db)}
    BY <1>a, <1>c, <1>d, <1>f, <1>s, <2>1
  <2>2. ASSUME NEW y, NEW v, Work(p, [ppp_calculate(db) EXCEPT !.e = y], v, e, p)  PROVE Good
    <3>1. Old([ppp_calculate(db) EXCEPT !.e = y])
      BY DEF Old, ppp_calculate
    <3> QED  BY <1>b, <1>d, <1>f, <2>2, <3>1
  <2> QED  BY <1>f, <2>1, <2>2 DEF Combo
<1>7. CASE flag_add(p) \/ flag_clear(p) \/ set_int(p) \/ set_str(p) \/ update_latest(p)
  BY <1>7, <1>a, <1>d, <1>e, <1>s
     DEF flag_add, flag_clear, set_int, set_str, update_latest, Handles, Good
<1>8. CASE skip(p) \/ authenticate(p)
  BY <1>8, <1>f DEF skip, authenticate, Handles, Good
<1>9. CASE clear_recent_failures(p)
  BY <1>9, <1>a, <1>b, <1>d, <1>s DEF clear_recent_failures, Handles, Good
<1>10. CASE set_spass(p)
  <2> DEFINE c == ppp_set_spass(p, ppp_calculate(db), req[p].arg.spass)
  <2>1. Old(c.st)
    BY DEF ppp_set_spass, ppp_calculate, Changed, Old
  <2>2. req[p].type = "SET_SPASS" /\ UNCHANGED new_state
    BY <1>10 DEF set_spass, Handles
  <2>3. Gone(NULL)
    BY <1>n, <1>q, <2>2, RequestFacts DEF Gone
  <2> HIDE DEF c
  <2> QED  BY <1>10, <1>a, <1>b, <1>d, <2>1, <2>2, <2>3 DEF set_spass, c, Good
<1>11. CASE key_remove(p)
  <2>1. req[p].type = "KEY_REMOVE"
    BY <1>11 DEF key_remove, Handles
  <2>2. CASE \E r, st : Answer(p, st, r) /\ st = s[p] /\ UNCHANGED <<keys, new_state>>
    BY <1>a, <1>d, <1>s, <2>2 DEF Good
  <2>3. CASE Work(p, NULL, "OK", NULL, LockAfterLoad(p))
             /\ new_state' = [new_state EXCEPT ![p] = FALSE]
    <3>1. s'[p] = NULL /\ out'[p].entry = NULL /\ keys' = keys /\ new_state'[p] = FALSE
      BY <1>q, <2>3 DEF Work, Arrays
    <3> QED  BY <2>1, <3>1 DEF KeepsKey, Stores, Live
  <2> QED  BY <1>11, <2>2, <2>3 DEF key_remove
<1>12. CASE state_store(p)
  <2>1. req[p].type = "STATE_STORE"
    BY <1>12 DEF state_store, Handles
  <2>2. CASE s[p] = NULL
    BY <1>12, <1>a, <1>d, <1>s, <2>2 DEF state_store, Good
  <2>3. CASE s[p] # NULL
    <3>1. new_state'[p] = FALSE
      BY <1>12, <1>q, <2>3 DEF state_store, Arrays
    <3>2. CASE Answer(p, NULL, "STATE_LOCK_ERROR") /\ keys' = keys
      BY <1>a, <3>1, <3>2 DEF Gone, Good
    <3>3. ASSUME NEW l, Work(p, NULL, "OK", s[p].e, l), l = p => s[p].new_key
          PROVE  Good
      <4>1. s'[p] = NULL /\ out'[p].entry = s[p].e /\ keys' = keys /\ lock' = l
        BY <1>q, <3>3 DEF Work, Arrays
      <4> QED  BY <2>1, <2>3, <3>1, <3>3, <4>1 DEF Good, KeepsKey, Stores, Live, HasNew
    <3> QED  BY <1>12, <1>q, <2>3, <3>2, <3>3 DEF state_store, Good
  <2> QED  BY <2>2, <2>3
<1> QED
  BY <1>0, <1>1, <1>2, <1>3, <1>4, <1>5, <1>6, <1>7, <1>8, <1>9, <1>10, <1>11, <1>12
     DEF request_execute

(* A utility leaves the memory of its agent alone, or drops it. *)
LEMMA UtilityMemory ==
  ASSUME Arrays, NEW p \in Proc, run_cli(p) \/ receive(p) \/ receive_last(p) \/ answer(p) \/ kill(p)
  PROVE  /\ UNCHANGED <<cfg, db, keys, logins>>
         /\ at'[p] # "store"
         /\ \/ s'[p] = NULL /\ new_state'[p] = FALSE
            \/ s'[p] = s[p] /\ new_state'[p] = new_state[p]
<1>a. ASSUME Leave(p)
      PROVE  at'[p] # "store" /\ s'[p] = NULL /\ new_state'[p] = FALSE
  BY <1>a DEF Leave, Arrays
<1>b. ASSUME NEW sc, Continue(p, sc)
      PROVE  /\ UNCHANGED <<cfg, db, keys, logins>>
             /\ at'[p] # "store"
             /\ \/ s'[p] = NULL /\ new_state'[p] = FALSE
                \/ s'[p] = s[p] /\ new_state'[p] = new_state[p]
  <2>1. Leave(p) \/ (UNCHANGED <<s, new_state>> /\ \E x \in {"ask", "request"} : at' = [at EXCEPT ![p] = x])
    BY <1>b DEF Continue
  <2> QED  BY <1>a, <1>b, <2>1 DEF Continue, Arrays
<1>1. CASE run_cli(p)
  BY <1>1 DEF run_cli, Arrays
<1>2. CASE receive(p) \/ answer(p)
  BY <1>2, <1>b DEF receive, answer
<1>3. CASE kill(p) \/ receive_last(p)
  BY <1>3, <1>a DEF kill, receive_last
<1> QED  BY <1>1, <1>2, <1>3

(* Initially nobody has a new key. *)
LEMMA KeyInit == Init => KeyInv
BY RequestAssumption DEF Init, KeyInv, KeyPart, KeysFresh, NewKey, Storing, HasNew, Live

(* What a step writes: the key on disk stays, or is removed, or p's new    *)
(* key replaces it.                                                        *)
LEMMA WrittenKey ==
  ASSUME LockInv, TypeInv, KeyInv, [Next]_vars, db' # db
  PROVE  \/ login
         \/ db' = NULL
         \/ /\ db # NULL /\ db' # NULL /\ db'.key = db.key
            /\ db'.latest # db.latest =>
                 \E p \in Proc : Storing(p, "UPDATE_LATEST") /\ db' = out[p].entry
         \/ \E p \in Proc : /\ Storing(p, "STATE_STORE") /\ Finish(p)
                            /\ out[p].ret = "OK" /\ db' = out[p].entry
<1> SUFFICES ASSUME ~login, db' # NULL,
                    NEW p \in Proc, Finish(p), at[p] = "store", lock = p,
                    db' = out[p].entry, out[p].ret = "OK"
             PROVE  \/ /\ db # NULL /\ db' # NULL /\ db'.key = db.key
                       /\ db'.latest # db.latest =>
                            \E q \in Proc : Storing(q, "UPDATE_LATEST") /\ db' = out[q].entry
                    \/ Storing(p, "STATE_STORE")
  BY WriterKinds DEF LockInv
<1>1. req[p].type # "KEY_REMOVE"
  BY DEF KeyInv, KeyPart
<1>2. CASE req[p].type = "STATE_STORE"
  BY <1>2 DEF Storing
<1>3. CASE req[p].type # "STATE_STORE"
  <2>1. db # NULL /\ \A f \in DOMAIN db : db'[f] # db[f] => f \in OwnFields(req[p])
    BY <1>1, <1>3 DEF LockInv, PendingKept, Pending
  <2>2. "key" \in DOMAIN db /\ "latest" \in DOMAIN db
    BY <2>1 DEF TypeInv, GoodEntry, Fields
  <2>3. req[p] \in Requests(options[p])
    BY DEF TypeInv, Typed
  <2>4. "key" \notin OwnFields(req[p])
    BY <2>3, RequestFacts DEF OwnFields
  <2>5. "latest" \in OwnFields(req[p]) => req[p].type = "UPDATE_LATEST"
    BY <2>3, RequestFacts DEF OwnFields
  <2> QED  BY <2>1, <2>2, <2>4, <2>5 DEF Storing
<1> QED  BY <1>2, <1>3

(* New keys stay fresh. *)
LEMMA KeyStep == LockInv /\ TypeInv /\ KeyInv /\ [Next]_vars => KeyInv'
<1> SUFFICES ASSUME LockInv, TypeInv, KeyInv, [Next]_vars  PROVE KeyInv'
  OBVIOUS
<1>0. Free \notin Proc /\ keys \in Nat /\ MAX_KEYS \in Nat
  BY RequestAssumption DEF TypeInv
<1>1. CASE UNCHANGED vars
  BY <1>1 DEF vars, agentVars, utilityVars, KeyInv, KeyPart, KeysFresh, NewKey, Storing,
              HasNew, Live
<1>2. CASE login
  <2>1. /\ UNCHANGED <<keys, at, s, new_state, req, out, lock>> /\ lock = Free /\ db # NULL
        /\ \E failed \in 0..1 : db' = [db EXCEPT !.counter = @ + 1, !.recent = @ + failed]
    BY <1>2 DEF login
  <2>2. db'.key = db.key
    BY <2>1 DEF TypeInv, GoodEntry, Fields
  <2> QED  BY <1>0, <2>1, <2>2 DEF KeyInv, KeyPart, KeysFresh, NewKey, Storing, HasNew, Live
<1>3. ASSUME NEW p \in Proc,
             run_cli(p) \/ receive(p) \/ receive_last(p) \/ answer(p) \/ agent(p) \/ kill(p)
      PROVE  KeyInv'
  <2>1. Frame(p)
    BY <1>3, AgentArrays, UtilityArrays DEF LockInv
  <2> DEFINE U == run_cli(p) \/ receive(p) \/ receive_last(p) \/ answer(p) \/ kill(p)
             A == Refuse(p) \/ request_execute(p)
  <2>a. U \/ A \/ Finish(p)
    BY <1>3 DEF agent, request_handle
  <2>u. U => /\ UNCHANGED <<db, keys, logins>> /\ at'[p] # "store"
             /\ \/ s'[p] = NULL /\ new_state'[p] = FALSE
                \/ s'[p] = s[p] /\ new_state'[p] = new_state[p]
    BY UtilityMemory DEF LockInv
  <2>r. A => /\ KeepsKey(p) /\ Stores(p) /\ UNCHANGED <<db, req>>
             /\ Moved(p) \/ Worked(p)
    BY RequestKeys, RequestKinds DEF LockInv, Moved, Worked
  <2>f. Finish(p) => at'[p] = "client" /\ UNCHANGED <<keys, s, new_state, req, out>>
    BY DEF Finish, Reply, LockInv, Arrays
  <2>g. ~login
    <3>1. logins' = logins /\ logins \in Nat
      BY <1>3, <2>u, UtilityAssumption DEF agent, utilityVars, TypeInv
    <3> QED  BY <3>1 DEF login
  <2>2. ASSUME NEW q \in Proc \ {p}, lock' = q  PROVE lock = q
    <3>1. U => Moved(p) \/ Left(p)
      BY UtilityKinds DEF LockInv
    <3> QED  BY <1>0, <2>2, <2>a, <2>r, <3>1 DEF Moved, Worked, Left, Unlock, Finish
  <2> HIDE DEF U, A
  <2>3. ASSUME NEW q \in Proc \ {p}, NEW k, NewKey(q, k)'  PROVE NewKey(q, k)
    BY <2>1, <2>2, <2>3 DEF NewKey, Storing, HasNew, Live, Frame
  <2>4. ASSUME NEW k, NewKey(p, k)'
        PROVE  NewKey(p, k) \/ (k = keys + 1 /\ keys' = keys + 1)
    <3>1. CASE HasNew(p)' /\ k = s'[p].e.key
      <4>1. CASE U
        BY <2>u, <3>1, <4>1 DEF NewKey, HasNew, Live
      <4>2. CASE A
        BY <2>r, <3>1, <4>2 DEF KeepsKey, NewKey, HasNew
      <4>3. CASE Finish(p)
        BY <2>f, <3>1, <4>3 DEF NewKey, HasNew, Live
      <4> QED  BY <2>a, <4>1, <4>2, <4>3
    <3>2. CASE Storing(p, "STATE_STORE")' /\ k = out'[p].entry.key
      BY <2>a, <2>f, <2>r, <2>u, <3>2 DEF Storing, Stores, NewKey
    <3> QED  BY <2>4, <3>1, <3>2 DEF NewKey
  <2>5. keys' = keys \/ (keys' = keys + 1 /\ db' = db)
    BY <2>a, <2>f, <2>r, <2>u DEF KeepsKey
  <2>6. ASSUME NEW q \in Proc \ {p}  PROVE KeyPart(q)'
    <3>1. lock' = q => db' = db
      <4> SUFFICES ASSUME lock' = q, db' # db  PROVE FALSE
        OBVIOUS
      <4>1. lock = q  BY <2>2
      <4>2. at'[q] = at[q]  BY <2>1 DEF Frame
      <4>3. Finish(q) /\ at[q] = "store"
        BY <2>g, <4>1, WriterKinds DEF LockInv
      <4> QED  BY <4>2, <4>3 DEF Finish, Reply, LockInv, Arrays
    <3>2. KeyPart(q)
      BY DEF KeyInv
    <3> QED  BY <2>1, <2>2, <3>1, <3>2 DEF KeyPart, Storing, Live, Frame
  <2>7. KeyPart(p)'
    BY <2>a, <2>f, <2>r, <2>u DEF KeyPart, Storing, Stores
  <2>8. ASSUME NEW q \in Proc, NEW k, NewKey(q, k)'
        PROVE  NewKey(q, k) \/ (q = p /\ k = keys + 1 /\ keys' = keys + 1)
    BY <2>3, <2>4, <2>8
  <2>9. ASSUME NEW q \in Proc, NEW k, NewKey(q, k)', db' # NULL
        PROVE  db'.key # k
    <3>1. CASE db' = db
      <4>1. db.key \in 0..keys
        BY <2>9, <3>1 DEF TypeInv, GoodEntry
      <4> QED  BY <1>0, <2>8, <2>9, <3>1, <4>1 DEF KeyInv, KeysFresh
    <3>2. CASE db' # db
      <4>1. NewKey(q, k)
        BY <1>0, <2>5, <2>8, <2>9, <3>2
      <4>2. CASE db # NULL /\ db'.key = db.key
        BY <4>1, <4>2 DEF KeyInv, KeysFresh
      <4>3. ASSUME NEW r \in Proc, Storing(r, "STATE_STORE"), Finish(r), db' = out[r].entry
            PROVE  db'.key # k
        <5>1. NewKey(r, db'.key)
          BY <4>3 DEF NewKey
        <5>2. CASE q # r
          BY <4>1, <5>1, <5>2 DEF KeyInv, KeysFresh
        <5>3. CASE q = r
          <6>1. ~Live(r)
            BY <4>3 DEF KeyInv, KeyPart, Storing
          <6>2. at'[r] = "client" /\ UNCHANGED <<s, new_state>>
            BY <4>3 DEF Finish, Reply, LockInv, Arrays
          <6> QED  BY <2>9, <5>3, <6>1, <6>2 DEF NewKey, Storing, HasNew, Live
        <5> QED  BY <5>2, <5>3
      <4> QED  BY <2>9, <2>g, <3>2, <4>2, <4>3, WrittenKey
    <3> QED  BY <3>1, <3>2
  <2>10. KeysFresh'
    <3> SUFFICES ASSUME NEW q \in Proc, NEW k, NewKey(q, k)'
                 PROVE  /\ k \in 1..keys'
                        /\ db' # NULL => db'.key # k
                        /\ \A r \in Proc \ {q} : ~NewKey(r, k)'
      BY DEF KeysFresh
    <3>1. NewKey(q, k) => k \in 1..keys
      BY DEF KeyInv, KeysFresh
    <3>2. k \in 1..keys'
      BY <1>0, <2>5, <2>8, <3>1
    <3>3. ASSUME NEW r \in Proc \ {q}, NewKey(r, k)'  PROVE FALSE
      <4>1. NewKey(r, k) => k \in 1..keys
        BY DEF KeyInv, KeysFresh
      <4>2. ~(NewKey(q, k) /\ NewKey(r, k))
        BY DEF KeyInv, KeysFresh
      <4> QED  BY <1>0, <2>8, <3>1, <3>3, <4>1, <4>2
    <3> QED  BY <2>9, <3>2, <3>3
  <2> QED  BY <2>6, <2>7, <2>10 DEF KeyInv
<1> QED  BY <1>1, <1>2, <1>3 DEF Next

(* New keys are fresh in every behaviour. *)
THEOREM KeyInvariant == Spec => [](LockInv /\ TypeInv /\ KeyInv)
<1>1. Init => KeyInv
  BY KeyInit
<1>2. LockInv /\ TypeInv /\ KeyInv /\ [Next]_vars => KeyInv'
  BY KeyStep
<1> QED  BY <1>1, <1>2, UtilityInvariant, PTL DEF Spec

(***************************************************************************)
(* LatestForward: prints that overlap never move latest_card of a key      *)
(* back, although each was checked before the lock was taken.              *)
(***************************************************************************)
THEOREM UtilityForward == Spec => LatestForward
<1> DEFINE A == db # NULL /\ db' # NULL /\ db'.key = db.key => db'.latest >= db.latest
<1>1. LockInv /\ TypeInv /\ KeyInv /\ [Next]_vars => [A]_vars
  <2> SUFFICES ASSUME LockInv, TypeInv, KeyInv, [Next]_vars, db # NULL, db' # NULL,
                      db'.key = db.key
               PROVE  db'.latest >= db.latest
    OBVIOUS
  <2>0. db.latest \in Nat /\ DOMAIN db = Fields
    BY DEF TypeInv, GoodEntry
  <2>1. CASE db' = db
    BY <2>0, <2>1
  <2>2. CASE login
    <3>1. db'.latest = db.latest
      BY <2>0, <2>2 DEF login, Fields
    <3> QED  BY <2>0, <3>1
  <2>3. CASE db'.latest = db.latest
    BY <2>0, <2>3
  <2>4. ASSUME NEW p \in Proc, Storing(p, "UPDATE_LATEST"), db' = out[p].entry
        PROVE  db'.latest >= db.latest
    BY <2>4 DEF KeyInv, KeyPart
  <2>5. ASSUME NEW p \in Proc, Storing(p, "STATE_STORE"), db' = out[p].entry  PROVE FALSE
    BY <2>5 DEF KeyInv, KeysFresh, NewKey
  <2> QED  BY <2>1, <2>2, <2>3, <2>4, <2>5, WrittenKey
<1> QED  BY <1>1, KeyInvariant, PTL DEF Spec, LatestForward
-----------------------------------------------------------------------------
(***************************************************************************)
(* The order of requests.  Some requests are only right after another one: *)
(* a card is noted after it was printed, the user is asked whether he is   *)
(* ready after that, a new key is stored after he said so, and -k changes  *)
(* flags after it began a new state.  May says so of two requests in a     *)
(* row; scripts are chains of such pairs, and Met is what the state then   *)
(* satisfies when a request is due.                                        *)
(***************************************************************************)
Flagged == {"FLAG_ADD", "FLAG_CLEAR"}

(* The cards S stand for the latest card n. *)
Stands(S, n) == n \in S \/ S = (n - LATEX)..(n - 1)

(* r is not the first of a chain. *)
Needs(o, r) == \/ r.type \in {"UPDATE_LATEST", "READY", "STATE_STORE"}
               \/ o.action = "k" /\ r.type \in Flagged

(* r may directly follow prev. *)
May(o, prev, r) ==
  /\ r.type = "UPDATE_LATEST" => prev.type = "GET_PASSCODE" /\ Stands(prev.arg.cards, r.arg.num)
  /\ r.type = "READY" => prev.type = "UPDATE_LATEST"
  /\ r.type = "STATE_STORE" => prev.type = "READY"
  /\ o.action = "k" /\ r.type \in Flagged => prev.type \in {"STATE_NEW", "FLAG_ADD"}

Steps(o, sc) == \A i \in 2..Len(sc) : May(o, sc[i - 1], sc[i])
Chain(o, sc) == Steps(o, sc) /\ (sc # <<>> => ~Needs(o, sc[1]))

(* Two sequences joined where one element may follow the other. *)
LEMMA StepsJoin ==
  ASSUME NEW o, NEW S, NEW a \in Seq(S), NEW b \in Seq(S), Steps(o, a), Steps(o, b),
         a # <<>> /\ b # <<>> => May(o, a[Len(a)], b[1])
  PROVE  /\ a \o b \in Seq(S)
         /\ Steps(o, a \o b)
         /\ a # <<>> => a \o b # <<>> /\ (a \o b)[1] = a[1]
         /\ a = <<>> => a \o b = b
<1> DEFINE c == a \o b
<1>1. /\ Len(c) = Len(a) + Len(b) /\ Len(a) \in Nat /\ Len(b) \in Nat /\ c \in Seq(S)
      /\ \A i \in 1..Len(a) : c[i] = a[i]
      /\ \A i \in (Len(a) + 1)..(Len(a) + Len(b)) : c[i] = b[i - Len(a)]
      /\ (a # <<>> <=> Len(a) >= 1) /\ (b # <<>> <=> Len(b) >= 1)
      /\ (c # <<>> <=> Len(c) >= 1)
  OBVIOUS
<1>2. a = <<>> => c = b
  OBVIOUS
<1> HIDE DEF c
<1>3. ASSUME NEW i \in 2..Len(c)  PROVE May(o, c[i - 1], c[i])
  <2>1. CASE i <= Len(a)
    BY <1>1, <2>1 DEF Steps
  <2>2. CASE i = Len(a) + 1
    <3>1. /\ i - 1 \in 1..Len(a) /\ i - 1 = Len(a) /\ Len(a) >= 1 /\ Len(b) >= 1
          /\ i \in (Len(a) + 1)..(Len(a) + Len(b)) /\ i - Len(a) = 1
      BY <1>1, <2>2
    <3>2. c[i - 1] = a[Len(a)] /\ c[i] = b[1]
      BY <1>1, <3>1
    <3> QED  BY <1>1, <3>1, <3>2
  <2>3. CASE i > Len(a) + 1
    <3>1. i - Len(a) \in 2..Len(b) /\ (i - Len(a)) - 1 = (i - 1) - Len(a)
      BY <1>1, <2>3
    <3>a. i \in (Len(a) + 1)..(Len(a) + Len(b)) /\ i - 1 \in (Len(a) + 1)..(Len(a) + Len(b))
      BY <1>1, <2>3
    <3>2. c[i] = b[i - Len(a)] /\ c[i - 1] = b[(i - 1) - Len(a)]
      BY <1>1, <3>a
    <3> QED  BY <3>1, <3>2 DEF Steps
  <2> QED  BY <1>1, <2>1, <2>2, <2>3
<1>4. a # <<>> => c # <<>> /\ c[1] = a[1]
  BY <1>1
<1> QED  BY <1>1, <1>2, <1>3, <1>4 DEF Steps, c

(* Chains in a row are a chain. *)
LEMMA ChainConcat ==
  ASSUME NEW o, NEW S, NEW a \in Seq(S), NEW b \in Seq(S), Chain(o, a), Chain(o, b)
  PROVE  Chain(o, a \o b)
<1>1. b # <<>> => \A prev : May(o, prev, b[1])
  BY DEF Chain, Needs, May
<1>2. /\ Steps(o, a \o b)
      /\ a # <<>> => a \o b # <<>> /\ (a \o b)[1] = a[1]
      /\ a = <<>> => a \o b = b
  BY <1>1, StepsJoin DEF Chain
<1> QED  BY <1>2 DEF Chain

(* So is a sequence of requests that need nothing. *)
LEMMA ChainPlain ==
  ASSUME NEW o, NEW S, NEW a \in Seq(S), \A r \in S : ~Needs(o, r)
  PROVE  Chain(o, a)
BY DEF Chain, Steps, Needs, May

(* The settings of -k follow the new state. *)
LEMMA SettingsSteps ==
  ASSUME NEW o
  PROVE  /\ Steps(o, ah_set_options(o))
         /\ ah_set_options(o) # <<>> => May(o, Req("STATE_NEW", NULL), ah_set_options(o)[1])
<1> DEFINE S == Settings(o)
           FA == If(o.set # {}, <<Req("FLAG_ADD", [flags |-> o.set])>>)
           FC == If(o.clear # {}, <<Req("FLAG_CLEAR", [flags |-> o.clear])>>)
           CL == If(o.code_length # -1, <<SetInt("code_length", o.code_length)>>)
           AL == If(o.alphabet # -1, <<SetInt("alphabet", o.alphabet)>>)
           CO == If(o.contact # NULL, <<SetStr("contact", o.contact)>>)
           LA == If(o.label # NULL, <<SetStr("label", o.label)>>)
           First(sq) == sq # <<>> => May(o, Req("STATE_NEW", NULL), sq[1])
           Good(sq) == sq \in Seq(S) /\ Steps(o, sq) /\ First(sq)
<1>1. \A r \in S : May(o, Req("STATE_NEW", NULL), r)
  BY DEF Settings, May, Req, SetInt, SetStr, Flagged
<1>2. ASSUME NEW c, NEW r \in S  PROVE Good(If(c, <<r>>))
  BY <1>1 DEF If, Steps
<1>3. Good(FA) /\ Good(FC) /\ Good(CL) /\ Good(AL) /\ Good(CO) /\ Good(LA)
  <2>1. /\ Req("FLAG_ADD", [flags |-> o.set]) \in S
        /\ Req("FLAG_CLEAR", [flags |-> o.clear]) \in S
        /\ SetInt("code_length", o.code_length) \in S
        /\ SetInt("alphabet", o.alphabet) \in S
        /\ SetStr("label", o.label) \in S
        /\ SetStr("contact", o.contact) \in S
    BY DEF Settings
  <2> HIDE DEF Good, S
  <2> QED  BY <1>2, <2>1
<1>4. ASSUME NEW a, NEW b, Good(a), Good(b),
             b # <<>> => ~Needs(o, b[1]) \/ (a # <<>> => May(o, a[Len(a)], b[1]))
      PROVE  Good(a \o b)
  <2>1. a # <<>> /\ b # <<>> => May(o, a[Len(a)], b[1])
    BY <1>4 DEF Needs, May
  <2> HIDE DEF S
  <2>2. /\ a \o b \in Seq(S)
        /\ Steps(o, a \o b)
        /\ a # <<>> => a \o b # <<>> /\ (a \o b)[1] = a[1]
        /\ a = <<>> => a \o b = b
    BY <1>4, <2>1, StepsJoin
  <2> QED  BY <1>4, <2>2
<1>5. FA # <<>> /\ FC # <<>> => May(o, FA[Len(FA)], FC[1])
  BY DEF May, If, Req, Flagged
<1>6. /\ CL # <<>> => ~Needs(o, CL[1])
      /\ AL # <<>> => ~Needs(o, AL[1])
      /\ CO # <<>> => ~Needs(o, CO[1])
      /\ LA # <<>> => ~Needs(o, LA[1])
  BY DEF Needs, If, Req, SetInt, SetStr, Flagged
<1>7. ah_set_options(o) = FA \o FC \o CL \o AL \o CO \o LA
  BY DEF ah_set_options
<1> HIDE DEF Good, FA, FC, CL, AL, CO, LA
<1>8. Good(FA \o FC)  BY <1>3, <1>4, <1>5
<1>9. Good(FA \o FC \o CL)  BY <1>3, <1>4, <1>6, <1>8
<1>10. Good(FA \o FC \o CL \o AL)  BY <1>3, <1>4, <1>6, <1>9
<1>11. Good(FA \o FC \o CL \o AL \o CO)  BY <1>3, <1>4, <1>6, <1>10
<1>12. Good(FA \o FC \o CL \o AL \o CO \o LA)  BY <1>3, <1>4, <1>6, <1>11
<1> QED  BY <1>7, <1>12 DEF Good

(* What an action sends first is a chain. *)
LEMMA PerformChain ==
  ASSUME NEW o, NEW has
  PROVE  Chain(o, perform_action(o, has))
<1>1. CASE o.action # "k"
  <2>1. perform_action(o, has) \in Seq(OtherPlain(o))
    BY <1>1, PerformTyped
  <2>2. \A r \in OtherPlain(o) : ~Needs(o, r)
    BY <1>1 DEF OtherPlain, Common, Settings, Numbered, Req, SetInt, SetStr, Needs
  <2> HIDE DEF OtherPlain
  <2> QED  BY <2>1, <2>2, ChainPlain
<1>2. CASE o.action = "k"
  <2> DEFINE S == KeyRequests(o)
             A == If(has, <<Req("FLAG_GET", NULL), Req("STATE_DROP", NULL)>>)
             N == <<Req("STATE_NEW", NULL)>>
             F == ah_set_options(o)
             Q == If(has, <<Req("SURE", NULL)>>)
             B == <<Req("FLAG_GET", NULL), Req("KEY_GENERATE", NULL), card_ascii(1),
                    UpdateLatest(1), Req("READY", NULL), Req("STATE_STORE", NULL)>>
  <2>1. A \in Seq(S) /\ N \in Seq(S) /\ Q \in Seq(S) /\ B \in Seq(S)
    <3>1. \A r \in {Req("FLAG_GET", NULL), Req("STATE_DROP", NULL), Req("STATE_NEW", NULL),
                    Req("SURE", NULL), Req("KEY_GENERATE", NULL), card_ascii(1),
                    UpdateLatest(1), Req("READY", NULL), Req("STATE_STORE", NULL)} : r \in S
      BY DEF KeyRequests, Common
    <3> HIDE DEF S
    <3> QED  BY <3>1 DEF If
  <2>2. F \in Seq(S)
    BY SettingsTyped DEF KeyRequests
  <2>3. Chain(o, A) /\ Chain(o, N) /\ Chain(o, Q)
    BY DEF Chain, Steps, Needs, May, If, Req, Flagged
  <2>4. Chain(o, B)
    <3>1. /\ Len(B) = 6 /\ B[1] = Req("FLAG_GET", NULL) /\ B[2] = Req("KEY_GENERATE", NULL)
          /\ B[3] = card_ascii(1) /\ B[4] = UpdateLatest(1) /\ B[5] = Req("READY", NULL)
          /\ B[6] = Req("STATE_STORE", NULL)
      OBVIOUS
    <3> HIDE DEF B
    <3>2. /\ ~Needs(o, B[1]) /\ May(o, B[1], B[2]) /\ May(o, B[2], B[3]) /\ May(o, B[4], B[5])
          /\ May(o, B[5], B[6])
      BY <3>1 DEF Needs, May, Req, card_ascii, Passcodes, UpdateLatest, Flagged
    <3>3. May(o, B[3], B[4])
      <4>1. Stands({1}, 1)  BY DEF Stands
      <4> QED  BY <3>1, <4>1 DEF May, Req, card_ascii, Passcodes, UpdateLatest, Flagged
    <3>4. ASSUME NEW i \in 2..6  PROVE May(o, B[i - 1], B[i])
      <4>1. i \in {2, 3, 4, 5, 6}  OBVIOUS
      <4>2. CASE i = 2  BY <3>2, <4>2
      <4>3. CASE i = 3  BY <3>2, <4>3
      <4>4. CASE i = 4  BY <3>3, <4>4
      <4>5. CASE i = 5  BY <3>2, <4>5
      <4>6. CASE i = 6  BY <3>2, <4>6
      <4> QED  BY <4>1, <4>2, <4>3, <4>4, <4>5, <4>6
    <3> QED  BY <3>1, <3>2, <3>4 DEF Chain, Steps
  <2>5. (A \o N) \in Seq(S) /\ A \o N # <<>> /\ (A \o N)[Len(A \o N)] = Req("STATE_NEW", NULL)
    BY <2>1
  <2>6. perform_action(o, has) = A \o N \o F \o Q \o B
    BY <1>2 DEF perform_action, NeedsState, WithSpec, action_key_generate
  <2> HIDE DEF S, A, N, F, Q, B
  <2>7. Chain(o, A \o N)
    BY <2>1, <2>3, ChainConcat
  <2>8. (A \o N \o F) \in Seq(S) /\ Chain(o, A \o N \o F)
    <3>1. Steps(o, F) /\ (F # <<>> => May(o, (A \o N)[Len(A \o N)], F[1]))
      BY <2>5, SettingsSteps DEF F
    <3> DEFINE AN == A \o N
    <3>2. AN \in Seq(S) /\ AN # <<>> /\ Steps(o, AN) /\ ~Needs(o, AN[1])
          /\ (F # <<>> => May(o, AN[Len(AN)], F[1]))
      BY <2>5, <2>7, <3>1 DEF Chain
    <3> HIDE DEF AN
    <3>3. AN \o F \in Seq(S) /\ Steps(o, AN \o F) /\ AN \o F # <<>> /\ (AN \o F)[1] = AN[1]
      BY <2>2, <3>1, <3>2, StepsJoin
    <3>4. Chain(o, AN \o F)
      BY <3>2, <3>3 DEF Chain
    <3> QED  BY <3>3, <3>4 DEF AN
  <2>9. (A \o N \o F \o Q) \in Seq(S) /\ Chain(o, A \o N \o F \o Q)
    <3>1. ASSUME NEW x \in Seq(S), Chain(o, x)  PROVE x \o Q \in Seq(S) /\ Chain(o, x \o Q)
      BY <2>1, <2>3, <3>1, ChainConcat
    <3> QED  BY <2>8, <3>1
  <2>10. Chain(o, A \o N \o F \o Q \o B)
    BY <2>1, <2>4, <2>9, ChainConcat
  <2> QED  BY <2>6, <2>10
<1> QED  BY <1>1, <1>2

(* One request that needs nothing is a chain, and so are two of which the  *)
(* second may follow the first.                                            *)
LEMMA ChainShort ==
  ASSUME NEW o, NEW a, ~Needs(o, a)
  PROVE  /\ Chain(o, <<a>>)
         /\ \A b : May(o, a, b) => Chain(o, <<a, b>>)
<1>1. Chain(o, <<a>>)
  BY DEF Chain, Steps
<1>2. ASSUME NEW b, May(o, a, b)  PROVE Chain(o, <<a, b>>)
  <2> DEFINE c == <<a, b>>
  <2>1. Len(c) = 2 /\ c[1] = a /\ c[2] = b
    OBVIOUS
  <2> HIDE DEF c
  <2>2. ASSUME NEW i \in 2..Len(c)  PROVE May(o, c[i - 1], c[i])
    <3>1. i = 2 /\ i - 1 = 1
      BY <2>1
    <3> QED  BY <1>2, <2>1, <3>1
  <2>3. Chain(o, c)
    BY <2>1, <2>2 DEF Chain, Steps
  <2> QED  BY <2>3 DEF c
<1> QED  BY <1>1, <1>2

(* What follows a passcode specification is a chain: the card or the page  *)
(* is printed, then the latest card is noted.                              *)
LEMMA ParsedChain ==
  ASSUME NEW o, o.action # "k", NEW st, GoodState(st, o.action, cfg, keys, logins)
  PROVE  Chain(o, Parsed(o, st))
<1> DEFINE x == ah_parse_code_spec(o.arg, st)
           n == x.item
<1>1. n \in Nat
  <2>1. st.card \in Nat /\ st.e.latest \in Nat /\ st.e.counter \in Nat
    BY RequestAssumption DEF GoodState, GoodEntry, Number
  <2> QED  BY <2>1 DEF ah_parse_code_spec
<1>2. \A cards : ~Needs(o, Passcodes(cards))
  BY DEF Needs, Passcodes, Req, Flagged
<1>3. /\ \A m : ~Needs(o, Req("GET_PROMPT", [num |-> m]))
      /\ \A m : ~Needs(o, Req("SKIP", [num |-> m]))
  BY DEF Needs, Req, Flagged
<1>4. ASSUME NEW cards, NEW m, Stands(cards, m)
      PROVE  May(o, Passcodes(cards), UpdateLatest(m))
  BY <1>4 DEF May, Passcodes, UpdateLatest, Req, Flagged
<1> HIDE DEF x
<1>5. Stands({n}, n)
  BY DEF Stands
<1>6. Stands(n..(n + LATEX - 1), n + LATEX)
  <2>1. (n + LATEX) - LATEX = n /\ (n + LATEX) - 1 = n + LATEX - 1
    BY <1>1, UtilityAssumption
  <2>2. n..(n + LATEX - 1) = ((n + LATEX) - LATEX)..((n + LATEX) - 1)
    BY <2>1, Zenon
  <2> QED  BY <2>2, Zenon DEF Stands
<1>7. Chain(o, <<card_ascii(n), UpdateLatest(n)>>)
  BY <1>2, <1>4, <1>5, ChainShort DEF card_ascii
<1>8. Chain(o, <<Passcodes(n..(n + LATEX - 1)), UpdateLatest(n + LATEX)>>)
  BY <1>2, <1>4, <1>6, ChainShort
<1>9. Chain(o, <<>>)
  BY DEF Chain, Steps
<1>10. Chain(o, card_latex(n, st))
  BY <1>8, <1>9 DEF card_latex, If
<1>11. /\ Chain(o, <<Passcodes({})>>)
       /\ \A m : Chain(o, <<Req("GET_PROMPT", [num |-> m])>>)
       /\ \A m : Chain(o, <<Req("SKIP", [num |-> m])>>)
  BY <1>2, <1>3, ChainShort
<1>12. \/ Parsed(o, st) = <<card_ascii(n), UpdateLatest(n)>>
       \/ Parsed(o, st) = card_latex(n, st)
       \/ Parsed(o, st) \in {<<>>, <<Passcodes({})>>}
       \/ Parsed(o, st) = <<Req("GET_PROMPT", [num |-> n])>>
       \/ \E m : Parsed(o, st) = <<Req("SKIP", [num |-> m])>>
  BY Zenon DEF Parsed, x
<1> HIDE DEF n
<1> QED  BY <1>7, <1>9, <1>10, <1>11, <1>12

(***************************************************************************)
(* The order invariant.  P is the paper: Shown says that the first card of *)
(* key k is on it, Noted that card n is, or stands after a page that is,   *)
(* if policy c lets the default alphabet print.                            *)
(***************************************************************************)
Shown(c, P, k) == Printing(c) => \E sheet \in P : sheet[1] = k /\ 1 \in sheet[2]
Noted(c, P, n) ==
  Printing(c) => n = 0 \/ \E sheet \in P : Stands(sheet[2], n)

(* p's new key, if it has one, is shown. *)
NewShown(c, P, p) == HasNew(p) => Shown(c, P, s[p].e.key)

(* What p satisfies when request or question r is due. *)
Met(c, P, p, r) ==
  /\ r.type = "UPDATE_LATEST" => Noted(c, P, r.arg.num)
  /\ options[p].action = "k" =>
       /\ r.type \in {"UPDATE_LATEST", "READY", "STATE_STORE"} => NewShown(c, P, p)
       /\ r.type \in Flagged => new_state[p]

(* The rest of p's script follows its request. *)
Linked(p) == /\ script[p] # <<>> => May(options[p], req[p], script[p][1])
             /\ Steps(options[p], script[p])

(* What the requests of p have left, by the place p is at. *)
OrderAt(p) ==
  /\ at[p] # "off" /\ options[p].action # "k" =>
       "salted" \notin options[p].set \cup options[p].clear
  /\ at[p] \in {"request", "client", "store"} => Linked(p)
  /\ at[p] = "request" => Met(cfg, printed, p, req[p])
  /\ at[p] = "ask" => /\ Steps(options[p], script[p])
                      /\ Met(cfg, printed, p, script[p][1])
                      /\ script[p][1].type \in Questions
  /\ options[p].action = "k" =>
       /\ at[p] \in {"client", "store"} /\ req[p].type \in {"UPDATE_LATEST", "READY"}
            => NewShown(cfg, printed, p)
       /\ at[p] = "client" /\ status[p] = "OK" /\ req[p].type \in {"STATE_NEW", "FLAG_ADD"}
            => new_state[p]
       /\ at[p] = "store" => req[p].type \notin Flagged \cup {"STATE_NEW"}

(* A salt is as it was. *)
SaltKept(e, d) == "salted" \in e.flags <=> "salted" \in d.flags

(* What p has in memory and is about to store was printed before. *)
OrderData(p) ==
  /\ HasNew(p) => Noted(cfg, printed, s[p].e.latest)
  /\ Storing(p, "UPDATE_LATEST") => Noted(cfg, printed, out[p].entry.latest)
  /\ Storing(p, "STATE_STORE") => /\ Noted(cfg, printed, out[p].entry.latest)
                                  /\ Shown(cfg, printed, out[p].entry.key)
  /\ \A t \in Flagged : Storing(p, t) => SaltKept(out[p].entry, db)

OrderInv ==
  /\ \A p \in Proc : OrderAt(p) /\ OrderData(p)
  /\ db # NULL => Shown(cfg, printed, db.key) /\ Noted(cfg, printed, db.latest)

(* Passcodes of the default alphabet are printed unless it is denied. *)
LEMMA CanPrintFacts == CanPrint => Printing(cfg)
BY DEF CanPrint, Printing, ppp_verify_alphabet

(* Paper is only added to. *)
LEMMA PaperGrows ==
  ASSUME NEW P, NEW Q, P \subseteq Q
  PROVE  /\ \A k : Shown(cfg, P, k) => Shown(cfg, Q, k)
         /\ \A n : Noted(cfg, P, n) => Noted(cfg, Q, n)
BY DEF Shown, Noted

(* A request that needs nothing is always due. *)
LEMMA MetPlain ==
  ASSUME NEW p, NEW P, NEW r, ~Needs(options[p], r)
  PROVE  Met(cfg, P, p, r)
BY DEF Needs, Met

(* STATE_NEW is answered at once; if it is granted, a new state is being   *)
(* built.                                                                  *)
LEMMA NewBuilt ==
  ASSUME Arrays, NEW p \in Proc, Refuse(p) \/ request_execute(p), req[p].type = "STATE_NEW"
  PROVE  at'[p] \in {"client", "bye"} /\ (status'[p] = "OK" => new_state'[p])
<1>1. Refuse(p) \/ state_new(p)
  BY DEF request_execute, Getters, Handles, user_set, state_load, state_drop, get_field,
         key_generate, get_prompt, get_alphabet, flag_add, flag_clear, set_int, set_str,
         set_spass, update_latest, skip, authenticate, clear_recent_failures, key_remove,
         state_store
<1>2. CASE Refuse(p)
  <2>1. at'[p] \in {"client", "bye"} /\ status'[p] # "OK"
    BY <1>2, Refused DEF Arrays
  <2> QED  BY <2>1
<1>3. CASE state_new(p)
  BY <1>3 DEF state_new, Answer, Reply, Arrays
<1> QED  BY <1>1, <1>2, <1>3

(* A change of flags goes to the disk only if no new state is being built, *)
(* and then it is one of the flags on disk.                                *)
LEMMA FlagsChanged ==
  ASSUME Arrays, NEW p \in Proc, Refuse(p) \/ request_execute(p), req[p].type \in Flagged
  PROVE  /\ new_state'[p] = new_state[p]
         /\ at'[p] = "store" => /\ ~new_state[p] /\ db # NULL
                                /\ out'[p].entry = Change(p, ppp_calculate(db)).st.e
<1>1. Refuse(p) \/ Atomical(p)
  BY DEF request_execute, Flagged, Getters, Handles, user_set, state_new, state_load, state_drop,
         get_field, key_generate, get_prompt, get_alphabet, flag_add, flag_clear, set_int,
         set_str, set_spass, update_latest, skip, authenticate, clear_recent_failures,
         key_remove, state_store
<1>2. CASE Refuse(p)
  <2>1. at'[p] # "store" /\ new_state' = new_state
    BY <1>2, Refused DEF Arrays
  <2> QED  BY <2>1
<1>3. CASE Atomical(p)
  <2>1. ASSUME NEW st, NEW r, Answer(p, st, r)  PROVE at'[p] = "client"
    BY <2>1 DEF Answer, Reply, Arrays
  <2>2. ASSUME NEW st, NEW r, NEW e, NEW l, Work(p, st, r, e, l)  PROVE out'[p].entry = e
    BY <2>2 DEF Work, Arrays
  <2>3. Loaded => db # NULL
    BY DEF Loaded, Loading, Reading, Success
  <2> QED  BY <1>3, <2>1, <2>2, <2>3 DEF Atomical
<1> QED  BY <1>1, <1>2, <1>3

(* Flags without the salt leave the salt as it is. *)
LEMMA ChangeKeepsSalt ==
  ASSUME NEW p \in Proc, req[p].type \in Flagged, "salted" \notin req[p].arg.flags,
         NEW d, GoodEntry(d, cfg, keys, logins)
  PROVE  SaltKept(Change(p, ppp_calculate(d)).st.e, d)
<1> DEFINE st == ppp_calculate(d)
<1>1. DOMAIN st = {"e", "card", "new_key"} /\ st.e = d /\ "flags" \in DOMAIN d
  BY DEF ppp_calculate, GoodEntry, Fields
<1> SUFFICES SaltKept(Change(p, st).st.e, d)
  OBVIOUS
<1> HIDE DEF st
<1>2. ASSUME NEW f, "salted" \in f <=> "salted" \in d.flags
      PROVE  SaltKept(ppp_set_flags(st, f).st.e, d)
  <2>1. ppp_set_flags(st, f).st = st \/ ppp_set_flags(st, f).st = [st EXCEPT !.e.flags = f]
    BY DEF ppp_set_flags, Changed
  <2>2. [st EXCEPT !.e.flags = f].e.flags = f
    BY <1>1
  <2> QED  BY <1>1, <1>2, <2>1, <2>2 DEF SaltKept
<1>3. CASE req[p].type = "FLAG_ADD"
  <2>1. Change(p, st) = ppp_set_flags(st, st.e.flags \cup req[p].arg.flags)
    BY <1>3 DEF Change
  <2>2. "salted" \in (st.e.flags \cup req[p].arg.flags) <=> "salted" \in d.flags
    BY <1>1
  <2> QED  BY <1>2, <2>1, <2>2
<1>4. CASE req[p].type = "FLAG_CLEAR"
  <2>1. Change(p, st) = ppp_set_flags(st, st.e.flags \ req[p].arg.flags)
    BY <1>4 DEF Change
  <2>2. "salted" \in (st.e.flags \ req[p].arg.flags) <=> "salted" \in d.flags
    BY <1>1
  <2> QED  BY <1>2, <2>1, <2>2
<1> QED  BY <1>3, <1>4 DEF Flagged

(* What a request leaves is what the next one in the script needs. *)
LEMMA NextMet ==
  ASSUME TypeInv, OrderInv, NEW p \in Proc, at[p] = "client", NEW P, printed \subseteq P,
         Printing(cfg) /\ req[p].type = "GET_PASSCODE" /\ status[p] = "OK" =>
           <<s[p].e.key, req[p].arg.cards>> \in P,
         status[p] = "OK" \/ req[p].type \in {"STATE_LOAD", "UPDATE_LATEST"},
         script[p] # <<>>
  PROVE  Met(cfg, P, p, script[p][1])
<1> DEFINE o == options[p]
           h == script[p][1]
<1>1. May(o, req[p], h) /\ OrderAt(p) /\ req[p] \in Requests(o)
  BY DEF OrderInv, OrderAt, Linked, TypeInv, Typed
<1>2. CASE h.type = "UPDATE_LATEST"
  <2>1. req[p].type = "GET_PASSCODE" /\ Stands(req[p].arg.cards, h.arg.num) /\ status[p] = "OK"
    BY <1>1, <1>2 DEF May
  <2> DEFINE sheet == <<s[p].e.key, req[p].arg.cards>>
  <2>2. (Printing(cfg) => sheet \in P) /\ sheet[1] = s[p].e.key /\ sheet[2] = req[p].arg.cards
    BY <2>1
  <2> HIDE DEF sheet
  <2>3. Noted(cfg, P, h.arg.num)
    BY <2>1, <2>2 DEF Noted
  <2>4. o.action = "k" => 1 \in req[p].arg.cards
    BY <1>1, <2>1, RequestFacts
  <2>5. o.action = "k" => NewShown(cfg, P, p)
    BY <2>2, <2>4 DEF NewShown, Shown
  <2> QED  BY <1>2, <2>3, <2>5 DEF Met, Flagged
<1>3. CASE h.type \in {"READY", "STATE_STORE"}
  <2>1. req[p].type \in {"UPDATE_LATEST", "READY"}
    BY <1>1, <1>3 DEF May
  <2>2. o.action = "k" => NewShown(cfg, P, p)
    BY <1>1, <2>1, PaperGrows DEF OrderAt, NewShown
  <2> QED  BY <1>3, <2>2 DEF Met, Flagged
<1>4. CASE h.type \in Flagged
  <2>1. o.action = "k" => new_state[p]
    BY <1>1, <1>4 DEF May, OrderAt
  <2> QED  BY <1>4, <2>1 DEF Met, Flagged
<1>5. CASE h.type \notin {"UPDATE_LATEST", "READY", "STATE_STORE"} \cup Flagged
  BY <1>5 DEF Met
<1> QED  BY <1>2, <1>3, <1>4, <1>5

(* So the utility goes on in order after a reply. *)
LEMMA AfterOrder ==
  ASSUME TypeInv, OrderInv, NEW p \in Proc, at[p] = "client", NEW P, printed \subseteq P,
         Printing(cfg) /\ req[p].type = "GET_PASSCODE" /\ status[p] = "OK" =>
           <<s[p].e.key, req[p].arg.cards>> \in P
  PROVE  /\ Steps(options[p], After(p))
         /\ After(p) # <<>> => Met(cfg, P, p, After(p)[1])
<1> DEFINE o == options[p]
           Due(sc) == Steps(o, sc) /\ (sc # <<>> => Met(cfg, P, p, sc[1]))
<1>1. ASSUME NEW sc, Chain(o, sc)  PROVE Due(sc)
  BY <1>1, MetPlain DEF Chain
<1>2. status[p] = "OK" \/ req[p].type \in {"STATE_LOAD", "UPDATE_LATEST"} => Due(script[p])
  <2>1. Steps(o, script[p])
    BY DEF OrderInv, OrderAt, Linked
  <2> QED  BY <2>1, NextMet
<1>3. Due(<<>>)
  BY DEF Steps
<1>4. \A has : Due(perform_action(o, has))
  BY <1>1, PerformChain
<1>5. req[p].type = "GET_NUM" /\ status[p] = "OK" => Due(Parsed(o, s[p]))
  BY <1>1, ParsedChain, RequestFacts DEF TypeInv, Typed, Getters
<1>6. /\ \A n : Due(<<Req("GET_ALPHABET", [num |-> n])>>)
      /\ Due(<<Req("CLEAR_RECENT_FAILURES", NULL)>>)
  <2>1. /\ \A n : ~Needs(o, Req("GET_ALPHABET", [num |-> n]))
        /\ ~Needs(o, Req("CLEAR_RECENT_FAILURES", NULL))
    BY DEF Needs, Req, Flagged
  <2> QED  BY <1>1, <2>1, ChainShort
<1> HIDE DEF Due
<1>7. Due(After(p))
  BY <1>2, <1>3, <1>4, <1>5, <1>6 DEF After, If
<1> QED  BY <1>7 DEF Due

(* A utility that has left, or has just begun, has nothing to order. *)
LEMMA LeaveOrder ==
  ASSUME Arrays, NEW p \in Proc, Leave(p)
  PROVE  OrderAt(p)' /\ OrderData(p)'
<1>1. at'[p] = "off" /\ s'[p] = NULL /\ new_state'[p] = FALSE
  BY DEF Leave, Arrays
<1> QED  BY <1>1 DEF OrderAt, OrderData, HasNew, Live, Storing

(* The rest of a sequence. *)
LEMMA TailSeq ==
  ASSUME NEW S, NEW sc \in Seq(S), sc # <<>>
  PROVE  /\ Tail(sc) \in Seq(S)
         /\ Len(Tail(sc)) = Len(sc) - 1 /\ Len(sc) \in Nat
         /\ \A i \in 1..Len(Tail(sc)) : Tail(sc)[i] = sc[i + 1]
         /\ Tail(sc) # <<>> => Len(Tail(sc)) >= 1
OBVIOUS

(* The next request or question keeps the order if it is due. *)
LEMMA ContinueOrder ==
  ASSUME Arrays, TypeInv, OrderInv, NEW p \in Proc, at[p] \in {"client", "ask"},
         NEW sc \in Seq(Requests(options[p])), Continue(p, sc),
         printed \subseteq printed', Steps(options[p], sc),
         sc # <<>> => Met(cfg, printed', p, sc[1])
  PROVE  OrderAt(p)' /\ OrderData(p)'
<1>0. OrderAt(p) /\ OrderData(p) /\ cfg' = cfg
  BY DEF OrderInv, Continue
<1>1. CASE sc = <<>>
  <2>1. Leave(p)
    BY <1>1 DEF Continue
  <2> QED  BY <2>1, LeaveOrder
<1>a. ASSUME sc # <<>>, UNCHANGED <<s, new_state, options>>, at'[p] \in {"ask", "request"}
      PROVE  /\ Met(cfg, printed, p, sc[1])' /\ OrderData(p)'
             /\ at'[p] # "off" /\ options'[p].action # "k" =>
                  "salted" \notin options'[p].set \cup options'[p].clear
  <2>1. Met(cfg, printed', p, sc[1]) /\ Met(cfg, printed, p, sc[1])'
    BY <1>0, <1>a DEF Met, NewShown, HasNew, Live, Noted, Shown
  <2>2. OrderData(p)'
    <3>1. \A x : ~Storing(p, x)'
      BY <1>a DEF Storing
    <3>2. HasNew(p)' => Noted(cfg, printed, s[p].e.latest)
      BY <1>0, <1>a DEF OrderData, HasNew, Live
    <3>3. HasNew(p)' => Noted(cfg, printed', s'[p].e.latest)
      BY <1>a, <3>2, PaperGrows
    <3> QED  BY <1>0, <3>1, <3>3 DEF OrderData
  <2>3. at[p] # "off"  OBVIOUS
  <2> QED  BY <1>0, <1>a, <2>1, <2>2, <2>3 DEF OrderAt
<1>2. CASE sc # <<>> /\ Head(sc).type \in Questions
  <2>1. /\ at' = [at EXCEPT ![p] = "ask"] /\ script' = [script EXCEPT ![p] = sc]
        /\ UNCHANGED <<s, new_state, options>>
    BY <1>2 DEF Continue
  <2>2. at'[p] = "ask" /\ script'[p] = sc /\ options'[p] = options[p] /\ Head(sc) = sc[1]
    BY <1>2, <2>1 DEF Arrays
  <2>3. Steps(options'[p], script'[p])
    BY <2>2
  <2> QED  BY <1>2, <1>a, <2>1, <2>2, <2>3 DEF OrderAt
<1>3. CASE sc # <<>> /\ Head(sc).type \notin Questions
  <2>1. /\ at' = [at EXCEPT ![p] = "request"] /\ script' = [script EXCEPT ![p] = Tail(sc)]
        /\ req' = [req EXCEPT ![p] = Head(sc)]
        /\ UNCHANGED <<s, new_state, options>>
    BY <1>3 DEF Continue
  <2>2. at'[p] = "request" /\ script'[p] = Tail(sc) /\ req'[p] = sc[1] /\ options'[p] = options[p]
    BY <1>3, <2>1 DEF Arrays
  <2>3. Linked(p)'
    <3>1. /\ Len(Tail(sc)) = Len(sc) - 1 /\ Len(sc) \in Nat
          /\ \A i \in 1..Len(Tail(sc)) : Tail(sc)[i] = sc[i + 1]
          /\ Tail(sc) # <<>> => Len(Tail(sc)) >= 1
      BY <1>3, TailSeq
    <3> DEFINE t == Tail(sc)
    <3> HIDE DEF t
    <3>2. ASSUME NEW i \in 2..Len(t)  PROVE May(options[p], t[i - 1], t[i])
      <4>1. i + 1 \in 2..Len(sc) /\ (i + 1) - 1 = i /\ t[i] = sc[i + 1] /\ t[i - 1] = sc[i]
        BY <3>1 DEF t
      <4> QED  BY <4>1 DEF Steps
    <3>3. t # <<>> => May(options[p], sc[1], t[1])
      <4> SUFFICES ASSUME t # <<>>  PROVE May(options[p], sc[1], t[1])
        OBVIOUS
      <4>1. 2 \in 2..Len(sc) /\ t[1] = sc[2] /\ 2 - 1 = 1
        BY <3>1 DEF t
      <4> QED  BY <4>1 DEF Steps
    <3> QED  BY <2>2, <3>2, <3>3 DEF Linked, Steps, t
  <2> QED  BY <1>3, <1>a, <2>1, <2>2, <2>3 DEF OrderAt
<1> QED  BY <1>1, <1>2, <1>3

(* A step of p's utility keeps p in order. *)
LEMMA UtilityOrder ==
  ASSUME Arrays, TypeInv, OrderInv, NEW p \in Proc,
         run_cli(p) \/ receive(p) \/ receive_last(p) \/ answer(p) \/ kill(p)
  PROVE  OrderAt(p)' /\ OrderData(p)' /\ printed \subseteq printed'
<1>1. CASE run_cli(p)
  <2>1. PICK argv \in CommandLines :
          LET r == process_cmd_line(p \in Root, argv)
              o == r.options IN
          /\ ~r.error /\ o.action \notin {"none", "h"}
          /\ options' = [options EXCEPT ![p] = o]
          /\ req' = [req EXCEPT ![p] =
               IF o.username # NULL THEN Req("USER_SET", [str |-> o.username])
                                    ELSE Req("STATE_LOAD", NULL)]
          /\ script' = [script EXCEPT ![p] =
               If(o.username # NULL, <<Req("STATE_LOAD", NULL)>>)]
    BY <1>1 DEF run_cli
  <2> DEFINE o == process_cmd_line(p \in Root, argv).options
  <2>2. /\ options'[p] = o
        /\ req'[p].type \in {"USER_SET", "STATE_LOAD"}
        /\ script'[p] \in {<<>>, <<Req("STATE_LOAD", NULL)>>}
    BY <2>1 DEF Arrays, Req, If
  <2>3. o.action # "k" => "salted" \notin o.set \cup o.clear
    BY <2>1 DEF process_cmd_line
  <2>4. /\ at'[p] = "request" /\ UNCHANGED <<s, new_state, printed>>
        /\ s[p] = NULL /\ new_state[p] = FALSE
    BY <1>1 DEF run_cli, Arrays, TypeInv, Typed
  <2> HIDE DEF o
  <2>5. Linked(p)'
    BY <2>2 DEF Linked, Steps, May, Req, Flagged
  <2>6. Met(cfg, printed, p, req[p])'
    BY <2>2 DEF Met, Flagged
  <2> QED
    BY <2>2, <2>3, <2>4, <2>5, <2>6 DEF OrderAt, OrderData, HasNew, Live, Storing
<1>2. CASE receive(p)
  <2>1. at[p] = "client" /\ Continue(p, After(p))
    BY <1>2 DEF receive
  <2>2. /\ printed \subseteq printed'
        /\ Printing(cfg) /\ req[p].type = "GET_PASSCODE" /\ status[p] = "OK" =>
             <<s[p].e.key, req[p].arg.cards>> \in printed'
    <3>1. ASSUME Printing(cfg), req[p].type = "GET_PASSCODE", status[p] = "OK"
          PROVE  ppp_get_passcode(s[p].e, req[p].arg.cards) = req[p].arg.cards
      <4>1. s[p] # NULL
        BY <2>1, <3>1 DEF TypeInv, Typed, Getters
      <4>2. s[p].e.alphabet \in Printable(cfg)
        BY <4>1 DEF TypeInv, Typed, GoodState, GoodEntry
      <4>3. ppp_verify_alphabet(s[p].e.alphabet) = "OK"
        BY <3>1, <4>2 DEF Printable, ppp_verify_alphabet
      <4> QED  BY <4>3 DEF ppp_get_passcode
    <3> QED  BY <1>2, <3>1 DEF receive
  <2>3. After(p) \in Seq(Requests(options[p]))
    BY <2>1, AfterTyped
  <2>4. /\ Steps(options[p], After(p))
        /\ After(p) # <<>> => Met(cfg, printed', p, After(p)[1])
    BY <2>1, <2>2, AfterOrder
  <2> QED  BY <2>1, <2>2, <2>3, <2>4, ContinueOrder
<1>3. CASE answer(p)
  <2> DEFINE o == options[p]
             t == Tail(script[p])
             R == Requests(o)
  <2>1. /\ at[p] = "ask" /\ UNCHANGED printed
        /\ \/ Continue(p, t)
           \/ Continue(p, <<>>)
           \/ \E pass \in Passwords : Continue(p, SetSpass(pass)) /\ script[p][1].type = "PASS"
    <3>1. Head(script[p]) = script[p][1]  OBVIOUS
    <3> QED  BY <1>3, <3>1 DEF answer
  <2>2. /\ script[p] \in Seq(R) /\ script[p] # <<>> /\ OrderAt(p)
        /\ Steps(o, script[p]) /\ Met(cfg, printed, p, script[p][1])
        /\ script[p][1].type \in Questions
    BY <2>1 DEF TypeInv, Typed, OrderInv, OrderAt
  <2> HIDE DEF R
  <2>3. /\ t \in Seq(R)
        /\ Len(t) = Len(script[p]) - 1 /\ Len(script[p]) \in Nat
        /\ \A i \in 1..Len(t) : t[i] = script[p][i + 1]
        /\ t # <<>> => Len(t) >= 1
    BY <2>2, TailSeq
  <2> HIDE DEF t
  <2>4. Steps(o, t)
    <3> SUFFICES ASSUME NEW i \in 2..Len(t)  PROVE May(o, t[i - 1], t[i])
      BY DEF Steps
    <3>1. i + 1 \in 2..Len(script[p]) /\ (i + 1) - 1 = i /\ (i - 1) + 1 = i
          /\ i \in 1..Len(t) /\ i - 1 \in 1..Len(t)
      BY <2>3
    <3>2. t[i] = script[p][i + 1] /\ t[i - 1] = script[p][(i - 1) + 1]
      BY <2>3, <3>1
    <3> QED  BY <2>2, <3>1, <3>2 DEF Steps
  <2>5. ASSUME t # <<>>  PROVE Met(cfg, printed', p, t[1])
    <3>1. 2 \in 2..Len(script[p]) /\ t[1] = script[p][2] /\ 2 - 1 = 1
      BY <2>3, <2>5
    <3>2. May(o, script[p][1], t[1])
      BY <2>2, <3>1 DEF Steps
    <3>3. t[1].type # "UPDATE_LATEST" /\ t[1].type # "READY"
      BY <2>2, <3>2 DEF May, Questions
    <3>4. o.action = "k" => t[1].type \notin Flagged
      BY <2>2, <3>2 DEF May, Questions
    <3>5. t[1].type = "STATE_STORE" => script[p][1].type = "READY"
      BY <3>2 DEF May
    <3> QED  BY <2>1, <2>2, <3>3, <3>4, <3>5 DEF Met
  <2>6. <<>> \in Seq(R) /\ Steps(o, <<>>)
    BY DEF Steps
  <2>7. ASSUME NEW pass \in Passwords, script[p][1].type = "PASS"
        PROVE  /\ SetSpass(pass) \in Seq(R) /\ Steps(o, SetSpass(pass))
               /\ Met(cfg, printed', p, SetSpass(pass)[1])
    <3> DEFINE set == Req("SET_SPASS", [spass |-> pass])
    <3>1. script[p][1] \in R
      BY <2>2
    <3>2. o.action # "k"
      BY <2>7, <3>1, RequestFacts DEF R
    <3>3. set \in R
      BY <3>2 DEF R, Requests, OtherRequests, OtherPlain
    <3>4. ~Needs(o, set)
      BY DEF Needs, Req, Flagged
    <3> HIDE DEF set
    <3>5. Met(cfg, printed', p, set)
      BY <3>4, MetPlain
    <3>6. SetSpass(pass) = <<set>>
      BY DEF SetSpass, set
    <3> QED  BY <3>3, <3>4, <3>5, <3>6, ChainShort DEF Chain
  <2> QED  BY <2>1, <2>3, <2>4, <2>5, <2>6, <2>7, ContinueOrder DEF R
<1>4. CASE kill(p) \/ receive_last(p)
  BY <1>4, LeaveOrder DEF kill, receive_last
<1> QED  BY <1>1, <1>2, <1>3, <1>4

(* So does a step of p's agent before its store. *)
LEMMA AgentOrder ==
  ASSUME LockInv, TypeInv, OrderInv, NEW p \in Proc, Refuse(p) \/ request_execute(p),
         UNCHANGED utilityVars
  PROVE  OrderAt(p)' /\ OrderData(p)'
<1> DEFINE o == options[p]
           r == req[p]
<1>1. /\ at[p] = "request" /\ at'[p] \in {"client", "store", "bye"} /\ UNCHANGED <<req, db, cfg>>
      /\ lock # p
  BY RequestKinds DEF LockInv, LockStored, Moved, Worked
<1>2. /\ r \in Requests(o) /\ OrderAt(p) /\ OrderData(p)
      /\ Linked(p) /\ Met(cfg, printed, p, r)
  BY <1>1 DEF TypeInv, Typed, OrderInv, OrderAt
<1>3. UNCHANGED <<options, script, printed>>
  BY DEF utilityVars
<1>4. KeepsKey(p) /\ Stores(p)
  BY RequestKeys
<1>5. Linked(p)'
  BY <1>1, <1>2, <1>3 DEF Linked
<1>6. o.action = "k" /\ r.type \in {"UPDATE_LATEST", "READY"} => NewShown(cfg, printed, p)'
  BY <1>1, <1>2, <1>3, <1>4 DEF KeepsKey, Met, NewShown, HasNew
<1>7. o.action = "k" /\ status'[p] = "OK" /\ r.type \in {"STATE_NEW", "FLAG_ADD"}
        => new_state'[p]
  BY <1>2, NewBuilt, FlagsChanged DEF Met, Flagged, LockInv
<1>8. o.action = "k" /\ at'[p] = "store" => r.type \notin Flagged \cup {"STATE_NEW"}
  BY <1>2, NewBuilt, FlagsChanged DEF Met, LockInv
<1>9. OrderAt(p)'
  BY <1>1, <1>2, <1>3, <1>5, <1>6, <1>7, <1>8 DEF OrderAt
<1>10. HasNew(p)' => Noted(cfg, printed', s'[p].e.latest)
  <2> SUFFICES ASSUME HasNew(p)'  PROVE Noted(cfg, printed, s'[p].e.latest)
    BY <1>1, <1>3
  <2>1. CASE HasNew(p) /\ Latest(p, s'[p])
    BY <1>2, <2>1 DEF OrderData, Latest, Met
  <2>2. CASE s'[p].e.latest = 0
    BY <2>2 DEF Noted
  <2> QED  BY <1>4, <2>1, <2>2 DEF KeepsKey, HasNew
<1>11. Storing(p, "UPDATE_LATEST")' => Noted(cfg, printed', out'[p].entry.latest)
  <2> SUFFICES ASSUME at'[p] = "store", r.type = "UPDATE_LATEST"
               PROVE  Noted(cfg, printed, out'[p].entry.latest)
    BY <1>1, <1>3 DEF Storing
  <2> QED  BY <1>2, <1>4 DEF Stores, Met, OrderInv
<1>12. Storing(p, "STATE_STORE")' => /\ Noted(cfg, printed', out'[p].entry.latest)
                                     /\ Shown(cfg, printed', out'[p].entry.key)
  <2> SUFFICES ASSUME at'[p] = "store", r.type = "STATE_STORE", lock' = p
               PROVE  /\ Noted(cfg, printed, out'[p].entry.latest)
                      /\ Shown(cfg, printed, out'[p].entry.key)
    BY <1>1, <1>3 DEF Storing
  <2>1. HasNew(p) /\ out'[p].entry = s[p].e
    BY <1>4 DEF Stores
  <2>2. o.action = "k"
    BY <1>2, RequestFacts
  <2> QED  BY <1>2, <2>1, <2>2 DEF OrderData, Met, NewShown
<1>13. ASSUME NEW t \in Flagged, Storing(p, t)'  PROVE SaltKept(out'[p].entry, db')
  <2>1. r.type \in Flagged /\ at'[p] = "store"
    BY <1>1, <1>13 DEF Storing
  <2>2. /\ ~new_state[p] /\ db # NULL
        /\ out'[p].entry = Change(p, ppp_calculate(db)).st.e
    BY <2>1, FlagsChanged DEF LockInv
  <2>3. o.action # "k"
    BY <1>2, <2>1, <2>2 DEF Met
  <2>4. "salted" \notin r.arg.flags
    BY <1>1, <1>2, <2>1, <2>3, RequestFacts DEF OrderAt, Flagged
  <2>5. GoodEntry(db, cfg, keys, logins)
    BY <2>2 DEF TypeInv
  <2> QED  BY <1>1, <2>1, <2>2, <2>4, <2>5, ChangeKeepsSalt
<1>14. OrderData(p)'
  BY <1>1, <1>10, <1>11, <1>12, <1>13 DEF OrderData
<1> QED  BY <1>9, <1>14

(* And so does its store, after which it holds no lock. *)
LEMMA FinishOrder ==
  ASSUME LockInv, OrderInv, NEW p \in Proc, Finish(p), UNCHANGED utilityVars
  PROVE  OrderAt(p)' /\ OrderData(p)'
<1>1. /\ at[p] = "store" /\ at'[p] = "client"
      /\ UNCHANGED <<cfg, s, new_state, req, out, options, script, printed>>
  BY DEF Finish, Reply, LockInv, Arrays, utilityVars
<1>2. OrderAt(p) /\ OrderData(p)
  BY DEF OrderInv
<1>3. \A t : ~Storing(p, t)'
  BY <1>1 DEF Storing
<1>4. Linked(p) /\ Linked(p)'
  BY <1>1, <1>2 DEF OrderAt, Linked
<1>5. OrderAt(p)'
  <2>1. NewShown(cfg, printed, p) => NewShown(cfg, printed, p)'
    BY <1>1 DEF NewShown, HasNew, Live, Shown
  <2> QED  BY <1>1, <1>2, <1>4, <2>1 DEF OrderAt, Flagged
<1>6. OrderData(p)'
  BY <1>1, <1>2, <1>3 DEF OrderData, HasNew, Live
<1> QED  BY <1>5, <1>6

(* Others stay in order: paper is only added to, and nobody writes the     *)
(* entry that another is about to change.                                  *)
LEMMA OthersOrder ==
  ASSUME NEW p \in Proc, NEW q \in Proc \ {p}, Frame(p), OrderAt(q), OrderData(q),
         cfg' = cfg, printed \subseteq printed', lock' = q => lock = q /\ db' = db
  PROVE  OrderAt(q)' /\ OrderData(q)'
<1>1. /\ at'[q] = at[q] /\ s'[q] = s[q] /\ new_state'[q] = new_state[q]
      /\ req'[q] = req[q] /\ status'[q] = status[q] /\ out'[q] = out[q]
      /\ options'[q] = options[q] /\ script'[q] = script[q]
  BY DEF Frame
<1>2. /\ \A k : Shown(cfg, printed, k) => Shown(cfg, printed', k)
      /\ \A n : Noted(cfg, printed, n) => Noted(cfg, printed', n)
  BY PaperGrows
<1>3. /\ HasNew(q)' <=> HasNew(q)
      /\ \A t : Storing(q, t)' => Storing(q, t) /\ db' = db
  BY <1>1 DEF HasNew, Live, Storing
<1>4. NewShown(cfg, printed, q) => NewShown(cfg, printed, q)'
  BY <1>1, <1>2, <1>3 DEF NewShown
<1>5. \A r : Met(cfg, printed, q, r) => Met(cfg, printed', q, r) /\ (r = req[q] => Met(cfg, printed, q, req[q])')
  BY <1>1, <1>2, <1>4 DEF Met, NewShown, HasNew, Live
<1>6. Linked(q) => Linked(q)'
  BY <1>1 DEF Linked
<1>7. Met(cfg, printed, q, script[q][1]) => Met(cfg, printed, q, script[q][1])'
  BY <1>1, <1>2, <1>4 DEF Met
<1>8. OrderAt(q)'
  BY <1>1, <1>4, <1>5, <1>6, <1>7 DEF OrderAt
<1>9. OrderData(q)'
  BY <1>1, <1>2, <1>3 DEF OrderData
<1> QED  BY <1>8, <1>9

(* Initially a key that is in force has its card on paper. *)
LEMMA OrderInit == Init => OrderInv
<1> SUFFICES ASSUME Init  PROVE OrderInv
  OBVIOUS
<1>1. \A p \in Proc : at[p] = "off" /\ s[p] = NULL /\ new_state[p] = FALSE
  BY DEF Init
<1>2. \A p \in Proc : OrderAt(p) /\ OrderData(p)
  BY <1>1 DEF OrderAt, OrderData, HasNew, Live, Storing
<1>3. ASSUME db # NULL  PROVE Shown(cfg, printed, db.key) /\ Noted(cfg, printed, db.latest)
  <2> DEFINE sheet == <<0, {1}>>
  <2>1. db.key = 0 /\ db.latest = 1 /\ printed = {sheet}
    <3>1. db \in {OldEntry(cfg, n) : n \in Used} /\ printed = {<<0, {1}>>}
      BY <1>3 DEF Init
    <3>2. \A n : OldEntry(cfg, n).key = 0 /\ OldEntry(cfg, n).latest = 1
      BY DEF OldEntry
    <3> QED  BY <3>1, <3>2
  <2>2. sheet[1] = 0 /\ sheet[2] = {1}
    OBVIOUS
  <2> HIDE DEF sheet
  <2> QED  BY <2>1, <2>2 DEF Shown, Noted, Stands
<1> QED  BY <1>2, <1>3 DEF OrderInv

(* Requests stay in order. *)
LEMMA OrderStep == LockInv /\ TypeInv /\ KeyInv /\ OrderInv /\ [Next]_vars => OrderInv'
<1> SUFFICES ASSUME LockInv, TypeInv, KeyInv, OrderInv, [Next]_vars  PROVE OrderInv'
  OBVIOUS
<1>0. Free \notin Proc
  BY RequestAssumption
<1>1. CASE UNCHANGED vars
  BY <1>1 DEF vars, agentVars, utilityVars, OrderInv, OrderAt, OrderData, Linked, Met,
              NewShown, HasNew, Live, Storing
<1>2. CASE login
  <2>1. /\ UNCHANGED <<cfg, at, s, new_state, req, status, out, options, script, printed>>
        /\ lock = Free /\ lock' = Free /\ db # NULL
        /\ \E failed \in 0..1 : db' = [db EXCEPT !.counter = @ + 1, !.recent = @ + failed]
    BY <1>2 DEF login
  <2>2. db'.key = db.key /\ db'.latest = db.latest
    BY <2>1 DEF TypeInv, GoodEntry, Fields
  <2>3. \A p \in Proc : OrderAt(p)'
    BY <2>1 DEF OrderInv, OrderAt, Linked, Met, NewShown, HasNew, Live
  <2>4. \A p \in Proc : OrderData(p)'
    BY <1>0, <2>1 DEF OrderInv, OrderData, HasNew, Live, Storing
  <2> QED  BY <2>1, <2>2, <2>3, <2>4 DEF OrderInv
<1>3. ASSUME NEW p \in Proc,
             run_cli(p) \/ receive(p) \/ receive_last(p) \/ answer(p) \/ agent(p) \/ kill(p)
      PROVE  OrderInv'
  <2> DEFINE U == run_cli(p) \/ receive(p) \/ receive_last(p) \/ answer(p) \/ kill(p)
             A == Refuse(p) \/ request_execute(p)
  <2>1. Frame(p)
    BY <1>3, AgentArrays, UtilityArrays DEF LockInv
  <2>2. U \/ ((A \/ Finish(p)) /\ UNCHANGED utilityVars)
    BY <1>3 DEF agent, request_handle
  <2>3. OrderAt(p)' /\ OrderData(p)' /\ printed \subseteq printed'
    BY <2>2, UtilityOrder, AgentOrder, FinishOrder DEF LockInv, utilityVars
  <2>4. U => UNCHANGED <<cfg, db, logins>>
    BY UtilityMemory DEF LockInv
  <2>5. A => UNCHANGED <<cfg, db>> /\ (Moved(p) \/ Worked(p))
    BY RequestKinds DEF LockInv, Moved, Worked
  <2>6. ASSUME NEW q \in Proc \ {p}, lock' = q  PROVE lock = q /\ db' = db
    <3>1. U => Moved(p) \/ Left(p)
      BY UtilityKinds DEF LockInv
    <3> HIDE DEF U, A
    <3>2. lock = q
      BY <1>0, <2>2, <2>5, <2>6, <3>1 DEF Moved, Worked, Left, Unlock, Finish
    <3>3. Finish(p) => UNCHANGED db
      BY <3>2 DEF Finish
    <3> QED  BY <2>2, <2>4, <2>5, <3>2, <3>3
  <2> HIDE DEF U, A
  <2>c. cfg' = cfg
    BY <2>2, <2>4, <2>5 DEF Finish
  <2>7. ASSUME NEW q \in Proc \ {p}  PROVE OrderAt(q)' /\ OrderData(q)'
    <3>1. OrderAt(q) /\ OrderData(q)
      BY DEF OrderInv
    <3> QED  BY <2>1, <2>3, <2>6, <2>c, <3>1, OthersOrder
  <2>8. ASSUME db' # NULL  PROVE Shown(cfg, printed', db'.key) /\ Noted(cfg, printed', db'.latest)
    <3>1. Shown(cfg, printed, db'.key) /\ Noted(cfg, printed, db'.latest)
      <4>1. CASE db' = db
        BY <2>8, <4>1 DEF OrderInv
      <4>2. CASE db' # db
        <5>1. ~login
          <6>1. logins' = logins /\ logins \in Nat
            BY <2>2, <2>4, UtilityAssumption DEF utilityVars, TypeInv
          <6> QED  BY <6>1 DEF login
        <5>2. CASE \E r \in Proc : /\ Storing(r, "STATE_STORE") /\ Finish(r)
                                   /\ out[r].ret = "OK" /\ db' = out[r].entry
          BY <5>2 DEF OrderInv, OrderData
        <5>3. CASE /\ db # NULL /\ db'.key = db.key
                   /\ db'.latest # db.latest =>
                        \E r \in Proc : Storing(r, "UPDATE_LATEST") /\ db' = out[r].entry
          BY <5>3 DEF OrderInv, OrderData
        <5> QED  BY <2>8, <4>2, <5>1, <5>2, <5>3, WrittenKey
      <4> QED  BY <4>1, <4>2
    <3> QED  BY <2>3, <3>1, PaperGrows
  <2> QED  BY <2>3, <2>7, <2>8, <2>c DEF OrderInv
<1> QED  BY <1>1, <1>2, <1>3 DEF Next

(* Requests come in order in every behaviour. *)
THEOREM OrderInvariant == Spec => [](LockInv /\ TypeInv /\ KeyInv /\ OrderInv)
<1>1. Init => OrderInv
  BY OrderInit
<1>2. LockInv /\ TypeInv /\ KeyInv /\ OrderInv /\ [Next]_vars => OrderInv'
  BY OrderStep
<1> QED  BY <1>1, <1>2, KeyInvariant, PTL DEF Spec

(***************************************************************************)
(* LatestPrintedUnlessLatex: but for pages of LaTeX, whose successor is    *)
(* noted without having been printed, the card recorded as the latest      *)
(* printed one was printed, whoever prints at the same time.               *)
(***************************************************************************)
THEOREM UtilityPrinted == Spec => []LatestPrintedUnlessLatex
<1>1. TypeInv /\ OrderInv => LatestPrintedUnlessLatex
  <2> SUFFICES ASSUME TypeInv, OrderInv, CanPrint, db # NULL, db.latest > 0,
                      ~AfterPage(db.latest)
               PROVE  \E sheet \in printed : db.latest \in sheet[2]
    BY DEF LatestPrintedUnlessLatex
  <2>1. db.latest # 0
    BY DEF TypeInv, GoodEntry
  <2>2. Printing(cfg)
    BY CanPrintFacts
  <2>3. \E sheet \in printed : Stands(sheet[2], db.latest)
    BY <2>1, <2>2 DEF OrderInv, Noted
  <2> QED  BY <2>3 DEF Stands, AfterPage
<1> QED  BY <1>1, OrderInvariant, PTL

(***************************************************************************)
(* StoredKeyShown: under a policy that accepts its default alphabet no key *)
(* is in force whose first card is not on paper, even if printing is       *)
(* denied.  Under another the first card has no passcodes.                 *)
(***************************************************************************)
THEOREM UtilityShown == Spec => []StoredKeyShown
<1>1. OrderInv => StoredKeyShown
  BY CanPrintFacts DEF OrderInv, Shown, StoredKeyShown, OnPaper
<1> QED  BY <1>1, OrderInvariant, PTL

(***************************************************************************)
(* SaltFixed: no run of the utility changes the salt of a key in force.    *)
(* -k may ask for the flag, but then it builds a new state: what is stored *)
(* has a fresh key.                                                        *)
(***************************************************************************)
THEOREM UtilitySalt == Spec => SaltFixed
<1> DEFINE A == db # NULL /\ db' # NULL /\ db'.key = db.key =>
                  ("salted" \in db'.flags <=> "salted" \in db.flags)
<1>1. LockInv /\ TypeInv /\ KeyInv /\ OrderInv /\ [Next]_vars => A
  <2> SUFFICES ASSUME LockInv, TypeInv, KeyInv, OrderInv, [Next]_vars,
                      db # NULL, db' # NULL, db'.key = db.key, db' # db
               PROVE  SaltKept(db', db)
    BY DEF SaltKept
  <2>1. CASE login
    <3>1. db'.flags = db.flags
      BY <2>1 DEF login, TypeInv, GoodEntry, Fields
    <3> QED  BY <3>1 DEF SaltKept
  <2>2. ASSUME NEW p \in Proc, at[p] = "store", lock = p, db' = out[p].entry
        PROVE  SaltKept(db', db)
    <3>1. req[p].type # "KEY_REMOVE"
      BY <2>2 DEF KeyInv, KeyPart
    <3>2. req[p].type # "STATE_STORE"
      BY <2>2 DEF KeyInv, KeysFresh, NewKey, Storing
    <3>3. \A f \in DOMAIN db : db'[f] # db[f] => f \in OwnFields(req[p])
      BY <2>2, <3>1, <3>2 DEF LockInv, PendingKept, Pending
    <3>4. "flags" \in DOMAIN db
      BY DEF TypeInv, GoodEntry, Fields
    <3>5. req[p] \in Requests(options[p])
      BY <2>2 DEF TypeInv, Typed
    <3>6. "flags" \in OwnFields(req[p]) => req[p].type \in Flagged
      BY <3>5, RequestFacts DEF OwnFields, Flagged
    <3>7. CASE db'.flags = db.flags
      BY <3>7 DEF SaltKept
    <3>8. CASE req[p].type \in Flagged
      BY <2>2, <3>8 DEF OrderInv, OrderData, Storing
    <3> QED  BY <3>3, <3>4, <3>6, <3>7, <3>8
  <2> QED  BY <2>1, <2>2, WriterKinds DEF LockInv
<1> QED  BY <1>1, OrderInvariant, PTL DEF Spec, SaltFixed

=============================================================================
