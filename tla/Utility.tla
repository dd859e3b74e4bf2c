------------------------------ MODULE Utility ------------------------------
(***************************************************************************)
(* The otpasswd utility (src/utility): a command line is parsed into       *)
(* options, the options into the requests an action sends to its agent,    *)
(* one after the other, until one fails.  Two users' or one user's         *)
(* utilities may run at once, and the user may log in meanwhile.           *)
(*                                                                         *)
(* A command line is a sequence of <<option>> or <<option, argument>>.     *)
(* An argument of -c is <<"flag", name, value>> or <<setting, value>>; a   *)
(* passcode specification is <<"current">>, <<"[current]">>, <<"next">>,   *)
(* <<"[n]", n>> or <<"n", n>>, or anything else; an address on a card is   *)
(* given as the passcode's number, which Passcard computes.                *)
(***************************************************************************)
EXTENDS AgentRequest, SequencesExt

CONSTANTS CommandLines, \* command lines that are typed
          Passwords,    \* static passwords typed at the prompt; NULL: empty
          Used,         \* passcodes used before the behaviour starts
          LATEX,        \* cards on a LaTeX page (6 in the code)
          MAX_COMMANDS, \* bound: commands run
          MAX_LOGINS    \* bound: passcodes taken by PAM meanwhile

ASSUME UtilityAssumption == /\ Used \subseteq 0..NUMSPACE
                            /\ LATEX \in Nat \ {0}
                            /\ MAX_COMMANDS \in Nat
                            /\ MAX_LOGINS \in Nat

VARIABLES options,      \* the parsed command line
          script,       \* requests and questions p's action has left
          commands,     \* commands run so far
          logins,       \* logins so far
          printed       \* history: sheets of paper, <<key, cards>>

utilityVars == <<options, script, commands, logins, printed>>
vars == <<agentVars, utilityVars>>
-----------------------------------------------------------------------------
(* The command line. *)
NoOptions == [action |-> "none", arg |-> <<>>, label |-> NULL, contact |-> NULL,
              spass |-> NULL, username |-> NULL, set |-> {}, clear |-> {},
              code_length |-> -1, alphabet |-> -1, error |-> FALSE]
Bad(o) == [o EXCEPT !.error = TRUE]

(* parse_flag: one argument of -c. *)
parse_flag(o, arg) ==
    LET n == CASE arg[1] = "flag" /\ arg[3] -> [o EXCEPT !.set = @ \cup {arg[2]}]
               [] arg[1] = "flag" /\ ~arg[3] -> [o EXCEPT !.clear = @ \cup {arg[2]}]
               [] arg[1] = "alphabet=list" ->
                    IF o.action = "c" THEN [o EXCEPT !.action = "A"] ELSE Bad(o)
               [] arg[1] \in {"label", "contact"} ->
                    IF o[arg[1]] # NULL THEN Bad(o) ELSE [o EXCEPT ![arg[1]] = arg[2]]
               [] arg[1] = "code_length" ->
                    IF arg[2] \in 2..16 THEN [o EXCEPT !.code_length = arg[2]]
                    ELSE Bad(o)
               [] arg[1] = "alphabet" ->
                    IF arg[2] \in Alphabets THEN [o EXCEPT !.alphabet = arg[2]]
                    ELSE Bad(o)
               [] OTHER -> Bad(o)
    IN IF n.set \cap n.clear # {} THEN Bad(n) ELSE n

(* One turn of the getopt_long loop. *)
option(root, o, t) ==
    LET c == t[1] IN
    IF o.error THEN o
    ELSE IF c \in {"w", "k", "r", "x", "h", "i", "I", "p"}
      THEN IF o.action # "none" /\ ~(o.action = "c" /\ c = "k") THEN Bad(o)
           ELSE [o EXCEPT !.action = c, !.spass = IF Len(t) = 2 THEN t[2] ELSE NULL]
    ELSE IF c \in {"s", "t", "l", "P", "a"}
      THEN IF o.action # "none" THEN Bad(o)
           ELSE [o EXCEPT !.action = c, !.arg = t[2]]
    ELSE IF c = "c"
      THEN IF o.action \notin {"none", "c", "k"} THEN Bad(o)
           ELSE parse_flag([o EXCEPT !.action = IF @ = "none" THEN "c" ELSE @], t[2])
    ELSE IF c = "u"
      THEN IF ~root \/ o.username # NULL THEN Bad(o) ELSE [o EXCEPT !.username = t[2]]
    ELSE IF c = "v" THEN o
    ELSE Bad(o)                              \* --version, '?', garbage

(* The options the loop leaves. *)
getopt(root, argv) ==
    LET Turn(o, t) == option(root, o, t) IN FoldLeft(Turn, NoOptions, argv)

(* Mutant: the last check of process_cmd_line is dropped. *)
salt_unchecked(root, argv) ==
    LET o == getopt(root, argv) IN [options |-> o, error |-> o.error]

(* process_cmd_line: the options and whether it returns an error. *)
process_cmd_line(root, argv) ==
    LET o == getopt(root, argv)
    IN [options |-> o,
        error |-> o.error \/ ("salted" \in (o.set \cup o.clear) /\ o.action # "k")]
-----------------------------------------------------------------------------
(***************************************************************************)
(* Actions as scripts: the requests they send, and the questions they ask  *)
(* the user in between.  Getters in a row are one request: they read a->s, *)
(* which only this agent changes; for the same reason a card (card_ascii)  *)
(* or a page of cards is one GET_PASSCODE with the set of its cards.       *)
(***************************************************************************)
If(cond, seq) == IF cond THEN seq ELSE <<>>

SetInt(field, n) == Req("SET_INT", [field |-> field, int |-> n])
SetStr(field, x) == Req("SET_STR", [field |-> field, str |-> x])
Passcodes(cards) == Req("GET_PASSCODE", [cards |-> cards])
card_ascii(n) == Passcodes({n})
UpdateLatest(n) == Req("UPDATE_LATEST", [num |-> n])

(* ah_set_options *)
ah_set_options(o) ==
    If(o.set # {}, <<Req("FLAG_ADD", [flags |-> o.set])>>)
    \o If(o.clear # {}, <<Req("FLAG_CLEAR", [flags |-> o.clear])>>)
    \o If(o.code_length # -1, <<SetInt("code_length", o.code_length)>>)
    \o If(o.alphabet # -1, <<SetInt("alphabet", o.alphabet)>>)
    \o If(o.contact # NULL, <<SetStr("contact", o.contact)>>)
    \o If(o.label # NULL, <<SetStr("label", o.label)>>)

(* Mutant: the key is stored before the first card is printed. *)
store_before_card(o, has) ==
    If(has, <<Req("FLAG_GET", NULL), Req("STATE_DROP", NULL)>>)
    \o <<Req("STATE_NEW", NULL)>> \o ah_set_options(o)
    \o If(has, <<Req("SURE", NULL)>>)
    \o <<Req("KEY_GENERATE", NULL), Req("READY", NULL), Req("STATE_STORE", NULL),
         Req("STATE_LOAD", NULL), card_ascii(1), UpdateLatest(1)>>

(***************************************************************************)
(* action_key_generate.  Where the policy denies printing passcodes,       *)
(* card_ascii returns NULL and puts(NULL) kills the utility: the script    *)
(* ends at GET_PASSCODE as it does after any error.                        *)
(***************************************************************************)
action_key_generate(o, has) ==
    If(has, <<Req("FLAG_GET", NULL), Req("STATE_DROP", NULL)>>)
    \o <<Req("STATE_NEW", NULL)>> \o ah_set_options(o)
    \o If(has, <<Req("SURE", NULL)>>)
    \o <<Req("FLAG_GET", NULL), Req("KEY_GENERATE", NULL),      \* ah_show_flags
         card_ascii(1), UpdateLatest(1),
         Req("READY", NULL), Req("STATE_STORE", NULL)>>

(* action_config *)
action_config(o) ==
    If(o.label # NULL, <<SetStr("label", o.label)>>)
    \o If(o.contact # NULL, <<SetStr("contact", o.contact)>>)
    \o If(o.alphabet # -1, <<SetInt("alphabet", o.alphabet)>>)
    \o If(o.code_length # -1, <<SetInt("code_length", o.code_length)>>)
    \o If(o.set # {}, <<Req("FLAG_ADD", [flags |-> o.set])>>)
    \o If(o.clear # {}, <<Req("FLAG_CLEAR", [flags |-> o.clear])>>)

action_authenticate == <<Req("AUTHENTICATE", NULL)>>

action_key_remove ==
    <<Req("SURE", NULL), Req("STATE_DROP", NULL), Req("KEY_REMOVE", NULL)>>

(* action_spass; an empty password (NULL) unsets it. *)
SetSpass(pass) == <<Req("SET_SPASS", [spass |-> pass])>>
action_spass(o) == IF o.spass = NULL THEN <<Req("PASS", NULL)>> ELSE SetSpass(o.spass)

action_warnings == <<Req("GET_WARNINGS", NULL)>>

(* ah_show_state, ah_show_flags, ah_show_keys *)
ah_show_state == <<Req("GET_NUM", NULL), Req("GET_INT", NULL)>>
ah_show_flags == <<Req("FLAG_GET", NULL), Req("GET_INT", NULL),
                   Req("GET_STR", [str |-> "contact"])>>
ah_show_keys == <<Req("GET_STR", [str |-> "key"]), Req("GET_NUM", NULL)>>

action_info(o) == CASE o.action = "A" -> <<Req("GET_ALPHABET", [num |-> 0])>>
                    [] o.action = "i" -> ah_show_state \o ah_show_flags
                    [] o.action = "I" -> ah_show_keys

(* Actions that read a passcode specification: Parsed has the rest. *)
WithSpec == {"t", "l", "P", "s"}

(* Every action but -k, -c and the list of alphabets needs a state. *)
NeedsState == {"a", "r", "p", "w", "i", "I"} \cup WithSpec

perform_action(o, has) ==
    IF ~has /\ o.action \in NeedsState THEN <<>>
    ELSE CASE o.action = "k" -> action_key_generate(o, has)
           [] o.action = "c" -> action_config(o)
           [] o.action = "a" -> action_authenticate
           [] o.action = "r" -> action_key_remove
           [] o.action = "p" -> action_spass(o)
           [] o.action = "w" -> action_warnings
           [] o.action \in {"i", "I", "A"} -> action_info(o)
           [] o.action \in WithSpec -> <<Req("GET_NUM", NULL)>>
           [] OTHER -> <<>>                  \* -x

(***************************************************************************)
(* ah_parse_code_spec with the numbers read from the agent's state st:     *)
(* what to print and its number, "none" for an illegal specification.      *)
(***************************************************************************)
ah_parse_code_spec(spec, st) ==
    CASE spec[1] = "current" -> [what |-> "code", item |-> st.e.counter]
      [] spec[1] = "[current]" -> [what |-> "card", item |-> st.card]
      [] spec[1] = "next" -> [what |-> "card",
           item |-> IF st.card > st.e.latest THEN st.card ELSE st.e.latest + 1]
      [] spec[1] = "n" /\ spec[2] \in Nat \ {0} -> [what |-> "code", item |-> spec[2] - 1]
      [] spec[1] = "[n]" /\ spec[2] \in Nat \ {0} -> [what |-> "card", item |-> spec[2]]
      [] OTHER -> [what |-> "none", item |-> 0]

(* card_latex, no page that runs over the last card; then action_print     *)
(* takes the card after the page for the latest one.                       *)
card_latex(n, st) ==
    If(n <= max_card(st.e) - (LATEX - 1),
       <<Passcodes(n..(n + LATEX - 1)), UpdateLatest(n + LATEX)>>)

(* Mutant: the card is noted as printed before it is printed. *)
parsed_update_first(o, st) ==
    LET x == ah_parse_code_spec(o.arg, st) IN
    IF o.action = "t" /\ x.what = "card"
    THEN <<UpdateLatest(x.item), card_ascii(x.item)>>
    ELSE <<>>

(* action_print and action_skip once the specification is parsed. *)
Parsed(o, st) ==
    LET x == ah_parse_code_spec(o.arg, st) IN
    CASE o.action = "t" /\ x.what = "card" ->
           <<card_ascii(x.item), UpdateLatest(x.item)>>
      [] o.action = "t" /\ x.what = "code" -> <<Passcodes({})>>
      [] o.action = "l" /\ x.what = "card" -> card_latex(x.item, st)
      [] o.action = "P" /\ x.what = "code" -> <<Req("GET_PROMPT", [num |-> x.item])>>
      [] o.action = "s" /\ x.what = "code" -> <<Req("SKIP", [num |-> x.item])>>
      [] o.action = "s" /\ x.what = "card" ->
           <<Req("SKIP", [num |-> (x.item - 1) * codes_on_card(st.e)])>>
      [] OTHER -> <<>>

(***************************************************************************)
(* What an action does with a reply: go on, or give up.  A user without a  *)
(* state is no error of STATE_LOAD, a refused card number is none of       *)
(* UPDATE_LATEST, alphabets are listed until one is out of range, and      *)
(* action_warnings clears the failures it has shown.                       *)
(***************************************************************************)
After(p) ==
    CASE req[p].type = "STATE_LOAD" ->
           If(status[p] \in {"OK", "STATE_NO_USER_ENTRY"},
              IF script[p] # <<>> THEN script[p]
              ELSE perform_action(options[p], status[p] = "OK"))
      [] req[p].type = "GET_NUM" /\ options[p].action \in WithSpec ->
           If(status[p] = "OK", Parsed(options[p], s[p]))
      [] req[p].type = "UPDATE_LATEST" ->
           If(status[p] \in {"OK", "AGENT_ERR_REQ_ARG"}, script[p])
      [] req[p].type = "GET_ALPHABET" ->
           If(status[p] # "PPP_ERROR_RANGE",
              <<Req("GET_ALPHABET", [num |-> req[p].arg.num + 1])>>)
      [] req[p].type = "GET_WARNINGS" ->
           If(status[p] = "OK" /\ s[p].e.recent > 0,
              <<Req("CLEAR_RECENT_FAILURES", NULL)>>)
      [] OTHER -> If(status[p] = "OK", script[p])
-----------------------------------------------------------------------------
Questions == {"SURE", "READY", "PASS"}

(* action_fini: disconnect; the agent drops its state and ends.  Also what *)
(* is left of p when it is killed: the kernel drops its lock.              *)
Leave(p) == /\ at' = [at EXCEPT ![p] = "off"]
            /\ s' = [s EXCEPT ![p] = NULL]
            /\ new_state' = [new_state EXCEPT ![p] = FALSE]
            /\ options' = [options EXCEPT ![p] = NoOptions]
            /\ script' = [script EXCEPT ![p] = <<>>]
            /\ req' = [req EXCEPT ![p] = Req("NONE", NULL)]
            /\ status' = [status EXCEPT ![p] = "OK"]
            /\ out' = [out EXCEPT ![p] = [ret |-> "OK", entry |-> NULL]]
            /\ Unlock(p)

(* agent_query, the next question, or the end of the action. *)
Continue(p, sc) ==
    /\ \/ /\ sc = <<>>
          /\ Leave(p)
       \/ /\ sc # <<>> /\ Head(sc).type \in Questions
          /\ at' = [at EXCEPT ![p] = "ask"]
          /\ script' = [script EXCEPT ![p] = sc]
          /\ UNCHANGED <<lock, s, new_state, req, status, out, options>>
       \/ /\ sc # <<>> /\ Head(sc).type \notin Questions
          /\ at' = [at EXCEPT ![p] = "request"]
          /\ req' = [req EXCEPT ![p] = Head(sc)]
          /\ script' = [script EXCEPT ![p] = Tail(sc)]
          /\ UNCHANGED <<lock, s, new_state, status, out, options>>
    /\ UNCHANGED <<cfg, db, keys, commands, logins>>

(* run_cli: parse, connect; action_init: select the user, load the state. *)
run_cli(p) ==
    /\ at[p] = "off"
    /\ commands < MAX_COMMANDS
    /\ \E argv \in CommandLines :
         LET r == process_cmd_line(p \in Root, argv)
             o == r.options IN
         /\ ~r.error /\ o.action \notin {"none", "h"}
         /\ options' = [options EXCEPT ![p] = o]
         /\ req' = [req EXCEPT ![p] =
              IF o.username # NULL THEN Req("USER_SET", [str |-> o.username])
                                   ELSE Req("STATE_LOAD", NULL)]
         /\ script' = [script EXCEPT ![p] =
              If(o.username # NULL, <<Req("STATE_LOAD", NULL)>>)]
    /\ commands' = commands + 1
    /\ at' = [at EXCEPT ![p] = "request"]
    /\ UNCHANGED <<cfg, db, lock, keys, s, new_state, status, out,
                   logins, printed>>

(* The utility gets a reply; passcodes it asked for go to the paper: the   *)
(* cards it wanted, or a sheet of cards without passcodes.                 *)
receive(p) ==
    /\ at[p] = "client"
    /\ Continue(p, After(p))
    /\ printed' = IF req[p].type = "GET_PASSCODE" /\ status[p] = "OK"
                  THEN printed \cup {<<s[p].e.key,
                                      ppp_get_passcode(s[p].e, req[p].arg.cards)>>}
                  ELSE printed

(* The reply of an agent that has ended is an error: the action gives up. *)
receive_last(p) == /\ at[p] = "bye"
                   /\ Leave(p)
                   /\ UNCHANGED <<cfg, db, keys, commands, logins, printed>>

(* ah_yes_or_no; "Are you ready" is asked until the answer is yes or no.   *)
(* ah_get_pass: the password, typed twice, unless the two differ.          *)
answer(p) ==
    /\ at[p] = "ask"
    /\ \/ Continue(p, <<>>)
       \/ /\ Head(script[p]).type # "PASS"
          /\ Continue(p, Tail(script[p]))
       \/ /\ Head(script[p]).type = "PASS"
          /\ \E pass \in Passwords : Continue(p, SetSpass(pass))
    /\ UNCHANGED printed

kill(p) == /\ at[p] # "off"
           /\ Leave(p)
           /\ UNCHANGED <<cfg, db, keys, commands, logins, printed>>

(* PAM takes a passcode, or records a failure, while nobody has the lock. *)
login == /\ logins < MAX_LOGINS
         /\ logins' = logins + 1
         /\ lock = Free /\ db # NULL
         /\ "OK" \in Loading /\ ppp_state_verify(db) = "OK" /\ "disabled" \notin db.flags
         /\ \E failed \in 0..1 :
              db' = [db EXCEPT !.counter = @ + 1, !.recent = @ + failed]
         /\ UNCHANGED <<cfg, lock, keys, at, s, new_state, req, status, out,
                        options, script, commands, printed>>

agent(p) == request_handle(p) /\ UNCHANGED utilityVars

(* The entry of a key whose first card is on paper, after n logins. *)
OldEntry(c, n) ==
    [key |-> 0, counter |-> n, latest |-> 1, recent |-> 0, flags |-> {"show"},
     code_length |-> c.passcode_def_length, alphabet |-> c.alphabet_def,
     label |-> "", contact |-> "", spass |-> NULL]

Init == /\ cfg \in Config
        /\ db \in {NULL} \cup {OldEntry(cfg, n) : n \in Used}
        /\ lock = Free
        /\ keys = 0
        /\ at = [p \in Proc |-> "off"]
        /\ s = [p \in Proc |-> NULL]
        /\ new_state = [p \in Proc |-> FALSE]
        /\ req = [p \in Proc |-> Req("NONE", NULL)]
        /\ status = [p \in Proc |-> "OK"]
        /\ out = [p \in Proc |-> [ret |-> "OK", entry |-> NULL]]
        /\ options = [p \in Proc |-> NoOptions]
        /\ script = [p \in Proc |-> <<>>]
        /\ commands = 0
        /\ logins = 0
        /\ printed = IF db = NULL THEN {} ELSE {<<0, {1}>>}

Next == \/ \E p \in Proc : \/ run_cli(p) \/ receive(p) \/ receive_last(p)
                          \/ answer(p) \/ agent(p) \/ kill(p)
        \/ login

Spec == Init /\ [][Next]_vars
-----------------------------------------------------------------------------
Number == 0..NUMSPACE
Entry == [key : 0..MAX_KEYS, counter : Number, latest : Nat,
          recent : 0..MAX_LOGINS, flags : SUBSET Flags, code_length : DOMAIN Codes,
          alphabet : Alphabets]

Fits(e) == /\ [f \in {"key", "counter", "latest", "recent", "flags",
                      "code_length", "alphabet"} |-> e[f]] \in Entry

(* Types.  The counter never passes the last passcode by more than one     *)
(* step, whoever skips, authenticates or logs in (ppp_skip, ppp_increment). *)
UtilTypeOK == /\ cfg \in Config
              /\ db # NULL => Fits(db)
              /\ lock \in Proc \cup {Free}
              /\ keys \in 0..MAX_KEYS
              /\ at \in [Proc -> At]
              /\ \A p \in Proc : s[p] # NULL => Fits(s[p].e)
              /\ new_state \in [Proc -> BOOLEAN]
              /\ commands \in 0..MAX_COMMANDS
              /\ logins \in 0..MAX_LOGINS

(***************************************************************************)
(* agent_hdr_send and agent_hdr_recv refuse to work while the state is     *)
(* locked: every error exit of a request gives the lock back first, so no  *)
(* agent holds it while its utility thinks or asks the user, and a new     *)
(* state waits for its confirmation unlocked.                              *)
(***************************************************************************)
PipesUnlocked ==
    \A p \in Proc : at[p] \in {"off", "client", "ask", "bye"} => lock # p

OnPaper(key, n) == \E sheet \in printed : sheet[1] = key /\ n \in sheet[2]

(***************************************************************************)
(* state.h: latest_card is the "Furthest printed passcode", the manual:    *)
(* "The number of the last printed passcard."  action_print takes the card *)
(* after a page of LaTeX for it.                                           *)
(***************************************************************************)
LatestPrinted ==
    db # NULL /\ db.latest > 0 =>
        \E sheet \in printed : db.latest \in sheet[2]

(* Passcodes of the default alphabet are printed at all; the card n follows *)
(* a page of LaTeX.                                                         *)
CanPrint == ppp_verify_alphabet(cfg.alphabet_def) = "OK"
AfterPage(n) == \E sheet \in printed : sheet[2] = (n - LATEX)..(n - 1)

(***************************************************************************)
(* action_print, action_key_generate: but for pages of LaTeX the card      *)
(* recorded as the latest printed one was printed, whoever prints at the   *)
(* same time and whatever the policy refuses.  It may be the card of the   *)
(* key before, if that was replaced while it was printed.                  *)
(***************************************************************************)
LatestPrintedUnlessLatex ==
    CanPrint /\ db # NULL /\ db.latest > 0 /\ ~AfterPage(db.latest) =>
        \E sheet \in printed : db.latest \in sheet[2]

(***************************************************************************)
(* action_key_generate prints the first card before it stores the key "so  *)
(* you won't loose ability to log into your system": no key is in force    *)
(* whose first card is not on paper, even if printing is denied.  Only a   *)
(* policy that denies its own default alphabet gets a card without         *)
(* passcodes printed (ppp_get_passcode answers 0), and the key stored.     *)
(***************************************************************************)
StoredKeyShown == CanPrint /\ db # NULL => OnPaper(db.key, 1)

(* The fields a request may change. *)
OwnFields(r) ==
    CASE r.type \in {"FLAG_ADD", "FLAG_CLEAR"} -> {"flags"}
      [] r.type \in {"SET_INT", "SET_STR"} -> {r.arg.field}
      [] r.type = "SET_SPASS" -> {"spass"}
      [] r.type = "UPDATE_LATEST" -> {"latest"}
      [] r.type \in {"SKIP", "AUTHENTICATE"} -> {"counter"}
      [] r.type = "CLEAR_RECENT_FAILURES" -> {"recent"}
      [] OTHER -> {}

(***************************************************************************)
(* An agent writes the whole entry from memory, yet only under the lock,   *)
(* also after STATE_NUMSPACE has been taken for success, and it changes    *)
(* the entry now on disk in the fields of its request only: what others    *)
(* stored since the utility loaded the state survives.                     *)
(***************************************************************************)
AgentWrites ==
    [][\A p \in Proc : at[p] = "store" /\ at'[p] = "client" /\ db' # db =>
         /\ lock = p
         /\ \/ req[p].type \in {"STATE_STORE", "KEY_REMOVE"}
            \/ \A f \in DOMAIN db : db'[f] # db[f] => f \in OwnFields(req[p])]_vars

(***************************************************************************)
(* UPDATE_LATEST: prints that overlap never move latest_card of a key      *)
(* back, although each was checked before the lock was taken.              *)
(***************************************************************************)
LatestForward ==
    [][db # NULL /\ db' # NULL /\ db'.key = db.key => db'.latest >= db.latest]_vars

(***************************************************************************)
(* "The "salt" flag can only be specified during key creation!": with the  *)
(* agent free to change the flag, no run of the utility changes how the    *)
(* counter of a key in force is read.                                      *)
(***************************************************************************)
SaltFixed ==
    [][db # NULL /\ db' # NULL /\ db'.key = db.key =>
         ("salted" \in db'.flags <=> "salted" \in db.flags)]_vars

(***************************************************************************)
(* A request that is answered with an error has not changed the entry;     *)
(* SET_SPASS stores after a refused password all the same.                 *)
(***************************************************************************)
RefusedUnchanged ==
    [][\A p \in Proc :
         /\ at[p] = "store" /\ at'[p] = "client"
         /\ status'[p] \notin {"OK", "WRONG_PASSCODE", "PPP_ERROR_SPASS_SET",
                               "PPP_ERROR_SPASS_UNSET"}
         => db' = db]_vars
=============================================================================
