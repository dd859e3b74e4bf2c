---------------------------- MODULE AgentSession ----------------------------
(***************************************************************************)
(* One run of the utility and the agent it starts: fork and exec, the      *)
(* agent's initialisation and loss of privileges, and queries over two     *)
(* pipes until one side ends (src/agent/agent.c, agent_interface.c,        *)
(* agent_private.c, security.c).  What a request does is AgentRequest's.   *)
(*                                                                         *)
(* A header is FIELDS writes; the reader may find any part of it in the    *)
(* pipe.  A pipe's reader gets end of file once nobody has its writing end *)
(* open; who writes to a pipe nobody reads gets SIGPIPE.                   *)
(***************************************************************************)
EXTENDS Config, FiniteSets

CONSTANTS Installations, \* configuration file and binary as installed
          Callers,       \* uids of those who run the utility; 0 is root
          FIELDS,        \* writes of a header (7 in the code)
          MAX_QUERIES    \* bound: queries of a run

ASSUME SessionAssumption == /\ \A i \in Installations : /\ i.bin_uid \in Nat
                                                        /\ Len(i.file.lines) \in Nat
                            /\ Callers \subseteq Nat
                            /\ FIELDS \in Nat \ {0}
                            /\ MAX_QUERIES \in Nat

VARIABLES inst, caller,  \* the installation and real uid of this run
          client, agent, \* where the two processes are
          cfg,           \* the agent's configuration, once it is read
          uid,           \* real, effective and saved uid of the agent
          ends,          \* open pipe ends: <<process, pipe, "r" or "w">>
          pipe,          \* what is in the pipes "req" and "rep"
          wr,            \* fields of the header a process still has to write
          rd,            \* fields it has read: its header and agent_read's buffer
          queries,       \* queries sent
          error,         \* a->error of the utility
          got,           \* history: the query whose reply was taken last
          cause          \* history: why the agent gave up before its loop

procVars == <<inst, caller, cfg, uid, cause>>
pipeVars == <<ends, pipe, wr, rd>>
queryVars == <<queries, error, got>>
vars == <<client, agent, procVars, pipeVars, queryVars>>

Side == {"u", "a"}
Reads == [u |-> "rep", a |-> "req"]     \* the pipe a process reads
Writes == [u |-> "req", a |-> "rep"]

(* A header: its type, the query it belongs to, the protocol version. *)
Header(type, query, version) ==
    [i \in 1..FIELDS |-> [type |-> type, query |-> query, version |-> version, i |-> i]]

Connecting == {"forked", "select", "init"}      \* inside agent_connect
Querying == {"send", "recv"}                    \* inside agent_query
Client == {"start", "ready", "stale", "failed", "off"} \cup Connecting \cup Querying

(* The agent: forked before exec; exec, main and drop while it starts;     *)
(* greet and sorry while it sends AGENT_REQ_INIT, before its loop or its   *)
(* end; bye while it sends its last reply; alien is another program.       *)
Agent == {"none", "forked", "exec", "main", "drop", "greet", "sorry",
          "loop", "handle", "reply", "bye", "alien", "dead"}

is_suid == inst.suid /\ caller # inst.bin_uid
security_is_privileged == caller = 0
-----------------------------------------------------------------------------
(* Ends of processes and pipes. *)
Without(p) == {e \in ends : e[1] # p}
Open(pi, way) == \E p \in Side : <<p, pi, way>> \in ends

(* The utility closes its ends: agent_disconnect, cleanup1, or death. *)
ClientCloses(where) == /\ client' = where
                       /\ ends' = Without("u")
                       /\ wr' = [wr EXCEPT !["u"] = <<>>]

AgentDies == /\ agent' = "dead"
             /\ ends' = Without("a")
             /\ wr' = [wr EXCEPT !["a"] = <<>>]

(* Begin to write a header. *)
Send(p, h) == wr' = [wr EXCEPT ![p] = h]
-----------------------------------------------------------------------------
(***************************************************************************)
(* agent_connect up to fork.  _get_agent_executable may find no agent; its *)
(* error returns without closing the pipes.                                *)
(***************************************************************************)
agent_connect ==
    /\ client = "start"
    /\ ends' = {<<"u", pi, w>> : pi \in {"req", "rep"}, w \in {"r", "w"}}
               \cup IF inst.exe = "missing" THEN {}
                    ELSE {<<"a", pi, w>> : pi \in {"req", "rep"}, w \in {"r", "w"}}
    /\ IF inst.exe = "missing"
         THEN client' = "failed" /\ UNCHANGED agent
         ELSE client' = "forked" /\ agent' = "forked"
    /\ UNCHANGED <<procVars, pipe, wr, rd, queryVars>>

(* Mutant: the parent keeps the ends that are not its own. *)
parent_keeps_ends ==
    /\ client = "forked"
    /\ client' = "select"
    /\ UNCHANGED <<agent, procVars, pipeVars, queryVars>>

(* The parent closes the ends that are not its own. *)
parent_closes ==
    /\ client = "forked"
    /\ client' = "select"
    /\ ends' = ends \ {<<"u", "req", "r">>, <<"u", "rep", "w">>}
    /\ UNCHANGED <<agent, procVars, pipe, wr, rd, queryVars>>

(***************************************************************************)
(* The child: close, dup, execl.  A close or dup that fails ends it; if    *)
(* execl fails it sends AGENT_ERR_INIT_EMERGENCY as an agent would.        *)
(***************************************************************************)
child ==
    /\ agent = "forked"
    /\ \/ AgentDies /\ cause' = "fork" /\ UNCHANGED uid
       \/ /\ ends' = ends \ {<<"a", "rep", "r">>, <<"a", "req", "w">>}
          /\ \/ /\ inst.exe = "agent"
                /\ agent' = "exec"
                /\ uid' = [real |-> caller,
                           eff |-> IF inst.suid THEN inst.bin_uid ELSE caller,
                           saved |-> IF inst.suid THEN inst.bin_uid ELSE caller]
                /\ UNCHANGED <<wr, cause>>
             \/ /\ inst.exe = "alien"
                /\ agent' = "alien"
                /\ UNCHANGED <<wr, uid, cause>>
             \/ /\ inst.exe = "unexecutable"
                /\ agent' = "sorry"
                /\ Send("a", Header("INIT_ERROR", 0, "same"))
                /\ cause' = "AGENT_ERR_INIT_EMERGENCY"
                /\ UNCHANGED uid
    /\ UNCHANGED <<client, inst, caller, cfg, pipe, rd, queryVars>>

(* Another program sends a header's worth of something, or ends, or waits. *)
alien == /\ agent = "alien"
         /\ \/ agent' = "sorry" /\ Send("a", Header("JUNK", 0, "other")) /\ UNCHANGED ends
            \/ AgentDies
         /\ UNCHANGED <<client, procVars, pipe, rd, queryVars>>
-----------------------------------------------------------------------------
(* Initialisation of the agent. *)
Exit == AgentDies /\ cause' = "exit"

InitError(why) == /\ agent' = "sorry"
                  /\ Send("a", Header("INIT_ERROR", 0, inst.version))
                  /\ cause' = why
                  /\ UNCHANGED ends

(* security_init: no SGID binary, SUID for root or not at all. *)
security_init ==
    /\ agent = "exec"
    /\ IF (inst.sgid /\ caller # 0) \/ (is_suid /\ uid.eff # 0)
         THEN Exit
         ELSE agent' = "main" /\ UNCHANGED <<ends, wr, cause>>
    /\ UNCHANGED <<client, inst, caller, cfg, uid, pipe, rd, queryVars>>

Known == caller \in {Passwd[x] : x \in DOMAIN Passwd}

(* Mutant: SUID and run by root are both asked for. *)
may_use_both(db) == db = "user" \/ (is_suid /\ security_is_privileged)

(* Any database but the user's own needs root, at the start at least. *)
MayUse(db) == db = "user" \/ is_suid \/ security_is_privileged

(* main up to the loss of privileges. *)
main ==
    LET c == cfg_get(inst.file)
        ret == ppp_init(inst)
    IN /\ agent = "main"
       /\ \/ ~Known /\ InitError("AGENT_ERR_INIT_USER")
          \/ Known /\ ret # "OK" /\ InitError("AGENT_ERR_INIT_CONFIGURATION")
          \/ Known /\ ret = "OK" /\ ~MayUse(c.db) /\ InitError("AGENT_ERR_INIT_PRIVILEGES")
          \/ Known /\ ret = "OK" /\ MayUse(c.db) /\ agent' = "drop"
             /\ UNCHANGED <<ends, wr, cause>>
       /\ cfg' = IF Known THEN c ELSE cfg
       /\ UNCHANGED <<client, inst, caller, uid, pipe, rd, queryVars>>

(* setresuid(n, n, n): -1 changes nothing; root may do all, others only    *)
(* take an id they have.                                                   *)
May(n) == n = -1 \/ uid.eff = 0 \/ n \in {uid.real, uid.eff, uid.saved}
setresuid(n) == IF n = -1 THEN uid ELSE [real |-> n, eff |-> n, saved |-> n]

(* setuid(n) of _ensure_no_privileges must fail after the change to u. *)
Regains(u, n) == u.eff = 0 \/ n \in {u.real, u.saved}

(* security_permanent_switch *)
security_permanent_switch(n) == May(n) /\ setresuid(n).eff = n

(* security_permanent_drop and _ensure_no_privileges, for a caller not root. *)
security_permanent_drop(n) ==
    /\ May(n)
    /\ ~(uid.eff # n /\ Regains(setresuid(n), uid.eff))

(* The switch on cfg->db; then main_loop says that the agent is ready.     *)
(* Root keeps its uid unless the database is global.                       *)
drop_privileges ==
    LET stays == cfg.db # "global" /\ security_is_privileged
        n == IF cfg.db = "global" THEN cfg.user_uid ELSE caller
        ok == \/ stays
              \/ cfg.db = "global" /\ security_permanent_switch(n)
              \/ cfg.db # "global" /\ security_permanent_drop(n)
    IN /\ agent = "drop"
       /\ IF ok THEN /\ agent' = "greet"
                     /\ uid' = IF stays THEN uid ELSE setresuid(n)
                     /\ Send("a", Header("INIT", 0, inst.version))
                     /\ UNCHANGED <<ends, cause>>
                ELSE Exit /\ UNCHANGED uid
       /\ UNCHANGED <<client, inst, caller, cfg, pipe, rd, queryVars>>
-----------------------------------------------------------------------------
(* Headers. *)

(* What a process does once its header is written. *)
Sent(p) ==
    IF p = "u" THEN client' = "recv" /\ UNCHANGED <<agent, ends>>
    ELSE /\ agent' = IF agent \in {"greet", "reply"} THEN "loop" ELSE "dead"
         /\ ends' = IF agent \in {"greet", "reply"} THEN ends ELSE Without("a")
         /\ UNCHANGED client

(* agent_write: one field. *)
agent_write(p) ==
    /\ wr[p] # <<>>
    /\ Open(Writes[p], "r")
    /\ pipe' = [pipe EXCEPT ![Writes[p]] = Append(@, Head(wr[p]))]
    /\ wr' = [wr EXCEPT ![p] = Tail(@)]
    /\ IF Len(wr[p]) = 1 THEN Sent(p) ELSE UNCHANGED <<client, agent, ends>>
    /\ UNCHANGED <<procVars, rd, queryVars>>

(***************************************************************************)
(* A write nobody can read.  SIGPIPE ends the utility and an agent that is *)
(* not SUID; a SUID agent gets EPIPE: it ends while it starts, but the     *)
(* result of _send_reply is ignored and it goes back to its loop.          *)
(***************************************************************************)
agent_write_broken(p) ==
    /\ wr[p] # <<>>
    /\ ~Open(Writes[p], "r")
    /\ IF p = "u" THEN ClientCloses("off") /\ UNCHANGED agent
       ELSE IF is_suid /\ agent = "reply"
         THEN /\ agent' = "loop"
              /\ wr' = [wr EXCEPT !["a"] = <<>>]
              /\ UNCHANGED <<client, ends>>
       ELSE AgentDies /\ UNCHANGED client
    /\ UNCHANGED <<procVars, pipe, rd, queryVars>>

Receives(p) == IF p = "u" THEN client \in {"init", "recv"} ELSE agent = "loop"

(* agent_read: what the pipe holds, or a part of it. *)
agent_read(p) ==
    /\ Receives(p) /\ Len(rd[p]) < FIELDS
    /\ \E k \in 1..Len(pipe[Reads[p]]) :
         /\ rd' = [rd EXCEPT ![p] = @ \o SubSeq(pipe[Reads[p]], 1, k)]
         /\ pipe' = [pipe EXCEPT ![Reads[p]] = SubSeq(@, k + 1, Len(@))]
    /\ UNCHANGED <<client, agent, procVars, ends, wr, queryVars>>

Eof(p) == pipe[Reads[p]] = <<>> /\ ~Open(Reads[p], "w")

(* Mutant: nothing read is no reason to give up. *)
eof_ignored(p) ==
    /\ Receives(p) /\ Len(rd[p]) < FIELDS
    /\ Eof(p)
    /\ UNCHANGED vars

(* agent_read gives up, with AGENT_ERR_DISCONNECT. *)
Disconnected(p, where) ==
    /\ Receives(p) /\ Len(rd[p]) < FIELDS
    /\ \/ /\ p = "a" /\ AgentDies
          /\ UNCHANGED <<client, error>>
       \/ /\ p = "u" /\ client = "init"
          /\ ClientCloses("failed")
          /\ UNCHANGED <<agent, error>>
       \/ /\ p = "u" /\ client = "recv"
          /\ client' = where /\ error' = TRUE
          /\ UNCHANGED <<agent, ends, wr>>
    /\ UNCHANGED <<procVars, pipe, rd, queries, got>>

agent_read_eof(p) == Eof(p) /\ Disconnected(p, "ready")

(***************************************************************************)
(* A read that fails leaves agent_read's static "buffered" negative: the   *)
(* next call would copy what the buffer held before.  No action of the     *)
(* utility asks anything after an error of a query; it disconnects.        *)
(***************************************************************************)
agent_read_failed(p) == Disconnected(p, "stale")

(* A complete header: taken from what was read, the rest stays buffered. *)
Complete(p) == Receives(p) /\ Len(rd[p]) >= FIELDS

(* Mutant: the receiver takes one field less than the sender sends. *)
take_short(p) == rd' = [rd EXCEPT ![p] = SubSeq(@, FIELDS, Len(@))]

Take(p) == rd' = [rd EXCEPT ![p] = SubSeq(@, FIELDS + 1, Len(@))]

(* agent_connect after agent_hdr_recv: version, type and status. *)
connected ==
    /\ client = "init" /\ Complete("u")
    /\ Take("u")
    /\ IF rd["u"][1].version = "same" /\ rd["u"][1].type = "INIT"
         THEN client' = "ready" /\ UNCHANGED <<ends, wr>>
         ELSE ClientCloses("failed")
    /\ UNCHANGED <<agent, procVars, pipe, queryVars>>

(* agent_wait: data or end of file, or two seconds without. *)
agent_wait ==
    /\ client = "select"
    /\ \/ /\ pipe["rep"] # <<>> \/ Eof("u")
          /\ client' = "init"
          /\ UNCHANGED <<ends, wr>>
       \/ /\ pipe["rep"] = <<>> /\ ~Eof("u")
          /\ ClientCloses("failed")
    /\ UNCHANGED <<agent, procVars, pipe, rd, queryVars>>

(* Mutant: the utility gives up on a late answer and goes on. *)
agent_query_impatient ==
    /\ client \in {"ready", "recv"}
    /\ queries < MAX_QUERIES
    /\ queries' = queries + 1
    /\ client' = "send"
    /\ Send("u", Header("REQ", queries + 1, "same"))
    /\ UNCHANGED <<agent, procVars, ends, pipe, rd, error, got>>

(* agent_query, first half; also after an end of file, whatever the caller. *)
agent_query ==
    /\ client = "ready"
    /\ queries < MAX_QUERIES
    /\ queries' = queries + 1
    /\ client' = "send"
    /\ Send("u", Header("REQ", queries + 1, "same"))
    /\ UNCHANGED <<agent, procVars, ends, pipe, rd, error, got>>

(* agent_query, second half: the status of the reply, whatever it is for. *)
agent_query_done ==
    /\ client = "recv" /\ Complete("u")
    /\ Take("u")
    /\ client' = "ready"
    /\ IF rd["u"][1].version = "same"
         THEN /\ got' = IF \A i \in 1..FIELDS : /\ rd["u"][i].query = rd["u"][1].query
                                                /\ rd["u"][i].i = i
                        THEN rd["u"][1].query ELSE 0
              /\ UNCHANGED error
         ELSE error' = TRUE /\ UNCHANGED got
    /\ UNCHANGED <<agent, procVars, ends, pipe, wr, queries>>

(* agent_hdr_recv in the agent *)
agent_hdr_recv ==
    /\ agent = "loop" /\ Complete("a")
    /\ IF rd["a"][1].version = inst.version
         THEN agent' = "handle" /\ UNCHANGED <<ends, wr, rd>>
         ELSE AgentDies /\ UNCHANGED rd
    /\ UNCHANGED <<client, procVars, pipe, queryVars>>

(***************************************************************************)
(* request_handle and main_loop.  Executed, or refused with                *)
(* AGENT_ERR_POLICY: a reply, and on with the loop.  Another policy error: *)
(* a reply, and the end.  STATE_NEW without memory: the end without reply. *)
(***************************************************************************)
request_handle ==
    /\ agent = "handle"
    /\ Take("a")
    /\ \/ /\ agent' \in {"reply", "bye"}
          /\ Send("a", Header("REPLY", rd["a"][1].query, inst.version))
          /\ UNCHANGED ends
       \/ AgentDies
    /\ UNCHANGED <<client, procVars, pipe, queryVars>>
-----------------------------------------------------------------------------
(* action_fini, and a utility or agent that is killed. *)
agent_disconnect == /\ client \in {"ready", "stale"}
                    /\ ClientCloses("off")
                    /\ UNCHANGED <<agent, procVars, pipe, rd, queryVars>>

kill_client == /\ client \notin {"off", "failed"}
               /\ ClientCloses("off")
               /\ UNCHANGED <<agent, procVars, pipe, rd, queryVars>>

kill_agent == /\ agent \notin {"none", "dead"}
              /\ AgentDies
              /\ UNCHANGED <<client, procVars, pipe, rd, queryVars>>

Init == /\ inst \in Installations
        /\ caller \in Callers
        /\ client = "start" /\ agent = "none"
        /\ cfg = _config_defaults
        /\ uid = [real |-> caller, eff |-> caller, saved |-> caller]
        /\ ends = {}
        /\ pipe = [pi \in {"req", "rep"} |-> <<>>]
        /\ wr = [p \in Side |-> <<>>]
        /\ rd = [p \in Side |-> <<>>]
        /\ queries = 0 /\ error = FALSE /\ got = 0 /\ cause = "none"

ClientSteps == \/ agent_connect \/ parent_closes \/ agent_wait \/ connected
               \/ agent_query_done
               \/ agent_write("u") \/ agent_write_broken("u")
               \/ agent_read("u") \/ agent_read_eof("u")
AgentSteps == \/ child \/ security_init \/ main \/ drop_privileges
              \/ agent_hdr_recv \/ request_handle
              \/ agent_write("a") \/ agent_write_broken("a")
              \/ agent_read("a") \/ agent_read_eof("a")

Next == \/ ClientSteps \/ AgentSteps
        \/ agent_query \/ agent_disconnect \/ alien \/ kill_client \/ kill_agent
        \/ \E p \in Side : agent_read_failed(p)

(* Both processes run; nobody has to query, is killed, or fails to read. *)
Spec == Init /\ [][Next]_vars /\ WF_vars(ClientSteps) /\ WF_vars(AgentSteps)
-----------------------------------------------------------------------------
(***************************************************************************)
(* Types.  No more than one header is under way in either direction, so    *)
(* agent_read's buffer, a little larger than a header, never keeps a part  *)
(* of the next one.                                                        *)
(***************************************************************************)
SessTypeOK ==
    /\ inst \in Installations /\ caller \in Callers
    /\ client \in Client /\ agent \in Agent
    /\ uid \in [{"real", "eff", "saved"} -> Nat]
    /\ ends \subseteq Side \X {"req", "rep"} \X {"r", "w"}
    /\ \A p \in Side : Len(pipe[Reads[p]]) + Len(rd[p]) <= FIELDS
    /\ queries \in 0..MAX_QUERIES /\ error \in BOOLEAN /\ got \in 0..MAX_QUERIES

InLoop == {"greet", "loop", "handle", "reply", "bye"}

(***************************************************************************)
(* Who is not root never reaches an agent that is, or can become root      *)
(* again, whatever the order of lines in the configuration; and with a     *)
(* global database the agent runs as the configured user, also for root.   *)
(***************************************************************************)
LoopUnprivileged ==
    agent \in InLoop =>
        /\ caller # 0 => 0 \notin {uid.real, uid.eff, uid.saved}
        /\ cfg.db = "global" => {uid.real, uid.eff, uid.saved} = {cfg.user_uid}

(***************************************************************************)
(* What "agent_otp --check-config" finds fine, the agent starts with, for  *)
(* every caller known to the system.  Two cases are excepted that the      *)
(* check lets through: DB=global without a user to switch to, and          *)
(* databases that are not implemented.                                     *)
(***************************************************************************)
CheckedConfigStarts ==
    cause \notin {"none", "fork", "AGENT_ERR_INIT_USER"} =>
        \/ ~do_verify_config(inst)
        \/ cfg_get(inst.file).db \in {"mysql", "ldap"}
        \/ cfg_get(inst.file).db = "global" /\ cfg_get(inst.file).user_uid = -1

(***************************************************************************)
(* The pipes implement Channel: agent_query returns the status of the      *)
(* reply to its own request, in one piece, or an error after which nothing *)
(* is ever received again.                                                 *)
(***************************************************************************)
Chan == INSTANCE Channel WITH
            state <- IF error \/ client \in {"failed", "off"} THEN "lost"
                     ELSE IF client \in Querying THEN "asked" ELSE "idle",
            n <- queries
ChannelSpec == Chan!Spec

(***************************************************************************)
(* "Might hang?" (agent_query): agent_connect and agent_query return,      *)
(* whatever becomes of the agent; only the connect has a timeout.          *)
(***************************************************************************)
CallReturns == client \in Connecting \cup Querying
               ~> client \notin Connecting \cup Querying

(***************************************************************************)
(* "closing pipe will inform client about disconnect" (agent_disconnect):  *)
(* no agent outlives its utility, also one that ignores SIGPIPE, whatever  *)
(* it was doing when the utility left, timed out or was killed.            *)
(***************************************************************************)
AgentEnds == client \in {"failed", "off"} ~> agent \in {"none", "alien", "dead"}
=============================================================================
