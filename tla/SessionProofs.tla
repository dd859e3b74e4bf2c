--------------------------- MODULE SessionProofs ---------------------------
(***************************************************************************)
(* Proofs about Config and AgentSession, for every configuration file,     *)
(* installation, caller and length of a header: what parsing can leave,    *)
(* who an agent runs as, that a checked configuration starts, and that the *)
(* two pipes implement Channel.                                            *)
(***************************************************************************)
EXTENDS AgentSession, SequenceTheorems, WellFoundedInduction, TLAPS

(***************************************************************************)
(* Parsing is a recursive function of the number of lines.  That it exists *)
(* and what it keeps is proved by induction, in the form of sets of        *)
(* natural numbers that have a least element.                              *)
(***************************************************************************)
LEMMA LeastNat ==
  ASSUME NEW T, T \subseteq Nat, T # {}
  PROVE  \E x \in T : \A y \in T : x <= y
<1> DEFINE R == OpToRel(<, Nat)
<1>1. IsWellFoundedOn(R, Nat)
  BY NatLessThanWellFounded
<1>2. \A x, y \in Nat : y < x => <<y, x>> \in R
  BY DEF OpToRel
<1> HIDE DEF R
<1>3. PICK x \in T : \A y \in T : ~ (<<y, x>> \in R)
  BY <1>1, WFMin
<1>4. ASSUME NEW y \in T  PROVE x <= y
  <2>1. ~ (y < x)
    BY <1>2, <1>3
  <2> QED  BY <2>1
<1> QED  BY <1>4

(* Induction over the natural numbers. *)
LEMMA SetInduction ==
  ASSUME NEW T, 0 \in T, \A n \in Nat : n \in T => n + 1 \in T
  PROVE  Nat \subseteq T
<1> SUFFICES ASSUME Nat \ T # {}  PROVE FALSE
  OBVIOUS
<1>1. PICK x \in Nat \ T : \A y \in Nat \ T : x <= y
  BY LeastNat
<1>2. x # 0 /\ x - 1 \in Nat /\ (x - 1) + 1 = x
  BY <1>1
<1> QED  BY <1>1, <1>2

(* The loop over the lines is well defined. *)
LEMMA ParsingLoop ==
  ASSUME NEW file, Len(file.lines) \in Nat
  PROVE  /\ Parsing(file)[0] = Unparsed
         /\ \A n \in 1..Len(file.lines) :
              Parsing(file)[n] = ParseLine(Parsing(file)[n - 1], Lines(file)[n])
<1> DEFINE L == Len(file.lines)
           Turn(x, n) == ParseLine(x, Lines(file)[n])
           Is(g, m) == g = [n \in 0..m |-> IF n = 0 THEN Unparsed ELSE Turn(g[n - 1], n)]
           T == {m \in Nat : \E g : Is(g, m)}
<1>0. Parsing(file) = CHOOSE g : Is(g, L)
  BY DEF Parsing
<1> HIDE DEF Turn
<1>1. 0 \in T
  <2> DEFINE g == [n \in 0..0 |-> Unparsed]
  <2>1. Is(g, 0)
    OBVIOUS
  <2> QED  BY <2>1
<1>2. ASSUME NEW m \in Nat, m \in T  PROVE m + 1 \in T
  <2>1. PICK g : Is(g, m)
    BY <1>2
  <2> DEFINE h == [n \in 0..(m + 1) |-> IF n = m + 1 THEN Turn(g[m], m + 1) ELSE g[n]]
  <2>2. ASSUME NEW n \in 0..(m + 1)
        PROVE  h[n] = IF n = 0 THEN Unparsed ELSE Turn(h[n - 1], n)
    <3>1. CASE n = m + 1
      <4>1. n # 0 /\ n - 1 = m /\ m \in 0..(m + 1) /\ m # m + 1
        BY <3>1
      <4>2. h[n] = Turn(g[m], n) /\ h[n - 1] = g[m]
        BY <3>1, <4>1
      <4> QED  BY <4>1, <4>2
    <3>2. CASE n # m + 1
      <4>1. n \in 0..m
        BY <3>2
      <4>2. h[n] = g[n]
        BY <3>2
      <4>3. n # 0 => h[n - 1] = g[n - 1]
        BY <4>1
      <4>4. g[n] = IF n = 0 THEN Unparsed ELSE Turn(g[n - 1], n)
        BY <2>1, <4>1
      <4> QED  BY <4>2, <4>3, <4>4
    <3> QED  BY <3>1, <3>2
  <2>3. h = [n \in 0..(m + 1) |-> h[n]]
    OBVIOUS
  <2> HIDE DEF h
  <2>4. Is(h, m + 1)
    BY <2>2, <2>3
  <2> QED  BY <2>4
<1>3. L \in T
  <2> HIDE DEF T
  <2> QED  BY <1>1, <1>2, SetInduction
<1>4. Is(Parsing(file), L)
  <2>1. \E g : Is(g, L)
    BY <1>3
  <2> HIDE DEF Is
  <2> QED  BY <1>0, <2>1
<1>5. \A n \in 0..L : Parsing(file)[n] = IF n = 0 THEN Unparsed
                                         ELSE Turn(Parsing(file)[n - 1], n)
  BY <1>4
<1> QED  BY <1>5 DEF Turn

-----------------------------------------------------------------------------
(***************************************************************************)
(* What parsing keeps, whatever the lines: the fields of the               *)
(* configuration, a user to switch to that is none or not root, and a      *)
(* database that is one of the known ones or not configured yet.           *)
(***************************************************************************)
Parsed(r) == /\ DOMAIN r = {"cfg", "fail", "error"}
             /\ r.cfg = [n \in DOMAIN _config_defaults |-> r.cfg[n]]
             /\ r.cfg.user_uid = -1 \/ r.cfg.user_uid \in Nat \ {0}
             /\ r.cfg.db \in Databases \cup {"unconfigured"}

(* Before the first line. *)
LEMMA UnparsedParsed ==
  Parsed(Unparsed)
<1> QED  BY DEF Parsed, Unparsed, _config_defaults, Databases

(* An assignment keeps it, and so does an error. *)
LEMMA AssignParsed ==
  ASSUME NEW r, Parsed(r), NEW n, NEW v,
         n = "user_uid" => v \in Nat \ {0},
         n = "db" => v \in Databases
  PROVE  Parsed(Assign(r, n, v))
<1>1. CASE n \notin DOMAIN r.cfg
  BY <1>1 DEF Assign
<1>2. CASE n \in DOMAIN r.cfg
  <2> DEFINE c == [r.cfg EXCEPT ![n] = v]
  <2>1. Assign(r, n, v) = [r EXCEPT !.cfg = c]
    BY <1>2 DEF Assign
  <2>2. DOMAIN r.cfg = DOMAIN _config_defaults
    BY DEF Parsed
  <2>3. DOMAIN c = DOMAIN _config_defaults /\ c = [m \in DOMAIN _config_defaults |-> c[m]]
    BY <2>2
  <2>4. "user_uid" \in DOMAIN r.cfg /\ "db" \in DOMAIN r.cfg
    BY <2>2 DEF _config_defaults
  <2>5. c.user_uid = IF n = "user_uid" THEN v ELSE r.cfg.user_uid
    BY <2>4
  <2>6. c.db = IF n = "db" THEN v ELSE r.cfg.db
    BY <2>4
  <2> HIDE DEF c
  <2>7. DOMAIN Assign(r, n, v) = {"cfg", "fail", "error"} /\ Assign(r, n, v).cfg = c
    BY <2>1 DEF Parsed
  <2> QED  BY <2>3, <2>5, <2>6, <2>7 DEF Parsed
<1> QED  BY <1>1, <1>2

(* A line that stops the parsing, or fails, assigns nothing. *)
LEMMA StopParsed ==
  ASSUME NEW r, Parsed(r)
  PROVE  Parsed(Stop(r)) /\ Parsed([r EXCEPT !.fail = @ + 1])
<1> QED  BY DEF Parsed, Stop

(* One line. *)
LEMMA LineParsed ==
  ASSUME NEW r, Parsed(r), NEW l
  PROVE  Parsed(ParseLine(r, l))
<1> DEFINE Names == EdVariables \cup DaeVariables \cup DOMAIN IntRange
<1>1. "user_uid" \notin Names /\ "db" \notin Names
  BY DEF EdVariables, DaeVariables, DaVariables, IntRange
<1>2. \A n, v : n \in Names => Parsed(Assign(r, n, v))
  BY <1>1, AssignParsed
<1>3. \A f : f \in {"user_uid", "pam_oob_uid"} => Parsed(ParseUser(r, f, l))
  <2> TAKE f
  <2> HAVE f \in {"user_uid", "pam_oob_uid"}
  <2>1. Parsed(Stop(r))
    BY StopParsed
  <2>2. ASSUME l.v \in DOMAIN Passwd, Passwd[l.v] # 0  PROVE Parsed(Assign(r, f, Passwd[l.v]))
    BY <2>2, AssignParsed, PasswdAssumption
  <2> QED  BY <2>1, <2>2 DEF ParseUser
<1>4. l.v \in Databases => Parsed(Assign(r, "db", l.v))
  BY AssignParsed
<1>5. Parsed(Stop(r)) /\ Parsed([r EXCEPT !.fail = @ + 1])
  BY StopParsed
<1> HIDE DEF Names
<1>6. \A n, v : n \in EdVariables \/ n \in DaeVariables \/ n \in DOMAIN IntRange
                  => Parsed(Assign(r, n, v))
  BY <1>2 DEF Names
<1> QED  BY <1>3, <1>4, <1>5, <1>6, Zenon DEF ParseLine

(* The whole file, and what cfg_get returns. *)
LEMMA ConfigParsed ==
  ASSUME NEW file, Len(file.lines) \in Nat
  PROVE  /\ cfg_get(file).user_uid = -1 \/ cfg_get(file).user_uid \in Nat \ {0}
         /\ cfg_get(file).db \in Databases \cup {"unconfigured"}
<1> DEFINE L == Len(file.lines)
           T == {n \in Nat : n \in 0..L => Parsed(Parsing(file)[n])}
<1>1. 0 \in T
  BY ParsingLoop, UnparsedParsed
<1>2. ASSUME NEW n \in Nat, n \in T  PROVE n + 1 \in T
  <2> SUFFICES ASSUME n + 1 \in 0..L  PROVE Parsed(Parsing(file)[n + 1])
    OBVIOUS
  <2>1. n \in 0..L /\ n + 1 \in 1..L /\ (n + 1) - 1 = n
    OBVIOUS
  <2>2. Parsed(Parsing(file)[n])
    BY <1>2, <2>1
  <2>3. Parsing(file)[n + 1] = ParseLine(Parsing(file)[n], Lines(file)[n + 1])
    BY <2>1, ParsingLoop
  <2> QED  BY <2>2, <2>3, LineParsed
<1>3. L \in T
  <2> HIDE DEF T
  <2> QED  BY <1>1, <1>2, SetInduction
<1>4. Parsed(Parsing(file)[L])
  BY <1>3
<1>5. _config_parse(file).cfg = Parsing(file)[L].cfg
  BY DEF _config_parse
<1>6. Parsed(Unparsed) /\ Unparsed.cfg = _config_defaults
  BY UnparsedParsed DEF Unparsed
<1> HIDE DEF L
<1> QED  BY <1>4, <1>5, <1>6 DEF Parsed, cfg_get

-----------------------------------------------------------------------------
(***************************************************************************)
(* Privileges.  From exec on the agent has the uids the kernel gave it,    *)
(* until it drops them; then its configuration is the file's, and it may   *)
(* use the database.                                                       *)
(***************************************************************************)
Kernel == [real |-> caller,
           eff |-> IF inst.suid THEN inst.bin_uid ELSE caller,
           saved |-> IF inst.suid THEN inst.bin_uid ELSE caller]

PrivInv ==
    /\ inst \in Installations /\ caller \in Callers
    /\ uid \in [{"real", "eff", "saved"} -> Nat]
    /\ agent \in {"exec", "main", "drop"} => uid = Kernel
    /\ agent = "drop" => cfg = cfg_get(inst.file) /\ MayUse(cfg.db) /\ ppp_init(inst) = "OK"
    /\ LoopUnprivileged
    /\ CheckedConfigStarts

(* Most steps leave all this alone and lead into the loop from the loop. *)
Quiet == /\ UNCHANGED procVars
         /\ \/ agent' = agent
            \/ agent' \notin {"exec", "main", "drop"} /\ (agent' \in InLoop => agent \in InLoop)

(* Such a step keeps the privileges. *)
LEMMA QuietPriv ==
  ASSUME PrivInv, Quiet
  PROVE  PrivInv'
<1>1. LoopUnprivileged'
  <2>1. CASE agent' \in InLoop
    <3>1. agent \in InLoop
      BY <2>1 DEF Quiet
    <3> QED  BY <3>1 DEF PrivInv, Quiet, procVars, LoopUnprivileged
  <2>2. CASE agent' \notin InLoop
    BY <2>2 DEF LoopUnprivileged
  <2> QED  BY <2>1, <2>2
<1>2. CheckedConfigStarts'
  BY DEF PrivInv, Quiet, procVars, CheckedConfigStarts
<1>3. agent' \in {"exec", "main", "drop"} => agent = agent'
  BY DEF Quiet
<1>4. /\ agent' \in {"exec", "main", "drop"} => uid' = Kernel'
      /\ agent' = "drop" => /\ cfg' = cfg_get(inst'.file)
                            /\ MayUse(cfg.db)' /\ ppp_init(inst') = "OK"
  BY <1>3 DEF PrivInv, Quiet, procVars, Kernel, MayUse, is_suid, security_is_privileged
<1> QED  BY <1>1, <1>2, <1>4 DEF PrivInv, Quiet, procVars

(* The steps that are not those of the agent while it starts. *)
LEMMA QuietSteps ==
  ASSUME Next
  PROVE  Quiet \/ child \/ security_init \/ main \/ drop_privileges
<1> USE DEF Quiet, procVars, InLoop, AgentDies, ClientCloses, queryVars, pipeVars
<1>1. agent_connect \/ parent_closes \/ agent_wait \/ connected \/ agent_query_done => Quiet
  BY DEF agent_connect, parent_closes, agent_wait, connected, agent_query_done
<1>2. ASSUME NEW p \in Side  PROVE agent_write(p) \/ agent_write_broken(p) => Quiet
  <2>1. agent_write(p) => Quiet
    BY DEF agent_write, Sent
  <2>2. agent_write_broken(p) => Quiet
    BY DEF agent_write_broken
  <2> QED  BY <2>1, <2>2
<1>3. ASSUME NEW p \in Side  PROVE agent_read(p) \/ Disconnected(p, "ready")
                                     \/ Disconnected(p, "stale") => Quiet
  BY DEF agent_read, Disconnected
<1>4. agent_hdr_recv \/ request_handle => Quiet
  BY DEF agent_hdr_recv, request_handle
<1>5. agent_query \/ agent_disconnect \/ alien \/ kill_client \/ kill_agent => Quiet
  BY DEF agent_query, agent_disconnect, alien, kill_client, kill_agent
<1>6. "u" \in Side /\ "a" \in Side
  BY DEF Side
<1> QED  BY <1>1, <1>2, <1>3, <1>4, <1>5, <1>6, Zenon
         DEF Next, ClientSteps, AgentSteps, agent_read_eof, agent_read_failed

(* The uids are numbers. *)
LEMMA KernelType ==
  ASSUME PrivInv
  PROVE  Kernel \in [{"real", "eff", "saved"} -> Nat]
<1> QED  BY SessionAssumption DEF PrivInv, Kernel

(* fork, exec, and an exec that fails. *)
LEMMA ChildPriv ==
  ASSUME PrivInv, child
  PROVE  PrivInv'
<1>1. Kernel' = Kernel /\ inst' = inst /\ caller' = caller
  BY DEF child, Kernel
<1>2. uid' = uid \/ uid' = Kernel
  BY DEF child, Kernel
<1>3. agent' \in {"dead", "exec", "alien", "sorry"}
  BY DEF child, AgentDies
<1>4. agent' = "exec" => uid' = Kernel
  BY DEF child, Kernel, AgentDies
<1>5. CheckedConfigStarts'
  <2>1. cause' \in {"fork", "AGENT_ERR_INIT_EMERGENCY", cause}
    BY DEF child
  <2>2. cause' = "AGENT_ERR_INIT_EMERGENCY" => cause' = cause \/ inst.exe # "agent"
    BY DEF child
  <2> QED  BY <1>1, <2>1, <2>2 DEF CheckedConfigStarts, do_verify_config, PrivInv
<1> QED  BY <1>1, <1>2, <1>3, <1>4, <1>5, KernelType DEF PrivInv, LoopUnprivileged, InLoop

(***************************************************************************)
(* What --check-config finds fine gets through each of the agent's checks. *)
(***************************************************************************)
LEMMA VerifiedStarts ==
  ASSUME PrivInv, do_verify_config(inst), agent \in {"exec", "main", "drop"}
  PROVE  /\ ~ (inst.sgid /\ caller # 0) /\ ~ (is_suid /\ uid.eff # 0)
         /\ ppp_init(inst) = "OK"
         /\ MayUse(cfg_get(inst.file).db) \/ cfg_get(inst.file).db \in {"mysql", "ldap"}
<1> DEFINE d == cfg_get(inst.file).db
<1>1. ppp_init(inst) = "OK" /\ inst.exe = "agent" /\ ~inst.sgid
  BY DEF do_verify_config
<1>2. d = "global" => inst.bin_uid = 0 /\ inst.suid
  BY DEF do_verify_config
<1>3. d # "global" => ~inst.suid
  BY DEF do_verify_config
<1>4. d \in Databases /\ d # "unconfigured"
  <2>1. d # "unconfigured"
    BY <1>1 DEF ppp_init
  <2> QED  BY <2>1, ConfigParsed, SessionAssumption DEF PrivInv
<1>5. uid.eff = IF inst.suid THEN inst.bin_uid ELSE caller
  BY DEF PrivInv, Kernel
<1> QED
  BY <1>1, <1>2, <1>3, <1>4, <1>5
     DEF is_suid, MayUse, security_is_privileged, Databases

(* security_init *)
LEMMA InitPriv ==
  ASSUME PrivInv, security_init
  PROVE  PrivInv'
<1>1. UNCHANGED <<inst, caller, uid, cfg>> /\ Kernel' = Kernel
  BY DEF security_init, Kernel
<1>2. agent = "exec" /\ agent' \in {"dead", "main"}
  BY DEF security_init, Exit, AgentDies
<1>3. CheckedConfigStarts'
  <2>1. CASE cause' = cause
    BY <1>1, <2>1 DEF PrivInv, CheckedConfigStarts
  <2>2. CASE cause' # cause
    <3>1. (inst.sgid /\ caller # 0) \/ (is_suid /\ uid.eff # 0)
      BY <2>2 DEF security_init
    <3>2. ~ do_verify_config(inst)
      BY <1>2, <3>1, VerifiedStarts
    <3> QED  BY <1>1, <3>2 DEF CheckedConfigStarts
  <2> QED  BY <2>1, <2>2
<1> QED  BY <1>1, <1>2, <1>3 DEF PrivInv, LoopUnprivileged, InLoop

(* main, up to the loss of privileges *)
LEMMA MainPriv ==
  ASSUME PrivInv, main
  PROVE  PrivInv'
<1>1. UNCHANGED <<inst, caller, uid>> /\ Kernel' = Kernel
  BY DEF main, Kernel
<1>2. agent = "main" /\ agent' \in {"sorry", "drop"}
  BY DEF main, InitError
<1>3. agent' = "drop" => /\ Known /\ ppp_init(inst) = "OK" /\ MayUse(cfg_get(inst.file).db)
                         /\ cfg' = cfg_get(inst.file)
  BY DEF main, InitError
<1>4. CheckedConfigStarts'
  <2>1. CASE cause' \in {cause, "AGENT_ERR_INIT_USER"}
    BY <1>1, <2>1 DEF PrivInv, CheckedConfigStarts
  <2>2. CASE cause' \notin {cause, "AGENT_ERR_INIT_USER"}
    <3>1. ppp_init(inst) # "OK" \/ ~MayUse(cfg_get(inst.file).db)
      BY <2>2 DEF main, InitError
    <3>2. ~ do_verify_config(inst) \/ cfg_get(inst.file).db \in {"mysql", "ldap"}
      BY <1>2, <3>1, VerifiedStarts
    <3> QED  BY <1>1, <3>2 DEF CheckedConfigStarts
  <2> QED  BY <2>1, <2>2
<1>5. agent' = "drop" => MayUse(cfg.db)'
  BY <1>1, <1>3 DEF MayUse, is_suid, security_is_privileged
<1> QED  BY <1>1, <1>2, <1>3, <1>4, <1>5 DEF PrivInv, LoopUnprivileged, InLoop

(* The loss of privileges *)
LEMMA DropPriv ==
  ASSUME PrivInv, drop_privileges
  PROVE  PrivInv'
<1> DEFINE stays == cfg.db # "global" /\ security_is_privileged
           n == IF cfg.db = "global" THEN cfg.user_uid ELSE caller
<1>1. UNCHANGED <<inst, caller, cfg>> /\ agent = "drop" /\ agent' \in {"greet", "dead"}
  BY DEF drop_privileges, Exit, AgentDies
<1>2. cfg = cfg_get(inst.file) /\ uid = Kernel /\ ppp_init(inst) = "OK"
  BY <1>1 DEF PrivInv
<1>3. caller \in Nat /\ inst.bin_uid \in Nat /\ Len(inst.file.lines) \in Nat
  BY SessionAssumption DEF PrivInv
<1>4. cfg.user_uid = -1 \/ cfg.user_uid \in Nat \ {0}
  BY <1>2, <1>3, ConfigParsed
<1>5. uid.eff \in Nat
  BY DEF PrivInv
<1>6. CASE agent' = "greet"
  <2>1. stays \/ (cfg.db = "global" /\ security_permanent_switch(n))
              \/ (cfg.db # "global" /\ security_permanent_drop(n))
    BY <1>6 DEF drop_privileges, Exit, AgentDies
  <2>2. uid' = IF stays THEN uid ELSE setresuid(n)
    BY <1>6 DEF drop_privileges, Exit, AgentDies
  <2>3. cause' = cause
    BY <1>6 DEF drop_privileges, Exit, AgentDies
  <2>4. ~stays => n \in Nat \ {0}
    <3>1. CASE cfg.db = "global"
      <4>1. setresuid(n).eff = n
        BY <2>1, <3>1 DEF security_permanent_switch
      <4>2. n # -1
        BY <1>5, <4>1 DEF setresuid
      <4> QED  BY <1>4, <3>1, <4>2
    <3>2. CASE cfg.db # "global"
      BY <1>3, <3>2 DEF security_is_privileged
    <3> QED  BY <3>1, <3>2
  <2>5. ~stays => uid' = [real |-> n, eff |-> n, saved |-> n]
    BY <2>2, <2>4 DEF setresuid
  <2>6. uid' \in [{"real", "eff", "saved"} -> Nat]
    <3>1. CASE stays
      BY <2>2, <3>1 DEF PrivInv
    <3>2. CASE ~stays
      <4> HIDE DEF n, stays
      <4> QED  BY <2>4, <2>5, <3>2
    <3> QED  BY <3>1, <3>2
  <2>7. LoopUnprivileged'
    <3>1. CASE stays
      BY <1>1, <3>1 DEF LoopUnprivileged, security_is_privileged
    <3>2. CASE ~stays
      <4>1. {uid'.real, uid'.eff, uid'.saved} = {n} /\ 0 # n
        <5> HIDE DEF n, stays
        <5> QED  BY <2>4, <2>5, <3>2
      <4>2. cfg'.db = "global" => n = cfg'.user_uid
        BY <1>1
      <4> HIDE DEF n, stays
      <4> QED  BY <4>1, <4>2 DEF LoopUnprivileged
    <3> QED  BY <3>1, <3>2
  <2>8. CheckedConfigStarts'
    BY <1>1, <2>3 DEF PrivInv, CheckedConfigStarts
  <2> QED  BY <1>1, <1>6, <2>6, <2>7, <2>8 DEF PrivInv
<1>7. CASE agent' = "dead"
  <2>1. uid' = uid
    BY <1>7 DEF drop_privileges, Exit, AgentDies
  <2>2. ~ (stays \/ (cfg.db = "global" /\ security_permanent_switch(n))
                 \/ (cfg.db # "global" /\ security_permanent_drop(n)))
    BY <1>7 DEF drop_privileges, Exit, AgentDies
  <2>3. ASSUME do_verify_config(inst), cfg.db \notin {"mysql", "ldap"},
               ~ (cfg.db = "global" /\ cfg.user_uid = -1)
        PROVE  FALSE
    <3>1. CASE cfg.db = "global"
      <4>1. inst.suid /\ inst.bin_uid = 0
        BY <1>2, <2>3, <3>1 DEF do_verify_config
      <4>2. May(n)
        BY <1>2, <4>1 DEF May, Kernel
      <4>3. n # -1 /\ setresuid(n).eff = n
        BY <1>4, <2>3, <3>1 DEF setresuid
      <4> QED  BY <2>2, <3>1, <4>2, <4>3 DEF security_permanent_switch
    <3>2. CASE cfg.db # "global"
      <4>1. ~inst.suid
        BY <1>2, <2>3, <3>2 DEF do_verify_config
      <4>2. uid.eff = n
        BY <1>2, <3>2, <4>1 DEF Kernel
      <4> QED  BY <2>2, <3>2, <4>2 DEF security_permanent_drop, May
    <3> QED  BY <3>1, <3>2
  <2>4. CheckedConfigStarts'
    BY <1>1, <1>2, <2>3 DEF CheckedConfigStarts
  <2> QED  BY <1>1, <1>7, <2>1, <2>4 DEF PrivInv, LoopUnprivileged, InLoop
<1> QED  BY <1>1, <1>6, <1>7

(* The invariant of privileges *)
THEOREM PrivInvariant ==
  Spec => []PrivInv
<1>1. Init => PrivInv
  BY SessionAssumption DEF Init, PrivInv, LoopUnprivileged, CheckedConfigStarts, InLoop
<1>2. PrivInv /\ [Next]_vars => PrivInv'
  <2> SUFFICES ASSUME PrivInv, [Next]_vars  PROVE PrivInv'
    OBVIOUS
  <2>1. CASE Next
    BY <2>1, QuietSteps, QuietPriv, ChildPriv, InitPriv, MainPriv, DropPriv
  <2>2. CASE UNCHANGED vars
    <3>1. Quiet
      BY <2>2 DEF Quiet, vars
    <3> QED  BY <3>1, QuietPriv
  <2> QED  BY <2>1, <2>2
<1> QED  BY <1>1, <1>2, PTL DEF Spec

(***************************************************************************)
(* Who is not root never reaches an agent that is, or can become root      *)
(* again, and with a global database the agent runs as the configured      *)
(* user: for every configuration file and every installation.              *)
(***************************************************************************)
THEOREM SessionUnprivileged ==
  Spec => []LoopUnprivileged
<1>1. PrivInv => LoopUnprivileged
  BY DEF PrivInv
<1> QED  BY <1>1, PrivInvariant, PTL

(* What "agent_otp --check-config" finds fine, the agent starts with. *)
THEOREM SessionStarts ==
  Spec => []CheckedConfigStarts
<1>1. PrivInv => CheckedConfigStarts
  BY DEF PrivInv
<1> QED  BY <1>1, PrivInvariant, PTL

-----------------------------------------------------------------------------
(***************************************************************************)
(* A direction of the connection: what its reader has, what is in the      *)
(* pipe and what its writer still has to write; r, p and w before a step,  *)
(* r2, p2 and w2 after it.                                                 *)
(***************************************************************************)
Same(r, p, w, r2, p2, w2) == r2 = r /\ p2 = p /\ w2 = w

WritesOne(r, p, w, r2, p2, w2) ==
    w # <<>> /\ r2 = r /\ p2 = Append(p, Head(w)) /\ w2 = Tail(w)

ReadsSome(r, p, w, r2, p2, w2) ==
    \E k \in 1..Len(p) : /\ r2 = r \o SubSeq(p, 1, k)
                         /\ p2 = SubSeq(p, k + 1, Len(p))
                         /\ w2 = w

Cut(r, p, w, r2, p2, w2) == r2 = r /\ p2 = p /\ w2 = <<>>

(* The parts of a header are in their order. *)
InOrder(r, p, w) ==
    /\ \A i \in 1..Len(r) : r[i].i = i
    /\ \A i \in 1..Len(p) : p[i].i = Len(r) + i
    /\ \A i \in 1..Len(w) : w[i].i = Len(r) + Len(p) + i

(* A field is written. *)
LEMMA WritesOneKeeps ==
  ASSUME NEW S, NEW r \in Seq(S), NEW p \in Seq(S), NEW w \in Seq(S), NEW r2, NEW p2, NEW w2,
         WritesOne(r, p, w, r2, p2, w2)
  PROVE  /\ r2 \in Seq(S) /\ p2 \in Seq(S) /\ w2 \in Seq(S)
         /\ Len(w) \in Nat \ {0} /\ Len(r2) = Len(r)
         /\ Len(p2) = Len(p) + 1 /\ Len(w2) = Len(w) - 1
         /\ InOrder(r, p, w) => InOrder(r2, p2, w2)
<1>1. r2 = r /\ w # <<>> /\ p2 = Append(p, Head(w)) /\ w2 = Tail(w)
  BY DEF WritesOne
<1>2. r2 \in Seq(S) /\ p2 \in Seq(S) /\ w2 \in Seq(S)
  BY <1>1
<1>3. Len(w) \in Nat \ {0} /\ Len(p2) = Len(p) + 1 /\ Len(w2) = Len(w) - 1
  BY <1>1
<1>4. ASSUME InOrder(r, p, w)  PROVE InOrder(r2, p2, w2)
  <2>1. ASSUME NEW i \in 1..Len(p2)  PROVE p2[i].i = Len(r2) + i
    <3>1. CASE i \in 1..Len(p)
      BY <1>1, <1>4, <3>1 DEF InOrder
    <3>2. CASE i = Len(p) + 1
      <4>1. p2[i] = w[1] /\ 1 \in 1..Len(w)
        BY <1>1, <1>3, <3>2
      <4>2. w[1].i = Len(r) + Len(p) + 1
        BY <1>4, <4>1 DEF InOrder
      <4> QED  BY <1>1, <3>2, <4>1, <4>2
    <3> QED  BY <1>3, <3>1, <3>2
  <2>2. ASSUME NEW i \in 1..Len(w2)  PROVE w2[i].i = Len(r2) + Len(p2) + i
    <3>1. w2[i] = w[i + 1] /\ i + 1 \in 1..Len(w)
      BY <1>1, <1>3
    <3>2. w[i + 1].i = Len(r) + Len(p) + (i + 1)
      BY <1>4, <3>1 DEF InOrder
    <3>3. Len(p2) + i = Len(p) + (i + 1) /\ r2 = r
      BY <1>1, <1>3
    <3>4. Len(r2) \in Nat /\ Len(p2) \in Nat /\ Len(p) \in Nat /\ Len(r) \in Nat
      BY <1>1, <1>3
    <3>5. Len(r2) + Len(p2) + i = Len(r) + Len(p) + (i + 1)
      BY <3>3, <3>4
    <3> QED  BY <3>1, <3>2, <3>5, Zenon
  <2> QED  BY <1>1, <1>4, <2>1, <2>2 DEF InOrder
<1> QED  BY <1>1, <1>2, <1>3, <1>4

(* What the pipe holds, or a part of it, is read. *)
LEMMA ReadsSomeKeeps ==
  ASSUME NEW S, NEW r \in Seq(S), NEW p \in Seq(S), NEW w \in Seq(S), NEW r2, NEW p2, NEW w2,
         ReadsSome(r, p, w, r2, p2, w2)
  PROVE  /\ r2 \in Seq(S) /\ p2 \in Seq(S) /\ w2 \in Seq(S)
         /\ Len(p) \in Nat \ {0} /\ w2 = w
         /\ Len(r2) + Len(p2) = Len(r) + Len(p)
         /\ InOrder(r, p, w) => InOrder(r2, p2, w2)
<1>1. PICK k \in 1..Len(p) : /\ r2 = r \o SubSeq(p, 1, k)
                             /\ p2 = SubSeq(p, k + 1, Len(p))
                             /\ w2 = w
  BY DEF ReadsSome
<1> DEFINE a == SubSeq(p, 1, k)
<1>2. a \in Seq(S) /\ Len(a) = k /\ \A i \in 1..k : a[i] = p[i]
  BY <1>1
<1>3. p2 \in Seq(S) /\ Len(p2) = Len(p) - k /\ \A i \in 1..Len(p2) : p2[i] = p[k + i]
  BY <1>1
<1> HIDE DEF a
<1>4. /\ r2 \in Seq(S) /\ Len(r2) = Len(r) + k
      /\ \A i \in 1..Len(r2) : r2[i] = IF i <= Len(r) THEN r[i] ELSE a[i - Len(r)]
  BY <1>1, <1>2 DEF a
<1>0. w2 = w /\ k \in Nat /\ Len(r) \in Nat /\ Len(p) \in Nat \ {0}
  BY <1>1
<1>6. Len(r2) + Len(p2) = Len(r) + Len(p) /\ w2 = w /\ Len(p) \in Nat \ {0}
  BY <1>0, <1>3, <1>4
<1>5. ASSUME InOrder(r, p, w)  PROVE InOrder(r2, p2, w2)
  <2>1. ASSUME NEW i \in 1..Len(r2)  PROVE r2[i].i = i
    <3>1. CASE i <= Len(r)
      <4>1. i \in 1..Len(r) /\ r2[i] = r[i]
        BY <1>0, <1>4, <3>1
      <4> QED  BY <1>5, <4>1 DEF InOrder
    <3>2. CASE ~ (i <= Len(r))
      <4>1. i - Len(r) \in 1..k /\ i - Len(r) \in 1..Len(p)
        BY <1>1, <1>4, <3>2
      <4>2. r2[i] = p[i - Len(r)]
        BY <1>2, <1>4, <3>2, <4>1
      <4>3. p[i - Len(r)].i = Len(r) + (i - Len(r))
        BY <1>5, <4>1 DEF InOrder
      <4> QED  BY <4>2, <4>3
    <3> QED  BY <3>1, <3>2
  <2>2. ASSUME NEW i \in 1..Len(p2)  PROVE p2[i].i = Len(r2) + i
    <3>1. k + i \in 1..Len(p) /\ p2[i] = p[k + i]
      BY <1>1, <1>3
    <3>2. p[k + i].i = Len(r) + (k + i)
      BY <1>5, <3>1 DEF InOrder
    <3> QED  BY <1>1, <1>4, <3>1, <3>2
  <2>3. ASSUME NEW i \in 1..Len(w2)  PROVE w2[i].i = Len(r2) + Len(p2) + i
    <3>1. w[i].i = Len(r) + Len(p) + i
      BY <1>1, <1>5 DEF InOrder
    <3>2. Len(r2) + Len(p2) + i = Len(r) + Len(p) + i
      BY <1>6
    <3> QED  BY <1>6, <3>1, <3>2, Zenon
  <2> QED  BY <2>1, <2>2, <2>3 DEF InOrder
<1> QED  BY <1>3, <1>4, <1>5, <1>6

(* The writer ends. *)
LEMMA CutKeeps ==
  ASSUME NEW S, NEW r \in Seq(S), NEW p \in Seq(S), NEW w \in Seq(S), NEW r2, NEW p2, NEW w2,
         Cut(r, p, w, r2, p2, w2)
  PROVE  /\ r2 \in Seq(S) /\ p2 \in Seq(S) /\ w2 \in Seq(S)
         /\ Len(r2) = Len(r) /\ Len(p2) = Len(p) /\ Len(w2) = 0
         /\ InOrder(r, p, w) => InOrder(r2, p2, w2)
<1> QED  BY DEF Cut, InOrder

(* A header of the code is one field after the other. *)
LEMMA HeaderSeq ==
  ASSUME NEW S, NEW t, NEW q, NEW v,
         \A i \in 1..FIELDS : [type |-> t, query |-> q, version |-> v, i |-> i] \in S
  PROVE  /\ Header(t, q, v) \in Seq(S) /\ Len(Header(t, q, v)) = FIELDS
         /\ InOrder(<<>>, <<>>, Header(t, q, v))
<1> DEFINE h == Header(t, q, v)
<1>1. h = [i \in 1..FIELDS |-> [type |-> t, query |-> q, version |-> v, i |-> i]]
  BY DEF Header
<1>2. FIELDS \in Nat
  BY SessionAssumption
<1>3. h \in [1..FIELDS -> S]
  BY <1>1
<1>4. h \in Seq(S) /\ Len(h) = FIELDS
  BY <1>1, <1>2, <1>3
<1>5. \A i \in 1..Len(h) : h[i].i = i
  <2>1. \A i \in 1..FIELDS : h[i].i = i
    BY <1>1
  <2> HIDE DEF h
  <2> QED  BY <1>4, <2>1
<1> HIDE DEF h
<1>6. InOrder(<<>>, <<>>, h)
  <2>1. Len(<<>>) = 0
    OBVIOUS
  <2> QED  BY <1>2, <1>4, <1>5, <2>1 DEF InOrder
<1> QED  BY <1>4, <1>6 DEF h

-----------------------------------------------------------------------------
(***************************************************************************)
(* Types of all that moves.                                                *)
(***************************************************************************)
Versions == {"same", "other"} \cup {x.version : x \in Installations}
Field == [type : {"INIT", "INIT_ERROR", "JUNK", "REPLY", "REQ"},
          query : 0..MAX_QUERIES, version : Versions, i : 1..FIELDS]

BufInv ==
    /\ inst \in Installations
    /\ client \in Client /\ agent \in Agent
    /\ ends \subseteq Side \X {"req", "rep"} \X {"r", "w"}
    /\ pipe \in [{"req", "rep"} -> Seq(Field)]
    /\ wr \in [Side -> Seq(Field)] /\ rd \in [Side -> Seq(Field)]
    /\ queries \in 0..MAX_QUERIES /\ error \in BOOLEAN /\ got \in 0..MAX_QUERIES

(***************************************************************************)
(* Ends of pipes: the utility reads the replies as long as it is connected *)
(* and has given up the reading end of the requests; the agent writes the  *)
(* replies until it ends, and then reads no more requests.                 *)
(***************************************************************************)
EndsInv ==
    /\ client = "start" => agent = "none"
    /\ client \notin {"start", "failed", "off"} => <<"u", "rep", "r">> \in ends
    /\ client \in {"select", "init", "ready", "send", "recv"} => <<"u", "req", "r">> \notin ends
    /\ agent \notin {"none", "dead"} => <<"a", "rep", "w">> \in ends
    /\ agent = "dead" => <<"a", "req", "r">> \notin ends

(* The buffers of the two directions: read, in the pipe, still to write. *)
ReqRead == rd["a"]
ReqPipe == pipe["req"]
ReqToWrite == wr["u"]
RepRead == rd["u"]
RepPipe == pipe["rep"]
RepToWrite == wr["a"]

(***************************************************************************)
(* Turns.  What is under way in a direction, with what its writer still    *)
(* has to write, is never more than a header; and while a request is under *)
(* way or handled no reply is, also after the utility has left.            *)
(***************************************************************************)
ReqLen == Len(ReqRead) + Len(ReqPipe) + Len(ReqToWrite)
RepLen == Len(RepRead) + Len(RepPipe) + Len(RepToWrite)

Starting == {"none", "forked", "exec", "main", "drop", "alien"}
Sending == {"greet", "sorry", "reply", "bye"}

AgentTurn ==
    /\ Len(RepToWrite) > 0 <=> agent \in Sending
    /\ Len(ReqRead) + Len(ReqPipe) <= FIELDS
    /\ RepLen <= FIELDS
    /\ agent \in Starting => RepLen = 0
    /\ agent \in Starting \cup Sending => ReqLen = 0
    /\ agent = "loop" => ReqLen = 0 \/ (ReqLen <= FIELDS /\ RepLen = 0)
    /\ agent = "handle" => Len(ReqRead) = FIELDS /\ ReqLen = FIELDS /\ RepLen = 0

ClientTurn ==
    /\ Len(ReqToWrite) > 0 <=> client = "send"
    /\ client \in Connecting => ReqLen = 0 /\ ~error
    /\ client \in {"ready", "send"} /\ ~error => RepLen = 0 /\ agent \in {"loop", "dead"}
    /\ client = "ready" /\ agent # "dead" => ReqLen = 0
    /\ client = "recv" /\ agent # "dead" => agent \in {"loop", "handle", "reply", "bye"}
    /\ error => client \in {"ready", "send", "recv", "stale", "failed", "off"}
    /\ error /\ client \in {"ready", "send", "recv"} =>
         agent = "dead" /\ Len(RepPipe) = 0 /\ Len(RepRead) < FIELDS

(***************************************************************************)
(* Contents.  The parts of a reply come in order and belong to the query   *)
(* that is open; after a greeting both sides have the same version.        *)
(***************************************************************************)
Replies(S) == RepRead \in Seq(S) /\ RepPipe \in Seq(S) /\ RepToWrite \in Seq(S)
Requests(S) == ReqRead \in Seq(S) /\ ReqPipe \in Seq(S) /\ ReqToWrite \in Seq(S)

Greetings(v) == {f \in Field : f.type = "INIT" => f.version = v}
OfQuery(m) == {f \in Field : f.query = m}
Answers(m) == {f \in Field : f.query = m /\ f.version = "same"}

ContentInv ==
    /\ InOrder(RepRead, RepPipe, RepToWrite)
    /\ Replies(Greetings(inst.version))
    /\ client \in {"ready", "send", "recv"} => inst.version = "same"
    /\ client \in Querying /\ ~error => Replies(Answers(queries))
    /\ client \in Querying /\ agent # "dead" => Requests(OfQuery(queries))

ProtocolInv == BufInv /\ EndsInv /\ AgentTurn /\ ClientTurn /\ ContentInv

-----------------------------------------------------------------------------
(***************************************************************************)
(* Kinds of steps: many actions end in one of a few changes.               *)
(***************************************************************************)

(* The agent ends, with whatever it had to write. *)
AgentGone == /\ agent \notin {"none", "dead"} /\ AgentDies
             /\ UNCHANGED <<client, inst, pipe, rd, queryVars>>

(* The utility closes its ends. *)
ClientGone == /\ \E where \in {"failed", "off"} : ClientCloses(where)
              /\ UNCHANGED <<agent, inst, pipe, rd, queryVars>>

(* The agent closes the ends that are not its own, or none. *)
AgentEndsClosed == \/ ends' = ends
                   \/ ends' = ends \ {<<"a", "rep", "r">>, <<"a", "req", "w">>}

(* A step of the agent's start. *)
AgentStarts == /\ agent \in Starting \ {"none"} /\ agent' \in Starting \ {"none"}
               /\ AgentEndsClosed
               /\ UNCHANGED <<client, inst, pipe, rd, wr, queryVars>>

(* Its greeting, or what another program says. *)
AgentSays == /\ agent \in Starting \ {"none"} /\ agent' \in {"greet", "sorry"}
             /\ \E t \in {"INIT", "INIT_ERROR", "JUNK"}, v \in Versions :
                   Send("a", Header(t, 0, v)) /\ (t = "INIT" => v = inst.version)
             /\ AgentEndsClosed
             /\ UNCHANGED <<client, inst, pipe, rd, queryVars>>

(* A SUID agent that cannot reply goes back to its loop. *)
AgentGoesOn == /\ agent = "reply" /\ agent' = "loop" /\ ~Open("rep", "r")
               /\ wr' = [wr EXCEPT !["a"] = <<>>]
               /\ UNCHANGED <<client, inst, ends, pipe, rd, queryVars>>

(* A request is complete. *)
AgentTakes == /\ agent = "loop" /\ agent' = "handle" /\ Len(rd["a"]) >= FIELDS
              /\ UNCHANGED <<client, inst, pipeVars, queryVars>>

(* agent_wait sees the pipe. *)
ClientWaits == /\ client = "select" /\ client' = "init"
               /\ UNCHANGED <<agent, inst, pipeVars, queryVars>>

(* The end of file, or a read that fails, while a reply is waited for. *)
ClientLoses == /\ client = "recv" /\ Len(rd["u"]) < FIELDS
               /\ client' = "stale" \/ (client' = "ready" /\ Eof("u"))
               /\ error' = TRUE
               /\ UNCHANGED <<agent, inst, pipeVars, queries, got>>

Kinds == \/ AgentGone \/ ClientGone \/ AgentStarts \/ AgentSays \/ AgentGoesOn
         \/ AgentTakes \/ ClientWaits \/ ClientLoses

(* The other steps are their own kind. *)
Own == \/ agent_connect \/ parent_closes \/ connected \/ agent_query
       \/ agent_query_done \/ request_handle
       \/ \E p \in Side : agent_write(p) \/ agent_read(p)

(* Every step is of one of these kinds. *)
LEMMA SessionKinds ==
  ASSUME Next, inst \in Installations, agent \in {"none", "dead"} => wr["a"] = <<>>
  PROVE  Kinds \/ Own
<1> DEFINE Parts == <<client, inst, pipe, rd, queryVars>>
<1>1. child => AgentGone \/ AgentStarts \/ AgentSays
  <2> SUFFICES ASSUME child  PROVE AgentGone \/ AgentStarts \/ AgentSays
    OBVIOUS
  <2>1. agent = "forked" /\ UNCHANGED Parts
    BY DEF child
  <2>2. CASE AgentDies
    BY <2>1, <2>2 DEF AgentGone
  <2>3. CASE ~AgentDies
    <3>1. AgentEndsClosed
      BY <2>3 DEF child, AgentEndsClosed
    <3>2. \/ agent' \in {"exec", "alien"} /\ wr' = wr
          \/ agent' = "sorry" /\ Send("a", Header("INIT_ERROR", 0, "same"))
      BY <2>3 DEF child
    <3> QED  BY <2>1, <3>1, <3>2 DEF AgentStarts, AgentSays, Starting, Versions
  <2> QED  BY <2>2, <2>3
<1>2. ASSUME alien  PROVE AgentGone \/ AgentSays
  <2>1. agent = "alien" /\ UNCHANGED Parts
    BY <1>2 DEF alien, procVars
  <2>2. \/ agent' = "sorry" /\ Send("a", Header("JUNK", 0, "other")) /\ ends' = ends
        \/ AgentDies
    BY <1>2 DEF alien
  <2>3. "other" \in Versions
    BY DEF Versions
  <2> QED  BY <2>1, <2>2, <2>3 DEF AgentGone, AgentSays, AgentEndsClosed, Starting
<1>3. security_init => AgentGone \/ AgentStarts
  BY DEF security_init, AgentGone, AgentStarts, AgentEndsClosed, Starting, Exit
<1>4. ASSUME main  PROVE AgentStarts \/ AgentSays
  <2>1. agent = "main" /\ UNCHANGED Parts
    BY <1>4 DEF main
  <2>2. \/ /\ agent' = "sorry" /\ Send("a", Header("INIT_ERROR", 0, inst.version))
           /\ ends' = ends
        \/ agent' = "drop" /\ UNCHANGED <<ends, wr>>
    BY <1>4 DEF main, InitError
  <2>3. inst.version \in Versions
    BY DEF Versions
  <2> QED  BY <2>1, <2>2, <2>3 DEF AgentStarts, AgentSays, AgentEndsClosed, Starting
<1>5. ASSUME drop_privileges  PROVE AgentGone \/ AgentSays
  <2>1. agent = "drop" /\ UNCHANGED Parts
    BY <1>5 DEF drop_privileges
  <2>2. \/ /\ agent' = "greet" /\ Send("a", Header("INIT", 0, inst.version))
           /\ ends' = ends
        \/ AgentDies
    BY <1>5 DEF drop_privileges, Exit
  <2>3. inst.version \in Versions
    BY DEF Versions
  <2> QED  BY <2>1, <2>2, <2>3 DEF AgentGone, AgentSays, AgentEndsClosed, Starting
<1>6. agent_wait => ClientWaits \/ ClientGone
  BY DEF agent_wait, ClientWaits, ClientGone, procVars, pipeVars
<1>7. ASSUME NEW p \in Side, agent_write_broken(p)
      PROVE  ClientGone \/ AgentGone \/ AgentGoesOn
  <2>1. CASE p = "u"
    BY <1>7, <2>1 DEF agent_write_broken, ClientGone, procVars
  <2>2. CASE p = "a"
    <3>1. agent \notin {"none", "dead"}
      BY <1>7, <2>2 DEF agent_write_broken
    <3> QED
      BY <1>7, <2>2, <3>1 DEF agent_write_broken, AgentGone, AgentGoesOn, procVars, Writes
  <2> QED  BY <2>1, <2>2 DEF Side
<1>8. ASSUME NEW p \in Side, agent_read_eof(p) \/ agent_read_failed(p)
      PROVE  ClientGone \/ AgentGone \/ ClientLoses
  <2>1. CASE p = "u"
    BY <1>8, <2>1 DEF agent_read_eof, agent_read_failed, Disconnected,
                      ClientGone, ClientLoses, procVars, pipeVars, queryVars
  <2>2. CASE p = "a"
    BY <1>8, <2>2 DEF agent_read_eof, agent_read_failed, Disconnected,
                      AgentGone, Receives, procVars, queryVars
  <2> QED  BY <2>1, <2>2 DEF Side
<1>9. agent_hdr_recv => AgentTakes \/ AgentGone
  BY DEF agent_hdr_recv, AgentTakes, AgentGone, Complete, procVars, pipeVars
<1>10. agent_disconnect \/ kill_client => ClientGone
  BY DEF agent_disconnect, kill_client, ClientGone, procVars
<1>11. kill_agent => AgentGone
  BY DEF kill_agent, AgentGone, procVars
<1>12. "u" \in Side /\ "a" \in Side
  BY DEF Side
<1> HIDE DEF Parts
<1>13. ClientSteps => Kinds \/ Own
  BY <1>6, <1>7, <1>8, <1>12, Zenon DEF ClientSteps, Kinds, Own
<1>14. AgentSteps => Kinds \/ Own
  BY <1>1, <1>3, <1>4, <1>5, <1>7, <1>8, <1>9, <1>12, Zenon DEF AgentSteps, Kinds, Own
<1> QED  BY <1>2, <1>8, <1>10, <1>11, <1>13, <1>14, Zenon DEF Next, Kinds, Own

-----------------------------------------------------------------------------
(* The buffers one by one, and how long they are. *)
LEMMA Buffers ==
  ASSUME BufInv
  PROVE  /\ Requests(Field) /\ Replies(Field)
         /\ Len(ReqRead) \in Nat /\ Len(ReqPipe) \in Nat /\ Len(ReqToWrite) \in Nat
         /\ Len(RepRead) \in Nat /\ Len(RepPipe) \in Nat /\ Len(RepToWrite) \in Nat
         /\ FIELDS \in Nat \ {0}
<1>1. Requests(Field) /\ Replies(Field)
  BY DEF BufInv, Requests, Replies, Side,
         ReqRead, ReqPipe, ReqToWrite, RepRead, RepPipe, RepToWrite
<1>2. \A s \in Seq(Field) : Len(s) \in Nat
  OBVIOUS
<1> QED  BY <1>1, <1>2, SessionAssumption DEF Requests, Replies

(* Nothing under way is empty buffers. *)
LEMMA NoReplies ==
  ASSUME BufInv, RepLen = 0
  PROVE  RepRead = <<>> /\ RepPipe = <<>> /\ RepToWrite = <<>>
<1>1. \A s \in Seq(Field) : s # <<>> => Len(s) \in Nat \ {0}
  BY EmptySeq
<1>2. Len(RepRead) = 0 /\ Len(RepPipe) = 0 /\ Len(RepToWrite) = 0
  BY Buffers DEF RepLen
<1> QED  BY <1>1, <1>2, Buffers DEF Replies

(* The same of requests. *)
LEMMA NoRequests ==
  ASSUME BufInv, ReqLen = 0
  PROVE  ReqRead = <<>> /\ ReqPipe = <<>> /\ ReqToWrite = <<>>
<1>1. \A s \in Seq(Field) : s # <<>> => Len(s) \in Nat \ {0}
  BY EmptySeq
<1>2. Len(ReqRead) = 0 /\ Len(ReqPipe) = 0 /\ Len(ReqToWrite) = 0
  BY Buffers DEF ReqLen
<1> QED  BY <1>1, <1>2, Buffers DEF Requests

(* One buffer of a side changed. *)
LEMMA BufferChange ==
  ASSUME NEW f \in [Side -> Seq(Field)], NEW p \in Side, NEW b \in Seq(Field)
  PROVE  /\ [f EXCEPT ![p] = b] \in [Side -> Seq(Field)]
         /\ \A q \in Side : [f EXCEPT ![p] = b][q] = IF q = p THEN b ELSE f[q]
<1> QED  OBVIOUS

(* What the agent has to write is replaced. *)
LEMMA AgentWrites ==
  ASSUME BufInv, NEW b \in Seq(Field), wr' = [wr EXCEPT !["a"] = b]
  PROVE  wr' \in [Side -> Seq(Field)] /\ RepToWrite' = b /\ ReqToWrite' = ReqToWrite
<1>1. "a" \in Side /\ "u" \in Side /\ wr \in [Side -> Seq(Field)]
  BY DEF Side, BufInv
<1> QED  BY <1>1, BufferChange DEF RepToWrite, ReqToWrite

(* What the utility has to write is replaced. *)
LEMMA ClientWrites ==
  ASSUME BufInv, NEW b \in Seq(Field), wr' = [wr EXCEPT !["u"] = b]
  PROVE  wr' \in [Side -> Seq(Field)] /\ ReqToWrite' = b /\ RepToWrite' = RepToWrite
<1>1. "a" \in Side /\ "u" \in Side /\ wr \in [Side -> Seq(Field)]
  BY DEF Side, BufInv
<1> QED  BY <1>1, BufferChange DEF RepToWrite, ReqToWrite

(* The agent ends. *)
LEMMA AgentGoneKeeps ==
  ASSUME ProtocolInv, AgentGone
  PROVE  ProtocolInv'
<1>0. BufInv /\ EndsInv /\ AgentTurn /\ ClientTurn /\ ContentInv
  BY DEF ProtocolInv
<1>1. /\ UNCHANGED <<client, inst, pipe, rd, queries, error, got>>
      /\ agent \notin {"none", "dead"} /\ agent' = "dead" /\ ends' = Without("a")
      /\ wr' = [wr EXCEPT !["a"] = <<>>]
  BY DEF AgentGone, AgentDies, queryVars
<1>2. /\ wr' \in [Side -> Seq(Field)]
      /\ RepToWrite' = <<>> /\ ReqToWrite' = ReqToWrite
      /\ ReqRead' = ReqRead /\ ReqPipe' = ReqPipe /\ RepRead' = RepRead /\ RepPipe' = RepPipe
  <2>1. <<>> \in Seq(Field)
    BY EmptySeq
  <2> QED  BY <1>0, <1>1, <2>1, AgentWrites DEF ReqRead, ReqPipe, RepRead, RepPipe
<1>3. BufInv'
  BY <1>0, <1>1, <1>2 DEF BufInv, Agent, Without
<1>4. EndsInv'
  BY <1>0, <1>1 DEF EndsInv, Without
<1>5. ReqLen' = ReqLen /\ Len(RepToWrite') = 0 /\ RepLen' <= RepLen /\ RepLen' \in Nat
  BY <1>0, <1>2, Buffers DEF ReqLen, RepLen
<1>6. AgentTurn'
  BY <1>0, <1>1, <1>2, <1>5, Buffers DEF AgentTurn, Starting, Sending, RepLen
<1>7. ClientTurn'
  BY <1>0, <1>1, <1>2, <1>5, Buffers DEF ClientTurn, RepLen
<1>8. ContentInv'
  <2>1. \A S : Replies(S) => RepRead' \in Seq(S) /\ RepPipe' \in Seq(S) /\ RepToWrite' \in Seq(S)
    BY <1>2, EmptySeq DEF Replies
  <2>2. InOrder(RepRead, RepPipe, RepToWrite)'
    BY <1>0, <1>2, Buffers, CutKeeps DEF ContentInv, Cut, Replies
  <2> QED  BY <1>0, <1>1, <2>1, <2>2 DEF ContentInv, Replies
<1> QED  BY <1>3, <1>4, <1>6, <1>7, <1>8 DEF ProtocolInv

(* The utility closes its ends. *)
LEMMA ClientGoneKeeps ==
  ASSUME ProtocolInv, ClientGone
  PROVE  ProtocolInv'
<1>0. BufInv /\ EndsInv /\ AgentTurn /\ ClientTurn /\ ContentInv
  BY DEF ProtocolInv
<1>1. /\ UNCHANGED <<agent, inst, pipe, rd, queries, error, got>>
      /\ client' \in {"failed", "off"} /\ ends' = Without("u")
      /\ wr' = [wr EXCEPT !["u"] = <<>>]
  BY DEF ClientGone, ClientCloses, queryVars
<1>2. /\ wr' \in [Side -> Seq(Field)]
      /\ ReqToWrite' = <<>> /\ RepToWrite' = RepToWrite
      /\ ReqRead' = ReqRead /\ ReqPipe' = ReqPipe /\ RepRead' = RepRead /\ RepPipe' = RepPipe
  <2>1. <<>> \in Seq(Field)
    BY EmptySeq
  <2> QED  BY <1>0, <1>1, <2>1, ClientWrites DEF ReqRead, ReqPipe, RepRead, RepPipe
<1>3. BufInv'
  BY <1>0, <1>1, <1>2 DEF BufInv, Client, Without
<1>4. EndsInv'
  BY <1>0, <1>1 DEF EndsInv, Without
<1>5. RepLen' = RepLen /\ Len(ReqToWrite') = 0 /\ ReqLen' <= ReqLen /\ ReqLen' \in Nat
  BY <1>0, <1>2, Buffers DEF ReqLen, RepLen
<1>6. AgentTurn'
  <2>1. agent = "handle" => ReqLen' = ReqLen
    BY <1>0, <1>2, <1>5, Buffers DEF AgentTurn, ReqLen
  <2> QED
    BY <1>0, <1>1, <1>2, <1>5, <2>1, Buffers DEF AgentTurn, Starting, Sending, ReqLen
<1>7. ClientTurn'
  BY <1>0, <1>1, <1>2, <1>5, Buffers DEF ClientTurn, Connecting
<1>8. ContentInv'
  BY <1>0, <1>1, <1>2 DEF ContentInv, Replies, Querying
<1> QED  BY <1>3, <1>4, <1>6, <1>7, <1>8 DEF ProtocolInv

(* Steps that leave all buffers alone. *)
LEMMA BuffersSame ==
  ASSUME UNCHANGED <<pipe, wr, rd>>
  PROVE  /\ ReqToWrite' = ReqToWrite /\ RepToWrite' = RepToWrite
         /\ ReqRead' = ReqRead /\ ReqPipe' = ReqPipe /\ RepRead' = RepRead /\ RepPipe' = RepPipe
         /\ ReqLen' = ReqLen /\ RepLen' = RepLen
<1> QED  BY DEF ReqRead, ReqPipe, ReqToWrite, RepRead, RepPipe, RepToWrite, ReqLen, RepLen

(* A step of the agent's start. *)
LEMMA AgentStartsKeeps ==
  ASSUME ProtocolInv, AgentStarts
  PROVE  ProtocolInv'
<1>0. BufInv /\ EndsInv /\ AgentTurn /\ ClientTurn /\ ContentInv
  BY DEF ProtocolInv
<1>1. /\ UNCHANGED <<client, inst, pipe, rd, wr, queries, error, got>>
      /\ agent \in Starting \ {"none"} /\ agent' \in Starting \ {"none"} /\ AgentEndsClosed
  BY DEF AgentStarts, queryVars
<1>2. BufInv'
  BY <1>0, <1>1 DEF BufInv, Agent, Starting, AgentEndsClosed
<1>3. EndsInv'
  BY <1>0, <1>1 DEF EndsInv, AgentEndsClosed, Starting
<1>4. AgentTurn'
  BY <1>0, <1>1, BuffersSame DEF AgentTurn, Starting, Sending
<1>5. ClientTurn'
  BY <1>0, <1>1, BuffersSame DEF ClientTurn, Starting
<1>6. ContentInv'
  BY <1>0, <1>1, BuffersSame DEF ContentInv, Replies, Requests, Starting
<1> QED  BY <1>2, <1>3, <1>4, <1>5, <1>6 DEF ProtocolInv

(* The utility waits, the agent has a complete request, or the pipe ends. *)
LEMMA ClientWaitsKeeps ==
  ASSUME ProtocolInv, ClientWaits
  PROVE  ProtocolInv'
<1>0. BufInv /\ EndsInv /\ AgentTurn /\ ClientTurn /\ ContentInv
  BY DEF ProtocolInv
<1>1. /\ UNCHANGED <<agent, inst, pipe, rd, wr, ends, queries, error, got>>
      /\ client = "select" /\ client' = "init"
  BY DEF ClientWaits, queryVars, pipeVars
<1>2. BufInv'
  BY <1>0, <1>1 DEF BufInv, Client, Connecting
<1>3. EndsInv'
  BY <1>0, <1>1 DEF EndsInv
<1>4. AgentTurn'
  BY <1>0, <1>1, BuffersSame DEF AgentTurn, Starting, Sending
<1>5. ClientTurn'
  BY <1>0, <1>1, BuffersSame DEF ClientTurn, Connecting
<1>6. ContentInv'
  BY <1>0, <1>1, BuffersSame DEF ContentInv, Replies, Querying
<1> QED  BY <1>2, <1>3, <1>4, <1>5, <1>6 DEF ProtocolInv

(* A request that is complete may be handled. *)
LEMMA AgentTakesKeeps ==
  ASSUME ProtocolInv, AgentTakes
  PROVE  ProtocolInv'
<1>0. BufInv /\ EndsInv /\ AgentTurn /\ ClientTurn /\ ContentInv
  BY DEF ProtocolInv
<1>1. /\ UNCHANGED <<client, inst, pipe, rd, wr, ends, queries, error, got>>
      /\ agent = "loop" /\ agent' = "handle" /\ Len(ReqRead) >= FIELDS
  BY DEF AgentTakes, queryVars, pipeVars, ReqRead
<1>2. BufInv'
  BY <1>0, <1>1 DEF BufInv, Agent
<1>3. EndsInv'
  BY <1>0, <1>1 DEF EndsInv
<1>4. ReqLen = FIELDS /\ Len(ReqRead) = FIELDS /\ RepLen = 0 /\ Len(ReqToWrite) = 0
  BY <1>0, <1>1, Buffers DEF AgentTurn, ReqLen
<1>5. AgentTurn'
  BY <1>0, <1>1, <1>4, BuffersSame, Buffers DEF AgentTurn, Starting, Sending
<1>6. ClientTurn'
  BY <1>0, <1>1, <1>4, BuffersSame, Buffers DEF ClientTurn
<1>7. ContentInv'
  BY <1>0, <1>1, BuffersSame DEF ContentInv, Replies, Requests
<1> QED  BY <1>2, <1>3, <1>5, <1>6, <1>7 DEF ProtocolInv

(* The end of file takes nothing out of the pipes. *)
LEMMA ClientLosesKeeps ==
  ASSUME ProtocolInv, ClientLoses
  PROVE  ProtocolInv'
<1>0. BufInv /\ EndsInv /\ AgentTurn /\ ClientTurn /\ ContentInv
  BY DEF ProtocolInv
<1>1. /\ UNCHANGED <<agent, inst, pipe, rd, wr, ends, queries, got>>
      /\ client = "recv" /\ client' \in {"ready", "stale"} /\ error' = TRUE
      /\ Len(RepRead) < FIELDS
      /\ client' = "ready" => RepPipe = <<>> /\ <<"a", "rep", "w">> \notin ends
  <2>1. "a" \in Side
    BY DEF Side
  <2> QED  BY <2>1 DEF ClientLoses, pipeVars, RepRead, RepPipe, Eof, Open, Reads
<1>2. BufInv'
  BY <1>0, <1>1 DEF BufInv, Client
<1>3. EndsInv'
  BY <1>0, <1>1 DEF EndsInv
<1>4. client' = "ready" => agent = "dead"
  BY <1>0, <1>1 DEF EndsInv, ClientTurn
<1>5. AgentTurn'
  BY <1>0, <1>1, BuffersSame DEF AgentTurn, Starting, Sending
<1>6. ClientTurn'
  <2>1. client' = "ready" => Len(RepPipe) = 0
    BY <1>1, EmptySeq
  <2> QED  BY <1>0, <1>1, <1>4, <2>1, BuffersSame, Buffers DEF ClientTurn, Connecting
<1>7. ContentInv'
  BY <1>0, <1>1, BuffersSame DEF ContentInv, Replies, Requests, Querying
<1> QED  BY <1>2, <1>3, <1>5, <1>6, <1>7 DEF ProtocolInv

(* A SUID agent that cannot reply: its utility has left. *)
LEMMA AgentGoesOnKeeps ==
  ASSUME ProtocolInv, AgentGoesOn
  PROVE  ProtocolInv'
<1>0. BufInv /\ EndsInv /\ AgentTurn /\ ClientTurn /\ ContentInv
  BY DEF ProtocolInv
<1>1. /\ UNCHANGED <<client, inst, pipe, rd, ends, queries, error, got>>
      /\ agent = "reply" /\ agent' = "loop" /\ <<"u", "rep", "r">> \notin ends
      /\ wr' = [wr EXCEPT !["a"] = <<>>]
  <2>1. "u" \in Side
    BY DEF Side
  <2> QED  BY <2>1 DEF AgentGoesOn, queryVars, Open
<1>2. client \in {"failed", "off"}
  BY <1>0, <1>1 DEF EndsInv
<1>3. /\ wr' \in [Side -> Seq(Field)]
      /\ RepToWrite' = <<>> /\ ReqToWrite' = ReqToWrite
      /\ ReqRead' = ReqRead /\ ReqPipe' = ReqPipe /\ RepRead' = RepRead /\ RepPipe' = RepPipe
  <2>1. <<>> \in Seq(Field)
    BY EmptySeq
  <2> QED  BY <1>0, <1>1, <2>1, AgentWrites DEF ReqRead, ReqPipe, RepRead, RepPipe
<1>4. BufInv'
  BY <1>0, <1>1, <1>3 DEF BufInv, Agent
<1>5. EndsInv'
  BY <1>0, <1>1 DEF EndsInv
<1>6. ReqLen' = ReqLen /\ Len(RepToWrite') = 0 /\ RepLen' <= RepLen /\ RepLen' \in Nat
  BY <1>0, <1>3, Buffers DEF ReqLen, RepLen
<1>7. AgentTurn'
  BY <1>0, <1>1, <1>3, <1>6, Buffers DEF AgentTurn, Starting, Sending, RepLen
<1>8. ClientTurn'
  BY <1>0, <1>1, <1>2, <1>3, <1>6, Buffers DEF ClientTurn, Connecting
<1>9. ContentInv'
  <2>1. \A S : Replies(S) => RepRead' \in Seq(S) /\ RepPipe' \in Seq(S) /\ RepToWrite' \in Seq(S)
    BY <1>3, EmptySeq DEF Replies
  <2>2. InOrder(RepRead, RepPipe, RepToWrite)'
    BY <1>0, <1>3, Buffers, CutKeeps DEF ContentInv, Cut, Replies
  <2> QED  BY <1>0, <1>1, <1>2, <2>1, <2>2 DEF ContentInv, Replies, Querying
<1> QED  BY <1>4, <1>5, <1>7, <1>8, <1>9 DEF ProtocolInv

(* The agent's greeting. *)
LEMMA AgentSaysKeeps ==
  ASSUME ProtocolInv, AgentSays
  PROVE  ProtocolInv'
<1>0. BufInv /\ EndsInv /\ AgentTurn /\ ClientTurn /\ ContentInv
  BY DEF ProtocolInv
<1>1. PICK t \in {"INIT", "INIT_ERROR", "JUNK"}, v \in Versions :
         Send("a", Header(t, 0, v)) /\ (t = "INIT" => v = inst.version)
  BY DEF AgentSays
<1> DEFINE h == Header(t, 0, v)
<1>2. /\ UNCHANGED <<client, inst, pipe, rd, queries, error, got>>
      /\ agent \in Starting \ {"none"} /\ agent' \in {"greet", "sorry"} /\ AgentEndsClosed
      /\ wr' = [wr EXCEPT !["a"] = h]
  BY <1>1 DEF AgentSays, queryVars, Send
<1>3. h \in Seq(Greetings(inst.version)) /\ Len(h) = FIELDS /\ InOrder(<<>>, <<>>, h)
  <2>1. MAX_QUERIES \in Nat
    BY SessionAssumption
  <2>2. \A i \in 1..FIELDS : [type |-> t, query |-> 0, version |-> v, i |-> i] \in Greetings(inst.version)
    BY <1>1, <2>1 DEF Greetings, Field
  <2> QED  BY <2>2, HeaderSeq
<1>4. h \in Seq(Field)
  BY <1>3, SeqMonotonic DEF Greetings
<1> HIDE DEF h
<1>5. /\ wr' \in [Side -> Seq(Field)]
      /\ RepToWrite' = h /\ ReqToWrite' = ReqToWrite
      /\ ReqRead' = ReqRead /\ ReqPipe' = ReqPipe /\ RepRead' = RepRead /\ RepPipe' = RepPipe
  BY <1>0, <1>2, <1>4, AgentWrites DEF ReqRead, ReqPipe, RepRead, RepPipe
<1>6. RepRead = <<>> /\ RepPipe = <<>> /\ RepLen = 0 /\ ReqLen = 0
  BY <1>0, <1>2, NoReplies DEF AgentTurn
<1>7. client \notin {"ready", "send", "recv"}
  BY <1>0, <1>2 DEF ClientTurn, Starting
<1>8. BufInv'
  BY <1>0, <1>2, <1>5 DEF BufInv, Agent, AgentEndsClosed
<1>9. EndsInv'
  BY <1>0, <1>2 DEF EndsInv, AgentEndsClosed, Starting
<1>10. ReqLen' = 0 /\ Len(RepToWrite') = FIELDS /\ RepLen' = FIELDS
  <2>1. Len(RepRead) = 0 /\ Len(RepPipe) = 0
    BY <1>6, EmptySeq
  <2> QED  BY <1>0, <1>3, <1>5, <1>6, <2>1, Buffers DEF ReqLen, RepLen
<1>11. AgentTurn'
  BY <1>0, <1>2, <1>5, <1>10, Buffers DEF AgentTurn, Starting, Sending
<1>12. ClientTurn'
  BY <1>0, <1>2, <1>5, <1>7, <1>10, Buffers DEF ClientTurn
<1>13. ContentInv'
  <2>1. InOrder(RepRead, RepPipe, RepToWrite)'
    BY <1>3, <1>5, <1>6
  <2>2. Replies(Greetings(inst.version))'
    BY <1>0, <1>2, <1>3, <1>5 DEF ContentInv, Replies, Greetings
  <2> QED  BY <1>0, <1>2, <1>7, <2>1, <2>2 DEF ContentInv, Querying
<1> QED  BY <1>8, <1>9, <1>11, <1>12, <1>13 DEF ProtocolInv

(* Up to fork. *)
LEMMA ConnectKeeps ==
  ASSUME ProtocolInv, agent_connect
  PROVE  ProtocolInv'
<1>0. BufInv /\ EndsInv /\ AgentTurn /\ ClientTurn /\ ContentInv
  BY DEF ProtocolInv
<1>1. /\ UNCHANGED <<inst, pipe, rd, wr, queries, error, got>>
      /\ client = "start" /\ agent = "none"
      /\ \/ client' = "failed" /\ agent' = agent
         \/ client' = "forked" /\ agent' = "forked"
  BY <1>0 DEF agent_connect, queryVars, procVars, EndsInv
<1>2. ends' = {<<"u", pi, w>> : pi \in {"req", "rep"}, w \in {"r", "w"}}
               \cup IF inst.exe = "missing" THEN {}
                    ELSE {<<"a", pi, w>> : pi \in {"req", "rep"}, w \in {"r", "w"}}
  BY DEF agent_connect
<1>3. client' = "forked" => inst.exe # "missing"
  BY DEF agent_connect
<1>4. BufInv'
  BY <1>0, <1>1, <1>2 DEF BufInv, Client, Agent, Connecting, Side
<1>5. EndsInv'
  BY <1>1, <1>2, <1>3 DEF EndsInv
<1>6. AgentTurn'
  BY <1>0, <1>1, BuffersSame DEF AgentTurn, Starting, Sending
<1>7. ClientTurn'
  <2>1. RepLen = 0 /\ ReqLen = 0 /\ ~error
    BY <1>0, <1>1 DEF AgentTurn, ClientTurn, Starting
  <2> QED  BY <1>0, <1>1, <2>1, BuffersSame DEF ClientTurn, Connecting
<1>8. ContentInv'
  BY <1>0, <1>1, BuffersSame DEF ContentInv, Replies, Querying
<1> QED  BY <1>4, <1>5, <1>6, <1>7, <1>8 DEF ProtocolInv

(* The utility closes the agent's ends. *)
LEMMA ParentKeeps ==
  ASSUME ProtocolInv, parent_closes
  PROVE  ProtocolInv'
<1>0. BufInv /\ EndsInv /\ AgentTurn /\ ClientTurn /\ ContentInv
  BY DEF ProtocolInv
<1>1. /\ UNCHANGED <<agent, inst, pipe, rd, wr, queries, error, got>>
      /\ client = "forked" /\ client' = "select"
      /\ ends' = ends \ {<<"u", "req", "r">>, <<"u", "rep", "w">>}
  BY DEF parent_closes, queryVars, procVars
<1>2. BufInv'
  BY <1>0, <1>1 DEF BufInv, Client, Connecting
<1>3. EndsInv'
  BY <1>0, <1>1 DEF EndsInv
<1>4. AgentTurn'
  BY <1>0, <1>1, BuffersSame DEF AgentTurn, Starting, Sending
<1>5. ClientTurn'
  BY <1>0, <1>1, BuffersSame DEF ClientTurn, Connecting
<1>6. ContentInv'
  BY <1>0, <1>1, BuffersSame DEF ContentInv, Replies, Querying
<1> QED  BY <1>2, <1>3, <1>4, <1>5, <1>6 DEF ProtocolInv

(* A complete reply is all there is, and leaves nothing behind. *)
LEMMA ClientTakes ==
  ASSUME ProtocolInv, Complete("u"), Take("u")
  PROVE  /\ rd' \in [Side -> Seq(Field)] /\ RepRead' = <<>> /\ ReqRead' = ReqRead
         /\ Len(RepRead) = FIELDS /\ RepPipe = <<>> /\ RepToWrite = <<>> /\ RepLen = FIELDS
         /\ ~error /\ client \in {"init", "recv"} /\ agent \in {"loop", "dead"}
         /\ ReqLen = 0 \/ agent = "dead"
<1>0. BufInv /\ EndsInv /\ AgentTurn /\ ClientTurn /\ ContentInv
  BY DEF ProtocolInv
<1>1. client \in {"init", "recv"} /\ Len(RepRead) >= FIELDS
  BY DEF Complete, Receives, RepRead
<1>2. Len(RepRead) = FIELDS /\ Len(RepPipe) = 0 /\ Len(RepToWrite) = 0 /\ RepLen = FIELDS
  BY <1>0, <1>1, Buffers DEF AgentTurn, RepLen
<1>3. RepPipe = <<>> /\ RepToWrite = <<>>
  <2>1. \A s \in Seq(Field) : s # <<>> => Len(s) \in Nat \ {0}
    BY EmptySeq
  <2> QED  BY <1>0, <1>2, <2>1, Buffers DEF Replies
<1>4. SubSeq(RepRead, FIELDS + 1, Len(RepRead)) = <<>>
  BY <1>0, <1>2, Buffers, SubSeqEmpty DEF Replies
<1>5. rd' = [rd EXCEPT !["u"] = <<>>]
  BY <1>4 DEF Take, RepRead
<1>6. rd' \in [Side -> Seq(Field)] /\ RepRead' = <<>> /\ ReqRead' = ReqRead
  <2>1. <<>> \in Seq(Field) /\ "a" \in Side /\ "u" \in Side /\ rd \in [Side -> Seq(Field)]
    BY <1>0, EmptySeq DEF Side, BufInv
  <2> QED  BY <1>5, <2>1, BufferChange DEF RepRead, ReqRead
<1>7. ~error
  BY <1>0, <1>1, Buffers DEF ClientTurn
<1>8. agent \in {"loop", "dead"}
  BY <1>0, <1>2, Buffers DEF AgentTurn, Starting, Sending, BufInv, Agent
<1>9. ReqLen = 0 \/ agent = "dead"
  BY <1>0, <1>2, <1>8, Buffers DEF AgentTurn
<1> QED  BY <1>1, <1>2, <1>3, <1>6, <1>7, <1>8, <1>9

(* agent_connect after the greeting *)
LEMMA ConnectedKeeps ==
  ASSUME ProtocolInv, connected
  PROVE  ProtocolInv'
<1>0. BufInv /\ EndsInv /\ AgentTurn /\ ClientTurn /\ ContentInv
  BY DEF ProtocolInv
<1>1. /\ client = "init" /\ Complete("u") /\ Take("u")
      /\ UNCHANGED <<agent, inst, pipe, queries, error, got>>
  BY DEF connected, queryVars, procVars
<1>2. /\ rd' \in [Side -> Seq(Field)] /\ RepRead' = <<>> /\ ReqRead' = ReqRead
      /\ Len(RepRead) = FIELDS /\ RepPipe = <<>> /\ RepToWrite = <<>> /\ RepLen = FIELDS
      /\ ~error /\ agent \in {"loop", "dead"}
  BY <1>1, ClientTakes
<1>3. ReqLen = 0
  BY <1>0, <1>1 DEF ClientTurn, Connecting
<1>4. ReqRead = <<>> /\ ReqPipe = <<>> /\ ReqToWrite = <<>>
  BY <1>0, <1>3, NoRequests
<1>5. /\ wr' \in [Side -> Seq(Field)] /\ ReqToWrite' = <<>> /\ RepToWrite' = <<>>
      /\ ReqPipe' = ReqPipe /\ RepPipe' = RepPipe
      /\ \/ client' = "failed" /\ ends' = Without("u")
         \/ client' = "ready" /\ ends' = ends
  <2>1. CASE wr' = wr
    BY <1>0, <1>1, <1>2, <1>4, <2>1
       DEF connected, ClientCloses, BufInv, ReqToWrite, RepToWrite, ReqPipe, RepPipe
  <2>2. CASE wr' = [wr EXCEPT !["u"] = <<>>] /\ client' = "failed" /\ ends' = Without("u")
    <3>1. <<>> \in Seq(Field)
      BY EmptySeq
    <3> QED  BY <1>0, <1>1, <1>2, <2>2, <3>1, ClientWrites DEF ReqPipe, RepPipe
  <2> QED  BY <2>1, <2>2 DEF connected, ClientCloses
<1>6. client' = "ready" => inst.version = "same"
  <2> SUFFICES ASSUME client' = "ready"  PROVE inst.version = "same"
    OBVIOUS
  <2>1. RepRead[1].version = "same" /\ RepRead[1].type = "INIT"
    BY DEF connected, ClientCloses, RepRead
  <2>2. 1 \in 1..Len(RepRead)
    BY <1>0, <1>2, Buffers
  <2>3. RepRead[1] \in Greetings(inst.version)
    BY <1>0, <2>2, ElementOfSeq DEF ContentInv, Replies
  <2> QED  BY <2>1, <2>3 DEF Greetings
<1>7. BufInv'
  BY <1>0, <1>1, <1>2, <1>5 DEF BufInv, Client, Without
<1>8. EndsInv'
  BY <1>0, <1>1, <1>5 DEF EndsInv, Without
<1>9. /\ Len(<<>>) = 0 /\ RepLen' = 0 /\ ReqLen' = 0 /\ Len(ReqToWrite') = 0 /\ Len(RepToWrite') = 0
      /\ Len(RepRead') = 0 /\ Len(RepPipe') = 0 /\ Len(ReqRead') = 0 /\ Len(ReqPipe') = 0
  BY <1>2, <1>4, <1>5, EmptySeq DEF RepLen, ReqLen
<1>10. AgentTurn'
  BY <1>0, <1>1, <1>2, <1>9, Buffers DEF AgentTurn, Starting, Sending
<1>11. ClientTurn'
  BY <1>0, <1>1, <1>2, <1>5, <1>9, Buffers DEF ClientTurn, Connecting
<1>12. ContentInv'
  <2>1. InOrder(RepRead, RepPipe, RepToWrite)'
    BY <1>9 DEF InOrder
  <2>2. RepRead' \in Seq(Greetings(inst.version)) /\ RepPipe' \in Seq(Greetings(inst.version))
        /\ RepToWrite' \in Seq(Greetings(inst.version))
    BY <1>2, <1>5, EmptySeq
  <2> QED  BY <1>1, <1>5, <1>6, <2>1, <2>2 DEF ContentInv, Querying, Replies
<1> QED  BY <1>7, <1>8, <1>10, <1>11, <1>12 DEF ProtocolInv

(* agent_query, first half: nothing is under way, unless the agent is gone. *)
LEMMA QueryKeeps ==
  ASSUME ProtocolInv, agent_query
  PROVE  ProtocolInv'
<1>0. BufInv /\ EndsInv /\ AgentTurn /\ ClientTurn /\ ContentInv
  BY DEF ProtocolInv
<1> DEFINE h == Header("REQ", queries + 1, "same")
<1>1. /\ client = "ready" /\ client' = "send" /\ queries < MAX_QUERIES /\ queries' = queries + 1
      /\ wr' = [wr EXCEPT !["u"] = h]
      /\ UNCHANGED <<agent, inst, ends, pipe, rd, error, got>>
  BY DEF agent_query, procVars, Send
<1>2. queries' \in 0..MAX_QUERIES
  BY <1>0, <1>1, SessionAssumption DEF BufInv
<1>3. h \in Seq(OfQuery(queries')) /\ Len(h) = FIELDS
  <2>1. \A i \in 1..FIELDS : [type |-> "REQ", query |-> queries + 1, version |-> "same", i |-> i]
                              \in OfQuery(queries')
    BY <1>1, <1>2 DEF OfQuery, Field, Versions
  <2> QED  BY <2>1, HeaderSeq
<1>4. h \in Seq(Field)
  BY <1>3, SeqMonotonic DEF OfQuery
<1> HIDE DEF h
<1>5. /\ wr' \in [Side -> Seq(Field)]
      /\ ReqToWrite' = h /\ RepToWrite' = RepToWrite
      /\ ReqRead' = ReqRead /\ ReqPipe' = ReqPipe /\ RepRead' = RepRead /\ RepPipe' = RepPipe
  BY <1>0, <1>1, <1>4, ClientWrites DEF ReqRead, ReqPipe, RepRead, RepPipe
<1>6. BufInv'
  BY <1>0, <1>1, <1>2, <1>5 DEF BufInv, Client, Querying
<1>7. EndsInv'
  BY <1>0, <1>1 DEF EndsInv
<1>8. RepLen' = RepLen /\ Len(ReqToWrite') = FIELDS /\ (agent # "dead" => ReqLen' = FIELDS)
  <2>1. agent # "dead" => Len(ReqRead) = 0 /\ Len(ReqPipe) = 0
    BY <1>0, <1>1, Buffers DEF ClientTurn, ReqLen
  <2>2. RepLen' = RepLen
    BY <1>5 DEF RepLen
  <2>3. Len(ReqToWrite') = FIELDS
    BY <1>3, <1>5
  <2>4. agent # "dead" => ReqLen' = FIELDS
    BY <1>0, <1>5, <2>1, <2>3, Buffers DEF ReqLen
  <2> QED  BY <2>2, <2>3, <2>4
<1>9. agent \in {"loop", "dead"} /\ (~error => RepLen = 0) /\ (error => agent = "dead")
  BY <1>0, <1>1 DEF ClientTurn
<1>10. AgentTurn'
  BY <1>0, <1>1, <1>5, <1>8, <1>9, Buffers DEF AgentTurn, Starting, Sending
<1>11. ClientTurn'
  BY <1>0, <1>1, <1>5, <1>8, <1>9, Buffers DEF ClientTurn, Connecting
<1>12. ContentInv'
  <2>1. ASSUME ~error  PROVE Replies(Answers(queries))'
    <3>1. RepRead = <<>> /\ RepPipe = <<>> /\ RepToWrite = <<>>
      BY <1>0, <1>9, <2>1, NoReplies
    <3> QED  BY <1>5, <3>1, EmptySeq DEF Replies
  <2>2. ASSUME agent # "dead"  PROVE Requests(OfQuery(queries))'
    <3>1. ReqRead = <<>> /\ ReqPipe = <<>>
      BY <1>0, <1>1, <2>2, NoRequests DEF ClientTurn
    <3>2. ReqToWrite' \in Seq(OfQuery(queries')) /\ ReqRead' \in Seq(OfQuery(queries'))
          /\ ReqPipe' \in Seq(OfQuery(queries'))
      BY <1>3, <1>5, <3>1, EmptySeq
    <3> QED  BY <3>2 DEF Requests, OfQuery
  <2>3. InOrder(RepRead, RepPipe, RepToWrite)' /\ Replies(Greetings(inst.version))'
    BY <1>0, <1>1, <1>5 DEF ContentInv, Replies
  <2>4. inst'.version = "same"
    BY <1>0, <1>1 DEF ContentInv
  <2> QED  BY <1>1, <2>1, <2>2, <2>3, <2>4 DEF ContentInv
<1> QED  BY <1>6, <1>7, <1>10, <1>11, <1>12 DEF ProtocolInv

(* agent_query, second half: the header is that of the open query. *)
LEMMA AnswerIsOwn ==
  ASSUME ProtocolInv, agent_query_done
  PROVE  /\ RepRead[1].version = "same" /\ RepRead[1].query = queries
         /\ \A i \in 1..FIELDS : RepRead[i].query = queries /\ RepRead[i].i = i
<1>0. BufInv /\ ContentInv
  BY DEF ProtocolInv
<1>1. client = "recv" /\ Len(RepRead) = FIELDS /\ ~error
  BY ClientTakes DEF agent_query_done
<1>2. \A i \in 1..FIELDS : RepRead[i] \in Answers(queries)
  BY <1>0, <1>1, ElementOfSeq DEF ContentInv, Replies, Querying
<1>3. \A i \in 1..FIELDS : RepRead[i].i = i
  BY <1>0, <1>1 DEF ContentInv, InOrder
<1>4. 1 \in 1..FIELDS
  BY SessionAssumption
<1> QED  BY <1>2, <1>3, <1>4 DEF Answers

(* The answer taken is that to the open query, and no error. *)
LEMMA QueryDone ==
  ASSUME ProtocolInv, agent_query_done
  PROVE  got' = queries /\ error' = error
<1>1. \A i \in 1..FIELDS : /\ rd["u"][i].query = rd["u"][1].query
                           /\ rd["u"][i].i = i
  BY AnswerIsOwn DEF RepRead
<1>2. rd["u"][1].version = "same" /\ rd["u"][1].query = queries
  BY AnswerIsOwn DEF RepRead
<1> QED  BY <1>1, <1>2 DEF agent_query_done

(* Taking the answer keeps the invariant. *)
LEMMA QueryDoneKeeps ==
  ASSUME ProtocolInv, agent_query_done
  PROVE  ProtocolInv'
<1>0. BufInv /\ EndsInv /\ AgentTurn /\ ClientTurn /\ ContentInv
  BY DEF ProtocolInv
<1>1. /\ client = "recv" /\ client' = "ready" /\ Complete("u") /\ Take("u")
      /\ UNCHANGED <<agent, inst, ends, pipe, wr, queries>>
  BY DEF agent_query_done, procVars
<1>2. got' = queries /\ error' = error
  BY QueryDone
<1>3. /\ rd' \in [Side -> Seq(Field)] /\ RepRead' = <<>> /\ ReqRead' = ReqRead
      /\ RepPipe = <<>> /\ RepToWrite = <<>> /\ ~error /\ agent \in {"loop", "dead"}
      /\ ReqLen = 0 \/ agent = "dead"
  BY <1>1, ClientTakes
<1>4. /\ ReqPipe' = ReqPipe /\ ReqToWrite' = ReqToWrite
      /\ RepPipe' = <<>> /\ RepToWrite' = <<>>
  BY <1>1, <1>3 DEF ReqPipe, ReqToWrite, RepPipe, RepToWrite
<1>5. BufInv'
  BY <1>0, <1>1, <1>2, <1>3 DEF BufInv, Client
<1>6. EndsInv'
  BY <1>0, <1>1 DEF EndsInv
<1>7. ReqLen' = ReqLen /\ RepLen' = 0 /\ Len(RepToWrite') = 0 /\ Len(RepPipe') = 0
  BY <1>0, <1>3, <1>4, EmptySeq DEF ReqLen, RepLen
<1>8. AgentTurn'
  BY <1>0, <1>1, <1>3, <1>4, <1>7, Buffers DEF AgentTurn, Starting, Sending
<1>9. ClientTurn'
  BY <1>0, <1>1, <1>2, <1>3, <1>4, <1>7, Buffers DEF ClientTurn, Connecting
<1>10. ContentInv'
  <2>1. InOrder(RepRead, RepPipe, RepToWrite)'
    <3>1. Len(<<>>) = 0
      BY EmptySeq
    <3> QED  BY <1>3, <1>4, <3>1 DEF InOrder
  <2>2. RepRead' \in Seq(Greetings(inst.version)) /\ RepPipe' \in Seq(Greetings(inst.version))
        /\ RepToWrite' \in Seq(Greetings(inst.version))
    BY <1>3, <1>4, EmptySeq
  <2>3. inst'.version = "same"
    BY <1>0, <1>1 DEF ContentInv
  <2> QED  BY <1>1, <2>1, <2>2, <2>3 DEF ContentInv, Querying, Replies
<1> QED  BY <1>5, <1>6, <1>8, <1>9, <1>10 DEF ProtocolInv

(* request_handle: the request is gone when the reply begins. *)
LEMMA HandleKeeps ==
  ASSUME ProtocolInv, request_handle
  PROVE  ProtocolInv'
<1>0. BufInv /\ EndsInv /\ AgentTurn /\ ClientTurn /\ ContentInv
  BY DEF ProtocolInv
<1> DEFINE q == ReqRead[1].query
           h == Header("REPLY", q, inst.version)
<1>1. /\ agent = "handle" /\ Take("a")
      /\ UNCHANGED <<client, inst, pipe, queries, error, got>>
      /\ \/ /\ agent' \in {"reply", "bye"} /\ ends' = ends
            /\ wr' = [wr EXCEPT !["a"] = h]
         \/ /\ agent' = "dead" /\ ends' = Without("a")
            /\ wr' = [wr EXCEPT !["a"] = <<>>]
  BY DEF request_handle, procVars, queryVars, Send, AgentDies, ReqRead
<1>2. Len(ReqRead) = FIELDS /\ Len(ReqPipe) = 0 /\ Len(ReqToWrite) = 0 /\ RepLen = 0
  BY <1>0, <1>1, Buffers DEF AgentTurn, ReqLen
<1>3. RepRead = <<>> /\ RepPipe = <<>>
  BY <1>0, <1>2, NoReplies
<1>4. rd' \in [Side -> Seq(Field)] /\ ReqRead' = <<>> /\ RepRead' = RepRead
  <2>1. SubSeq(ReqRead, FIELDS + 1, Len(ReqRead)) = <<>>
    BY <1>0, <1>2, Buffers, SubSeqEmpty DEF Requests
  <2>2. rd' = [rd EXCEPT !["a"] = <<>>]
    BY <1>1, <2>1 DEF Take, ReqRead
  <2>3. <<>> \in Seq(Field) /\ "a" \in Side /\ "u" \in Side /\ rd \in [Side -> Seq(Field)]
    BY <1>0, EmptySeq DEF Side, BufInv
  <2> QED  BY <2>2, <2>3, BufferChange DEF RepRead, ReqRead
<1>5. ReqRead[1] \in Field /\ (client \in Querying => q = queries)
  <2>1. 1 \in 1..Len(ReqRead)
    BY <1>0, <1>2, Buffers
  <2>2. ReqRead[1] \in Field
    BY <1>0, <2>1, Buffers, ElementOfSeq DEF Requests
  <2>3. client \in Querying => ReqRead[1] \in OfQuery(queries)
    BY <1>0, <1>1, <2>1, ElementOfSeq DEF ContentInv, Requests
  <2> QED  BY <2>2, <2>3 DEF OfQuery
<1>6. /\ h \in Seq(Greetings(inst.version)) /\ Len(h) = FIELDS /\ InOrder(<<>>, <<>>, h)
      /\ client \in Querying => h \in Seq(Answers(queries))
  <2>1. q \in 0..MAX_QUERIES /\ inst.version \in Versions
    BY <1>0, <1>5 DEF Field, BufInv, Versions
  <2>2. \A i \in 1..FIELDS : [type |-> "REPLY", query |-> q, version |-> inst.version, i |-> i]
                              \in Greetings(inst.version)
    <3> HIDE DEF q
    <3> QED  BY <2>1 DEF Greetings, Field
  <2>3. client \in Querying => inst.version = "same"
    BY <1>0 DEF ContentInv, Querying
  <2>4. client \in Querying =>
           \A i \in 1..FIELDS : [type |-> "REPLY", query |-> q, version |-> inst.version, i |-> i]
                                 \in Answers(queries)
    <3> HIDE DEF q
    <3> QED  BY <1>5, <2>1, <2>3 DEF Answers, Field
  <2> HIDE DEF q
  <2> QED  BY <2>2, <2>4, HeaderSeq
<1>7. h \in Seq(Field)
  BY <1>6, SeqMonotonic DEF Greetings
<1> HIDE DEF h, q
<1>8. /\ wr' \in [Side -> Seq(Field)] /\ ReqToWrite' = ReqToWrite
      /\ RepToWrite' = IF agent' = "dead" THEN <<>> ELSE h
  <2>1. <<>> \in Seq(Field)
    BY EmptySeq
  <2> QED  BY <1>0, <1>1, <1>7, <2>1, AgentWrites
<1>9. ReqPipe' = ReqPipe /\ RepPipe' = RepPipe
  BY <1>1 DEF ReqPipe, RepPipe
<1>10. BufInv'
  BY <1>0, <1>1, <1>4, <1>8 DEF BufInv, Agent, Without
<1>11. EndsInv'
  BY <1>0, <1>1 DEF EndsInv, Without
<1>12. /\ ReqLen' = 0 /\ RepLen' = Len(RepToWrite') /\ Len(ReqToWrite') = 0
       /\ Len(RepToWrite') = IF agent' = "dead" THEN 0 ELSE FIELDS
       /\ Len(RepRead') = 0 /\ Len(RepPipe') = 0 /\ Len(ReqRead') = 0 /\ Len(ReqPipe') = 0
  <2>1. Len(<<>>) = 0
    BY EmptySeq
  <2> QED  BY <1>0, <1>2, <1>3, <1>4, <1>6, <1>8, <1>9, <2>1, Buffers DEF ReqLen, RepLen
<1>13. client \in {"recv", "stale", "failed", "off"} /\ (client = "recv" => ~error)
  BY <1>0, <1>1, <1>2, Buffers DEF ClientTurn, EndsInv, BufInv, Client, Querying, Connecting, AgentTurn
<1>14. AgentTurn'
  BY <1>0, <1>1, <1>12, Buffers DEF AgentTurn, Starting, Sending
<1>15. ClientTurn'
  BY <1>0, <1>1, <1>12, <1>13, Buffers DEF ClientTurn, Connecting
<1>16. ContentInv'
  <2>1. InOrder(RepRead, RepPipe, RepToWrite)'
    <3>1. CASE agent' = "dead"
      BY <1>8, <1>12, <3>1 DEF InOrder
    <3>2. CASE agent' # "dead"
      BY <1>3, <1>4, <1>6, <1>8, <1>9, <3>2
    <3> QED  BY <3>1, <3>2
  <2>2. Replies(Greetings(inst.version))'
    BY <1>1, <1>3, <1>4, <1>6, <1>8, <1>9, EmptySeq DEF Replies, Greetings
  <2>3. client \in Querying => Replies(Answers(queries))'
    BY <1>1, <1>3, <1>4, <1>6, <1>8, <1>9, EmptySeq DEF Replies, Answers
  <2>4. client \in Querying => Requests(OfQuery(queries))'
    <3>1. ReqRead' \in Seq(OfQuery(queries))
      BY <1>4, EmptySeq
    <3> QED  BY <1>0, <1>1, <1>8, <1>9, <3>1 DEF ContentInv, Requests, OfQuery
  <2> QED  BY <1>0, <1>1, <2>1, <2>2, <2>3, <2>4 DEF ContentInv
<1> QED  BY <1>10, <1>11, <1>14, <1>15, <1>16 DEF ProtocolInv

(* What a pipe holds is replaced. *)
LEMMA PipeChange ==
  ASSUME BufInv, NEW pi \in {"req", "rep"}, NEW b \in Seq(Field), pipe' = [pipe EXCEPT ![pi] = b]
  PROVE  /\ pipe' \in [{"req", "rep"} -> Seq(Field)]
         /\ ReqPipe' = IF pi = "req" THEN b ELSE ReqPipe
         /\ RepPipe' = IF pi = "rep" THEN b ELSE RepPipe
<1>1. pipe \in [{"req", "rep"} -> Seq(Field)]
  BY DEF BufInv
<1> QED  BY <1>1 DEF ReqPipe, RepPipe

(* The utility writes a field of its request. *)
LEMMA ClientWriteKeeps ==
  ASSUME ProtocolInv, agent_write("u")
  PROVE  ProtocolInv'
<1>0. BufInv /\ EndsInv /\ AgentTurn /\ ClientTurn /\ ContentInv
  BY DEF ProtocolInv
<1>1. /\ ReqToWrite # <<>> /\ (<<"u", "req", "r">> \in ends \/ <<"a", "req", "r">> \in ends)
      /\ pipe' = [pipe EXCEPT !["req"] = Append(ReqPipe, Head(ReqToWrite))]
      /\ wr' = [wr EXCEPT !["u"] = Tail(ReqToWrite)]
      /\ UNCHANGED <<inst, rd, queries, error, got, agent, ends>>
      /\ client' = IF Len(ReqToWrite) = 1 THEN "recv" ELSE client
  BY DEF agent_write, Writes, Sent, Open, Side, ReqToWrite, ReqPipe, procVars, queryVars
<1> DEFINE p2 == Append(ReqPipe, Head(ReqToWrite))
           w2 == Tail(ReqToWrite)
<1>2. /\ p2 \in Seq(Field) /\ w2 \in Seq(Field) /\ Len(ReqToWrite) \in Nat \ {0}
      /\ Len(p2) = Len(ReqPipe) + 1 /\ Len(w2) = Len(ReqToWrite) - 1
      /\ \A S : Requests(S) => p2 \in Seq(S) /\ w2 \in Seq(S)
  <2>1. WritesOne(ReqRead, ReqPipe, ReqToWrite, ReqRead, p2, w2)
    BY <1>1 DEF WritesOne
  <2> HIDE DEF p2, w2
  <2>2. \A S : Requests(S) => p2 \in Seq(S) /\ w2 \in Seq(S)
    BY <2>1, WritesOneKeeps DEF Requests
  <2>3. Requests(Field)
    BY <1>0, Buffers
  <2> QED  BY <2>1, <2>2, <2>3, WritesOneKeeps DEF Requests
<1>3. /\ wr' \in [Side -> Seq(Field)] /\ pipe' \in [{"req", "rep"} -> Seq(Field)]
      /\ ReqToWrite' = w2 /\ RepToWrite' = RepToWrite
      /\ ReqRead' = ReqRead /\ ReqPipe' = p2 /\ RepRead' = RepRead /\ RepPipe' = RepPipe
  <2> HIDE DEF p2, w2
  <2>1. pipe' = [pipe EXCEPT !["req"] = p2] /\ wr' = [wr EXCEPT !["u"] = w2]
    BY <1>1 DEF p2, w2
  <2> QED  BY <1>0, <1>1, <1>2, <2>1, ClientWrites, PipeChange DEF ReqRead, RepRead
<1> HIDE DEF p2, w2
<1>4. client = "send" /\ agent = "loop" /\ ReqLen <= FIELDS /\ RepLen = 0 /\ ~error
  <2>1. client = "send"
    BY <1>0, <1>2 DEF ClientTurn
  <2>2. agent # "dead"
    BY <1>0, <1>1, <2>1 DEF EndsInv
  <2>3. agent = "loop" /\ RepLen = 0 /\ ~error
    BY <1>0, <2>1, <2>2 DEF ClientTurn
  <2> QED  BY <1>0, <1>2, <2>1, <2>3, Buffers DEF AgentTurn, ReqLen
<1>5. ReqLen' = ReqLen /\ RepLen' = RepLen
  <2>1. RepLen' = RepLen
    BY <1>3 DEF RepLen
  <2>2. ReqLen' = Len(ReqRead) + Len(p2) + Len(w2)
    BY <1>3 DEF ReqLen
  <2> QED  BY <1>0, <1>2, <2>1, <2>2, Buffers DEF ReqLen
<1>6. BufInv'
  BY <1>0, <1>1, <1>3 DEF BufInv, Client, Querying
<1>7. EndsInv'
  BY <1>0, <1>1, <1>4 DEF EndsInv
<1>8. AgentTurn'
  <2>1. Len(ReqRead') + Len(ReqPipe') <= FIELDS
    BY <1>0, <1>2, <1>3, <1>4, Buffers DEF ReqLen
  <2> QED  BY <1>0, <1>1, <1>3, <1>4, <1>5, <2>1, Buffers DEF AgentTurn, Starting, Sending
<1>9. ClientTurn'
  <2>1. Len(ReqToWrite') > 0 <=> client' = "send"
    BY <1>1, <1>2, <1>3, <1>4
  <2> QED  BY <1>0, <1>1, <1>3, <1>4, <1>5, <2>1, Buffers DEF ClientTurn, Connecting
<1>10. ContentInv'
  <2>1. InOrder(RepRead, RepPipe, RepToWrite)' /\ \A S : Replies(S) => Replies(S)'
    BY <1>0, <1>3 DEF ContentInv, Replies
  <2>2. ReqRead' \in Seq(OfQuery(queries)) /\ ReqPipe' \in Seq(OfQuery(queries))
        /\ ReqToWrite' \in Seq(OfQuery(queries))
    <3>1. Requests(OfQuery(queries))
      BY <1>0, <1>4 DEF ContentInv, Querying
    <3> QED  BY <1>2, <1>3, <3>1 DEF Requests
  <2>3. /\ Replies(Greetings(inst.version))' /\ Replies(Answers(queries))' /\ inst'.version = "same"
    BY <1>0, <1>1, <1>3, <1>4 DEF ContentInv, Replies, Querying, Answers, Greetings
  <2>4. Requests(OfQuery(queries))'
    BY <1>1, <2>2 DEF Requests, OfQuery
  <2> QED  BY <2>1, <2>3, <2>4 DEF ContentInv
<1> QED  BY <1>6, <1>7, <1>8, <1>9, <1>10 DEF ProtocolInv

(* The agent writes a field. *)
LEMMA AgentWriteKeeps ==
  ASSUME ProtocolInv, agent_write("a")
  PROVE  ProtocolInv'
<1>0. BufInv /\ EndsInv /\ AgentTurn /\ ClientTurn /\ ContentInv
  BY DEF ProtocolInv
<1>1. /\ RepToWrite # <<>>
      /\ pipe' = [pipe EXCEPT !["rep"] = Append(RepPipe, Head(RepToWrite))]
      /\ wr' = [wr EXCEPT !["a"] = Tail(RepToWrite)]
      /\ UNCHANGED <<inst, rd, queries, error, got, client>>
      /\ IF Len(RepToWrite) = 1
           THEN /\ agent' = IF agent \in {"greet", "reply"} THEN "loop" ELSE "dead"
                /\ ends' = IF agent \in {"greet", "reply"} THEN ends ELSE Without("a")
           ELSE UNCHANGED <<agent, ends>>
  BY DEF agent_write, Writes, Sent, RepToWrite, RepPipe, procVars, queryVars
<1> DEFINE p2 == Append(RepPipe, Head(RepToWrite))
           w2 == Tail(RepToWrite)
<1>2. /\ p2 \in Seq(Field) /\ w2 \in Seq(Field) /\ Len(RepToWrite) \in Nat \ {0}
      /\ Len(p2) = Len(RepPipe) + 1 /\ Len(w2) = Len(RepToWrite) - 1
      /\ InOrder(RepRead, p2, w2)
      /\ \A S : Replies(S) => p2 \in Seq(S) /\ w2 \in Seq(S)
  <2>1. WritesOne(RepRead, RepPipe, RepToWrite, RepRead, p2, w2)
    BY <1>1 DEF WritesOne
  <2> HIDE DEF p2, w2
  <2>2. \A S : Replies(S) => p2 \in Seq(S) /\ w2 \in Seq(S)
    BY <2>1, WritesOneKeeps DEF Replies
  <2>3. Replies(Field) /\ InOrder(RepRead, RepPipe, RepToWrite)
    BY <1>0, Buffers DEF ContentInv
  <2> QED  BY <2>1, <2>2, <2>3, WritesOneKeeps DEF Replies
<1>3. /\ wr' \in [Side -> Seq(Field)] /\ pipe' \in [{"req", "rep"} -> Seq(Field)]
      /\ RepToWrite' = w2 /\ ReqToWrite' = ReqToWrite
      /\ ReqRead' = ReqRead /\ ReqPipe' = ReqPipe /\ RepRead' = RepRead /\ RepPipe' = p2
  <2> HIDE DEF p2, w2
  <2>1. pipe' = [pipe EXCEPT !["rep"] = p2] /\ wr' = [wr EXCEPT !["a"] = w2]
    BY <1>1 DEF p2, w2
  <2> QED  BY <1>0, <1>1, <1>2, <2>1, AgentWrites, PipeChange DEF ReqRead, RepRead
<1> HIDE DEF p2, w2
<1>4. /\ agent \in Sending /\ ReqLen = 0 /\ agent # "dead"
      /\ error => client \notin {"ready", "send", "recv"}
      /\ RepLen \in Nat \ {0} /\ client \notin {"ready", "send"}
  <2>1. agent \in Sending
    BY <1>0, <1>2 DEF AgentTurn
  <2>2. /\ agent # "dead" /\ ReqLen = 0
        /\ error => client \notin {"ready", "send", "recv"}
    BY <1>0, <2>1 DEF AgentTurn, ClientTurn, Sending
  <2>3. RepLen \in Nat \ {0}
    BY <1>0, <1>2, Buffers DEF RepLen
  <2> QED  BY <1>0, <2>1, <2>2, <2>3 DEF ClientTurn
<1>5. ReqLen' = ReqLen /\ RepLen' = RepLen
  <2>1. ReqLen' = ReqLen
    BY <1>3 DEF ReqLen
  <2>2. RepLen' = Len(RepRead) + Len(p2) + Len(w2)
    BY <1>3 DEF RepLen
  <2> QED  BY <1>0, <1>2, <2>1, <2>2, Buffers DEF RepLen
<1>6. \/ Len(RepToWrite) # 1 /\ agent' = agent /\ ends' = ends
      \/ Len(RepToWrite) = 1 /\ agent \in {"greet", "reply"} /\ agent' = "loop" /\ ends' = ends
      \/ Len(RepToWrite) = 1 /\ agent' = "dead" /\ ends' = Without("a")
  BY <1>1
<1>7. BufInv'
  BY <1>0, <1>1, <1>3, <1>6 DEF BufInv, Agent, Without
<1>8. EndsInv'
  <2>1. client' = client /\ client # "start" /\ agent # "none"
    BY <1>0, <1>1, <1>4 DEF EndsInv, Sending
  <2>2. CASE agent' # "dead"
    BY <1>0, <1>4, <1>6, <2>1, <2>2 DEF EndsInv
  <2>3. CASE agent' = "dead"
    <3>1. ends' = Without("a")
      BY <1>4, <1>6, <2>3
    <3> QED  BY <1>0, <2>1, <2>3, <3>1 DEF EndsInv, Without
  <2> QED  BY <2>2, <2>3
<1>9. AgentTurn'
  <2>1. Len(RepToWrite') > 0 <=> agent' \in Sending
    <3>1. Len(RepToWrite') = Len(RepToWrite) - 1 /\ Len(RepToWrite) \in Nat \ {0}
      BY <1>2, <1>3
    <3>2. CASE Len(RepToWrite) = 1
      BY <1>6, <3>1, <3>2 DEF Sending
    <3>3. CASE Len(RepToWrite) # 1
      <4>1. agent' = agent
        BY <1>6, <3>3
      <4> QED  BY <1>4, <3>1, <3>3, <4>1
    <3> QED  BY <3>2, <3>3
  <2>2. Len(ReqRead') + Len(ReqPipe') <= FIELDS /\ RepLen' <= FIELDS
    BY <1>0, <1>3, <1>5 DEF AgentTurn
  <2>3. ReqLen' = 0 /\ agent' \in Sending \cup {"loop", "dead"}
    BY <1>4, <1>5, <1>6
  <2> QED  BY <2>1, <2>2, <2>3 DEF AgentTurn, Starting, Sending
<1>10. ClientTurn'
  <2>1. client = "recv" => agent' \in {"loop", "reply", "bye", "dead"}
    BY <1>0, <1>4, <1>6 DEF ClientTurn, Sending
  <2> QED  BY <1>0, <1>1, <1>3, <1>4, <1>5, <2>1, Buffers DEF ClientTurn
<1>11. ContentInv'
  <2>1. InOrder(RepRead, RepPipe, RepToWrite)'
    BY <1>2, <1>3
  <2>2. \A S : Replies(S) => RepRead' \in Seq(S) /\ RepPipe' \in Seq(S) /\ RepToWrite' \in Seq(S)
    BY <1>2, <1>3 DEF Replies
  <2>3. client \in Querying => Requests(OfQuery(queries))'
    BY <1>0, <1>1, <1>3, <1>4 DEF ContentInv, Requests, OfQuery
  <2>4. Replies(Greetings(inst.version))' /\ (client \in Querying => Replies(Answers(queries))')
    BY <1>0, <1>1, <1>4, <2>2 DEF ContentInv, Replies, Greetings, Answers, Querying
  <2> QED  BY <1>0, <1>1, <2>1, <2>3, <2>4 DEF ContentInv
<1> QED  BY <1>7, <1>8, <1>9, <1>10, <1>11 DEF ProtocolInv

(* The utility reads. *)
LEMMA ClientReadKeeps ==
  ASSUME ProtocolInv, agent_read("u")
  PROVE  ProtocolInv'
<1>0. BufInv /\ EndsInv /\ AgentTurn /\ ClientTurn /\ ContentInv
  BY DEF ProtocolInv
<1>1. PICK k \in 1..Len(RepPipe) :
        /\ rd' = [rd EXCEPT !["u"] = RepRead \o SubSeq(RepPipe, 1, k)]
        /\ pipe' = [pipe EXCEPT !["rep"] = SubSeq(RepPipe, k + 1, Len(RepPipe))]
  BY DEF agent_read, Reads, RepRead, RepPipe
<1>2. /\ UNCHANGED <<inst, wr, queries, error, got, client, agent, ends>>
      /\ client \in {"init", "recv"}
  BY DEF agent_read, Receives, procVars, queryVars
<1> DEFINE r2 == RepRead \o SubSeq(RepPipe, 1, k)
           p2 == SubSeq(RepPipe, k + 1, Len(RepPipe))
<1>3. ReadsSome(RepRead, RepPipe, RepToWrite, r2, p2, RepToWrite)
  BY DEF ReadsSome
<1>4. rd' = [rd EXCEPT !["u"] = r2] /\ pipe' = [pipe EXCEPT !["rep"] = p2]
  BY <1>1
<1> HIDE DEF r2, p2
<1>5. Replies(Field) /\ InOrder(RepRead, RepPipe, RepToWrite)
  BY <1>0, Buffers DEF ContentInv
<1>6. /\ r2 \in Seq(Field) /\ p2 \in Seq(Field) /\ Len(RepPipe) \in Nat \ {0}
      /\ Len(r2) + Len(p2) = Len(RepRead) + Len(RepPipe)
  BY <1>3, <1>5, ReadsSomeKeeps DEF Replies
<1>7. \A S : Replies(S) => r2 \in Seq(S) /\ p2 \in Seq(S) /\ RepToWrite \in Seq(S)
  BY <1>3, ReadsSomeKeeps DEF Replies
<1>8. /\ rd' \in [Side -> Seq(Field)] /\ pipe' \in [{"req", "rep"} -> Seq(Field)]
      /\ RepRead' = r2 /\ RepPipe' = p2 /\ RepToWrite' = RepToWrite
      /\ ReqRead' = ReqRead /\ ReqPipe' = ReqPipe /\ ReqToWrite' = ReqToWrite
  <2>1. "a" \in Side /\ "u" \in Side /\ rd \in [Side -> Seq(Field)]
    BY <1>0 DEF Side, BufInv
  <2>2. rd' \in [Side -> Seq(Field)] /\ RepRead' = r2 /\ ReqRead' = ReqRead
    BY <1>4, <1>6, <2>1, BufferChange DEF RepRead, ReqRead
  <2>3. pipe' \in [{"req", "rep"} -> Seq(Field)] /\ RepPipe' = p2 /\ ReqPipe' = ReqPipe
    BY <1>0, <1>4, <1>6, PipeChange
  <2> QED  BY <1>2, <2>2, <2>3 DEF ReqToWrite, RepToWrite
<1>9. ReqLen' = ReqLen /\ RepLen' = RepLen
  <2>1. ReqLen' = ReqLen
    BY <1>8 DEF ReqLen
  <2>2. RepLen' = Len(r2) + Len(p2) + Len(RepToWrite)
    BY <1>8 DEF RepLen
  <2>3. Len(r2) \in Nat /\ Len(p2) \in Nat
    BY <1>6
  <2> QED  BY <1>0, <1>6, <2>1, <2>2, <2>3, Buffers DEF RepLen
<1>10. BufInv'
  BY <1>0, <1>2, <1>8 DEF BufInv
<1>11. EndsInv'
  BY <1>0, <1>2 DEF EndsInv
<1>12. ~error
  BY <1>0, <1>2, <1>6 DEF ClientTurn, Connecting
<1>13. AgentTurn'
  <2>1. /\ Len(ReqRead') = Len(ReqRead) /\ Len(ReqPipe') = Len(ReqPipe)
        /\ Len(RepToWrite') = Len(RepToWrite)
    BY <1>8
  <2> QED  BY <1>0, <1>2, <1>9, <2>1 DEF AgentTurn
<1>14. ClientTurn'
  BY <1>0, <1>2, <1>8, <1>9, <1>12 DEF ClientTurn
<1>15. ContentInv'
  <2>1. InOrder(RepRead, RepPipe, RepToWrite)'
    BY <1>3, <1>5, <1>8, ReadsSomeKeeps DEF Replies
  <2>2. \A S : Replies(S) => RepRead' \in Seq(S) /\ RepPipe' \in Seq(S) /\ RepToWrite' \in Seq(S)
    BY <1>7, <1>8
  <2>3. Replies(Greetings(inst.version))'
    BY <1>0, <1>2, <2>2 DEF ContentInv, Replies, Greetings
  <2>4. client \in Querying => Replies(Answers(queries))'
    BY <1>0, <1>2, <1>12, <2>2 DEF ContentInv, Replies, Answers
  <2>5. client \in Querying /\ agent # "dead" => Requests(OfQuery(queries))'
    BY <1>0, <1>2, <1>8 DEF ContentInv, Requests, OfQuery
  <2> QED  BY <1>0, <1>2, <2>1, <2>3, <2>4, <2>5 DEF ContentInv
<1> QED  BY <1>10, <1>11, <1>13, <1>14, <1>15 DEF ProtocolInv

(* The agent reads. *)
LEMMA AgentReadKeeps ==
  ASSUME ProtocolInv, agent_read("a")
  PROVE  ProtocolInv'
<1>0. BufInv /\ EndsInv /\ AgentTurn /\ ClientTurn /\ ContentInv
  BY DEF ProtocolInv
<1>1. PICK k \in 1..Len(ReqPipe) :
        /\ rd' = [rd EXCEPT !["a"] = ReqRead \o SubSeq(ReqPipe, 1, k)]
        /\ pipe' = [pipe EXCEPT !["req"] = SubSeq(ReqPipe, k + 1, Len(ReqPipe))]
  BY DEF agent_read, Reads, ReqRead, ReqPipe
<1>2. /\ UNCHANGED <<inst, wr, queries, error, got, client, agent, ends>>
      /\ agent = "loop"
  BY DEF agent_read, Receives, procVars, queryVars
<1> DEFINE r2 == ReqRead \o SubSeq(ReqPipe, 1, k)
           p2 == SubSeq(ReqPipe, k + 1, Len(ReqPipe))
<1>3. ReadsSome(ReqRead, ReqPipe, ReqToWrite, r2, p2, ReqToWrite)
  BY DEF ReadsSome
<1>4. rd' = [rd EXCEPT !["a"] = r2] /\ pipe' = [pipe EXCEPT !["req"] = p2]
  BY <1>1
<1> HIDE DEF r2, p2
<1>5. Requests(Field)
  BY <1>0, Buffers
<1>6. /\ r2 \in Seq(Field) /\ p2 \in Seq(Field) /\ Len(ReqPipe) \in Nat \ {0}
      /\ Len(r2) + Len(p2) = Len(ReqRead) + Len(ReqPipe)
  BY <1>3, <1>5, ReadsSomeKeeps DEF Requests
<1>7. \A S : Requests(S) => r2 \in Seq(S) /\ p2 \in Seq(S) /\ ReqToWrite \in Seq(S)
  BY <1>3, ReadsSomeKeeps DEF Requests
<1>8. /\ rd' \in [Side -> Seq(Field)] /\ pipe' \in [{"req", "rep"} -> Seq(Field)]
      /\ ReqRead' = r2 /\ ReqPipe' = p2 /\ ReqToWrite' = ReqToWrite
      /\ RepRead' = RepRead /\ RepPipe' = RepPipe /\ RepToWrite' = RepToWrite
  <2>1. "a" \in Side /\ "u" \in Side /\ rd \in [Side -> Seq(Field)]
    BY <1>0 DEF Side, BufInv
  <2>2. rd' \in [Side -> Seq(Field)] /\ ReqRead' = r2 /\ RepRead' = RepRead
    BY <1>4, <1>6, <2>1, BufferChange DEF RepRead, ReqRead
  <2>3. pipe' \in [{"req", "rep"} -> Seq(Field)] /\ ReqPipe' = p2 /\ RepPipe' = RepPipe
    BY <1>0, <1>4, <1>6, PipeChange
  <2> QED  BY <1>2, <2>2, <2>3 DEF ReqToWrite, RepToWrite
<1>9. ReqLen' = ReqLen /\ RepLen' = RepLen
  <2>1. RepLen' = RepLen
    BY <1>8 DEF RepLen
  <2>2. ReqLen' = Len(r2) + Len(p2) + Len(ReqToWrite)
    BY <1>8 DEF ReqLen
  <2>3. Len(r2) \in Nat /\ Len(p2) \in Nat
    BY <1>6
  <2> QED  BY <1>0, <1>6, <2>1, <2>2, <2>3, Buffers DEF ReqLen
<1>10. BufInv'
  BY <1>0, <1>2, <1>8 DEF BufInv
<1>11. EndsInv'
  BY <1>0, <1>2 DEF EndsInv
<1>12. AgentTurn'
  <2>1. Len(ReqRead') + Len(ReqPipe') <= FIELDS
    BY <1>0, <1>6, <1>8, Buffers DEF AgentTurn
  <2> QED  BY <1>0, <1>2, <1>8, <1>9, <2>1 DEF AgentTurn, Starting, Sending
<1>13. ClientTurn'
  BY <1>0, <1>2, <1>8, <1>9 DEF ClientTurn
<1>14. ContentInv'
  <2>1. InOrder(RepRead, RepPipe, RepToWrite)'
    BY <1>0, <1>8 DEF ContentInv
  <2>2. /\ Replies(Greetings(inst.version))'
        /\ client \in Querying /\ ~error => Replies(Answers(queries))'
    BY <1>0, <1>2, <1>8 DEF ContentInv, Replies, Greetings, Answers
  <2>3. ASSUME client \in Querying  PROVE Requests(OfQuery(queries))'
    <3>1. Requests(OfQuery(queries))
      BY <1>0, <1>2, <2>3 DEF ContentInv
    <3>2. ReqRead' \in Seq(OfQuery(queries)) /\ ReqPipe' \in Seq(OfQuery(queries))
          /\ ReqToWrite' \in Seq(OfQuery(queries))
      BY <1>7, <1>8, <3>1
    <3> QED  BY <1>2, <3>2 DEF Requests, OfQuery
  <2> QED  BY <1>0, <1>2, <2>1, <2>2, <2>3 DEF ContentInv
<1> QED  BY <1>10, <1>11, <1>12, <1>13, <1>14 DEF ProtocolInv

(* Who has not begun or has ended writes nothing. *)
LEMMA ProtocolNoWriter ==
  ASSUME ProtocolInv, agent \in {"none", "dead"}
  PROVE  wr["a"] = <<>>
<1>1. \A s \in Seq(Field) : s # <<>> => Len(s) \in Nat \ {0}
  BY EmptySeq
<1>2. RepToWrite \in Seq(Field)
  BY Buffers DEF ProtocolInv, Replies
<1>3. ~ (Len(RepToWrite) > 0)
  BY DEF ProtocolInv, AgentTurn, Sending
<1>4. RepToWrite = <<>>
  BY <1>1, <1>2, <1>3
<1> QED  BY <1>4 DEF RepToWrite

(* All steps. *)
LEMMA ProtocolStep ==
  ASSUME ProtocolInv, Next
  PROVE  ProtocolInv'
<1>1. Kinds \/ Own
  <2>1. inst \in Installations
    BY DEF ProtocolInv, BufInv
  <2> QED  BY <2>1, ProtocolNoWriter, SessionKinds
<1>2. Kinds => ProtocolInv'
  BY AgentGoneKeeps, ClientGoneKeeps, AgentStartsKeeps, AgentSaysKeeps, AgentGoesOnKeeps,
     AgentTakesKeeps, ClientWaitsKeeps, ClientLosesKeeps DEF Kinds
<1>3. Own => ProtocolInv'
  BY ConnectKeeps, ParentKeeps, ConnectedKeeps, QueryKeeps, QueryDoneKeeps, HandleKeeps,
     ClientWriteKeeps, AgentWriteKeeps, ClientReadKeeps, AgentReadKeeps DEF Own, Side
<1> QED  BY <1>1, <1>2, <1>3

(* The start: nothing is under way. *)
LEMMA ProtocolInit ==
  ASSUME Init
  PROVE  ProtocolInv
<1>1. <<>> \in Seq(Field) /\ Len(<<>>) = 0
  BY EmptySeq
<1>2. /\ ReqRead = <<>> /\ ReqPipe = <<>> /\ ReqToWrite = <<>>
      /\ RepRead = <<>> /\ RepPipe = <<>> /\ RepToWrite = <<>>
  BY DEF Init, Side, ReqRead, ReqPipe, ReqToWrite, RepRead, RepPipe, RepToWrite
<1>3. BufInv
  <2>1. pipe \in [{"req", "rep"} -> Seq(Field)]
    BY <1>1 DEF Init
  <2>2. wr \in [Side -> Seq(Field)] /\ rd \in [Side -> Seq(Field)]
    BY <1>1 DEF Init
  <2>3. queries \in 0..MAX_QUERIES /\ error \in BOOLEAN /\ got \in 0..MAX_QUERIES
    <3>1. MAX_QUERIES \in Nat
      BY SessionAssumption
    <3>2. queries = 0 /\ error = FALSE /\ got = 0
      BY DEF Init
    <3>3. queries \in 0..MAX_QUERIES /\ got \in 0..MAX_QUERIES
      BY <3>1, <3>2
    <3>4. error \in BOOLEAN
      BY <3>2, Zenon
    <3> QED  BY <3>3, <3>4
  <2>4. inst \in Installations /\ client \in Client /\ agent \in Agent
    BY DEF Init, Client, Agent
  <2>5. ends \subseteq Side \X {"req", "rep"} \X {"r", "w"}
    BY DEF Init
  <2> QED  BY <2>1, <2>2, <2>3, <2>4, <2>5 DEF BufInv
<1>4. EndsInv
  BY DEF Init, EndsInv
<1>5. ReqLen = 0 /\ RepLen = 0
  BY <1>1, <1>2 DEF ReqLen, RepLen
<1>6. AgentTurn /\ ClientTurn
  BY <1>1, <1>2, <1>5, SessionAssumption DEF Init, AgentTurn, ClientTurn, Sending, Connecting
<1>7. ContentInv
  <2>1. InOrder(RepRead, RepPipe, RepToWrite)
    BY <1>1, <1>2 DEF InOrder
  <2>2. RepRead \in Seq(Greetings(inst.version)) /\ RepPipe \in Seq(Greetings(inst.version))
        /\ RepToWrite \in Seq(Greetings(inst.version))
    BY <1>2, EmptySeq
  <2> QED  BY <2>1, <2>2 DEF Init, ContentInv, Replies, Querying
<1> QED  BY <1>3, <1>4, <1>6, <1>7 DEF ProtocolInv

(***************************************************************************)
(* The invariant of the protocol.                                          *)
(***************************************************************************)
THEOREM ProtocolInvariant ==
  Spec => []ProtocolInv
<1>1. ProtocolInv /\ [Next]_vars => ProtocolInv'
  <2> SUFFICES ASSUME ProtocolInv, [Next]_vars  PROVE ProtocolInv'
    OBVIOUS
  <2>1. CASE Next
    BY <2>1, ProtocolStep
  <2>2. CASE UNCHANGED vars
    <3>1. UNCHANGED <<client, agent, inst, ends, pipe, wr, rd, queries, error, got>>
      BY <2>2 DEF vars, procVars, pipeVars, queryVars
    <3>2. BufInv' /\ EndsInv'
      BY <3>1 DEF ProtocolInv, BufInv, EndsInv
    <3>3. AgentTurn' /\ ClientTurn' /\ ContentInv'
      BY <3>1, BuffersSame
         DEF ProtocolInv, AgentTurn, ClientTurn, ContentInv, Replies, Requests
    <3> QED  BY <3>2, <3>3 DEF ProtocolInv
  <2> QED  BY <2>1, <2>2
<1> QED  BY <1>1, ProtocolInit, PTL DEF Spec

(***************************************************************************)
(* No more than one header is under way in either direction: agent_read's  *)
(* buffer, a little larger than a header, never keeps a part of the next.  *)
(***************************************************************************)
THEOREM SessionTyping ==
  Spec => []SessTypeOK
<1>1. ProtocolInv /\ PrivInv => SessTypeOK
  <2> SUFFICES ASSUME ProtocolInv, PrivInv  PROVE SessTypeOK
    OBVIOUS
  <2>1. Len(ReqRead) + Len(ReqPipe) <= FIELDS /\ Len(RepRead) + Len(RepPipe) <= FIELDS
    BY Buffers DEF ProtocolInv, AgentTurn, RepLen
  <2>2. Len(ReqPipe) + Len(ReqRead) <= FIELDS /\ Len(RepPipe) + Len(RepRead) <= FIELDS
    BY <2>1, Buffers DEF ProtocolInv
  <2>3. ASSUME NEW p \in Side  PROVE Len(pipe[Reads[p]]) + Len(rd[p]) <= FIELDS
    <3>1. \/ pipe[Reads[p]] = RepPipe /\ rd[p] = RepRead
          \/ pipe[Reads[p]] = ReqPipe /\ rd[p] = ReqRead
      BY DEF Side, Reads, ReqPipe, ReqRead, RepPipe, RepRead
    <3> QED  BY <2>2, <3>1
  <2> QED  BY <2>3 DEF SessTypeOK, ProtocolInv, BufInv, PrivInv
<1> QED  BY <1>1, ProtocolInvariant, PrivInvariant, PTL

-----------------------------------------------------------------------------
(***************************************************************************)
(* The pipes implement Channel, step by step.                              *)
(***************************************************************************)
ChanState == IF error \/ client \in {"failed", "off"} THEN "lost"
             ELSE IF client \in Querying THEN "asked" ELSE "idle"

(* Every step asks, answers, loses the channel, or changes nothing of it. *)
LEMMA ChannelStep ==
  ASSUME ProtocolInv, Next
  PROVE  [Chan!Ask \/ Chan!Answer \/ Chan!Lose]_(Chan!vars)
<1> DEFINE Still == ChanState' = ChanState /\ queries' = queries /\ got' = got
           Lost == ChanState' = "lost" /\ queries' = queries /\ got' = got
<1>1. Still \/ Lost => [Chan!Ask \/ Chan!Answer \/ Chan!Lose]_(Chan!vars)
  BY DEF Chan!Lose, Chan!vars, ChanState
<1>2. Kinds \/ Own
  <2>1. inst \in Installations
    BY DEF ProtocolInv, BufInv
  <2> QED  BY <2>1, ProtocolNoWriter, SessionKinds
<1>3. AgentGone \/ AgentStarts \/ AgentSays \/ AgentGoesOn \/ AgentTakes => Still
  BY DEF AgentGone, AgentStarts, AgentSays, AgentGoesOn, AgentTakes, queryVars, ChanState
<1>4. ClientGone \/ ClientLoses => Lost
  BY DEF ClientGone, ClientCloses, ClientLoses, queryVars, ChanState
<1>5. ClientWaits \/ parent_closes => Still
  BY DEF ClientWaits, parent_closes, queryVars, ChanState, Querying
<1>6. agent_connect \/ connected => Still \/ Lost
  BY DEF agent_connect, connected, ClientCloses, queryVars, ChanState, Querying
<1>7. request_handle => Still
  BY DEF request_handle, queryVars, ChanState
<1>8. ASSUME NEW p \in Side, agent_read(p)  PROVE Still
  BY <1>8 DEF agent_read, queryVars, ChanState
<1>9. ASSUME agent_write("a")  PROVE Still
  BY <1>9 DEF agent_write, Sent, queryVars, ChanState
<1>10. ASSUME agent_write("u")  PROVE Still
  <2>1. client = "send"
    <3>1. ReqToWrite # <<>>
      BY <1>10 DEF agent_write, ReqToWrite
    <3>2. Len(ReqToWrite) \in Nat \ {0}
      BY <3>1, Buffers, EmptySeq DEF ProtocolInv, Requests
    <3> QED  BY <3>2 DEF ProtocolInv, ClientTurn
  <2> QED  BY <1>10, <2>1 DEF agent_write, Sent, queryVars, ChanState, Querying
<1>11. ASSUME agent_query  PROVE Chan!Ask
  <2>1. client = "ready" /\ client' = "send" /\ queries' = queries + 1 /\ UNCHANGED <<error, got>>
    BY <1>11 DEF agent_query
  <2> QED  BY <2>1 DEF Chan!Ask, Querying
<1>12. ASSUME agent_query_done  PROVE Chan!Answer
  <2>1. client = "recv" /\ client' = "ready" /\ queries' = queries
    BY <1>12 DEF agent_query_done
  <2>2. ~error
    BY <1>12, ClientTakes DEF agent_query_done
  <2>3. got' = queries /\ error' = error
    BY <1>12, QueryDone
  <2> QED  BY <2>1, <2>2, <2>3 DEF Chan!Answer, Querying
<1>13. Kinds => Still \/ Lost
  BY <1>3, <1>4, <1>5, Zenon DEF Kinds
<1>14. Own => Still \/ Lost \/ agent_query \/ agent_query_done
  BY <1>5, <1>6, <1>7, <1>8, <1>9, <1>10 DEF Own, Side
<1> QED  BY <1>1, <1>2, <1>11, <1>12, <1>13, <1>14

(***************************************************************************)
(* agent_query returns the status of the reply to its own request, in one  *)
(* piece, or an error after which nothing is ever received again: for      *)
(* every length of a header, and wherever reads and writes part it.        *)
(***************************************************************************)
THEOREM SessionChannel ==
  Spec => ChannelSpec
<1>1. Init => Chan!Init
  BY DEF Init, Chan!Init, Querying
<1>2. ProtocolInv /\ [Next]_vars => [Chan!Ask \/ Chan!Answer \/ Chan!Lose]_(Chan!vars)
  <2> SUFFICES ASSUME ProtocolInv, [Next]_vars
               PROVE  [Chan!Ask \/ Chan!Answer \/ Chan!Lose]_(Chan!vars)
    OBVIOUS
  <2>1. CASE Next
    BY <2>1, ChannelStep
  <2>2. CASE UNCHANGED vars
    <3>1. UNCHANGED <<client, queries, error, got>>
      BY <2>2 DEF vars, queryVars
    <3> QED  BY <3>1 DEF Chan!vars
  <2> QED  BY <2>1, <2>2
<1> QED  BY <1>1, <1>2, ProtocolInvariant, PTL DEF Spec, ChannelSpec, Chan!Spec
=============================================================================
