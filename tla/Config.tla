------------------------------- MODULE Config -------------------------------
(***************************************************************************)
(* The configuration file (src/libotp/config.c): parsing, defaults, and    *)
(* the checks ppp_init and --check-config make.                            *)
(*                                                                         *)
(* A file is [open, lines, newline]: whether it can be opened, its lines   *)
(* in order, and whether the last one ends with a newline.  A line is      *)
(* [name, kind, v]; kind says what its value is: an int, a word of         *)
(* disallow/allow/enforce (dae) or of enabled/disabled (ed), another       *)
(* string (str), or one the variable does not take (illegal).              *)
(***************************************************************************)
EXTENDS Integers, Sequences

CONSTANTS Passwd        \* uid of each user of the system, by name

ASSUME PasswdAssumption == \A n \in DOMAIN Passwd : Passwd[n] \in Nat

CONFIG_DISALLOW == 0
CONFIG_ALLOW == 1
CONFIG_ENFORCE == 2
CONFIG_ENABLED == 0            \* the same number as CONFIG_DISALLOW
CONFIG_DISABLED == 1

(* _config_defaults, the fields that matter to the modules. *)
_config_defaults ==
    [user_uid |-> -1, db |-> "unconfigured", pam_oob_uid |-> -1,
     pam_retry |-> 0, pam_retries |-> 3, pam_oob |-> 0,
     pam_enforce |-> CONFIG_DISABLED, pam_spass_require |-> 0,
     show |-> CONFIG_ENABLED, show_def |-> CONFIG_ALLOW,
     salt |-> CONFIG_ALLOW, salt_def |-> CONFIG_ENABLED,
     key_regeneration |-> CONFIG_ALLOW, disabling |-> CONFIG_DISALLOW,
     passcode_def_length |-> 4, passcode_min_length |-> 2, passcode_max_length |-> 16]

EdVariables ==
    {"pam_enforce", "pam_enforce_policy", "pam_silent", "pam_key_regeneration_prompt",
     "pam_failure_warning", "pam_spass_require", "salt_def", "show_def"}

DaVariables ==
    {"key_generation", "key_regeneration", "disabling", "sourced_key_generation",
     "key_removal", "skipping", "shell_auth", "passcode_print", "key_print",
     "state_import", "state_export", "contact_change", "label_change",
     "alphabet_change", "spass_change"}
DaeVariables == DaVariables \cup {"salt", "show"}

IntRange ==
    [pam_retry |-> 0..3, pam_retries |-> 2..5, pam_logging |-> 0..3, pam_oob |-> 0..3,
     pam_oob_delay |-> 0..172800, pam_failure_boundary |-> 0..500,
     pam_failure_delay |-> 0..500, passcode_def_length |-> 2..16,
     passcode_min_length |-> 2..16, passcode_max_length |-> 2..16,
     alphabet_def |-> 1..2, alphabet_min_length |-> 5..88,
     alphabet_max_length |-> 5..88, spass_min_length |-> 4..500,
     spass_require_digit |-> 0..20, spass_require_special |-> 0..20,
     spass_require_uppercase |-> 0..20]

StrVariables ==
    {"db_user", "sql_host", "sql_database", "sql_user", "sql_pass", "ldap_host",
     "ldap_user", "ldap_pass", "ldap_dn", "pam_oob_path", "alphabet_custom"}

Removed == {"backward_skipping", "verbose_output"}
Databases == {"global", "user", "mysql", "ldap"}

(* One character less: the last line loses it with its missing newline. *)
Chop(l) ==
    IF l.kind = "int" /\ l.v >= 10 THEN [l EXCEPT !.v = @ \div 10]
                                   ELSE [l EXCEPT !.kind = "str", !.v = "chopped"]

Lines(file) ==
    LET n == Len(file.lines) IN
    IF file.newline \/ n = 0 THEN file.lines
                             ELSE [file.lines EXCEPT ![n] = Chop(@)]

Assign(r, n, v) == IF n \in DOMAIN r.cfg THEN [r EXCEPT !.cfg[n] = v] ELSE r
Stop(r) == [r EXCEPT !.error = TRUE]

(* Mutant: the check against root is dropped. *)
user_may_be_root(r, field, l) ==
    IF l.kind # "str" \/ l.v \notin DOMAIN Passwd THEN Stop(r)
    ELSE Assign(r, field, Passwd[l.v])

(* USER and PAM_OOB_USER: a user of the system, and not root. *)
ParseUser(r, field, l) ==
    IF l.kind # "str" \/ l.v \notin DOMAIN Passwd THEN Stop(r)
    ELSE IF Passwd[l.v] = 0 THEN Stop(r)
    ELSE Assign(r, field, Passwd[l.v])

(***************************************************************************)
(* One turn of the loop of _config_parse; r is the configuration so far,   *)
(* the number of unknown variables, and whether an error ended the loop.   *)
(* USER is ignored once DB=user has been read, also if DB changes later.   *)
(***************************************************************************)
ParseLine(r, l) ==
    IF r.error THEN r
    ELSE CASE l.name = "user" ->
                IF r.cfg.db = "user" THEN r ELSE ParseUser(r, "user_uid", l)
           [] l.name = "pam_oob_user" -> ParseUser(r, "pam_oob_uid", l)
           [] l.name = "db" ->
                IF l.kind = "str" /\ l.v \in Databases THEN Assign(r, "db", l.v) ELSE Stop(r)
           [] l.name \in StrVariables ->
                IF l.kind = "illegal" THEN Stop(r) ELSE r
           [] l.name \in EdVariables ->
                IF l.kind = "ed" THEN Assign(r, l.name, l.v) ELSE Stop(r)
           [] l.name \in DaeVariables ->
                IF l.kind = "dae" /\ (l.name \in DaVariables => l.v # CONFIG_ENFORCE)
                THEN Assign(r, l.name, l.v) ELSE Stop(r)
           [] l.name \in DOMAIN IntRange ->
                IF l.kind = "int" /\ l.v \in IntRange[l.name]
                THEN Assign(r, l.name, l.v) ELSE Stop(r)
           [] l.name \in Removed -> Stop(r)
           [] OTHER -> [r EXCEPT !.fail = @ + 1]

(* Defaults that the policy would refuse. *)
Inconsistent(c) ==
    \/ c.show = CONFIG_DISALLOW /\ c.show_def = CONFIG_ENABLED
    \/ c.show = CONFIG_ENFORCE /\ c.show_def = CONFIG_DISABLED
    \/ c.salt = CONFIG_DISALLOW /\ c.salt_def = CONFIG_ENABLED
    \/ c.salt = CONFIG_ENFORCE /\ c.salt_def = CONFIG_DISABLED
    \/ c.passcode_def_length \notin c.passcode_min_length..c.passcode_max_length

(* The loop: what is known before it, and after each of the lines. *)
Unparsed == [cfg |-> _config_defaults, fail |-> 0, error |-> FALSE]
Parsing(file) ==
    LET after[n \in 0..Len(file.lines)] ==
            IF n = 0 THEN Unparsed ELSE ParseLine(after[n - 1], Lines(file)[n])
    IN after

(* _config_parse: the return value and what has been assigned. *)
_config_parse(file) ==
    LET r == Parsing(file)[Len(file.lines)]
    IN [cfg |-> r.cfg,
        ret |-> IF ~file.open \/ r.error THEN 1
                ELSE IF Inconsistent(r.cfg) THEN 2
                ELSE IF r.fail > 0 THEN 1
                ELSE IF r.cfg.db = "unconfigured" THEN 5 ELSE 0]

(* cfg_get answers NULL unless parsing returned 0 or 5; _config_init goes  *)
(* back to the defaults after 5 too.                                       *)
Unreadable(file) == _config_parse(file).ret \notin {0, 5}
cfg_get(file) ==
    IF _config_parse(file).ret = 0 THEN _config_parse(file).cfg ELSE _config_defaults

(***************************************************************************)
(* The installation: the file, whether root owns it and others may read    *)
(* it; the agent binary, its owner and its SUID and SGID bits.             *)
(***************************************************************************)
cfg_permissions(i) ==
    IF i.file_uid # 0 THEN "PPP_ERROR_CONFIG_OWNERSHIP"
    ELSE IF cfg_get(i.file).db \in {"mysql", "ldap"} /\ i.file_others
         THEN "PPP_ERROR_CONFIG_PERMISSIONS" ELSE "OK"

ppp_init(i) ==
    IF Unreadable(i.file) THEN "PPP_ERROR_CONFIG"
    ELSE IF cfg_get(i.file).db = "unconfigured" THEN "PPP_ERROR_NOT_CONFIGURED"
    ELSE cfg_permissions(i)

(* do_verify_config, run by root, if the database can be read. *)
do_verify_config(i) ==
    /\ ppp_init(i) = "OK"
    /\ i.exe = "agent"
    /\ IF cfg_get(i.file).db = "global"
       THEN i.bin_uid = 0 /\ i.suid /\ ~i.sgid
       ELSE ~i.suid /\ ~i.sgid
=============================================================================
