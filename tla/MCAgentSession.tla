--------------------------- MODULE MCAgentSession ---------------------------
(* TLC instance of AgentSession: configuration files and installations. *)
EXTENDS AgentSession, TLC

MCPasswd == "root" :> 0 @@ "alice" :> 1 @@ "otp" :> 2

Str(n, x) == [name |-> n, kind |-> "str", v |-> x]
Num(n, x) == [name |-> n, kind |-> "int", v |-> x]
Word(n, k, x) == [name |-> n, kind |-> k, v |-> x]
Db(x) == Str("db", x)
User(x) == Str("user", x)

File(lines) == [open |-> TRUE, lines |-> lines, newline |-> TRUE]

DbUser == File(<<Db("user")>>)
DbGlobal == File(<<Db("global"), User("otp")>>)

Files ==
  {DbUser, DbGlobal,
   File(<<User("otp"), Db("global"), Num("pam_retry", 1), Word("show", "dae", 1)>>),
   File(<<User("otp"), Db("user"), Db("global")>>),
   File(<<Db("user"), User("otp"), Db("global")>>),     \* USER is ignored
   File(<<Db("global")>>),                              \* no USER
   File(<<Db("global"), User("root")>>),
   File(<<Db("global"), User("nobody")>>),
   File(<<Db("mysql"), Word("sql_pass", "str", "x")>>),
   File(<<>>)}                                          \* unconfigured

BadFiles ==
  {File(<<Db("user"), Num("pam_typo", 1)>>),
   File(<<Db("user"), Word("salt", "dae", 0)>>),        \* salt_def is enabled
   File(<<Db("user"), Word("pam_enforce", "dae", 0)>>),
   File(<<Db("user"), Word("skipping", "dae", 2)>>),
   File(<<Db("user"), Num("backward_skipping", 1)>>),
   File(<<Db("user"), Str("pam_oob_user", "root")>>),
   [DbUser EXCEPT !.newline = FALSE],
   [File(<<Db("user"), Num("passcode_min_length", 12)>>) EXCEPT !.newline = FALSE],
   [DbUser EXCEPT !.open = FALSE]}

Installed(f) == [file |-> f, file_uid |-> 0, file_others |-> FALSE, exe |-> "agent",
                 bin_uid |-> 0, suid |-> FALSE, sgid |-> FALSE, version |-> "same"]

MCInstallations ==
  {Installed(f) : f \in Files \cup BadFiles}
  \cup {[Installed(f) EXCEPT !.suid = TRUE] : f \in Files}
  \cup {[Installed(DbUser) EXCEPT !.exe = e] : e \in {"missing", "alien", "unexecutable"}}
  \cup {[Installed(DbUser) EXCEPT !.version = "other"],
        [Installed(DbUser) EXCEPT !.file_uid = 1],
        [Installed(File(<<Db("mysql")>>)) EXCEPT !.file_others = TRUE, !.suid = TRUE],
        [Installed(DbGlobal) EXCEPT !.suid = TRUE, !.sgid = TRUE],
        [Installed(DbGlobal) EXCEPT !.suid = TRUE, !.bin_uid = 2]}
=============================================================================
