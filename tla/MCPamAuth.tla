------------------------------ MODULE MCPamAuth ------------------------------
(***************************************************************************)
(* TLC instances of PamAuth.  A configuration is given by the fields that  *)
(* a run is about.                                                         *)
(***************************************************************************)
EXTENDS PamAuth, TLC

CONSTANTS Retry, Oob, Spass,    \* values of pam_retry, pam_oob, pam_spass_require
          Delay                 \* and of pam_oob_delay

MCConfig == [pam_retry : Retry, pam_retries : {2}, pam_enforce : {FALSE},
             pam_oob : Oob, pam_oob_delay : Delay, pam_spass_require : Spass,
             db_user : {FALSE}]

(* Each way to send OOB messages, and the static password and retries without them. *)
EndsConfig == {c \in MCConfig : IF c.pam_oob = 0 THEN c.pam_spass_require /\ c.pam_retry # 0
                                 ELSE ~c.pam_spass_require /\ c.pam_retry = 0}

(***************************************************************************)
(* Bound of a run with and without OOB: either the clock stands still and  *)
(* the utility works beside the sessions, or it ticks and two sessions run *)
(* without the utility.                                                    *)
(***************************************************************************)
UtilityOrOob == IF cfg.pam_oob = 0
                  THEN clock = 0
                  ELSE ops <= 2 /\ \A p \in Proc : pc[p] # "utility"

Symmetry == Permutations(Proc) \cup Permutations(Inode)
=============================================================================
