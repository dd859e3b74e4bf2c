------------------------------ MODULE MCUtility ------------------------------
(* TLC instances of Utility: policies and command lines. *)
EXTENDS Utility, TLC

CONSTANTS Lines

Base ==
    [key_generation |-> "allow", key_regeneration |-> "allow",
     key_removal |-> "allow", disabling |-> "allow", salt |-> "allow",
     show |-> "allow", passcode_print |-> "allow", skipping |-> "allow",
     spass_change |-> "allow", contact_change |-> "allow",
     label_change |-> "allow", key_print |-> "allow", shell_auth |-> "allow",
     alphabet_change |-> "allow", show_def |-> FALSE, salt_def |-> FALSE,
     passcode_def_length |-> 4, passcode_min_length |-> 4,
     passcode_max_length |-> 5, alphabet_def |-> 1, alphabets |-> {1},
     spass_min_length |-> 4, spass_require_digit |-> 1]

Strict ==
    [Base EXCEPT !.key_regeneration = "disallow", !.passcode_print = "disallow",
                 !.disabling = "disallow", !.contact_change = "disallow",
                 !.key_print = "disallow", !.shell_auth = "disallow",
                 !.salt = "disallow", !.show_def = TRUE, !.show = "enforce"]

(* The only alphabet is shorter than alphabet_min_length. *)
Short == [Base EXCEPT !.alphabets = {}]

MCConfig == {Base, Strict, Short}
BaseConfig == {Base}

MCCodes == 4 :> 2 @@ 5 :> 1
MCPasswords == {NULL, [length |-> 3, digits |-> 1], [length |-> 3, digits |-> 0]}
MCGarbage == {{}, {"salted"}}

Salt(b) == <<"c", <<"flag", "salted", b>>>>
Disable(b) == <<"c", <<"flag", "disabled", b>>>>
Label(x) == <<"c", <<"label", x>>>>

MCLines ==
  ("key"       :> <<<<"k">>>>)
  @@ ("saltkey"   :> <<Salt(TRUE), <<"k">>>>)
  @@ ("salt"      :> <<Salt(TRUE), <<"v">>>>)
  @@ ("remove"    :> <<<<"r">>>>)
  @@ ("next"      :> <<<<"t", <<"next">>>>>>)
  @@ ("card1"     :> <<<<"t", <<"[n]", 1>>>>>>)
  @@ ("card2"     :> <<<<"t", <<"[n]", 2>>>>>>)
  @@ ("card3"     :> <<<<"t", <<"[n]", 3>>>>>>)
  @@ ("current"   :> <<<<"t", <<"current">>>>>>)
  @@ ("latexnext" :> <<<<"l", <<"next">>>>>>)
  @@ ("latex1"    :> <<<<"l", <<"[n]", 1>>>>>>)
  @@ ("prompt"    :> <<<<"P", <<"current">>>>>>)
  @@ ("skip"      :> <<<<"s", <<"[n]", 2>>>>>>)
  @@ ("skipfar"   :> <<<<"s", <<"[n]", 4>>>>>>)
  @@ ("auth"      :> <<<<"a", <<"x">>>>>>)
  @@ ("warn"      :> <<<<"w">>>>)
  @@ ("info"      :> <<<<"i">>>>)
  @@ ("infokey"   :> <<<<"I">>>>)
  @@ ("alphabets" :> <<<<"c", <<"alphabet=list">>>>>>)
  @@ ("spass"     :> <<<<"p", [length |-> 3, digits |-> 1]>>>>)
  @@ ("weak"      :> <<<<"p", [length |-> 3, digits |-> 0]>>>>)
  @@ ("nospass"   :> <<<<"p">>>>)
  @@ ("config"    :> <<Label("home"), <<"c", <<"code_length", 5>>>>,
                       <<"c", <<"alphabet", 1>>>>, <<"c", <<"flag", "show", FALSE>>>>>>)
  @@ ("contact"   :> <<<<"c", <<"contact", "me">>>>>>)
  @@ ("rootuser"  :> <<<<"u", "user">>, Disable(TRUE)>>)
  @@ ("two"       :> <<<<"k">>, <<"r">>>>)

MCCommandLines == {MCLines[l] : l \in Lines}
=============================================================================
