------------------------------ MODULE Channel ------------------------------
(***************************************************************************)
(* What the pipes between utility and agent promise: a query is answered   *)
(* by the reply to this very query, or the connection is lost for good.    *)
(***************************************************************************)
EXTENDS Naturals

VARIABLES state,        \* idle, asked or lost
          n,            \* queries sent
          got           \* the query whose reply came last

vars == <<state, n, got>>

Init == state = "idle" /\ n = 0 /\ got = 0

Ask == /\ state # "asked"
       /\ state' = IF state = "idle" THEN "asked" ELSE "lost"
       /\ n' = n + 1
       /\ UNCHANGED got

Answer == /\ state = "asked"
          /\ state' = "idle"
          /\ got' = n
          /\ UNCHANGED n

Lose == /\ state' = "lost"
        /\ UNCHANGED <<n, got>>

Spec == Init /\ [][Ask \/ Answer \/ Lose]_vars
=============================================================================
