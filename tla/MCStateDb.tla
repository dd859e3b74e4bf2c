----------------------------- MODULE MCStateDb ------------------------------
(***************************************************************************)
(* TLC instances of StateDb: two users and somebody whose line is only     *)
(* ever copied.                                                            *)
(***************************************************************************)
EXTENDS StateDb

CONSTANTS alice, bob, v1, v2

Entry(u, v) == [user |-> u, val |-> v, sound |-> TRUE]
Broken == [user |-> bob, val |-> v1, sound |-> FALSE]

(* At most one entry of each user, perhaps a line that is broken. *)
UniqueFiles == {Absent, <<>>, <<Entry(alice, v1)>>,
                <<Entry(bob, v1), Entry(alice, v1)>>,
                <<Entry(alice, v1), Entry(bob, v1)>>,
                <<Entry(alice, v1), Broken>>}

(* An administrator left a second entry of the same user behind. *)
DuplicateFiles == {<<Entry(alice, v1), Entry(alice, v2), Entry(bob, v1)>>}
=============================================================================
