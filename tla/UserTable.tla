----------------------------- MODULE UserTable ------------------------------
(***************************************************************************)
(* What a state database promises: a table of users' states, changed for   *)
(* one user at a time.  A power failure may take the table back to what    *)
(* the last sync() made durable, and to nothing else.                      *)
(***************************************************************************)
CONSTANTS User, Value, NoValue    \* NoValue: the user has no state

VARIABLES table,     \* what a load finds
          durable    \* what is certain to survive a power failure

tableVars == <<table, durable>>

Table == [User -> Value \cup {NoValue}]

TableInit == /\ table \in Table
             /\ durable = table

Put(u, v) == /\ table' = [table EXCEPT ![u] = v]
             /\ UNCHANGED durable

Sync == /\ durable' = table
        /\ UNCHANGED table

PowerFailure == /\ table' \in {table, durable}
                /\ durable' = table'

TableNext == \/ \E u \in User, v \in Value \cup {NoValue} : Put(u, v)
             \/ Sync
             \/ PowerFailure

TableSpec == TableInit /\ [][TableNext]_tableVars
=============================================================================
