------------------------------ MODULE FatTable ------------------------------
(***************************************************************************)
(* What FatLookupFatEntry and FatSetFatEntry promise, in their own words:  *)
(* they are "semantically equivalent" to x = Fat[FatIndex] and to          *)
(* Fat[FatIndex] = FatEntry.  One array, no cache, no copies; a call may   *)
(* fail, and then it changes nothing.                                      *)
(***************************************************************************)
CONSTANTS
    Entries,  \* the indices of the table
    Values    \* what an entry may hold

VARIABLES
    table,    \* Fat
    reply     \* what the last call returned

Failed == [status |-> "failed"]
Done == [status |-> "done"]
Holds(i, v) == [status |-> "done", index |-> i, value |-> v]

Init ==
    /\ table \in [Entries -> Values]
    /\ reply = Done

Lookup(i) ==
    /\ reply' \in {Holds(i, table[i]), Failed}
    /\ UNCHANGED table

Set(i, v) ==
    \/ table' = [table EXCEPT ![i] = v] /\ reply' = Done
    \/ table' = table /\ reply' = Failed

\* Saving the table, or forgetting a saved one, is invisible.
Save ==
    /\ reply' \in {Done, Failed}
    /\ UNCHANGED table

Next ==
    \/ \E i \in Entries : Lookup(i)
    \/ \E i \in Entries, v \in Values : Set(i, v)
    \/ Save

Spec == Init /\ [][Next]_<<table, reply>>
=============================================================================
