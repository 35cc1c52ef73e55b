------------------------------ MODULE KeyTable ------------------------------
(***************************************************************************)
(* What the keyed containers of CCBasicCore promise: a table that gives    *)
(* every key its value or says that the key is absent.                     *)
(***************************************************************************)
CONSTANTS Keys, Values, Absent

VARIABLE table

Put(k, v) == table' = [table EXCEPT ![k] = v]
Remove(k) == table' = [table EXCEPT ![k] = Absent]

Init == table = [k \in Keys |-> Absent]

Next == \E k \in Keys : Remove(k) \/ \E v \in Values : Put(k, v)

Spec == Init /\ [][Next]_table
=============================================================================
