---------------------------- MODULE MCThreadLife ----------------------------
(* main owns h1; the task of h1 creates and owns h2.                         *)
EXTENDS ThreadLife, TLC

CONSTANTS h1, h2

MCHandles == {h1, h2}
MCOwner   == (h1 :> main) @@ (h2 :> h1)
=============================================================================
