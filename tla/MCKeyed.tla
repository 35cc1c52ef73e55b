------------------------------ MODULE MCKeyed ------------------------------
(* Every two of the first three keys share a bucket in some table the run    *)
(* reaches and part in another; 2, 5 and then 2n + 1 stand for the code's    *)
(* list of primes.                                                           *)
EXTENDS KeyedContainers

MCHash   == (1 :> 1) @@ (2 :> 3) @@ (3 :> 31) @@ (4 :> 2)
MCPrimes == <<2, 5>>
Symmetry == Permutations(Values)
=============================================================================
