---------------------------- MODULE MCMutexTest ----------------------------
(* Two threads that lock and one that uses trylock.                          *)
EXTENDS MutexTest
=============================================================================
