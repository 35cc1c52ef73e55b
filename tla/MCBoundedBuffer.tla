-------------------------- MODULE MCBoundedBuffer --------------------------
(* The example with a buffer of two and five items.                          *)
EXTENDS BoundedBuffer

MCIntMax == 7
=============================================================================
