---------------------------- MODULE MCSequences ----------------------------
(* Vectors of capacity up to 8 over four objects: the buffer is grown three  *)
(* times and shrunk twice.  Lists of up to five nodes, four of them the same *)
(* model values as the objects so that one symmetry serves both.  Strings of *)
(* up to four characters, one of which may be an embedded NUL, with the      *)
(* struct holding two; a size_t that wraps at 17.                            *)
EXTENDS SequenceContainers, TLC

CONSTANT Fifth

MCNodes == Objects \cup {Fifth}

MCCStrings == {<<>>, <<"x">>, <<"x", "y">>, <<"y", "x", "x">>}

\* One iterator swaps the characters, the other makes NULs and takes them back.
MCIterators == {("x" :> "y") @@ ("y" :> "x") @@ ("0" :> "0"),
                ("x" :> "0") @@ ("y" :> "y") @@ ("0" :> "x")}

Symmetry == Permutations(Objects)
=============================================================================
