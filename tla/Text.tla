-------------------------------- MODULE Text --------------------------------
(***************************************************************************)
(* What a string of CCBasicCore promises: it is a sequence of characters,  *)
(* and every operation replaces a stretch of it or maps its characters.    *)
(***************************************************************************)
EXTENDS Naturals, Sequences

CONSTANTS Letters,     \* the characters of a text
          Initials     \* the texts a string can be created with

VARIABLE text

\* The n characters after the first i make room for s.
Splice(i, n, s) ==
    text' = SubSeq(text, 1, i) \o s \o SubSeq(text, i + n + 1, Len(text))

MapEach(f) == text' = [i \in DOMAIN text |-> f[text[i]]]

Init == text \in Initials
=============================================================================
