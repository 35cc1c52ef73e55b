------------------------------ MODULE CCString ------------------------------
(***************************************************************************)
(* CCString (data_structure/string/ccstring.c) of the default build, with  *)
(* USE_STRING_SSO: up to SsoSize characters are kept in the struct itself, *)
(* a longer text in a heap buffer.  Either way the buffer has capacity + 1 *)
(* bytes and byte `size' is the terminator; the bytes behind it are Stale, *)
(* for no operation that succeeds reads them.                              *)
(*                                                                         *)
(* Allocation is assumed to succeed.  A store outside the buffer, and a    *)
(* text with bytes that were never written, are where the model stops.     *)
(***************************************************************************)
EXTENDS Integers, Sequences

CONSTANTS Chars,        \* the characters but NUL
          NUL, Stale,   \* the terminator; a byte nobody wrote
          SsoSize,      \* STRING_SSO_SIZE
          SizeMax,      \* largest size_t
          CStrings,     \* what the client passes as `const char*'
          Lengths,      \* what the client passes as `len', 0 excepted
          Iterators,    \* AssignedStringIterators, functions of a byte
          MaxText       \* bound on the size and capacity a client asks for

ASSUME StringAssumption ==
    /\ NUL \notin Chars /\ Stale \notin Chars \cup {NUL}
    /\ SsoSize \in Nat \ {0} /\ MaxText \in Nat /\ SizeMax \in Nat
    /\ SsoSize <= SizeMax /\ 4 * MaxText <= SizeMax
    /\ CStrings \subseteq Seq(Chars) /\ \A c \in CStrings : Len(c) <= SizeMax
    /\ Lengths \subseteq 1 .. SizeMax
    /\ Iterators \subseteq [Chars \cup {NUL} -> Chars \cup {NUL}]

VARIABLES is_heap_flag,    \* string->is_heap_flag
          str_size,        \* string->size
          str_capacity,    \* string->capacity
          bytes,           \* the buffer the flag selects, 0 .. capacity
          str_status       \* "usable", "freed", "torn" or "undefined"

strVars == <<is_heap_flag, str_size, str_capacity, bytes, str_status>>

-----------------------------------------------------------------------------
StrUsable == str_status = "usable"

\* Byte i of a C string, terminator included.
CByte(c, i) == IF i < Len(c) THEN c[i + 1] ELSE NUL

\* A buffer of capacity + 1 bytes that takes over f[0 .. size].
StrBuffer(f, size, cap) == [i \in 0 .. cap |-> IF i <= size THEN f[i] ELSE Stale]

Becomes(heap, cap, size, f) == /\ is_heap_flag' = heap
                               /\ str_capacity' = cap
                               /\ str_size' = size
                               /\ bytes' = StrBuffer(f, size, cap)

Stops(reason) == /\ str_status' = reason
                 /\ UNCHANGED <<is_heap_flag, str_size, str_capacity, bytes>>

\* CreateEmpty, and CreateFromPlainString for the other texts: small when it is
\* shorter than SsoSize, else on the heap with nothing to spare.
StrInit(c) == /\ is_heap_flag = (Len(c) >= SsoSize)
              /\ str_capacity = IF Len(c) < SsoSize THEN SsoSize ELSE Len(c)
              /\ str_size = Len(c)
              /\ bytes = StrBuffer([i \in 0 .. Len(c) |-> CByte(c, i)], Len(c), str_capacity)
              /\ str_status = "usable"

\* Append and Insert: where a text of n characters goes, and with what capacity.
HeapFor(n) == is_heap_flag \/ n >= SsoSize

Larger(m, n) == IF m > n THEN m ELSE n

CapacityForNoDoubling(n) ==
    CASE ~HeapFor(n)                             -> SsoSize
      [] ~is_heap_flag /\ HeapFor(n)             -> Larger(n, 2 * SsoSize)
      [] is_heap_flag /\ n > str_capacity        -> n
      [] is_heap_flag /\ n <= str_capacity       -> str_capacity

CapacityFor(n) ==
    CASE ~HeapFor(n)                             -> SsoSize
      [] ~is_heap_flag /\ HeapFor(n)             -> Larger(n, 2 * SsoSize)
      [] is_heap_flag /\ n > str_capacity        -> Larger(n, 2 * str_capacity)
      [] is_heap_flag /\ n <= str_capacity       -> str_capacity

-----------------------------------------------------------------------------
StringAppendUnterminated(c) ==
    LET n == str_size + Len(c)
    IN  /\ StrUsable /\ n <= MaxText
        /\ Becomes(HeapFor(n), CapacityFor(n), n,
                   [i \in 0 .. n |-> CASE i < str_size            -> bytes[i]
                                       [] i >= str_size /\ i < n  -> CByte(c, i - str_size)
                                       [] i = n                   -> Stale])
        /\ UNCHANGED str_status

StringAppend(c) ==
    LET n == str_size + Len(c)
    IN  /\ StrUsable /\ n <= MaxText
        /\ Becomes(HeapFor(n), CapacityFor(n), n,
                   [i \in 0 .. n |-> IF i < str_size THEN bytes[i] ELSE CByte(c, i - str_size)])
        /\ UNCHANGED str_status

\* The character is appended as a C string of one character: NUL appends nothing.
StringPushBack(ch) == StringAppend(IF ch = NUL THEN <<>> ELSE <<ch>>)

\* A memcpy in place of the memmove: it overtakes itself.
InsertedByMemcpy(pos, c) ==
    [i \in 0 .. str_size + Len(c) |->
        CASE i < pos                        -> bytes[i]
          [] i >= pos /\ i < pos + Len(c)   -> c[i - pos + 1]
          [] i >= pos + Len(c)              -> IF c = <<>> THEN bytes[i]
                                               ELSE bytes[pos + ((i - pos) % Len(c))]]

\* What is behind pos moves up, the terminator included.
Inserted(pos, c) ==
    [i \in 0 .. str_size + Len(c) |->
        CASE i < pos                        -> bytes[i]
          [] i >= pos /\ i < pos + Len(c)   -> c[i - pos + 1]
          [] i >= pos + Len(c)              -> bytes[i - Len(c)]]

\* A text that moves to the heap is copied up to pos by memcpy and from there by
\* strcpy, which stops at the first NUL: the bytes behind that one are lost.
TornByInsert(pos, c) == /\ ~is_heap_flag /\ HeapFor(str_size + Len(c))
                        /\ \E i \in pos .. str_size - 1 : bytes[i] = NUL

StringInsert(pos, c) ==
    LET n == str_size + Len(c)
    IN  /\ StrUsable /\ n <= MaxText
        /\ pos \in 0 .. str_size
        /\ \/ TornByInsert(pos, c) /\ Stops("torn")
           \/ /\ ~TornByInsert(pos, c)
              /\ Becomes(HeapFor(n), CapacityFor(n), n, Inserted(pos, c))
              /\ UNCHANGED str_status

\* pos + len, in size_t.
EraseEnd(pos, len) == (pos + len) % (SizeMax + 1)

\* Either the text ends at pos, or what begins at the end of the stretch moves to
\* pos.  When the sum has wrapped, that end lies before pos, the move is upwards
\* and the text grows, past its buffer if there is no room.
StringErase(pos, len) ==
    LET end == EraseEnd(pos, len)
        n   == IF end >= str_size THEN pos ELSE str_size - end + pos
    IN  /\ StrUsable
        /\ pos \in 0 .. str_size /\ len > 0
        /\ \/ n > str_capacity /\ Stops("undefined")
           \/ /\ n <= str_capacity
              /\ Becomes(is_heap_flag, str_capacity, n,
                         [i \in 0 .. n |-> CASE i < pos                      -> bytes[i]
                                             [] i >= pos /\ end >= str_size  -> NUL
                                             [] i >= pos /\ end < str_size   -> bytes[i - pos + end]])
              /\ UNCHANGED str_status

\* A heap string grows to n.  A small string that n does not fit moves to a heap
\* buffer with room for the text it has, whatever n is.
StringReserve(n) ==
    /\ StrUsable /\ n \in 0 .. MaxText
    /\ IF is_heap_flag
       THEN Becomes(TRUE, Larger(n, str_capacity), str_size, bytes)
       ELSE IF n <= SsoSize THEN UNCHANGED <<is_heap_flag, str_size, str_capacity, bytes>>
                            ELSE Becomes(TRUE, str_size, str_size, bytes)
    /\ UNCHANGED str_status

StringShrinkToFit ==
    /\ StrUsable /\ is_heap_flag
    /\ IF str_size <= SsoSize THEN Becomes(FALSE, SsoSize, str_size, bytes)
                              ELSE Becomes(TRUE, str_size, str_size, bytes)
    /\ UNCHANGED str_status

\* The iterator may return NUL, which then is a character of the text.
StringProcess(it) ==
    /\ StrUsable
    /\ Becomes(is_heap_flag, str_capacity, str_size,
               [i \in 0 .. str_size |-> IF i < str_size THEN it[bytes[i]] ELSE bytes[i]])
    /\ UNCHANGED str_status

StringClear == /\ StrUsable
               /\ Becomes(is_heap_flag, str_capacity, 0, [i \in {0} |-> NUL])
               /\ UNCHANGED str_status

FreeString == StrUsable /\ Stops("freed")

StrNext == \/ \E c \in CStrings : \/ StringAppend(c)
                                  \/ \E pos \in 0 .. str_size : StringInsert(pos, c)
           \/ \E ch \in Chars \cup {NUL} : StringPushBack(ch)
           \/ \E pos \in 0 .. str_size, len \in Lengths : StringErase(pos, len)
           \/ \E n \in 0 .. MaxText : StringReserve(n)
           \/ StringShrinkToFit \/ StringClear \/ FreeString
           \/ \E it \in Iterators : StringProcess(it)

StrSpec == (\E c \in CStrings \cup {<<>>} : StrInit(c)) /\ [][StrNext]_strVars

-----------------------------------------------------------------------------
\* The text, and what a reader of the C string that Get returns sees of it.
StrText == [i \in 1 .. str_size |-> bytes[i - 1]]

BeforeNul(t) == LET end == {i \in 1 .. Len(t) : t[i] = NUL}
                IN  IF end = {} THEN t
                    ELSE SubSeq(t, 1, (CHOOSE i \in end : \A j \in end : i <= j) - 1)

\* The text of the string that SubString returns, or that it may be anything.  A
\* result of up to SsoSize characters is read from the struct, where a heap
\* string has its pointer, and terminated in a local array of SsoSize bytes; a
\* longer one is read from the start of the text and not terminated at all.
Anything == <<Stale>>

SubString(pos, len) ==
    LET n == IF EraseEnd(pos, len) > str_size THEN str_size - pos ELSE len
    IN  IF n = 0 \/ (n < SsoSize /\ ~is_heap_flag)
        THEN BeforeNul(SubSeq(StrText, pos + 1, pos + n))
        ELSE Anything

-----------------------------------------------------------------------------
(* Properties                                                               *)

\* The text and its terminator fit the buffer, every byte of it was written,
\* and a string that is not on the heap has the capacity of the struct: no
\* growth, move, shift or shrinking reads or leaves a byte outside the buffer.
TextInside ==
    str_status = "usable" =>
        /\ str_size <= str_capacity
        /\ \A i \in 0 .. str_size - 1 : bytes[i] \in Chars \cup {NUL}
        /\ bytes[str_size] = NUL
        /\ is_heap_flag \/ str_capacity = SsoSize

\* A growth at least doubles the capacity, so that appending n characters one by
\* one copies O(n), and nothing takes capacity away but ShrinkToFit, and Reserve,
\* the very call that is to add some, when the string was small.
CapacityMoves ==
    [][/\ str_capacity' > str_capacity =>
              \/ str_capacity' >= 2 * str_capacity
              \/ StringShrinkToFit
              \/ \E n \in 0 .. MaxText : StringReserve(n) /\ n = str_capacity'
       /\ str_capacity' < str_capacity =>
              \/ StringShrinkToFit
              \/ \E n \in 0 .. MaxText : StringReserve(n) /\ n > SsoSize /\ ~is_heap_flag]_strVars

TextPromise == INSTANCE Text WITH text <- StrText, Initials <- CStrings \cup {<<>>},
                                  Letters <- Chars \cup {NUL}

\* Without wrapping, an erasure ends where the text does at the latest.
Erased(pos, len) == IF pos + len > str_size THEN str_size - pos ELSE len

\* The edit each operation is named for.  A pushed NUL adds nothing instead, and an
\* erasure whose end wraps repeats characters.
TextStep ==
    str_status' = "usable" =>
        /\ \A c \in CStrings : StringAppend(c) => TextPromise!Splice(str_size, 0, c)
        /\ \A ch \in Chars : StringPushBack(ch) => TextPromise!Splice(str_size, 0, <<ch>>)
        /\ StringPushBack(NUL) => UNCHANGED StrText
        /\ \A c \in CStrings, pos \in 0 .. str_size :
              StringInsert(pos, c) => TextPromise!Splice(pos, 0, c)
        /\ \A pos \in 0 .. str_size, len \in Lengths :
              StringErase(pos, len) =>
                  IF pos + len <= SizeMax
                  THEN TextPromise!Splice(pos, Erased(pos, len), <<>>)
                  ELSE TextPromise!Splice(pos, 0, SubSeq(StrText, pos + len - SizeMax, pos))
        /\ \A it \in Iterators : StringProcess(it) => TextPromise!MapEach(it)
        /\ (StringShrinkToFit \/ \E n \in 0 .. MaxText : StringReserve(n)) => UNCHANGED StrText
        /\ StringClear => TextPromise!Splice(0, str_size, <<>>)

\* What leaves no text.  An insertion does exactly when it moves a small text with
\* a NUL behind the place of insertion to the heap, and an erasure only when its
\* end wraps.
StopStep ==
    /\ str_status' = "torn" => \E c \in CStrings, pos \in 0 .. str_size : StringInsert(pos, c)
    /\ \A c \in CStrings, pos \in 0 .. str_size :
          StringInsert(pos, c) =>
             (str_status' = "torn" <=> /\ ~is_heap_flag
                                       /\ str_size + Len(c) >= SsoSize
                                       /\ \E i \in pos + 1 .. str_size : StrText[i] = NUL)
    /\ str_status' = "undefined" => \E pos \in 0 .. str_size, len \in Lengths :
                                       pos + len > SizeMax /\ StringErase(pos, len)

\* Every operation is the edit it is named for of the text, in the struct, on the
\* heap and on the way between them.  "Handles strings with embedded null characters
\* gracefully", says README.md:198; the code does but for what TextStep and StopStep
\* name: a NUL that is pushed and a NUL behind an insertion that outgrows the struct.
ImplementsText == TextPromise!Init /\ [][TextStep]_strVars /\ [][StopStep]_strVars

\* "Get substring from basic string", says the header: the result is the text of
\* the stretch asked for, as far as a C string can hold it.
SubStringIsPart ==
    str_status = "usable" =>
        \A pos \in 0 .. str_size, len \in 0 .. MaxText :
            SubString(pos, len) = BeforeNul(SubSeq(StrText, pos + 1, pos + Erased(pos, len)))
=============================================================================
