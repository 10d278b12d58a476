----------------------------- MODULE MCLibrary -----------------------------
(***************************************************************************)
(* Inputs for Library: every memory of five bytes, formats with the flags, *)
(* widths and precisions that meet each other, every word of each size.    *)
(***************************************************************************)
EXTENDS Library

\* Every memory of four bytes and a terminator; of the last byte of a char's
\* range, one is enough.
MCTexts == {m \o <<Nul>> : m \in [1 .. 4 -> Bytes]}

MCBits == [l \in {"hh", "h", "", "l"} |-> CASE l = "hh" -> 2 [] l = "h" -> 3 [] l = "" -> 4 [] l = "l" -> 5]

Specifier(spec, flags, width, precision, length, arg) ==
    [spec |-> spec, flags |-> flags, width |-> width, precision |-> precision,
     length |-> length, arg |-> arg]
Plain(char) == Specifier("plain", {}, 0, 0, "", char)
Flags == {"ZEROPAD", "LEFT", "PLUS", "SPACE", "HASH", "PRECISION"}

\* One number each: all flags with each other, and all types with all values.
Numbers ==
    { Specifier(spec, flags, width, IF "PRECISION" \in flags THEN precision ELSE 0, length, arg) :
        spec \in {"d", "x", "b"}, flags \in SUBSET Flags, width \in {0, 1, 3, 6, -5},
        precision \in {0, 4}, length \in {"l"}, arg \in {0, 1, 11, 16, 29} }
    \cup
    { Specifier(spec, flags, width, 0, length, arg) :
        spec \in {"d", "u", "x", "X", "o", "b"}, flags \in {{}, {"ZEROPAD", "PLUS"}, {"LEFT"}},
        width \in {0, 4, 12}, length \in {"hh", "h", "", "l"}, arg \in 0 .. 31 }

\* Strings, characters and pointers between plain characters.
Words3 == {<< >>, <<"a">>, <<"a", "b", "c">>}
Mixed ==
    { <<Plain("T"), Specifier("s", flags, width, IF "PRECISION" \in flags THEN 2 ELSE 0, "", word), Plain("U")>> :
        flags \in SUBSET {"LEFT", "PRECISION"}, width \in {0, 2, 4, -4}, word \in Words3 }
    \cup
    { <<Specifier("c", flags, width, 0, "", char), Plain("U"), Specifier("p", {}, 0, 0, "", 11)>> :
        flags \in SUBSET {"LEFT"}, width \in {0, 3}, char \in {"a", NUL} }

MCCalls == {<< <<d>>, 3>> : d \in Numbers} \cup {<<f, count>> : f \in Mixed, count \in 0 .. 8}

MCOperands == UNION {{<<a, n>> : a \in Words(n)} : n \in {2, 4, 6, 8}}
=============================================================================
