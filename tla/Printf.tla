------------------------------- MODULE Printf -------------------------------
(***************************************************************************)
(* The formatter of lib/printf.cpp, but for floating point, which the      *)
(* kernel never prints.                                                    *)
(*                                                                         *)
(* A format is a sequence of directives, each with its flags, width,       *)
(* precision, length and the argument it takes: what the code reads from   *)
(* the characters of a format string.  A character is a string of length   *)
(* one; numbers have the widths the constants give them.                   *)
(***************************************************************************)
EXTENDS Integers, SequencesExt

CONSTANTS
    Bits,           \* bits of each length: "hh", "h", "", "l"; "ll" is "l"
    NTOA_BUFFER_SIZE

ASSUME PrintfAssumption ==
    /\ Bits \in [{"hh", "h", "", "l"} -> Nat \ {0}]
    /\ NTOA_BUFFER_SIZE \in Nat

VARIABLE
    printed         \* the last call: format, count, the buffer it left, the value it returned

NUL == "\\0"
Untouched == "untouched"
DigitChars == <<"0", "1", "2", "3", "4", "5", "6", "7", "8", "9", "a", "b", "c", "d", "e", "f">>
UpperChars == <<"0", "1", "2", "3", "4", "5", "6", "7", "8", "9", "A", "B", "C", "D", "E", "F">>

Repeat(char, n) == IF n > 0 THEN [i \in 1 .. n |-> char] ELSE << >>
Take(chars, n) == SubSeq(chars, 1, Min({n, Len(chars)}))
PadTo(buf, n, char) == buf \o Repeat(char, n - Len(buf))

\* What goes into buf[] while there is room.
Room(chars, buf) == IF Len(buf) < NTOA_BUFFER_SIZE THEN buf \o chars ELSE buf

BaseOf(spec) == IF spec \in {"x", "X", "p"} THEN 16 ELSE IF spec = "o" THEN 8
                ELSE IF spec = "b" THEN 2 ELSE 10

\* The do-while loop of _ntoa_long and _ntoa_long_long, last digit first.
Digits(value, base, flags) ==
    LET chars == IF "UPPERCASE" \in flags THEN UpperChars ELSE DigitChars
        after[k \in 0 .. NTOA_BUFFER_SIZE] ==      \* k turns
            IF k = 0 THEN [buf |-> << >>, rest |-> value]
            ELSE LET s == after[k - 1]
                 IN  IF s.buf # << >> /\ s.rest = 0 THEN s
                     ELSE [buf |-> Append(s.buf, chars[(s.rest % base) + 1]),
                           rest |-> s.rest \div base]
    IN  after[NTOA_BUFFER_SIZE].buf

\* _out_rev
OutRev(buf, width, flags) ==
    LET pad == Repeat(" ", width - Len(buf))
    IN  (IF flags \cap {"LEFT", "ZEROPAD"} = {} THEN pad ELSE << >>)
        \o Reverse(buf) \o (IF "LEFT" \in flags THEN pad ELSE << >>)

\* The leading zeros of _ntoa_format; a sign takes one of them.
Zeros(buf, prec, width, flags) ==
    IF "LEFT" \in flags THEN buf
    ELSE LET precise == PadTo(buf, Min({prec, NTOA_BUFFER_SIZE}), "0")
         IN  IF "ZEROPAD" \in flags
             THEN PadTo(precise, Min({width, NTOA_BUFFER_SIZE}), "0") ELSE precise

\* 0x, 0b or 0; it takes the place of leading zeros if the number fills its width.
Hash(buf, base, prec, width, flags) ==
    LET fills == "PRECISION" \notin flags /\ Len(buf) \in {prec, width} \ {0}
        cut == IF ~fills THEN 0 ELSE IF Len(buf) > 1 /\ base = 16 THEN 2 ELSE 1
        letter == IF base = 16 THEN <<IF "UPPERCASE" \in flags THEN "X" ELSE "x">>
                  ELSE IF base = 2 THEN <<"b">> ELSE << >>
    IN  Room(<<"0">>, Room(letter, SubSeq(buf, 1, Len(buf) - cut)))

Sign(negative, flags) ==
    IF negative THEN <<"-">> ELSE IF "PLUS" \in flags THEN <<"+">>
    ELSE IF "SPACE" \in flags THEN <<" ">> ELSE << >>

\* _ntoa_format, the sign left out of the width or not.
SignOnTop(width, signed, flags) == width
SignWithin(width, signed, flags) ==
    IF width > 0 /\ "LEFT" \notin flags /\ "ZEROPAD" \in flags /\ signed THEN width - 1 ELSE width

NtoaFormat(buf, negative, base, prec, width, flags) ==
    LET w == SignWithin(width, negative \/ flags \cap {"PLUS", "SPACE"} # {}, flags)
        padded == Zeros(buf, prec, w, flags)
        hashed == IF "HASH" \in flags THEN Hash(padded, base, prec, w, flags) ELSE padded
    IN  OutRev(Room(Sign(negative, flags), hashed), w, flags)

\* _ntoa_long and _ntoa_long_long
Ntoa(value, negative, base, prec, width, flags) ==
    NtoaFormat(IF "PRECISION" \in flags /\ value = 0 THEN << >> ELSE Digits(value, base, flags),
               negative, base, prec, width, IF value = 0 THEN flags \ {"HASH"} ELSE flags)

\* An argument as its type takes it.
Values(bits) == LET twice[k \in 0 .. bits] == IF k = 0 THEN 1 ELSE 2 * twice[k - 1] IN twice[bits]
Unsigned(arg, bits) == arg % Values(bits)
Signed(arg, bits) ==
    IF Unsigned(arg, bits) < Values(bits - 1) THEN Unsigned(arg, bits)
    ELSE Unsigned(arg, bits) - Values(bits)

\* The flags as the specifier leaves them.
FlagsOf(d) ==
    ((d.flags \cup (IF d.spec = "X" THEN {"UPPERCASE"} ELSE {}))
        \ (IF BaseOf(d.spec) = 10 THEN {"HASH"} ELSE {}))
        \ ((IF d.spec # "d" THEN {"PLUS", "SPACE"} ELSE {})
           \cup (IF "PRECISION" \in d.flags THEN {"ZEROPAD"} ELSE {}))

Integer(d) ==
    IF d.spec = "d"
    THEN LET value == Signed(d.arg, Bits[d.length])
         IN  Ntoa(IF value > 0 THEN value ELSE -value, value < 0, 10, d.precision, d.width, FlagsOf(d))
    ELSE Ntoa(Unsigned(d.arg, Bits[d.length]), FALSE, BaseOf(d.spec), d.precision, d.width, FlagsOf(d))

Padded(chars, length, width, flags) ==
    LET pad == Repeat(" ", width - length)
    IN  IF "LEFT" \in flags THEN chars \o pad ELSE pad \o chars

String(d) ==
    LET chars == IF "PRECISION" \in d.flags THEN Take(d.arg, d.precision) ELSE d.arg
    IN  Padded(chars, Len(chars), d.width, d.flags)

\* sizeof(void*) * 2 digits
Pointer(d) ==
    Ntoa(Unsigned(d.arg, Bits["l"]), FALSE, 16, d.precision, (Bits["l"] + 3) \div 4,
         d.flags \cup {"ZEROPAD", "UPPERCASE"})

\* A width of '*' that is negative asks for LEFT; a negative precision is 0.
Starred(d) ==
    [d EXCEPT !.flags = IF d.width < 0 THEN @ \cup {"LEFT"} ELSE @,
              !.width = IF @ < 0 THEN -@ ELSE @,
              !.precision = IF @ > 0 THEN @ ELSE 0]

Directive(given) ==
    LET d == Starred(given)
    IN  IF d.spec \in {"d", "u", "x", "X", "o", "b"} THEN Integer(d)
        ELSE IF d.spec = "c" THEN Padded(<<d.arg>>, 1, d.width, d.flags)
        ELSE IF d.spec = "s" THEN String(d)
        ELSE IF d.spec = "p" THEN Pointer(d)
        ELSE <<d.arg>>      \* '%', any other letter, or a plain character

\* _out_buffer, with what it lets through when it is one off; offsets count from 0.
LetsOneMore(idx, maxlen) == idx <= maxlen
Fits(idx, maxlen) == idx < maxlen
OutBuffer(buffer, char, idx, maxlen) ==
    IF Fits(idx, maxlen) THEN [buffer EXCEPT ![idx] = char] ELSE buffer

\* maxlen - 1 of a count of 0 is the largest size_t: nothing is written then.
Terminator(length, maxlen) ==
    IF length < maxlen THEN length ELSE IF maxlen = 0 THEN maxlen ELSE maxlen - 1

\* The characters _vsnprintf puts out, one directive after the other.
Outs(format) ==
    LET upto[k \in 0 .. Len(format)] ==
            IF k = 0 THEN << >> ELSE upto[k - 1] \o Directive(format[k])
    IN  upto[Len(format)]

\* _vsnprintf into a buffer of the caller's.
Vsnprintf(buffer, maxlen, format) ==
    LET chars == Outs(format)
        written[k \in 0 .. Len(chars)] ==
            IF k = 0 THEN buffer ELSE OutBuffer(written[k - 1], chars[k], k - 1, maxlen)
    IN  [buffer |-> OutBuffer(written[Len(chars)], NUL, Terminator(Len(chars), maxlen), maxlen),
         returned |-> Len(chars)]

\* _out_char and _out_fct, behind printf and fctprintf: NUL is left out.
Fctprintf(format) ==
    LET chars == Outs(format)
        sent[k \in 0 .. Len(chars)] ==
            IF k = 0 THEN << >>
            ELSE IF chars[k] = NUL THEN sent[k - 1] ELSE Append(sent[k - 1], chars[k])
    IN  sent[Len(chars)]

\* What a format may ask for: the argument goes with the letter, a format has no NUL
\* in it and a string none before its end, and without '.' the precision is 0.
IsDirective(d) ==
    /\ d = [spec |-> d.spec, flags |-> d.flags, width |-> d.width, precision |-> d.precision,
            length |-> d.length, arg |-> d.arg]
    /\ d.flags \subseteq {"ZEROPAD", "LEFT", "PLUS", "SPACE", "HASH", "PRECISION"}
    /\ d.width \in Int /\ d.precision \in Int /\ d.length \in {"hh", "h", "", "l"}
    /\ "PRECISION" \notin d.flags => d.precision = 0
    /\ IF d.spec \in {"d", "u", "x", "X", "o", "b", "p"} THEN d.arg \in Int
       ELSE IF d.spec = "s" THEN d.arg \in Seq(ToSet(d.arg)) /\ NUL \notin ToSet(d.arg)
       ELSE d.arg = NUL => d.spec = "c"

----------------------------------------------------------------------------
PrintfInit == printed = [format |-> << >>, count |-> 0, buffer |-> << >>, returned |-> 0]

\* snprintf into a buffer that is larger than it says by two.
Snprintf(format, count) ==
    LET result == Vsnprintf([i \in 0 .. count + 1 |-> Untouched], count, format)
    IN  printed' = [format |-> format, count |-> count,
                    buffer |-> result.buffer, returned |-> result.returned]

----------------------------------------------------------------------------
\* printf.cpp:136-142 and 856-860: whatever the count, snprintf writes a prefix
\* of what printf would print and one terminator, stays inside the count, and
\* returns the length of the whole.  NULs printed by %c are set aside.
TruncatesOnly ==
    LET kept == Min({printed.returned, printed.count - 1})
        whole == Fctprintf(printed.format)
        clean == \A d \in ToSet(printed.format) : d.spec = "c" => d.arg # NUL
    IN  \A i \in DOMAIN printed.buffer :
            IF printed.count = 0 \/ i > kept THEN printed.buffer[i] = Untouched
            ELSE IF i = kept THEN printed.buffer[i] = NUL
            ELSE clean => printed.returned = Len(whole) /\ printed.buffer[i] = whole[i + 1]

----------------------------------------------------------------------------
\* What characters say to a reader: blanks, a sign, the prefix of the base, digits
\* and blanks, each of which may be missing.
IsDigit(char, k) == char \in {DigitChars[k + 1], UpperChars[k + 1]}
Reads(digits, base) ==
    LET upto[k \in 0 .. Len(digits)] ==
            IF k = 0 THEN 0
            ELSE upto[k - 1] * base + (CHOOSE v \in 0 .. base - 1 : IsDigit(digits[k], v))
    IN  upto[Len(digits)]
PrefixesOf(base) ==
    {<< >>} \cup (IF base = 16 THEN {<<"0", "x">>, <<"0", "X">>} ELSE {})
            \cup (IF base = 2 THEN {<<"0", "b">>} ELSE {})
SaysNumber(chars, base, number) ==
    \E before, after \in 0 .. Len(chars), sign \in {<< >>, <<"-">>, <<"+">>}, prefix \in PrefixesOf(base) :
        LET digits == SubSeq(chars, before + Len(sign) + Len(prefix) + 1, Len(chars) - after)
        IN  /\ chars = Repeat(" ", before) \o sign \o prefix \o digits \o Repeat(" ", after)
            /\ \A i \in DOMAIN digits : \E v \in 0 .. base - 1 : IsDigit(digits[i], v)
            /\ number = IF sign = <<"-">> THEN -Reads(digits, base) ELSE Reads(digits, base)

\* The number a directive is for, in its type, and how many digits it has.
NumberOf(d) ==
    IF d.spec = "d" THEN Signed(d.arg, Bits[d.length]) ELSE Unsigned(d.arg, Bits[d.length])
DigitsOf(d) ==
    LET number == NumberOf(d)
    IN  Len(Digits(IF number > 0 THEN number ELSE -number, BaseOf(d.spec), {}))

\* What the comment at printf.cpp:46 asks of the buffer, and what # asks of the
\* width: the prefix is made room for even where no zero stands.
BufferIsBigEnough(d) ==
    Max({d.width, -d.width, d.precision, DigitsOf(d)}) + 2 <= NTOA_BUFFER_SIZE
PrefixHasRoom(d) ==
    ("HASH" \in d.flags /\ "PRECISION" \notin d.flags) =>
        IF "ZEROPAD" \in d.flags /\ d.width > DigitsOf(d) THEN d.width >= DigitsOf(d) + 2
        ELSE Max({d.width, -d.width}) # DigitsOf(d)

\* printf.cpp:687-760: a number printed whole reads back as itself in its type,
\* and is no wider than asked unless it needs to be: whatever the directive says.
NumbersReadBack ==
    \A d \in ToSet(printed.format) :
        (d.spec \in {"d", "u", "x", "X", "o", "b"} /\ BufferIsBigEnough(d) /\ PrefixHasRoom(d)) =>
            LET chars == Directive(d)
            IN  /\ SaysNumber(chars, BaseOf(d.spec), NumberOf(d))
                /\ d.flags \cap {"HASH", "PRECISION"} = {} =>
                    Len(chars) = Max({d.width, -d.width, Len(Directive([d EXCEPT !.width = 0]))})
=============================================================================
