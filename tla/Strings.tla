------------------------------ MODULE Strings ------------------------------
(***************************************************************************)
(* The memory and string functions of lib/string.cpp.                      *)
(*                                                                         *)
(* Memory is a sequence of bytes and a pointer an index into it; 0 is both *)
(* the null pointer and the terminating byte.  A loop that walks a string  *)
(* up to some byte is the search for the first such byte.  The functions   *)
(* that write return the memory they leave.                                *)
(***************************************************************************)
EXTENDS Integers, SequencesExt

CONSTANT
    SCHAR_MAX       \* the largest char; a byte may be twice that and one more

ASSUME SCHAR_MAXAssumption == SCHAR_MAX \in Nat \ {0}

VARIABLES
    text,           \* the memory
    original,       \* history: the memory before the first call of strtok
    p,              \* strtok: where it goes on, a static variable
    delim,          \* the bytes strtok is called with
    tokens          \* history: what strtok returned since it was given a string

stringVars == <<text, original, p, delim, tokens>>

Bytes == 0 .. 2 * SCHAR_MAX + 1
Nul == 0
nullptr == 0
Char(byte) == IF byte <= SCHAR_MAX THEN byte ELSE byte - 2 * (SCHAR_MAX + 1)

\* The first place from "from" on that holds one of the bytes a loop stops at.
First(m, from, stops) ==
    CHOOSE i \in from .. Len(m) : m[i] \in stops /\ \A j \in from .. i - 1 : m[j] \notin stops

\* Byte by byte, each copied before the next is read.
Copy(m, dest, src, offsets) ==
    LET after[k \in 0 .. Len(offsets)] ==
            IF k = 0 THEN m
            ELSE LET t == after[k - 1]
                 IN  [t EXCEPT ![dest + offsets[k]] = t[src + offsets[k]]]
    IN  after[Len(offsets)]
Upwards(n) == [k \in 1 .. n |-> k - 1]
Downwards(n) == [k \in 1 .. n |-> n - k]

memcpy(m, dest, src, n) == Copy(m, dest, src, Upwards(n))

memset(m, s, c, n) == [i \in DOMAIN m |-> IF i \in s .. s + n - 1 THEN c ELSE m[i]]

\* memmove with its directions swapped; and as it is.
MovesAgainst(m, dest, src, n) ==
    IF src > dest THEN Copy(m, dest, src, Downwards(n)) ELSE Copy(m, dest, src, Upwards(n))
memmove(m, dest, src, n) ==
    IF src > dest THEN Copy(m, dest, src, Upwards(n))
    ELSE IF src < dest THEN Copy(m, dest, src, Downwards(n))
    ELSE m

\* How far two pieces agree, and nothing behind that is read.
Agreement(m, s1, s2, n) ==
    CHOOSE i \in 0 .. n : /\ i = n \/ m[s1 + i] # m[s2 + i]
                         /\ \A j \in 0 .. i - 1 : m[s1 + j] = m[s2 + j]

memcmp(m, s1, s2, n) ==
    LET i == Agreement(m, s1, s2, n)
    IN  IF i = n THEN 0 ELSE IF m[s1 + i] < m[s2 + i] THEN -1 ELSE 1

strlen(m, s) == First(m, s, {Nul}) - s

strcmp(m, s1, s2) ==
    LET i == Agreement(m, s1, s2, strlen(m, s1)) IN m[s1 + i] - m[s2 + i]

\* Compares chars where strcmp compares bytes, and does not stop at the end of
\* equal strings.
strncmp(m, s1, s2, n) ==
    LET i == Agreement(m, s1, s2, n)
    IN  IF i = n THEN 0 ELSE Char(m[s1 + i]) - Char(m[s2 + i])

strcpy(m, d, s) ==
    IF d = nullptr THEN m
    ELSE [Copy(m, d, s, Upwards(strlen(m, s))) EXCEPT ![d + strlen(m, s)] = Nul]

\* The terminator comes on top of the n bytes.
strncpy(m, d, s, n) ==
    IF d = nullptr THEN m
    ELSE LET copied == Min({n, strlen(m, s)})
         IN  [Copy(m, d, s, Upwards(copied)) EXCEPT ![d + copied] = Nul]

strchr(m, s, c) ==
    LET i == First(m, s, {c, Nul})
    IN  IF m[i] = c THEN i ELSE nullptr

\* The second string of these two, always searched with strchr for a byte that
\* is not NUL, is the set of its bytes.
strspn(m, s1, accept) == First(m, s1, {Nul} \cup (Bytes \ accept)) - s1
strcspn(m, s1, reject) == First(m, s1, {Nul} \cup reject) - s1

strstr(m, s1, s2) ==
    LET n == strlen(m, s2)
        end == s1 + strlen(m, s1)
        i == CHOOSE i \in s1 .. end : /\ i = end \/ memcmp(m, i, s2, n) = 0
                                     /\ \A j \in s1 .. i - 1 : memcmp(m, j, s2, n) # 0
    IN  IF i = end THEN nullptr ELSE i

\* What strtok leaves for the next call: the byte behind the delimiter; or the
\* delimiter's own place.
Delimiter(end) == end
Behind(end) == end + 1

strtok(s) ==
    LET from == IF s = nullptr THEN p ELSE s
        start == from + strspn(text, from, delim)
        end == start + strcspn(text, start, delim)
    IN  IF from = nullptr \/ text[start] = Nul
        THEN /\ p' = nullptr
             /\ UNCHANGED <<text, tokens>>
        ELSE /\ tokens' = Append(IF s = nullptr THEN tokens ELSE << >>, start)
             /\ IF text[end] # Nul
                THEN text' = [text EXCEPT ![end] = Nul] /\ p' = Behind(end)
                ELSE p' = nullptr /\ UNCHANGED text

----------------------------------------------------------------------------
\* A caller of strtok: a string, then NULL until nothing comes.
StringsInit(texts) ==
    /\ text \in texts /\ original = text
    /\ p = nullptr /\ tokens = << >>
    /\ delim \in SUBSET (Bytes \ {Nul})

FirstToken == tokens = << >> /\ strtok(1) /\ UNCHANGED <<original, delim>>
NextToken == tokens # << >> /\ p # nullptr /\ strtok(nullptr) /\ UNCHANGED <<original, delim>>

StringsNext == FirstToken \/ NextToken

----------------------------------------------------------------------------
StringAt(m, s) == SubSeq(m, s, s + strlen(m, s) - 1)
Upto(s, n) == SubSeq(s, 1, Min({n, Len(s)}))

Overlap(d, s, n) == d < s + n /\ s < d + n
Pieces(m) ==
    {x \in (DOMAIN m) \X (DOMAIN m) \X (0 .. Len(m)) :
        x[1] + x[3] <= Len(m) + 1 /\ x[2] + x[3] <= Len(m) + 1}

\* string.cpp:32: whichever way the pieces overlap, memmove leaves at dest what
\* was at src and nothing else changed, and so does memcpy as long as it never
\* reads what it wrote.  strcpy and strncpy end what they copy.
CopiesAgree(m) ==
    /\ \A x \in Pieces(m) :
        LET d == x[1]  s == x[2]  n == x[3]
            moved == [i \in DOMAIN m |-> IF i \in d .. d + n - 1 THEN m[i - d + s] ELSE m[i]]
        IN  /\ memmove(m, d, s, n) = moved
            /\ (~Overlap(d, s, n) \/ d <= s) => memcpy(m, d, s, n) = moved
            /\ memcmp(memmove(m, d, s, n), d, s, n) = 0 \/ Overlap(d, s, n)
    /\ \A d, s \in DOMAIN m, n \in 0 .. Len(m) :
        LET length == strlen(m, s)
        IN  (d + length <= Len(m) /\ ~Overlap(d, s, length + 1)) =>
                /\ StringAt(strcpy(m, d, s), d) = StringAt(m, s)
                /\ StringAt(strncpy(m, d, s, n), d) = Upto(StringAt(m, s), n)

\* string.cpp:72 and 83: strcmp tells equal from different, changes sign with its
\* arguments and puts a string before its continuations; strncmp tells equal from
\* different up to the end of the shorter, its sign is left open; strchr, and
\* strstr in a string that is not empty, find the first of what they look for;
\* strcspn goes on where strspn stops.
SearchesAgree(m) ==
    \A s1, s2 \in DOMAIN m :
        LET a == StringAt(m, s1)
            b == StringAt(m, s2)
        IN  /\ (strcmp(m, s1, s2) = 0) = (a = b)
            /\ strcmp(m, s1, s2) = - strcmp(m, s2, s1)
            /\ IsStrictPrefix(a, b) => strcmp(m, s1, s2) < 0
            /\ \A n \in 0 .. Min({Len(a), Len(b)}) + 1 :
                (strncmp(m, s1, s2, n) = 0) = (Upto(a, n) = Upto(b, n))
            /\ \A c \in Bytes :
                LET at == strchr(m, s1, c)
                IN  IF c = Nul THEN at = s1 + Len(a)
                    ELSE IF c \in ToSet(a) THEN at \in DOMAIN m /\ at - s1 = strcspn(m, s1, {c})
                    ELSE at = nullptr
            /\ a # << >> =>
                LET found == {i \in s1 .. s1 + Len(a) - 1 : IsPrefix(b, StringAt(m, i))}
                IN  strstr(m, s1, s2) = IF found = {} THEN nullptr ELSE Min(found)
            /\ LET k == strspn(m, s1, ToSet(b))
               IN  k < Len(a) => strcspn(m, s1 + k, ToSet(b)) > 0

StringsAgree == CopiesAgree(text) /\ SearchesAgree(text)

\* Where the fields of the string between delimiters begin.
Inside(i) == i \in 1 .. strlen(original, 1) /\ original[i] \notin delim
Starts == {i \in 1 .. strlen(original, 1) : Inside(i) /\ ~Inside(i - 1)}
EndOf(i) == First(original, i, delim \cup {Nul})

\* string.cpp:174: strtok has returned every field of the string up to where it
\* goes on, and every field at all when it has returned NULL, in order, each once,
\* each now terminated.
TokensAreFields ==
    tokens # << >> =>
        /\ Range(tokens) = {i \in Starts : p = nullptr \/ i < p}
        /\ \A k \in 1 .. Len(tokens) - 1 : tokens[k] < tokens[k + 1]
        /\ \A i \in Range(tokens) : StringAt(text, i) = SubSeq(original, i, EndOf(i) - 1)
=============================================================================
