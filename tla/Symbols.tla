------------------------------ MODULE Symbols -------------------------------
(***************************************************************************)
(* The kernel's symbols (arch/ksyms.cpp): the map that the build links     *)
(* into .ksyms is read at boot, and panic walks the stack with it.         *)
(*                                                                         *)
(* A number in the map is a sequence of hexadecimal digits; the base and   *)
(* the number of digits are parameters.  A name is a token.                *)
(***************************************************************************)
EXTENDS Integers, Sequences, SequencesExt, FiniteSetsExt

CONSTANTS
    HexBase,        \* 16
    AddressDigits,  \* 16, an address has no more
    CountDigits,    \* 8
    MaxSymbolTrace  \* MAX_SYMBOL_TRACE, 64

ASSUME SymbolsConstants ==
    /\ HexBase \in Nat \ {0, 1}
    /\ AddressDigits \in Nat \ {0} /\ CountDigits \in 1 .. AddressDigits
    /\ MaxSymbolTrace \in Nat

VARIABLES
    symbols,        \* m_symbols: sequence of [address, name]
    symbolRange,    \* m_lowest_addr, m_highest_addr
    loaded          \* m_initialized

symbolVars == <<symbols, symbolRange, loaded>>

\* The powers of the base, and the values of a u64.
Power[n \in 0 .. AddressDigits] == IF n = 0 THEN 1 ELSE HexBase * Power[n - 1]
Modulus == Power[AddressDigits]
Addresses == 0 .. Modulus - 1
UINTPTR_MAX == Modulus - 1

SymbolsInit ==
    /\ symbols = << >>
    /\ symbolRange = [low |-> UINTPTR_MAX, high |-> 0]
    /\ loaded = FALSE

\* What nm -n may list: not too many symbols for the digits of their number, in
\* the order of their addresses.
SymbolList == {nm \in Seq([address : Addresses, name : STRING]) : Len(nm) < Power[CountDigits]}
Sorted(nm) == \A i, j \in DOMAIN nm : i <= j => nm[i].address <= nm[j].address

\* A stack: its frames point to each other or to none.
Stack == {stack \in Seq([rip : Addresses, rbp : Nat]) :
             Len(stack) >= 1 /\ \A k \in 1 .. Len(stack) : stack[k].rbp <= Len(stack)}

\* nm -n and printf %08x: what the build writes, most significant digit first.
Digits(n, count) == [i \in 1 .. count |-> (n \div Power[count - i]) % HexBase]
MapFile(nm) ==
    [count |-> Digits(Len(nm), CountDigits),
     lines |-> [i \in DOMAIN nm |-> [digits |-> Digits(nm[i].address, AddressDigits),
                                     name |-> nm[i].name]]]

\* (number << 4) | hex2num(c) in a u64, which the digits of the line before
\* leave at the top.
Shifted(number, digit) == (number * HexBase + digit) % Modulus

Number(start, digits) ==
    LET number[n \in 0 .. Len(digits)] ==
            IF n = 0 THEN start ELSE Shifted(number[n - 1], digits[n])
    IN  number[Len(digits)]

\* The loop over the lines.  symbol_address is not reset from line to line: a
\* line's digits are taken in on top of those before.
ReadLines(lines) ==
    LET symbol_address[i \in 0 .. Len(lines)] ==
            IF i = 0 THEN 0 ELSE Number(symbol_address[i - 1], lines[i].digits)
    IN  [i \in DOMAIN lines |-> [address |-> symbol_address[i], name |-> lines[i].name]]

\* load, once kmalloc has given it room for the count.
Load(file) ==
    \E read \in {ReadLines(file.lines)} :
        LET addresses == {read[i].address : i \in DOMAIN read}
        IN  /\ symbols' = SubSeq(read, 1, Number(0, file.count))
            /\ symbolRange' = [low |-> Min(addresses \cup {UINTPTR_MAX}),
                               high |-> Max(addresses \cup {0})]
            /\ loaded' = TRUE

\* m_symbols[i].address.  Behind the last there is whatever the heap holds.
AddressOf(i, behind) == IF i \in DOMAIN symbols THEN symbols[i].address ELSE behind

\* addr2symbol that takes the symbol it compared with; and as it is.  0 is NULL.
FirstAbove(address, behind) ==
    {i \in DOMAIN symbols : address < AddressOf(i + 1, behind)}
SymbolBehind(address, behind) ==
    IF address < symbolRange.low \/ address > symbolRange.high
         \/ FirstAbove(address, behind) = {} THEN 0
    ELSE Min({Min(FirstAbove(address, behind)) + 1, Len(symbols)})
SymbolOf(address, behind) ==
    IF address < symbolRange.low \/ address > symbolRange.high
         \/ FirstAbove(address, behind) = {} THEN 0
    ELSE Min(FirstAbove(address, behind))

\* backtrace: frame 0 is NULL.
\* at[frame] is the pointer when so many frames have been shown.
Frames(stack) ==
    LET at[frame \in 0 .. MaxSymbolTrace] ==
            IF frame = 0 THEN 1 ELSE IF at[frame - 1] = 0 THEN 0 ELSE stack[at[frame - 1]].rbp
        ends == {frame \in 0 .. MaxSymbolTrace - 1 : at[frame] = 0 \/ stack[at[frame]].rip = 0}
        shown == Min(ends \cup {MaxSymbolTrace})
    IN  [k \in 1 .. shown |-> stack[at[k - 1]].rip]

TraceLine(rip, behind) ==
    LET i == SymbolOf(rip, behind)
    IN  [rip |-> rip, of |-> i, name |-> IF i = 0 THEN "none" ELSE symbols[i].name]

Backtrace(stack, behind) ==
    IF ~loaded THEN << >>
    ELSE LET frames == Frames(stack)
         IN  [k \in DOMAIN frames |-> TraceLine(frames[k], behind)]

\* The symbols are those of the file, and the map starts with their number.
SymbolsAreThoseOf(nm) == loaded => symbols = nm

\* A line of the trace names the symbol its address lies in: it starts at or
\* below the address, and the next one above it.  A line has no name only for
\* an address outside all symbols, or that of the last symbol.
LineNamesItsSymbol(line, nm) ==
    LET within == {i \in DOMAIN nm : /\ nm[i].address <= line.rip
                                     /\ i < Len(nm) => line.rip < nm[i + 1].address}
        last == nm[Len(nm)].address
    IN  IF line.of # 0 THEN line.of \in within /\ line.name = nm[line.of].name
        ELSE within = {} \/ line.rip >= last
=============================================================================
