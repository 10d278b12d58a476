------------------------------ MODULE Library ------------------------------
(***************************************************************************)
(* The kernel's library side by side: string functions, the formatter, the *)
(* C++ runtime's table of destructors and the compiler's arithmetic.  None *)
(* calls another; unit says which of them a behaviour is about, so that    *)
(* their states add up.                                                    *)
(***************************************************************************)
EXTENDS Strings, Printf, CxxAbi, CcRuntime

CONSTANTS
    Texts,          \* contents of memory for the string functions
    Calls,          \* pairs of a format and a count for the formatter
    Operands        \* pairs of a word and its size for the arithmetic

\* Memory is bytes, and every string in it ends.
ASSUME TextsAssumption ==
    \A m \in Texts : m \in Seq(Bytes) /\ Len(m) > 0 /\ m[Len(m)] = Nul

\* Formats are directives, and a count is a size.
ASSUME CallsAssumption ==
    \A call \in Calls :
        /\ call[2] \in Nat
        /\ call[1] \in Seq(ToSet(call[1])) /\ \A d \in ToSet(call[1]) : IsDirective(d)

\* A word goes with the size it is of: sizes are even.
ASSUME OperandsAssumption ==
    \A word \in Operands :
        word[2] \in 2 .. WIDEST /\ word[2] % 2 = 0 /\ word[1] \in Words(word[2])

VARIABLE unit

libraryVars == <<unit, stringVars, printed, abiVars, operand>>

Init ==
    /\ unit \in {"strings", "printf", "abi", "runtime"}
    /\ IF unit = "strings" THEN StringsInit(Texts)
       ELSE /\ text = <<Nul>> /\ original = text
            /\ p = nullptr /\ tokens = << >> /\ delim = {}
    /\ PrintfInit
    /\ CxxAbiInit
    /\ CcRuntimeInit

Next ==
    \/ unit = "strings" /\ StringsNext /\ UNCHANGED <<unit, printed, abiVars, operand>>
    \/ unit = "printf" /\ printed.format = << >>
       /\ (\E call \in Calls : Snprintf(call[1], call[2]))
       /\ UNCHANGED <<unit, stringVars, abiVars, operand>>
    \/ unit = "abi" /\ CxxAbiNext /\ UNCHANGED <<unit, stringVars, printed, operand>>
    \/ unit = "runtime" /\ operand.a = 0
       /\ (\E word \in Operands : Operand(word[1], word[2]))
       /\ UNCHANGED <<unit, stringVars, printed, abiVars>>

Spec == Init /\ [][Next]_libraryVars
=============================================================================
