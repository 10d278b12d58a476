----------------------------- MODULE HeapBlocks -----------------------------
(***************************************************************************)
(* What the kernel heap promises to the code that calls kmalloc, kcalloc,  *)
(* krealloc and kfree (mem/heap.hpp), however it lays its memory out: a    *)
(* block appears where no other block lies, aligned; it stays where it is  *)
(* with the bytes it was asked for until its owner gives it back; and a    *)
(* step touches one block only.                                            *)
(***************************************************************************)
EXTENDS Integers

CONSTANT Alignment      \* what the address of every block is a multiple of

VARIABLE blocks         \* the blocks in use: where, and the bytes asked for

\* Two blocks are at different addresses and share no byte.
Apart(b, c) ==
    b.at # c.at /\ (b.at + b.bytes <= c.at \/ c.at + c.bytes <= b.at)

Init == blocks = {}

\* A new block, where nobody has one.
Obtain ==
    \E b \in blocks' :
        /\ \A c \in blocks : Apart(b, c)
        /\ b.at % Alignment = 0
        /\ blocks' = blocks \cup {b}

\* The owner gives a block back.
GiveBack == \E b \in blocks : blocks' = blocks \ {b}

\* The owner asks for no more than it has: the block stays, shorter.
Shorten ==
    \E b \in blocks, c \in blocks' :
        /\ c.at = b.at /\ c.bytes <= b.bytes
        /\ blocks' = (blocks \ {b}) \cup {c}

Next == Obtain \/ GiveBack \/ Shorten

BlocksSpec == Init /\ [][Next]_blocks
=============================================================================
