-------------------------- MODULE MCFrameAllocator --------------------------
(***************************************************************************)
(* Small memory for FrameAllocator: frames of 4 bytes, words of 3 bits in  *)
(* 2 bytes, so a bitmap ends inside a frame or exactly at its end.         *)
(***************************************************************************)
EXTENDS FrameAllocator

Frames(first, last, t) ==
    [base |-> first * 4, length |-> (last - first + 1) * 4, type |-> t]

MCMemoryMaps ==
    { \* bitmap of 3 words ends inside frame 2; a hole at 4 and 5
      << Frames(0, 0, "other"), Frames(1, 3, "usable"),
         Frames(4, 5, "other"), Frames(6, 8, "usable") >>,
      \* the first usable region is too small for the bitmap
      << Frames(1, 1, "usable"), Frames(2, 2, "other"), Frames(3, 8, "usable") >>,
      \* the bitmap fills frame 2 exactly
      << Frames(2, 5, "usable") >>,
      \* the last word has padding bits; "other" memory lies above
      << Frames(1, 6, "usable"), Frames(7, 9, "other") >>,
      \* no region can hold the bitmap
      << Frames(7, 7, "usable") >> }

\* Frames that are free, held, reserved or beyond the bitmap, and one address
\* inside a frame.
MCAddresses == {k * 4 : k \in 2 .. 9} \cup {13}
=============================================================================
