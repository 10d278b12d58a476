------------------------------- MODULE MCHeap -------------------------------
(***************************************************************************)
(* A small heap: headers, alignment and notes a quarter of the real sizes, *)
(* majors of one page of 64 bytes and three pages in all.  A major holds   *)
(* up to three small blocks with gaps between; a request of 60 bytes needs *)
(* two pages.                                                              *)
(***************************************************************************)
EXTENDS Heap
=============================================================================
