------------------------------ MODULE MCBoard ------------------------------
(* The board in units of 32 blocks (1 KB), each buffer rounded up: 40 for    *)
(* SRAMIN, 18 for memp_memory, 11 for the heap, and frames of one to three.  *)
EXTENDS Board

MCSize == [memp |-> 18, heap |-> 11, remote |-> 1, tbuf |-> 1, reply |-> 1, rx |-> 2]
MCFrames == {1, 2, 3}

(* The sizes of the build in blocks: memp_memory 18259 bytes, the heap 10268,*)
(* the buffers 100, 200, 16 and 1600, a frame at most 1514.                  *)
ASSUME BuildFits ==
  Fits(1280, [memp |-> 571, heap |-> 321, remote |-> 4, tbuf |-> 7,
              reply |-> 1, rx |-> 50], 2 .. 48)
=============================================================================
