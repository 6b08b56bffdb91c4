--------------------------- MODULE MCCreateImage ---------------------------
(***************************************************************************)
(* create_image.py on a scaled instance: one unit of Align (4 bytes)      *)
(* stands for 1 MiB, and the floor is 3 units instead of 16, so that the  *)
(* kernel end can fall below, at and past it.  Bootloaders of 0..5 bytes  *)
(* give an empty one, an aligned one (4) and unaligned ones; kernels of   *)
(* 0..10 bytes put the kernel end (at most 8 + 10) on both sides of the   *)
(* floor of 12, aligned and not.                                           *)
(***************************************************************************)
EXTENDS CreateImage

MCAlign == 4
MCMinSize == 3 * MCAlign
MCMaxBl == MCAlign + 1
MCMaxK == 10
=============================================================================
