---------------------------- MODULE MCImageTest ----------------------------
(***************************************************************************)
(* The image check of test_phase5.py against create_image.py on the      *)
(* instance of MCCreateImage: a unit of 4 bytes for 1 MiB, a floor of 3   *)
(* units, bootloaders of 0..5 and kernels of 0..10 bytes.                 *)
(***************************************************************************)
EXTENDS ImageTest

MCAlign == 4
MCMinSize == 3 * MCAlign
MCMaxBl == MCAlign + 1
MCMaxK == 10
=============================================================================
