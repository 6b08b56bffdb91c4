---------------------------- MODULE MCIsoChain ----------------------------
(***************************************************************************)
(* create_iso.py on a scaled instance: a sector of 2 bytes and a floor of *)
(* 3 sectors.  Bootloaders of 0..3 bytes are empty, sector-aligned or     *)
(* not; kernels of 0..4 bytes put the kernel end below, at and past the   *)
(* floor.  Every subset of the three tools, with and without `which`.     *)
(***************************************************************************)
EXTENDS IsoChain

MCSector == 2
MCIsoMinSize == 3 * MCSector
MCMaxBl == MCSector + 1
MCMaxK == 4
=============================================================================
