---------------------------- MODULE ImageLayout ----------------------------
(***************************************************************************)
(* Byte-level layout of the raw images written by tools/create_image.py   *)
(* (1 MiB kernel alignment, 16 MiB floor) and by the fallback             *)
(* create_simple_iso of tools/create_iso.py (512-byte sector alignment,   *)
(* 2 MiB floor).  Both compute the padding procedurally from f.tell();    *)
(* the operators below are that arithmetic, next to the declarative       *)
(* layout the specification asks for (smallest aligned offset, zero       *)
(* gaps), against which the code is checked.                               *)
(*                                                                         *)
(* A file's content is a sequence of byte values.  The byte j of a blob   *)
(* read from an input file is the pair <<tag, j>>, so that a misplaced    *)
(* or duplicated byte is told apart from a correct one; ZeroByte is the   *)
(* b'\x00' written as padding.                                            *)
(***************************************************************************)
EXTENDS Integers, Sequences

(* The content of an input file of n bytes, tagged with the file it came  *)
(* from.                                                                   *)
Blob(tag, n) == [j \in 1..n |-> <<tag, j>>]

ZeroByte == <<"zero", 0>>

(* Every byte value an output file can hold. *)
Byte == {"zero", "kernel", "bootloader"} \X Nat

(* b'\x00' * n *)
Zeros(n) == [j \in 1..n |-> ZeroByte]

(* padding = unit - (size % unit); written only when it is not a whole    *)
(* unit.  create_image: padding_needed < 1MiB; create_simple_iso:         *)
(* padding != sector_size.                                                 *)
PadTo(size, unit) ==
    IF unit - (size % unit) < unit THEN unit - (size % unit) ELSE 0

(* The pad written to bring a size up to the floor: min_size - size when  *)
(* size < min_size, nothing otherwise.                                     *)
PadToMin(size, min) == IF size < min THEN min - size ELSE 0

-----------------------------------------------------------------------------
(* The layout the specification states (LayoutPlan, section 3 and 4.1).  *)

(* The smallest multiple of unit that is >= n. *)
RoundUp(n, unit) ==
    CHOOSE m \in n..(n + unit) :
        /\ m % unit = 0
        /\ \A p \in n..(m - 1) : p % unit # 0

(* kernelOffset: bootloader size rounded up to the alignment unit. *)
SpecOffset(bl, unit) == RoundUp(bl, unit)

(* totalSize: kernel end rounded up to the unit, and at least the floor. *)
SpecTotal(bl, k, unit, min) ==
    LET e == RoundUp(SpecOffset(bl, unit) + k, unit)
    IN  IF e < min THEN min ELSE e

(* Byte i (1-based) of the image the specification describes: the         *)
(* bootloader at offset 0, the kernel at kernelOffset, zeros elsewhere.   *)
SpecByte(bl, k, unit, i) ==
    LET off == SpecOffset(bl, unit)
    IN  IF i <= bl THEN <<"bootloader", i>>
        ELSE IF off < i /\ i <= off + k THEN <<"kernel", i - off>>
        ELSE ZeroByte

(* A content agrees with the specified image on every byte it has: it is  *)
(* a (possibly truncated) prefix of that image.                            *)
IsImagePrefix(content, bl, k, unit) ==
    \A i \in 1..Len(content) : content[i] = SpecByte(bl, k, unit, i)

(* The specified image cut at length len: what a complete build writes   *)
(* when it stops at len bytes.                                             *)
SpecImage(len, bl, k, unit) == [i \in 1..len |-> SpecByte(bl, k, unit, i)]
=============================================================================
