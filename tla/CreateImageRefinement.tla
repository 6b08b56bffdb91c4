----------------------- MODULE CreateImageRefinement -----------------------
(***************************************************************************)
(* Proof that create_image.py implements the writer contract of spec.md  *)
(* sections 4.2 and 5 (ImageWriter) under the mapping Writer of           *)
(* CreateImage, for every alignment unit, floor and input size: opening   *)
(* the output is the one Overwrite, every completed write that adds bytes *)
(* is an Extend, every error is a Fail, the close that returns True is    *)
(* the Succeed, and every other step leaves the contract's state alone.   *)
(*                                                                         *)
(* Besides IInv, the proof needs to know that the earlier file is still   *)
(* at the output path until the open (BeforeOpen), so that the open is    *)
(* an Overwrite, and that every length the writes reach is within the     *)
(* image, so that a file is one of the image's prefixes (PrefixOfTarget). *)
(***************************************************************************)
EXTENDS CreateImageProofs

(* The steps before open(output_path, 'wb'). *)
BeforeWriting == {"validate", "mkdir", "read_kernel", "read_bootloader", "open"}

BeforeOpen == pc \in BeforeWriting => out \in {NoFile, StaleFile}

WInv == IInv /\ BeforeOpen

USE AlignAssumption, MinSizeAssumption, BoundsAssumption, MarkerAssumption

-----------------------------------------------------------------------------
(* The prefixes of the image. *)

(* A content that agrees with the layout on every byte and is no longer  *)
(* than L is one of the prefixes of the image of length L.               *)
LEMMA PrefixOfTarget ==
    ASSUME NEW s \in Seq(Byte), NEW L \in Nat, NEW bl, NEW k, NEW u,
           IsImagePrefix(s, bl, k, u), Len(s) <= L
    PROVE  s \in Writer!Prefixes(SpecImage(L, bl, k, u))
BY PrefixOfImage DEF Writer!Prefixes

(* The lengths the writes reach, in order, up to the image length. *)
LEMMA LengthsWithin ==
    ASSUME TypeOK
    PROVE  /\ ImageLen \in Nat
           /\ blSize <= SpecOffset(blSize, Align)
           /\ SpecOffset(blSize, Align) \in Nat
           /\ SpecOffset(blSize, Align) + kSize <= ImageLen
<1>1. blSize \in Nat /\ kSize \in Nat
  BY DEF TypeOK
<1>2. SpecOffset(blSize, Align) \in Nat /\ blSize <= SpecOffset(blSize, Align)
  BY <1>1, OffsetAtLeastBl
<1>3. ImageLen = IF SpecOffset(blSize, Align) + kSize < MinSize THEN MinSize
                 ELSE SpecOffset(blSize, Align) + kSize
  BY DEF ImageLen
<1>4. QED
  BY <1>1, <1>2, <1>3, SMT

-----------------------------------------------------------------------------
(* The invariant. *)

LEMMA InitWInv == Init => WInv
BY InitIInv DEF Init, WInv, BeforeOpen

LEMMA NextWInv == WInv /\ [Next]_vars => WInv'
<1> SUFFICES ASSUME WInv, [Next]_vars PROVE WInv'
  OBVIOUS
<1>1. IInv'
  BY NextIInv DEF WInv
<1>2. BeforeOpen'
  <2>1. CASE Validate \/ MakeOutputDir \/ ReadKernel \/ ReadBootloader
               \/ RemoveInput \/ UNCHANGED vars
    BY <2>1 DEF Validate, MakeOutputDir, ReadKernel, ReadBootloader,
                ReadInput, Stop, RemoveInput, vars, WInv, BeforeOpen,
                BeforeWriting
  <2>2. CASE OpenOutput \/ WriteBootloader \/ PadKernel \/ WriteKernel
               \/ PadMin \/ Close
    <3>1. pc' \notin BeforeWriting
      BY <2>2 DEF OpenOutput, WriteBootloader, PadKernel, WriteKernel,
                  PadMin, Write, Close, Stop, BeforeWriting
    <3>2. QED
      BY <3>1 DEF BeforeOpen
  <2>3. QED
    BY <2>1, <2>2 DEF Next
<1>3. QED
  BY <1>1, <1>2 DEF WInv

-----------------------------------------------------------------------------
(* The steps, mapped. *)

(* The inputs do not change the image being written. *)
LEMMA TargetKept ==
    ASSUME UNCHANGED <<blSize, kSize>>
    PROVE  WriterTarget' = WriterTarget
BY DEF WriterTarget, ImageLen

(* An error before anything is written, or after, with the file left as *)
(* it is.                                                                  *)
LEMMA StopRefines ==
    ASSUME outcome = "running", outcome' \in {"failure", "crash"},
           UNCHANGED <<out, blSize, kSize>>
    PROVE  Writer!Fail
BY TargetKept DEF Writer!Fail

(* A step that neither writes nor ends the process. *)
LEMMA QuietStutter ==
    ASSUME UNCHANGED <<out, outcome, blSize, kSize>>
    PROVE  UNCHANGED Writer!wvars
BY TargetKept DEF Writer!wvars

(* A write whose bytes end within the image: an Extend, a stutter when  *)
(* there is nothing to write, or a Fail leaving a prefix of the image.    *)
(* That the bytes are the image's is IInv after the step.                 *)
LEMMA WriteRefines ==
    ASSUME IInv, IInv', NEW from, NEW data \in Seq(Byte), NEW to,
           outcome = "running", out \in Seq(Byte),
           Len(out) + Len(data) <= ImageLen,
           Write(from, data, to)
    PROVE  [Writer!Next]_Writer!wvars
<1>0. /\ ImageLen \in Nat /\ WriterTarget = SpecImage(ImageLen, blSize, kSize, Align)
      /\ out \o data \in Seq(Byte)
      /\ Len(out \o data) = Len(out) + Len(data)
      /\ IsImagePrefix(out, blSize, kSize, Align)
  BY LengthsWithin, ConcatLen DEF IInv, WriteProgress, WriterTarget
<1>1. UNCHANGED <<blSize, kSize>> /\ WriterTarget' = WriterTarget
      /\ ImageLen' = ImageLen
  BY TargetKept DEF Write, ImageLen
<1>2. out \in Writer!Prefixes(WriterTarget)
  BY <1>0, PrefixOfTarget, SMT
<1>3. ASSUME out' \in Seq(Byte), Len(out') <= ImageLen
      PROVE  out' \in Writer!Prefixes(WriterTarget)
  <2>1. IsImagePrefix(out', blSize, kSize, Align)
    BY <1>1, <1>3 DEF IInv, WriteProgress
  <2>2. QED
    BY <1>0, <1>3, <2>1, PrefixOfTarget
<1>4. CASE out' = out \o data /\ pc' = to /\ UNCHANGED outcome
  <2>1. CASE Len(data) = 0
    <3>1. out' = out
      BY <1>4, <2>1, SMT
    <3>2. QED
      BY <1>1, <1>4, <3>1 DEF Writer!wvars
  <2>2. CASE Len(data) > 0
    <3>1. out' \in Seq(Byte) /\ Len(out') <= ImageLen /\ Len(out) < Len(out')
      BY <1>0, <1>4, <2>2, SMT
    <3>2. QED
      BY <1>1, <1>2, <1>3, <1>4, <3>1 DEF Writer!Extend, Writer!Next
  <2>3. QED
    BY <2>1, <2>2, SMT
<1>5. CASE /\ Len(data) > 0
           /\ \E n \in 0..(Len(out) + Len(data) - 1) :
                 out' = SubSeq(out \o data, 1, n)
           /\ Stop("failure")
  <2>1. PICK n \in 0..(Len(out) + Len(data) - 1) :
            out' = SubSeq(out \o data, 1, n)
    BY <1>5
  <2>2. n \in 0..Len(out \o data) /\ n <= ImageLen
    BY <1>0, <2>1, SMT
  <2>3. out' \in Seq(Byte) /\ Len(out') <= ImageLen
    BY <1>0, <2>1, <2>2, SubSeqProperties
  <2>4. QED
    BY <1>1, <1>2, <1>3, <1>5, <2>3 DEF Stop, Writer!Fail, Writer!Next
<1>6. QED
  BY <1>4, <1>5 DEF Write
(* The four writes of create_arm64_image, each ending within the image  *)
(* at the length WriteProgress gives its successor step.                  *)
LEMMA WritesRefine ==
    ASSUME IInv, IInv', WriteBootloader \/ PadKernel \/ WriteKernel \/ PadMin
    PROVE  [Writer!Next]_Writer!wvars
<1>0. /\ blSize \in Nat /\ kSize \in Nat
      /\ SpecOffset(blSize, Align) = blSize + PadTo(blSize, Align)
      /\ PadTo(blSize, Align) \in Nat
      /\ ImageLen \in Nat
      /\ SpecOffset(blSize, Align) + kSize <= ImageLen
      /\ blSize <= SpecOffset(blSize, Align)
  BY OffsetFacts, LengthsWithin DEF IInv
<1>1. ASSUME NEW from \in Writing, pc = from
      PROVE  outcome = "running" /\ out \in Seq(Byte)
  BY <1>1 DEF IInv, WriteProgress, Writing
<1>2. CASE WriteBootloader
  <2>1. Blob("bootloader", blSize) \in Seq(Byte)
        /\ Len(Blob("bootloader", blSize)) = blSize
    BY <1>0, BlobType
  <2>2. pc = "write_bl" /\ Len(out) = 0
    BY <1>2 DEF WriteBootloader, Write, IInv, WriteProgress
  <2>3. outcome = "running" /\ out \in Seq(Byte)
    BY <1>1, <2>2 DEF Writing
  <2>4. Len(out) + Len(Blob("bootloader", blSize)) <= ImageLen
    BY <1>0, <2>1, <2>2
  <2>5. QED
    BY <1>2, <2>1, <2>3, <2>4, WriteRefines DEF WriteBootloader
<1>3. CASE PadKernel
  <2>1. Zeros(PadTo(blSize, Align)) \in Seq(Byte)
        /\ Len(Zeros(PadTo(blSize, Align))) = PadTo(blSize, Align)
    BY <1>0, ZerosType
  <2>2. pc = "pad_kernel" /\ Len(out) = blSize
    BY <1>3 DEF PadKernel, Write, IInv, WriteProgress
  <2>3. outcome = "running" /\ out \in Seq(Byte)
    BY <1>1, <2>2 DEF Writing
  <2>4. Len(out) + Len(Zeros(PadTo(blSize, Align))) <= ImageLen
    BY <1>0, <2>1, <2>2
  <2>5. QED
    BY <1>3, <2>1, <2>3, <2>4, WriteRefines DEF PadKernel
<1>4. CASE WriteKernel
  <2>1. Blob("kernel", kSize) \in Seq(Byte)
        /\ Len(Blob("kernel", kSize)) = kSize
    BY <1>0, BlobType
  <2>2. pc = "write_kernel" /\ Len(out) = SpecOffset(blSize, Align)
    BY <1>4 DEF WriteKernel, Write, IInv, WriteProgress
  <2>3. outcome = "running" /\ out \in Seq(Byte)
    BY <1>1, <2>2 DEF Writing
  <2>4. Len(out) + Len(Blob("kernel", kSize)) <= ImageLen
    BY <1>0, <2>1, <2>2
  <2>5. QED
    BY <1>4, <2>1, <2>3, <2>4, WriteRefines DEF WriteKernel
<1>5. CASE PadMin
  <2> DEFINE kEnd == SpecOffset(blSize, Align) + kSize
  <2>1. pc = "pad_min" /\ Len(out) = kEnd
    BY <1>5 DEF PadMin, Write, IInv, WriteProgress
  <2>2. PadToMin(Len(out), MinSize) = IF kEnd < MinSize THEN MinSize - kEnd ELSE 0
    BY <2>1 DEF PadToMin
  <2>3. ImageLen = IF kEnd < MinSize THEN MinSize ELSE kEnd
    BY DEF ImageLen
  <2>4. PadToMin(Len(out), MinSize) \in Nat
        /\ Len(out) + PadToMin(Len(out), MinSize) <= ImageLen
    <3>1. kEnd \in Nat /\ MinSize \in Nat
      BY <1>0
    <3>2. CASE kEnd < MinSize
      <4>1. PadToMin(Len(out), MinSize) = MinSize - kEnd /\ ImageLen = MinSize
        BY <2>2, <2>3, <3>2
      <4>2. QED
        BY <2>1, <3>1, <3>2, <4>1, SMT
    <3>3. CASE ~(kEnd < MinSize)
      <4>1. PadToMin(Len(out), MinSize) = 0 /\ ImageLen = kEnd
        BY <2>2, <2>3, <3>3
      <4>2. QED
        BY <2>1, <3>1, <4>1, SMT
    <3>4. QED
      BY <3>2, <3>3
  <2>5. Zeros(PadToMin(Len(out), MinSize)) \in Seq(Byte)
        /\ Len(Zeros(PadToMin(Len(out), MinSize))) = PadToMin(Len(out), MinSize)
    BY <2>4, ZerosType
  <2>6. outcome = "running" /\ out \in Seq(Byte)
    BY <1>1, <2>1 DEF Writing
  <2>7. QED
    BY <1>5, <2>4, <2>5, <2>6, WriteRefines DEF PadMin
<1>6. QED
  BY <1>2, <1>3, <1>4, <1>5
(* open(output_path, 'wb') replaces what was at the path: an Overwrite, *)
(* or an IOError that leaves it as it was.                                 *)
LEMMA OpenRefines ==
    ASSUME WInv, OpenOutput
    PROVE  [Writer!Next]_Writer!wvars
<1>1. outcome = "running" /\ out \in {NoFile, StaleFile}
  BY DEF OpenOutput, WInv, IInv, BeforeOpen, BeforeWriting
<1>2. CASE out' = <<>> /\ pc' = "write_bl" /\ UNCHANGED outcome
  BY <1>1, <1>2, TargetKept DEF OpenOutput, Writer!Overwrite, Writer!Next
<1>3. CASE Stop("failure") /\ UNCHANGED out
  BY <1>1, <1>3, StopRefines DEF OpenOutput, Stop, Writer!Next
<1>4. QED
  BY <1>2, <1>3 DEF OpenOutput

(* Leaving the with block: return True over the whole image, or a flush *)
(* error that leaves a shorter prefix of it.                               *)
LEMMA CloseRefines ==
    ASSUME IInv, Close
    PROVE  [Writer!Next]_Writer!wvars
<1>1. /\ outcome = "running" /\ out \in Seq(Byte) /\ Len(out) = ImageLen
      /\ IsImagePrefix(out, blSize, kSize, Align)
  BY DEF Close, IInv, WriteProgress
<1>2. ImageLen \in Nat /\ WriterTarget = SpecImage(ImageLen, blSize, kSize, Align)
  BY LengthsWithin DEF IInv, WriterTarget
<1>3. UNCHANGED <<blSize, kSize>> /\ WriterTarget' = WriterTarget
  BY TargetKept DEF Close
<1>4. CASE Stop("success") /\ UNCHANGED out
  <2>1. out = WriterTarget
    BY <1>1, <1>2, WholeImage
  <2>2. QED
    BY <1>1, <1>3, <1>4, <2>1 DEF Stop, Writer!Succeed, Writer!Next
<1>5. CASE /\ Len(out) > 0
           /\ \E n \in 0..(Len(out) - 1) : out' = SubSeq(out, 1, n)
           /\ Stop("failure")
  <2>1. PICK n \in 0..(Len(out) - 1) : out' = SubSeq(out, 1, n)
    BY <1>5
  <2>2. out' \in Seq(Byte) /\ IsImagePrefix(out', blSize, kSize, Align)
    BY <1>1, <2>1, TruncateStep
  <2>3. Len(out') <= ImageLen
    BY <1>1, <2>1, <2>2, SMT
  <2>4. out \in Writer!Prefixes(WriterTarget)
        /\ out' \in Writer!Prefixes(WriterTarget)
    BY <1>1, <1>2, <2>2, <2>3, PrefixOfTarget
  <2>5. QED
    BY <1>1, <1>3, <1>5, <2>4 DEF Stop, Writer!Fail, Writer!Next
<1>6. QED
  BY <1>4, <1>5 DEF Close

(* The checks and reads before the open either move on without touching *)
(* the output or stop the build with the output as it was.               *)
LEMMA EarlyRefines ==
    ASSUME IInv, Validate \/ MakeOutputDir \/ ReadKernel \/ ReadBootloader
    PROVE  [Writer!Next]_Writer!wvars
<1>1. outcome = "running" /\ UNCHANGED <<out, blSize, kSize>>
  BY DEF Validate, MakeOutputDir, ReadKernel, ReadBootloader, ReadInput, IInv
<1>2. UNCHANGED outcome \/ outcome' \in {"failure", "crash"}
  BY DEF Validate, MakeOutputDir, ReadKernel, ReadBootloader, ReadInput, Stop
<1>3. QED
  BY <1>1, <1>2, QuietStutter, StopRefines DEF Writer!Next

(* Every step of create_image.py is a step of the writer contract or    *)
(* leaves the contract's state unchanged.                                 *)
LEMMA NextRefines ==
    WInv /\ [Next]_vars => [Writer!Next]_Writer!wvars
<1> SUFFICES ASSUME WInv, [Next]_vars PROVE [Writer!Next]_Writer!wvars
  OBVIOUS
<1>1. IInv /\ IInv'
  BY NextIInv DEF WInv
<1>2. CASE Validate \/ MakeOutputDir \/ ReadKernel \/ ReadBootloader
  BY <1>1, <1>2, EarlyRefines
<1>3. CASE OpenOutput
  BY <1>3, OpenRefines
<1>4. CASE WriteBootloader \/ PadKernel \/ WriteKernel \/ PadMin
  BY <1>1, <1>4, WritesRefine
<1>5. CASE Close
  BY <1>1, <1>5, CloseRefines
<1>6. CASE RemoveInput \/ UNCHANGED vars
  BY <1>6, QuietStutter DEF RemoveInput, vars
<1>7. QED
  BY <1>2, <1>3, <1>4, <1>5, <1>6 DEF Next

(* Before main() runs, the output path holds what an earlier build left. *)
LEMMA InitRefines == Init => Writer!Init
BY DEF Init, Writer!Init

-----------------------------------------------------------------------------
(* Sections 4.2 and 5: create_image.py implements the writer contract for *)
(* every alignment unit, minimum size and input size bound: the output is *)
(* truncated once by open(output_path, 'wb'), then only grows by the      *)
(* image's next bytes; an IOError or an uncaught exception leaves the     *)
(* earlier file or a prefix of the image; and True is returned only over  *)
(* the complete image.                                                     *)
THEOREM RefinesWriter == Spec => ImplementsWriter
<1>1. Init => WInv /\ Writer!Init
  BY InitWInv, InitRefines
<1>2. WInv /\ [Next]_vars => WInv' /\ [Writer!Next]_Writer!wvars
  BY NextWInv, NextRefines
<1>3. QED
  BY <1>1, <1>2, PTL DEF Spec, ImplementsWriter, Writer!Spec
=============================================================================
