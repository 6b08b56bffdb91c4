------------------------- MODULE CreateImageProofs -------------------------
(***************************************************************************)
(* Proofs about CreateImage for every alignment unit, floor and input     *)
(* size: the output path only ever holds a prefix of the specified image *)
(* (WriteProgress), and when create_arm64_image returns True it holds the *)
(* whole image (ImageCorrect).                                             *)
(*                                                                         *)
(* ImageCorrect is not inductive by itself: a successful close needs to   *)
(* know the length the earlier writes reached.  IInv adds to it the type, *)
(* WriteProgress (which records the file length expected at each pc) and *)
(* the fact that a finished process does not move again.                 *)
(***************************************************************************)
EXTENDS CreateImage, ImageLayoutProofs, TLAPS

(* What a successful run leaves, as an invariant over the final state. *)
SuccessDone ==
    outcome = "success" =>
        /\ out \in Seq(Byte)
        /\ IsImagePrefix(out, blSize, kSize, Align)
        /\ Len(out) = ImageLen

IInv ==
    /\ TypeOK
    /\ WriteProgress
    /\ SuccessDone
    /\ outcome # "running" => pc = "done"

USE AlignAssumption, MinSizeAssumption, BoundsAssumption, MarkerAssumption

(* The kernel offset the padding reaches, stated on the model's state. *)
LEMMA OffsetFacts ==
    ASSUME TypeOK
    PROVE  /\ blSize \in Nat /\ kSize \in Nat
           /\ PadTo(blSize, Align) \in 0..(Align - 1)
           /\ SpecOffset(blSize, Align) = blSize + PadTo(blSize, Align)
<1>1. blSize \in Nat /\ kSize \in Nat
  BY DEF TypeOK
<1>2. PadTo(blSize, Align) \in 0..(Align - 1)
  BY <1>1, PadToBounds
<1>3. QED
  BY <1>1, <1>2, SpecOffsetIsPadded

(* One Write step from a state whose file, extended by data, is still an  *)
(* image prefix: the file stays an image prefix, and either the step      *)
(* completed or the process stopped with a failure.                       *)
LEMMA WriteStep ==
    ASSUME NEW from, NEW data \in Seq(Byte), NEW to,
           out \in Seq(Byte),
           IsImagePrefix(out \o data, blSize, kSize, Align),
           Write(from, data, to)
    PROVE  /\ out' \in Seq(Byte)
           /\ IsImagePrefix(out', blSize, kSize, Align)
           /\ \/ pc' = to /\ out' = out \o data /\ outcome' = outcome
              \/ pc' = "done" /\ outcome' = "failure"
           /\ UNCHANGED <<inputs, outDirExists, blSize, kSize>>
<1>1. out \o data \in Seq(Byte) /\ Len(out \o data) = Len(out) + Len(data)
  BY ConcatProperties
<1>2. CASE out' = out \o data /\ pc' = to /\ UNCHANGED outcome
  BY <1>1, <1>2 DEF Write
<1>3. CASE /\ Len(data) > 0
           /\ \E n \in 0..(Len(out) + Len(data) - 1) :
                 out' = SubSeq(out \o data, 1, n)
           /\ Stop("failure")
  <2>1. PICK n \in 0..(Len(out) + Len(data) - 1) :
            out' = SubSeq(out \o data, 1, n)
    BY <1>3
  <2>2. out' \in Seq(Byte)
    <3>1. \A i \in 1..n : (out \o data)[i] \in Byte
      BY <1>1, SMT
    <3>2. QED
      BY <2>1, <3>1, SubSeqProperties
  <2>3. IsImagePrefix(out', blSize, kSize, Align)
    <3>1. n \in 0..Len(out \o data)
      BY <1>1, <2>1, SMT
    <3>2. IsImagePrefix(SubSeq(out \o data, 1, n), blSize, kSize, Align)
      BY <1>1, <3>1, PrefixOfPrefix
    <3>3. QED
      BY <2>1, <3>2
  <2>4. QED
    BY <1>3, <2>2, <2>3 DEF Write, Stop
<1>4. QED
  BY <1>2, <1>3 DEF Write

(* A truncating flush keeps an image prefix. *)
LEMMA TruncateStep ==
    ASSUME out \in Seq(Byte),
           IsImagePrefix(out, blSize, kSize, Align),
           NEW n \in 0..(Len(out) - 1),
           out' = SubSeq(out, 1, n)
    PROVE  out' \in Seq(Byte) /\ IsImagePrefix(out', blSize, kSize, Align)
<1>1. out' \in Seq(Byte)
  <2>1. \A i \in 1..n : out[i] \in Byte
    BY SMT
  <2>2. QED
    BY <2>1, SubSeqProperties
<1>2. n \in 0..Len(out)
  BY SMT
<1>3. QED
  BY <1>1, <1>2, PrefixOfPrefix

(* The states from which the file is being written. *)
Writing == {"write_bl", "pad_kernel", "write_kernel", "pad_min", "close"}

(* A Write step that completes moves to a pc whose expected length the    *)
(* extended file has; either way IInv holds after it.                     *)
LEMMA WriteKeepsIInv ==
    ASSUME IInv, NEW from \in Writing, NEW data \in Seq(Byte), NEW to,
           pc = from,
           IsImagePrefix(out \o data, blSize, kSize, Align),
           Write(from, data, to),
           to \in Writing,
           pc' = to /\ out' = out \o data => WriteProgress'
    PROVE  IInv'
<1>1. out \in Seq(Byte) /\ outcome = "running"
  BY DEF IInv, WriteProgress, Writing
<1>2. /\ out' \in Seq(Byte)
      /\ IsImagePrefix(out', blSize, kSize, Align)
      /\ \/ pc' = to /\ out' = out \o data /\ outcome' = outcome
         \/ pc' = "done" /\ outcome' = "failure"
      /\ UNCHANGED <<inputs, outDirExists, blSize, kSize>>
  BY <1>1, WriteStep
<1>3. TypeOK'
  BY <1>1, <1>2 DEF IInv, TypeOK, Writing, Steps
<1>4. CASE pc' = to /\ out' = out \o data /\ outcome' = outcome
  BY <1>1, <1>2, <1>3, <1>4 DEF IInv, SuccessDone
<1>5. CASE pc' = "done" /\ outcome' = "failure"
  BY <1>2, <1>3, <1>5 DEF IInv, WriteProgress, SuccessDone
<1>6. QED
  BY <1>2, <1>4, <1>5

LEMMA InitIInv == Init => IInv
BY DEF Init, IInv, TypeOK, Steps, WriteProgress, SuccessDone

(* Every step keeps IInv: one case per action of Next. *)
LEMMA NextIInv == IInv /\ [Next]_vars => IInv'
<1> SUFFICES ASSUME IInv, [Next]_vars PROVE IInv'
  OBVIOUS
<1>0. /\ blSize \in Nat /\ kSize \in Nat
      /\ PadTo(blSize, Align) \in 0..(Align - 1)
      /\ SpecOffset(blSize, Align) = blSize + PadTo(blSize, Align)
  BY OffsetFacts DEF IInv
<1>1. CASE Validate
  BY <1>1 DEF Validate, Stop, IInv, TypeOK, Steps, WriteProgress, SuccessDone
<1>2. CASE MakeOutputDir
  BY <1>2 DEF MakeOutputDir, Stop, IInv, TypeOK, Steps, WriteProgress,
              SuccessDone
<1>3. CASE ReadKernel \/ ReadBootloader
  BY <1>3 DEF ReadKernel, ReadBootloader, ReadInput, Stop, IInv, TypeOK,
              Steps, Kinds, WriteProgress, SuccessDone
<1>4. CASE OpenOutput
  <2>1. <<>> \in Seq(Byte) /\ IsImagePrefix(<<>>, blSize, kSize, Align)
    BY DEF IsImagePrefix
  <2>2. QED
    BY <1>4, <2>1 DEF OpenOutput, Stop, IInv, TypeOK, Steps, WriteProgress,
                      SuccessDone
<1>5. CASE WriteBootloader
  <2> DEFINE data == Blob("bootloader", blSize)
  <2>1. pc = "write_bl" /\ out \in Seq(Byte) /\ Len(out) = 0
    BY <1>5 DEF WriteBootloader, Write, IInv, WriteProgress
  <2>2. /\ data \in Seq(Byte) /\ Len(data) = blSize
        /\ \A j \in 1..blSize : data[j] = <<"bootloader", j>>
    BY <1>0, BlobType
  <2>3. \A j \in 1..Len(data) :
            data[j] = SpecByte(blSize, kSize, Align, Len(out) + j)
    <3> SUFFICES ASSUME NEW j \in 1..Len(data)
                 PROVE  data[j] = SpecByte(blSize, kSize, Align, Len(out) + j)
      OBVIOUS
    <3>1. j \in 1..blSize /\ Len(out) + j = j /\ j \in Nat
      BY <2>1, <2>2, SMT
    <3>2. SpecByte(blSize, kSize, Align, j) = <<"bootloader", j>>
      BY <1>0, <3>1, SpecByteBootloader
    <3>3. QED
      BY <2>2, <3>1, <3>2
  <2>4. IsImagePrefix(out \o data, blSize, kSize, Align)
    BY <2>1, <2>2, <2>3, AppendPrefix DEF IInv, WriteProgress
  <2>5. out \o data \in Seq(Byte) /\ Len(out \o data) = blSize
    BY <2>1, <2>2, ConcatLen
  <2>6. (pc' = "pad_kernel" /\ out' = out \o data) => WriteProgress'
    BY <1>5, <2>4, <2>5 DEF WriteBootloader, Write, WriteProgress
  <2>7. QED
    BY <1>5, <2>1, <2>2, <2>4, <2>6, WriteKeepsIInv
       DEF WriteBootloader, Writing
<1>6. CASE PadKernel
  <2> DEFINE p == PadTo(blSize, Align)
             data == Zeros(p)
  <2>1. pc = "pad_kernel" /\ out \in Seq(Byte) /\ Len(out) = blSize
    BY <1>6 DEF PadKernel, Write, IInv, WriteProgress
  <2>2. p \in Nat
    BY <1>0, SMT
  <2>3. /\ data \in Seq(Byte) /\ Len(data) = p
        /\ \A j \in 1..p : data[j] = ZeroByte
    BY <2>2, ZerosType
  <2>4. \A j \in 1..Len(data) :
            data[j] = SpecByte(blSize, kSize, Align, Len(out) + j)
    BY <1>0, <2>1, <2>3 DEF SpecByte
  <2>5. IsImagePrefix(out \o data, blSize, kSize, Align)
    BY <2>1, <2>3, <2>4, AppendPrefix DEF IInv, WriteProgress
  <2>6. out \o data \in Seq(Byte) /\ Len(out \o data) = blSize + p
    BY <2>1, <2>3, ConcatLen
  <2>7. (pc' = "write_kernel" /\ out' = out \o data) => WriteProgress'
    BY <1>0, <1>6, <2>5, <2>6 DEF PadKernel, Write, WriteProgress
  <2>8. QED
    BY <1>6, <2>1, <2>3, <2>5, <2>7, WriteKeepsIInv DEF PadKernel, Writing
<1>7. CASE WriteKernel
  <2> DEFINE data == Blob("kernel", kSize)
             off == SpecOffset(blSize, Align)
  <2>1. pc = "write_kernel" /\ out \in Seq(Byte) /\ Len(out) = off
    BY <1>7 DEF WriteKernel, Write, IInv, WriteProgress
  <2>2. /\ data \in Seq(Byte) /\ Len(data) = kSize
        /\ \A j \in 1..kSize : data[j] = <<"kernel", j>>
    BY <1>0, BlobType
  <2>3. \A j \in 1..Len(data) :
            data[j] = SpecByte(blSize, kSize, Align, Len(out) + j)
    <3> SUFFICES ASSUME NEW j \in 1..Len(data)
                 PROVE  data[j] = SpecByte(blSize, kSize, Align, Len(out) + j)
      OBVIOUS
    <3>0. off \in Nat
      BY <1>0, AlignAssumption, SMT
    <3>1. /\ j \in 1..kSize /\ off \in Nat /\ Len(out) + j \in Nat
          /\ off < Len(out) + j /\ Len(out) + j <= off + kSize
          /\ (Len(out) + j) - off = j
      BY <3>0, <2>1, <2>2, SMT
    <3>2. SpecByte(blSize, kSize, Align, Len(out) + j) = <<"kernel", j>>
      <4>1. SpecByte(blSize, kSize, Align, Len(out) + j)
              = <<"kernel", (Len(out) + j) - off>>
        BY <1>0, <3>1, AlignAssumption, SpecByteKernel
      <4>2. QED
        BY <4>1, <3>1
    <3>3. QED
      BY <2>2, <3>1, <3>2
  <2>4. IsImagePrefix(out \o data, blSize, kSize, Align)
    BY <2>1, <2>2, <2>3, AppendPrefix DEF IInv, WriteProgress
  <2>5. out \o data \in Seq(Byte) /\ Len(out \o data) = off + kSize
    BY <2>1, <2>2, ConcatLen
  <2>6. (pc' = "pad_min" /\ out' = out \o data) => WriteProgress'
    BY <1>7, <2>4, <2>5 DEF WriteKernel, Write, WriteProgress
  <2>7. QED
    BY <1>7, <2>1, <2>2, <2>4, <2>6, WriteKeepsIInv DEF WriteKernel, Writing
<1>8. CASE PadMin
  <2> DEFINE e == SpecOffset(blSize, Align) + kSize
             p == PadToMin(e, MinSize)
             data == Zeros(p)
  <2>1. pc = "pad_min" /\ out \in Seq(Byte) /\ Len(out) = e
    BY <1>8 DEF PadMin, Write, IInv, WriteProgress
  <2>2. e \in Nat /\ p \in Nat /\ e + p = ImageLen
    <3>1. e \in Nat
      BY <1>0, SMT
    <3>2. QED
      BY <3>1, MinSizeAssumption, SMT DEF PadToMin, ImageLen
  <2>3. /\ data \in Seq(Byte) /\ Len(data) = p
        /\ \A j \in 1..p : data[j] = ZeroByte
    BY <2>2, ZerosType
  <2>4. \A j \in 1..Len(data) :
            data[j] = SpecByte(blSize, kSize, Align, Len(out) + j)
    <3> SUFFICES ASSUME NEW j \in 1..Len(data)
                 PROVE  data[j] = SpecByte(blSize, kSize, Align, Len(out) + j)
      OBVIOUS
    <3>1. j \in 1..p /\ Len(out) + j \in Nat
          /\ SpecOffset(blSize, Align) + kSize < Len(out) + j
      BY <2>1, <2>2, <2>3, SMT
    <3>2. SpecByte(blSize, kSize, Align, Len(out) + j) = ZeroByte
      BY <1>0, <3>1, AlignAssumption, SpecByteTail
    <3>3. QED
      BY <2>3, <3>1, <3>2
  <2>5. IsImagePrefix(out \o data, blSize, kSize, Align)
    BY <2>1, <2>3, <2>4, AppendPrefix DEF IInv, WriteProgress
  <2>6. out \o data \in Seq(Byte) /\ Len(out \o data) = ImageLen
    BY <2>1, <2>2, <2>3, ConcatLen
  <2>7. (pc' = "close" /\ out' = out \o data) => WriteProgress'
    BY <1>8, <2>5, <2>6 DEF PadMin, Write, WriteProgress, ImageLen
  <2>8. QED
    BY <1>8, <2>1, <2>3, <2>5, <2>7, WriteKeepsIInv DEF PadMin, Writing
<1>9. CASE Close
  <2>1. /\ pc = "close" /\ out \in Seq(Byte) /\ Len(out) = ImageLen
        /\ IsImagePrefix(out, blSize, kSize, Align)
    BY <1>9 DEF Close, IInv, WriteProgress
  <2>2. CASE Stop("success") /\ UNCHANGED out
    <3>1. UNCHANGED <<blSize, kSize>> /\ pc' = "done" /\ outcome' = "success"
      BY <1>9, <2>2 DEF Close, Stop
    <3>2. SuccessDone'
      BY <2>1, <2>2, <3>1 DEF SuccessDone, ImageLen
    <3>3. WriteProgress'
      BY <2>1, <2>2, <3>1 DEF WriteProgress
    <3>4. TypeOK'
      BY <1>9, <2>2, <3>1 DEF Close, IInv, TypeOK, Steps
    <3>5. QED
      BY <3>1, <3>2, <3>3, <3>4 DEF IInv
  <2>3. CASE /\ \E n \in 0..(Len(out) - 1) : out' = SubSeq(out, 1, n)
             /\ Stop("failure")
    <3>1. out' \in Seq(Byte) /\ IsImagePrefix(out', blSize, kSize, Align)
      BY <2>1, <2>3, TruncateStep
    <3>2. QED
      BY <1>9, <2>3, <3>1 DEF Close, Stop, IInv, TypeOK, Steps,
                             WriteProgress, SuccessDone
  <2>4. QED
    BY <1>9, <2>2, <2>3 DEF Close
<1>10. CASE RemoveInput
  <2>1. UNCHANGED <<pc, outcome, outDirExists, blSize, kSize, out>>
    BY <1>10 DEF RemoveInput
  <2>2. inputs' \in [Inputs -> Kinds]
    BY <1>10 DEF RemoveInput, IInv, TypeOK, Inputs, Kinds
  <2>3. TypeOK'
    BY <2>1, <2>2 DEF IInv, TypeOK
  <2>4. WriteProgress' /\ SuccessDone'
    BY <2>1 DEF IInv, WriteProgress, SuccessDone, ImageLen
  <2>5. (outcome # "running" => pc = "done")'
    BY <2>1 DEF IInv
  <2>6. QED
    BY <2>3, <2>4, <2>5 DEF IInv
<1>11. CASE UNCHANGED vars
  <2>1. UNCHANGED <<pc, outcome, inputs, outDirExists, blSize, kSize, out>>
    BY <1>11 DEF vars
  <2>2. TypeOK' /\ WriteProgress' /\ SuccessDone'
    BY <2>1 DEF IInv, TypeOK, WriteProgress, SuccessDone, ImageLen
  <2>3. (outcome # "running" => pc = "done")'
    BY <2>1 DEF IInv
  <2>4. QED
    BY <2>2, <2>3 DEF IInv
<1>12. QED
  BY <1>1, <1>2, <1>3, <1>4, <1>5, <1>6, <1>7, <1>8, <1>9, <1>10, <1>11
     DEF Next

(* The length the code gives the image lies between the kernel end and    *)
(* the floor on one side and the specified totalSize on the other.        *)
LEMMA ImageLenBounds ==
    ASSUME TypeOK
    PROVE  /\ ImageLen >= SpecOffset(blSize, Align) + kSize
           /\ ImageLen >= MinSize
           /\ ImageLen <= SpecTotal(blSize, kSize, Align, MinSize)
<1> DEFINE e == SpecOffset(blSize, Align) + kSize
<1>1. e \in Nat
  BY OffsetFacts, SMT
<1>2. IsRoundUp(RoundUp(e, Align), e, Align)
  BY <1>1, RoundUpIsRoundUp
<1>3. RoundUp(e, Align) \in e..(e + Align)
  BY <1>2 DEF IsRoundUp
<1>4. QED
  BY <1>1, <1>3, SMT DEF ImageLen, SpecTotal

LEMMA IInvImageCorrect == IInv => ImageCorrect
<1> SUFFICES ASSUME IInv, outcome = "success" PROVE ImageCorrect
  BY DEF ImageCorrect
<1>1. out \in Seq(Byte) /\ IsImagePrefix(out, blSize, kSize, Align)
      /\ Len(out) = ImageLen
  BY DEF IInv, SuccessDone
<1>2. QED
  BY <1>1, ImageLenBounds DEF IInv, ImageCorrect

(* The state of main / create_arm64_image always has its type. *)
THEOREM TypeCorrect == Spec => []TypeOK
<1>1. IInv => TypeOK
  BY DEF IInv
<1>2. QED
  BY <1>1, InitIInv, NextIInv, PTL DEF Spec

(* While the image is written, and after any write or flush failure,     *)
(* the output path holds only a prefix of the specified image, and each  *)
(* write finds the file as long as the writes before it made it.         *)
THEOREM WriteProgressHolds == Spec => []WriteProgress
<1>1. IInv => WriteProgress
  BY DEF IInv
<1>2. QED
  BY <1>1, InitIInv, NextIInv, PTL DEF Spec

(* When create_arm64_image returns True, the output is the specified      *)
(* image: bootloader at 0, kernel at the aligned offset, zeros between,   *)
(* at least the floor and at most totalSize long.                         *)
THEOREM ImageCorrectHolds == Spec => []ImageCorrect
BY InitIInv, NextIInv, IInvImageCorrect, PTL DEF Spec
=============================================================================
