-------------------------- MODULE IsoChainArtifact --------------------------
(***************************************************************************)
(* Proof that when create_iso.py's main() exits 0 the output path holds   *)
(* the artifact of the backend that reported success (SuccessArtifact),   *)
(* for every sector size, floor and input size: an ISO written by the     *)
(* tool whose run returned 0, or the complete raw image of                *)
(* create_simple_iso laid out as section 4.4 asks.                         *)
(*                                                                         *)
(* SuccessArtifact speaks only of the final state; it is not inductive.  *)
(* The strengthening records, besides RInv, that a raw file at the output *)
(* path is always a prefix of the specified image and how long the       *)
(* fallback's writes have made it at each of its steps (RawAt), and what *)
(* a success leaves behind, with the raw image's length (SuccessAt).     *)
(***************************************************************************)
EXTENDS IsoChainRefinement

(* The steps of create_simple_iso after the output file is open. *)
RawSteps == SimpleSteps \ {"simple_open"}

(* The length f.tell() returns at each step of create_simple_iso. *)
RawLenAt(p) ==
    CASE p = "simple_bl"      -> 0
      [] p = "simple_pad"     -> blSize
      [] p = "simple_kernel"  -> SpecOffset(blSize, Sector)
      [] p = "simple_pad_min" -> SpecOffset(blSize, Sector) + kSize
      [] p = "simple_close"   -> RawLen

RawAt ==
    /\ out.kind = "raw" => IsImagePrefix(out.bytes, blSize, kSize, Sector)
    /\ pc \in RawSteps =>
          /\ out.kind = "raw" /\ out.by = "simple"
          /\ Len(out.bytes) = RawLenAt(pc)

SuccessAt ==
    outcome = "success" =>
        /\ attempts # <<>>
        /\ LastAttempt[2] = "ok"
        /\ out.by = LastAttempt[1]
        /\ \/ out.kind = "iso" /\ LastAttempt[1] \in Tools
           \/ /\ out.kind = "raw" /\ LastAttempt[1] = "simple"
              /\ Len(out.bytes) = RawLen

AInv == RInv /\ RawAt /\ SuccessAt

USE SectorAssumption, IsoMinSizeAssumption, IsoBoundsAssumption,
    HangAssumption

-----------------------------------------------------------------------------
(* The raw image's length against the specified totalSize. *)
LEMMA RawLenBounds ==
    ASSUME blSize \in Nat, kSize \in Nat
    PROVE  /\ RawLen \in Nat
           /\ RawLen >= SpecOffset(blSize, Sector) + kSize
           /\ RawLen >= IsoMinSize
           /\ RawLen <= SpecTotal(blSize, kSize, Sector, IsoMinSize)
<1> DEFINE kEnd == SpecOffset(blSize, Sector) + kSize
<1>1. kEnd \in Nat
  <2>1. SpecOffset(blSize, Sector) = blSize + PadTo(blSize, Sector)
        /\ PadTo(blSize, Sector) \in 0..(Sector - 1)
    BY SpecOffsetIsPadded, PadToBounds
  <2>2. QED
    BY <2>1, SMT
<1>2. IsRoundUp(RoundUp(kEnd, Sector), kEnd, Sector)
  BY <1>1, RoundUpIsRoundUp
<1>3. RoundUp(kEnd, Sector) \in kEnd..(kEnd + Sector)
  BY <1>2 DEF IsRoundUp
<1>4. /\ RawLen = IF kEnd < IsoMinSize THEN IsoMinSize ELSE kEnd
      /\ SpecTotal(blSize, kSize, Sector, IsoMinSize)
           = IF RoundUp(kEnd, Sector) < IsoMinSize THEN IsoMinSize
             ELSE RoundUp(kEnd, Sector)
  BY DEF RawLen, SpecTotal
<1>5. QED
  BY <1>1, <1>3, <1>4, SMT

(* The invariant gives the property. *)
LEMMA AInvArtifact == AInv => SuccessArtifact
<1> SUFFICES ASSUME AInv, outcome = "success" PROVE SuccessArtifact
  BY DEF SuccessArtifact
<1>1. attempts \in Seq(Attempt) /\ attempts # <<>>
  BY DEF AInv, RInv, IInv, TypeOK, Attempt, SuccessAt
<1>2. Len(attempts) > 0
  BY <1>1, EmptySeq, SMT
<1>3. CASE out.kind = "raw" /\ LastAttempt[1] = "simple"
           /\ Len(out.bytes) = RawLen
  <2>1. blSize \in Nat /\ kSize \in Nat
    BY DEF AInv, RInv, IInv, TypeOK
  <2>2. IsImagePrefix(out.bytes, blSize, kSize, Sector)
    BY <1>3 DEF AInv, RawAt
  <2>3. RawImageCorrect
    BY <1>3, <2>1, <2>2, RawLenBounds DEF RawImageCorrect
  <2>4. QED
    BY <1>2, <1>3, <2>3 DEF AInv, SuccessAt, SuccessArtifact
<1>4. QED
  BY <1>2, <1>3 DEF AInv, SuccessAt, SuccessArtifact

LEMMA InitAInv == Init => AInv
<1> SUFFICES ASSUME Init PROVE AInv
  OBVIOUS
<1>1. RInv
  BY InitRInv
<1>2. RawAt /\ SuccessAt
  BY DEF Init, Output, RawAt, RawSteps, SimpleSteps, SuccessAt
<1>3. QED
  BY <1>1, <1>2 DEF AInv
-----------------------------------------------------------------------------
(* Steps that leave the output path alone. *)

(* Before the chain and after it, the output and the history stay as     *)
(* they are, and only the with block's exit ends with success.           *)
LEMMA SetupArtifact ==
    ASSUME AInv,
           Validate \/ MakeOutputDir \/ MakeTempDir \/ StageKernel
             \/ StageBootloader \/ StageGrubCfg \/ Cleanup \/ RemoveInput
             \/ UNCHANGED vars
    PROVE  (RawAt /\ SuccessAt)'
<1>1. UNCHANGED <<out, attempts, blSize, kSize>>
  BY DEF Validate, MakeOutputDir, MakeTempDir, StageKernel, StageBootloader,
         Stage, StageGrubCfg, Cleanup, RemoveInput, vars, Env
<1>2. CASE Validate \/ MakeOutputDir \/ MakeTempDir \/ StageKernel
             \/ StageBootloader \/ StageGrubCfg
  <2>1. pc' \notin RawSteps /\ outcome' # "success"
    BY <1>2 DEF Validate, MakeOutputDir, MakeTempDir, StageKernel,
                StageBootloader, Stage, StageGrubCfg, RawSteps, SimpleSteps,
                AInv, RInv, RunningAt, Ended
  <2>2. QED
    BY <1>1, <2>1 DEF AInv, RawAt, SuccessAt
<1>3. CASE Cleanup \/ RemoveInput \/ UNCHANGED vars
  <2>1. UNCHANGED outcome /\ (pc' = pc \/ pc' \notin RawSteps)
    BY <1>3 DEF Cleanup, RemoveInput, vars, RawSteps, SimpleSteps
  <2>2. SuccessAt'
    BY <1>1, <2>1 DEF AInv, SuccessAt, LastAttempt, RawLen
  <2>3. RawAt'
    <3>1. CASE pc' = pc
      BY <1>1, <3>1 DEF AInv, RawAt, RawLenAt, RawLen
    <3>2. CASE pc' \notin RawSteps
      BY <1>1, <3>2 DEF AInv, RawAt
    <3>3. QED
      BY <2>1, <3>1, <3>2
  <2>4. QED
    BY <2>2, <2>3
<1>4. QED
  BY <1>2, <1>3

(* A tool run: a success leaves the tool's ISO and ends the history with *)
(* its "ok"; anything else keeps the process running outside the raw     *)
(* writes, with the output as it was or a partial file.                  *)
LEMMA ToolArtifact ==
    ASSUME AInv, NEW t \in Tools, NEW then, NEW raised,
           then \notin RawSteps, raised \notin RawSteps,
           outcome = "running", RunTool(t, then, raised),
           UNCHANGED <<blSize, kSize>>
    PROVE  (RawAt /\ SuccessAt)'
<1>0. attempts \in Seq(Attempt)
  BY DEF AInv, RInv, IInv, TypeOK, Attempt
<1>1. CASE /\ out' = Output("iso", t, <<>>)
           /\ attempts' = Append(attempts, <<t, "ok">>)
           /\ pc' = "cleanup" /\ outcome' = "success"
  <2>1. attempts' # <<>> /\ attempts'[Len(attempts')] = <<t, "ok">>
    BY <1>0, <1>1, SMT
  <2>2. out'.kind = "iso" /\ out'.by = t /\ pc' \notin RawSteps
    BY <1>1 DEF Output, RawSteps, SimpleSteps
  <2>3. QED
    BY <2>1, <2>2 DEF RawAt, SuccessAt, LastAttempt
<1>2. CASE /\ out' \in {out, Output("partial", t, <<>>)}
           /\ pc' \in {then, raised, "hung"} /\ UNCHANGED outcome
  <2>1. out'.kind = "raw" => out' = out
    BY <1>2 DEF Output
  <2>2. pc' \notin RawSteps
    BY <1>2 DEF RawSteps, SimpleSteps
  <2>3. RawAt'
    <3>1. out.kind = "raw" => IsImagePrefix(out.bytes, blSize, kSize, Sector)
      BY DEF AInv, RawAt
    <3>2. QED
      BY <2>1, <2>2, <3>1 DEF RawAt
  <2>4. SuccessAt'
    BY <1>2 DEF SuccessAt
  <2>5. QED
    BY <2>3, <2>4
<1>3. QED
  BY <1>1, <1>2 DEF RunTool

(* The three tool stages of the chain. *)
LEMMA ChainArtifact ==
    ASSUME AInv, Grub \/ Mkisofs \/ Genisoimage
    PROVE  (RawAt /\ SuccessAt)'
<1>0. /\ pc \in Chain /\ outcome = "running"
      /\ UNCHANGED <<blSize, kSize>>
  BY DEF Grub, Mkisofs, Genisoimage, IsoMaster, Env, Chain, AInv, RInv,
         RunningAt, Ended
<1>1. ASSUME pc' \notin RawSteps, UNCHANGED <<outcome, out, attempts>>
      PROVE  (RawAt /\ SuccessAt)'
  BY <1>0, <1>1 DEF AInv, RawAt, SuccessAt
<1>2. "grub-mkrescue" \in Tools /\ "mkisofs" \in Tools
      /\ "genisoimage" \in Tools
  BY DEF Tools
<1>3. CASE Grub
  <2>1. CASE UNCHANGED <<outcome, out, attempts>> /\ pc' = "mkisofs"
    BY <1>1, <2>1 DEF RawSteps, SimpleSteps
  <2>2. CASE RunTool("grub-mkrescue", "mkisofs", "mkisofs")
    BY <1>0, <1>2, <2>2, ToolArtifact DEF RawSteps, SimpleSteps
  <2>3. QED
    BY <1>3, <2>1, <2>2 DEF Grub
<1>4. ASSUME NEW t \in {"mkisofs", "genisoimage"},
             NEW nx \in {"genisoimage", "simple_open"}, IsoMaster(t, nx)
      PROVE  (RawAt /\ SuccessAt)'
  <2>1. CASE UNCHANGED <<outcome, out, attempts>>
             /\ pc' \in {"simple_open", nx}
    BY <1>1, <2>1 DEF RawSteps, SimpleSteps
  <2>2. CASE RunTool(t, nx, "simple_open")
    BY <1>0, <1>2, <2>2, ToolArtifact DEF RawSteps, SimpleSteps
  <2>3. QED
    BY <1>4, <2>1, <2>2 DEF IsoMaster
<1>5. QED
  BY <1>3, <1>4 DEF Mkisofs, Genisoimage
-----------------------------------------------------------------------------
(* The writes of create_simple_iso. *)

(* A write whose data continues the specified image: the raw file stays  *)
(* a prefix of it, and either the write completed or the fallback failed. *)
LEMMA RawWriteStep ==
    ASSUME NEW data \in Seq(Byte), NEW to, out \in OutputType,
           IsImagePrefix(out.bytes \o data, blSize, kSize, Sector),
           SimpleWrite(data, to)
    PROVE  /\ out'.kind = out.kind /\ out'.by = out.by
           /\ IsImagePrefix(out'.bytes, blSize, kSize, Sector)
           /\ \/ /\ pc' = to /\ UNCHANGED outcome
                 /\ Len(out'.bytes) = Len(out.bytes) + Len(data)
              \/ pc' = "cleanup" /\ outcome' = "failure"
<1>1. /\ out.bytes \in Seq(Byte)
      /\ out.bytes \o data \in Seq(Byte)
      /\ Len(out.bytes \o data) = Len(out.bytes) + Len(data)
  <2>1. out.bytes \in Seq(Byte)
    BY DEF OutputType
  <2>2. QED
    BY <2>1, ConcatLen
<1>2. CASE /\ out' = [out EXCEPT !.bytes = @ \o data]
           /\ pc' = to /\ UNCHANGED <<outcome, attempts>>
  <2>1. out'.kind = out.kind /\ out'.by = out.by
        /\ out'.bytes = out.bytes \o data
    BY <1>2 DEF OutputType
  <2>2. QED
    BY <1>1, <1>2, <2>1
<1>3. CASE /\ Len(data) > 0
           /\ \E n \in 0..(Len(out.bytes) + Len(data) - 1) :
                 out' = [out EXCEPT !.bytes = SubSeq(@ \o data, 1, n)]
           /\ SimpleFails
  <2>1. PICK n \in 0..(Len(out.bytes) + Len(data) - 1) :
            out' = [out EXCEPT !.bytes = SubSeq(out.bytes \o data, 1, n)]
    BY <1>3
  <2>2. n \in 0..Len(out.bytes \o data)
    BY <1>1, <2>1, SMT
  <2>3. out'.kind = out.kind /\ out'.by = out.by
        /\ out'.bytes = SubSeq(out.bytes \o data, 1, n)
    BY <2>1 DEF OutputType
  <2>4. IsImagePrefix(SubSeq(out.bytes \o data, 1, n), blSize, kSize, Sector)
    BY <1>1, <2>2, PrefixOfPrefix
  <2>5. QED
    BY <1>3, <2>3, <2>4 DEF SimpleFails
<1>4. QED
  BY <1>2, <1>3 DEF SimpleWrite

(* From a step of the fallback with its file as long as RawAt says, a    *)
(* write of data that brings it to the length expected at `to`.          *)
LEMMA WriteArtifact ==
    ASSUME AInv, pc \in RawSteps, NEW data \in Seq(Byte), NEW to \in RawSteps,
           IsImagePrefix(out.bytes \o data, blSize, kSize, Sector),
           Len(out.bytes) + Len(data) = RawLenAt(to),
           SimpleWrite(data, to), UNCHANGED <<blSize, kSize>>
    PROVE  (RawAt /\ SuccessAt)'
<1>1. /\ out \in OutputType /\ out.kind = "raw" /\ out.by = "simple"
      /\ outcome = "running"
  BY DEF AInv, RInv, IInv, TypeOK, RawAt, RunningAt, Ended, RawSteps,
         SimpleSteps
<1>2. /\ out'.kind = "raw" /\ out'.by = "simple"
      /\ IsImagePrefix(out'.bytes, blSize, kSize, Sector)
      /\ \/ /\ pc' = to /\ outcome' = "running"
            /\ Len(out'.bytes) = RawLenAt(to)
         \/ pc' = "cleanup" /\ outcome' = "failure"
  BY <1>1, RawWriteStep
<1>3. RawLenAt(to)' = RawLenAt(to)
  BY DEF RawLenAt, RawLen
<1>4. "cleanup" \notin RawSteps
  BY DEF RawSteps, SimpleSteps
<1>5. QED
  BY <1>2, <1>3, <1>4 DEF RawAt, SuccessAt

(* open(output_path, 'wb'): an empty raw file, or the fallback fails.   *)
LEMMA OpenArtifact ==
    ASSUME AInv, SimpleOpen
    PROVE  (RawAt /\ SuccessAt)'
<1>1. pc = "simple_open" /\ outcome = "running"
      /\ UNCHANGED <<blSize, kSize>>
  BY DEF SimpleOpen, Env, AInv, RInv, RunningAt, Ended
<1>2. CASE out' = Output("raw", "simple", <<>>) /\ pc' = "simple_bl"
           /\ UNCHANGED <<outcome, attempts>>
  <2>1. out'.kind = "raw" /\ out'.by = "simple" /\ out'.bytes = <<>>
    BY <1>2 DEF Output
  <2>2. IsImagePrefix(<<>>, blSize, kSize, Sector) /\ Len(<<>>) = 0
    BY DEF IsImagePrefix
  <2>3. RawLenAt("simple_bl")' = 0 /\ "simple_bl" \in RawSteps
    BY DEF RawLenAt, RawSteps, SimpleSteps
  <2>4. QED
    BY <1>1, <1>2, <2>1, <2>2, <2>3 DEF RawAt, SuccessAt
<1>3. CASE SimpleFails /\ UNCHANGED out
  <2>1. pc' = "cleanup" /\ outcome' = "failure" /\ "cleanup" \notin RawSteps
    BY <1>3 DEF SimpleFails, RawSteps, SimpleSteps
  <2>2. QED
    BY <1>1, <1>3, <2>1 DEF AInv, RawAt, SuccessAt
<1>4. QED
  BY <1>2, <1>3 DEF SimpleOpen

(* Open and read an input, then write it: a missing input fails the     *)
(* fallback before any byte is written.                                  *)
LEMMA CopyArtifact ==
    ASSUME AInv, NEW f, NEW size, NEW from \in RawSteps, NEW to \in RawSteps,
           Blob(f, size) \in Seq(Byte),
           IsImagePrefix(out.bytes \o Blob(f, size), blSize, kSize, Sector),
           Len(out.bytes) + Len(Blob(f, size)) = RawLenAt(to),
           SimpleCopy(f, size, from, to)
    PROVE  (RawAt /\ SuccessAt)'
<1>1. pc \in RawSteps /\ UNCHANGED <<blSize, kSize>>
  BY DEF SimpleCopy, Env
<1>2. CASE SimpleFails /\ UNCHANGED out
  <2>1. pc' = "cleanup" /\ outcome' = "failure" /\ "cleanup" \notin RawSteps
    BY <1>2 DEF SimpleFails, RawSteps, SimpleSteps
  <2>2. QED
    BY <1>1, <1>2, <2>1 DEF AInv, RawAt, SuccessAt
<1>3. CASE SimpleWrite(Blob(f, size), to)
  BY <1>1, <1>3, WriteArtifact
<1>4. QED
  BY <1>2, <1>3 DEF SimpleCopy
(* The facts about the state every step of the fallback starts from. *)
LEMMA RawFacts ==
    ASSUME AInv
    PROVE  /\ blSize \in Nat /\ kSize \in Nat
           /\ out.bytes \in Seq(Byte) /\ Len(out.bytes) \in Nat
           /\ IsImagePrefix(out.bytes, blSize, kSize, Sector)
              \/ out.kind # "raw"
           /\ SpecOffset(blSize, Sector) = blSize + PadTo(blSize, Sector)
           /\ PadTo(blSize, Sector) \in 0..(Sector - 1)
<1>1. blSize \in Nat /\ kSize \in Nat /\ out.bytes \in Seq(Byte)
  BY DEF AInv, RInv, IInv, TypeOK, OutputType
<1>2. PadTo(blSize, Sector) \in 0..(Sector - 1)
      /\ SpecOffset(blSize, Sector) = blSize + PadTo(blSize, Sector)
  BY <1>1, PadToBounds, SpecOffsetIsPadded
<1>3. QED
  BY <1>1, <1>2 DEF AInv, RawAt

(* Write the bootloader at offset 0. *)
LEMMA BootloaderArtifact ==
    ASSUME AInv, SimpleBootloader
    PROVE  (RawAt /\ SuccessAt)'
<1> DEFINE data == Blob("bootloader", blSize)
<1>1. /\ pc = "simple_bl" /\ Len(out.bytes) = 0 /\ out.bytes \in Seq(Byte)
      /\ IsImagePrefix(out.bytes, blSize, kSize, Sector)
  BY RawFacts DEF SimpleBootloader, SimpleCopy, AInv, RawAt, RawLenAt,
                  RawSteps, SimpleSteps
<1>2. /\ data \in Seq(Byte) /\ Len(data) = blSize
      /\ \A j \in 1..blSize : data[j] = <<"bootloader", j>>
  BY RawFacts, BlobType
<1>3. \A j \in 1..Len(data) :
          data[j] = SpecByte(blSize, kSize, Sector, Len(out.bytes) + j)
  <2> SUFFICES ASSUME NEW j \in 1..Len(data)
               PROVE  data[j] = SpecByte(blSize, kSize, Sector, Len(out.bytes) + j)
    OBVIOUS
  <2>1. j \in 1..blSize /\ Len(out.bytes) + j = j
    BY <1>1, <1>2, SMT
  <2>2. SpecByte(blSize, kSize, Sector, j) = <<"bootloader", j>>
    BY RawFacts, <2>1, SpecByteBootloader
  <2>3. QED
    BY <1>2, <2>1, <2>2
<1>4. IsImagePrefix(out.bytes \o data, blSize, kSize, Sector)
  BY <1>1, <1>2, <1>3, AppendPrefix
<1>5. Len(out.bytes) + Len(data) = RawLenAt("simple_pad")
  BY <1>1, <1>2, SMT DEF RawLenAt
<1>6. QED
  BY <1>2, <1>4, <1>5, CopyArtifact DEF SimpleBootloader, RawSteps,
                                       SimpleSteps

(* Pad to the sector boundary from f.tell() = the bootloader's size. *)
LEMMA PadArtifact ==
    ASSUME AInv, SimplePad
    PROVE  (RawAt /\ SuccessAt)'
<1> DEFINE p == PadTo(blSize, Sector)
           data == Zeros(p)
<1>1. /\ pc = "simple_pad" /\ Len(out.bytes) = blSize
      /\ out.bytes \in Seq(Byte)
      /\ IsImagePrefix(out.bytes, blSize, kSize, Sector)
      /\ UNCHANGED <<blSize, kSize>>
  BY RawFacts DEF SimplePad, Env, AInv, RawAt, RawLenAt, RawSteps, SimpleSteps
<1>2. p \in Nat
  BY RawFacts, SMT
<1>3. /\ data \in Seq(Byte) /\ Len(data) = p
      /\ \A j \in 1..p : data[j] = ZeroByte
  BY <1>2, ZerosType
<1>4. \A j \in 1..Len(data) :
          data[j] = SpecByte(blSize, kSize, Sector, Len(out.bytes) + j)
  BY RawFacts, <1>1, <1>3 DEF SpecByte
<1>5. IsImagePrefix(out.bytes \o data, blSize, kSize, Sector)
  BY <1>1, <1>3, <1>4, AppendPrefix
<1>6. Len(out.bytes) + Len(data) = RawLenAt("simple_kernel")
  BY RawFacts, <1>1, <1>3 DEF RawLenAt
<1>7. SimpleWrite(data, "simple_kernel")
  BY <1>1 DEF SimplePad
<1>8. QED
  BY <1>1, <1>3, <1>5, <1>6, <1>7, WriteArtifact DEF RawSteps, SimpleSteps
(* Write the kernel at the sector-aligned offset. *)
LEMMA KernelArtifact ==
    ASSUME AInv, SimpleKernel
    PROVE  (RawAt /\ SuccessAt)'
<1> DEFINE data == Blob("kernel", kSize)
           off == SpecOffset(blSize, Sector)
<1>1. /\ pc = "simple_kernel" /\ Len(out.bytes) = off
      /\ out.bytes \in Seq(Byte)
      /\ IsImagePrefix(out.bytes, blSize, kSize, Sector)
  BY RawFacts DEF SimpleKernel, SimpleCopy, AInv, RawAt, RawLenAt,
                  RawSteps, SimpleSteps
<1>2. /\ data \in Seq(Byte) /\ Len(data) = kSize
      /\ \A j \in 1..kSize : data[j] = <<"kernel", j>>
  BY RawFacts, BlobType
<1>3. off \in Nat
  BY RawFacts, SMT
<1>4. \A j \in 1..Len(data) :
          data[j] = SpecByte(blSize, kSize, Sector, Len(out.bytes) + j)
  <2> SUFFICES ASSUME NEW j \in 1..Len(data)
               PROVE  data[j] = SpecByte(blSize, kSize, Sector, Len(out.bytes) + j)
    OBVIOUS
  <2>1. /\ j \in 1..kSize /\ Len(out.bytes) + j \in Nat
        /\ off < Len(out.bytes) + j /\ Len(out.bytes) + j <= off + kSize
        /\ (Len(out.bytes) + j) - off = j
    BY <1>1, <1>2, <1>3, SMT
  <2>2. SpecByte(blSize, kSize, Sector, Len(out.bytes) + j)
          = <<"kernel", (Len(out.bytes) + j) - off>>
    BY RawFacts, <2>1, SpecByteKernel
  <2>3. QED
    BY <1>2, <2>1, <2>2
<1>5. IsImagePrefix(out.bytes \o data, blSize, kSize, Sector)
  BY <1>1, <1>2, <1>4, AppendPrefix
<1>6. Len(out.bytes) + Len(data) = RawLenAt("simple_pad_min")
  BY <1>1, <1>2 DEF RawLenAt
<1>7. QED
  BY <1>2, <1>5, <1>6, CopyArtifact DEF SimpleKernel, RawSteps, SimpleSteps

(* Pad to the 2 MiB floor from f.tell() = the kernel's end. *)
LEMMA PadMinArtifact ==
    ASSUME AInv, SimplePadMin
    PROVE  (RawAt /\ SuccessAt)'
<1> DEFINE e == SpecOffset(blSize, Sector) + kSize
           p == PadToMin(e, IsoMinSize)
           data == Zeros(p)
<1>1. /\ pc = "simple_pad_min" /\ Len(out.bytes) = e
      /\ out.bytes \in Seq(Byte)
      /\ IsImagePrefix(out.bytes, blSize, kSize, Sector)
      /\ UNCHANGED <<blSize, kSize>>
  BY RawFacts DEF SimplePadMin, Env, AInv, RawAt, RawLenAt, RawSteps,
                  SimpleSteps
<1>2. e \in Nat /\ p \in Nat /\ e + p = RawLen
  <2>1. e \in Nat
    BY RawFacts, SMT
  <2>2. QED
    BY <2>1, SMT DEF PadToMin, RawLen
<1>3. /\ data \in Seq(Byte) /\ Len(data) = p
      /\ \A j \in 1..p : data[j] = ZeroByte
  BY <1>2, ZerosType
<1>4. \A j \in 1..Len(data) :
          data[j] = SpecByte(blSize, kSize, Sector, Len(out.bytes) + j)
  <2> SUFFICES ASSUME NEW j \in 1..Len(data)
               PROVE  data[j] = SpecByte(blSize, kSize, Sector, Len(out.bytes) + j)
    OBVIOUS
  <2>1. j \in 1..p /\ Len(out.bytes) + j \in Nat /\ e < Len(out.bytes) + j
    BY <1>1, <1>2, <1>3, SMT
  <2>2. SpecByte(blSize, kSize, Sector, Len(out.bytes) + j) = ZeroByte
    BY RawFacts, <2>1, SpecByteTail
  <2>3. QED
    BY <1>3, <2>1, <2>2
<1>5. IsImagePrefix(out.bytes \o data, blSize, kSize, Sector)
  BY <1>1, <1>3, <1>4, AppendPrefix
<1>6. Len(out.bytes) + Len(data) = RawLenAt("simple_close")
  BY <1>1, <1>2, <1>3 DEF RawLenAt
<1>7. SimpleWrite(data, "simple_close")
  BY <1>1 DEF SimplePadMin
<1>8. QED
  BY <1>1, <1>3, <1>5, <1>6, <1>7, WriteArtifact DEF RawSteps, SimpleSteps

(* Leaving the with block: the fallback's "ok" is recorded with the     *)
(* complete image at the output path, or a failing flush truncates it.   *)
LEMMA CloseArtifact ==
    ASSUME AInv, SimpleClose
    PROVE  (RawAt /\ SuccessAt)'
<1>1. /\ pc = "simple_close" /\ out \in OutputType
      /\ out.kind = "raw" /\ out.by = "simple" /\ Len(out.bytes) = RawLen
      /\ out.bytes \in Seq(Byte)
      /\ IsImagePrefix(out.bytes, blSize, kSize, Sector)
      /\ attempts \in Seq(Attempt)
      /\ UNCHANGED <<blSize, kSize>>
  BY RawFacts DEF SimpleClose, Env, AInv, RInv, IInv, TypeOK, Attempt, RawAt,
                  RawLenAt, RawSteps, SimpleSteps
<1>2. "cleanup" \notin RawSteps
  BY DEF RawSteps, SimpleSteps
<1>3. CASE /\ attempts' = Append(attempts, <<"simple", "ok">>)
           /\ pc' = "cleanup" /\ outcome' = "success"
           /\ UNCHANGED out
  <2>1. attempts' # <<>> /\ attempts'[Len(attempts')] = <<"simple", "ok">>
    BY <1>1, <1>3, SMT
  <2>2. RawLen' = RawLen
    BY <1>1 DEF RawLen
  <2>3. QED
    BY <1>1, <1>2, <1>3, <2>1, <2>2 DEF RawAt, SuccessAt, LastAttempt
<1>4. CASE /\ Len(out.bytes) > 0
           /\ \E n \in 0..(Len(out.bytes) - 1) :
                 out' = [out EXCEPT !.bytes = SubSeq(@, 1, n)]
           /\ SimpleFails
  <2>1. PICK n \in 0..(Len(out.bytes) - 1) :
            out' = [out EXCEPT !.bytes = SubSeq(out.bytes, 1, n)]
    BY <1>4
  <2>2. n \in 0..Len(out.bytes)
    BY <1>1, <2>1, SMT
  <2>3. IsImagePrefix(out'.bytes, blSize, kSize, Sector)
    <3>1. out'.bytes = SubSeq(out.bytes, 1, n)
      BY <1>1, <2>1 DEF OutputType
    <3>2. QED
      BY <1>1, <2>2, <3>1, PrefixOfPrefix
  <2>4. QED
    BY <1>1, <1>2, <1>4, <2>3 DEF SimpleFails, RawAt, SuccessAt
<1>5. QED
  BY <1>3, <1>4 DEF SimpleClose
-----------------------------------------------------------------------------
LEMMA NextAInv == AInv /\ [Next]_vars => AInv'
<1> SUFFICES ASSUME AInv, [Next]_vars PROVE AInv'
  OBVIOUS
<1>1. RInv'
  BY NextRInv DEF AInv
<1>2. CASE Validate \/ MakeOutputDir \/ MakeTempDir \/ StageKernel
             \/ StageBootloader \/ StageGrubCfg \/ Cleanup \/ RemoveInput
             \/ UNCHANGED vars
  BY <1>1, <1>2, SetupArtifact DEF AInv
<1>3. CASE Grub \/ Mkisofs \/ Genisoimage
  BY <1>1, <1>3, ChainArtifact DEF AInv
<1>4. CASE SimpleOpen
  BY <1>1, <1>4, OpenArtifact DEF AInv
<1>5. CASE SimpleBootloader
  BY <1>1, <1>5, BootloaderArtifact DEF AInv
<1>6. CASE SimplePad
  BY <1>1, <1>6, PadArtifact DEF AInv
<1>7. CASE SimpleKernel
  BY <1>1, <1>7, KernelArtifact DEF AInv
<1>8. CASE SimplePadMin
  BY <1>1, <1>8, PadMinArtifact DEF AInv
<1>9. CASE SimpleClose
  BY <1>1, <1>9, CloseArtifact DEF AInv
<1>10. QED
  BY <1>2, <1>3, <1>4, <1>5, <1>6, <1>7, <1>8, <1>9 DEF Next

-----------------------------------------------------------------------------
(* When create_iso.py's main() exits 0, the output path holds the        *)
(* artifact of the backend whose success was recorded last: the ISO of  *)
(* the tool whose run returned 0, or create_simple_iso's complete raw    *)
(* image, bootloader at 0, kernel at the next 512-byte boundary, zeros   *)
(* between and after, at least 2 MiB and at most totalSize long; never a *)
(* partial file or an earlier build's file (SuccessArtifact), for every  *)
(* sector size, floor and input size.                                    *)
THEOREM SuccessArtifactHolds == Spec => []SuccessArtifact
BY InitAInv, NextAInv, AInvArtifact, PTL DEF Spec
=============================================================================
