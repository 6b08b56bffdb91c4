--------------------------- MODULE IsoChainWriter ---------------------------
(***************************************************************************)
(* Proof that create_simple_iso, the raw fallback of create_iso.py,      *)
(* implements the writer contract of spec.md sections 4.2 and 5           *)
(* (ImageWriter) under the mapping RawWriter of IsoChain, for every       *)
(* sector size, floor, input size and with hanging tools: the packaging  *)
(* tools and the staging leave the contract's state alone, the fallback's *)
(* open(output_path, 'wb') is the one Overwrite, its writes are Extends,  *)
(* its caught exceptions are Fails, and the close that records its "ok"   *)
(* is the Succeed.                                                         *)
(*                                                                         *)
(* Besides AInv, the proof needs to know that no raw image is at the      *)
(* output path before the fallback opens it (NotRawBefore), so that the   *)
(* open is an Overwrite and a tool's run is no change of the raw file.    *)
(***************************************************************************)
EXTENDS IsoChainArtifact

(* The steps of main() up to the fallback's open. *)
PreRaw == PreChain \cup Chain \cup {"simple_open"}

NotRawBefore == pc \in PreRaw => out.kind # "raw"

WInv == AInv /\ NotRawBefore

USE SectorAssumption, IsoMinSizeAssumption, IsoBoundsAssumption,
    HangAssumption, NotRawAssumption

-----------------------------------------------------------------------------
(* The writer's status is read off the history of runs. *)

(* Before the fallback has run, the writer is still running. *)
LEMMA RunningBefore ==
    ASSUME IInv, NR(pc) \in 1..4
    PROVE  RawStatus = "running"
<1>1. attempts \in Seq(Attempt) /\ Below(attempts, NR(pc))
  BY DEF IInv, TypeOK, Attempt, OrderAt
<1>2. CASE attempts = <<>>
  BY <1>2 DEF RawStatus
<1>3. CASE attempts # <<>>
  <2>1. Len(attempts) \in 1..Len(attempts)
    BY <1>1, <1>3, EmptySeq, SMT
  <2>2. Rank[LastAttempt[1]] < NR(pc) /\ LastAttempt[1] \in Backends
    BY <1>1, <2>1 DEF Below, LastAttempt, Attempt
  <2>3. Rank[LastAttempt[1]] \in 1..4 /\ Rank["simple"] = 4
    BY <2>2, RankFacts
  <2>4. LastAttempt[1] # "simple"
    BY <2>2, <2>3, SMT
  <2>5. QED
    BY <2>4 DEF RawStatus
<1>4. QED
  BY <1>2, <1>3

(* Recording a run makes its backend and result the writer's status. *)
LEMMA AppendStatus ==
    ASSUME attempts \in Seq(Attempt), NEW b \in Backends,
           NEW r \in {"ok", "fail"},
           attempts' = Append(attempts, <<b, r>>)
    PROVE  RawStatus' = IF b = "simple"
                        THEN IF r = "ok" THEN "success" ELSE "failure"
                        ELSE "running"
<1>1. attempts' # <<>> /\ LastAttempt' = <<b, r>>
  BY SMT DEF LastAttempt
<1>2. QED
  BY <1>1 DEF RawStatus

(* The inputs fix the image. *)
LEMMA RawTargetKept ==
    ASSUME UNCHANGED <<blSize, kSize>>
    PROVE  RawTarget' = RawTarget
BY DEF RawTarget, RawLen

(* A content that agrees with the layout and ends within RawLen is one   *)
(* of the prefixes of the image.                                          *)
LEMMA RawPrefix ==
    ASSUME TypeOK, NEW s \in Seq(Byte),
           IsImagePrefix(s, blSize, kSize, Sector), Len(s) <= RawLen
    PROVE  s \in RawWriter!Prefixes(RawTarget)
<1>1. RawLen \in Nat
  BY RawLenBounds DEF TypeOK
<1>2. QED
  BY <1>1, PrefixOfImage DEF RawWriter!Prefixes, RawTarget
-----------------------------------------------------------------------------
(* The invariant. *)

LEMMA InitWInv == Init => WInv
BY InitAInv DEF Init, Output, WInv, NotRawBefore

LEMMA NextWInv == WInv /\ [Next]_vars => WInv'
<1> SUFFICES ASSUME WInv, [Next]_vars PROVE WInv'
  OBVIOUS
<1>1. AInv'
  BY NextAInv DEF WInv
<1>2. NotRawBefore'
  <2>1. CASE Validate \/ MakeOutputDir \/ MakeTempDir \/ StageKernel
               \/ StageBootloader \/ StageGrubCfg \/ RemoveInput
               \/ UNCHANGED vars
    <3>1. UNCHANGED out /\ (pc' \in PreRaw => pc \in PreRaw)
      BY <2>1 DEF Validate, MakeOutputDir, MakeTempDir, StageKernel,
                  StageBootloader, Stage, StageGrubCfg, RemoveInput, vars,
                  PreRaw, PreChain, Chain
    <3>2. QED
      BY <3>1 DEF WInv, NotRawBefore
  <2>2. CASE Cleanup \/ SimpleOpen \/ SimpleBootloader \/ SimplePad
               \/ SimpleKernel \/ SimplePadMin \/ SimpleClose
    <3>1. pc' \notin PreRaw
      BY <2>2 DEF Cleanup, SimpleOpen, SimpleBootloader, SimpleKernel,
                  SimpleCopy, SimplePad, SimplePadMin, SimpleWrite,
                  SimpleClose, SimpleFails, PreRaw, PreChain, Chain
    <3>2. QED
      BY <3>1 DEF NotRawBefore
  <2>3. CASE Grub \/ Mkisofs \/ Genisoimage
    <3>1. out.kind # "raw"
      BY <2>3 DEF Grub, Mkisofs, Genisoimage, IsoMaster, WInv, NotRawBefore,
                  PreRaw, Chain
    <3>2. out'.kind \in {out.kind, "iso", "partial"}
      BY <2>3 DEF Grub, Mkisofs, Genisoimage, IsoMaster, RunTool, Output
    <3>3. QED
      BY <3>1, <3>2 DEF NotRawBefore
  <2>4. QED
    BY <2>1, <2>2, <2>3 DEF Next
<1>3. QED
  BY <1>1, <1>2 DEF WInv
-----------------------------------------------------------------------------
(* The steps, mapped. *)

(* A step that touches neither the output, the history nor the inputs. *)
LEMMA RawStutter ==
    ASSUME UNCHANGED <<out, attempts, blSize, kSize>>
    PROVE  UNCHANGED RawWriter!wvars
BY RawTargetKept DEF RawWriter!wvars, RawFile, RawStatus, LastAttempt

(* A packaging tool writes an ISO or a partial file, never a raw image,  *)
(* and its run is recorded under its own name: no step of the writer.   *)
LEMMA ChainStutter ==
    ASSUME WInv, Grub \/ Mkisofs \/ Genisoimage
    PROVE  UNCHANGED RawWriter!wvars
<1>1. /\ pc \in Chain /\ out.kind # "raw" /\ IInv
      /\ UNCHANGED <<blSize, kSize>>
  <2>1. pc \in Chain /\ UNCHANGED <<blSize, kSize>>
    BY DEF Grub, Mkisofs, Genisoimage, IsoMaster, Env, Chain
  <2>2. QED
    BY <2>1 DEF WInv, NotRawBefore, PreRaw, AInv, RInv
<1>2. RawStatus = "running" /\ attempts \in Seq(Attempt)
  <2>1. NR(pc) \in 1..4
    <3>1. CASE pc = "grub"
      BY <3>1 DEF NR
    <3>2. CASE pc = "mkisofs"
      BY <3>2 DEF NR
    <3>3. CASE pc = "genisoimage"
      BY <3>3 DEF NR
    <3>4. QED
      BY <1>1, <3>1, <3>2, <3>3 DEF Chain
  <2>2. QED
    BY <1>1, <2>1, RunningBefore DEF IInv, TypeOK, Attempt
<1>3. out'.kind \in {out.kind, "iso", "partial"}
  BY DEF Grub, Mkisofs, Genisoimage, IsoMaster, RunTool, Output
<1>4. \/ UNCHANGED attempts
      \/ \E t \in Tools, r \in {"ok", "fail"} :
            attempts' = Append(attempts, <<t, r>>)
  BY DEF Grub, Mkisofs, Genisoimage, IsoMaster, RunTool, Tools
<1>5. RawStatus' = "running"
  <2>1. CASE UNCHANGED attempts
    BY <1>2, <2>1 DEF RawStatus, LastAttempt
  <2>2. CASE \E t \in Tools, r \in {"ok", "fail"} :
               attempts' = Append(attempts, <<t, r>>)
    <3>1. PICK t \in Tools, r \in {"ok", "fail"} :
                 attempts' = Append(attempts, <<t, r>>)
      BY <2>2
    <3>2. t \in Backends /\ t # "simple"
      BY DEF Tools, Backends
    <3>3. QED
      BY <1>2, <3>1, <3>2, AppendStatus
  <2>3. QED
    BY <1>4, <2>1, <2>2
<1>6. QED
  BY <1>1, <1>2, <1>3, <1>5, RawTargetKept
     DEF RawWriter!wvars, RawFile

(* open(output_path, 'wb'): what a tool left, or nothing, is replaced by *)
(* an empty raw file, or the exception is caught with the output as it   *)
(* was.                                                                    *)
LEMMA OpenRefines ==
    ASSUME WInv, SimpleOpen
    PROVE  [RawWriter!Next]_RawWriter!wvars
<1>1. /\ pc = "simple_open" /\ out.kind # "raw" /\ IInv
      /\ UNCHANGED <<blSize, kSize>>
  BY DEF SimpleOpen, Env, WInv, NotRawBefore, PreRaw, AInv, RInv
<1>2. RawStatus = "running" /\ attempts \in Seq(Attempt)
      /\ RawFile = NotRaw /\ RawTarget' = RawTarget
  <2>1. NR(pc) \in 1..4
    BY <1>1 DEF NR, SimpleSteps
  <2>2. QED
    BY <1>1, <2>1, RunningBefore, RawTargetKept
       DEF IInv, TypeOK, Attempt, RawFile
<1>3. CASE out' = Output("raw", "simple", <<>>) /\ pc' = "simple_bl"
           /\ UNCHANGED <<outcome, attempts>>
  <2>1. RawFile' = <<>> /\ RawStatus' = RawStatus
    BY <1>3 DEF Output, RawFile, RawStatus, LastAttempt
  <2>2. QED
    BY <1>2, <2>1 DEF RawWriter!Overwrite, RawWriter!Next
<1>4. CASE SimpleFails /\ UNCHANGED out
  <2>1. RawStatus' = "failure"
    BY <1>2, <1>4, AppendStatus DEF SimpleFails, Backends
  <2>2. UNCHANGED RawFile
    BY <1>4 DEF RawFile
  <2>3. QED
    BY <1>2, <2>1, <2>2 DEF RawWriter!Fail, RawWriter!Next
<1>5. QED
  BY <1>3, <1>4 DEF SimpleOpen
(* The facts about the raw file every write of the fallback starts from. *)
LEMMA RawStart ==
    ASSUME WInv, pc \in RawSteps
    PROVE  /\ TypeOK /\ out \in OutputType /\ out.kind = "raw"
           /\ out.bytes \in Seq(Byte) /\ RawFile = out.bytes
           /\ IsImagePrefix(out.bytes, blSize, kSize, Sector)
           /\ RawStatus = "running" /\ attempts \in Seq(Attempt)
           /\ RawLen \in Nat
<1>1. /\ TypeOK /\ IInv /\ out \in OutputType /\ out.kind = "raw"
      /\ IsImagePrefix(out.bytes, blSize, kSize, Sector)
      /\ attempts \in Seq(Attempt)
  BY DEF WInv, AInv, RInv, IInv, TypeOK, Attempt, RawAt, RawSteps,
         SimpleSteps
<1>2. NR(pc) \in 1..4
  BY DEF NR, RawSteps, SimpleSteps
<1>3. RawLen \in Nat
  BY <1>1, RawLenBounds DEF TypeOK
<1>4. QED
  BY <1>1, <1>2, <1>3, RunningBefore DEF OutputType, RawFile

(* A write of the fallback whose bytes end within the image: an Extend,  *)
(* a stutter when there is nothing to write, or, when the write raises,  *)
(* a Fail on a prefix of the image.  That the bytes are the image's is    *)
(* AInv after the step.                                                    *)
LEMMA RawWriteRefines ==
    ASSUME WInv, AInv', pc \in RawSteps, NEW data \in Seq(Byte), NEW to,
           Len(out.bytes) + Len(data) <= RawLen,
           SimpleWrite(data, to), UNCHANGED <<blSize, kSize>>
    PROVE  [RawWriter!Next]_RawWriter!wvars
<1>0. /\ TypeOK /\ out \in OutputType /\ out.kind = "raw"
      /\ out.bytes \in Seq(Byte) /\ RawFile = out.bytes
      /\ IsImagePrefix(out.bytes, blSize, kSize, Sector)
      /\ RawStatus = "running" /\ attempts \in Seq(Attempt)
      /\ RawLen \in Nat /\ RawTarget' = RawTarget
      /\ out.bytes \o data \in Seq(Byte)
      /\ Len(out.bytes \o data) = Len(out.bytes) + Len(data)
  BY RawStart, RawTargetKept, ConcatLen
<1>1. out.bytes \in RawWriter!Prefixes(RawTarget)
  BY <1>0, RawPrefix, SMT
<1>2. ASSUME out'.kind = "raw", out'.bytes \in Seq(Byte),
             Len(out'.bytes) <= RawLen
      PROVE  RawFile' = out'.bytes
             /\ out'.bytes \in RawWriter!Prefixes(RawTarget)
  <2>1. IsImagePrefix(out'.bytes, blSize, kSize, Sector)
    BY <1>2 DEF AInv, RawAt
  <2>2. QED
    BY <1>0, <1>2, <2>1, RawPrefix DEF RawFile
<1>3. CASE /\ out' = [out EXCEPT !.bytes = @ \o data]
           /\ pc' = to /\ UNCHANGED <<outcome, attempts>>
  <2>1. out'.kind = "raw" /\ out'.bytes = out.bytes \o data
    BY <1>0, <1>3 DEF OutputType
  <2>2. RawStatus' = "running"
    BY <1>0, <1>3 DEF RawStatus, LastAttempt
  <2>3. CASE Len(data) = 0
    <3>1. out'.bytes = out.bytes
      BY <1>0, <2>1, <2>3, SMT
    <3>2. QED
      BY <1>0, <2>1, <2>2, <3>1 DEF RawFile, RawWriter!wvars
  <2>4. CASE Len(data) > 0
    <3>1. Len(out'.bytes) <= RawLen /\ Len(out.bytes) < Len(out'.bytes)
      BY <1>0, <2>1, <2>4, SMT
    <3>2. QED
      BY <1>0, <1>1, <1>2, <2>1, <2>2, <3>1
         DEF RawWriter!Extend, RawWriter!Next
  <2>5. QED
    BY <2>3, <2>4, SMT
<1>4. CASE /\ Len(data) > 0
           /\ \E n \in 0..(Len(out.bytes) + Len(data) - 1) :
                 out' = [out EXCEPT !.bytes = SubSeq(@ \o data, 1, n)]
           /\ SimpleFails
  <2>1. PICK n \in 0..(Len(out.bytes) + Len(data) - 1) :
            out' = [out EXCEPT !.bytes = SubSeq(out.bytes \o data, 1, n)]
    BY <1>4
  <2>2. n \in 0..Len(out.bytes \o data) /\ n <= RawLen
    BY <1>0, <2>1, SMT
  <2>3. /\ out'.kind = "raw"
        /\ out'.bytes = SubSeq(out.bytes \o data, 1, n)
    BY <1>0, <2>1 DEF OutputType
  <2>4. out'.bytes \in Seq(Byte) /\ Len(out'.bytes) <= RawLen
    BY <1>0, <2>2, <2>3, SubSeqProperties
  <2>5. RawStatus' = "failure"
    BY <1>0, <1>4, AppendStatus DEF SimpleFails, Backends
  <2>6. QED
    BY <1>0, <1>1, <1>2, <2>3, <2>4, <2>5
       DEF RawWriter!Fail, RawWriter!Next
<1>5. QED
  BY <1>3, <1>4 DEF SimpleWrite
(* Open and read an input, then write it: a missing or unreadable input  *)
(* fails the fallback with the file as it is.                             *)
LEMMA CopyRefines ==
    ASSUME WInv, AInv', NEW f, NEW size, NEW from \in RawSteps, NEW to,
           Blob(f, size) \in Seq(Byte),
           Len(out.bytes) + Len(Blob(f, size)) <= RawLen,
           SimpleCopy(f, size, from, to)
    PROVE  [RawWriter!Next]_RawWriter!wvars
<1>1. pc \in RawSteps /\ UNCHANGED <<blSize, kSize>>
  BY DEF SimpleCopy, Env
<1>2. CASE SimpleFails /\ UNCHANGED out
  <2>1. RawStatus = "running" /\ attempts \in Seq(Attempt)
    BY <1>1, RawStart
  <2>2. RawStatus' = "failure"
    BY <1>2, <2>1, AppendStatus DEF SimpleFails, Backends
  <2>3. UNCHANGED RawFile /\ RawTarget' = RawTarget
    BY <1>1, <1>2, RawTargetKept DEF RawFile
  <2>4. QED
    BY <2>1, <2>2, <2>3 DEF RawWriter!Fail, RawWriter!Next
<1>3. CASE SimpleWrite(Blob(f, size), to)
  BY <1>1, <1>3, RawWriteRefines
<1>4. QED
  BY <1>2, <1>3 DEF SimpleCopy

(* The four writes of create_simple_iso, each ending within the image at *)
(* the length RawAt gives its successor step.                             *)
LEMMA RawWritesRefine ==
    ASSUME WInv, AInv',
           SimpleBootloader \/ SimplePad \/ SimpleKernel \/ SimplePadMin
    PROVE  [RawWriter!Next]_RawWriter!wvars
<1>0. /\ AInv /\ blSize \in Nat /\ kSize \in Nat
      /\ SpecOffset(blSize, Sector) = blSize + PadTo(blSize, Sector)
      /\ PadTo(blSize, Sector) \in 0..(Sector - 1)
      /\ RawLen \in Nat
      /\ RawLen >= SpecOffset(blSize, Sector) + kSize
  BY RawFacts, RawLenBounds DEF WInv
<1>1. CASE SimpleBootloader
  <2>1. pc = "simple_bl" /\ Len(out.bytes) = 0
    BY <1>0, <1>1 DEF SimpleBootloader, SimpleCopy, AInv, RawAt, RawLenAt,
                      RawSteps, SimpleSteps
  <2>2. Blob("bootloader", blSize) \in Seq(Byte)
        /\ Len(Blob("bootloader", blSize)) = blSize
    BY <1>0, BlobType
  <2>3. Len(out.bytes) + Len(Blob("bootloader", blSize)) <= RawLen
    BY <1>0, <2>1, <2>2, SMT
  <2>4. QED
    BY <1>1, <2>1, <2>2, <2>3, CopyRefines
       DEF SimpleBootloader, RawSteps, SimpleSteps
<1>2. CASE SimplePad
  <2>1. pc = "simple_pad" /\ Len(out.bytes) = blSize
        /\ UNCHANGED <<blSize, kSize>>
    BY <1>0, <1>2 DEF SimplePad, Env, AInv, RawAt, RawLenAt, RawSteps,
                      SimpleSteps
  <2>2. Zeros(PadTo(Len(out.bytes), Sector)) \in Seq(Byte)
        /\ Len(Zeros(PadTo(Len(out.bytes), Sector)))
             = PadTo(blSize, Sector)
    BY <1>0, <2>1, ZerosType
  <2>3. Len(out.bytes) + Len(Zeros(PadTo(Len(out.bytes), Sector))) <= RawLen
    BY <1>0, <2>1, <2>2, SMT
  <2>4. QED
    BY <1>2, <2>1, <2>2, <2>3, RawWriteRefines
       DEF SimplePad, RawSteps, SimpleSteps
<1>3. CASE SimpleKernel
  <2>1. pc = "simple_kernel" /\ Len(out.bytes) = SpecOffset(blSize, Sector)
    BY <1>0, <1>3 DEF SimpleKernel, SimpleCopy, AInv, RawAt, RawLenAt,
                      RawSteps, SimpleSteps
  <2>2. Blob("kernel", kSize) \in Seq(Byte)
        /\ Len(Blob("kernel", kSize)) = kSize
    BY <1>0, BlobType
  <2>3. Len(out.bytes) + Len(Blob("kernel", kSize)) <= RawLen
    BY <1>0, <2>1, <2>2, SMT
  <2>4. QED
    BY <1>3, <2>1, <2>2, <2>3, CopyRefines
       DEF SimpleKernel, RawSteps, SimpleSteps
<1>4. CASE SimplePadMin
  <2> DEFINE e == SpecOffset(blSize, Sector) + kSize
             p == PadToMin(Len(out.bytes), IsoMinSize)
  <2>1. pc = "simple_pad_min" /\ Len(out.bytes) = e
        /\ UNCHANGED <<blSize, kSize>>
    BY <1>0, <1>4 DEF SimplePadMin, Env, AInv, RawAt, RawLenAt, RawSteps,
                      SimpleSteps
  <2>2. e \in Nat /\ IsoMinSize \in Nat
    BY <1>0, SMT
  <2>3. /\ p = IF e < IsoMinSize THEN IsoMinSize - e ELSE 0
        /\ RawLen = IF e < IsoMinSize THEN IsoMinSize ELSE e
    BY <2>1 DEF PadToMin, RawLen
  <2>4. p \in Nat /\ Len(out.bytes) + p <= RawLen
    <3>1. CASE e < IsoMinSize
      BY <2>1, <2>2, <2>3, <3>1, SMT
    <3>2. CASE ~(e < IsoMinSize)
      BY <2>1, <2>2, <2>3, <3>2, SMT
    <3>3. QED
      BY <3>1, <3>2
  <2>5. Zeros(p) \in Seq(Byte) /\ Len(Zeros(p)) = p
    BY <2>4, ZerosType
  <2>6. QED
    BY <1>4, <2>1, <2>4, <2>5, RawWriteRefines
       DEF SimplePadMin, RawSteps, SimpleSteps
<1>5. QED
  BY <1>1, <1>2, <1>3, <1>4
(* Leaving the with block of create_simple_iso: the "ok" is recorded over *)
(* the whole image, or a failing flush leaves a shorter prefix of it.     *)
LEMMA CloseRefines ==
    ASSUME WInv, SimpleClose
    PROVE  [RawWriter!Next]_RawWriter!wvars
<1>1. pc = "simple_close" /\ UNCHANGED <<blSize, kSize>>
  BY DEF SimpleClose, Env
<1>2. /\ TypeOK /\ out \in OutputType /\ out.kind = "raw"
      /\ out.bytes \in Seq(Byte) /\ RawFile = out.bytes
      /\ IsImagePrefix(out.bytes, blSize, kSize, Sector)
      /\ RawStatus = "running" /\ attempts \in Seq(Attempt)
      /\ RawLen \in Nat /\ RawTarget' = RawTarget
  BY <1>1, RawStart, RawTargetKept DEF RawSteps, SimpleSteps
<1>3. Len(out.bytes) = RawLen
  BY <1>1 DEF WInv, AInv, RawAt, RawLenAt, RawSteps, SimpleSteps
<1>4. CASE /\ attempts' = Append(attempts, <<"simple", "ok">>)
           /\ pc' = "cleanup" /\ outcome' = "success"
           /\ UNCHANGED out
  <2>1. RawStatus' = "success"
    BY <1>2, <1>4, AppendStatus DEF Backends
  <2>2. RawFile = RawTarget /\ UNCHANGED RawFile
    BY <1>2, <1>3, <1>4, WholeImage DEF RawTarget, RawFile
  <2>3. QED
    BY <1>2, <2>1, <2>2 DEF RawWriter!Succeed, RawWriter!Next
<1>5. CASE /\ Len(out.bytes) > 0
           /\ \E n \in 0..(Len(out.bytes) - 1) :
                 out' = [out EXCEPT !.bytes = SubSeq(@, 1, n)]
           /\ SimpleFails
  <2>1. PICK n \in 0..(Len(out.bytes) - 1) :
            out' = [out EXCEPT !.bytes = SubSeq(out.bytes, 1, n)]
    BY <1>5
  <2>2. n \in 0..Len(out.bytes) /\ n <= RawLen
    BY <1>2, <1>3, <2>1, SMT
  <2>3. /\ out'.kind = "raw"
        /\ out'.bytes = SubSeq(out.bytes, 1, n)
    BY <1>2, <2>1 DEF OutputType
  <2>4. /\ out'.bytes \in Seq(Byte) /\ Len(out'.bytes) <= RawLen
        /\ IsImagePrefix(out'.bytes, blSize, kSize, Sector)
    BY <1>2, <2>2, <2>3, SubSeqProperties, PrefixOfPrefix
  <2>5. /\ RawFile \in RawWriter!Prefixes(RawTarget)
        /\ RawFile' \in RawWriter!Prefixes(RawTarget)
    <3>1. out.bytes \in RawWriter!Prefixes(RawTarget)
      BY <1>2, <1>3, RawPrefix
    <3>2. out'.bytes \in RawWriter!Prefixes(RawTarget)
      BY <1>2, <2>4, RawPrefix
    <3>3. RawFile' = out'.bytes
      BY <2>3 DEF RawFile
    <3>4. QED
      BY <1>2, <3>1, <3>2, <3>3
  <2>6. RawStatus' = "failure"
    BY <1>2, <1>5, AppendStatus DEF SimpleFails, Backends
  <2>7. QED
    BY <1>2, <2>5, <2>6 DEF RawWriter!Fail, RawWriter!Next
<1>6. QED
  BY <1>4, <1>5 DEF SimpleClose

(* Every step of create_iso.py is a step of the writer contract or leaves *)
(* the contract's state unchanged.                                         *)
LEMMA RawNextRefines ==
    WInv /\ [Next]_vars => [RawWriter!Next]_RawWriter!wvars
<1> SUFFICES ASSUME WInv, [Next]_vars
             PROVE  [RawWriter!Next]_RawWriter!wvars
  OBVIOUS
<1>1. CASE Validate \/ MakeOutputDir \/ MakeTempDir \/ StageKernel
             \/ StageBootloader \/ StageGrubCfg \/ Cleanup \/ RemoveInput
             \/ UNCHANGED vars
  <2>1. UNCHANGED <<out, attempts, blSize, kSize>>
    BY <1>1 DEF Validate, MakeOutputDir, MakeTempDir, StageKernel,
                StageBootloader, Stage, StageGrubCfg, Cleanup, RemoveInput,
                Env, vars
  <2>2. QED
    BY <2>1, RawStutter
<1>2. CASE Grub \/ Mkisofs \/ Genisoimage
  BY <1>2, ChainStutter
<1>3. CASE SimpleOpen
  BY <1>3, OpenRefines
<1>4. CASE SimpleBootloader \/ SimplePad \/ SimpleKernel \/ SimplePadMin
  <2>1. AInv'
    BY NextAInv DEF WInv
  <2>2. QED
    BY <1>4, <2>1, RawWritesRefine
<1>5. CASE SimpleClose
  BY <1>5, CloseRefines
<1>6. QED
  BY <1>1, <1>2, <1>3, <1>4, <1>5 DEF Next

(* Before main() runs, the output path holds nothing or an earlier       *)
(* build's file, and nothing has been recorded.                           *)
LEMMA RawInitRefines == Init => RawWriter!Init
BY DEF Init, Output, RawWriter!Init, RawFile, RawStatus

-----------------------------------------------------------------------------
(* Sections 4.4 and 5: the raw fallback of create_iso.py implements the  *)
(* writer contract for every sector size, floor and input size, with or  *)
(* without hanging tools: a packaging tool never leaves a raw image,      *)
(* open(output_path, 'wb') truncates once, every later write only extends *)
(* the file by the image's next bytes, an exception leaves the earlier    *)
(* content or a prefix of the image, and the fallback's "ok" is recorded  *)
(* only over the whole image.                                              *)
THEOREM RefinesRawWriter == Spec => ImplementsRawWriter
<1>1. Init => WInv /\ RawWriter!Init
  BY InitWInv, RawInitRefines
<1>2. WInv /\ [Next]_vars => WInv' /\ [RawWriter!Next]_RawWriter!wvars
  BY NextWInv, RawNextRefines
<1>3. QED
  BY <1>1, <1>2, PTL DEF Spec, ImplementsRawWriter, RawWriter!Spec
=============================================================================
