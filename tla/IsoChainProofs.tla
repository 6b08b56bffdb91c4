--------------------------- MODULE IsoChainProofs ---------------------------
(***************************************************************************)
(* Proofs about IsoChain for every sector size, floor and input size:     *)
(* create_iso.py's state always has its type, the packaging backends run  *)
(* in priority order with only the last one succeeding (FallbackOrder),   *)
(* and the staging tree is complete while a tool runs and removed once    *)
(* the process ends (StagingScoped).                                       *)
(*                                                                         *)
(* Neither property is inductive alone.  FallbackOrder needs to know that *)
(* the backend about to run ranks above every backend already run: the    *)
(* strengthening bounds the ranks in attempts by NR(pc), the rank of the   *)
(* next backend the control flow can reach.  StagingScoped needs the      *)
(* staging tree at every pc, not only at the tool calls.                  *)
(***************************************************************************)
EXTENDS IsoChain, ImageLayoutProofs, SequenceTheorems, TLAPS

Attempt == Backends \X {"ok", "fail"}

Chain == {"grub", "mkisofs", "genisoimage"}

SimpleSteps == {"simple_open", "simple_bl", "simple_pad", "simple_kernel",
                "simple_pad_min", "simple_close"}

Ended == {"cleanup", "done"}

(* The rank of the first backend that may still run from pc. *)
NR(p) == CASE p \in {"validate", "mkdir", "mktemp", "stage_kernel",
                     "stage_bootloader", "stage_grubcfg", "grub"} -> 1
           [] p = "mkisofs"      -> 2
           [] p = "genisoimage"  -> 3
           [] p \in SimpleSteps  -> 4
           [] OTHER              -> 5

Increasing(A) ==
    \A i, j \in 1..Len(A) : i < j => Rank[A[i][1]] < Rank[A[j][1]]

Below(A, n) == \A i \in 1..Len(A) : Rank[A[i][1]] < n

AllFail(A) == \A i \in 1..Len(A) : A[i][2] = "fail"

ButLastFail(A) == \A i \in 1..(Len(A) - 1) : A[i][2] = "fail"

(* The staging tree at every pc. *)
StagingAt ==
    /\ pc \in {"validate", "mkdir", "mktemp"} => tmpDir = "none" /\ staging = {}
    /\ pc = "stage_kernel" => tmpDir = "exists" /\ staging = {}
    /\ pc = "stage_bootloader" => tmpDir = "exists" /\ staging = {"kernel"}
    /\ pc = "stage_grubcfg"
          => tmpDir = "exists" /\ staging = {"kernel", "bootloader"}
    /\ pc \in Chain \cup SimpleSteps \cup {"hung"}
          => tmpDir = "exists" /\ staging = StagedFiles
    /\ pc = "cleanup" => tmpDir = "exists"
    /\ pc = "done" => tmpDir # "exists"

(* The order of the backends run so far, against the next one. *)
OrderAt ==
    /\ Increasing(attempts)
    /\ Below(attempts, NR(pc))
    /\ pc \notin Ended => AllFail(attempts)
    /\ ButLastFail(attempts)

IInv == TypeOK /\ StagingAt /\ OrderAt

USE SectorAssumption, IsoMinSizeAssumption, IsoBoundsAssumption,
    HangAssumption

-----------------------------------------------------------------------------
(* Lemmas about the order of attempts. *)

LEMMA RankFacts ==
    /\ Rank["grub-mkrescue"] = 1 /\ Rank["mkisofs"] = 2
    /\ Rank["genisoimage"] = 3 /\ Rank["simple"] = 4
    /\ \A b \in Backends : Rank[b] \in 1..4
BY DEF Rank, Backends, Tools

(* Appending a run of backend b, ranked above every earlier run, to a     *)
(* history of failures keeps it increasing, leaves every run but the last *)
(* a failure, and bounds the ranks by Rank[b] + 1.                         *)
LEMMA AppendOrder ==
    ASSUME NEW A \in Seq(Attempt), NEW b \in Backends, NEW r \in {"ok", "fail"},
           Increasing(A), AllFail(A), Below(A, Rank[b])
    PROVE  LET B == Append(A, <<b, r>>) IN
           /\ B \in Seq(Attempt)
           /\ Increasing(B)
           /\ Below(B, Rank[b] + 1)
           /\ ButLastFail(B)
           /\ r = "fail" => AllFail(B)
<1> DEFINE B == Append(A, <<b, r>>)
<1>1. /\ B \in Seq(Attempt) /\ Len(B) = Len(A) + 1
      /\ \A i \in 1..Len(A) : B[i] = A[i]
      /\ B[Len(A) + 1] = <<b, r>>
  <2>1. <<b, r>> \in Attempt
    BY DEF Attempt
  <2>2. QED
    BY <2>1, AppendProperties
<1>2. Rank[b] \in 1..4 /\ \A i \in 1..Len(A) : Rank[A[i][1]] \in 1..4
  <2>1. \A i \in 1..Len(A) : A[i][1] \in Backends
    BY DEF Attempt
  <2>2. QED
    BY <2>1, RankFacts
<1>3. Increasing(B)
  BY <1>1, <1>2 DEF Increasing, Below
<1>4. Below(B, Rank[b] + 1)
  BY <1>1, <1>2 DEF Below
<1>5. ButLastFail(B)
  BY <1>1 DEF ButLastFail, AllFail
<1>6. r = "fail" => AllFail(B)
  BY <1>1 DEF AllFail
<1>7. QED
  BY <1>1, <1>3, <1>4, <1>5, <1>6

(* NR names a rank for every pc. *)
LEMMA NRType == \A p : NR(p) \in 1..5
BY DEF NR

(* A step that runs no backend and moves pc forward keeps the order. *)
LEMMA KeepOrder ==
    ASSUME OrderAt, attempts \in Seq(Attempt),
           attempts' = attempts,
           NR(pc) <= NR(pc'),
           pc' \notin Ended => pc \notin Ended
    PROVE  OrderAt'
<1>1. Below(attempts, NR(pc'))
  <2>1. NR(pc) \in 1..5 /\ NR(pc') \in 1..5
    BY NRType
  <2>2. \A i \in 1..Len(attempts) : Rank[attempts[i][1]] \in 1..4
    BY RankFacts DEF Attempt
  <2>3. SUFFICES ASSUME NEW i \in 1..Len(attempts)
                 PROVE  Rank[attempts[i][1]] < NR(pc')
    BY DEF Below
  <2>4. Rank[attempts[i][1]] < NR(pc)
    BY DEF OrderAt, Below
  <2>5. QED
    BY <2>1, <2>2, <2>4, SMT
<1>2. QED
  BY <1>1 DEF OrderAt

(* A step that records a run of backend b, the next backend by rank,      *)
(* keeps the order when it moves pc past b and ends the chain on success. *)
LEMMA AppendStep ==
    ASSUME OrderAt, attempts \in Seq(Attempt), pc \notin Ended,
           NEW b \in Backends, NEW r \in {"ok", "fail"},
           Rank[b] = NR(pc),
           attempts' = Append(attempts, <<b, r>>),
           Rank[b] + 1 <= NR(pc'),
           r = "ok" => pc' \in Ended
    PROVE  OrderAt' /\ attempts' \in Seq(Attempt)
<1>1. Increasing(attempts) /\ AllFail(attempts) /\ Below(attempts, Rank[b])
  BY DEF OrderAt
<1>2. /\ attempts' \in Seq(Attempt)
      /\ Increasing(attempts')
      /\ Below(attempts', Rank[b] + 1)
      /\ ButLastFail(attempts')
      /\ r = "fail" => AllFail(attempts')
  BY <1>1, AppendOrder
<1>3. Below(attempts', NR(pc'))
  <2>1. \A i \in 1..Len(attempts') : Rank[attempts'[i][1]] \in 1..4
    BY <1>2, RankFacts DEF Attempt
  <2>2. NR(pc') \in 1..5 /\ Rank[b] \in 1..4
    BY NRType, RankFacts
  <2>3. SUFFICES ASSUME NEW i \in 1..Len(attempts')
                 PROVE  Rank[attempts'[i][1]] < NR(pc')
    BY DEF Below
  <2>4. Rank[attempts'[i][1]] < Rank[b] + 1
    BY <1>2 DEF Below
  <2>5. QED
    BY <2>1, <2>2, <2>4, SMT
<1>4. pc' \notin Ended => AllFail(attempts')
  BY <1>2
<1>5. QED
  BY <1>2, <1>3, <1>4 DEF OrderAt

-----------------------------------------------------------------------------
(* Lemmas about the steps of create_simple_iso. *)

(* The raw image stays a record of byte sequences under appends and      *)
(* truncations.                                                            *)
LEMMA BytesUpdate ==
    ASSUME NEW o \in OutputType, NEW s \in Seq(Byte)
    PROVE  [o EXCEPT !.bytes = s] \in OutputType
BY DEF OutputType

LEMMA ConcatBytes ==
    ASSUME NEW s \in Seq(Byte), NEW d \in Seq(Byte),
           NEW n \in 0..(Len(s) + Len(d))
    PROVE  s \o d \in Seq(Byte) /\ SubSeq(s \o d, 1, n) \in Seq(Byte)
<1>1. s \o d \in Seq(Byte) /\ Len(s \o d) = Len(s) + Len(d)
  BY ConcatProperties
<1>2. SubSeq(s \o d, 1, n) \in Seq(Byte)
  BY <1>1, SubSeqProperties
<1>3. QED
  BY <1>1, <1>2

(* SimpleFails from a step of the fallback: the failure is recorded after *)
(* every earlier run, and the staging tree is still there for cleanup.   *)
LEMMA SimpleFailsStep ==
    ASSUME IInv, pc \in SimpleSteps, SimpleFails, out' \in OutputType,
           UNCHANGED <<Env, tmpDir, staging>>
    PROVE  IInv'
<1>1. attempts \in Seq(Attempt) /\ NR(pc) = 4 /\ NR(pc') = 5
  BY DEF IInv, TypeOK, Attempt, SimpleFails, NR, SimpleSteps
<1>2. OrderAt' /\ attempts' \in Seq(Attempt)
  <2>1. "simple" \in Backends /\ Rank["simple"] = 4
    BY RankFacts DEF Backends
  <2>2. pc \notin Ended
    BY DEF SimpleSteps, Ended
  <2>3. QED
    BY <1>1, <2>1, <2>2, AppendStep DEF IInv, SimpleFails, Ended
<1>3. TypeOK'
  BY <1>2 DEF IInv, TypeOK, SimpleFails, Env, Attempt
<1>4. StagingAt'
  BY DEF IInv, StagingAt, SimpleFails, SimpleSteps, Chain
<1>5. QED
  BY <1>2, <1>3, <1>4 DEF IInv

(* One write of create_simple_iso, completed or failed. *)
LEMMA SimpleWriteStep ==
    ASSUME IInv, pc \in SimpleSteps, NEW data \in Seq(Byte),
           NEW to \in SimpleSteps, SimpleWrite(data, to),
           UNCHANGED <<Env, tmpDir, staging>>
    PROVE  IInv'
<1>1. out \in OutputType /\ out.bytes \in Seq(Byte)
  BY DEF IInv, TypeOK, OutputType
<1>2. CASE /\ out' = [out EXCEPT !.bytes = @ \o data]
           /\ pc' = to /\ UNCHANGED <<outcome, attempts>>
  <2>1. out' \in OutputType
    <3>1. out.bytes \o data \in Seq(Byte)
      BY <1>1, ConcatProperties
    <3>2. out' = [out EXCEPT !.bytes = out.bytes \o data]
      BY <1>2
    <3>3. QED
      BY <1>1, <3>1, <3>2, BytesUpdate
  <2>2. OrderAt'
    <3>1. NR(pc) = 4 /\ NR(pc') = 4
      BY <1>2 DEF NR, SimpleSteps
    <3>2. QED
      BY <1>2, <3>1, KeepOrder DEF IInv, TypeOK, Attempt, Ended, SimpleSteps
  <2>3. TypeOK'
    BY <1>2, <2>1 DEF IInv, TypeOK, Env, SimpleSteps
  <2>4. StagingAt'
    BY <1>2 DEF IInv, StagingAt, SimpleSteps, Chain
  <2>5. QED
    BY <2>2, <2>3, <2>4 DEF IInv
<1>3. CASE /\ Len(data) > 0
           /\ \E n \in 0..(Len(out.bytes) + Len(data) - 1) :
                 out' = [out EXCEPT !.bytes = SubSeq(@ \o data, 1, n)]
           /\ SimpleFails
  <2>1. PICK n \in 0..(Len(out.bytes) + Len(data) - 1) :
            out' = [out EXCEPT !.bytes = SubSeq(@ \o data, 1, n)]
    BY <1>3
  <2>2. n \in 0..(Len(out.bytes) + Len(data))
    BY <1>1, <2>1, SMT
  <2>3. out' \in OutputType
    <3>1. SubSeq(out.bytes \o data, 1, n) \in Seq(Byte)
      BY <1>1, <2>2, ConcatBytes
    <3>2. out' = [out EXCEPT !.bytes = SubSeq(out.bytes \o data, 1, n)]
      BY <2>1
    <3>3. QED
      BY <1>1, <3>1, <3>2, BytesUpdate
  <2>4. QED
    BY <1>3, <2>3, SimpleFailsStep
<1>4. QED
  BY <1>2, <1>3 DEF SimpleWrite

-----------------------------------------------------------------------------
(* One run of a packaging tool. *)

LEMMA ToolOutput ==
    ASSUME NEW t \in Tools, NEW k \in {"iso", "partial"}
    PROVE  Output(k, t, <<>>) \in OutputType
BY DEF Output, OutputType, OutKinds, Backends

(* A tool run at the backend whose turn it is: a success ends the chain, *)
(* a failure or an exception moves to a later backend, a hang stops.      *)
LEMMA RunToolStep ==
    ASSUME IInv, pc \in Chain, NEW t \in Tools, Rank[t] = NR(pc),
           NEW then \in Chain \cup SimpleSteps,
           NEW raised \in Chain \cup SimpleSteps,
           Rank[t] + 1 <= NR(then), Rank[t] + 1 <= NR(raised),
           RunTool(t, then, raised),
           UNCHANGED <<Env, tmpDir, staging>>
    PROVE  IInv'
<1>0. /\ attempts \in Seq(Attempt) /\ pc \notin Ended /\ t \in Backends
      /\ tmpDir = "exists" /\ staging = StagedFiles
  BY DEF IInv, TypeOK, Attempt, Ended, Chain, Backends, StagingAt
<1>1. CASE /\ out' = Output("iso", t, <<>>)
           /\ attempts' = Append(attempts, <<t, "ok">>)
           /\ pc' = "cleanup" /\ outcome' = "success"
  <2>1. NR(pc') = 5
    BY <1>1 DEF NR, SimpleSteps
  <2>2. OrderAt' /\ attempts' \in Seq(Attempt)
    BY <1>0, <1>1, <2>1, RankFacts, AppendStep DEF IInv, Ended
  <2>3. out' \in OutputType
    BY <1>1, ToolOutput
  <2>4. TypeOK'
    BY <1>1, <2>2, <2>3 DEF IInv, TypeOK, Env, Attempt
  <2>5. StagingAt'
    BY <1>0, <1>1 DEF StagingAt, SimpleSteps, Chain
  <2>6. QED
    BY <2>2, <2>4, <2>5 DEF IInv
<1>2. ASSUME NEW nx \in Chain \cup SimpleSteps, Rank[t] + 1 <= NR(nx),
             out' \in OutputType,
             attempts' = Append(attempts, <<t, "fail">>),
             pc' = nx, UNCHANGED outcome
      PROVE  IInv'
  <2>1. OrderAt' /\ attempts' \in Seq(Attempt)
    BY <1>0, <1>2, AppendStep DEF IInv
  <2>2. TypeOK'
    BY <1>2, <2>1 DEF IInv, TypeOK, Env, Attempt, Chain, SimpleSteps
  <2>3. StagingAt'
    BY <1>0, <1>2 DEF StagingAt, SimpleSteps, Chain
  <2>4. QED
    BY <2>1, <2>2, <2>3 DEF IInv
<1>3. CASE /\ out' \in {out, Output("partial", t, <<>>)}
           /\ attempts' = Append(attempts, <<t, "fail">>)
           /\ pc' = then /\ UNCHANGED outcome
  <2>1. out' \in OutputType
    BY <1>3, ToolOutput DEF IInv, TypeOK
  <2>2. QED
    BY <1>3, <2>1, <1>2
<1>4. CASE /\ attempts' = Append(attempts, <<t, "fail">>)
           /\ pc' = raised /\ UNCHANGED <<outcome, out>>
  <2>1. out' \in OutputType
    BY <1>4 DEF IInv, TypeOK
  <2>2. QED
    BY <1>4, <2>1, <1>2
<1>5. CASE /\ ToolsMayHang
           /\ pc' = "hung" /\ UNCHANGED <<outcome, out, attempts>>
  <2>1. OrderAt'
    <3>1. NR(pc) <= NR(pc')
      BY <1>5, NRType DEF NR
    <3>2. QED
      BY <1>0, <1>5, <3>1, KeepOrder DEF IInv, Ended
  <2>2. TypeOK'
    BY <1>5 DEF IInv, TypeOK, Env
  <2>3. StagingAt'
    BY <1>0, <1>5 DEF StagingAt, SimpleSteps, Chain
  <2>4. QED
    BY <2>1, <2>2, <2>3 DEF IInv
<1>6. QED
  BY <1>1, <1>3, <1>4, <1>5 DEF RunTool

-----------------------------------------------------------------------------
(* The inductive invariant. *)

LEMMA InitIInv == Init => IInv
<1> SUFFICES ASSUME Init PROVE IInv
  OBVIOUS
<1>1. TypeOK
  <2>1. out \in OutputType
    <3>1. <<>> \in Seq(Byte) /\ "none" \in Backends \cup {"none"}
      OBVIOUS
    <3>2. /\ Output("none", "none", <<>>) \in OutputType
          /\ Output("stale", "none", <<>>) \in OutputType
      BY <3>1 DEF Output, OutputType, OutKinds
    <3>3. QED
      BY <3>2 DEF Init
  <2>2. QED
    BY <2>1 DEF Init, TypeOK
<1>2. StagingAt
  BY DEF Init, StagingAt, Chain, SimpleSteps
<1>3. OrderAt
  BY DEF Init, OrderAt, Increasing, Below, AllFail, ButLastFail
<1>4. QED
  BY <1>1, <1>2, <1>3 DEF IInv

(* The steps before the chain: no backend runs, pc moves forward and the *)
(* staging tree grows one file at a time.                                 *)
LEMMA SetupStep ==
    ASSUME IInv,
           Validate \/ MakeOutputDir \/ MakeTempDir \/ StageKernel
             \/ StageBootloader \/ StageGrubCfg \/ Cleanup \/ RemoveInput
             \/ UNCHANGED vars
    PROVE  IInv'
<1>0. attempts \in Seq(Attempt)
  BY DEF IInv, TypeOK, Attempt
<1>1. UNCHANGED <<attempts, out>>
  BY DEF Validate, MakeOutputDir, MakeTempDir, StageKernel, StageBootloader,
         Stage, StageGrubCfg, Cleanup, RemoveInput, vars
<1>2. NR(pc) <= NR(pc') /\ (pc' \notin Ended => pc \notin Ended)
  BY NRType DEF Validate, MakeOutputDir, MakeTempDir, StageKernel,
                StageBootloader, Stage, StageGrubCfg, Cleanup, RemoveInput,
                vars, NR, Ended, SimpleSteps
<1>3. OrderAt'
  BY <1>0, <1>1, <1>2, KeepOrder DEF IInv
<1>4. TypeOK'
  <2>1. CASE Validate
    BY <1>1, <2>1 DEF IInv, TypeOK, Validate, Env
  <2>2. CASE MakeOutputDir
    BY <1>1, <2>2 DEF IInv, TypeOK, MakeOutputDir, Env
  <2>3. CASE MakeTempDir
    BY <1>1, <2>3 DEF IInv, TypeOK, MakeTempDir, Env
  <2>4. CASE StageKernel \/ StageBootloader
    <3>1. CASE StageKernel
      BY <1>1, <3>1 DEF IInv, TypeOK, StageKernel, Stage, StagedFiles, Env
    <3>2. CASE StageBootloader
      BY <1>1, <3>2 DEF IInv, TypeOK, StageBootloader, Stage, StagedFiles,
                        Env
    <3>3. QED
      BY <2>4, <3>1, <3>2
  <2>5. CASE StageGrubCfg
    BY <1>1, <2>5 DEF IInv, TypeOK, StageGrubCfg, StagedFiles, Env
  <2>6. CASE Cleanup
    BY <1>1, <2>6 DEF IInv, TypeOK, Cleanup, Env
  <2>7. CASE RemoveInput
    BY <1>1, <2>7 DEF IInv, TypeOK, RemoveInput, Inputs, Kinds, Env
  <2>8. CASE UNCHANGED vars
    BY <1>1, <2>8 DEF IInv, TypeOK, vars, Env
  <2>9. QED
    BY <2>1, <2>2, <2>3, <2>4, <2>5, <2>6, <2>7, <2>8
<1>5. StagingAt'
  BY DEF IInv, StagingAt, Validate, MakeOutputDir, MakeTempDir, StageKernel,
         StageBootloader, Stage, StageGrubCfg, Cleanup, RemoveInput, vars,
         Env, StagedFiles, Chain, SimpleSteps
<1>6. QED
  BY <1>3, <1>4, <1>5 DEF IInv

(* A which probe of create_iso_with_mkisofs and, when the tool is there,  *)
(* its run: an exception skips to the raw fallback, a missing tool to the *)
(* next name.                                                              *)
LEMMA IsoMasterStep ==
    ASSUME IInv, NEW t \in {"mkisofs", "genisoimage"},
           NEW next \in Chain \cup SimpleSteps,
           Rank[t] = NR(t), Rank[t] + 1 <= NR(next),
           IsoMaster(t, next)
    PROVE  IInv'
<1>0. /\ pc = t /\ pc \in Chain /\ t \in Tools
      /\ attempts \in Seq(Attempt) /\ pc \notin Ended
      /\ UNCHANGED <<Env, tmpDir, staging>>
  BY DEF IsoMaster, Chain, Tools, IInv, TypeOK, Attempt, Ended
<1>1. ASSUME NEW nx \in Chain \cup SimpleSteps, NR(pc) <= NR(nx),
             pc' = nx, UNCHANGED <<outcome, out, attempts>>
      PROVE  IInv'
  <2>1. OrderAt'
    BY <1>0, <1>1, KeepOrder DEF IInv, Ended, Chain, SimpleSteps
  <2>2. TypeOK'
    BY <1>0, <1>1 DEF IInv, TypeOK, Env, Chain, SimpleSteps
  <2>3. StagingAt'
    BY <1>0, <1>1 DEF IInv, StagingAt, Chain, SimpleSteps
  <2>4. QED
    BY <2>1, <2>2, <2>3 DEF IInv
<1>2. NR("simple_open") = 4 /\ Rank[t] + 1 <= 4
  BY RankFacts DEF NR, SimpleSteps
<1>3. CASE ~whichOk /\ pc' = "simple_open" /\ UNCHANGED <<outcome, out, attempts>>
  <2>1. "simple_open" \in Chain \cup SimpleSteps /\ NR(pc) <= NR("simple_open")
    BY <1>0, <1>2, RankFacts DEF SimpleSteps
  <2>2. QED
    BY <1>3, <2>1, <1>1
<1>4. CASE whichOk /\ t \notin installed /\ pc' = next
           /\ UNCHANGED <<outcome, out, attempts>>
  <2>1. NR(pc) <= NR(next)
    BY <1>0, RankFacts, NRType
  <2>2. QED
    BY <1>4, <2>1, <1>1
<1>5. CASE whichOk /\ t \in installed /\ RunTool(t, next, "simple_open")
  BY <1>0, <1>2, <1>5, RunToolStep DEF SimpleSteps
<1>6. QED
  BY <1>3, <1>4, <1>5 DEF IsoMaster

(* The three packaging tools, in the order of main(). *)
LEMMA ChainStep ==
    ASSUME IInv, Grub \/ Mkisofs \/ Genisoimage
    PROVE  IInv'
<1>1. CASE Grub
  <2>0. /\ pc = "grub" /\ NR(pc) = 1 /\ Rank["grub-mkrescue"] = 1
        /\ NR("mkisofs") = 2 /\ attempts \in Seq(Attempt)
        /\ UNCHANGED <<Env, tmpDir, staging>>
    <3>1. pc = "grub" /\ UNCHANGED <<Env, tmpDir, staging>>
      BY <1>1 DEF Grub
    <3>2. NR("grub") = 1 /\ NR("mkisofs") = 2
      BY DEF NR, SimpleSteps
    <3>3. QED
      BY <3>1, <3>2, RankFacts DEF IInv, TypeOK, Attempt
  <2>1. CASE pc' = "mkisofs" /\ UNCHANGED <<outcome, out, attempts>>
    <3>1. OrderAt'
      BY <2>0, <2>1, KeepOrder DEF IInv, Ended
    <3>2. TypeOK'
      BY <2>0, <2>1 DEF IInv, TypeOK, Env
    <3>3. StagingAt'
      BY <2>0, <2>1 DEF IInv, StagingAt, Chain, SimpleSteps
    <3>4. QED
      BY <3>1, <3>2, <3>3 DEF IInv
  <2>2. CASE RunTool("grub-mkrescue", "mkisofs", "mkisofs")
    BY <2>0, <2>2, RunToolStep DEF Chain, Tools
  <2>3. QED
    BY <1>1, <2>1, <2>2 DEF Grub
<1>2. CASE Mkisofs
  <2>1. Rank["mkisofs"] = NR("mkisofs") /\ Rank["mkisofs"] + 1 <= NR("genisoimage")
    BY RankFacts DEF NR, SimpleSteps
  <2>2. QED
    BY <1>2, <2>1, IsoMasterStep DEF Mkisofs, Chain
<1>3. CASE Genisoimage
  <2>1. Rank["genisoimage"] = NR("genisoimage")
        /\ Rank["genisoimage"] + 1 <= NR("simple_open")
    BY RankFacts DEF NR, SimpleSteps
  <2>2. QED
    BY <1>3, <2>1, IsoMasterStep DEF Genisoimage, SimpleSteps
<1>4. QED
  BY <1>1, <1>2, <1>3

(* The steps of create_simple_iso. *)
LEMMA SimpleStep ==
    ASSUME IInv,
           SimpleOpen \/ SimpleBootloader \/ SimplePad \/ SimpleKernel
             \/ SimplePadMin \/ SimpleClose
    PROVE  IInv'
<1>0. /\ out \in OutputType /\ out.bytes \in Seq(Byte)
      /\ Len(out.bytes) \in Nat /\ blSize \in Nat /\ kSize \in Nat
  BY DEF IInv, TypeOK, OutputType
<1>1. CASE SimpleOpen
  <2>0. pc = "simple_open" /\ pc \in SimpleSteps
        /\ UNCHANGED <<Env, tmpDir, staging>>
    BY <1>1 DEF SimpleOpen, SimpleSteps
  <2>1. CASE out' = Output("raw", "simple", <<>>) /\ pc' = "simple_bl"
             /\ UNCHANGED <<outcome, attempts>>
    <3>1. OrderAt'
      <4>1. NR(pc) = 4 /\ NR(pc') = 4
        BY <2>0, <2>1 DEF NR, SimpleSteps
      <4>2. QED
        BY <2>0, <2>1, <4>1, KeepOrder DEF IInv, TypeOK, Attempt, Ended,
                                           SimpleSteps
    <3>2. out' \in OutputType
      BY <2>1 DEF Output, OutputType, OutKinds, Backends
    <3>3. TypeOK'
      BY <2>0, <2>1, <3>2 DEF IInv, TypeOK, Env
    <3>4. StagingAt'
      BY <2>0, <2>1 DEF IInv, StagingAt, SimpleSteps, Chain
    <3>5. QED
      BY <3>1, <3>3, <3>4 DEF IInv
  <2>2. CASE SimpleFails /\ UNCHANGED out
    BY <1>0, <2>0, <2>2, SimpleFailsStep
  <2>3. QED
    BY <1>1, <2>1, <2>2 DEF SimpleOpen
<1>2. ASSUME NEW f \in {"bootloader", "kernel"}, NEW size \in Nat,
             NEW from \in SimpleSteps, NEW to \in SimpleSteps,
             SimpleCopy(f, size, from, to)
      PROVE  IInv'
  <2>0. pc \in SimpleSteps /\ UNCHANGED <<Env, tmpDir, staging>>
    BY <1>2 DEF SimpleCopy
  <2>1. CASE SimpleFails /\ UNCHANGED out
    BY <1>0, <2>0, <2>1, SimpleFailsStep
  <2>2. CASE SimpleWrite(Blob(f, size), to)
    <3>1. Blob(f, size) \in Seq(Byte)
      BY BlobType
    <3>2. QED
      BY <2>0, <2>2, <3>1, SimpleWriteStep
  <2>3. QED
    BY <1>2, <2>1, <2>2 DEF SimpleCopy
<1>3. CASE SimpleBootloader
  BY <1>0, <1>3, <1>2 DEF SimpleBootloader, SimpleSteps
<1>4. CASE SimpleKernel
  BY <1>0, <1>4, <1>2 DEF SimpleKernel, SimpleSteps
<1>5. CASE SimplePad
  <2>1. PadTo(Len(out.bytes), Sector) \in Nat
    <3>1. PadTo(Len(out.bytes), Sector) \in 0..(Sector - 1)
      BY <1>0, PadToBounds
    <3>2. QED
      BY <3>1, SMT
  <2>2. Zeros(PadTo(Len(out.bytes), Sector)) \in Seq(Byte)
    BY <2>1, ZerosType
  <2>3. QED
    BY <1>5, <2>2, SimpleWriteStep DEF SimplePad, SimpleSteps
<1>6. CASE SimplePadMin
  <2>1. PadToMin(Len(out.bytes), IsoMinSize) \in Nat
    BY <1>0, SMT DEF PadToMin
  <2>2. Zeros(PadToMin(Len(out.bytes), IsoMinSize)) \in Seq(Byte)
    BY <2>1, ZerosType
  <2>3. QED
    BY <1>6, <2>2, SimpleWriteStep DEF SimplePadMin, SimpleSteps
<1>7. CASE SimpleClose
  <2>0. /\ pc = "simple_close" /\ pc \in SimpleSteps /\ pc \notin Ended
        /\ UNCHANGED <<Env, tmpDir, staging>>
    BY <1>7 DEF SimpleClose, SimpleSteps, Ended
  <2>1. CASE /\ attempts' = Append(attempts, <<"simple", "ok">>)
             /\ pc' = "cleanup" /\ outcome' = "success"
             /\ UNCHANGED out
    <3>1. OrderAt' /\ attempts' \in Seq(Attempt)
      <4>1. "simple" \in Backends /\ Rank["simple"] = NR(pc)
            /\ Rank["simple"] + 1 <= NR(pc')
        BY <2>0, <2>1, RankFacts DEF Backends, NR, SimpleSteps
      <4>2. QED
        BY <2>0, <2>1, <4>1, AppendStep DEF IInv, TypeOK, Attempt, Ended
    <3>2. TypeOK'
      BY <2>0, <2>1, <3>1 DEF IInv, TypeOK, Env, Attempt
    <3>3. StagingAt'
      BY <2>0, <2>1 DEF IInv, StagingAt, SimpleSteps, Chain
    <3>4. QED
      BY <3>1, <3>2, <3>3 DEF IInv
  <2>2. CASE /\ Len(out.bytes) > 0
             /\ \E n \in 0..(Len(out.bytes) - 1) :
                   out' = [out EXCEPT !.bytes = SubSeq(@, 1, n)]
             /\ SimpleFails
    <3>1. PICK n \in 0..(Len(out.bytes) - 1) :
              out' = [out EXCEPT !.bytes = SubSeq(out.bytes, 1, n)]
      BY <2>2
    <3>2. SubSeq(out.bytes, 1, n) \in Seq(Byte)
      <4>1. n \in 0..(Len(out.bytes) + Len(<<>>)) /\ out.bytes \o <<>> = out.bytes
        BY <1>0, SMT
      <4>2. QED
        BY <1>0, <4>1, ConcatBytes
    <3>3. out' \in OutputType
      BY <1>0, <3>1, <3>2, BytesUpdate
    <3>4. QED
      BY <2>0, <2>2, <3>3, SimpleFailsStep
  <2>3. QED
    BY <1>7, <2>1, <2>2 DEF SimpleClose
<1>8. QED
  BY <1>1, <1>3, <1>4, <1>5, <1>6, <1>7

LEMMA NextIInv == IInv /\ [Next]_vars => IInv'
<1> SUFFICES ASSUME IInv, [Next]_vars PROVE IInv'
  OBVIOUS
<1>1. CASE Validate \/ MakeOutputDir \/ MakeTempDir \/ StageKernel
             \/ StageBootloader \/ StageGrubCfg \/ Cleanup \/ RemoveInput
             \/ UNCHANGED vars
  BY <1>1, SetupStep
<1>2. CASE Grub \/ Mkisofs \/ Genisoimage
  BY <1>2, ChainStep
<1>3. CASE SimpleOpen \/ SimpleBootloader \/ SimplePad \/ SimpleKernel
             \/ SimplePadMin \/ SimpleClose
  BY <1>3, SimpleStep
<1>4. QED
  BY <1>1, <1>2, <1>3 DEF Next

-----------------------------------------------------------------------------
(* Theorems. *)

(* The state of create_iso.py always has its type, for every sector size, *)
(* floor and size bound.                                                   *)
THEOREM IsoTypeCorrect == Spec => []TypeOK
<1>1. IInv => TypeOK
  BY DEF IInv
<1>2. QED
  BY <1>1, InitIInv, NextIInv, PTL DEF Spec

(* main() runs grub-mkrescue, mkisofs, genisoimage and create_simple_iso  *)
(* in that order, each at most once, and stops at the first success:     *)
(* every backend run but the last has failed.  Holds whatever tools are   *)
(* installed, how they end, and whether they hang.                       *)
THEOREM FallbackOrderHolds == Spec => []FallbackOrder
<1>1. IInv => FallbackOrder
  BY DEF IInv, OrderAt, Increasing, ButLastFail, FallbackOrder
<1>2. QED
  BY <1>1, InitIInv, NextIInv, PTL DEF Spec

(* The TemporaryDirectory holds the whole staging tree whenever a         *)
(* packaging tool is called, and is removed on every path out of main(), *)
(* a copy that raises during staging included.                            *)
THEOREM StagingScopedHolds == Spec => []StagingScoped
<1>1. IInv => StagingScoped
  BY DEF IInv, StagingAt, StagingScoped, Chain
<1>2. QED
  BY <1>1, InitIInv, NextIInv, PTL DEF Spec
=============================================================================
