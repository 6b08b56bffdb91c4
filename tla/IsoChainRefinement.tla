------------------------- MODULE IsoChainRefinement -------------------------
(***************************************************************************)
(* Proof that create_iso.py's main() implements the strategy chain of    *)
(* spec.md section 4.4 (PackagingChain) under the mapping Abstract of     *)
(* IsoChain, for every sector size, floor and bound, and whether or not   *)
(* tools may hang: every step of the build is a step of the chain or     *)
(* leaves the chain's state as it was.                                     *)
(*                                                                         *)
(* The mapping reads the chain's phase off pc and the exit status, so    *)
(* the proof needs, besides IInv, that the status stays "running" until  *)
(* the with block is left (RunningAt); and it needs IInv's bound on the  *)
(* ranks in attempts to know that nothing has run before grub-mkrescue.  *)
(***************************************************************************)
EXTENDS IsoChainProofs

(* main() decides the exit status only on its way out of the with block. *)
RunningAt == pc \notin Ended => outcome = "running"

RInv == IInv /\ RunningAt

PreChain == {"validate", "mkdir", "mktemp", "stage_kernel",
             "stage_bootloader", "stage_grubcfg"}

-----------------------------------------------------------------------------
(* The exit status. *)

LEMMA InitRunning == Init => RunningAt
BY DEF Init, RunningAt, Ended

LEMMA NextRunning == RunningAt /\ [Next]_vars => RunningAt'
<1> SUFFICES ASSUME RunningAt, [Next]_vars PROVE RunningAt'
  OBVIOUS
<1>1. CASE Validate \/ MakeOutputDir \/ MakeTempDir \/ StageKernel
             \/ StageBootloader \/ StageGrubCfg \/ Cleanup \/ RemoveInput
             \/ UNCHANGED vars
  BY <1>1 DEF Validate, MakeOutputDir, MakeTempDir, StageKernel,
              StageBootloader, Stage, StageGrubCfg, Cleanup, RemoveInput,
              vars, RunningAt, Ended
<1>2. CASE Grub \/ Mkisofs \/ Genisoimage
  BY <1>2 DEF Grub, Mkisofs, Genisoimage, IsoMaster, RunTool, RunningAt,
              Ended
<1>3. CASE SimpleOpen \/ SimpleBootloader \/ SimplePad \/ SimpleKernel
             \/ SimplePadMin \/ SimpleClose
  BY <1>3 DEF SimpleOpen, SimpleBootloader, SimplePad, SimpleKernel,
              SimplePadMin, SimpleClose, SimpleCopy, SimpleWrite,
              SimpleFails, RunningAt, Ended
<1>4. QED
  BY <1>1, <1>2, <1>3 DEF Next

LEMMA NextRInv == RInv /\ [Next]_vars => RInv'
BY NextIInv, NextRunning DEF RInv

LEMMA InitRInv == Init => RInv
BY InitIInv, InitRunning DEF RInv

-----------------------------------------------------------------------------
(* The mapping at each pc. *)

LEMMA OrderFacts ==
    /\ Len(ChainOrder) = 4
    /\ \A b \in Backends : ChainOrder[Rank[b]] = b
BY DEF ChainOrder, Rank, Backends, Tools

(* While grub-mkrescue is still ahead, nothing has run. *)
LEMMA NothingRun ==
    ASSUME IInv, NR(pc) = 1
    PROVE  attempts = <<>>
<1>1. attempts \in Seq(Attempt) /\ Below(attempts, 1)
  BY DEF IInv, TypeOK, Attempt, OrderAt
<1>2. \A i \in 1..Len(attempts) : Rank[attempts[i][1]] \in 1..4
  BY <1>1, RankFacts DEF Attempt
<1>3. Len(attempts) = 0
  BY <1>1, <1>2 DEF Below
<1>4. QED
  BY <1>1, <1>3, EmptySeq

(* Before the chain, nothing has run and the chain has not started. *)
LEMMA MapPreChain ==
    ASSUME RInv, pc \in PreChain
    PROVE  ChainPhase = "notstarted" /\ ChainNext = 1 /\ attempts = <<>>
<1>1. attempts = <<>>
  <2>1. NR(pc) = 1
    BY DEF NR, PreChain, SimpleSteps
  <2>2. QED
    BY <2>1, NothingRun DEF RInv
<1>2. QED
  BY <1>1 DEF RInv, RunningAt, Ended, PreChain, ChainPhase, ChainSteps,
              ChainNext

-----------------------------------------------------------------------------
(* Steps of the chain. *)

(* A run of the tool whose turn it is: success is the chain's Succeed, a *)
(* failure or an exception its Fail, a hang a Skip to the last strategy. *)
LEMMA RunToolRefines ==
    ASSUME IInv, NEW t \in Tools, ChainPhase = "trying", ChainNext = Rank[t],
           NEW then \in {"mkisofs", "genisoimage", "simple_open"},
           NEW raised \in {"mkisofs", "genisoimage", "simple_open"},
           Rank[t] < NR(then), Rank[t] < NR(raised),
           RunTool(t, then, raised)
    PROVE  Abstract!Succeed \/ Abstract!Fail \/ Abstract!Skip
<1>0. /\ attempts \in Seq(Attempt)
      /\ <<t, "ok">> \in Attempt /\ <<t, "fail">> \in Attempt
      /\ Rank[t] \in 1..3 /\ ChainOrder[Rank[t]] = t
      /\ Len(ChainOrder) = 4
  BY OrderFacts DEF IInv, TypeOK, Attempt, Backends, Tools, Rank
<1>1. CASE /\ out' = Output("iso", t, <<>>)
           /\ attempts' = Append(attempts, <<t, "ok">>)
           /\ pc' = "cleanup" /\ outcome' = "success"
  <2>1. /\ Len(attempts') = Len(attempts) + 1
        /\ attempts'[Len(attempts')] = <<t, "ok">>
    BY <1>0, <1>1, AppendProperties
  <2>2. ChainPhase' = "succeeded"
    BY <1>1 DEF ChainPhase, ChainSteps
  <2>3. ChainNext' = Rank[t]
    BY <1>0, <1>1, <2>1 DEF ChainNext, ChainSteps, LastAttempt
  <2>4. QED
    BY <1>0, <1>1, <2>2, <2>3 DEF Abstract!Succeed
<1>2. ASSUME NEW nx \in {"mkisofs", "genisoimage", "simple_open"},
             Rank[t] < NR(nx),
             attempts' = Append(attempts, <<t, "fail">>), pc' = nx
      PROVE  Abstract!Fail
  <2>1. ChainPhase' = "trying" /\ ChainNext' = NR(nx)
    BY <1>2 DEF ChainPhase, ChainSteps, ChainNext, NR, SimpleSteps, Rank,
                Backends, Tools
  <2>2. NR(nx) \in (Rank[t] + 1)..4
    BY <1>0, <1>2 DEF NR, SimpleSteps
  <2>3. QED
    BY <1>0, <1>2, <2>1, <2>2 DEF Abstract!Fail, Abstract!N
<1>3. CASE /\ ToolsMayHang
           /\ pc' = "hung" /\ UNCHANGED <<outcome, out, attempts>>
  <2>1. ChainPhase' = "trying" /\ ChainNext' = 4
    BY <1>3 DEF ChainPhase, ChainSteps, ChainNext, Rank, Backends, Tools
  <2>2. QED
    BY <1>0, <1>3, <2>1 DEF Abstract!Skip, Abstract!N
<1>4. QED
  BY <1>1, <1>2, <1>3 DEF RunTool

(* create_iso_with_grub: a failed probe is a Skip to mkisofs. *)
LEMMA GrubRefines ==
    ASSUME RInv, Grub
    PROVE  Abstract!Next
<1>0. /\ pc = "grub" /\ ChainPhase = "trying" /\ ChainNext = 1
      /\ Rank["grub-mkrescue"] = 1 /\ Len(ChainOrder) = 4
  <2>1. pc = "grub" /\ NR(pc) = 1
    BY DEF Grub, NR, SimpleSteps
  <2>2. attempts = <<>>
    BY <2>1, NothingRun DEF RInv
  <2>3. QED
    BY <2>2, RankFacts, OrderFacts DEF Grub, ChainPhase, ChainSteps, ChainNext
<1>1. CASE pc' = "mkisofs" /\ UNCHANGED <<outcome, out, attempts>>
  <2>1. ChainPhase' = "trying" /\ ChainNext' = 2
    BY <1>1 DEF ChainPhase, ChainSteps, ChainNext, Rank, Backends, Tools
  <2>2. QED
    BY <1>0, <1>1, <2>1 DEF Abstract!Skip, Abstract!N, Abstract!Next
<1>2. CASE RunTool("grub-mkrescue", "mkisofs", "mkisofs")
  <2>1. Rank["grub-mkrescue"] < NR("mkisofs")
    BY <1>0 DEF NR, SimpleSteps
  <2>2. QED
    BY <1>0, <1>2, <2>1, RunToolRefines DEF RInv, Tools, Abstract!Next
<1>3. QED
  BY <1>1, <1>2 DEF Grub

(* create_iso_with_mkisofs for one name: a failed `which` is a Skip to  *)
(* the fallback, a missing tool a Skip to the next name.                  *)
LEMMA IsoMasterRefines ==
    ASSUME IInv, NEW t \in {"mkisofs", "genisoimage"},
           NEW nx \in {"genisoimage", "simple_open"}, Rank[t] < NR(nx),
           IsoMaster(t, nx)
    PROVE  Abstract!Next
<1>0. /\ pc = t /\ ChainPhase = "trying" /\ ChainNext = Rank[t]
      /\ Rank[t] \in 2..3 /\ Len(ChainOrder) = 4
      /\ NR("simple_open") = 4
  BY OrderFacts DEF IsoMaster, ChainPhase, ChainSteps, ChainNext, Rank,
                    Backends, Tools, NR, SimpleSteps
<1>1. ASSUME NEW p \in {"genisoimage", "simple_open"}, Rank[t] < NR(p),
             pc' = p, UNCHANGED attempts
      PROVE  Abstract!Skip
  <2>1. ChainPhase' = "trying" /\ ChainNext' = NR(p)
    BY <1>1 DEF ChainPhase, ChainSteps, ChainNext, NR, SimpleSteps, Rank,
                Backends, Tools
  <2>2. NR(p) \in (Rank[t] + 1)..4
    BY <1>0, <1>1 DEF NR, SimpleSteps
  <2>3. QED
    BY <1>0, <1>1, <2>1, <2>2 DEF Abstract!Skip, Abstract!N
<1>2. CASE RunTool(t, nx, "simple_open")
  BY <1>0, <1>2, RunToolRefines DEF Tools, Abstract!Next
<1>3. QED
  BY <1>0, <1>1, <1>2 DEF IsoMaster, Abstract!Next

LEMMA ChainRefines ==
    ASSUME RInv, Grub \/ Mkisofs \/ Genisoimage
    PROVE  Abstract!Next
<1>1. CASE Grub
  BY <1>1, GrubRefines
<1>2. CASE Mkisofs
  <2>1. Rank["mkisofs"] < NR("genisoimage")
    BY DEF Rank, Backends, Tools, NR, SimpleSteps
  <2>2. QED
    BY <1>2, <2>1, IsoMasterRefines DEF Mkisofs, RInv
<1>3. CASE Genisoimage
  <2>1. Rank["genisoimage"] < NR("simple_open")
    BY DEF Rank, Backends, Tools, NR, SimpleSteps
  <2>2. QED
    BY <1>3, <2>1, IsoMasterRefines DEF Genisoimage, RInv
<1>4. QED
  BY <1>1, <1>2, <1>3

(* A failure anywhere in create_simple_iso is the chain's Fail at its  *)
(* last strategy: AllExhausted.                                           *)
LEMMA SimpleFailsRefines ==
    ASSUME IInv, pc \in SimpleSteps, SimpleFails
    PROVE  Abstract!Fail
<1>0. /\ attempts \in Seq(Attempt) /\ <<"simple", "fail">> \in Attempt
      /\ ChainPhase = "trying" /\ ChainNext = 4
      /\ Len(ChainOrder) = 4 /\ ChainOrder[4] = "simple"
  BY DEF IInv, TypeOK, Attempt, Backends, ChainPhase, ChainSteps, ChainNext,
         SimpleSteps, Rank, ChainOrder
<1>1. /\ Len(attempts') = Len(attempts) + 1
      /\ attempts'[Len(attempts')] = <<"simple", "fail">>
  BY <1>0, AppendProperties DEF SimpleFails
<1>2. ChainPhase' = "exhausted" /\ ChainNext' = 4
  BY <1>1 DEF SimpleFails, ChainPhase, ChainSteps, ChainNext, LastAttempt,
              Rank, Backends, Tools
<1>3. QED
  BY <1>0, <1>2 DEF SimpleFails, Abstract!Fail, Abstract!N

(* Inside create_simple_iso without a failure: the chain's state stays. *)
LEMMA SimpleStutter ==
    ASSUME pc \in SimpleSteps, pc' \in SimpleSteps, UNCHANGED attempts
    PROVE  UNCHANGED Abstract!avars
BY DEF ChainPhase, ChainSteps, ChainNext, SimpleSteps, Abstract!avars

(* A write of create_simple_iso: it goes on, or fails. *)
LEMMA SimpleWriteRefines ==
    ASSUME IInv, pc \in SimpleSteps, NEW data, NEW to \in SimpleSteps,
           SimpleWrite(data, to)
    PROVE  [Abstract!Next]_Abstract!avars
<1>1. CASE pc' = to /\ UNCHANGED attempts
  BY <1>1, SimpleStutter
<1>2. CASE SimpleFails
  BY <1>2, SimpleFailsRefines DEF Abstract!Next
<1>3. QED
  BY <1>1, <1>2 DEF SimpleWrite

(* The flush at the end of create_simple_iso succeeds: Succeed. *)
LEMMA SimpleCloseRefines ==
    ASSUME IInv, SimpleClose
    PROVE  [Abstract!Next]_Abstract!avars
<1>0. /\ pc = "simple_close" /\ attempts \in Seq(Attempt)
      /\ <<"simple", "ok">> \in Attempt
      /\ ChainPhase = "trying" /\ ChainNext = 4 /\ ChainOrder[4] = "simple"
  BY DEF SimpleClose, IInv, TypeOK, Attempt, Backends, ChainPhase,
         ChainSteps, ChainNext, SimpleSteps, Rank, ChainOrder
<1>1. CASE /\ attempts' = Append(attempts, <<"simple", "ok">>)
           /\ pc' = "cleanup" /\ outcome' = "success"
  <2>1. /\ Len(attempts') = Len(attempts) + 1
        /\ attempts'[Len(attempts')] = <<"simple", "ok">>
    BY <1>0, <1>1, AppendProperties
  <2>2. ChainPhase' = "succeeded" /\ ChainNext' = 4
    BY <1>1, <2>1 DEF ChainPhase, ChainSteps, ChainNext, LastAttempt, Rank,
                      Backends, Tools
  <2>3. QED
    BY <1>0, <1>1, <2>2 DEF Abstract!Succeed, Abstract!Next
<1>2. CASE SimpleFails
  <2>1. pc \in SimpleSteps
    BY <1>0 DEF SimpleSteps
  <2>2. QED
    BY <1>2, <2>1, SimpleFailsRefines DEF Abstract!Next
<1>3. QED
  BY <1>1, <1>2 DEF SimpleClose

LEMMA SimpleRefines ==
    ASSUME IInv, SimpleOpen \/ SimpleBootloader \/ SimplePad \/ SimpleKernel
                   \/ SimplePadMin \/ SimpleClose
    PROVE  [Abstract!Next]_Abstract!avars
<1>1. CASE SimpleOpen
  <2>1. pc \in SimpleSteps
    BY <1>1 DEF SimpleOpen, SimpleSteps
  <2>2. CASE pc' = "simple_bl" /\ UNCHANGED attempts
    BY <2>1, <2>2, SimpleStutter DEF SimpleSteps
  <2>3. CASE SimpleFails
    BY <2>1, <2>3, SimpleFailsRefines DEF Abstract!Next
  <2>4. QED
    BY <1>1, <2>2, <2>3 DEF SimpleOpen
<1>2. ASSUME NEW f \in Inputs, NEW size, NEW from \in SimpleSteps,
             NEW to \in SimpleSteps, SimpleCopy(f, size, from, to)
      PROVE  [Abstract!Next]_Abstract!avars
  <2>1. pc \in SimpleSteps
    BY <1>2 DEF SimpleCopy
  <2>2. CASE SimpleFails
    BY <2>1, <2>2, SimpleFailsRefines DEF Abstract!Next
  <2>3. CASE SimpleWrite(Blob(f, size), to)
    BY <2>1, <2>3, SimpleWriteRefines
  <2>4. QED
    BY <1>2, <2>2, <2>3 DEF SimpleCopy
<1>3. CASE SimpleBootloader \/ SimpleKernel
  BY <1>3, <1>2 DEF SimpleBootloader, SimpleKernel, Inputs, SimpleSteps
<1>4. CASE SimplePad
  BY <1>4, SimpleWriteRefines DEF SimplePad, SimpleSteps
<1>5. CASE SimplePadMin
  BY <1>5, SimpleWriteRefines DEF SimplePadMin, SimpleSteps
<1>6. CASE SimpleClose
  BY <1>6, SimpleCloseRefines
<1>7. QED
  BY <1>1, <1>3, <1>4, <1>5, <1>6

(* Before the chain nothing maps to a step, except the last staging step, *)
(* which starts it; after it, leaving the with block changes nothing.    *)
LEMMA SetupRefines ==
    ASSUME RInv,
           Validate \/ MakeOutputDir \/ MakeTempDir \/ StageKernel
             \/ StageBootloader \/ StageGrubCfg \/ Cleanup \/ RemoveInput
             \/ UNCHANGED vars
    PROVE  [Abstract!Next]_Abstract!avars
<1>1. ASSUME pc \in PreChain, UNCHANGED attempts,
             pc' \in PreChain \cup Ended, outcome' # "success"
      PROVE  UNCHANGED Abstract!avars
  <2>1. ChainPhase = "notstarted" /\ ChainNext = 1 /\ attempts = <<>>
    BY <1>1, MapPreChain
  <2>2. ChainPhase' = "notstarted" /\ ChainNext' = 1
    BY <1>1, <2>1 DEF ChainPhase, ChainSteps, ChainNext, PreChain, Ended
  <2>3. QED
    BY <1>1, <2>1, <2>2 DEF Abstract!avars
<1>2. CASE Validate \/ MakeOutputDir \/ MakeTempDir \/ StageKernel
             \/ StageBootloader
  <2>1. pc \in PreChain /\ UNCHANGED attempts
        /\ pc' \in PreChain \cup Ended /\ outcome' # "success"
    BY <1>2 DEF Validate, MakeOutputDir, MakeTempDir, StageKernel,
                StageBootloader, Stage, PreChain, Ended, RInv, RunningAt
  <2>2. QED
    BY <2>1, <1>1
<1>3. CASE StageGrubCfg
  <2>1. ChainPhase = "notstarted" /\ ChainNext = 1 /\ attempts = <<>>
    BY <1>3, MapPreChain DEF StageGrubCfg, PreChain
  <2>2. ChainPhase' = "trying" /\ ChainNext' = 1
    BY <1>3, <2>1 DEF StageGrubCfg, ChainPhase, ChainSteps, ChainNext
  <2>3. QED
    BY <1>3, <2>1, <2>2 DEF StageGrubCfg, Abstract!Begin, Abstract!Next
<1>4. CASE Cleanup
  <2>1. pc = "cleanup" /\ pc' = "done" /\ UNCHANGED <<outcome, attempts>>
    BY <1>4 DEF Cleanup
  <2>2. UNCHANGED Abstract!avars
    BY <2>1 DEF ChainPhase, ChainSteps, ChainNext, LastAttempt, Abstract!avars
  <2>3. QED
    BY <2>2
<1>6. CASE RemoveInput \/ UNCHANGED vars
  <2>1. UNCHANGED <<pc, outcome, attempts>>
    BY <1>6 DEF RemoveInput, vars
  <2>2. UNCHANGED Abstract!avars
    BY <2>1 DEF ChainPhase, ChainNext, LastAttempt, Abstract!avars
  <2>3. QED
    BY <2>2
<1>5. QED
  BY <1>2, <1>3, <1>4, <1>6

LEMMA NextRefines == RInv /\ [Next]_vars => [Abstract!Next]_Abstract!avars
<1> SUFFICES ASSUME RInv, [Next]_vars PROVE [Abstract!Next]_Abstract!avars
  OBVIOUS
<1>1. CASE Validate \/ MakeOutputDir \/ MakeTempDir \/ StageKernel
             \/ StageBootloader \/ StageGrubCfg \/ Cleanup \/ RemoveInput
             \/ UNCHANGED vars
  BY <1>1, SetupRefines
<1>2. CASE Grub \/ Mkisofs \/ Genisoimage
  BY <1>2, ChainRefines
<1>3. CASE SimpleOpen \/ SimpleBootloader \/ SimplePad \/ SimpleKernel
             \/ SimplePadMin \/ SimpleClose
  BY <1>3, SimpleRefines DEF RInv
<1>4. QED
  BY <1>1, <1>2, <1>3 DEF Next

LEMMA InitRefines == Init => Abstract!Init
BY DEF Init, Abstract!Init, ChainPhase, ChainSteps, ChainNext

-----------------------------------------------------------------------------
(* create_iso.py's main() implements the packaging strategy chain of     *)
(* section 4.4 (ImplementsChain): started by the last staging step,       *)
(* every tool run and every step of create_simple_iso is an attempt, a   *)
(* skip or a stutter of the chain, for every sector size, floor and      *)
(* bound, and whether or not tools may hang.                             *)
THEOREM RefinesChain == Spec => ImplementsChain
<1>1. QED
  BY InitRInv, NextRInv, InitRefines, NextRefines, PTL
     DEF Spec, ImplementsChain, Abstract!Spec
=============================================================================
