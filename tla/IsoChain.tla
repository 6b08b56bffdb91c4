------------------------------ MODULE IsoChain ------------------------------
(***************************************************************************)
(* tools/create_iso.py: main() validates the inputs, creates the output   *)
(* directory, opens a TemporaryDirectory, stages boot/kernel.elf,         *)
(* boot/bootloader.bin and boot/grub/grub.cfg in it                       *)
(* (create_iso_structure), then tries the packaging backends in order:    *)
(* grub-mkrescue (create_iso_with_grub), mkisofs then genisoimage         *)
(* (create_iso_with_mkisofs), and the raw concatenation                   *)
(* (create_simple_iso); the with block removes the staging directory and *)
(* main exits 0 or 1.                                                      *)
(*                                                                         *)
(* The environment chooses which tools are installed, whether `which`     *)
(* itself is there, how each tool run ends (exit 0, non-zero exit having  *)
(* left a partial output or not, an exception from subprocess.run, or,    *)
(* when ToolsMayHang, never), the inputs' kinds and sizes, failing        *)
(* writes, and an input removed while the build runs.                     *)
(***************************************************************************)
EXTENDS ImageLayout, Integers, Sequences

CONSTANTS
    Sector,       \* sector_size = 512 in create_simple_iso
    IsoMinSize,   \* min_size = 2 * 1024 * 1024 in create_simple_iso
    MaxBl,        \* largest bootloader size enumerated
    MaxK,         \* largest kernel size enumerated
    ToolsMayHang, \* whether a tool run may never return (no timeout)
    NotRaw        \* the writer contract's view of an output that is no
                  \* raw image (nothing, an earlier file, a tool's ISO)

ASSUME SectorAssumption == Sector \in Nat \ {0}
ASSUME IsoMinSizeAssumption == IsoMinSize \in Nat
ASSUME IsoBoundsAssumption == MaxBl \in Nat /\ MaxK \in Nat
ASSUME HangAssumption == ToolsMayHang \in BOOLEAN
ASSUME NotRawAssumption == NotRaw \notin Seq(Byte)

VARIABLES
    pc,         \* the next step of main and the create_iso_* functions
    outcome,    \* "running", "success", "failure", "crash"
    inputs,     \* what is at the kernel and bootloader paths
    outDirOk,   \* whether the output directory exists
    blSize,     \* size of the bootloader file
    kSize,      \* size of the kernel file
    installed,  \* the tools `which` finds
    whichOk,    \* whether the `which` program itself can be run
    tmpDir,     \* the staging directory: "none", "exists", "removed"
    staging,    \* the files staged in it
    out,        \* what is at the output path
    attempts    \* history: the backends run so far, with their result

vars == <<pc, outcome, inputs, outDirOk, blSize, kSize, installed, whichOk,
          tmpDir, staging, out, attempts>>

Inputs == {"kernel", "bootloader"}
Kinds == {"file", "missing", "unreadable"}   \* a directory acts as unreadable
Tools == {"grub-mkrescue", "mkisofs", "genisoimage"}
Backends == Tools \cup {"simple"}
StagedFiles == {"kernel", "bootloader", "grubcfg"}

(* Priority of the backends, as main() calls them. *)
Rank == [b \in Backends |->
            CASE b = "grub-mkrescue" -> 1
              [] b = "mkisofs"       -> 2
              [] b = "genisoimage"   -> 3
              [] b = "simple"        -> 4]

(* The output path: nothing, an earlier build's file, an ISO written by a *)
(* tool, the partial file a failing tool left, or the raw image of        *)
(* create_simple_iso (complete or truncated) as bytes.                     *)
OutKinds == {"none", "stale", "iso", "partial", "raw"}
Output(k, b, bytes) == [kind |-> k, by |-> b, bytes |-> bytes]
OutputType == [kind : OutKinds, by : Backends \cup {"none"}, bytes : Seq(Byte)]

TypeOK ==
    /\ pc \in {"validate", "mkdir", "mktemp", "stage_kernel",
               "stage_bootloader", "stage_grubcfg", "grub", "mkisofs",
               "genisoimage", "simple_open", "simple_bl", "simple_pad",
               "simple_kernel", "simple_pad_min", "simple_close",
               "cleanup", "hung", "done"}
    /\ outcome \in {"running", "success", "failure", "crash"}
    /\ inputs \in [Inputs -> Kinds]
    /\ outDirOk \in BOOLEAN
    /\ blSize \in 0..MaxBl
    /\ kSize \in 0..MaxK
    /\ installed \subseteq Tools
    /\ whichOk \in BOOLEAN
    /\ tmpDir \in {"none", "exists", "removed"}
    /\ staging \subseteq StagedFiles
    /\ out \in OutputType
    /\ attempts \in Seq(Backends \X {"ok", "fail"})

Init ==
    /\ pc = "validate"
    /\ outcome = "running"
    /\ inputs \in [Inputs -> Kinds]
    /\ outDirOk \in BOOLEAN
    /\ blSize \in 0..MaxBl
    /\ kSize \in 0..MaxK
    /\ installed \in SUBSET Tools
    /\ whichOk \in BOOLEAN
    /\ tmpDir = "none"
    /\ staging = {}
    /\ out \in {Output("none", "none", <<>>), Output("stale", "none", <<>>)}
    /\ attempts = <<>>

Env == <<inputs, outDirOk, blSize, kSize, installed, whichOk>>

-----------------------------------------------------------------------------
(* main(), lines 181-189: a missing input exits 1; os.makedirs may raise. *)
Validate ==
    /\ pc = "validate"
    /\ \/ /\ \E f \in Inputs : inputs[f] = "missing"
          /\ pc' = "done" /\ outcome' = "failure"
       \/ /\ \A f \in Inputs : inputs[f] # "missing"
          /\ pc' = "mkdir" /\ UNCHANGED outcome
    /\ UNCHANGED <<Env, tmpDir, staging, out, attempts>>

MakeOutputDir ==
    /\ pc = "mkdir"
    /\ \/ outDirOk /\ pc' = "mktemp" /\ UNCHANGED <<outcome, outDirOk>>
       \/ ~outDirOk /\ outDirOk' = TRUE /\ pc' = "mktemp"
          /\ UNCHANGED outcome
       \/ ~outDirOk /\ pc' = "done" /\ outcome' = "crash"
          /\ UNCHANGED outDirOk
    /\ UNCHANGED <<inputs, blSize, kSize, installed, whichOk, tmpDir, staging,
                   out, attempts>>

(* with tempfile.TemporaryDirectory() as temp_dir, line 194. *)
MakeTempDir ==
    /\ pc = "mktemp"
    /\ tmpDir' = "exists"
    /\ pc' = "stage_kernel"
    /\ UNCHANGED <<outcome, Env, staging, out, attempts>>

(* Mutant: a failed copy exits the process without the with block's      *)
(* cleanup (staging removed by hand on the success path only).            *)
StageNoCleanup(f, from, to) ==
    /\ pc = from
    /\ \/ inputs[f] = "file" /\ staging' = staging \cup {f} /\ pc' = to
          /\ UNCHANGED outcome
       \/ inputs[f] # "file" /\ pc' = "done" /\ outcome' = "crash"
          /\ UNCHANGED staging
    /\ UNCHANGED <<Env, tmpDir, out, attempts>>

(* Mutant: a failed copy is retried until it succeeds. *)
StageRetries(f, from, to) ==
    /\ pc = from
    /\ inputs[f] = "file" /\ staging' = staging \cup {f} /\ pc' = to
    /\ UNCHANGED <<outcome, Env, tmpDir, out, attempts>>

(* create_iso_structure: shutil.copy2 of an input, which raises for a     *)
(* missing or unreadable file; nothing catches it, the with block removes *)
(* the staging directory on the way out.                                   *)
Stage(f, from, to) ==
    /\ pc = from
    /\ \/ inputs[f] = "file" /\ staging' = staging \cup {f} /\ pc' = to
          /\ UNCHANGED outcome
       \/ inputs[f] # "file" /\ pc' = "cleanup" /\ outcome' = "crash"
          /\ UNCHANGED staging
    /\ UNCHANGED <<Env, tmpDir, out, attempts>>

StageKernel == Stage("kernel", "stage_kernel", "stage_bootloader")

StageBootloader == Stage("bootloader", "stage_bootloader", "stage_grubcfg")

(* makedirs boot/grub and write grub.cfg; the function returns True. *)
StageGrubCfg ==
    /\ pc = "stage_grubcfg"
    /\ staging' = staging \cup {"grubcfg"}
    /\ pc' = "grub"
    /\ UNCHANGED <<outcome, Env, tmpDir, out, attempts>>

(* Mutant: the returncode check is dropped and a failed run is taken as  *)
(* a success.                                                              *)
RunToolIgnoresExit(t, then, raised) ==
    \/ /\ out' \in {Output("iso", t, <<>>), Output("partial", t, <<>>)}
       /\ attempts' = Append(attempts, <<t, "ok">>)
       /\ pc' = "cleanup" /\ outcome' = "success"
    \/ /\ attempts' = Append(attempts, <<t, "fail">>)
       /\ pc' = raised /\ UNCHANGED <<outcome, out>>
    \/ /\ ToolsMayHang
       /\ pc' = "hung" /\ UNCHANGED <<outcome, out, attempts>>

(* One run of tool t on the staging tree, writing to the output path:     *)
(* exit 0 and the ISO is there; a non-zero exit, the output left as it    *)
(* was or replaced by a partial file; or subprocess.run raises.  `then`   *)
(* is where the code goes after a non-zero exit, `raised` after an        *)
(* exception.  A hanging run never returns.                                *)
RunTool(t, then, raised) ==
    \/ /\ out' = Output("iso", t, <<>>)
       /\ attempts' = Append(attempts, <<t, "ok">>)
       /\ pc' = "cleanup" /\ outcome' = "success"
    \/ /\ out' \in {out, Output("partial", t, <<>>)}
       /\ attempts' = Append(attempts, <<t, "fail">>)
       /\ pc' = then /\ UNCHANGED outcome
    \/ /\ attempts' = Append(attempts, <<t, "fail">>)
       /\ pc' = raised /\ UNCHANGED <<outcome, out>>
    \/ /\ ToolsMayHang
       /\ pc' = "hung" /\ UNCHANGED <<outcome, out, attempts>>

(* create_iso_with_grub: `which grub-mkrescue` (an exception when which   *)
(* cannot run, caught), then grub-mkrescue -o output temp_dir.            *)
Grub ==
    /\ pc = "grub"
    /\ \/ /\ \/ ~whichOk
             \/ "grub-mkrescue" \notin installed
          /\ pc' = "mkisofs"
          /\ UNCHANGED <<outcome, out, attempts>>
       \/ /\ whichOk /\ "grub-mkrescue" \in installed
          /\ RunTool("grub-mkrescue", "mkisofs", "mkisofs")
    /\ UNCHANGED <<Env, tmpDir, staging>>

(* Mutant: the loop in create_iso_with_mkisofs lacks `return True`, so a  *)
(* successful mkisofs run is followed by the next name.                   *)
IsoMasterNoReturn(t, next) ==
    /\ pc = t
    /\ \/ /\ ~whichOk
          /\ pc' = "simple_open"
          /\ UNCHANGED <<outcome, out, attempts>>
       \/ /\ whichOk /\ t \notin installed
          /\ pc' = next
          /\ UNCHANGED <<outcome, out, attempts>>
       \/ /\ whichOk /\ t \in installed
          /\ \/ /\ out' = Output("iso", t, <<>>)
                /\ attempts' = Append(attempts, <<t, "ok">>)
                /\ pc' = next /\ outcome' = "success"
             \/ RunTool(t, next, "simple_open")
    /\ UNCHANGED <<Env, tmpDir, staging>>

(* create_iso_with_mkisofs: for cmd_name in ['mkisofs', 'genisoimage'],   *)
(* `which` then the El Torito run; a non-zero exit goes on to the next    *)
(* name, an exception anywhere returns False at once.                     *)
IsoMaster(t, next) ==
    /\ pc = t
    /\ \/ /\ ~whichOk
          /\ pc' = "simple_open"
          /\ UNCHANGED <<outcome, out, attempts>>
       \/ /\ whichOk /\ t \notin installed
          /\ pc' = next
          /\ UNCHANGED <<outcome, out, attempts>>
       \/ /\ whichOk /\ t \in installed
          /\ RunTool(t, next, "simple_open")
    /\ UNCHANGED <<Env, tmpDir, staging>>

Mkisofs == IsoMaster("mkisofs", "genisoimage")

(* Mutant: main() lacks the final else, so when neither iso-master name *)
(* succeeds the raw fallback is never tried and success stays False.      *)
GenisoimageNoFallback == IsoMaster("genisoimage", "cleanup")

Genisoimage == IsoMaster("genisoimage", "simple_open")

-----------------------------------------------------------------------------
(* create_simple_iso.  Every exception is caught and returns False.       *)
SimpleFails ==
    /\ pc' = "cleanup" /\ outcome' = "failure"
    /\ attempts' = Append(attempts, <<"simple", "fail">>)

(* open(output_path, 'wb') truncates before any input is read. *)
SimpleOpen ==
    /\ pc = "simple_open"
    /\ \/ out' = Output("raw", "simple", <<>>) /\ pc' = "simple_bl"
          /\ UNCHANGED <<outcome, attempts>>
       \/ SimpleFails /\ UNCHANGED out
    /\ UNCHANGED <<Env, tmpDir, staging>>

(* A write of data to the raw image: all of it, or an exception leaving a *)
(* strict prefix of what was issued.                                       *)
SimpleWrite(data, to) ==
    \/ /\ out' = [out EXCEPT !.bytes = @ \o data]
       /\ pc' = to /\ UNCHANGED <<outcome, attempts>>
    \/ /\ Len(data) > 0
       /\ \E n \in 0..(Len(out.bytes) + Len(data) - 1) :
             out' = [out EXCEPT !.bytes = SubSeq(@ \o data, 1, n)]
       /\ SimpleFails

(* Open and read input f (from the original path, not the staged copy),  *)
(* then write it.                                                          *)
SimpleCopy(f, size, from, to) ==
    /\ pc = from
    /\ \/ inputs[f] # "file" /\ SimpleFails /\ UNCHANGED out
       \/ inputs[f] = "file" /\ SimpleWrite(Blob(f, size), to)
    /\ UNCHANGED <<Env, tmpDir, staging>>

SimpleBootloader == SimpleCopy("bootloader", blSize, "simple_bl", "simple_pad")

SimpleKernel == SimpleCopy("kernel", kSize, "simple_kernel", "simple_pad_min")

(* Pad to sector boundary from current_pos = f.tell(). *)
SimplePad ==
    /\ pc = "simple_pad"
    /\ SimpleWrite(Zeros(PadTo(Len(out.bytes), Sector)), "simple_kernel")
    /\ UNCHANGED <<Env, tmpDir, staging>>

(* Pad to the 2 MiB minimum from current_pos = f.tell(). *)
SimplePadMin ==
    /\ pc = "simple_pad_min"
    /\ SimpleWrite(Zeros(PadToMin(Len(out.bytes), IsoMinSize)), "simple_close")
    /\ UNCHANGED <<Env, tmpDir, staging>>

(* Mutant: an error from the final flush is swallowed and the function   *)
(* returns True over a truncated file.                                     *)
SimpleCloseSwallowsError ==
    /\ pc = "simple_close"
    /\ \E n \in 0..Len(out.bytes) :
          out' = [out EXCEPT !.bytes = SubSeq(@, 1, n)]
    /\ attempts' = Append(attempts, <<"simple", "ok">>)
    /\ pc' = "cleanup" /\ outcome' = "success"
    /\ UNCHANGED <<Env, tmpDir, staging>>

(* Leaving the with block flushes: it may fail and lose buffered bytes.   *)
SimpleClose ==
    /\ pc = "simple_close"
    /\ \/ /\ attempts' = Append(attempts, <<"simple", "ok">>)
          /\ pc' = "cleanup" /\ outcome' = "success"
          /\ UNCHANGED out
       \/ /\ Len(out.bytes) > 0
          /\ \E n \in 0..(Len(out.bytes) - 1) :
                out' = [out EXCEPT !.bytes = SubSeq(@, 1, n)]
          /\ SimpleFails
    /\ UNCHANGED <<Env, tmpDir, staging>>

-----------------------------------------------------------------------------
(* TemporaryDirectory.__exit__ removes the staging tree on every path,    *)
(* then main() exits 0 on success and 1 otherwise.                        *)
Cleanup ==
    /\ pc = "cleanup"
    /\ tmpDir' = "removed"
    /\ pc' = "done"
    /\ UNCHANGED <<outcome, Env, staging, out, attempts>>

(* Another process removes an input while the build runs. *)
RemoveInput ==
    /\ pc \notin {"done", "hung"}
    /\ \E f \in Inputs :
          /\ inputs[f] # "missing"
          /\ inputs' = [inputs EXCEPT ![f] = "missing"]
    /\ UNCHANGED <<pc, outcome, outDirOk, blSize, kSize, installed, whichOk,
                   tmpDir, staging, out, attempts>>

Next ==
    \/ Validate \/ MakeOutputDir \/ MakeTempDir
    \/ StageKernel \/ StageBootloader \/ StageGrubCfg
    \/ Grub \/ Mkisofs \/ Genisoimage
    \/ SimpleOpen \/ SimpleBootloader \/ SimplePad \/ SimpleKernel
    \/ SimplePadMin \/ SimpleClose
    \/ Cleanup
    \/ RemoveInput

Spec == Init /\ [][Next]_vars

(* The program's own steps: it runs on its own and is never starved. *)
Program == Next /\ ~RemoveInput
FairSpec == Spec /\ WF_vars(Program)

-----------------------------------------------------------------------------
(* Properties.                                                             *)

(* The last backend run, if any. *)
LastAttempt == attempts[Len(attempts)]

(* The raw fallback image has the layout of section 4.4: bootloader at 0, *)
(* kernel at the next 512-byte boundary, zero gaps, at least 2 MiB.       *)
RawImageCorrect ==
    /\ IsImagePrefix(out.bytes, blSize, kSize, Sector)
    /\ Len(out.bytes) >= SpecOffset(blSize, Sector) + kSize
    /\ Len(out.bytes) >= IsoMinSize
    /\ Len(out.bytes) <= SpecTotal(blSize, kSize, Sector, IsoMinSize)

(* Section 4.4/5: when main() exits 0, the file at the output path is the *)
(* artifact of the backend that reported success, not a partial file a    *)
(* failing backend left or an earlier build's file, and a raw fallback    *)
(* image is complete and laid out as specified.                           *)
SuccessArtifact ==
    outcome = "success" =>
        /\ Len(attempts) > 0
        /\ LastAttempt[2] = "ok"
        /\ out.by = LastAttempt[1]
        /\ \/ out.kind = "iso" /\ LastAttempt[1] \in Tools
           \/ out.kind = "raw" /\ LastAttempt[1] = "simple" /\ RawImageCorrect

(* Section 4.4: backends run in the fixed priority order, each at most    *)
(* once, and the first success ends the chain: every run but the last    *)
(* failed.                                                                 *)
FallbackOrder ==
    /\ \A i, j \in 1..Len(attempts) :
          i < j => Rank[attempts[i][1]] < Rank[attempts[j][1]]
    /\ \A i \in 1..(Len(attempts) - 1) : attempts[i][2] = "fail"

(* Section 3 and 9: the packaging tools only ever see the complete        *)
(* staging tree, and the tree is gone once the process ends, whatever the *)
(* path out of the with block.                                             *)
StagingScoped ==
    /\ pc \in {"grub", "mkisofs", "genisoimage"} =>
          tmpDir = "exists" /\ staging = StagedFiles
    /\ pc = "done" => tmpDir # "exists"

(* Section 4.4: when every backend has failed (AllExhausted) no partial   *)
(* file is left at the output path.                                        *)
ExhaustedLeavesNoFile ==
    (pc = "done" /\ outcome = "failure" /\ Len(attempts) > 0)
        => out.kind \in {"none", "stale"}

(* Section 5: every tool run ends, by exit or by the enforced timeout, so *)
(* the build always terminates.                                            *)
Termination == <>(pc = "done")
-----------------------------------------------------------------------------
(* Refinement mapping onto the chain contract (PackagingChain): the four  *)
(* backends are its strategies in main()'s order; the build is trying a   *)
(* strategy from the first probe to the end of create_simple_iso, and its *)
(* end state follows from the exit status and the history of runs.  A     *)
(* hung run stays "trying".                                                *)
ChainOrder == <<"grub-mkrescue", "mkisofs", "genisoimage", "simple">>

ChainSteps == {"grub", "mkisofs", "genisoimage", "simple_open", "simple_bl",
               "simple_pad", "simple_kernel", "simple_pad_min",
               "simple_close", "hung"}

ChainPhase ==
    IF pc \in ChainSteps THEN "trying"
    ELSE IF outcome = "success" THEN "succeeded"
    ELSE IF outcome = "failure" /\ attempts # <<>> THEN "exhausted"
    ELSE "notstarted"

(* The strategy being tried: named by pc inside the chain, by the last   *)
(* run after it.                                                           *)
ChainNext ==
    IF pc \in {"mkisofs", "genisoimage"} THEN Rank[pc]
    ELSE IF pc \in ChainSteps \ {"grub"} THEN Rank["simple"]
    ELSE IF attempts # <<>> THEN Rank[LastAttempt[1]]
    ELSE 1

Abstract == INSTANCE PackagingChain
               WITH Order <- ChainOrder, phase <- ChainPhase,
                    next <- ChainNext, tried <- attempts

(* Section 4.4: main() implements the strategy chain.  Every step of the  *)
(* build is a step of the contract or leaves its state alone: backends    *)
(* are attempted in priority order, a failed probe skips without an       *)
(* attempt, the first success ends the chain with exit 0, and exit 1     *)
(* after a run means that the raw fallback, tried last, failed.           *)
ImplementsChain == Abstract!Spec
-----------------------------------------------------------------------------
(* Refinement mapping onto the writer contract (ImageWriter) for the raw  *)
(* fallback: the image is the layout at the length create_simple_iso      *)
(* gives it; the file is the output path while it holds a raw image, and *)
(* anything a tool left there (or nothing) is one earlier content; the   *)
(* writer has ended when the fallback's run is recorded.                  *)

(* The length the fallback's image reaches: the kernel end, or the floor. *)
RawLen ==
    LET e == SpecOffset(blSize, Sector) + kSize
    IN  IF e < IsoMinSize THEN IsoMinSize ELSE e

RawTarget == SpecImage(RawLen, blSize, kSize, Sector)

RawFile == IF out.kind = "raw" THEN out.bytes ELSE NotRaw

RawStatus ==
    IF attempts # <<>> /\ LastAttempt[1] = "simple"
    THEN IF LastAttempt[2] = "ok" THEN "success" ELSE "failure"
    ELSE "running"

RawWriter == INSTANCE ImageWriter
                WITH Before <- {NotRaw}, target <- RawTarget,
                     file <- RawFile, status <- RawStatus

(* Sections 4.4 and 5: create_simple_iso is a writer of the same kind as *)
(* create_image.py: it truncates the output once, then only extends it by *)
(* the image's next bytes; an exception leaves the earlier file or a      *)
(* prefix of the image; and it returns True only over the whole image.    *)
ImplementsRawWriter == RawWriter!Spec

=============================================================================
