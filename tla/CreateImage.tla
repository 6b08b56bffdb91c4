---------------------------- MODULE CreateImage ----------------------------
(***************************************************************************)
(* tools/create_image.py: main() validates the two inputs, creates the    *)
(* output directory, and create_arm64_image (to which                      *)
(* create_x86_64_image delegates, so both architectures take this path)   *)
(* reads kernel and bootloader, opens the output with 'wb' and writes     *)
(* bootloader, padding to the 1 MiB boundary, kernel, padding to 16 MiB, *)
(* then closes the file.                                                   *)
(*                                                                         *)
(* One action per step of that sequence.  The environment chooses what   *)
(* the program meets: an input that is a file, missing, a directory or    *)
(* unreadable; an input removed after validation; an output directory     *)
(* that cannot be created; an open, write or close that raises OSError.   *)
(* A failing write or close leaves on disk a prefix of what was issued    *)
(* (buffered bytes are lost).                                              *)
(***************************************************************************)
EXTENDS ImageLayout, Integers, Sequences

CONSTANTS
    Align,      \* kernel alignment unit, 1024 * 1024 in the code
    MinSize,    \* image floor, 16 * 1024 * 1024 in the code
    MaxBl,      \* largest bootloader size enumerated
    MaxK,       \* largest kernel size enumerated
    NoFile,     \* model value: nothing exists at the output path
    StaleFile   \* model value: an artifact of an earlier build is there

ASSUME AlignAssumption == Align \in Nat \ {0}
ASSUME MinSizeAssumption == MinSize \in Nat
ASSUME BoundsAssumption == MaxBl \in Nat /\ MaxK \in Nat
ASSUME MarkerAssumption == NoFile \notin Seq(Byte) /\ StaleFile \notin Seq(Byte)

VARIABLES
    pc,           \* the next step of main / create_arm64_image
    outcome,      \* "running", "success" (return True), "failure" (return
                  \* False or sys.exit(1)), "crash" (uncaught exception)
    inputs,       \* what is at the kernel and bootloader paths
    outDirExists, \* whether the output directory exists
    blSize,       \* size of the bootloader file
    kSize,        \* size of the kernel file
    out           \* the output path: NoFile, StaleFile or the bytes on disk

vars == <<pc, outcome, inputs, outDirExists, blSize, kSize, out>>

Inputs == {"kernel", "bootloader"}
Kinds == {"file", "missing", "dir", "unreadable"}
Steps == {"validate", "mkdir", "read_kernel", "read_bootloader", "open",
          "write_bl", "pad_kernel", "write_kernel", "pad_min", "close",
          "done"}

TypeOK ==
    /\ pc \in Steps
    /\ outcome \in {"running", "success", "failure", "crash"}
    /\ inputs \in [Inputs -> Kinds]
    /\ outDirExists \in BOOLEAN
    /\ blSize \in 0..MaxBl
    /\ kSize \in 0..MaxK
    /\ out \in {NoFile, StaleFile} \cup Seq(Byte)

Init ==
    /\ pc = "validate"
    /\ outcome = "running"
    /\ inputs \in [Inputs -> Kinds]
    /\ outDirExists \in BOOLEAN
    /\ blSize \in 0..MaxBl
    /\ kSize \in 0..MaxK
    /\ out \in {NoFile, StaleFile}

(* The process ends: return False / sys.exit(1), or an exception escapes. *)
Stop(o) == /\ pc' = "done"
           /\ outcome' = o

-----------------------------------------------------------------------------
(* main(), lines 109-112: os.path.exists on both inputs; a directory or   *)
(* an unreadable file exists.                                              *)
Validate ==
    /\ pc = "validate"
    /\ \/ /\ \E f \in Inputs : inputs[f] = "missing"
          /\ Stop("failure")
       \/ /\ \A f \in Inputs : inputs[f] # "missing"
          /\ pc' = "mkdir"
          /\ UNCHANGED outcome
    /\ UNCHANGED <<inputs, outDirExists, blSize, kSize, out>>

(* main(), lines 115-124: os.makedirs when the directory is missing; an   *)
(* OSError from it is not caught.  Then dispatch on --arch, both of which *)
(* reach create_arm64_image.                                               *)
MakeOutputDir ==
    /\ pc = "mkdir"
    /\ \/ /\ outDirExists
          /\ pc' = "read_kernel"
          /\ UNCHANGED <<outcome, outDirExists>>
       \/ /\ ~outDirExists
          /\ outDirExists' = TRUE
          /\ pc' = "read_kernel"
          /\ UNCHANGED outcome
       \/ /\ ~outDirExists
          /\ Stop("crash")
          /\ UNCHANGED outDirExists
    /\ UNCHANGED <<inputs, blSize, kSize, out>>

(* with open(path, 'rb') as f: f.read(), under except FileNotFoundError   *)
(* only: a missing file returns False; IsADirectoryError and              *)
(* PermissionError escape.                                                 *)
ReadInput(f, from, to) ==
    /\ pc = from
    /\ \/ inputs[f] = "file" /\ pc' = to /\ UNCHANGED outcome
       \/ inputs[f] = "missing" /\ Stop("failure")
       \/ inputs[f] \in {"dir", "unreadable"} /\ Stop("crash")
    /\ UNCHANGED <<inputs, outDirExists, blSize, kSize, out>>

ReadKernel == ReadInput("kernel", "read_kernel", "read_bootloader")

ReadBootloader == ReadInput("bootloader", "read_bootloader", "open")

(* open(output_path, 'wb') truncates, or raises IOError (caught). *)
OpenOutput ==
    /\ pc = "open"
    /\ \/ out' = <<>> /\ pc' = "write_bl" /\ UNCHANGED outcome
       \/ Stop("failure") /\ UNCHANGED out
    /\ UNCHANGED <<inputs, outDirExists, blSize, kSize>>

(* f.write(data): all of it is issued, or IOError is raised (caught,      *)
(* return False) and what reaches the disk is some strict prefix of what  *)
(* has been issued so far.                                                 *)
Write(from, data, to) ==
    /\ pc = from
    /\ \/ out' = out \o data /\ pc' = to /\ UNCHANGED outcome
       \/ /\ Len(data) > 0
          /\ \E n \in 0..(Len(out) + Len(data) - 1) :
                out' = SubSeq(out \o data, 1, n)
          /\ Stop("failure")
    /\ UNCHANGED <<inputs, outDirExists, blSize, kSize>>

(* f.write(bootloader_data) *)
WriteBootloader == Write("write_bl", Blob("bootloader", blSize), "pad_kernel")

(* Pad to 1MB boundary: padding_needed from len(bootloader_data). *)
PadKernel == Write("pad_kernel", Zeros(PadTo(blSize, Align)), "write_kernel")

(* kernel_offset = f.tell(); f.write(kernel_data) *)
WriteKernel == Write("write_kernel", Blob("kernel", kSize), "pad_min")

(* Mutant: current_size is not re-read from f.tell() and still holds     *)
(* len(bootloader_data).                                                    *)
PadMinStale == Write("pad_min", Zeros(PadToMin(blSize, MinSize)), "close")

(* Pad to minimum image size from current_size = f.tell(). *)
PadMin == Write("pad_min", Zeros(PadToMin(Len(out), MinSize)), "close")

(* Mutant: an IOError from the final flush is swallowed and the function *)
(* returns True over a truncated file.                                     *)
CloseSwallowsError ==
    /\ pc = "close"
    /\ \E n \in 0..Len(out) : out' = SubSeq(out, 1, n)
    /\ Stop("success")
    /\ UNCHANGED <<inputs, outDirExists, blSize, kSize>>

(* Leaving the with block flushes and closes: the flush may raise         *)
(* IOError and lose buffered bytes; otherwise return True.                 *)
Close ==
    /\ pc = "close"
    /\ \/ Stop("success") /\ UNCHANGED out
       \/ /\ Len(out) > 0
          /\ \E n \in 0..(Len(out) - 1) : out' = SubSeq(out, 1, n)
          /\ Stop("failure")
    /\ UNCHANGED <<inputs, outDirExists, blSize, kSize>>

(* Another process removes an input after main() validated it. *)
RemoveInput ==
    /\ outcome = "running"
    /\ \E f \in Inputs :
          /\ inputs[f] # "missing"
          /\ inputs' = [inputs EXCEPT ![f] = "missing"]
    /\ UNCHANGED <<pc, outcome, outDirExists, blSize, kSize, out>>

Next ==
    \/ Validate
    \/ MakeOutputDir
    \/ ReadKernel
    \/ ReadBootloader
    \/ OpenOutput
    \/ WriteBootloader
    \/ PadKernel
    \/ WriteKernel
    \/ PadMin
    \/ Close
    \/ RemoveInput

Spec == Init /\ [][Next]_vars

-----------------------------------------------------------------------------
(* Properties.                                                             *)

(* Section 4.2 and 8: when create_arm64_image returns True, the output is *)
(* the bootloader at offset 0, the kernel at the smallest 1 MiB-aligned   *)
(* offset at or past it, zeros in every gap, and the file is at least the *)
(* kernel end and at least 16 MiB long and no longer than the specified   *)
(* totalSize.  Breaks if a padding branch, a failed write or the close    *)
(* error path is wrong.                                                    *)
ImageCorrect ==
    outcome = "success" =>
        /\ out \in Seq(Byte)
        /\ IsImagePrefix(out, blSize, kSize, Align)
        /\ Len(out) >= SpecOffset(blSize, Align) + kSize
        /\ Len(out) >= MinSize
        /\ Len(out) <= SpecTotal(blSize, kSize, Align, MinSize)

(* Section 8: a successful image's length is a multiple of the 1 MiB      *)
(* alignment unit (totalSize is rounded up), as create_arm64_image's 16   *)
(* MiB floor suggests; the code pads only up to the floor.                *)
ImageSizeAligned ==
    outcome = "success" => Len(out) % Align = 0

(* Section 7: input and output errors are reported as a diagnostic and    *)
(* exit code 1, never as an uncaught exception and a stack trace.         *)
NoUncaughtException == outcome # "crash"

(* The length the code gives the image: the kernel end, or the floor when *)
(* the kernel ends below it.                                               *)
ImageLen ==
    LET e == SpecOffset(blSize, Align) + kSize
    IN  IF e < MinSize THEN MinSize ELSE e

(* Strengthening of ImageCorrect: whatever has reached the output during  *)
(* or after this build is a prefix of the specified image, so a           *)
(* truncated file never holds a misplaced byte, and the step that is      *)
(* about to run finds exactly the bytes the steps before it wrote.        *)
WriteProgress ==
    /\ out \in Seq(Byte) => IsImagePrefix(out, blSize, kSize, Align)
    /\ pc \in {"write_bl", "pad_kernel", "write_kernel", "pad_min", "close"}
          => out \in Seq(Byte)
    /\ pc = "write_bl" => Len(out) = 0
    /\ pc = "pad_kernel" => Len(out) = blSize
    /\ pc = "write_kernel" => Len(out) = SpecOffset(blSize, Align)
    /\ pc = "pad_min" => Len(out) = SpecOffset(blSize, Align) + kSize
    /\ pc = "close" => Len(out) = ImageLen
-----------------------------------------------------------------------------
(* Refinement mapping onto the writer contract (ImageWriter): the image   *)
(* being written is the specified layout at the length the code gives it *)
(* (ImageLen; that this is not the rounded-up totalSize is the separate   *)
(* ImageSizeAligned finding), the file is the output path and the status  *)
(* is the result of main().                                               *)
WriterTarget == SpecImage(ImageLen, blSize, kSize, Align)

Writer == INSTANCE ImageWriter
              WITH Before <- {NoFile, StaleFile}, target <- WriterTarget,
                   file <- out, status <- outcome

(* Sections 4.2 and 5: create_image.py overwrites the output once, then   *)
(* only extends it with the image's next bytes; a failing write or flush *)
(* leaves a prefix of the image, and True is returned only over the      *)
(* complete image.                                                         *)
ImplementsWriter == Writer!Spec
=============================================================================
