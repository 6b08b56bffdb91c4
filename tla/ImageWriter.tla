---------------------------- MODULE ImageWriter ----------------------------
(***************************************************************************)
(* The contract of a writer of one raw image file (spec.md sections 4.2   *)
(* and 5), independent of how the image is assembled.  The build finds    *)
(* some earlier content at the output path (or none), overwrites it once, *)
(* and then only extends the file with the image's next bytes.  Writes    *)
(* are not atomic: a failing build may leave the file as it was or        *)
(* truncated to any prefix of the image, but never a misplaced byte.  A   *)
(* success is reported only over the complete image.                      *)
(*                                                                         *)
(* `target` is the image the build is writing; it is fixed once the      *)
(* inputs are known and never changes.                                     *)
(***************************************************************************)
EXTENDS Naturals, Sequences

CONSTANT Before   \* what the output path can hold before the build; no
                  \* byte sequence

VARIABLES
    target,   \* the complete image
    file,     \* what is at the output path
    status    \* "running", "success", "failure", "crash"

wvars == <<target, file, status>>

(* The contents a write in progress, or an interrupted one, can leave:   *)
(* the first n bytes of the image.                                         *)
Prefixes(s) == {SubSeq(s, 1, n) : n \in 0..Len(s)}

Init ==
    /\ status = "running"
    /\ file \in Before

(* open(..., 'wb'): the earlier content is replaced by an empty file. *)
Overwrite ==
    /\ status = "running"
    /\ file \in Before
    /\ file' = <<>>
    /\ UNCHANGED <<target, status>>

(* A completed write: the file grows to a longer prefix of the image. *)
Extend ==
    /\ status = "running"
    /\ file \in Prefixes(target)
    /\ file' \in Prefixes(target)
    /\ Len(file) < Len(file')
    /\ UNCHANGED <<target, status>>

(* The build stops with an error: before it wrote, the file is as it was; *)
(* after, it is some prefix of the image.                                  *)
Fail ==
    /\ status = "running"
    /\ status' \in {"failure", "crash"}
    /\ \/ UNCHANGED file
       \/ file \in Prefixes(target) /\ file' \in Prefixes(target)
    /\ UNCHANGED target

(* The build reports success, over the complete image only. *)
Succeed ==
    /\ status = "running"
    /\ file = target
    /\ status' = "success"
    /\ UNCHANGED <<target, file>>

Next == Overwrite \/ Extend \/ Fail \/ Succeed

Spec == Init /\ [][Next]_wvars
=============================================================================
