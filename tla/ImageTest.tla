------------------------------ MODULE ImageTest ------------------------------
(***************************************************************************)
(* The image check of tests/test_phase5.py (test_cross_platform_consistency,*)
(* lines 430-443) run against create_image.py.  The test builds the ARM64  *)
(* image only if no file is at its path, by run_command("make image        *)
(* ARCH=arm64", timeout=60), discards the result, and records "ARM64 image  *)
(* created" as os.path.exists(arm64_image).                                *)
(*                                                                         *)
(* The build is CreateImage's process, whose steps interleave with the     *)
(* test's once it is launched.  run_command passes shell=True, so on a     *)
(* timeout subprocess.run kills the shell and returns: make and            *)
(* create_image.py, its grandchildren, go on writing the image while the   *)
(* test takes its verdict.  The Makefile recipe is not in the repository;  *)
(* it is taken to run create_image.py once on the two inputs.              *)
(***************************************************************************)
EXTENDS CreateImage

VARIABLES
    hpc,       \* the test's next step: "check", "wait", "report", "done"
    launched,  \* whether the test started `make image`
    passed     \* the success argument given to add_test("ARM64 image created")

tvars == <<vars, hpc, launched, passed>>

TestInit ==
    /\ Init
    /\ hpc = "check"
    /\ launched = FALSE
    /\ passed = FALSE

(* Line 434: if not os.path.exists(arm64_image), launch the build. *)
CheckImage ==
    /\ hpc = "check"
    /\ \/ out = NoFile /\ launched' = TRUE /\ hpc' = "wait"
       \/ out # NoFile /\ hpc' = "report" /\ UNCHANGED launched
    /\ UNCHANGED <<vars, passed>>

(* run_command, lines 57-62: subprocess.run returns when the build has   *)
(* exited; line 436 drops (success, stdout, stderr).                      *)
BuildReturns ==
    /\ hpc = "wait"
    /\ pc = "done"
    /\ hpc' = "report"
    /\ UNCHANGED <<vars, launched, passed>>

(* run_command, lines 63-64: the 60 s timeout expires while the build    *)
(* still runs; the shell is killed, TimeoutExpired is caught and returns *)
(* (False, "", "Command timed out"), and the build is not stopped.        *)
BuildTimesOut ==
    /\ hpc = "wait"
    /\ pc # "done"
    /\ hpc' = "report"
    /\ UNCHANGED <<vars, launched, passed>>

(* Line 443: add_test("ARM64 image created", os.path.exists(arm64_image)). *)
ReportImage ==
    /\ hpc = "report"
    /\ passed' = (out # NoFile)
    /\ hpc' = "done"
    /\ UNCHANGED <<vars, launched>>

(* A step of the launched create_image.py (or of the environment around  *)
(* it), before or after the test stopped waiting for it.                 *)
Build ==
    /\ launched
    /\ Next
    /\ UNCHANGED <<hpc, launched, passed>>

TestNext ==
    \/ CheckImage \/ BuildReturns \/ BuildTimesOut \/ ReportImage
    \/ Build

TestSpec == TestInit /\ [][TestNext]_tvars

-----------------------------------------------------------------------------
(* Properties.                                                             *)

(* Section 5: "callers must not treat file existence alone as success —  *)
(* only a returned success result is trustworthy".  The test records      *)
(* "ARM64 image created" as passed only when a build it ran returned     *)
(* success.                                                                *)
ImageCheckTrustsSuccess ==
    (hpc = "done" /\ passed) => (launched /\ outcome = "success")

(* The test's verdict describes the file as it stays: once add_test has   *)
(* been called, no build the test started still writes to the image.    *)
VerdictStable == [][hpc = "done" => out' = out]_tvars
=============================================================================
