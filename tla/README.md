# Verification of the boot image / ISO assembly tools

TLA+ models of `src/tools/create_image.py`, `src/tools/create_iso.py` and the
image check of `src/tests/test_phase5.py`. They are checked with TLC on small
instances. The type invariants and the main safety invariants of both tools,
and the refinement of the ISO builder to the strategy chain of spec.md §4.4,
are proved with TLAPS for every value of the constants.

## 1. Inventory

| Part (spec.md name) | Source | What it does | Module | Status |
|---|---|---|---|---|
| LayoutPolicy | `create_image.py` 43-58, `create_iso.py` 127-143 | Computes the padding to the alignment unit and to the floor from `f.tell()` | `ImageLayout`, `ImageLayoutProofs` | modelled |
| RawImageAssembler | `create_image.py` 13-76 | Reads both inputs, opens the output `'wb'`, writes bootloader, pad, kernel and floor pad, then flushes | `CreateImage` | modelled |
| ISOStagingBuilder | `create_iso.py` 15-51, 193-194 | Uses a `TemporaryDirectory` and copies the two inputs and `grub.cfg` into it | `IsoChain` | modelled |
| PackagingStrategyChain | `create_iso.py` 53-149, 196-204 | Tries grub-mkrescue, then mkisofs, then genisoimage, then the raw fallback | `IsoChain`, abstract `PackagingChain`, `IsoChainRefinement`, `IsoChainArtifact` | modelled |
| ImageBuildCLI | both `main()` functions | Validates inputs, runs `makedirs`, dispatches and sets the exit code | `CreateImage`, `IsoChain` | partly (argparse and output text are left out) |
| Phase 5 test harness | `src/tests/test_phase5.py` | Runs compiler smoke tests and rebuilds an image when none exists | `ImageTest` (with `CreateImage`) | partly: the ARM64 image check (430-443) and `run_command` (55-66) |

### How the parts interact

Both CLIs run sequentially in one process and share no state. Each validates
its inputs with `os.path.exists` and opens them again later.

- **create_image.py**: reaching the file system through `create_arm64_image`,
  whichever `--arch` is given.
- **create_iso.py**: stages a temporary tree and runs the backends in a fixed
  order. The first one that reports success ends the chain. The raw fallback
  reuses the layout arithmetic with a 512-byte sector and a 2 MiB floor.

- **test_phase5.py** runs `make image ARCH=arm64` through `run_command`
  when no image is at `build/arm64/minios.img`. That recipe is outside the
  repository and is taken to run `create_image.py` once. The test then
  records `os.path.exists` of the image. With `shell=True` a timeout kills
  only the shell, so the build may still be running when the test looks.
  That is real concurrency between two processes.

Inside one tool, the model's "concurrency" is the environment. Another process may remove an
input between validation and use. Writes and flushes may fail and leave a
prefix of the data on disk. External tools may be missing, exit non-zero,
leave a partial file, raise, or (in one run) never return.

## 2. Modules

- **`ImageLayout`** has no state. It holds the code's padding operators
  `PadTo` and `PadToMin`, and the byte model of a file: a sequence of tagged
  bytes `<<tag, j>>`, so that a misplaced byte is visible. Next to them is
  the declarative layout of spec.md §3/§4.1: `RoundUp` (a `CHOOSE`),
  `SpecOffset`, `SpecTotal`, `SpecByte`, `IsImagePrefix` and `SpecImage`
  (the image cut at a length). The code is
  checked against this layout.
- **`CreateImage`** has variables `pc`, `outcome`, `inputs`, `outDirExists`,
  `blSize`, `kSize` and `out`.
  - `out` is a model value `NoFile` or `StaleFile`, or the bytes on disk.
  - There is one action per step of `main` and `create_arm64_image`:
    `Validate`, `MakeOutputDir`, `ReadKernel`, `ReadBootloader`,
    `OpenOutput`, `WriteBootloader`, `PadKernel`, `WriteKernel`, `PadMin`
    and `Close`.
  - `RemoveInput` is the environment action.
  - A failing `f.write` or flush keeps some strict prefix of the issued
    bytes, then returns False.
  - `IsADirectoryError`, `PermissionError` and a `makedirs` error are not
    caught, so they end the process as a crash.
- **`IsoChain`** adds to the same inputs `installed`, `whichOk`, `tmpDir`,
  `staging`, `out` and `attempts`.
  - `out` is a record of kind, producer and bytes. `attempts` is the history
    of backend runs.
  - `RunTool` is one tool run: it exits 0, or exits non-zero leaving the
    output as it was or a partial file, or raises. When `ToolsMayHang` is
    true it can also hang.
  - `Grub` and `IsoMaster` model the `which` probe and the try/except of
    each function, including where an exception jumps to.
  - The raw fallback works at byte level: `SimpleOpen` truncates before any
    input is read.
  - `Cleanup` is the exit of the `with TemporaryDirectory()` block, which
    runs on every path, including a crash during staging.
- **`PackagingChain`** is the contract of spec.md §4.4, written without any
  tool. Its state is `phase` (NotStarted, Trying, Succeeded, AllExhausted),
  `next` (the index of the strategy being tried) and `tried` (the attempts).
  Its actions are `Begin`, `Skip` (a failed capability probe, which is not
  an attempt), `Succeed` and `Fail`. The last strategy never probes, and
  its failure is AllExhausted.
- **`ImageWriter`** is the writer contract of spec.md §4.2 and §5, written
  without any layout. Its state is `target` (the image), `file` (what is
  at the output path) and `status`. `Overwrite` replaces the earlier
  content (one of `Before`) by an empty file. `Extend` grows the file from
  one prefix of the image to a longer one. `Fail` stops the build with the
  file as it was, or on a prefix of the image. `Succeed` requires the
  whole image.
- **`CreateImage`** maps onto it with `Writer == INSTANCE ImageWriter WITH
  ...`. `target` is `WriterTarget`, the specified bytes up to `ImageLen`,
  the length the code gives the image (that this is not the rounded-up
  `totalSize` is the separate `image_size_aligned` finding). `file` is
  `out`, `status` is `outcome`, and `Before` is `{NoFile, StaleFile}`.
- **`IsoChain`** maps its raw fallback `create_simple_iso` onto the same
  contract with `RawWriter == INSTANCE ImageWriter WITH ...`. `target` is
  `RawTarget`, the layout cut at `RawLen`, with the 512-byte sector and
  the 2 MiB floor. `file` is the output's bytes while it holds a raw image.
  Otherwise it is the model value `NotRaw`: nothing, an earlier file, or
  a tool's ISO or partial file. `Before` is `{NotRaw}`. `status` is read
  off the last recorded run: "running" until the fallback's run is
  recorded, then its "ok" or "fail". The tools' runs and the staging are
  therefore stutters of the contract.
- **`IsoChain`** maps onto `PackagingChain` with `Abstract == INSTANCE PackagingChain WITH
  ...`.
  - The strategies are the four backends in `main()`'s order.
  - `tried` is `attempts`.
  - `ChainPhase` reads the phase off `pc` and the exit status. From the
    grub probe to the end of `create_simple_iso` the chain is trying. After
    it, the chain has succeeded on exit 0, and is exhausted on exit 1 after
    some run. A crash or validation failure before the chain leaves it
    NotStarted.
  - `ChainNext` is the backend `pc` names, or the last one run.
  - The two names of GenericIsoMaster are two strategies. In the code a
    non-zero mkisofs exit goes on to genisoimage.
- **`ImageTest`** EXTENDS `CreateImage` and adds the test's `hpc`,
  `launched` and `passed`.
  - `CheckImage` is line 434.
  - `BuildReturns` and `BuildTimesOut` are the two ways `run_command`
    returns (lines 57-64).
  - `ReportImage` is line 443.
  - `Build` is a step of `CreateImage`'s `Next`, enabled once the test has
    launched it. It may interleave with the test's steps, also after a
    timeout.
- **`ImageLayoutProofs`**, **`CreateImageProofs`**,
  **`CreateImageRefinement`**, **`IsoChainProofs`**,
  **`IsoChainRefinement`**, **`IsoChainArtifact`** and **`IsoChainWriter`**
  hold the TLAPS proofs.
- The `MC*` modules give TLC its constants.

## 3. Runs

| Run | Expect | What it shows |
|---|---|---|
| `create_image_pass` (`ImageCorrect`, `WriteProgress`, `ImplementsWriter`) | pass, 22 704 states | Over every input kind, removal after validation and I/O failure: a True return means the exact specified bytes, at least the kernel end and the floor, and at most `totalSize`. At every moment, including after a failure, the file is a prefix of the specified image. Every step is a step of `ImageWriter` (`ImplementsWriter`). |
| `image_size_aligned` | violation | The image length is `max(kernel end, floor)`, not rounded to the unit (spec §8). Example: bl=1, k=9 gives length 13 with unit 4. |
| `no_uncaught_exception` | violation | A directory or unreadable input, or a failing `makedirs`, escapes as a traceback (spec §7). |
| `iso_chain_pass` (`SuccessArtifact`, `FallbackOrder`, `StagingScoped`, `ImplementsChain`, `ImplementsRawWriter`, `Termination`) | pass, 114 752 states | Exit 0 means the output was made by the backend whose run succeeded, and a raw fallback is a complete, correct layout. Backends run in priority order, at most once each, and only the last may succeed. Tools see the complete tree, and the tree is gone at exit. Every step is a step of `PackagingChain` (`ImplementsChain`) and of the raw fallback's `ImageWriter` (`ImplementsRawWriter`). Under `WF_vars(Program)`, with tools that return, every build ends (`Termination`). |
| `exhausted_leaves_no_file` | violation | When all backends fail, a truncated raw image or a tool's partial ISO is left (spec §4.4). |
| `tool_hang_termination` | violation | With a hanging tool the build never ends, because there is no `timeout=` (spec §5). |
| `harness_trusts_existence` (`ImageCheckTrustsSuccess`) | violation | "ARM64 image created" passes on a stale file without any build, in two steps. A constrained rerun shows that it also passes on the empty file left by a `create_image.py` that failed after opening the output. Spec §5 says existence alone is not success. |
| `harness_orphan_build` (`VerdictStable`) | violation | After the 60 s timeout the build goes on and writes the image after `add_test` has been called. The verdict is taken on a file that is still being written. |

Each property of a passing run has a mutant, a plausible bug in the
definition it is about. TLC finds the property violated on each one:

- `CloseSwallowsError` breaks `ImageCorrect`. It also breaks
  `ImplementsWriter`: it returns True over a truncated file, which is no
  `Succeed`.
- `PadMinStale`, which uses a stale `current_size`, breaks `WriteProgress`.
- `RunToolIgnoresExit` breaks `SuccessArtifact`.
- `IsoMasterNoReturn` breaks `FallbackOrder`.
- `StageNoCleanup` breaks `StagingScoped`.
- `GenisoimageNoFallback`, a `main()` without the final `else`, breaks
  `ImplementsChain`: the build ends with exit 1 and no run of the fallback.
- `StageRetries`, a copy retried until it works, breaks `Termination`.
- `SimpleCloseSwallowsError`, a fallback that records "ok" although the
  final flush lost bytes, breaks `ImplementsRawWriter`: a `Succeed` over a
  file that is not the whole image.

### Bounds

One unit stands for 1 MiB (or 512 bytes), and the floor is 3 units. The
floor is scaled down so that kernel ends fall below, at and above it.

- `create_image` uses Align = 4, bootloader 0..5 and kernel 0..10. This
  gives an empty, an aligned and unaligned bootloaders, and kernel ends on
  both sides of the floor of 12.
- `create_iso` uses Sector = 2, bootloader 0..3 and kernel 0..4. It also
  covers every subset of the three tools, with `which` present or not.

The layout arithmetic only depends on sizes relative to the unit, so these
cover every case of the two padding guards: remainder zero or not, and below,
at or above the floor. The proofs then remove the bounds for every property
they cover.

### Fairness

The passing ISO run uses `WF_vars(Program)`, and checks `Termination` under it. `Program` is `Next` without the
environment's `RemoveInput`. The program is a single sequential process that
is never descheduled forever. Nothing obliges the environment to act, so it
gets no fairness. `Termination` fails only because a hanging tool leaves
nothing enabled, which is the modelled absence of a timeout.

## 4. What is proved (TLAPS)

All proofs check with `tlapm`, from these assumptions on the constants:
`Align \in Nat \ {0}` (`Sector` likewise), `MinSize \in Nat` (`IsoMinSize`
likewise) and `MaxBl, MaxK \in Nat`. In `CreateImage` the two file markers
are not byte sequences, and in `IsoChain` `ToolsMayHang` is Boolean.

- `IsoChainRefinement!RefinesChain`: `Spec => ImplementsChain`, that is
  `Abstract!Spec` under the mapping. It holds for every constant, with
  hanging tools too: a hang maps to a `Skip` to the fallback, which never
  comes.
  - It rests on `RInv == IInv /\ RunningAt`. `RunningAt` says the exit
    status stays "running" until the with block is left. The mapping needs
    it to tell NotStarted from Succeeded.
  - It also needs `IInv`'s bound on the ranks in `attempts`
    (`NothingRun`). Nothing has run before grub-mkrescue, so the grub step
    starts the chain at strategy 1.
  - There is one lemma per kind of step: `RunToolRefines` (success is
    `Succeed`, a failure or exception is `Fail`, a hang is `Skip`),
    `GrubRefines`, `IsoMasterRefines`, `SimpleFailsRefines`,
    `SimpleWriteRefines`, `SimpleCloseRefines` and `SetupRefines`
    (`StageGrubCfg` is `Begin`, the rest stutter).
- `IsoChainArtifact!SuccessArtifactHolds`: `Spec => []SuccessArtifact`,
  for every sector size, floor and input size, with hanging tools too.
  - `SuccessArtifact` speaks only of the final state, so it is not
    inductive. The invariant is `AInv == RInv /\ RawAt /\ SuccessAt`.
  - `RawAt` says two things. A raw file at the output path is always a
    prefix of the specified image. At each step of `create_simple_iso`
    the file has the length `f.tell()` returns there (`RawLenAt`): 0, the
    bootloader size, the kernel offset, the kernel end, and then `RawLen`
    (the kernel end or the floor).
  - `SuccessAt` carries the success past the with block: the history ends
    in that backend's "ok", and a raw image has length `RawLen`.
  - There is one lemma per kind of step. `ToolArtifact` covers a tool
    run. `RawWriteStep` and `WriteArtifact` cover a raw write, and
    `CloseArtifact` the flush. The byte facts are the `ImageLayoutProofs`
    lemmas, used with `Sector` and `IsoMinSize`.
  - `RawLenBounds` places `RawLen` between the kernel end, the floor and
    `SpecTotal`.
- `CreateImageRefinement!RefinesWriter`: `Spec => ImplementsWriter`, that
  is `Writer!Spec` under the mapping, for every unit, floor and size bound.
  - It rests on `WInv == IInv /\ BeforeOpen`. `BeforeOpen` says the output
    path still holds `NoFile` or `StaleFile` until `open(..., 'wb')`, so
    that the open is an `Overwrite`.
  - `PrefixOfTarget` turns `IInv`'s "every byte is the layout's" plus a
    length bound into membership of `Prefixes(WriterTarget)`. It uses the
    layout lemma `PrefixOfImage` of `ImageLayoutProofs`. `WholeImage` does
    the same for the whole image at the close. Both refinement proofs
    share these two lemmas, stated on `SpecImage` (the layout cut at a
    length).
  - There is one lemma per kind of step. `WriteRefines` covers a write: a
    completed one is an `Extend` (or a stutter for zero padding), a failed
    one a `Fail` on a prefix. It takes the bytes' correctness from `IInv`
    after the step, so the layout reasoning of `NextIInv` is not repeated.
    `WritesRefine` gives the four writes their length bounds from
    `WriteProgress`. `OpenRefines`, `CloseRefines` and `EarlyRefines`
    (checks and reads: a stutter or a `Fail` with the file untouched)
    cover the rest. `RemoveInput` stutters.
- `IsoChainWriter!RefinesRawWriter`: `Spec => ImplementsRawWriter`, for
  every sector size, floor and input size, with hanging tools too.
  - It rests on `WInv == AInv /\ NotRawBefore`. `NotRawBefore` says no raw
    image is at the output path before the fallback's open. The tools'
    runs are then stutters, and the open is an `Overwrite` from `NotRaw`.
  - The status is read off the history. `RunningBefore` shows that it is
    "running" while the fallback has not run, because `IInv` keeps every
    recorded run ranked below the next backend. `AppendStatus` gives the
    status after a run is recorded.
  - There is one lemma per kind of step: `ChainStutter`, `OpenRefines`,
    `RawWriteRefines` and `CopyRefines` (via `RawWritesRefine` for the four
    writes), `CloseRefines` and `RawStutter`. As for `CreateImage`, the
    written bytes are the image's by the invariant after the step
    (`AInv'`), so only the lengths are computed here.
- `ImageLayoutProofs!SpecOffsetIsPadded`: `bl + PadTo(bl, u)` is the
  smallest multiple of `u` that is at least `bl`, for every `bl` and `u`.
  The argument is Euclidean division (`ModUnique`), with `PadToBounds` and
  the uniqueness of the `CHOOSE`.
- `CreateImageProofs!TypeCorrect`, `WriteProgressHolds` and
  `ImageCorrectHolds` are of the form `Spec => []P`.
  - They go through the inductive invariant `IInv == TypeOK /\
    WriteProgress /\ SuccessDone /\ (finished => pc = "done")`.
  - `ImageCorrect` alone is not inductive. A successful close must know that
    the file already has length `ImageLen` and is an image prefix. That is
    what `WriteProgress` records at each `pc`.
  - `SuccessDone` carries the result past the end.
  - `NextIInv` has one case per action. Each write case shows that the
    appended bytes are the next bytes of the specified image
    (`SpecByteBootloader`, `SpecByteKernel`, `SpecByteTail`, `AppendPrefix`).
    Each failure case shows that truncation keeps a prefix (`WriteStep`,
    `TruncateStep`).

- `IsoChainProofs!IsoTypeCorrect`, `FallbackOrderHolds` and
  `StagingScopedHolds` are of the form `Spec => []P`. They hold for every
  sector, floor and bound, and with `ToolsMayHang` either way.
  - The inductive invariant is `IInv == TypeOK /\ StagingAt /\ OrderAt`.
  - `FallbackOrder` alone is not inductive. A tool run must know that every
    earlier run ranks below it. `OrderAt` bounds the ranks in `attempts` by
    `NR(pc)`, the rank of the first backend still reachable from `pc`. It
    also requires every run to be a failure while the chain is still going.
  - `AppendStep` shows that recording the backend whose turn it is keeps
    the order.
  - `StagingScoped` needs the staging tree at every `pc`, which is
    `StagingAt`.
  - TLC checked `IInv` on the MC instance, with hanging tools, before the
    proof.

Only TLC checks these:

- The violations.
- Liveness (`Termination`): TLAPS does not handle `ENABLED` or fairness
  here.
- The harness model (`ImageTest`), whose runs are violations.

The declarative `RoundUp` is written as a `CHOOSE` rather than by recursion,
so that it stays in reach of the provers.

## 5. Not modelled

- Argument parsing and all printed text.
- The contents of `grub.cfg` and the El Torito flags, which are constant
  strings passed to a tool. The tools themselves are opaque outcomes.
- The rest of the test harness. Its compile, header and source-text tests
  call a compiler or grep sources (spec.md §1 excludes them). The
  kernel-size ratio is a heuristic (spec §9). The x86_64 ISO check (lines
  439-444) has the same control flow as the ARM64 one, against
  `create_iso.py`, and would show the same two findings.
- The Makefile recipe behind `make image`, which is not in the repository.

## 6. Plan

1. Compose `ImageTest` with `IsoChain` for the x86_64 check, if a property
   of the composition turns out to differ from the ARM64 one.
