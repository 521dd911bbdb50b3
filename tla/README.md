# A TLA+ verification of poly-firmware-build

poly-firmware-build turns a kernel tree and a Debian rootfs into flashable
images for two Polycom panels (TC8 and C60), and ships the initramfs script
that decides, at every boot of the TC8, how the root filesystem is mounted.
This directory models the parts of it that keep state, model-checks them on
small instances with TLC and proves, with TLAPS, every safety property that the
runs check for all instances. PROJECT.json is the machine-readable index: components,
runs, the source lines behind every definition, mutants, hazards, findings and
theorems.

## 1. The system

| Part | Source | State it keeps | Operations |
|---|---|---|---|
| Boot selector | `initramfs/init` | mounts, mode, the wait counter; across boots the `cache`, `facres` and `userdata` partitions | read cmdline, wait for the rootfs, decide the mode, apply a staged config blob, mount direct or overlay, fall back, `switch_root`, rescue |
| Config contract | `initramfs/init`, `CONFIG-PARTITION.md` | one blob in `cache`: absent, half written, complete | stage over fastboot, apply, consume |
| Build pipeline | `build.sh`, `images/rootfs.sh` | `out/<profile>/`, the tarballs in `rootfs/out/`, the kernel in `out/<profile>/kernel/`, `SHA256SUMS` | lazy rootfs, kernel or `--skip-kernel`, rootfs image and its guard, delivery format, ramdisk, profile variants, boot set, stamp, checksums |
| Boot recipes | `targets/{tc8,c60}/boot.sh` | `boot.img`, `dtbo.img`, `vbmeta.img` | pack, pad, AVB footers, vbmeta |
| Kernel build | `kernel/build.sh` | the patch state of a kernel tree shared by both boards | reset, apply, configure, make, copy |
| Sparse images | `tools/mksparse.py` | chunk list, output file | coalesce, write, verify; flash |
| GPT restore image | `gpt-restore/make-gpt-restore.py` | three chunks; the eMMC they are flashed to | check the captured tables, write; flash |
| Cache image builder | `tools/mkconfigblob.py` | the `cache` partition it is flashed to | build either form; flash; two readers |
| Packers | `tools/mk{bootimg,dtboimg,initramfs}.py` | the file being written | one input-to-output conversion each |
| U-Boot environment editor | `tools/uboot_env_edit.py` | a 4096-byte block with a CRC | read, show, modify, delete, preset, verify |
| U-Boot slot macros | `tools/uboot_env_edit.py` | memory, `$slot`, bootargs | `slotaboot`, `slotbboot`, `bootcmd_ab` |
| Bench tools | `smoke/catch_uboot.py`, `uboot_watch.py`, `poe_cycle.sh` | a websocket stream; a phase; a switch's ping target | interrupt the boot, enter fastboot, cut the power |
| Release | `.github/workflows/release.yml` | the asset set | build, gate, copy, publish |
| Not this project's code | `tools/avbtool` (vendored AOSP), `rootfs/` and `kernel-patches/` (submodules) | | |

How they meet: the pipeline packs `initramfs/init` into `boot.img` and the
rootfs tarball into `rootfs.img`, which `mksparse.py` turns into the file
fastboot un-sparses onto `userdata`. On the panel the boot selector mounts that
partition, chroots into it to run the applier that came with it, and hands over.
The wizard stages configuration in `cache` with the bytes `mkconfigblob.py`
lays out. `uboot_env_edit.py` installs the macros with which U-Boot picks a slot
that holds the images of the boot recipes. The bench tools drive a panel from
outside: cut its power, stop its boot, put it in fastboot. The release workflow
is one run of the pipeline on a fresh machine.

What is hard to test in it:

* **Power cuts.** The config blob must be applied entirely or not at all with
  the power going at any step, including between the last write and the
  zeroing of the header.
* **Races with the kernel.** `/init` polls for one partition and then looks for
  two others once. Dirty pages are written back when the kernel likes.
* **Half-done mounts.** Many `umount`s in `/init` are unchecked.
* **Failures in the middle of a build**, with `set -e` and a directory that the
  next build, possibly for the other board, reuses.
* **Caches that nothing invalidates**: the rootfs tarball, the kernel.
* **Images over old data**: a sparse image does not write its zero blocks.
* **Boundaries**: 32-bit size fields, padded tails, a 32 MiB pad that can cut,
  an environment full to the last byte, a config that reaches 1 MiB.
* **Edits in place**: an environment file is truncated before it is rewritten.
* **Streams and timers**: websocket frames cut anywhere, writes that are taken
  in part, a panel that restarts while it is being driven, a switch that pings
  on its own schedule.

What makes each part correct: the mode asked for is the mode booted; the eMMC
is not written under a sealed root; a blob is one atomic, eventually consumed
message; every boot ends; a set of files that the checksums accept is one
consistent set for one board; a kernel tree is what this board's series makes
of it; a flashed image is the image and every reader finds its parts; an edited
environment is the old one plus the edit; a bench tool that reports success has
had it.

## 2. Modules

| Module | Models | Depends on |
|---|---|---|
| `ConfigStore` | abstract: what staging a configuration promises | |
| `BootSelector` | `initramfs/init` and its environment, over many boots | `ConfigStore` |
| `MCBoot` | run: `BootSelector` without limits, and with finitely many faults in the config step | `BootSelector` |
| `BootSelectorProofs` | inductive invariant, safety and refinement | `BootSelector`, TLAPS |
| `BuildTree` | `build.sh`, the boot recipes, their caches and outputs | |
| `BuildTreeProofs` | inductive invariants and the four checksum theorems | `BuildTree`, TLAPS |
| `KernelTree` | the patch state of the kernel tree (`kernel/build.sh` 104-141) | |
| `KernelTreeProofs` | the tree after any builds | `KernelTree`, TLAPS |
| `MCBuild` | run: `BuildTree` beside `KernelTree` | both |
| `SparseImage` | `tools/mksparse.py` and the flashing of its output | |
| `SparseImageProofs` | the coalescing loop, the writer against the reader, the flash | `SparseImage`, TLAPS |
| `Packers` | layouts of `boot.img`, `dtbo.img` and the initramfs | |
| `GptRestore` | `make-gpt-restore.py` and the flashing of its output | |
| `GptRestoreProofs` | the flash at every sector, with retries | `GptRestore`, TLAPS |
| `CacheImage` | `mkconfigblob.py`, the flash and the two readers | |
| `ImageProofs` | what the readers of cache and packed images find | `CacheImage`, `Packers`, TLAPS |
| `MCImages` | run: the four image modules side by side | all four |
| `UbootEnv` | `uboot_env_edit.py` on files and the panel's block | |
| `SlotBoot` | the macros it installs, run by U-Boot | |
| `UbootProofs` | what edits save and what the macros boot | `UbootEnv`, `SlotBoot`, TLAPS |
| `MCUbootEnv` | run: the two side by side, and the blocks to try | both |
| `CatchUboot` | `smoke/catch_uboot.py` against a probe and a panel | |
| `UbootWatch` | `smoke/uboot_watch.py` against a panel | |
| `PoeCycle` | `smoke/poe_cycle.sh` against the switch's timer | |
| `BenchProofs` | the stream and its window, the reports, the power cuts | the three, TLAPS |
| `MCBench` | run: the three side by side | all three |

`MCBoot` runs one program with two sets of inputs, told apart by `part`. `MCBuild`,
`MCImages`, `MCUbootEnv` and `MCBench` put programs side by side that
share no state: a variable (`part`, `tool`, `side`) chosen at the start says
which one runs, and the others stay in one initial state. This asks one run the
questions of several without multiplying their states. One run
module extends them all, so the names of the modules put beside another carry a
prefix where they would meet: `KernelInit`, `PackInit`, `GptInit`, `CacheInit`,
`MacroInit`, `WatchInit`, `PoeInit`, and so on for `Next`, `Spec` and the
variables. The assumptions of these modules are plain definitions and are asserted
by the run's module, so that TLC evaluates them.

Definitions under a comment `Mutant:` are deliberately wrong
variants of the definition that follows. No specification uses them; each is
what a plausible bug in that line would be, and some property fails with it.

### BootSelector

`pc` is the position in the script: `poll` (lines 77-86), `mode` (88-96),
`config`, `chroot`, `unbind`, `umount` (99-126), `mount`, `overlay`, `fallback`
(128-162), `switch` (164-174), then `run`, `rescue` or `panic`; `off`,
`fastboot` and `staging` are the panel without Linux. One action is one command
with its outcome: each `mount` has a succeeding and a failing action, and what
an unchecked `umount` leaves is a nondeterministic choice (`Unbind`,
`OverlayFail`).

The data are abstracted to what the properties tell apart. The rootfs is the
set of settings the applier writes, each with a value on the eMMC (`disk`) and
perhaps a newer one in the page cache (`dirty`). A blob is absent, torn (its
digest does not match) or whole, with the settings it carries. The GPT is three
positions, because the kernel adds partitions in table order; 0 stands for a
partition that is not in the table.

Outside the script, and marked external in the map: partition probing, page
writeback, `panic=10`, the applier (from `rootfs/`, modelled from the contract
in `CONFIG-PARTITION.md` and from how `/init` calls it: write, sync, zero the
header last), the running system and its `tc8-rw`/`tc8-ro`, fastboot, and the
power supply, which may fail in every state.

`ConfigAtomic` is the refinement: the settings on the eMMC (`disk`), a whole blob
(`Offered`) and who may touch them (`Phase`) implement `ConfigStore`. There an
offer may reach the base setting by setting, but it goes away in two cases only:
it is accepted, once every setting it carries is in the base, or a newer blob
begins to be staged over it. Nothing changes the base besides, except the running
system in maintenance. A boot that consumed a blob it had applied in part, or not
at all, or whose pages were still to be written, would have no abstract step.

### BuildTree

The content of a file is the term that says what it was made from (`Vbmeta(b, d)`
holds the very `boot.img` and `dtbo.img` it describes), so equal contents stand
for equal SHA-256 digests. `out` is the output directory, `sums` the list with
its digests, `tgz` and `kout` the caches, `inv` the options of the running
build. One action is one command of the pipeline. `Fail`, `FailTorn`,
`FailRemoved`, `FailCaches` and `SumsCut` end a build at any command, with the
file it was writing untouched, half written or (in the c60 recipe, which removes
first) gone; `SHA256SUMS` itself may be cut short. A failed check is the same
thing: the step's guard is false and only a failure is possible. The c60 recipe
ends with `truncate -s`, which cuts as well as pads: `Cut` replaces by a truncated
content what lies beyond `BOOT_PAD_SIZE` (`KernelEnd`, `DtbEnd`), so a `boot.img`
that lost its DTB, or the end of its kernel, does not hold it. `skipped` remembers
whether the build that wrote the list took its kernel over.

Abstracted: byte layouts and addresses, the AVB key, package lists, the content
of the kernel tree. `--rootfs=`, `--linux=`, `--patches=` and `--out=` keep
their defaults, the pre-flight checks are taken as passed, and the repositories
change only between builds.

### KernelTree

The content of a file is the sequence of patches applied to it, or `Absent`.
`Checkout`, `Delete` and `GitApply` are the git path, patch by patch: `git
checkout` resets tracked files only, `Delete` removes the files that the text of
a patch shows as created (`Shown`; renamed, empty and binary files do not show),
`git apply` is atomic per patch. `PlainApply` is the path without git, with its
reverse dry run. `Kill` stops a build anywhere. What `make` then does with the
tree is external, and configuring and staging firmware are left out.

### SparseImage

`raw` is every image up to a length, in bytes that are zero or not. `Begin`,
`Extend` and `Close` are the coalescing loop with its indices `i`, `j`;
`WriteHeader`, `WriteChunk` and `WriteDone` write; `Verify` is `verify()`, field
by field; `Flash` (external) un-sparses onto a partition that is zeroed or holds
old data. `U32` is the width of `total_sz`: a larger run makes `struct.pack`
raise.

### Packers, GptRestore, CacheImage

A packed file in `Packers` is the list of its parts with offset and length, as
the writer's padding puts them; `BootReader`, `DtboReader` and `CpioData`,
`CpioNext` (external) are where U-Boot, libdtbo and the kernel's unpacker look,
computed from the header fields alone. Fields no reader computes with (addresses,
ids, SHA-1) are left out.

`GptRestore` flashes its three chunks sector by sector, with a power cut at any
sector and any number of retries, onto a panel that has another table or has
lost one copy or both. `Make` has the assertions of the script: the lengths, and
"EFI PART" in the second sector. A reader (external) takes the primary copy if it is whole
and otherwise the backup.

`CacheImage` works in cells of 64 bytes, the size of a blob header. A digest is
the data it is of. `Assign` is Python's slice assignment, which overwrites and
grows; the flash goes cell by cell over what the partition holds, the power may
go, and the operator tries again or pushes another image. The option decides
between the two forms, so a bootloader may be an empty file. `Config` and `Stage2`
are what the two readers on the panel (external) accept.

### UbootEnv and SlotBoot

A block is a CRC that is right or wrong and a payload of cells, each NUL or a
whole text. `parse_env` and `serialize_env` work on cells as the code does on
bytes, up to the last one. A command is `Invoke`, `Load`, `Edit`, `Save` and
`Write`: the file is opened, and with that cut, between `Save` and `Write`, so
`Kill` and `WriteError` there leave a short file, also when input and output are
the same path.

`SlotBoot` runs the macros as U-Boot's shell does: `;` goes on after a failure,
memory and bootargs keep what the first macro put there, a read may fail.
Addresses and lengths are the constants of the code. `booti` and `boota` are
external; `booti` looks at the header of the kernel only, so one that is longer
than `BOOT_LEN` is started without its end and may hang.

### CatchUboot, UbootWatch, PoeCycle

`CatchUboot` has the client's loop (`Select`, `Pull`, `Need`, `Take`, `Ret`,
`Send`, `Wait`) over a byte stream that the probe fills frame by frame, that
`recv` returns in any pieces and that the probe may close or leave in the middle
of a frame. The console prints text without interest, the arrow (`Marks`) also
outside U-Boot, and at the prompt both tokens of it, in one frame or in two; the
panel may restart at any time. The window is smaller than the buffer and a frame
may be longer than the window, so a prompt can be pushed out and an arrow can come
to lie where the window begins. The handshake is one step, to which no fairness
is given. A burst is a frame of `FLEN` bytes of which `send` may take any part;
`owed` and `garbled` are the probe's side. Masking is its own inverse and is left
out.

`UbootWatch` is the phase machine, one request per step. A read may be lost with
its bytes, a write that fails ends the program. The panel boots, prints its
banner, counts down, is stopped by a key, and may restart at any time. Console
text is the set of strings the watcher looks for.

`PoeCycle` is the script's POSTs against the switch's timer, second by second.
The CGI may drop a POST without an error, curl may fail, the script may be
killed. The switch (external) is modelled from the script's comments: one ping
per interval, a startup delay after it is first armed, power off for `BREAK_SEC`
when a ping has no answer.

## 3. What the runs check

| Run | Bounds | Distinct states | Result |
|---|---|---|---|
| `boot` | 2 settings, 2 values, 3 GPT positions, 2 tries, every `tc8.rootfs=`; and 1 value, no usable facres, at most 2 faults | 264 018 | `TypeOK`, `ModeMatchesIntent`, `CleanHandover`, `SealedDiskFrozen`, `ConfigAtomic`, `BootSettles`, `ConfigConsumed` hold |
| `build` | 2 builds with every option, 2 revisions, 2 profiles, both boards, kernels that fit, lose the DTB, or fit nowhere; 3 builds with 1 revision, 1 profile, small kernel; 3 kernel builds of 5 series, 2 kills, with and without git | 4.92 million | `VbmetaChains`, `BootSetOfOneBuild`, `RootfsFitsBoard`, `TornOnlyIfKernelSkipped`, `AppliesAfterAnything`, `BuildsTheSeries` hold |
| `images` | raw images up to 9 bytes in 2-byte blocks, 16-byte size limit; 9 sizes around the paddings, 3 pages; GPT of 4 + 3 sectors on a disk of 12; 2 pushes, configs below, at and over the header, with no bootloader, an empty one and two others | 116 722 | `OnlyRawWritten`, `Coalesced`, `SparseConverts`, `PartsFound`, `MiddleKept`, `StaysReadable`, `Restored`, `PushUnderstood` hold |
| `uboot_env` | 9 cells, payloads of up to 3 texts, of one text repeated, and a full one; 3 commands on two payloads, 1 on the others; 2 paths; every content of both slots | 1.87 million | `SavedIsRequested`, `KeepsUntouched`, `RefusalHarmless`, `PresetReady`, `SavedFromWhole`, `DeleteNeverTooLarge`, `SlotCoherent`, `ChoiceHonoured` hold |
| `bench` | 2 frames of 1 or 4 tokens, window 3, buffer 4; 2 restarts; 3 PoE commands, interval 10 s, 1 s of lag, 1 fault | 647 882 | `StreamIntact`, `TailKept`, `PromptCaught`, `CatchEnds`, `ReportTrueIfStopped`, `NotLeftAtPrompt`, `BannerNoticed`, `CycleCuts`, `StaysOn` hold |
| `rescue_only_without_rootfs` | 1 setting, 2 positions, 2 tries | | violated: see below |
| `rootfs_for_board` | 2 builds, every option | | violated: see below |
| `config_only_noops` | 2 pushes | | violated: see below |
| `shipped_slot_boots` | as `uboot_env` | | violated: see below |
| `frames_intact`, `anchored_at_end` | 3 frames | | violated: see below |
| `single_cycle` | 3 commands, no fault | | violated: see below |

Why the bounds are enough. *Boot*: two settings make partial applies visible
and two values make a change visible; a longer table or more tries only repeats
positions, and boots are not bounded at all (the state after a boot is a state
before one). *Build*: each property relates what one build listed to what later
builds left, so two builds show every pair; the third matters only when a second
damages what the third reuses, which is the question of
`TornOnlyIfKernelSkipped`. The kernel sizes are one that fits everywhere, one
whose DTB is cut off in the c60's `boot.img`, and one that fits nowhere; the rootfs sizes are the defaults and one that fits tc8 and
not c60. *Kernel tree*: three builds let a series meet the leftovers of two
others; the five series share an edited file, a created file and a file that one
creates and the other renames to. *Sparse*: nine bytes are five blocks with a
padded tail, so every order of runs up to five occurs, and the size limit admits
one block of payload and rejects two or more, so that both sides of the overflow
happen. *Packers*: the sizes are 0, every remainder of 4, and both sides of 512
and 2048. *GPT, cache*: the regions have different lengths, so that a shift by
one sector or cell shows, and the second push may be shorter or longer than the
first. *Environment*: nine cells hold four texts and the terminator, or four
texts and none; a third command meets what a second one, killed, left of the
first one's file. *Bench*: two frames suffice for a frame boundary inside a
read, a control frame beside text and a second frame behind a partial one; the
buffer keeps three tokens of four and a frame may have four, so trimming happens,
a prompt may come in two drains, and one may pass the window unseen. In `PoeCycle` every
second of the interval occurs as the moment of the flip.

### Disagreements found

Each has a run that TLC refutes:

* A failed `umount` after a config apply ends in the rescue shell with a
  present, mountable rootfs; the header of `/init` says only a missing or
  unmountable one does (`RescueOnlyWithoutRootfs`).
* The rootfs tarball is built once, for the first board. The README's own
  sequence, tc8 then c60, packs the tc8 rootfs for the c60 (`RootfsForBoard`).
* A config-only push leaves what an earlier push staged from 1 MiB on, and the
  updater finds it; `CONFIG-PARTITION.md:47-48` says it no-ops
  (`ConfigOnlyNoOps`). What does hold is `UpdateKept`: only a push that carries a
  bootloader, or a config that runs over its header, changes what is found.
* The slot macros hand `booti` the start of the dtbo partition, where a
  `dtbo.img` of this repository has its table header and no device tree: slots
  with the images built here are booted by `boota` only (`ShippedSlotBoots`).
* A burst that was sent in part is followed by a new frame, which the probe
  reads as the rest of the old one (`FramesIntact`).
* `catch_uboot.py:159` speaks of a search anchored to the end. A prompt followed
  by other output counts as caught, and so does an arrow where the window happens
  to begin, on a panel that boots on (`AnchoredAtEnd`). What does hold is
  `PromptCaught`: no prompt within the window goes unnoticed.
* `poe_cycle.sh:22` and `:109` promise a single cycle; when the flip comes at most
  about five seconds before a ping the port is cut twice (`SingleCycle`). What
  does hold is `SecondCutOnlyIfClose`: that is the only case, and there is no
  third cut.

Others were met while modelling. The models do what the code does, and a
property that would meet them says so in its hypothesis; they have no run of
their own:

* The rescue call after `exec switch_root` (`init:174`) is dead code; a failing
  `switch_root` panics the kernel.
* Zero blocks are sent as DONT_CARE, so a re-flash keeps old data in them
  (`mksparse.py:85`), and `FLASHING.md` has no erase before it. `OnlyRawWritten`
  says exactly what is written.
* `build.sh:162-163` wants `version.env` and `/etc/tc8-version` to agree; on a
  cached tarball they differ.
* `targets/c60/boot.sh:30-31` says it pads; `truncate -s` cuts a `boot.img` over
  32 MiB, losing the DTB.
* `kernel/build.sh:104`: patches are not idempotent without git when two of them
  change one file. `:109-110`: an empty series also skips the reset, so the last
  build's patches are compiled in. `:121-123`: a file created by rename or copy,
  or an empty or binary one, is not deleted, and such a series applies once only.
* `CONFIG-PARTITION.md:45-46` allows a payload of 1 MiB; with a bootloader the
  header at 1 MiB overwrites its last 64 bytes and the config is ignored as a
  whole, which `PushUnderstood` states.
* `catch_uboot.py:37-41`: the handshake has a timeout for each read and none for
  the whole, so a probe that dribbles out its answer holds the client there.
* `uboot_env_edit.py:64`: a kernel longer than the read is started without its
  end, and what follows in the macro is never reached.
* `uboot_env_edit.py:77-84`: a failed read does not end the macro; in `slotbboot`
  behind a refused `slotaboot` it mixes both slots, which `SlotCoherent` states.
* `uboot_watch.py:73-74`: fastboot is reported after eight seconds, or on the
  echo of the command, whatever the panel does.
* `uboot_watch.py:30-33`: a write that fails ends the watcher with the panel
  stopped at the prompt.
* `poe_cycle.sh:122-123`: a dropped revert is reported as done, and the port is
  cycled until another command goes through.

### Fairness

`BootSelector` assumes weak fairness of the script's own steps and of the
applier it waits for: a process that can run is scheduled, and a `mount` returns
one way or the other. Nothing else is fair: partitions may never appear, the
operator may never come, pages may never be written back. That the applier ends
is an assumption `/init` makes too: there is no timeout around the chroot, and an
applier that hangs stops the boot. The second part of `MCBoot` adds that the config step
is reached again and again and fails finitely often; without that a blob need
not be consumed. `SparseImage` assumes that the converter, a sequential program,
keeps running; `CatchUboot` that the client's loop does and that its deadline
comes, but not that the handshake ends;
`UbootWatch` that the watcher does and that eight seconds pass; `PoeCycle` that
time passes and that the script goes on. The panel, the probe, the operator and
every fault are without fairness. `BuildTree` and `KernelTree` state no
liveness: any command may fail, always.

## 4. What is proved

TLAPS checks eight proof modules to the last leaf. Together they prove every
safety invariant, every action property and the refinement that the passing runs
check. The theorems name the very definitions the runs check. `BootSelector`,
`BuildTree`, `SparseImage`, `UbootEnv` and `CatchUboot` have their assumptions as
ASSUMEs; in the modules beside them they are definitions, which are hypotheses of
the theorems and are asserted by the run's module.

**BootSelectorProofs**, for every set of settings and values, every GPT in
which `cache` and `facres` come before the rootfs, every number of tries and any
cmdline:

* `TypeCorrect`, `ModeCorrect` (`ModeMatchesIntent`), `HandoverCorrect`
  (`CleanHandover`), `SealedCorrect` (`SealedDiskFrozen`) and `Refinement`
  (`ConfigAtomic`).

The assumptions are `UnsetAssumption` (no value is "no value"),
`PositionAssumption` (the order of the GPT: without it `/init` could miss the
flag, because it waits only for the rootfs), `TriesAssumption` and
`OverridesAssumption`. None of the properties is inductive. The invariant adds
what is mounted at each place of the script (`MountInv`); where the page cache
is clean (`CleanInv`); that a dirty page outside the running system belongs to a
blob that is still whole and says the same (`DirtyInv`), which is why losing it
loses nothing; that what the applier wrote is in the page cache or on the eMMC
(`WrittenInv`), which is why the blob is consumed only when all of it is there;
that fastboot's blob is torn while it is written (`StagingInv`); and that
everything is probed once the rootfs is (`ModeInv`). The refinement then goes
action by action.

**BuildTreeProofs**, for any profiles, requests, sizes, revisions and number of
builds: `ChainCorrect` (`VbmetaChains`), `BootSetCorrect` (`BootSetOfOneBuild`)
and `RootfsCorrect` (`RootfsFitsBoard`). The argument: the files of the running
build are consistent as far as the build has come (`RootfsInv`, `BootInv`,
`DtboInv`, `VbmetaInv`), so a list is consistent when it is written, even one
that is cut short, because a file is listed after those it depends on
(`ListOrder`); later builds may change the files but not the list (`SumsInv`);
and a directory the list accepts has the listed files. The assumptions used are
`RequestsAssumption` and `ProfilesAssumption` (no profile has the name of a file
of the pipeline).

`TornCorrect` (`TornOnlyIfKernelSkipped`) needs a second invariant, `TornInv`:
which files the running build has made by now (`Fresh`), that those are whole
(`FreshOk`), that the kernel files are whole once a build has made them itself
(`KernelOk`), and that a list, which is written last, speaks of fresh files and
of kernel files only (`ListOk`).

**KernelTreeProofs**, for every set of patches, files and series and any number
of builds and kills: `AppliesCorrect` (`AppliesAfterAnything`) and `BuildsCorrect`
(`BuildsTheSeries`). The hypothesis is `SeriesAssumption`: a series was made
against the pristine tree, so it changes files that are there by then and creates
files that are not. The invariant (`GitInv`) follows only the files the series can
speak of: tracked files, files `Delete` removes and files created so far are what
the same patches make of the pristine tree. Leftovers are outside of it, and no
patch looks at one before it creates it.

**SparseImageProofs**, for every image, block size and size limit:
`CoalescedCorrect` (`Coalesced`), `FlashCorrect` (`OnlyRawWritten`) and
`WriterAndReaderAgree` (a conversion fails only on an overflow: the safety half of
`SparseConverts`). The invariant of the loop (`ListInv`): the chunks closed so far
tile the blocks below `i`, a RAW chunk has its blocks and none of them is zero, a
DONT_CARE chunk spans zero blocks. The place of a chunk is a sum over those before
it, so that appending one moves no other (`StartAppend`).

**GptRestoreProofs**, for every size of both tables and of a disk larger than
them (`SizeAssumption`): `MiddleCorrect`, `ReadableCorrect` (`StaysReadable`) and
`RestoredCorrect`. The invariant has the range of the write position in each
chunk and the sectors written behind it. `StaysReadable` is not inductive: a cut
in the backup is harmless only because the primary is the captured one by then,
and another attempt rewrites that primary with the same sectors (`ReadInv`).

**ImageProofs**, for every offset, page and size. `PushCorrect`
(`PushUnderstood`, for configs on both sides of the header) and `UpdateCorrect`
(`UpdateKept`, what holds in place of the refuted `ConfigOnlyNoOps`), from `OffsetAssumption` and
`LengthAssumption`: the file is `Blob` or `Composite` of what was asked, or the
beginning of it (`ImgInv`), and the cells below the write position are those of
the file, but for a config header that was consumed (`CacheInv`). No history of
the pushes is needed. `PartsCorrect` (`PartsFound`), from `PagesAssumption` and
`SizesAssumption`: the file so far is a prefix of the list of parts, each part at
the place where the padding of the one before it ends (`Walk`); the readers'
arithmetic then follows because rounding up commutes with whole pages
(`AlignIs`), and, for the initramfs, because every header is followed by name and
data with the paddings the reader expects (`CpioOk`).

**UbootProofs**. `CoherentCorrect` and `ChoiceCorrect` for every content of both
slots and any failing reads: memory holds what the running macro has loaded if
its reads went well, and that or nothing in the first macro that runs; and
`slotbboot` runs for slot a only once `slotaboot` could not boot it (`MacroInv`). For every block size, set of texts, payload, argument list and
number of commands: `SavedCorrect`, `KeepsCorrect`, `RefusalCorrect`,
`PresetCorrect`, `WholeCorrect` and `DeleteCorrect` (the property names are in
the theorems). The invariant (`EnvInv`) says what a command has in hand at each
of its steps: the input it read, the entries its edit makes of it, the block
they serialise to, and that no file has changed before the output is opened. On
top of it are facts about the conversions: parsing what was serialised gives the
entries back, filling a dict keeps keys distinct and in the order of their first
appearance, and deleting only shortens. The assumptions are on the data alone: a
block has room for two cells, no text is NUL or malformed, no two texts are
neighbours in a payload, the preset entries are texts, no block is "no file".

**BenchProofs**. `StreamCorrect`, `TailCorrect` and `PromptCorrect` for every
sequence of frames, pattern of reads and buffers of the sizes `FrameAssumption`
and `BufferAssumption` allow. A stream is well formed if
it is built from whole frames (`Valid`, the least such set), and what the client
has taken, what it holds and what is still to come is such a stream cut in two
(`StreamInv`). `PromptCorrect` (`PromptCaught`) rests on `TailKept`: the window is
the end of what was delivered, so a prompt within the last `TAIL` tokens is in the
window that was searched when its last token came (`PromptInv`). `ReportCorrect` for any number of restarts and lost reads. `CycleCorrect`
and `SecondCutCorrect` (`SecondCutOnlyIfClose`, what holds in place of the refuted
`SingleCycle`) for every interval, break, startup delay, margin and lag
with `Margin + MaxLag < INTERVAL` (`TimeAssumption`), from an invariant on the
seconds left of the wait and to the next ping (`PoeInv`).

*Induction.* The prover cannot instantiate an induction theorem that has an
operator as a parameter. Where a proof needs what a recursive function computes
(`Trees`, `Starts`, `Filled`), it takes the set of numbers for which the fact
holds and shows that this set is `Nat`, from the theorem that a well-founded
relation has minimal elements (`WFMin`), which has no operator parameter. For
`Valid` the induction is its definition as a least set.

**Only model-checked.** `BootSettles`, `ConfigConsumed`, `SparseConverts`,
`CatchEnds`, `NotLeftAtPrompt`, `BannerNoticed` and `StaysOn`: liveness under
fairness is out of the prover's reach. The seven refuted properties have
counterexamples, which TLC finds.

## 5. What is not modelled

* In `/init`: `tc8.overlay_size` and an overlay that fills up, messages, the
  device nodes. On a direct-rw boot the running system has a service of its own
  that may apply a blob; it lives in the rootfs. A `facres` that becomes corrupt
  while the system runs, and a header write that is reported but not durable.
* In the pipeline: see the abstractions of `BuildTree` above; two builds running
  at the same time in one directory; configuring and compiling the kernel.
* In the image tools: load addresses (`mkbootimg.py:38`: whether a large kernel
  reaches the ramdisk depends on where U-Boot moves the parts, which is not in
  the sources), modes, ids, usage errors.
* In `catch_uboot.py`: a probe that sends control frames as fast as the client
  reads keeps it inside one drain; the frames of a run are bounded.
* The release workflow: one job on a fresh runner that builds once, compares the
  size of `Image` with 32 MiB and copies files. It keeps no state; on which side
  of the limit exactly 32 MiB falls is a question about a U-Boot that is not in
  the repository.
* `bootstrap.sh` (two idempotent fetches), `avbtool` (vendored), kernel
  configuration and profiles (data), the `rootfs` and `kernel-patches`
  submodules (not in the repository), the orientation page (static).

## 6. Plan

Every part that keeps state is modelled, and every safety property a run checks
is proved. What is left:

1. The safety half of the liveness properties, as `WriterAndReaderAgree` is of
   `SparseConverts`: that no state of the catcher, the watcher or the boot is
   stuck, stated without ENABLED as the conditions under which a step is left.
2. The negative side of two findings: that `RootfsForBoard` and `FramesIntact`
   fail only in the case the finding names.
