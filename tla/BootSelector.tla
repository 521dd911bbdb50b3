---------------------------- MODULE BootSelector ----------------------------
(***************************************************************************)
(* initramfs/init, the boot selector of the sealed-root image, over many   *)
(* boots of one panel: the wait for the eMMC, the choice of mode, the      *)
(* consumption of a staged config blob, the mounts, and switch_root.       *)
(*                                                                         *)
(* The script runs against an environment that it does not control: the    *)
(* kernel that makes partitions visible and writes dirty pages back, the   *)
(* applier it chroots into, the running system, the wizard that stages a   *)
(* blob over fastboot, and the power supply. Those actions are external.   *)
(*                                                                         *)
(* The rootfs is the set of settings the applier writes; each has a value  *)
(* on the eMMC (disk) and possibly a newer one in the page cache (dirty).  *)
(***************************************************************************)
EXTENDS Naturals

CONSTANTS
  Keys, Values, Unset,   \* the settings, their values, and no value
  CachePos, FacresPos,   \* places in the GPT of cache and facres; 0 = absent
  RootPos,               \* place in the GPT of the rootfs
  MaxTries,              \* how often init looks for the rootfs (100)
  Overrides              \* values of tc8.rootfs= on the cmdline; "" = absent

ASSUME UnsetAssumption == Unset \notin Values

\* In the stock GPT cache (7) and facres (8) precede userdata (15). init
\* waits only for the last, and the kernel adds partitions in table order.
ASSUME PositionAssumption ==
  /\ RootPos \in Nat \ {0}
  /\ CachePos \in 0 .. RootPos - 1
  /\ FacresPos \in 0 .. RootPos - 1

ASSUME TriesAssumption == MaxTries \in Nat \ {0}

VARIABLES
  blob, cfg,           \* cache: blob "none", "torn" (its digest does not match)
                       \* or "whole", and the settings it carries
  disk,                \* userdata: the settings on the eMMC
  facres,              \* facres: "corrupt" (not an ext4), "plain", or
                       \* "flagged" with .tc8-rootfs-rw
  pc,                  \* where the panel is
  override, mode,      \* tc8.rootfs= of this boot; $mode
  nprobed, tries,      \* partitions visible so far; $tries
  newroot, lower,      \* what is mounted on /newroot and on /lower
  binds,               \* bind mounts below /newroot
  dirty,               \* page cache of the rootfs not yet on the eMMC
  written,             \* settings the applier has written in this run
  root,                \* how the rootfs was finally mounted
  why                  \* why init gave up

durable == <<blob, cfg, disk, facres>>
mounts == <<newroot, lower, binds, root>>
boot == <<override, mode, nprobed, tries>>
vars == <<durable, mounts, boot, pc, dirty, written, why>>

-----------------------------------------------------------------------------
(* State. *)

Binds == {"dev", "proc", "sys"}

\* The places of the script, in its order, and the states around it.
InitSteps == {"poll", "mode", "config", "chroot", "unbind", "umount",
              "mount", "overlay", "fallback", "switch"}
Places == InitSteps \cup {"off", "fastboot", "staging", "run", "rescue", "panic"}

BlobStates == {"none", "torn", "whole"}
FacresStates == {"corrupt", "plain", "flagged"}
Modes == {"", "ro", "rw", "other"}
Newroots == {"none", "rw", "overlay"}
Lowers == {"none", "ro"}
Roots == {"none", "overlay", "direct", "fallback"}
Reasons == {"", "missing", "busy", "unmountable"}

ASSUME OverridesAssumption == Overrides \subseteq Modes

Config == [Keys -> Values \cup {Unset}]
NoConfig == [k \in Keys |-> Unset]

\* find_partlabel: the partition is in the table and visible by now.
find_partlabel(pos) == pos # 0 /\ pos <= nprobed

\* The settings a blob carries.
Needed == {k \in Keys : cfg[k] # Unset}

\* The page cache written out: fsync, umount or a clean shutdown.
Flushed == [k \in Keys |-> IF dirty[k] = Unset THEN disk[k] ELSE dirty[k]]
Flush == disk' = Flushed /\ dirty' = NoConfig

\* Everything in RAM is gone.
PowerLoss ==
  /\ pc' = "off"
  /\ override' = "" /\ mode' = "" /\ nprobed' = 0 /\ tries' = 0
  /\ newroot' = "none" /\ lower' = "none" /\ binds' = {} /\ root' = "none"
  /\ dirty' = NoConfig /\ written' = {} /\ why' = ""

Init ==
  /\ blob = "none" /\ cfg = NoConfig
  /\ disk \in [Keys -> Values]
  /\ facres \in {"corrupt", "plain"}
  /\ pc = "off"
  /\ override = "" /\ mode = "" /\ nprobed = 0 /\ tries = 0
  /\ newroot = "none" /\ lower = "none" /\ binds = {} /\ root = "none"
  /\ dirty = NoConfig /\ written = {} /\ why = ""

-----------------------------------------------------------------------------
(* initramfs/init. *)

\* rescue(): a shell on the console.
rescue(reason) == pc' = "rescue" /\ why' = reason

\* The kernel starts /init, which reads the cmdline.
PowerOn ==
  /\ pc = "off"
  /\ pc' = "poll"
  /\ override' \in Overrides
  /\ mode' = override'
  /\ UNCHANGED <<durable, mounts, nprobed, tries, dirty, written, why>>

\* The rootfs partition is there.
PollHit ==
  /\ pc = "poll" /\ tries < MaxTries /\ find_partlabel(RootPos)
  /\ pc' = "mode"
  /\ UNCHANGED <<durable, mounts, boot, dirty, written, why>>

\* Mutant: the counter is not advanced.
PollMissForever ==
  /\ pc = "poll" /\ tries < MaxTries /\ ~find_partlabel(RootPos)
  /\ UNCHANGED vars

\* Mutant: -le for -lt.
PollMissOnceMore ==
  /\ pc = "poll" /\ tries <= MaxTries /\ ~find_partlabel(RootPos)
  /\ tries' = tries + 1
  /\ UNCHANGED <<durable, mounts, override, mode, nprobed, pc, dirty, written, why>>

\* It is not; sleep and look again.
PollMiss ==
  /\ pc = "poll" /\ tries < MaxTries /\ ~find_partlabel(RootPos)
  /\ tries' = tries + 1
  /\ UNCHANGED <<durable, mounts, override, mode, nprobed, pc, dirty, written, why>>

PollTimeout ==
  /\ pc = "poll" /\ tries = MaxTries
  /\ rescue("missing")
  /\ UNCHANGED <<durable, mounts, boot, dirty, written>>

\* The maintenance flag can be read: facres is there, mounts, and has it.
FlagSeen == find_partlabel(FacresPos) /\ facres = "flagged"

\* Mutant: the flag is read whatever the cmdline says.
DecideModeFlagFirst ==
  /\ pc = "mode"
  /\ mode' = IF mode = "rw" \/ FlagSeen THEN "rw" ELSE "ro"
  /\ pc' = "config"
  /\ UNCHANGED <<durable, mounts, override, nprobed, tries, dirty, written, why>>

\* The cmdline decides if it says anything, else the flag; all but rw is ro.
DecideMode ==
  /\ pc = "mode"
  /\ mode' = IF mode = "rw" \/ (mode = "" /\ FlagSeen) THEN "rw" ELSE "ro"
  /\ pc' = "config"
  /\ UNCHANGED <<durable, mounts, override, nprobed, tries, dirty, written, why>>

\* Mutant: only a sealed boot looks for a blob.
BlobSeenSealed == find_partlabel(CachePos) /\ blob # "none" /\ mode = "ro"

\* init looks at the header only; the digest is the applier's business.
BlobSeen == find_partlabel(CachePos) /\ blob # "none"

ConfigSkip ==
  /\ pc = "config" /\ ~BlobSeen
  /\ pc' = "mount"
  /\ UNCHANGED <<durable, mounts, boot, dirty, written, why>>

ConfigMountFail ==
  /\ pc = "config" /\ BlobSeen
  /\ pc' = "mount"
  /\ UNCHANGED <<durable, mounts, boot, dirty, written, why>>

\* The rootfs rw on /newroot; the three bind mounts are not checked.
ConfigMount ==
  /\ pc = "config" /\ BlobSeen
  /\ newroot' = "rw"
  /\ binds' \in SUBSET Binds
  /\ pc' = "chroot"
  /\ UNCHANGED <<durable, lower, root, boot, dirty, written, why>>

\* One umount for the three, its outcome ignored.
Unbind ==
  /\ pc = "unbind"
  /\ binds' \in SUBSET binds
  /\ pc' = "umount"
  /\ UNCHANGED <<durable, newroot, lower, root, boot, dirty, written, why>>

\* Mutant: a lazy umount, which does not wait for the pages to be written.
UmountLazy ==
  /\ pc = "umount" /\ binds = {}
  /\ newroot' = "none"
  /\ pc' = "mount"
  /\ UNCHANGED <<durable, lower, binds, root, boot, dirty, written, why>>

UmountOk ==
  /\ pc = "umount" /\ binds = {}
  /\ newroot' = "none"
  /\ Flush
  /\ pc' = "mount"
  /\ UNCHANGED <<blob, cfg, facres, lower, binds, root, boot, written, why>>

\* Mutant: a failed umount is ignored.
UmountIgnored ==
  /\ pc = "umount"
  /\ pc' = "mount"
  /\ UNCHANGED <<durable, mounts, boot, dirty, written, why>>

\* A bind mount is left, or a process the applier started holds the rootfs.
UmountBusy ==
  /\ pc = "umount"
  /\ rescue("busy")
  /\ UNCHANGED <<durable, mounts, boot, dirty, written>>

MountDirect ==
  /\ pc = "mount" /\ mode = "rw"
  /\ newroot' = "rw" /\ root' = "direct"
  /\ pc' = "switch"
  /\ UNCHANGED <<durable, lower, binds, boot, dirty, written, why>>

\* The one superblock cannot be held rw on /newroot and ro on /lower.
MountLower ==
  /\ pc = "mount" /\ mode # "rw" /\ newroot # "rw"
  /\ lower' = "ro"
  /\ pc' = "overlay"
  /\ UNCHANGED <<durable, newroot, binds, root, boot, dirty, written, why>>

\* Either mount of the rootfs can fail, and then init gives up.
MountFail ==
  /\ pc = "mount"
  /\ rescue("unmountable")
  /\ UNCHANGED <<durable, mounts, boot, dirty, written>>

\* tmpfs and overlay; the layers then move below the new root.
OverlayOk ==
  /\ pc = "overlay"
  /\ newroot' = "overlay" /\ root' = "overlay"
  /\ pc' = "switch"
  /\ UNCHANGED <<durable, lower, binds, boot, dirty, written, why>>

\* tmpfs or overlay failed; whether /lower lets go is not checked.
OverlayFail ==
  /\ pc = "overlay"
  /\ lower' \in Lowers
  /\ pc' = "fallback"
  /\ UNCHANGED <<durable, newroot, binds, root, boot, dirty, written, why>>

FallbackMount ==
  /\ pc = "fallback" /\ lower = "none"
  /\ newroot' = "rw" /\ root' = "fallback"
  /\ pc' = "switch"
  /\ UNCHANGED <<durable, lower, binds, boot, dirty, written, why>>

FallbackFail ==
  /\ pc = "fallback"
  /\ rescue("unmountable")
  /\ UNCHANGED <<durable, mounts, boot, dirty, written>>

SwitchRoot ==
  /\ pc = "switch"
  /\ pc' = "run"
  /\ UNCHANGED <<durable, mounts, boot, dirty, written, why>>

\* exec never returns: a failing switch_root is the end of PID 1, and the
\* line after it is not reached.
SwitchRootFail ==
  /\ pc = "switch"
  /\ pc' = "panic"
  /\ UNCHANGED <<durable, mounts, boot, dirty, written, why>>

\* The operator leaves the rescue shell: reboot -f, which does not sync.
RescueExit ==
  /\ pc = "rescue"
  /\ PowerLoss
  /\ UNCHANGED durable

-----------------------------------------------------------------------------
(* External: the kernel. *)

Probe ==
  /\ pc \notin {"off", "fastboot", "staging"} /\ nprobed < RootPos
  /\ nprobed' = nprobed + 1
  /\ UNCHANGED <<durable, mounts, override, mode, tries, pc, dirty, written, why>>

Writeback(k) ==
  /\ dirty[k] # Unset
  /\ disk' = [disk EXCEPT ![k] = dirty[k]]
  /\ dirty' = [dirty EXCEPT ![k] = Unset]
  /\ UNCHANGED <<blob, cfg, facres, mounts, boot, pc, written, why>>

\* panic=10 on the cmdline.
PanicReboot ==
  /\ pc = "panic"
  /\ PowerLoss
  /\ UNCHANGED durable

-----------------------------------------------------------------------------
(* External: apply-config.sh, in the chroot. It reads the blob through     *)
(* /dev, checks the digest, writes the settings, and consumes the blob     *)
(* last, when what it wrote is on the eMMC.                                *)

Applying == pc = "chroot" /\ "dev" \in binds /\ blob = "whole"

ApplyWrite(k) ==
  /\ Applying /\ k \in Needed \ written
  /\ dirty' = [dirty EXCEPT ![k] = cfg[k]]
  /\ written' = written \cup {k}
  /\ UNCHANGED <<durable, mounts, boot, pc, why>>

ApplySync ==
  /\ Applying /\ written = Needed /\ dirty # NoConfig
  /\ Flush
  /\ UNCHANGED <<blob, cfg, facres, mounts, boot, pc, written, why>>

ApplyConsume ==
  /\ Applying /\ written = Needed /\ dirty = NoConfig
  /\ blob' = "none"
  /\ pc' = "unbind"
  /\ UNCHANGED <<cfg, disk, facres, mounts, boot, dirty, written, why>>

\* Mutant: a blob that cannot be applied is discarded.
ApplyExitDiscard ==
  /\ pc = "chroot"
  /\ blob' = "none"
  /\ pc' = "unbind"
  /\ UNCHANGED <<cfg, disk, facres, mounts, boot, dirty, written, why>>

\* It rejects the blob, or fails on the way; init only logs that.
ApplyExit ==
  /\ pc = "chroot"
  /\ pc' = "unbind"
  /\ UNCHANGED <<durable, mounts, boot, dirty, written, why>>

-----------------------------------------------------------------------------
(* External: the running system, fastboot and the power supply.            *)

Edit(k, v) ==
  /\ pc = "run" /\ newroot = "rw"
  /\ dirty' = [dirty EXCEPT ![k] = v]
  /\ UNCHANGED <<durable, mounts, boot, pc, written, why>>

\* tc8-rw and tc8-ro; tc8-persist-root formats a facres it cannot mount.
SetMode(m) ==
  /\ pc = "run" /\ FacresPos # 0 /\ facres # "corrupt"
  /\ facres' = m
  /\ UNCHANGED <<blob, cfg, disk, mounts, boot, pc, dirty, written, why>>

FormatFacres ==
  /\ pc = "run" /\ FacresPos # 0 /\ facres = "corrupt"
  /\ facres' = "plain"
  /\ UNCHANGED <<blob, cfg, disk, mounts, boot, pc, dirty, written, why>>

Shutdown ==
  /\ pc = "run"
  /\ disk' = Flushed
  /\ PowerLoss
  /\ UNCHANGED <<blob, cfg, facres>>

PowerCut ==
  /\ pc # "off"
  /\ PowerLoss
  /\ UNCHANGED durable

EnterFastboot ==
  /\ pc = "off"
  /\ pc' = "fastboot"
  /\ UNCHANGED <<durable, mounts, boot, dirty, written, why>>

\* fastboot flash cache: the header is first on the wire, the rest follows.
StageBegin(c) ==
  /\ pc = "fastboot" /\ CachePos # 0
  /\ blob' = "torn" /\ cfg' = c
  /\ pc' = "staging"
  /\ UNCHANGED <<disk, facres, mounts, boot, dirty, written, why>>

StageEnd ==
  /\ pc = "staging"
  /\ blob' = "whole"
  /\ pc' = "fastboot"
  /\ UNCHANGED <<cfg, disk, facres, mounts, boot, dirty, written, why>>

FastbootReboot ==
  /\ pc = "fastboot"
  /\ PowerLoss
  /\ UNCHANGED durable

-----------------------------------------------------------------------------
(* Specification. *)

Poll == PollHit \/ PollMiss \/ PollTimeout
ConfigStep == ConfigSkip \/ ConfigMountFail \/ ConfigMount
Apply == (\E k \in Keys : ApplyWrite(k)) \/ ApplySync \/ ApplyConsume \/ ApplyExit
Umount == UmountOk \/ UmountBusy
Mount == MountDirect \/ MountLower \/ MountFail
OverlayStep == OverlayOk \/ OverlayFail
Fallback == FallbackMount \/ FallbackFail
Switch == SwitchRoot \/ SwitchRootFail

InitStep ==
  Poll \/ DecideMode \/ ConfigStep \/ Apply \/ Unbind \/ Umount \/ Mount
       \/ OverlayStep \/ Fallback \/ Switch

Kernel == Probe \/ (\E k \in Keys : Writeback(k)) \/ PanicReboot

System ==
  \/ \E k \in Keys, v \in Values : Edit(k, v)
  \/ \E m \in {"plain", "flagged"} : SetMode(m)
  \/ FormatFacres
  \/ Shutdown

Operator ==
  \/ PowerOn \/ PowerCut \/ RescueExit
  \/ EnterFastboot \/ (\E c \in Config : StageBegin(c)) \/ StageEnd \/ FastbootReboot

Next == InitStep \/ Kernel \/ System \/ Operator

\* A process that can take a step takes one: the script and what it runs are
\* scheduled, whatever each call returns. Nothing outside it is fair.
Spec == Init /\ [][Next]_vars /\ WF_vars(InitStep)

-----------------------------------------------------------------------------
(* Properties. *)

TypeOK ==
  /\ blob \in BlobStates /\ cfg \in Config
  /\ disk \in [Keys -> Values]
  /\ facres \in FacresStates
  /\ pc \in Places
  /\ override \in Modes /\ mode \in Modes
  /\ nprobed \in 0 .. RootPos /\ tries \in 0 .. MaxTries
  /\ newroot \in Newroots /\ lower \in Lowers /\ root \in Roots
  /\ binds \in SUBSET Binds
  /\ dirty \in Config
  /\ written \in SUBSET Keys
  /\ why \in Reasons

\* What this boot was asked to be: the cmdline beats the sticky flag.
WantRW ==
  \/ override = "rw"
  \/ override = "" /\ FacresPos # 0 /\ facres = "flagged"

\* The rootfs is handed over direct-rw exactly when the cmdline, or in its
\* silence the flag on facres, asks for it. init looks for facres only once
\* and without waiting (lines 89-96), after a wait for another partition.
ModeMatchesIntent == pc = "switch" => (root = "direct" <=> WantRW)

\* At the handover the one superblock of the rootfs is held either rw by
\* /newroot or ro by /lower, and the config step has left no bind mount and
\* no unwritten page behind (lines 108-162).
CleanHandover ==
  pc = "switch" => /\ (newroot = "rw") # (lower = "ro")
                   /\ binds = {} /\ dirty = NoConfig

\* While a sealed boot runs, the rootfs on the eMMC does not change, whatever
\* the config step did to it a moment before (lines 121-122, 135).
SealedDiskFrozen == [][pc = "run" /\ root = "overlay" => disk' = disk]_vars

\* The blob takes effect as a whole: staging, partial applies, power cuts at
\* any step, failed applies, retries and consumption implement ConfigStore.
\* The blob goes only when every setting it carries is on the eMMC, or when
\* fastboot begins to write the next one (lines 99-126).
Offered == IF blob = "whole" THEN cfg ELSE NoConfig
Phase == IF pc = "staging" THEN "staging"
         ELSE IF pc = "run" /\ newroot = "rw" THEN "open" ELSE "sealed"

Store == INSTANCE ConfigStore WITH base <- disk, offer <- Offered, phase <- Phase

ConfigAtomic == Store!Spec

\* Every boot ends: the script never hangs, with or without an eMMC, a blob,
\* a facres, or any of the mounts (lines 79-85 and all that follows).
BootSettles ==
  pc \in InitSteps ~> pc \in {"run", "rescue", "panic", "off"}

\* "only a missing/unmountable rootfs drops to a busybox shell" (lines 22-24).
RescueOnlyWithoutRootfs == pc = "rescue" => why \in {"missing", "unmountable"}
=============================================================================
