------------------------------ MODULE SlotBoot ------------------------------
(***************************************************************************)
(* What preset-symmetric of tools/uboot_env_edit.py makes U-Boot do: the   *)
(* macros slotaboot, slotbboot and bootcmd_ab, run by U-Boot's shell over  *)
(* the partitions that build.sh's images were flashed to. A command that   *)
(* fails does not end the list (the separator is ";"), and memory keeps    *)
(* what an earlier command loaded.                                         *)
(***************************************************************************)
EXTENDS Integers

CONSTANTS
  KernelSizes,  \* sizes of the kernel in a boot.img, in bytes
  Dtbos         \* what may be in a dtbo partition: "blank", "dtb", "dtbo"

DtbosAssumption == Dtbos \subseteq {"blank", "dtb", "dtbo"}

VARIABLES
  slot,    \* the variable $slot
  boot,    \* boot_a and boot_b: kernel size, or 0 for a blank partition
  dtbo,    \* dtbo_a and dtbo_b
  bpc,     \* "test", "readk", "readd", "args", "booti", "boota", "up", "prompt", "hung"
  run,     \* the macro that runs: "a", "b"
  kmem,    \* what is at KERNEL_LOAD: slot and bytes of the kernel loaded
  dmem,    \* what is at DTB_LOAD: slot and first bytes
  suffix,  \* androidboot.slot_suffix in bootargs
  by,      \* what booted the kernel: "none", "macro", "boota"
  faulted  \* history: the macros in which an mmc read failed

macroVars == <<slot, boot, dtbo, bpc, run, kmem, dmem, suffix, by, faulted>>

Slots == {"a", "b"}

-----------------------------------------------------------------------------
BOOT_LEN == 83968           \* 0x14800 sectors
KERNEL_LOAD == 1073741824   \* 0x40000000
DTB_LOAD == 1128267776      \* 0x43400000
BOOTI_KERNEL == 1073743872  \* 0x40000800
BOOT_PAGESIZE == 2048       \* where mkbootimg.py puts the kernel (Packers)

LoadLen == BOOT_LEN * 512

\* External: booti takes what has the header of an arm64 Image at its first argument.
Bootable(bytes) == bytes > 0 /\ BOOTI_KERNEL = KERNEL_LOAD + BOOT_PAGESIZE

\* All of the kernel was loaded, and the device tree was not loaded over its end.
Loaded(bytes) ==
  BOOT_PAGESIZE + bytes <= LoadLen /\ KERNEL_LOAD + LoadLen <= DTB_LOAD

\* External: booti needs a flattened device tree at its third argument. A
\* dtbo.img has its table header there and the tree at DT_OFFSET (Packers).
FdtOk == dmem.head = "dtb"

Nothing == [slot |-> "none", bytes |-> 0]
NoTree == [slot |-> "none", head |-> "blank"]

MacroInit ==
  /\ slot \in {"a", "b", "unset"}
  /\ boot \in [Slots -> KernelSizes \cup {0}]
  /\ dtbo \in [Slots -> Dtbos]
  /\ bpc = "test" /\ run = "b"
  /\ kmem = Nothing /\ dmem = NoTree
  /\ suffix = "none" /\ by = "none" /\ faulted = {}

parts == <<slot, boot, dtbo>>

\* Mutant: the test is the wrong way round.
Test_swapped ==
  /\ bpc = "test"
  /\ run' = IF slot = "a" THEN "b" ELSE "a"
  /\ bpc' = "readk"
  /\ UNCHANGED <<parts, kmem, dmem, suffix, by, faulted>>

\* bootcmd_ab: if test "${slot}" = "a"; then run slotaboot; fi; run slotbboot.
Test ==
  /\ bpc = "test"
  /\ run' = IF slot = "a" THEN "a" ELSE "b"
  /\ bpc' = "readk"
  /\ UNCHANGED <<parts, kmem, dmem, suffix, by, faulted>>

\* mmc read of the boot partition of the macro's slot.
ReadKernel ==
  /\ bpc = "readk"
  /\ kmem' = [slot |-> run, bytes |-> boot[run]]
  /\ bpc' = "readd"
  /\ UNCHANGED <<parts, run, dmem, suffix, by, faulted>>

\* Mutant: both macros read the device tree of slot b.
ReadDtb_b ==
  /\ bpc = "readd"
  /\ dmem' = [slot |-> "b", head |-> dtbo["b"]]
  /\ bpc' = "args"
  /\ UNCHANGED <<parts, run, kmem, suffix, by, faulted>>

ReadDtb ==
  /\ bpc = "readd"
  /\ dmem' = [slot |-> run, head |-> dtbo[run]]
  /\ bpc' = "args"
  /\ UNCHANGED <<parts, run, kmem, suffix, by, faulted>>

\* A read that fails leaves the memory as it was; the list goes on.
ReadError ==
  /\ bpc \in {"readk", "readd"}
  /\ faulted' = faulted \cup {run}
  /\ bpc' = IF bpc = "readk" THEN "readd" ELSE "args"
  /\ UNCHANGED <<parts, run, kmem, dmem, suffix, by>>

SetArgs ==
  /\ bpc = "args"
  /\ suffix' = run
  /\ bpc' = "booti"
  /\ UNCHANGED <<parts, run, kmem, dmem, by, faulted>>

\* booti does not return; a kernel of which the end is missing may not come up.
Booti ==
  /\ bpc = "booti" /\ Bootable(kmem.bytes) /\ FdtOk
  /\ by' = "macro" /\ bpc' \in IF Loaded(kmem.bytes) THEN {"up"} ELSE {"up", "hung"}
  /\ UNCHANGED <<parts, run, kmem, dmem, suffix, faulted>>

\* booti returns: slotbboot follows slotaboot, and boota mmc1 follows both.
BootiFail ==
  /\ bpc = "booti" /\ ~(Bootable(kmem.bytes) /\ FdtOk)
  /\ IF run = "a" THEN run' = "b" /\ bpc' = "readk" ELSE bpc' = "boota" /\ UNCHANGED run
  /\ UNCHANGED <<parts, kmem, dmem, suffix, by, faulted>>

\* External: boota takes kernel and tree of a slot that has both, in dtbo form.
Boota ==
  /\ bpc = "boota"
  /\ \/ \E s \in Slots :
          /\ boot[s] > 0 /\ dtbo[s] = "dtbo"
          /\ kmem' = [slot |-> s, bytes |-> boot[s]]
          /\ dmem' = [slot |-> s, head |-> dtbo[s]]
          /\ suffix' = s
          /\ by' = "boota" /\ bpc' = "up"
     \/ /\ \A s \in Slots : boot[s] = 0 \/ dtbo[s] # "dtbo"
        /\ bpc' = "prompt"
        /\ UNCHANGED <<kmem, dmem, suffix, by>>
  /\ UNCHANGED <<parts, run, faulted>>

MacroDone == bpc \in {"up", "prompt", "hung"} /\ UNCHANGED macroVars

Steps == Test \/ ReadKernel \/ ReadDtb \/ ReadError \/ SetArgs \/ Booti \/ BootiFail \/ Boota
MacroNext == Steps \/ MacroDone

MacroSpec == MacroInit /\ [][MacroNext]_macroVars

-----------------------------------------------------------------------------
(* Properties. *)

\* The kernel that comes up, the device tree it was given and the slot suffix on
\* its command line are of one slot, although the list goes on after a failed
\* read and the second macro runs over the memory the first one left (lines
\* 77-95). Only a read that fails in slotbboot behind a refused slotaboot mixes.
SlotCoherent ==
  bpc = "up" =>
    \/ kmem.slot = suffix /\ dmem.slot = suffix
    \/ by = "macro" /\ slot = "a" /\ "b" \in faulted

\* $slot is honoured: a macro boots the other slot only when booti refuses what
\* the chosen slot holds, or a read of the chosen slot has failed (lines 91-95). A
\* kernel too long for the read is not refused, and ends the list (line 64).
ChoiceHonoured ==
  bpc \in {"up", "hung"} /\ by = "macro" /\ suffix # (IF slot = "a" THEN "a" ELSE "b") =>
    slot = "a" /\ ("a" \in faulted \/ ~Bootable(boot["a"]) \/ dtbo["a"] # "dtb")

\* Slots that hold the images build.sh makes are booted by their macros:
\* "bootcmd_ab that picks slotaboot/slotbboot based on $slot env var, falling
\* back to the NXP A/B-aware `boota mmc1`" (uboot_env_edit.py:28-29).
ShippedSlotBoots ==
  bpc = "up" /\ faulted = {} /\ (\A s \in Slots : boot[s] > 0 /\ dtbo[s] = "dtbo") => by = "macro"
=============================================================================
