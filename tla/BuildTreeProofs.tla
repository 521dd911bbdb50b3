-------------------------- MODULE BuildTreeProofs --------------------------
(***************************************************************************)
(* For every set of profiles, requests and sizes: a directory that         *)
(* SHA256SUMS accepts is one consistent set for one board.                 *)
(*                                                                         *)
(* The three properties speak of any earlier build, but no file of an      *)
(* earlier build has to be remembered: what was listed was consistent when *)
(* it was listed (SumsInv), because the files were consistent when the     *)
(* list was written (RootfsInv, BootInv, DtboInv, VbmetaInv and KernelInv, *)
(* which grow command by command), and a list that still accepts the       *)
(* directory says that its files have not changed since.                   *)
(***************************************************************************)
EXTENDS BuildTree, TLAPS

-----------------------------------------------------------------------------
(* The inductive invariant. *)

AfterVbmeta == {"stamp", "sums"}
AfterDtbo == {"footer_boot", "footer_dtbo", "vbmeta"} \cup AfterVbmeta
AfterBoot == {"dtbo"} \cup AfterDtbo
AfterDelivery == {"lift", "lift_dtb", "ramdisk", "variants", "boot"} \cup AfterBoot
AfterGuard == {"delivery"} \cup AfterDelivery
AfterKernel == {"rootfs_img", "guard"} \cup AfterGuard

TreeType ==
  /\ inv \in Options
  /\ DOMAIN out = Files
  /\ DOMAIN kout = KernelFiles

\* After the guard the image fits the board of this build; after the delivery
\* step the file that is flashed holds it.
RootfsInv ==
  /\ pc \in AfterGuard => out["rootfs.img"].size <= ROOTFS_PARTITION_SIZE[target]
  /\ pc \in AfterDelivery /\ target = "tc8" => out["rootfs.simg"] = Sparse(out["rootfs.img"])
  /\ pc \in AfterDelivery /\ target = "c60" => out["rootfs.img.zst"] = Zstd(out["rootfs.img"])

\* A kernel that this build made is of its board and of its revision, in the
\* cache, beside boot.img, and in the stamp.
Made(c) == c.board = target /\ c.rev = rev
KernelInv ==
  /\ inv.skip_kernel = "no" =>
       /\ pc \in {"kernel_dtb"} \cup AfterKernel => Made(kout["Image"])
       /\ pc \in AfterKernel => Made(kout[DTB_NAME[target]])
       /\ pc \in AfterDelivery \ {"lift"} => Made(out["Image"])
       /\ pc \in AfterDelivery \ {"lift", "lift_dtb"} => Made(out[DTB_NAME[target]])
  /\ pc = "sums" => out["version.env"].rev = rev

\* boot.img and dtbo.img of this build, but for the footer.
BootNow(f) ==
  LET k == out["Image"]
  IN  BootImg(target,
              IF target = "c60" THEN Truncated(KernelEnd(k), k) ELSE k,
              IF WithRamdisk THEN out["initramfs.cpio.gz"] ELSE None,
              IF target = "c60" THEN Truncated(DtbEnd(k), out[DTB_NAME[target]]) ELSE None, f)
DtboNow(f) == Dtbo(out[DTB_NAME[target]], f)

BootInv ==
  /\ pc \in AfterBoot => \E f \in {"no", "yes"} : out["boot.img"] = BootNow(f)
  /\ pc = "dtbo" /\ target = "c60" => out["boot.img"].footer = "yes"
  /\ pc = "footer_boot" => target = "tc8"
  /\ pc \in AfterDtbo \ {"footer_boot"} => out["boot.img"].footer = "yes"

DtboInv ==
  /\ pc \in AfterDtbo => \E f \in {"no", "yes"} : out["dtbo.img"] = DtboNow(f)
  /\ pc \in AfterDtbo \ {"footer_boot", "footer_dtbo"} => out["dtbo.img"].footer = "yes"

VbmetaInv == pc \in AfterVbmeta => out["vbmeta.img"] = Vbmeta(out["boot.img"], out["dtbo.img"])

TreeInv == RootfsInv /\ BootInv /\ DtboInv /\ VbmetaInv

\* A directory t of which the files D are listed.
ChainOk(t, D) ==
  "vbmeta.img" \in D =>
    /\ "boot.img" \in D /\ "dtbo.img" \in D
    /\ t["vbmeta.img"] = Vbmeta(t["boot.img"], t["dtbo.img"])
    /\ t["boot.img"].footer = "yes" /\ t["dtbo.img"].footer = "yes"
BootOk(t, D) ==
  "boot.img" \in D =>
    /\ "Image" \in D /\ DTB_NAME[t["boot.img"].cmdline] \in D
    /\ t["boot.img"].cmdline = "tc8" \/ KernelEnd(t["Image"]) <= BootPadSize =>
         t["boot.img"].kernel = t["Image"]
    /\ t["boot.img"].cmdline = "c60" /\ DtbEnd(t["Image"]) <= BootPadSize =>
         t["boot.img"].second = t[DTB_NAME[t["boot.img"].cmdline]]
    /\ "dtbo.img" \in D => t["dtbo.img"].dtb = t[DTB_NAME[t["boot.img"].cmdline]]
    /\ "initramfs.cpio.gz" \in D => t["boot.img"].ramdisk = t["initramfs.cpio.gz"]
MadeOk(t, D) ==
  "boot.img" \in D /\ skipped = "no" =>
    /\ t["Image"].board = t["boot.img"].cmdline
    /\ t[DTB_NAME[t["boot.img"].cmdline]].board = t["boot.img"].cmdline
    /\ t["Image"].rev = t[DTB_NAME[t["boot.img"].cmdline]].rev
    /\ "version.env" \in D => t["version.env"].rev = t["Image"].rev
RootfsOk(t, D) ==
  "rootfs.img" \in D =>
    /\ "boot.img" \in D
    /\ t["rootfs.img"].size <= ROOTFS_PARTITION_SIZE[t["boot.img"].cmdline]
    /\ "rootfs.simg" \in D => t["rootfs.simg"] = Sparse(t["rootfs.img"])
    /\ "rootfs.img.zst" \in D => t["rootfs.img.zst"] = Zstd(t["rootfs.img"])

SumsInv ==
  /\ ChainOk(sums, DOMAIN sums) /\ BootOk(sums, DOMAIN sums)
  /\ MadeOk(sums, DOMAIN sums) /\ RootfsOk(sums, DOMAIN sums)

IInv == TreeType /\ TreeInv /\ KernelInv /\ SumsInv

\* An accepted directory is as consistent as the list.
LEMMA AcceptedConsistent ==
  ASSUME SumsInv
  PROVE  VbmetaChains /\ BootSetOfOneBuild /\ RootfsFitsBoard
<1>1. VbmetaChains
  BY DEF SumsInv, ChainOk, VbmetaChains, Accepted, Listed, Vbmeta
<1>2. BootSetOfOneBuild
  BY DEF SumsInv, BootOk, MadeOk, BootSetOfOneBuild, Accepted, Listed
<1>3. RootfsFitsBoard
  BY DEF SumsInv, RootfsOk, RootfsFitsBoard, Accepted, Listed, Sparse, Zstd
<1> QED BY <1>1, <1>2, <1>3

-----------------------------------------------------------------------------
(* Steps. *)

\* Where a build has not yet passed the guard, or has ended.
Outside == {"idle", "done", "rootfs", "kernel", "kernel_dtb", "rootfs_img", "guard"}

\* There, no image of this build is spoken of.
LEMMA OutsideTree ==
  ASSUME pc' \in Outside
  PROVE  TreeInv'
BY DEF Outside, TreeInv, RootfsInv, BootInv, DtboInv, VbmetaInv,
       AfterGuard, AfterDelivery, AfterBoot, AfterDtbo, AfterVbmeta

\* Without options build.sh builds the tc8 kiosk.
LEMMA DefaultsType == Defaults \in Options
BY RequestsAssumption DEF Defaults, Options, Boards

\* An empty directory and an empty list.
LEMMA InitIInv == Init => IInv
<1> SUFFICES ASSUME Init PROVE IInv
  OBVIOUS
<1>1. TreeType
  BY DefaultsType DEF Init, TreeType
<1>2. TreeInv
  BY DEF Init, TreeInv, RootfsInv, BootInv, DtboInv, VbmetaInv,
         AfterGuard, AfterDelivery, AfterBoot, AfterDtbo, AfterVbmeta
<1>3. SumsInv
  BY DEF Init, SumsInv, ChainOk, BootOk, MadeOk, RootfsOk
<1>4. KernelInv
  BY DEF Init, KernelInv, AfterKernel, AfterGuard, AfterDelivery, AfterBoot, AfterDtbo, AfterVbmeta
<1> QED BY <1>1, <1>2, <1>3, <1>4 DEF IInv

\* Each step keeps the types.
LEMMA TypeStep ==
  ASSUME TreeType, [Next]_vars
  PROVE  TreeType'
<1> USE DEF TreeType
<1>1. CASE Invoke
  BY <1>1 DEF Invoke
<1>2. CASE Commit \/ Caches \/ Idle \/ UNCHANGED vars
  BY <1>2 DEF Commit, Caches, LazyRootfs, KernelImage, KernelDtb, KernelSkipped, Idle, vars
<1>3. CASE Images
  BY <1>3 DEF Images, RootfsImg, GuardRootfs, Delivery, Lift, LiftDtb, Ramdisk, PackVariants,
              Write, Rest
<1>4. CASE BootSet
  BY <1>4 DEF BootSet, PackBootTc8, PackBootC60, PackDtboTc8, PackDtboC60, FooterBoot,
              FooterDtbo, MakeVbmeta, Write, Rest
<1>5. CASE Stamp \/ WriteSums
  BY <1>5 DEF Stamp, WriteSums, Write, Rest
<1>6. CASE SumsCut \/ Fail \/ FailTorn \/ FailRemoved \/ FailCaches
  BY <1>6, DefaultsType DEF SumsCut, Fail, FailTorn, FailRemoved, FailCaches, Exit, Write
<1> QED BY <1>1, <1>2, <1>3, <1>4, <1>5, <1>6 DEF Next, Ends

\* Each step that leaves the list alone keeps what it says.
LEMMA SumsKept ==
  ASSUME SumsInv, sums' = sums, skipped' = skipped
  PROVE  SumsInv'
BY DEF SumsInv, ChainOk, BootOk, MadeOk, RootfsOk

\* The eight files at the head of the list, by position.
LEMMA HeadNames ==
  /\ SumHead[1] = "Image" /\ SumHead[2] = DTB_NAME[target] /\ SumHead[3] = "boot.img"
  /\ SumHead[4] = "dtbo.img" /\ SumHead[5] = "vbmeta.img" /\ SumHead[6] = "rootfs.img"
  /\ SumHead[7] = ROOTFS_SUM_FILE /\ SumHead[8] = "version.env"
BY DEF SumHead

\* A list, complete or cut short, names a file only with those it depends on.
LEMMA ListOrder ==
  ASSUME TreeType, NEW D,
         (\E n \in 0 .. 7 : D = HeadUpTo(n)) \/ HeadUpTo(8) \subseteq D,
         D \subseteq HeadUpTo(8) \cup Variants \cup SumRamdisk
  PROVE  /\ "vbmeta.img" \in D => "boot.img" \in D /\ "dtbo.img" \in D
         /\ "boot.img" \in D => "Image" \in D /\ DTB_NAME[target] \in D
         /\ "rootfs.img" \in D => "boot.img" \in D
         /\ "initramfs.cpio.gz" \in D => WithRamdisk
         /\ "rootfs.simg" \in D => target = "tc8"
         /\ "rootfs.img.zst" \in D => target = "c60"
<1>1. target \in Boards /\ Variants \cap PlainFiles = {}
  BY RequestsAssumption, ProfilesAssumption DEF TreeType, Options, target, Variants
<1>2. /\ DTB_NAME[target] \in {"imx8mm-tc8.dtb", "imx8mm-kepler-proto1.dtb"}
      /\ target = "tc8" => ROOTFS_SUM_FILE = "rootfs.simg"
      /\ target = "c60" => ROOTFS_SUM_FILE = "rootfs.img.zst"
  BY <1>1 DEF Boards, DTB_NAME, ROOTFS_SUM_FILE
<1>3. ROOTFS_SUM_FILE \in {"rootfs.simg", "rootfs.img.zst"}
  BY DEF ROOTFS_SUM_FILE
<1>4. \A x : x \in HeadUpTo(8) <=> \E i \in 1 .. 8 : x = SumHead[i]
  BY DEF HeadUpTo
<1>5. HeadUpTo(8) = {"Image", DTB_NAME[target], "boot.img", "dtbo.img", "vbmeta.img",
                     "rootfs.img", ROOTFS_SUM_FILE, "version.env"}
  <2>1. 1 .. 8 = {1, 2, 3, 4, 5, 6, 7, 8}
    OBVIOUS
  <2> QED BY <2>1, <1>4, HeadNames
<1>6. /\ "initramfs.cpio.gz" \in D => WithRamdisk
      /\ "rootfs.simg" \in D => target = "tc8"
      /\ "rootfs.img.zst" \in D => target = "c60"
  <2>1. {"initramfs.cpio.gz", "rootfs.simg", "rootfs.img.zst"} \subseteq PlainFiles
    BY DEF PlainFiles
  <2> QED BY <2>1, <1>1, <1>2, <1>5 DEF SumRamdisk, Boards
<1>7. CASE HeadUpTo(8) \subseteq D
  BY <1>5, <1>6, <1>7
<1>8. ASSUME NEW n \in 0 .. 7, D = HeadUpTo(n)
      PROVE  /\ "vbmeta.img" \in D => "boot.img" \in D /\ "dtbo.img" \in D
             /\ "boot.img" \in D => "Image" \in D /\ DTB_NAME[target] \in D
             /\ "rootfs.img" \in D => "boot.img" \in D
  <2>1. \A x : x \in D <=> \E i \in 1 .. n : x = SumHead[i]
    BY <1>8 DEF HeadUpTo
  <2>2. ASSUME NEW i \in 1 .. 7
        PROVE  /\ SumHead[i] = "boot.img" => i = 3
               /\ SumHead[i] = "vbmeta.img" => i = 5
               /\ SumHead[i] = "rootfs.img" => i = 6
    <3>1. i \in {1, 2, 3, 4, 5, 6, 7}
      OBVIOUS
    <3> QED BY <3>1, <1>2, <1>3, HeadNames
  <2>3. "boot.img" \in D <=> 3 <= n
    BY <2>1, <2>2, HeadNames
  <2>4. "vbmeta.img" \in D => 5 <= n
    BY <2>1, <2>2
  <2>5. "rootfs.img" \in D => 6 <= n
    BY <2>1, <2>2
  <2>6. 4 <= n => "dtbo.img" \in D
    BY <2>1, HeadNames
  <2>7. 3 <= n => "Image" \in D /\ DTB_NAME[target] \in D
    BY <2>1, HeadNames
  <2>8. n \in Nat
    OBVIOUS
  <2> QED BY <2>3, <2>4, <2>5, <2>6, <2>7, <2>8
<1> QED BY <1>6, <1>7, <1>8

\* The files are consistent when the list is written, and so is the list.
LEMMA SumsWritten ==
  ASSUME TreeType, TreeInv, KernelInv, pc = "sums", skipped' = inv.skip_kernel, NEW D,
         (\E n \in 0 .. 7 : D = HeadUpTo(n)) \/ HeadUpTo(8) \subseteq D,
         D \subseteq HeadUpTo(8) \cup Variants \cup SumRamdisk,
         sums' = Digests(D)
  PROVE  SumsInv'
<1>1. DOMAIN sums' = D /\ \A x \in D : sums'[x] = out[x]
  BY DEF Digests
<1>2. target \in Boards
  BY DEF TreeType, Options, target
<1>3. PICK f \in {"no", "yes"} : out["boot.img"] = BootNow(f)
  BY DEF TreeInv, BootInv, AfterBoot, AfterDtbo, AfterVbmeta
<1>4. PICK g \in {"no", "yes"} : out["dtbo.img"] = DtboNow(g)
  BY DEF TreeInv, DtboInv, AfterDtbo, AfterVbmeta
<1>5. /\ out["boot.img"].cmdline = target
      /\ target = "tc8" \/ KernelEnd(out["Image"]) <= BootPadSize =>
           out["boot.img"].kernel = out["Image"]
      /\ target = "c60" /\ DtbEnd(out["Image"]) <= BootPadSize =>
           out["boot.img"].second = out[DTB_NAME[target]]
      /\ WithRamdisk => out["boot.img"].ramdisk = out["initramfs.cpio.gz"]
  BY <1>3 DEF BootNow, BootImg, Truncated
<1>6. out["dtbo.img"].dtb = out[DTB_NAME[target]]
  BY <1>4 DEF DtboNow, Dtbo
<1>7. ChainOk(sums, DOMAIN sums)'
  <2>1. /\ out["vbmeta.img"] = Vbmeta(out["boot.img"], out["dtbo.img"])
        /\ out["boot.img"].footer = "yes" /\ out["dtbo.img"].footer = "yes"
    BY DEF TreeInv, BootInv, DtboInv, VbmetaInv, AfterDtbo, AfterVbmeta
  <2> QED BY <2>1, <1>1, ListOrder DEF ChainOk
<1>8. BootOk(sums, DOMAIN sums)'
  <2>1. /\ "boot.img" \in D => "Image" \in D /\ DTB_NAME[target] \in D
        /\ "initramfs.cpio.gz" \in D => WithRamdisk
    BY ListOrder
  <2>2. CASE "boot.img" \notin D
    BY <1>1, <2>2 DEF BootOk
  <2>3. CASE "boot.img" \in D
    <3>1. /\ sums'["boot.img"] = out["boot.img"] /\ sums'["Image"] = out["Image"]
          /\ sums'[DTB_NAME[target]] = out[DTB_NAME[target]]
      BY <1>1, <2>1, <2>3
    <3>2. KernelEnd(sums["Image"])' = KernelEnd(out["Image"]) /\ DtbEnd(sums["Image"])' = DtbEnd(out["Image"])
      BY <3>1 DEF KernelEnd, DtbEnd
    <3> QED BY <1>1, <1>5, <1>6, <2>1, <2>3, <3>1, <3>2 DEF BootOk
  <2> QED BY <2>2, <2>3
<1>10. MadeOk(sums, DOMAIN sums)'
  <2>1. "boot.img" \in D => "Image" \in D /\ DTB_NAME[target] \in D
    BY ListOrder
  <2>2. out["version.env"].rev = rev
    BY DEF KernelInv
  <2>3. inv.skip_kernel = "no" => Made(out["Image"]) /\ Made(out[DTB_NAME[target]])
    BY DEF KernelInv, AfterDelivery, AfterBoot, AfterDtbo, AfterVbmeta
  <2> QED BY <1>1, <1>5, <2>1, <2>2, <2>3 DEF MadeOk, Made
<1>9. RootfsOk(sums, DOMAIN sums)'
  <2>1. /\ out["rootfs.img"].size <= ROOTFS_PARTITION_SIZE[target]
        /\ target = "tc8" => out["rootfs.simg"] = Sparse(out["rootfs.img"])
        /\ target = "c60" => out["rootfs.img.zst"] = Zstd(out["rootfs.img"])
    BY DEF TreeInv, RootfsInv, AfterGuard, AfterDelivery, AfterBoot, AfterDtbo, AfterVbmeta
  <2> QED BY <2>1, <1>1, <1>5, ListOrder DEF RootfsOk
<1> QED BY <1>7, <1>8, <1>9, <1>10 DEF SumsInv

\* The steps that stay before the guard or leave the build say nothing of the
\* images.
LEMMA TreeOutside ==
  ASSUME TreeInv,
         \/ Commit \/ Invoke \/ Caches \/ RootfsImg \/ Idle \/ WriteSums
         \/ SumsCut \/ Fail \/ FailTorn \/ FailRemoved \/ FailCaches \/ UNCHANGED vars
  PROVE  TreeInv'
<1>1. CASE UNCHANGED vars \/ Idle
  BY <1>1 DEF Idle, vars, TreeInv, RootfsInv, BootInv, DtboInv, VbmetaInv, BootNow, DtboNow,
              WithRamdisk, target
<1>2. CASE Commit \/ Invoke \/ Caches \/ RootfsImg \/ WriteSums
  <2>1. pc' \in Outside
    BY <1>2 DEF Commit, Invoke, Caches, LazyRootfs, KernelImage, KernelDtb, KernelSkipped,
                RootfsImg, WriteSums, Goto, Outside
  <2> QED BY <2>1, OutsideTree
<1>3. CASE SumsCut \/ Fail \/ FailTorn \/ FailRemoved \/ FailCaches
  <2>1. pc' \in Outside
    BY <1>3 DEF SumsCut, Fail, FailTorn, FailRemoved, FailCaches, Exit, Outside
  <2> QED BY <2>1, OutsideTree
<1> QED BY <1>1, <1>2, <1>3

\* The commands between the guard and the list.
Inside == GuardRootfs \/ Delivery \/ Lift \/ LiftDtb \/ Ramdisk \/ PackVariants \/ BootSet \/ Stamp

\* What a step writes is where it says, and the options stay.
LEMMA InsideFrame ==
  ASSUME TreeType, Inside
  PROVE  /\ inv' = inv /\ sums' = sums /\ skipped' = skipped
         /\ target \in Boards
         /\ DTB_NAME[target] \in {"imx8mm-tc8.dtb", "imx8mm-kepler-proto1.dtb"}
<1>1. inv' = inv /\ sums' = sums /\ skipped' = skipped
  BY DEF Inside, GuardRootfs, Delivery, Lift, LiftDtb, Ramdisk, PackVariants, BootSet,
         PackBootTc8, PackBootC60, PackDtboTc8, PackDtboC60, FooterBoot, FooterDtbo, MakeVbmeta,
         Stamp, Rest
<1>2. target \in Boards
  BY DEF TreeType, Options, target
<1> QED BY <1>1, <1>2 DEF Boards, DTB_NAME

\* The rootfs part: the guard and the delivery establish it, no later command
\* writes these files.
LEMMA RootfsStep ==
  ASSUME TreeType, RootfsInv, Inside
  PROVE  RootfsInv'
<1> USE InsideFrame DEF RootfsInv, Goto, target, Boards
<1>1. CASE GuardRootfs
  BY <1>1 DEF GuardRootfs, AfterGuard, AfterDelivery, AfterBoot, AfterDtbo, AfterVbmeta
<1>2. CASE Delivery
  BY <1>2 DEF Delivery, Write, TreeType, Files, PlainFiles, ROOTFS_SUM_FILE, Sparse, Zstd,
              AfterGuard, AfterDelivery, AfterBoot, AfterDtbo, AfterVbmeta
<1>3. CASE Inside /\ ~GuardRootfs /\ ~Delivery
  <2>1. pc \in AfterDelivery
    BY <1>3 DEF Inside, Lift, LiftDtb, Ramdisk, PackVariants, BootSet,
                PackBootTc8, PackBootC60, PackDtboTc8, PackDtboC60, FooterBoot, FooterDtbo,
                MakeVbmeta, Stamp, AfterDelivery, AfterBoot, AfterDtbo, AfterVbmeta
  <2>2. \A x \in {"rootfs.img", "rootfs.simg", "rootfs.img.zst"} : out'[x] = out[x]
    <3>0. {"rootfs.img", "rootfs.simg", "rootfs.img.zst"} \subseteq DOMAIN out
      BY DEF TreeType, Files, PlainFiles
    <3>1. CASE PackVariants
      <4>1. Variants \cap PlainFiles = {}
        BY RequestsAssumption, ProfilesAssumption DEF TreeType, Options, Variants
      <4> QED BY <3>1, <4>1 DEF PackVariants, TreeType, Files, PlainFiles
    <3>2. CASE Lift \/ LiftDtb \/ Ramdisk \/ Stamp
      BY <3>0, <3>2 DEF Lift, LiftDtb, Ramdisk, Stamp, Write
    <3>3. CASE BootSet
      BY <3>0, <3>3 DEF BootSet, PackBootTc8, PackBootC60, PackDtboTc8, PackDtboC60, FooterBoot,
                  FooterDtbo, MakeVbmeta, Write
    <3> QED BY <1>3, <3>1, <3>2, <3>3 DEF Inside
  <2> QED BY <2>1, <2>2 DEF AfterGuard
<1> QED BY <1>1, <1>2, <1>3

\* What BootInv, DtboInv and VbmetaInv speak of is written in the boot set only.
LEMMA BeforeBoot ==
  ASSUME GuardRootfs \/ Delivery \/ Lift \/ LiftDtb \/ Ramdisk \/ PackVariants
  PROVE  BootInv' /\ DtboInv' /\ VbmetaInv'
<1>1. pc' \notin AfterBoot
  BY DEF GuardRootfs, Delivery, Lift, LiftDtb, Ramdisk, PackVariants, Goto,
         AfterBoot, AfterDtbo, AfterVbmeta
<1> QED BY <1>1 DEF BootInv, DtboInv, VbmetaInv, AfterBoot, AfterDtbo, AfterVbmeta

\* The boot set, command by command, in the order of either recipe.
LEMMA BootStep ==
  ASSUME TreeType, BootInv, DtboInv, VbmetaInv, BootSet \/ Stamp
  PROVE  BootInv' /\ DtboInv' /\ VbmetaInv'
<1> USE DEF Goto, Write, Rest, Boards
<1>0. /\ target \in Boards /\ target' = target /\ (WithRamdisk' <=> WithRamdisk)
      /\ DTB_NAME[target] \in {"imx8mm-tc8.dtb", "imx8mm-kepler-proto1.dtb"}
  BY InsideFrame DEF Inside, target, WithRamdisk
<1>a. {"boot.img", "dtbo.img", "vbmeta.img", "version.env", "Image", "initramfs.cpio.gz",
       "imx8mm-tc8.dtb", "imx8mm-kepler-proto1.dtb"} \subseteq DOMAIN out
  BY DEF TreeType, Files, PlainFiles, DtbFiles, DTB_NAME
<1>1. CASE PackBootTc8
  <2>1. out'["boot.img"] = BootNow("no")'
    BY <1>0, <1>1, <1>a DEF PackBootTc8, BootNow
  <2>2. target = "tc8" /\ pc' = "dtbo"
    BY <1>1 DEF PackBootTc8
  <2> QED BY <1>0, <2>1, <2>2 DEF BootInv, DtboInv, VbmetaInv, AfterDtbo, AfterVbmeta
<1>2. CASE PackBootC60
  <2>1. out'["boot.img"] = BootNow("yes")'
    BY <1>0, <1>2, <1>a DEF PackBootC60, BootNow, WithRamdisk
  <2>2. out'["boot.img"].footer = "yes" /\ pc' = "dtbo"
    BY <1>2, <2>1 DEF PackBootC60, BootNow, BootImg
  <2> QED BY <2>1, <2>2 DEF BootInv, DtboInv, VbmetaInv, AfterDtbo, AfterVbmeta
<1>3. CASE PackDtboTc8
  <2>1. out'["dtbo.img"] = DtboNow("no")'
    BY <1>0, <1>3, <1>a DEF PackDtboTc8, DtboNow
  <2>2. PICK f \in {"no", "yes"} : out'["boot.img"] = BootNow(f)'
    BY <1>0, <1>3, <1>a DEF PackDtboTc8, BootInv, BootNow, AfterBoot
  <2>3. target' = "tc8" /\ pc' = "footer_boot"
    BY <1>0, <1>3 DEF PackDtboTc8
  <2> QED BY <2>1, <2>2, <2>3 DEF BootInv, DtboInv, VbmetaInv, AfterDtbo, AfterVbmeta
<1>4. CASE PackDtboC60
  <2>1. out'["dtbo.img"] = DtboNow("yes")'
    BY <1>0, <1>4, <1>a DEF PackDtboC60, DtboNow
  <2>2. PICK f \in {"no", "yes"} : out'["boot.img"] = BootNow(f)'
    BY <1>0, <1>4, <1>a DEF PackDtboC60, BootInv, BootNow, AfterBoot
  <2>3. out'["boot.img"].footer = "yes" /\ pc' = "vbmeta"
    BY <1>0, <1>4, <1>a DEF PackDtboC60, BootInv
  <2>4. out'["dtbo.img"].footer = "yes"
    BY <2>1 DEF DtboNow, Dtbo
  <2> QED BY <2>1, <2>2, <2>3, <2>4 DEF BootInv, DtboInv, VbmetaInv, AfterDtbo, AfterVbmeta
<1>5. CASE FooterBoot
  <2>1. PICK f \in {"no", "yes"} : out["boot.img"] = BootNow(f)
    BY <1>5 DEF FooterBoot, BootInv, AfterBoot, AfterDtbo
  <2>2. out'["boot.img"] = BootNow("yes")'
    BY <1>0, <1>5, <1>a, <2>1 DEF FooterBoot, BootNow, BootImg, Footed
  <2>3. PICK g \in {"no", "yes"} : out'["dtbo.img"] = DtboNow(g)'
    BY <1>0, <1>5, <1>a DEF FooterBoot, DtboInv, DtboNow, AfterDtbo
  <2>4. out'["boot.img"].footer = "yes" /\ pc' = "footer_dtbo"
    BY <1>5, <2>2 DEF FooterBoot, BootNow, BootImg
  <2> QED BY <2>2, <2>3, <2>4 DEF BootInv, DtboInv, VbmetaInv, AfterDtbo, AfterVbmeta
<1>6. CASE FooterDtbo
  <2>1. PICK f \in {"no", "yes"} : out'["boot.img"] = BootNow(f)'
    BY <1>0, <1>6, <1>a DEF FooterDtbo, BootInv, BootNow, AfterBoot, AfterDtbo
  <2>2. PICK g \in {"no", "yes"} : out["dtbo.img"] = DtboNow(g)
    BY <1>6 DEF FooterDtbo, DtboInv, AfterDtbo
  <2>3. out'["dtbo.img"] = DtboNow("yes")'
    BY <1>0, <1>6, <1>a, <2>2 DEF FooterDtbo, DtboNow, Dtbo, Footed
  <2>4. out'["boot.img"].footer = "yes" /\ out'["dtbo.img"].footer = "yes" /\ pc' = "vbmeta"
    BY <1>6, <1>a, <2>3 DEF FooterDtbo, BootInv, DtboNow, Dtbo, AfterDtbo
  <2> QED BY <2>1, <2>3, <2>4 DEF BootInv, DtboInv, VbmetaInv, AfterDtbo, AfterVbmeta
<1>7. CASE MakeVbmeta \/ Stamp
  <2>1. /\ pc \in {"vbmeta", "stamp"} /\ pc' \in AfterVbmeta
        /\ out'["boot.img"] = out["boot.img"] /\ out'["dtbo.img"] = out["dtbo.img"]
        /\ out'["Image"] = out["Image"] /\ out'["initramfs.cpio.gz"] = out["initramfs.cpio.gz"]
        /\ out'[DTB_NAME[target]] = out[DTB_NAME[target]]
    BY <1>0, <1>7, <1>a DEF MakeVbmeta, Stamp, AfterVbmeta
  <2>2. PICK f \in {"no", "yes"} : out'["boot.img"] = BootNow(f)'
    BY <1>0, <2>1 DEF BootInv, BootNow, AfterBoot, AfterDtbo, AfterVbmeta
  <2>3. PICK g \in {"no", "yes"} : out'["dtbo.img"] = DtboNow(g)'
    BY <1>0, <2>1 DEF DtboInv, DtboNow, AfterDtbo, AfterVbmeta
  <2>4. out'["boot.img"].footer = "yes" /\ out'["dtbo.img"].footer = "yes"
    BY <2>1 DEF BootInv, DtboInv, AfterDtbo, AfterVbmeta
  <2>5. out'["vbmeta.img"] = Vbmeta(out'["boot.img"], out'["dtbo.img"])
    BY <1>7, <1>a, <2>1 DEF MakeVbmeta, Stamp, VbmetaInv, AfterVbmeta
  <2> QED BY <2>1, <2>2, <2>3, <2>4, <2>5 DEF BootInv, DtboInv, VbmetaInv, AfterDtbo, AfterVbmeta
<1> QED BY <1>1, <1>2, <1>3, <1>4, <1>5, <1>6, <1>7 DEF BootSet

\* A kernel that this build made stays where it put it until the list is written.
LEMMA KernelStep ==
  ASSUME TreeType, KernelInv, [Next]_vars
  PROVE  KernelInv'
<1> USE DEF AfterKernel, AfterGuard, AfterDelivery, AfterBoot, AfterDtbo, AfterVbmeta
<1>0. /\ target \in Boards
      /\ DTB_NAME[target] \in {"imx8mm-tc8.dtb", "imx8mm-kepler-proto1.dtb"}
  BY DEF TreeType, Options, target, Boards, DTB_NAME
<1>a. /\ {"Image", DTB_NAME[target]} \subseteq DOMAIN kout
      /\ {"Image", DTB_NAME[target], "version.env"} \subseteq DOMAIN out
  BY <1>0 DEF TreeType, Files, PlainFiles, KernelFiles, DtbFiles
<1>1. CASE UNCHANGED vars \/ Idle
  BY <1>1 DEF vars, Idle, KernelInv, Made, target
<1>2. CASE \/ Commit \/ Invoke \/ LazyRootfs \/ WriteSums \/ SumsCut
           \/ Fail \/ FailTorn \/ FailRemoved \/ FailCaches
  <2>1. pc' \in {"idle", "done", "rootfs", "kernel"}
    BY <1>2 DEF Commit, Invoke, LazyRootfs, WriteSums, SumsCut, Fail, FailTorn, FailRemoved,
                FailCaches, Exit, Goto
  <2> QED BY <2>1 DEF KernelInv
<1>3. CASE KernelImage \/ KernelDtb \/ KernelSkipped
  <2>0. inv' = inv /\ rev' = rev /\ target' = target
    BY <1>3 DEF KernelImage, KernelDtb, KernelSkipped, target
  <2>1. CASE KernelImage
    <3>1. pc' = "kernel_dtb" /\ Made(kout["Image"])'
      BY <1>a, <2>0, <2>1 DEF KernelImage, Goto, Made, Kernel
    <3> QED BY <3>1 DEF KernelInv
  <2>2. CASE KernelDtb
    <3>1. pc = "kernel_dtb" /\ pc' = "rootfs_img" /\ Made(kout[DTB_NAME[target]])'
      BY <1>a, <2>0, <2>2 DEF KernelDtb, Goto, Made, Dtb
    <3>2. kout'["Image"] = kout["Image"]
      BY <1>0, <1>a, <2>2 DEF KernelDtb
    <3> QED BY <2>0, <3>1, <3>2 DEF KernelInv, Made
  <2>3. CASE KernelSkipped
    <3>1. inv.skip_kernel' = "yes" /\ pc' = "rootfs_img"
      BY <2>0, <2>3 DEF KernelSkipped, Goto
    <3> QED BY <3>1 DEF KernelInv
  <2> QED BY <1>3, <2>1, <2>2, <2>3
<1>4. CASE RootfsImg \/ Inside
  <2>0. inv' = inv /\ rev' = rev /\ kout' = kout /\ target' = target
    BY <1>4 DEF RootfsImg, Inside, GuardRootfs, Delivery, Lift, LiftDtb, Ramdisk, PackVariants,
                BootSet, PackBootTc8, PackBootC60, PackDtboTc8, PackDtboC60, FooterBoot, FooterDtbo,
                MakeVbmeta, Stamp, Rest, target
  <2>1. CASE Lift
    <3>1. pc = "lift" /\ pc' = "lift_dtb" /\ out'["Image"] = kout["Image"]
      BY <1>a, <2>1 DEF Lift, Goto, Write
    <3> QED BY <2>0, <3>1 DEF KernelInv, Made
  <2>2. CASE LiftDtb
    <3>1. /\ pc = "lift_dtb" /\ pc' = "ramdisk" /\ out'["Image"] = out["Image"]
          /\ out'[DTB_NAME[target]] = kout[DTB_NAME[target]]
      BY <1>0, <1>a, <2>2 DEF LiftDtb, Goto, Write
    <3> QED BY <2>0, <3>1 DEF KernelInv, Made
  <2>3. CASE Stamp
    <3>1. /\ pc = "stamp" /\ pc' = "sums" /\ out'["Image"] = out["Image"]
          /\ out'[DTB_NAME[target]] = out[DTB_NAME[target]] /\ out'["version.env"].rev = rev
      BY <1>0, <1>a, <2>3 DEF Stamp, Goto, Write, Version
    <3> QED BY <2>0, <3>1 DEF KernelInv, Made
  <2>4. CASE RootfsImg \/ GuardRootfs \/ Delivery
    <3>1. pc \in {"rootfs_img", "guard", "delivery"} /\ pc' \in {"guard", "delivery", "lift"}
      BY <2>4 DEF RootfsImg, GuardRootfs, Delivery, Goto
    <3> QED BY <2>0, <3>1 DEF KernelInv, Made
  <2>5. CASE Ramdisk \/ PackVariants \/ BootSet
    <3>1. /\ pc \in {"ramdisk", "variants", "boot", "dtbo", "footer_boot", "footer_dtbo", "vbmeta"}
          /\ pc' \in {"variants", "boot", "dtbo", "footer_boot", "footer_dtbo", "vbmeta", "stamp"}
      BY <2>5 DEF Ramdisk, PackVariants, BootSet, PackBootTc8, PackBootC60, PackDtboTc8,
                  PackDtboC60, FooterBoot, FooterDtbo, MakeVbmeta, Goto
    <3>2. out'["Image"] = out["Image"] /\ out'[DTB_NAME[target]] = out[DTB_NAME[target]]
      <4>1. CASE PackVariants
        <5>1. Variants \cap PlainFiles = {}
          BY RequestsAssumption, ProfilesAssumption DEF TreeType, Options, Variants
        <5>2. {"Image", DTB_NAME[target]} \subseteq PlainFiles
          BY <1>0 DEF PlainFiles, DtbFiles
        <5> QED BY <4>1, <5>1, <5>2 DEF PackVariants, Files
      <4>2. CASE Ramdisk \/ BootSet
        BY <1>0, <1>a, <4>2 DEF Ramdisk, BootSet, PackBootTc8, PackBootC60, PackDtboTc8,
                  PackDtboC60, FooterBoot, FooterDtbo, MakeVbmeta, Write
      <4> QED BY <2>5, <4>1, <4>2
    <3> QED BY <2>0, <3>1, <3>2 DEF KernelInv, Made
  <2> QED BY <1>4, <2>1, <2>2, <2>3, <2>4, <2>5 DEF Inside
<1> QED BY <1>1, <1>2, <1>3, <1>4 DEF Next, Caches, Images, Ends, Inside

-----------------------------------------------------------------------------
(* The theorems. *)

\* Every step of every build, failing or not, keeps the invariant.
LEMMA NextIInv ==
  ASSUME IInv, [Next]_vars
  PROVE  IInv'
<1> USE DEF IInv
<1>1. TreeType' /\ KernelInv'
  BY TypeStep, KernelStep
<1>2. CASE Inside
  <2>1. RootfsInv'
    BY <1>2, RootfsStep DEF TreeInv
  <2>2. BootInv' /\ DtboInv' /\ VbmetaInv'
    BY <1>2, BeforeBoot, BootStep DEF Inside, TreeInv
  <2>3. SumsInv'
    BY <1>2, InsideFrame, SumsKept
  <2> QED BY <1>1, <2>1, <2>2, <2>3 DEF TreeInv
<1>3. CASE WriteSums
  <2>1. SumsInv'
    BY <1>3, SumsWritten DEF WriteSums, Goto
  <2> QED BY <1>1, <1>3, <2>1, TreeOutside
<1>4. CASE SumsCut
  <2>1. PICK D : /\ (\E n \in 0 .. 7 : D = HeadUpTo(n)) \/ HeadUpTo(8) \subseteq D
                 /\ D \subseteq HeadUpTo(8) \cup Variants \cup SumRamdisk
                 /\ sums' = Digests(D)
    <3>1. CASE \E n \in 0 .. 7 : sums' = Digests(HeadUpTo(n))
      <4>1. \A n \in 0 .. 7 : HeadUpTo(n) \subseteq HeadUpTo(8)
        BY DEF HeadUpTo
      <4> QED BY <3>1, <4>1
    <3>2. CASE \E S \in SUBSET Variants : sums' = Digests(HeadUpTo(8) \cup S)
      BY <3>2
    <3> QED BY <1>4, <3>1, <3>2 DEF SumsCut
  <2>2. SumsInv'
    BY <1>4, <2>1, SumsWritten DEF SumsCut
  <2> QED BY <1>1, <1>4, <2>2, TreeOutside
<1>5. CASE \/ Commit \/ Invoke \/ Caches \/ RootfsImg \/ Idle
           \/ Fail \/ FailTorn \/ FailRemoved \/ FailCaches \/ UNCHANGED vars
  <2>1. sums' = sums /\ skipped' = skipped
    BY <1>5 DEF Commit, Invoke, Caches, LazyRootfs, KernelImage, KernelDtb, KernelSkipped,
                RootfsImg, Rest, Idle, Fail, FailTorn, FailRemoved, FailCaches, vars
  <2> QED BY <1>1, <1>5, <2>1, TreeOutside, SumsKept
<1> QED BY <1>2, <1>3, <1>4, <1>5 DEF Next, Images, Ends, Inside

\* The inductive invariant holds in every state of every sequence of builds.
THEOREM Invariance == Spec => []IInv
BY InitIInv, NextIInv, PTL DEF Spec

\* In a directory that SHA256SUMS accepts, vbmeta.img describes the boot.img
\* and the dtbo.img beside it, after any builds and failures.
THEOREM ChainCorrect == Spec => []VbmetaChains
<1>1. IInv => VbmetaChains
  BY AcceptedConsistent DEF IInv
<1> QED BY <1>1, Invariance, PTL

\* In a directory that SHA256SUMS accepts, boot.img holds the Image, the DTB of
\* its own board and the initramfs beside it, unless a c60 image exceeds
\* BOOT_PAD_SIZE; and unless the kernel was taken over with --skip-kernel, Image
\* and DTB are of that board and of one revision with the stamp.
THEOREM BootSetCorrect == Spec => []BootSetOfOneBuild
<1>1. IInv => BootSetOfOneBuild
  BY AcceptedConsistent DEF IInv
<1> QED BY <1>1, Invariance, PTL

\* In a directory that SHA256SUMS accepts, the rootfs fits the board that
\* boot.img is for, and the file that is flashed holds it.
THEOREM RootfsCorrect == Spec => []RootfsFitsBoard
<1>1. IInv => RootfsFitsBoard
  BY AcceptedConsistent DEF IInv
<1> QED BY <1>1, Invariance, PTL

-----------------------------------------------------------------------------
(* Torn files. The files that the build at hand has made so far are whole, *)
(* and these are all it lists, but for the two that --skip-kernel takes    *)
(* from an earlier build.                                                  *)

AfterRamdisk == {"variants", "boot"} \cup AfterBoot
AfterVariants == {"boot"} \cup AfterBoot

Fresh ==
  {f \in Files :
     \/ f = "rootfs.img" /\ pc \in {"guard"} \cup AfterGuard
     \/ f = ROOTFS_SUM_FILE /\ pc \in AfterDelivery
     \/ f = "Image" /\ inv.skip_kernel = "no" /\ pc \in AfterDelivery \ {"lift"}
     \/ f = DTB_NAME[target] /\ inv.skip_kernel = "no" /\ pc \in AfterDelivery \ {"lift", "lift_dtb"}
     \/ f = "initramfs.cpio.gz" /\ WithRamdisk /\ pc \in AfterRamdisk
     \/ f \in Variants /\ pc \in AfterVariants
     \/ f = "boot.img" /\ pc \in AfterBoot
     \/ f = "dtbo.img" /\ pc \in AfterDtbo
     \/ f = "vbmeta.img" /\ pc \in AfterVbmeta
     \/ f = "version.env" /\ pc = "sums"}

FreshOk == \A f \in Fresh : out[f] # Torn

KernelOk ==
  /\ DOMAIN kout = KernelFiles
  /\ inv.skip_kernel = "no" /\ pc \in {"kernel_dtb"} \cup AfterKernel => kout["Image"] # Torn
  /\ inv.skip_kernel = "no" /\ pc \in AfterKernel => kout[DTB_NAME[target]] # Torn

ListOk ==
  /\ \A f \in DOMAIN sums : sums[f] = Torn => f \in KernelFiles
  /\ pc = "done" /\ inv.skip_kernel = "no" => \A f \in DOMAIN sums : out[f] # Torn

TornInv == FreshOk /\ KernelOk /\ ListOk

\* A command that writes f makes at most f fresh.
LEMMA WriteFresh ==
  ASSUME TreeType, FreshOk, NEW f, NEW c, c # Torn \/ f \notin Fresh', Write(f, c), Fresh' \subseteq Fresh \cup {f}
  PROVE  FreshOk'
<1>1. ASSUME NEW x \in Fresh' PROVE out'[x] # Torn
  <2>1. x \in Fresh \cup {f} /\ x \in Files
    <3>1. Fresh' \subseteq Files BY DEF Fresh, Files
    <3>2. QED BY <3>1
  <2>2. CASE x = f BY <2>1, <2>2 DEF Write, TreeType
  <2>3. CASE x # f BY <2>1, <2>3 DEF Write, TreeType, FreshOk
  <2>4. QED BY <2>2, <2>3
<1>2. QED BY <1>1 DEF FreshOk

\* The steps of a build after the caches.
Making == RootfsImg \/ Inside

LEMMA MakingFrame ==
  ASSUME Making
  PROVE  /\ inv' = inv /\ tgz' = tgz /\ kout' = kout /\ sums' = sums
         /\ pc \in {"rootfs_img", "guard"} \cup AfterGuard /\ pc # "sums" /\ pc' \in {"guard"} \cup AfterGuard
         /\ target' = target /\ (WithRamdisk' <=> WithRamdisk) /\ Variants' = Variants
         /\ ROOTFS_SUM_FILE' = ROOTFS_SUM_FILE
<1>1. /\ inv' = inv /\ tgz' = tgz /\ kout' = kout /\ sums' = sums
      /\ pc \in {"rootfs_img", "guard"} \cup AfterGuard /\ pc # "sums" /\ pc' \in {"guard"} \cup AfterGuard
  BY DEF Making, RootfsImg, Inside, GuardRootfs, Delivery, Lift, LiftDtb, Ramdisk, PackVariants, BootSet,
         PackBootTc8, PackBootC60, PackDtboTc8, PackDtboC60, FooterBoot, FooterDtbo, MakeVbmeta,
         Stamp, Rest, Goto, AfterGuard, AfterDelivery, AfterBoot, AfterDtbo, AfterVbmeta
<1>2. QED BY <1>1 DEF target, WithRamdisk, Variants, ROOTFS_SUM_FILE

LEMMA FreshMaking ==
  ASSUME IInv, TornInv, Making, IInv'
  PROVE  FreshOk'
<1> USE DEF Goto
<1>0. TreeType /\ FreshOk /\ KernelOk BY DEF IInv, TornInv
<1> DEFINE Step(f) == Fresh' \subseteq Fresh \cup {f}
<1> USE DEF Fresh, AfterGuard, AfterDelivery, AfterRamdisk, AfterVariants, AfterBoot, AfterDtbo, AfterVbmeta
<1>1. CASE RootfsImg
  <2>1. Step("rootfs.img") BY <1>1, MakingFrame DEF RootfsImg
  <2>2. QED BY <1>0, <1>1, <2>1, WriteFresh DEF RootfsImg, Ext4, Torn
<1>2. CASE GuardRootfs
  <2>1. Fresh' \subseteq Fresh BY <1>2, MakingFrame DEF GuardRootfs
  <2>2. out' = out BY <1>2 DEF GuardRootfs
  <2>3. QED BY <1>0, <2>1, <2>2 DEF FreshOk
<1>3. CASE Delivery
  <2>1. Step(ROOTFS_SUM_FILE) BY <1>3, MakingFrame DEF Delivery
  <2>2. PICK c : c = IF target = "c60" THEN Zstd(out["rootfs.img"]) ELSE Sparse(out["rootfs.img"]) OBVIOUS
  <2>3. c # Torn BY <2>2 DEF Zstd, Sparse, Torn
  <2>4. QED BY <1>0, <1>3, <2>1, <2>2, <2>3, WriteFresh DEF Delivery
<1>4. CASE Lift
  <2>1. Step("Image") BY <1>4, MakingFrame DEF Lift
  <2>2. kout["Image"] # Torn \/ "Image" \notin Fresh'
    <3>1. CASE inv.skip_kernel = "no" BY <1>0, <1>4, <3>1 DEF KernelOk, Lift, AfterKernel
    <3>2. CASE inv.skip_kernel # "no"
      <4>1. "Image" \notin Variants /\ "Image" # DTB_NAME[target] /\ "Image" # ROOTFS_SUM_FILE
        BY <1>0, RequestsAssumption, ProfilesAssumption
        DEF TreeType, Options, Variants, PlainFiles, target, DTB_NAME, Boards, ROOTFS_SUM_FILE
      <4>2. QED BY <1>4, <3>2, <4>1, MakingFrame DEF Lift
    <3>3. QED BY <3>1, <3>2
  <2>3. QED BY <1>0, <1>4, <2>1, <2>2, WriteFresh DEF Lift
<1>5. CASE LiftDtb
  <2>1. Step(DTB_NAME[target]) BY <1>5, MakingFrame DEF LiftDtb
  <2>2. kout[DTB_NAME[target]] # Torn \/ DTB_NAME[target] \notin Fresh'
    <3>1. CASE inv.skip_kernel = "no" BY <1>0, <1>5, <3>1 DEF KernelOk, LiftDtb, AfterKernel
    <3>2. CASE inv.skip_kernel # "no"
      <4>1. target \in Boards BY <1>0 DEF TreeType, Options, target
      <4>2. DTB_NAME[target] \in {"imx8mm-tc8.dtb", "imx8mm-kepler-proto1.dtb"} BY <4>1 DEF Boards, DTB_NAME
      <4>3. DTB_NAME[target] \notin Variants
        BY <1>0, <4>2, RequestsAssumption, ProfilesAssumption
        DEF TreeType, Options, Variants, PlainFiles, DtbFiles, DTB_NAME, Boards
      <4>4. DTB_NAME[target] # ROOTFS_SUM_FILE BY <4>2 DEF ROOTFS_SUM_FILE
      <4>5. QED BY <1>5, <3>2, <4>2, <4>3, <4>4, MakingFrame DEF LiftDtb
    <3>3. QED BY <3>1, <3>2
  <2>3. QED BY <1>0, <1>5, <2>1, <2>2, WriteFresh DEF LiftDtb
<1>6. CASE Ramdisk
  <2>1. CASE WithRamdisk
    <3>1. Step("initramfs.cpio.gz") BY <1>6, MakingFrame DEF Ramdisk
    <3>2. QED BY <1>0, <1>6, <2>1, <3>1, WriteFresh DEF Ramdisk, Cpio, Torn
  <2>2. CASE ~WithRamdisk
    <3>1. Fresh' \subseteq Fresh BY <1>6, <2>2, MakingFrame DEF Ramdisk
    <3>2. out' = out BY <1>6, <2>2 DEF Ramdisk
    <3>3. QED BY <1>0, <3>1, <3>2 DEF FreshOk
  <2>3. QED BY <2>1, <2>2
<1>7. CASE PackVariants
  <2>1. Fresh' \subseteq Fresh \cup Variants BY <1>7, MakingFrame DEF PackVariants
  <2>2. Fresh' \subseteq Files OBVIOUS
  <2>3. \A f \in Files : out'[f] = IF f \in Variants THEN Ext4(tgz[f], ROOTFS_IMG_SIZE) ELSE out[f]
    BY <1>7 DEF PackVariants
  <2>4. \A x, n : Ext4(x, n) # Torn BY DEF Ext4, Torn
  <2> HIDE DEF Fresh
  <2>5. QED BY <1>0, <2>1, <2>2, <2>3, <2>4 DEF FreshOk
<1>8. CASE PackBootTc8 \/ PackBootC60 \/ FooterBoot
  <2>1. Step("boot.img") BY <1>8, MakingFrame DEF PackBootTc8, PackBootC60, FooterBoot
  <2>2. PICK c : Write("boot.img", c) BY <1>8 DEF PackBootTc8, PackBootC60, FooterBoot
  <2>3. pc' \in AfterBoot BY <1>8 DEF PackBootTc8, PackBootC60, FooterBoot
  <2>4. out'["boot.img"].kind = "boot" BY <2>3 DEF IInv, TreeInv, BootInv, BootNow, BootImg
  <2>5. c # Torn BY <1>0, <2>2, <2>4 DEF Write, TreeType, Files, PlainFiles, Torn
  <2>6. QED BY <1>0, <2>1, <2>2, <2>5, WriteFresh
<1>9. CASE PackDtboTc8 \/ PackDtboC60 \/ FooterDtbo
  <2>1. Step("dtbo.img") BY <1>9, MakingFrame DEF PackDtboTc8, PackDtboC60, FooterDtbo
  <2>2. PICK c : Write("dtbo.img", c) BY <1>9 DEF PackDtboTc8, PackDtboC60, FooterDtbo
  <2>3. pc' \in AfterDtbo BY <1>9 DEF PackDtboTc8, PackDtboC60, FooterDtbo
  <2>4. out'["dtbo.img"].kind = "dtbo" BY <2>3 DEF IInv, TreeInv, DtboInv, DtboNow, Dtbo
  <2>5. c # Torn BY <1>0, <2>2, <2>4 DEF Write, TreeType, Files, PlainFiles, Torn
  <2>6. QED BY <1>0, <2>1, <2>2, <2>5, WriteFresh
<1>10. CASE MakeVbmeta
  <2>1. Step("vbmeta.img") BY <1>10, MakingFrame DEF MakeVbmeta
  <2>2. QED BY <1>0, <1>10, <2>1, WriteFresh DEF MakeVbmeta, Vbmeta, Torn
<1>11. CASE Stamp
  <2>1. Step("version.env") BY <1>11, MakingFrame DEF Stamp
  <2>2. QED BY <1>0, <1>11, <2>1, WriteFresh DEF Stamp, Version, Torn
<1>12. QED BY <1>1, <1>2, <1>3, <1>4, <1>5, <1>6, <1>7, <1>8, <1>9, <1>10, <1>11 DEF Making, Inside, BootSet

LEMMA TornMaking == ASSUME IInv, TornInv, Making, IInv' PROVE TornInv'
<1>1. FreshOk' BY FreshMaking
<1>2. pc \in AfterKernel /\ pc' # "done"
  BY MakingFrame DEF AfterKernel, AfterGuard, AfterDelivery, AfterBoot, AfterDtbo, AfterVbmeta
<1>3. KernelOk' BY <1>2, MakingFrame DEF TornInv, KernelOk
<1>4. ListOk' BY <1>2, MakingFrame DEF TornInv, ListOk
<1>5. QED BY <1>1, <1>3, <1>4 DEF TornInv

\* What is listed is fresh, or of the kernel that was taken from earlier.
LEMMA TornListed ==
  ASSUME IInv, TornInv, pc = "sums", NEW D, D \subseteq HeadUpTo(8) \cup Variants \cup SumRamdisk
  PROVE  \A f \in D : out[f] = Torn => f \in KernelFiles /\ inv.skip_kernel # "no"
<1>1. target \in Boards /\ Variants \subseteq Files
  BY RequestsAssumption DEF IInv, TreeType, Options, target, Variants, Files
<1>2. DTB_NAME[target] \in DtbFiles BY <1>1 DEF DtbFiles
<1>3. HeadUpTo(8) = {"Image", DTB_NAME[target], "boot.img", "dtbo.img", "vbmeta.img",
                     "rootfs.img", ROOTFS_SUM_FILE, "version.env"}
  <2>1. 1 .. 8 = {1, 2, 3, 4, 5, 6, 7, 8} OBVIOUS
  <2>2. QED BY <2>1, HeadNames DEF HeadUpTo
<1>4. HeadUpTo(8) \cup Variants \cup SumRamdisk \subseteq Files
  BY <1>1, <1>2, <1>3 DEF SumRamdisk, Files, PlainFiles, ROOTFS_SUM_FILE
<1>5. ASSUME NEW f \in D PROVE f \in Fresh \/ (f \in KernelFiles /\ inv.skip_kernel # "no")
  <2>1. f \in Files /\ (f \in HeadUpTo(8) \/ f \in Variants \/ f \in SumRamdisk) BY <1>4
  <2>2. CASE f \in HeadUpTo(8)
    BY <1>2, <1>3, <2>1, <2>2
    DEF Fresh, KernelFiles, AfterGuard, AfterDelivery, AfterBoot, AfterDtbo, AfterVbmeta
  <2>3. CASE f \in Variants BY <2>1, <2>3 DEF Fresh, AfterVariants, AfterBoot, AfterDtbo, AfterVbmeta
  <2>4. CASE f \in SumRamdisk
    BY <2>1, <2>4 DEF SumRamdisk, Fresh, AfterRamdisk, AfterBoot, AfterDtbo, AfterVbmeta
  <2>5. QED BY <2>1, <2>2, <2>3, <2>4
<1>6. QED BY <1>5 DEF TornInv, FreshOk

\* A build that has ended, or is at its caches, has made nothing yet.
LEMMA NothingFresh ==
  ASSUME pc' \in {"idle", "done", "rootfs", "kernel", "kernel_dtb", "rootfs_img"} PROVE FreshOk'
BY DEF FreshOk, Fresh, AfterGuard, AfterDelivery, AfterRamdisk, AfterVariants, AfterBoot, AfterDtbo, AfterVbmeta

LEMMA TornStep == ASSUME IInv, TornInv, [Next]_vars, IInv' PROVE TornInv'
<1> USE DEF AfterKernel, AfterGuard, AfterDelivery, AfterBoot, AfterDtbo, AfterVbmeta
<1>0. FreshOk /\ KernelOk /\ ListOk /\ TreeType BY DEF TornInv, IInv
<1>1. CASE Making BY <1>1, TornMaking
<1>2. CASE Caches
  <2>1. pc' \in {"kernel", "kernel_dtb", "rootfs_img"} /\ inv' = inv /\ sums' = sums
    BY <1>2 DEF Caches, LazyRootfs, KernelImage, KernelDtb, KernelSkipped, Goto
  <2>2. target' = target BY <2>1 DEF target
  <2>3. {"Image", DTB_NAME[target]} \subseteq KernelFiles /\ "Image" # DTB_NAME[target]
    BY <1>0 DEF TreeType, Options, target, KernelFiles, DtbFiles, DTB_NAME, Boards
  <2>4. KernelOk'
    <3>1. CASE LazyRootfs BY <1>0, <2>1, <3>1 DEF LazyRootfs, KernelOk, Goto
    <3>2. CASE KernelImage
      BY <1>0, <2>1, <2>3, <3>2 DEF KernelImage, KernelOk, Goto, Kernel, Torn
    <3>3. CASE KernelDtb
      <4>1. /\ DOMAIN kout' = KernelFiles /\ kout'["Image"] = kout["Image"]
            /\ kout'[DTB_NAME[target]] = Dtb(target, rev)
        BY <1>0, <2>3, <3>3 DEF KernelDtb, KernelOk
      <4>2. Dtb(target, rev) # Torn BY DEF Dtb, Torn
      <4>3. QED BY <1>0, <2>1, <2>2, <3>3, <4>1, <4>2 DEF KernelDtb, KernelOk, Goto
    <3>4. CASE KernelSkipped
      <4>1. kout' = kout /\ inv.skip_kernel = "yes" BY <3>4 DEF KernelSkipped
      <4>2. QED BY <1>0, <2>1, <4>1 DEF KernelOk
    <3>5. QED BY <1>2, <3>1, <3>2, <3>3, <3>4 DEF Caches
  <2>5. ListOk' BY <1>0, <2>1 DEF ListOk
  <2>6. QED BY <2>1, <2>4, <2>5, NothingFresh DEF TornInv
<1>3. CASE Commit \/ Idle \/ UNCHANGED vars
  <2>1. UNCHANGED <<tgz, kout, out, sums, inv, pc>> BY <1>3 DEF Commit, Idle, vars
  <2>2. Fresh' = Fresh BY <2>1 DEF Fresh, target, WithRamdisk, Variants, ROOTFS_SUM_FILE
  <2>3. target' = target BY <2>1 DEF target
  <2>4. FreshOk' BY <1>0, <2>1, <2>2 DEF FreshOk
  <2>5. KernelOk' BY <1>0, <2>1, <2>3 DEF KernelOk
  <2>6. ListOk' BY <1>0, <2>1 DEF ListOk
  <2>7. QED BY <2>4, <2>5, <2>6 DEF TornInv
<1>4. CASE Invoke
  <2>1. pc' = "rootfs" /\ kout' = kout /\ sums' = sums BY <1>4 DEF Invoke
  <2>2. KernelOk' /\ ListOk' BY <1>0, <2>1 DEF KernelOk, ListOk
  <2>3. QED BY <2>1, <2>2, NothingFresh DEF TornInv
<1>5. CASE WriteSums
  <2>1. /\ pc = "sums" /\ pc' = "done" /\ kout' = kout /\ inv' = inv /\ out' = out
        /\ sums' = Digests(HeadUpTo(8) \cup Variants \cup SumRamdisk)
    BY <1>5 DEF WriteSums, Goto
  <2>2. PICK D : D = HeadUpTo(8) \cup Variants \cup SumRamdisk OBVIOUS
  <2>3. \A f \in D : out[f] = Torn => f \in KernelFiles /\ inv.skip_kernel # "no" BY <2>1, <2>2, TornListed
  <2>4. DOMAIN sums' = D /\ \A f \in D : sums'[f] = out[f] BY <2>1, <2>2 DEF Digests
  <2>5. ListOk' BY <2>1, <2>3, <2>4 DEF ListOk
  <2>6. KernelOk' BY <1>0, <2>1 DEF KernelOk
  <2>7. QED BY <2>1, <2>5, <2>6, NothingFresh DEF TornInv
<1>6. CASE SumsCut
  <2>1. pc = "sums" /\ pc' = "idle" /\ kout' = kout BY <1>6 DEF SumsCut, Exit
  <2>2. PICK D : D \subseteq HeadUpTo(8) \cup Variants \cup SumRamdisk /\ sums' = Digests(D)
    <3>1. \A n \in 0 .. 7 : HeadUpTo(n) \subseteq HeadUpTo(8) BY DEF HeadUpTo
    <3>2. CASE \E n \in 0 .. 7 : sums' = Digests(HeadUpTo(n)) BY <3>1, <3>2
    <3>3. CASE \E S \in SUBSET Variants : sums' = Digests(HeadUpTo(8) \cup S) BY <3>3
    <3>4. QED BY <1>6, <3>2, <3>3 DEF SumsCut
  <2>3. \A f \in D : out[f] = Torn => f \in KernelFiles /\ inv.skip_kernel # "no" BY <2>1, <2>2, TornListed
  <2>4. DOMAIN sums' = D /\ \A f \in D : sums'[f] = out[f] BY <2>2 DEF Digests
  <2>5. ListOk' BY <2>1, <2>3, <2>4 DEF ListOk
  <2>6. KernelOk' BY <1>0, <2>1 DEF KernelOk
  <2>7. QED BY <2>1, <2>5, <2>6, NothingFresh DEF TornInv
<1>7. CASE Fail \/ FailTorn \/ FailRemoved \/ FailCaches
  <2>1. pc' = "idle" /\ sums' = sums BY <1>7 DEF Fail, FailTorn, FailRemoved, FailCaches, Exit
  <2>2. DOMAIN kout' = KernelFiles BY <1>0, <1>7 DEF KernelOk, Fail, FailTorn, FailRemoved, FailCaches
  <2>3. KernelOk' /\ ListOk' BY <1>0, <2>1, <2>2 DEF KernelOk, ListOk
  <2>4. QED BY <2>1, <2>3, NothingFresh DEF TornInv
<1>8. QED BY <1>1, <1>2, <1>3, <1>4, <1>5, <1>6, <1>7 DEF Next, Images, Ends, Making, Inside

\* Each build lists whole files only, but for a kernel it was told not to build.
THEOREM TornInvariance == Spec => []TornInv
<1>1. Init => TornInv
  BY DEF Init, TornInv, FreshOk, Fresh, KernelOk, ListOk, AfterKernel, AfterGuard, AfterDelivery,
         AfterRamdisk, AfterVariants, AfterBoot, AfterDtbo, AfterVbmeta
<1>2. IInv /\ TornInv /\ [Next]_vars /\ IInv' => TornInv' BY TornStep
<1>3. QED BY <1>1, <1>2, Invariance, PTL DEF Spec

\* In a directory that SHA256SUMS accepts no file is half written, except a
\* kernel that a build with --skip-kernel took over (build.sh:207-211).
THEOREM TornCorrect == Spec => []TornOnlyIfKernelSkipped
<1>1. TornInv => TornOnlyIfKernelSkipped
  <2>1. SUFFICES ASSUME ListOk PROVE TornOnlyIfKernelSkipped BY DEF TornInv
  <2>2. Accepted => \A f \in DOMAIN sums : out[f] = Torn => f \in KernelFiles BY <2>1 DEF ListOk, Accepted
  <2>3. QED BY <2>1, <2>2 DEF ListOk, TornOnlyIfKernelSkipped
<1>2. QED BY <1>1, TornInvariance, PTL
=============================================================================
