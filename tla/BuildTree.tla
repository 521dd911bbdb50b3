----------------------------- MODULE BuildTree -----------------------------
(***************************************************************************)
(* build.sh, with kernel/build.sh, images/rootfs.sh and the boot recipes   *)
(* targets/<t>/boot.sh it runs: the files a sequence of builds leaves in   *)
(* out/<profile>/, which both boards share, and in the caches it reads     *)
(* (rootfs/out/ and out/<profile>/kernel/). Under `set -e` any command may *)
(* fail and end the build; the file it was writing is then torn.           *)
(* The content of a file is what it was made from: two files are the same  *)
(* bytes, and have the same SHA-256, when their contents are equal.        *)
(***************************************************************************)
EXTENDS Integers

CONSTANTS
  Profiles,        \* device-role profiles that exist, "kiosk" among them
  Requests,        \* the values --os-profile= is given: sets of profiles
  Sizes,           \* the values --rootfs-size= is given
  UserdataSize,    \* tc8: ROOTFS_PARTITION_SIZE and ROOTFS_IMG_DEFAULT_SIZE
  SystemASize,     \* c60: ROOTFS_PARTITION_SIZE
  SystemADefault,  \* c60: ROOTFS_IMG_DEFAULT_SIZE
  KernelSizes,     \* sizes an Image comes out with
  BootPadSize,     \* c60: BOOT_PAD_SIZE
  BootPartSize,    \* BOOT_PARTITION_SIZE less the AVB metadata
  MaxRev,          \* bound: revisions of the three repositories
  MaxBuilds        \* bound: invocations of build.sh

ASSUME RequestsAssumption == {"kiosk"} \in Requests /\ Requests \subseteq SUBSET Profiles
ASSUME RootfsSizesAssumption ==
  /\ Sizes \subseteq Nat /\ UserdataSize \in Nat /\ SystemASize \in Nat
  /\ SystemADefault \in Nat /\ SystemADefault <= SystemASize
ASSUME BootSizesAssumption == KernelSizes \subseteq Nat /\ BootPadSize \in Nat /\ BootPartSize \in Nat
ASSUME BoundsAssumption == MaxRev \in Nat \ {0} /\ MaxBuilds \in Nat

VARIABLES
  rev,     \* revision the three repositories are at
  tgz,     \* rootfs/out/: the plain tarball and one for each profile
  kout,    \* out/<profile>/kernel/
  out,     \* out/<profile>/
  sums,    \* SHA256SUMS: the file names it lists, each with its digest
  skipped, \* history: --skip-kernel of the build that wrote SHA256SUMS
  inv,     \* options of the invocation
  pc,      \* the command build.sh is at; "idle" and "done" between builds
  builds   \* invocations so far

vars == <<rev, tgz, kout, out, sums, skipped, inv, pc, builds>>

-----------------------------------------------------------------------------
(* Files and contents. *)

Boards == {"tc8", "c60"}
DTB_NAME == [tc8 |-> "imx8mm-tc8.dtb", c60 |-> "imx8mm-kepler-proto1.dtb"]
ROOTFS_PARTITION_SIZE == [tc8 |-> UserdataSize, c60 |-> SystemASize]
ROOTFS_IMG_DEFAULT_SIZE == [tc8 |-> UserdataSize, c60 |-> SystemADefault]

DtbFiles == {DTB_NAME[t] : t \in Boards}
PlainFiles ==
  {"Image", "rootfs.img", "rootfs.simg", "rootfs.img.zst", "initramfs.cpio.gz",
   "boot.img", "dtbo.img", "vbmeta.img", "version.env"} \cup DtbFiles
\* A profile p names the pair rootfs-<p>.img, rootfs-<p>.simg.
Files == PlainFiles \cup Profiles
\* A profile is no file name of the pipeline.
ASSUME ProfilesAssumption == Profiles \cap PlainFiles = {}

KernelFiles == {"Image"} \cup DtbFiles
Tarballs == {"plain"} \cup Profiles

None == [kind |-> "none"]
Torn == [kind |-> "torn", size |-> 0]

Tarball(t, v) == [kind |-> "tarball", device |-> t, rev |-> v]
Kernel(t, v, n) == [kind |-> "kernel", board |-> t, rev |-> v, size |-> n]
Dtb(t, v) == [kind |-> "dtb", board |-> t, rev |-> v]
Ext4(tarball, n) == [kind |-> "ext4", from |-> tarball, size |-> n]
Sparse(img) == [kind |-> "sparse", of |-> img]
Zstd(img) == [kind |-> "zstd", of |-> img]
Cpio(tarball, v) == [kind |-> "cpio", busybox |-> tarball, rev |-> v]
BootImg(t, k, r, s, foot) ==
  [kind |-> "boot", cmdline |-> t, kernel |-> k, ramdisk |-> r, second |-> s, footer |-> foot]
\* What is left of c when its end is cut off.
Cut(c) == [kind |-> "cut", of |-> c]
Dtbo(d, foot) == [kind |-> "dtbo", dtb |-> d, footer |-> foot]
Vbmeta(b, d) == [kind |-> "vbmeta", boot |-> b, dtbo |-> d]
Version(v) == [kind |-> "version", rev |-> v]
Footed(c) == [c EXCEPT !.footer = "yes"]

-----------------------------------------------------------------------------
(* The invocation. *)

Options == [target : Boards, skip_kernel : {"no", "yes"}, skip_rootfs : {"no", "yes"},
            no_ramdisk : {"no", "yes"}, size : Sizes \cup {0}, os_profiles : Requests]

Defaults == [target |-> "tc8", skip_kernel |-> "no", skip_rootfs |-> "no", no_ramdisk |-> "no",
             size |-> 0, os_profiles |-> {"kiosk"}]

target == inv.target
ROOTFS_IMG_SIZE == IF inv.size = 0 THEN ROOTFS_IMG_DEFAULT_SIZE[target] ELSE inv.size
WithRamdisk == inv.no_ramdisk = "no" /\ target = "tc8"
ROOTFS_SUM_FILE == IF target = "c60" THEN "rootfs.img.zst" ELSE "rootfs.simg"

\* The profiles the variants loop packs: a kiosk without a tarball of its own
\* is left out.
Variants == {p \in inv.os_profiles : ~(p = "kiosk" /\ tgz[p] = None)}

Goto(from, to) == pc = from /\ pc' = to

Init ==
  /\ rev = 1 /\ builds = 0 /\ pc = "idle"
  /\ tgz = [x \in Tarballs |-> None]
  /\ kout = [f \in KernelFiles |-> None]
  /\ out = [f \in Files |-> None]
  /\ sums = [f \in {} |-> None] /\ skipped = "no"
  /\ inv = Defaults

\* Somebody commits to one of the repositories, or pulls.
Commit ==
  /\ pc \in {"idle", "done"} /\ rev < MaxRev
  /\ rev' = rev + 1
  /\ UNCHANGED <<tgz, kout, out, sums, skipped, inv, pc, builds>>

Invoke ==
  /\ pc \in {"idle", "done"} /\ builds < MaxBuilds
  /\ inv' \in Options
  /\ pc' = "rootfs" /\ builds' = builds + 1
  /\ UNCHANGED <<rev, tgz, kout, out, sums, skipped>>

-----------------------------------------------------------------------------
(* Caches: the rootfs tarballs and the kernel. *)

\* Tarballs rootfs/build.sh is asked for.
Asked == {"plain"} \cup inv.os_profiles

NeedRootfs == inv.skip_rootfs = "no" /\ \E x \in Asked : tgz[x] = None

\* The rootfs is built only if a tarball is missing. The builder gets the
\* device and stamps the versions into the image (/etc/tc8-version).
LazyRootfs ==
  /\ Goto("rootfs", "kernel")
  /\ tgz' = IF NeedRootfs
            THEN [x \in Tarballs |-> IF x \in Asked THEN Tarball(target, rev) ELSE tgz[x]]
            ELSE tgz
  /\ tgz'["plain"] # None
  /\ UNCHANGED <<rev, kout, out, sums, skipped, inv, builds>>

KernelImage ==
  /\ inv.skip_kernel = "no"
  /\ Goto("kernel", "kernel_dtb")
  /\ \E n \in KernelSizes : kout' = [kout EXCEPT !["Image"] = Kernel(target, rev, n)]
  /\ UNCHANGED <<rev, tgz, out, sums, skipped, inv, builds>>

\* Mutant: the copy never overwrites.
KernelDtbKept ==
  /\ Goto("kernel_dtb", "rootfs_img")
  /\ kout' = IF kout[DTB_NAME[target]] = None
             THEN [kout EXCEPT ![DTB_NAME[target]] = Dtb(target, rev)] ELSE kout
  /\ UNCHANGED <<rev, tgz, out, sums, skipped, inv, builds>>

KernelDtb ==
  /\ Goto("kernel_dtb", "rootfs_img")
  /\ kout' = [kout EXCEPT ![DTB_NAME[target]] = Dtb(target, rev)]
  /\ UNCHANGED <<rev, tgz, out, sums, skipped, inv, builds>>

KernelSkipped ==
  /\ inv.skip_kernel = "yes"
  /\ Goto("kernel", "rootfs_img")
  /\ kout["Image"] # None /\ kout[DTB_NAME[target]] # None
  /\ UNCHANGED <<rev, tgz, kout, out, sums, skipped, inv, builds>>

-----------------------------------------------------------------------------
(* The artifacts in out/<profile>/. *)

Write(f, c) == out' = [out EXCEPT ![f] = c]
Rest == UNCHANGED <<rev, tgz, kout, sums, skipped, inv, builds>>

\* images/rootfs.sh
RootfsImg ==
  /\ Goto("rootfs_img", "guard")
  /\ Write("rootfs.img", Ext4(tgz["plain"], ROOTFS_IMG_SIZE))
  /\ Rest

\* Mutant: the size guard compares against the larger of the two partitions.
GuardRootfsLoose ==
  /\ Goto("guard", "delivery")
  /\ out["rootfs.img"].size <= UserdataSize
  /\ UNCHANGED out /\ Rest

\* An ext4 bigger than its partition flashes but never mounts: refused.
GuardRootfs ==
  /\ Goto("guard", "delivery")
  /\ out["rootfs.img"].size <= ROOTFS_PARTITION_SIZE[target]
  /\ UNCHANGED out /\ Rest

\* rootfs.img.zst for booti, rootfs.simg (made and verified) for boota.
Delivery ==
  /\ Goto("delivery", "lift")
  /\ Write(ROOTFS_SUM_FILE,
           IF target = "c60" THEN Zstd(out["rootfs.img"]) ELSE Sparse(out["rootfs.img"]))
  /\ Rest

\* Image and DTB are copied up from kernel/.
Lift ==
  /\ Goto("lift", "lift_dtb")
  /\ Write("Image", kout["Image"])
  /\ Rest

LiftDtb ==
  /\ Goto("lift_dtb", "ramdisk")
  /\ Write(DTB_NAME[target], kout[DTB_NAME[target]])
  /\ Rest

Ramdisk ==
  /\ Goto("ramdisk", "variants")
  /\ IF WithRamdisk
     THEN Write("initramfs.cpio.gz", Cpio(tgz["plain"], rev))
     ELSE UNCHANGED out
  /\ Rest

\* rootfs-<p>.img and rootfs-<p>.simg of each profile.
PackVariants ==
  /\ Goto("variants", "boot")
  /\ \A p \in Variants : tgz[p] # None
  /\ Variants # {} => ROOTFS_IMG_SIZE <= ROOTFS_PARTITION_SIZE[target]
  /\ out' = [f \in Files |-> IF f \in Variants THEN Ext4(tgz[f], ROOTFS_IMG_SIZE) ELSE out[f]]
  /\ Rest

-----------------------------------------------------------------------------
(* pack_boot. tc8: boot.img and dtbo.img are made, then both get their AVB *)
(* footer; c60: each gets its footer as it is made. Then vbmeta.img.       *)

\* Where the kernel and, on c60, the DTB behind it end in boot.img: a header
\* page, the kernel, the DTB.
KernelEnd(k) == k.size + 1
DtbEnd(k) == k.size + 2

PackBootTc8 ==
  /\ target = "tc8" /\ Goto("boot", "dtbo")
  /\ LET ramdisk == IF WithRamdisk THEN out["initramfs.cpio.gz"] ELSE None
     IN  Write("boot.img", BootImg(target, out["Image"], ramdisk, None, "no"))
  /\ Rest

\* `truncate -s` pads a short image and cuts a long one: what ends beyond
\* BOOT_PAD_SIZE loses its end.
Truncated(end, c) == IF end <= BootPadSize THEN c ELSE Cut(c)

PackBootC60 ==
  /\ target = "c60" /\ Goto("boot", "dtbo")
  /\ LET k == out["Image"]
     IN  Write("boot.img", BootImg(target, Truncated(KernelEnd(k), k), None,
                                   Truncated(DtbEnd(k), out[DTB_NAME[target]]), "yes"))
  /\ Rest

PackDtboTc8 ==
  /\ target = "tc8" /\ Goto("dtbo", "footer_boot")
  /\ Write("dtbo.img", Dtbo(out[DTB_NAME[target]], "no"))
  /\ Rest

\* Mutant: the name of the DTB is hard-coded.
PackDtboC60Hard ==
  /\ target = "c60" /\ Goto("dtbo", "vbmeta")
  /\ Write("dtbo.img", Dtbo(out["imx8mm-tc8.dtb"], "yes"))
  /\ Rest

PackDtboC60 ==
  /\ target = "c60" /\ Goto("dtbo", "vbmeta")
  /\ Write("dtbo.img", Dtbo(out[DTB_NAME[target]], "yes"))
  /\ Rest

\* avbtool refuses an image that does not leave room for the footer.
FooterBoot ==
  /\ Goto("footer_boot", "footer_dtbo")
  /\ KernelEnd(out["boot.img"].kernel) <= BootPartSize
  /\ Write("boot.img", Footed(out["boot.img"]))
  /\ Rest

FooterDtbo ==
  /\ Goto("footer_dtbo", "vbmeta")
  /\ Write("dtbo.img", Footed(out["dtbo.img"]))
  /\ Rest

\* Mutant: made once, then kept.
MakeVbmetaOnce ==
  /\ Goto("vbmeta", "stamp")
  /\ IF out["vbmeta.img"] = None
     THEN Write("vbmeta.img", Vbmeta(out["boot.img"], out["dtbo.img"])) ELSE UNCHANGED out
  /\ Rest

MakeVbmeta ==
  /\ Goto("vbmeta", "stamp")
  /\ Write("vbmeta.img", Vbmeta(out["boot.img"], out["dtbo.img"]))
  /\ Rest

-----------------------------------------------------------------------------
(* The stamp and the checksums, and the ways out. *)

Stamp ==
  /\ Goto("stamp", "sums")
  /\ Write("version.env", Version(rev))
  /\ Rest

\* The files listed: first these, in this order, then the variants and, last,
\* the initramfs.
SumHead ==
  <<"Image", DTB_NAME[target], "boot.img", "dtbo.img", "vbmeta.img",
    "rootfs.img", ROOTFS_SUM_FILE, "version.env">>
SumRamdisk == IF WithRamdisk THEN {"initramfs.cpio.gz"} ELSE {}
HeadUpTo(n) == {SumHead[i] : i \in 1 .. n}

Digests(fs) == [f \in fs |-> out[f]]

WriteSums ==
  /\ Goto("sums", "done")
  /\ sums' = Digests(HeadUpTo(8) \cup Variants \cup SumRamdisk)
  /\ skipped' = inv.skip_kernel
  /\ UNCHANGED <<rev, tgz, kout, out, inv, builds>>

Exit == pc' = "idle" /\ inv' = Defaults

\* sha256sum is killed with the list half written.
SumsCut ==
  /\ pc = "sums" /\ Exit
  /\ \/ \E n \in 0 .. 7 : sums' = Digests(HeadUpTo(n))
     \/ \E S \in SUBSET Variants : sums' = Digests(HeadUpTo(8) \cup S)
  /\ skipped' = inv.skip_kernel
  /\ UNCHANGED <<rev, tgz, kout, out, builds>>

\* The file a command writes.
Target(step) ==
  CASE step = "rootfs_img" -> "rootfs.img"
    [] step = "delivery" -> ROOTFS_SUM_FILE
    [] step = "lift" -> "Image"
    [] step = "lift_dtb" -> DTB_NAME[target]
    [] step = "ramdisk" -> "initramfs.cpio.gz"
    [] step \in {"boot", "footer_boot"} -> "boot.img"
    [] step \in {"dtbo", "footer_dtbo"} -> "dtbo.img"
    [] step = "vbmeta" -> "vbmeta.img"
    [] step = "stamp" -> "version.env"

FileSteps == {"rootfs_img", "delivery", "lift", "lift_dtb", "ramdisk", "boot", "footer_boot",
              "dtbo", "footer_dtbo", "vbmeta", "stamp"}
OtherSteps == {"rootfs", "kernel", "kernel_dtb", "guard", "variants"}

\* A command fails before it writes anything, or a check refuses: the build
\* ends and every file stays as it is.
Fail ==
  /\ pc \in FileSteps \cup OtherSteps
  /\ Exit
  /\ UNCHANGED <<rev, tgz, kout, out, sums, skipped, builds>>

\* A command fails halfway through the file it writes.
FailTorn ==
  /\ pc \in FileSteps \cup {"variants"} /\ Exit
  /\ pc = "ramdisk" => WithRamdisk
  /\ IF pc = "variants"
     THEN \E p \in Variants : Write(p, Torn)
     ELSE Write(Target(pc), Torn)
  /\ UNCHANGED <<rev, tgz, kout, sums, skipped, builds>>

\* The c60 recipe removes each file before it makes it anew, and fails then.
FailRemoved ==
  /\ target = "c60" /\ pc \in {"boot", "dtbo", "vbmeta"} /\ Exit
  /\ Write(Target(pc), None)
  /\ UNCHANGED <<rev, tgz, kout, sums, skipped, builds>>

\* rootfs/build.sh fails after some of the tarballs, kernel/build.sh while it
\* copies one of its two files.
FailCaches ==
  /\ Exit
  /\ \/ /\ pc = "rootfs" /\ NeedRootfs
        /\ \E S \in SUBSET Asked :
             tgz' = [x \in Tarballs |-> IF x \in S THEN Tarball(target, rev) ELSE tgz[x]]
        /\ UNCHANGED kout
     \/ /\ pc = "kernel" /\ inv.skip_kernel = "no"
        /\ kout' = [kout EXCEPT !["Image"] = Torn] /\ UNCHANGED tgz
     \/ /\ pc = "kernel_dtb"
        /\ kout' = [kout EXCEPT ![DTB_NAME[target]] = Torn] /\ UNCHANGED tgz
  /\ UNCHANGED <<rev, out, sums, skipped, builds>>

Idle == pc \in {"idle", "done"} /\ builds = MaxBuilds /\ UNCHANGED vars

Caches == LazyRootfs \/ KernelImage \/ KernelDtb \/ KernelSkipped
Images == RootfsImg \/ GuardRootfs \/ Delivery \/ Lift \/ LiftDtb \/ Ramdisk \/ PackVariants
BootSet == PackBootTc8 \/ PackBootC60 \/ PackDtboTc8 \/ PackDtboC60
  \/ FooterBoot \/ FooterDtbo \/ MakeVbmeta
Ends == Stamp \/ WriteSums \/ SumsCut \/ Fail \/ FailTorn \/ FailRemoved \/ FailCaches
Next == Commit \/ Invoke \/ Caches \/ Images \/ BootSet \/ Ends \/ Idle

Spec == Init /\ [][Next]_vars

-----------------------------------------------------------------------------
(* Properties. A consumer takes the set when `sha256sum -c SHA256SUMS`     *)
(* accepts the directory.                                                  *)

Listed(f) == f \in DOMAIN sums
Accepted == \A f \in DOMAIN sums : out[f] = sums[f]

\* Whatever builds ran, for whichever boards, and wherever they failed: in an
\* accepted directory the AVB descriptors of vbmeta.img are those of the
\* boot.img and the dtbo.img beside it, footers included (targets/*/boot.sh).
VbmetaChains ==
  Accepted /\ Listed("vbmeta.img") =>
    /\ out["vbmeta.img"] = Vbmeta(out["boot.img"], out["dtbo.img"])
    /\ out["boot.img"].footer = "yes" /\ out["dtbo.img"].footer = "yes"

\* In an accepted directory boot.img boots the Image beside it, with the
\* initramfs and the DTB of its own board that the list names; and if the build
\* that wrote the list built its kernel, that Image, the DTB and the stamp are of
\* one revision and of the board that boot.img is for (build.sh:203-211,276-306,
\* targets/*/boot.sh). What it does not promise: a c60 boot.img whose kernel and
\* DTB exceed BOOT_PAD_SIZE holds neither whole (targets/c60/boot.sh:31), and the
\* Image that --skip-kernel takes over may be another board's (build.sh:209).
BootSetOfOneBuild ==
  Accepted /\ Listed("boot.img") =>
    LET boot == out["boot.img"]
        image == out["Image"]
        dtb == out[DTB_NAME[boot.cmdline]]
    IN  /\ boot.cmdline = "tc8" \/ KernelEnd(image) <= BootPadSize => boot.kernel = image
        /\ boot.cmdline = "c60" /\ DtbEnd(image) <= BootPadSize => boot.second = dtb
        /\ Listed("dtbo.img") => out["dtbo.img"].dtb = dtb
        /\ Listed("initramfs.cpio.gz") => boot.ramdisk = out["initramfs.cpio.gz"]
        /\ skipped = "no" =>
             /\ image.board = boot.cmdline /\ dtb.board = boot.cmdline
             /\ image.rev = dtb.rev
             /\ Listed("version.env") => out["version.env"].rev = image.rev

\* In an accepted directory rootfs.img fits the partition of the board that
\* boot.img is for, and the file that is flashed holds that very image: never
\* an oversized image that an earlier, refused build left behind (build.sh:216-272).
RootfsFitsBoard ==
  Accepted /\ Listed("rootfs.img") =>
    /\ out["rootfs.img"].size <= ROOTFS_PARTITION_SIZE[out["boot.img"].cmdline]
    /\ Listed("rootfs.simg") => out["rootfs.simg"] = Sparse(out["rootfs.img"])
    /\ Listed("rootfs.img.zst") => out["rootfs.img.zst"] = Zstd(out["rootfs.img"])

\* A file that a failed build left half written is never accepted, with one
\* exception: --skip-kernel only looks whether kernel/Image and the DTB exist
\* (build.sh:207-211), so a copy cut short by an earlier build goes out.
TornOnlyIfKernelSkipped ==
  /\ Accepted => \A f \in DOMAIN sums : out[f] = Torn => f \in KernelFiles
  /\ pc = "done" /\ inv.skip_kernel = "no" => \A f \in DOMAIN sums : out[f] # Torn

\* A finished build ships a rootfs made for its board: "the rootfs builder gets
\* `--device=<t>` so the right `poly-<device>-profile-<role>` package lands"
\* (BUILDING.md:18-20).
RootfsForBoard == pc = "done" => out["rootfs.img"].from.device = target
=============================================================================
