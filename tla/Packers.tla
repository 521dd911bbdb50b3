------------------------------ MODULE Packers ------------------------------
(***************************************************************************)
(* tools/mkbootimg.py, mkdtboimg.py and mkinitramfs.py: three writers of   *)
(* binary containers, against the readers that find the parts again by     *)
(* arithmetic on the header fields (U-Boot for boot.img and dtbo.img, the  *)
(* kernel for the cpio archive). A file is the list of the parts written,  *)
(* each with its offset and length, and an inner file stands for itself.   *)
(***************************************************************************)
EXTENDS Integers, Sequences, SequencesExt

CONSTANTS
  Pages,      \* page sizes given to mkbootimg.py
  Sizes,      \* sizes of the inner files
  Cmdlines,   \* lengths of the kernel command line
  Magics      \* what the first bytes of an input file say it is

PagesAssumption == Pages \subseteq Nat \ {0}
SizesAssumption == Sizes \subseteq Nat

VARIABLES
  job,    \* the tool and its inputs
  todo,   \* parts still to be written: name, length, padding
  out,    \* parts written: name, offset, length
  size,   \* bytes written
  done    \* "no", "ok", "refused"

packVars == <<job, todo, out, size, done>>

-----------------------------------------------------------------------------
Align(n, a) == ((n + a - 1) \div a) * a
Part(name, len, pad) == [name |-> name, len |-> len, pad |-> pad]

(* mkbootimg.py *)

HDR == 8 + 4 * 10 + 16 + 512 + 32 + 1024
CMDLINE_MAX == 512 + 1024

\* The header and the kernel are always written, the others unless empty.
BootParts(j) ==
  << Part("header", HDR, j.page), Part("kernel", j.kernel, j.page) >>
    \o (IF j.ramdisk = 0 THEN <<>> ELSE << Part("ramdisk", j.ramdisk, j.page) >>)
    \o (IF j.second = 0 THEN <<>> ELSE << Part("second", j.second, j.page) >>)

(* mkdtboimg.py *)

HEADER_SIZE == 32
ENTRY_SIZE == 32
DT_OFFSET == HEADER_SIZE + ENTRY_SIZE

DtboParts(j) ==
  << Part("header", HEADER_SIZE, 1), Part("entry", ENTRY_SIZE, 1), Part("fdt", j.dtb, 1) >>

(* mkinitramfs.py *)

CPIO_HDR == 110

\* Mutant: the name is padded for itself, not at its place in the archive.
Entry_relative(name, namesize, filesize) ==
  << Part("header", CPIO_HDR, 1), Part("name", Align(namesize, 4), 1), Part(name, filesize, 4) >>

\* _entry: header, name with its NUL, padding, data, padding.
Entry(name, namesize, filesize) ==
  << Part("header", CPIO_HDR, 1), Part("name", namesize, 4), Part(name, filesize, 4) >>

\* Nine directories, two device nodes, the two files, the trailer. The numbers
\* are the lengths of the names with their NULs.
Entries(j) ==
  [n \in 1 .. 9 |-> Entry("dir", <<4, 5, 4, 4, 4, 6, 3, 8, 8>>[n], 0)]
    \o << Entry("console", 12, 0), Entry("null", 9, 0), Entry("busybox", 12, j.busybox),
          Entry("init", 5, j.init), Entry("trailer", 11, 0) >>

\* One after the other, and zeros up to 512.
CpioParts(j) ==
  [n \in 1 .. 3 * 14 + 1 |->
     IF n = 3 * 14 + 1 THEN Part("tail", 0, 512) ELSE Entries(j)[(n + 2) \div 3][((n - 1) % 3) + 1]]

-----------------------------------------------------------------------------
Jobs ==
  [tool : {"boot"}, page : Pages, kernel : Sizes, ramdisk : Sizes, second : Sizes, cmdline : Cmdlines]
    \cup [tool : {"dtbo"}, dtb : Sizes, magic : Magics]
    \cup [tool : {"cpio"}, busybox : Sizes, init : Sizes, magic : Magics, script : BOOLEAN]

\* The checks each main() makes before it writes anything.
Refuses(j) ==
  CASE j.tool = "boot" -> j.cmdline > CMDLINE_MAX
    [] j.tool = "dtbo" -> j.magic # "fdt"
    [] j.tool = "cpio" -> ~j.script \/ j.magic # "elf-aarch64"

Parts(j) ==
  CASE j.tool = "boot" -> BootParts(j)
    [] j.tool = "dtbo" -> DtboParts(j)
    [] j.tool = "cpio" -> CpioParts(j)

PackInit ==
  /\ job \in Jobs
  /\ todo = Parts(job)
  /\ out = <<>> /\ size = 0
  /\ done = "no"

Refuse ==
  /\ done = "no" /\ Refuses(job)
  /\ done' = "refused"
  /\ UNCHANGED <<job, todo, out, size>>

\* The next part, and zeros up to a multiple of its padding.
AppendPart ==
  /\ done = "no" /\ ~Refuses(job) /\ todo # <<>>
  /\ out' = Append(out, [name |-> Head(todo).name, off |-> size, len |-> Head(todo).len])
  /\ size' = Align(size + Head(todo).len, Head(todo).pad)
  /\ todo' = Tail(todo)
  /\ UNCHANGED <<job, done>>

Finish ==
  /\ done = "no" /\ ~Refuses(job) /\ todo = <<>>
  /\ done' = "ok"
  /\ UNCHANGED <<job, todo, out, size>>

PackDone == done # "no" /\ UNCHANGED packVars

PackNext == Refuse \/ AppendPart \/ Finish \/ PackDone

PackSpec == PackInit /\ [][PackNext]_packVars

-----------------------------------------------------------------------------
(* External: the readers. *)

\* U-Boot's android_image: each area starts on the page behind the last one.
BootReader(j) ==
  LET ramdisk == j.page + Align(j.kernel, j.page)
      second == ramdisk + Align(j.ramdisk, j.page)
  IN  {[name |-> "kernel", off |-> j.page, len |-> j.kernel]}
        \cup (IF j.ramdisk = 0 THEN {} ELSE {[name |-> "ramdisk", off |-> ramdisk, len |-> j.ramdisk]})
        \cup (IF j.second = 0 THEN {} ELSE {[name |-> "second", off |-> second, len |-> j.second]})

\* libdtbo: dt_offset and dt_size of the only entry.
DtboReader(j) == {[name |-> "fdt", off |-> DT_OFFSET, len |-> j.dtb]}

\* The kernel's cpio reader: from a header at h it finds name, data and the
\* next header, each on a multiple of 4 counted from the start.
CpioData(h, namesize) == Align(h + CPIO_HDR + namesize, 4)
CpioNext(h, namesize, filesize) == Align(CpioData(h, namesize) + filesize, 4)

-----------------------------------------------------------------------------
(* Properties. *)

Written(names) == {p \in ToSet(out) : p.name \in names}

\* The areas of a boot.img are where U-Boot looks for them, for all sizes, with
\* or without ramdisk and second area, as long as the header fits in a page
\* (mkbootimg.py 74-78).
BootAreasFound ==
  done = "ok" /\ job.tool = "boot" /\ job.page >= HDR =>
    Written({"kernel", "ramdisk", "second"}) = BootReader(job)

\* The device tree of a dtbo.img is where its entry says, and the sizes in the
\* header add up to the file (mkdtboimg.py 28-54).
DtboFound ==
  done = "ok" /\ job.tool = "dtbo" =>
    Written({"fdt"}) = DtboReader(job) /\ size = DT_OFFSET + job.dtb

\* Every entry of the initramfs leads the kernel to its data and to the next
\* entry, whatever the sizes of init and busybox leave over a multiple of four
\* (mkinitramfs.py 33-58).
CpioWalk ==
  done = "ok" /\ job.tool = "cpio" =>
    \A n \in {m \in DOMAIN out : out[m].name = "header"} :
      /\ out[n + 2].off = CpioData(out[n].off, out[n + 1].len)
      /\ out[n + 2].name # "trailer" =>
           out[n + 3].off = CpioNext(out[n].off, out[n + 1].len, out[n + 2].len)

PartsFound == BootAreasFound /\ DtboFound /\ CpioWalk
=============================================================================
