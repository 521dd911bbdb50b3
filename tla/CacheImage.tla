----------------------------- MODULE CacheImage -----------------------------
(***************************************************************************)
(* tools/mkconfigblob.py lays out a cache image: a config blob at offset 0 *)
(* and, with --bootloader, a header sector and a stage-2 image from 1 MiB  *)
(* on. fastboot (external) writes the image over whatever the partition    *)
(* holds, and the power may go at any cell; the two readers on the panel   *)
(* (external) take what their magic, length and digest vouch for. A cell   *)
(* is 64 bytes, the size of a header; a digest is the data it is of.       *)
(***************************************************************************)
EXTENDS Naturals, Sequences, SequencesExt

CONSTANTS
  BL_HDR_OFF,  \* cells before the bootloader header (1 MiB)
  SECTOR,      \* cells in a sector (512 bytes)
  CfgLens,     \* bound: lengths of a config payload
  Stage2Lens,  \* bound: lengths of a stage-2 image
  MaxPushes    \* bound: images built

OffsetAssumption == BL_HDR_OFF \in Nat \ {0} /\ SECTOR \in Nat \ {0}
LengthAssumption == CfgLens \subseteq Nat \ {0} /\ Stage2Lens \subseteq Nat

VARIABLES
  img,     \* the file on the host, a sequence of cells
  asked,   \* what the file was asked to carry, and whether it was written to its end
  pos,     \* cells of it that are flashed
  cache,   \* cells of the cache partition
  flashed, \* history: what the last push that wrote anything was asked to carry
  pushes   \* images built

cacheVars == <<img, asked, pos, cache, flashed, pushes>>

BL_IMG_OFF == BL_HDR_OFF + SECTOR
Zero == [kind |-> "zero"]
None == <<>>

\* The n-th image's payload and stage-2 image: cells that no other image has.
Data(kind, n, len) == [c \in 1 .. len |-> [kind |-> kind, of |-> n, at |-> c]]

Header(magic, data) == [kind |-> magic, len |-> Len(data), sha |-> data]

\* buf[off:off + len(data)] = data, which makes buf longer where it must.
Assign(buf, off, data) ==
  [c \in 1 .. (IF off + Len(data) > Len(buf) THEN off + Len(data) ELSE Len(buf)) |->
     IF c > off /\ c <= off + Len(data) THEN data[c - off] ELSE buf[c]]

\* cfg_blob.
Blob(payload) == <<Header("TC8CFGv1", payload)>> \o payload

\* Mutant: the image follows the header without the rest of the sector.
Composite_packed(payload, image) ==
  LET buf == [c \in 1 .. BL_IMG_OFF + Len(image) |-> Zero]
      hdr == <<Header("TC8BOOT1", image)>>
  IN  Assign(Assign(Assign(buf, 0, Blob(payload)), BL_HDR_OFF, hdr), BL_HDR_OFF + 1, image)

Composite(payload, image) ==
  LET buf == [c \in 1 .. BL_IMG_OFF + Len(image) |-> Zero]
      hdr == <<Header("TC8BOOT1", image)>>
  IN  Assign(Assign(Assign(buf, 0, Blob(payload)), BL_HDR_OFF, hdr), BL_IMG_OFF, image)

\* main: the options, the config blob alone or the composite.
Opts == {"config only", "--bootloader"}
File(opt, payload, image) ==
  IF opt = "--bootloader" THEN Composite(payload, image) ELSE Blob(payload)

Nothing == [opt |-> "config only", cfg |-> None, boot |-> None, whole |-> FALSE]

\* A partition that held Android's /cache: no magic anywhere.
CacheInit ==
  /\ img = <<>> /\ asked = Nothing /\ pos = 0
  /\ cache = <<>>
  /\ flashed = Nothing /\ pushes = 0

-----------------------------------------------------------------------------
\* The stage-2 image may be an empty file. A write that fails leaves the file cut.
Build ==
  /\ pushes < MaxPushes /\ pushes' = pushes + 1
  /\ \E opt \in Opts, l \in CfgLens, m \in Stage2Lens :
       LET payload == Data("cfg", pushes', l)
           image == IF opt = "--bootloader" THEN Data("boot", pushes', m) ELSE None
           file == File(opt, payload, image)
       IN  \E cut \in 0 .. Len(file) :
             /\ img' = SubSeq(file, 1, cut)
             /\ asked' = [opt |-> opt, cfg |-> payload, boot |-> image, whole |-> cut = Len(file)]
  /\ pos' = 0
  /\ UNCHANGED <<cache, flashed>>

(* External: fastboot and the readers. *)

\* The next cell reaches the partition. Cells that were never written hold no magic.
FlashCell ==
  /\ pos < Len(img)
  /\ pos' = pos + 1
  /\ cache' = Assign([c \in 1 .. (IF pos > Len(cache) THEN pos ELSE Len(cache)) |->
                        IF c <= Len(cache) THEN cache[c] ELSE Zero], pos, <<img[pos + 1]>>)
  /\ flashed' = asked
  /\ UNCHANGED <<img, asked, pushes>>

\* The power went, or the operator flashes the file once more.
Retry ==
  /\ pos > 0 /\ pos' = 0
  /\ UNCHANGED <<img, asked, cache, flashed, pushes>>

\* The data behind the header at off that its reader accepts.
Accepted(magic, off, data) ==
  IF /\ Len(cache) > off /\ cache[off + 1].kind = magic
     /\ Len(cache) >= data + cache[off + 1].len
     /\ SubSeq(cache, data + 1, data + cache[off + 1].len) = cache[off + 1].sha
  THEN cache[off + 1].sha ELSE None
Config == Accepted("TC8CFGv1", 0, 1)
Stage2 == Accepted("TC8BOOT1", BL_HDR_OFF, BL_IMG_OFF)

\* The panel boots and applies the config; its header is zeroed at the end.
Consume ==
  /\ Config # None
  /\ cache' = Assign(cache, 0, <<Zero>>)
  /\ pos' = IF pos = Len(img) THEN pos ELSE 0
  /\ UNCHANGED <<img, asked, flashed, pushes>>

\* Enough pushes.
CacheDone == pushes = MaxPushes /\ UNCHANGED cacheVars

CacheNext == Build \/ FlashCell \/ Retry \/ Consume \/ CacheDone

CacheSpec == CacheInit /\ [][CacheNext]_cacheVars

-----------------------------------------------------------------------------
(* Properties. *)

\* The last push was written to its end on the host and on the panel.
Landed == flashed = asked /\ asked.whole /\ pos = Len(img) /\ pos > 0

\* A push that landed is understood, whatever older and longer images or cut
\* pushes left behind (lines 28-58): the updater finds the bootloader it carries,
\* and the applier the config, until it is consumed. A config that runs into the
\* bootloader header (lines 53-55) is refused whole, never applied in part, and
\* the bootloader behind it is understood all the same.
PushUnderstood ==
  Landed =>
    /\ \/ Config = IF asked.opt = "--bootloader" /\ Len(asked.cfg) >= BL_HDR_OFF THEN None ELSE asked.cfg
       \/ cache[1] = Zero
    /\ asked.opt = "--bootloader" => Stage2 = asked.boot

\* "Config-only push? Omit everything from 1 MiB on (just the config blob). The
\* bootloader-updater no-ops when there's no TC8BOOT1 magic" (CONFIG-PARTITION.md
\* 47-48): after a push without a bootloader the updater finds none. The file
\* ends before 1 MiB (lines 45-47), and so does what fastboot overwrites.
ConfigOnlyNoOps == Landed /\ asked.opt = "config only" => Stage2 = None

\* What holds instead: the halves are separate. What the updater finds changes
\* only with a push that carries a bootloader, or a config that runs over the
\* header, and the applier does not change it when it consumes the config.
UpdateKept ==
  [][Stage2' # Stage2 => asked.opt = "--bootloader" \/ Len(asked.cfg) >= BL_HDR_OFF]_cacheVars
=============================================================================
