----------------------------- MODULE ImageProofs -----------------------------
(***************************************************************************)
(* The cache image, for offsets, payloads and stage-2 images of any size   *)
(* and any number of pushes: a push that landed is understood, and nothing *)
(* but a push that carries a bootloader changes what the updater finds.    *)
(*                                                                         *)
(* Neither needs a history of the pushes: each cell the readers look at is *)
(* vouched for by a header of the same push, and the invariant says that   *)
(* the cells before the write position are those of the file, but for a    *)
(* config header that was consumed.                                        *)
(*                                                                         *)
(* And the three packers, for every size of what they pack: their readers  *)
(* find every part.                                                        *)
(***************************************************************************)
EXTENDS CacheImage, Packers, TLAPS

Datum == [kind : {"cfg", "boot"}, of : Nat, at : Nat]
Head64 == [kind : {"TC8CFGv1", "TC8BOOT1"}, len : Nat, sha : Seq(Datum)]
Cell == {Zero} \cup Datum \cup Head64

-----------------------------------------------------------------------------
(* Layout. *)

AssignOk(buf, off, data, r) ==
  /\ r \in Seq(Cell)
  /\ Len(r) = IF off + Len(data) > Len(buf) THEN off + Len(data) ELSE Len(buf)
  /\ \A c \in 1 .. Len(r) : r[c] = IF c > off /\ c <= off + Len(data) THEN data[c - off] ELSE buf[c]

LEMMA AssignIs ==
  ASSUME NEW buf \in Seq(Cell), NEW data \in Seq(Cell), NEW off \in 0 .. Len(buf)
  PROVE  AssignOk(buf, off, data, Assign(buf, off, data))
<1>1. Len(buf) \in Nat /\ Len(data) \in Nat OBVIOUS
<1>2. PICK m \in Nat : m = IF off + Len(data) > Len(buf) THEN off + Len(data) ELSE Len(buf) BY <1>1
<1> DEFINE r == [c \in 1 .. m |-> IF c > off /\ c <= off + Len(data) THEN data[c - off] ELSE buf[c]]
<1>3. Assign(buf, off, data) = r BY <1>2 DEF Assign
<1>4. ASSUME NEW c \in 1 .. m PROVE r[c] \in Cell
  <2>1. CASE c > off /\ c <= off + Len(data)
    <3>1. c - off \in 1 .. Len(data) BY <1>1, <2>1
    <3>2. QED BY <2>1, <3>1
  <2>2. CASE ~(c > off /\ c <= off + Len(data))
    <3>1. c \in 1 .. Len(buf) BY <1>1, <1>2, <2>2
    <3>2. QED BY <2>2, <3>1
  <2>3. QED BY <2>1, <2>2
<1>5. r \in Seq(Cell) /\ Len(r) = m
  <2>1. r \in [1 .. m -> Cell] BY <1>4
  <2>2. QED BY <2>1
<1>6. QED BY <1>2, <1>3, <1>5 DEF AssignOk

LEMMA HeaderIs ==
  ASSUME NEW magic \in {"TC8CFGv1", "TC8BOOT1"}, NEW data \in Seq(Datum)
  PROVE  /\ Header(magic, data) \in Cell
         /\ Header(magic, data).kind = magic /\ Header(magic, data).len = Len(data) /\ Header(magic, data).sha = data
<1>1. Len(data) \in Nat OBVIOUS
<1>2. Header(magic, data) \in Head64 BY <1>1 DEF Header, Head64
<1>3. QED BY <1>2 DEF Header, Cell

BlobOk(payload, b) ==
  /\ b \in Seq(Cell) /\ Len(b) = 1 + Len(payload)
  /\ b[1] = Header("TC8CFGv1", payload) /\ \A c \in 1 .. Len(payload) : b[c + 1] = payload[c]
LEMMA BlobIs == ASSUME NEW payload \in Seq(Datum) PROVE BlobOk(payload, Blob(payload))
<1>1. PICK h \in Cell : h = Header("TC8CFGv1", payload) BY HeaderIs
<1>2. payload \in Seq(Cell) BY DEF Cell
<1>3. PICK l \in Nat : l = Len(payload) OBVIOUS
<1>4. PICK b : b = <<h>> \o payload OBVIOUS
<1>5. <<h>> \in Seq(Cell) /\ Len(<<h>>) = 1 /\ <<h>>[1] = h OBVIOUS
<1>6. b \in Seq(Cell) /\ Len(b) = 1 + l BY <1>2, <1>3, <1>4, <1>5
<1>7. b[1] = h /\ \A c \in 1 .. l : b[c + 1] = payload[c]
  <2>1. \A c \in 1 .. 1 + l : b[c] = IF c <= 1 THEN <<h>>[c] ELSE payload[c - 1] BY <1>2, <1>3, <1>4, <1>5
  <2>2. \A c \in 1 .. l : c + 1 \in 1 .. 1 + l /\ ~(c + 1 <= 1) /\ (c + 1) - 1 = c OBVIOUS
  <2>3. QED BY <1>5, <2>1, <2>2
<1>8. QED BY <1>1, <1>3, <1>4, <1>6, <1>7 DEF BlobOk, Blob

\* Where the parts of a file are. Only a config that reaches the bootloader header is not whole.
FileOk(opt, payload, image, f) ==
  /\ f \in Seq(Cell) /\ 1 + Len(payload) <= Len(f)
  /\ f[1] = Header("TC8CFGv1", payload)
  /\ opt # "--bootloader" => Len(f) = 1 + Len(payload)
  /\ opt # "--bootloader" \/ Len(payload) < BL_HDR_OFF => \A c \in 1 .. Len(payload) : f[c + 1] = payload[c]
  /\ opt = "--bootloader" =>
       /\ BL_IMG_OFF + Len(image) <= Len(f)
       /\ f[BL_HDR_OFF + 1] = Header("TC8BOOT1", image)
       /\ \A c \in 1 .. Len(image) : f[BL_IMG_OFF + c] = image[c]

LEMMA FileIs ==
  ASSUME OffsetAssumption, NEW opt \in Opts, NEW payload \in Seq(Datum), NEW image \in Seq(Datum)
  PROVE  FileOk(opt, payload, image, File(opt, payload, image))
<1>1. BL_HDR_OFF \in Nat \ {0} /\ SECTOR \in Nat \ {0} /\ BL_IMG_OFF = BL_HDR_OFF + SECTOR
  BY DEF OffsetAssumption, BL_IMG_OFF
<1>2. PICK l, m \in Nat : l = Len(payload) /\ m = Len(image) OBVIOUS
<1>3. PICK b : b = Blob(payload) OBVIOUS
<1>4. /\ b \in Seq(Cell) /\ Len(b) = 1 + l
      /\ b[1] = Header("TC8CFGv1", payload) /\ \A c \in 1 .. l : b[c + 1] = payload[c]
  BY <1>2, <1>3, BlobIs DEF BlobOk
<1>5. CASE opt # "--bootloader" BY <1>2, <1>3, <1>4, <1>5 DEF FileOk, File
<1>6. CASE opt = "--bootloader"
  <2> DEFINE N == BL_IMG_OFF + m
             b0 == [c \in 1 .. N |-> Zero]
  <2>1. N \in Nat BY <1>1
  <2>2. b0 \in Seq(Cell) /\ Len(b0) = N
    <3>1. b0 \in [1 .. N -> Cell] BY DEF Cell
    <3>2. QED BY <2>1, <3>1
  <2>3. PICK h \in Cell : h = Header("TC8BOOT1", image) BY HeaderIs
  <2>4. <<h>> \in Seq(Cell) /\ Len(<<h>>) = 1 /\ <<h>>[1] = h OBVIOUS
  <2>5. image \in Seq(Cell) BY DEF Cell
  <2>6. PICK b1 : b1 = Assign(b0, 0, b) OBVIOUS
  <2>7. AssignOk(b0, 0, b, b1)
    <3>1. 0 \in 0 .. Len(b0) BY <2>1, <2>2
    <3>2. QED BY <1>4, <2>2, <2>6, <3>1, AssignIs
  <2>8. PICK b2 : b2 = Assign(b1, BL_HDR_OFF, <<h>>) OBVIOUS
  <2>9. b1 \in Seq(Cell) /\ Len(b1) = (IF 1 + l > N THEN 1 + l ELSE N) BY <1>2, <1>4, <2>1, <2>2, <2>7 DEF AssignOk
  <2>10. AssignOk(b1, BL_HDR_OFF, <<h>>, b2)
    <3>1. BL_HDR_OFF \in 0 .. Len(b1) BY <1>1, <1>2, <2>1, <2>9
    <3>2. QED BY <2>4, <2>8, <2>9, <3>1, AssignIs
  <2>11. b2 \in Seq(Cell) /\ Len(b2) = Len(b1)
    <3>1. ~(BL_HDR_OFF + 1 > Len(b1)) BY <1>1, <1>2, <2>1, <2>9
    <3>2. QED BY <2>4, <2>10, <3>1 DEF AssignOk
  <2>12. PICK f : f = Assign(b2, BL_IMG_OFF, image) OBVIOUS
  <2>13. AssignOk(b2, BL_IMG_OFF, image, f)
    <3>1. BL_IMG_OFF \in 0 .. Len(b2) BY <1>1, <1>2, <2>1, <2>9, <2>11
    <3>2. QED BY <2>5, <2>11, <2>12, <3>1, AssignIs
  <2>14. File(opt, payload, image) = f BY <1>2, <1>3, <1>6, <2>3, <2>6, <2>8, <2>12 DEF File, Composite
  <2>15. PICK n \in Nat : n = Len(b1) /\ 1 + l <= n /\ N <= n BY <1>2, <2>1, <2>9
  <2>16. f \in Seq(Cell) /\ Len(f) = n /\ Len(b2) = n
    <3>1. ~(BL_IMG_OFF + m > n) BY <1>1, <1>2, <2>15
    <3>2. QED BY <1>2, <2>11, <2>13, <2>15, <3>1 DEF AssignOk
  <2>17. ASSUME NEW c \in 1 .. 1 + l, c <= BL_HDR_OFF PROVE f[c] = b[c]
    <3>1. c \in 1 .. n /\ c > 0 /\ c <= 0 + Len(b) /\ ~(c > BL_HDR_OFF) /\ ~(c > BL_IMG_OFF) /\ c - 0 = c
      BY <1>1, <1>2, <1>4, <2>15, <2>17
    <3>2. b1[c] = b[c] BY <2>7, <2>15, <3>1 DEF AssignOk
    <3>3. b2[c] = b1[c] BY <2>10, <2>16, <3>1 DEF AssignOk
    <3>4. f[c] = b2[c] BY <2>13, <2>16, <3>1 DEF AssignOk
    <3>5. QED BY <3>2, <3>3, <3>4
  <2>18. f[BL_HDR_OFF + 1] = h
    <3>1. PICK c : c = BL_HDR_OFF + 1 OBVIOUS
    <3>2. c \in 1 .. n /\ c > BL_HDR_OFF /\ c <= BL_HDR_OFF + Len(<<h>>) /\ c - BL_HDR_OFF = 1 /\ ~(c > BL_IMG_OFF)
      BY <1>1, <1>2, <2>4, <2>15, <3>1
    <3>3. b2[c] = h BY <2>4, <2>10, <2>16, <3>2 DEF AssignOk
    <3>4. f[c] = b2[c] BY <2>13, <2>16, <3>2 DEF AssignOk
    <3>5. QED BY <3>1, <3>3, <3>4
  <2>19. ASSUME NEW c \in 1 .. m PROVE f[BL_IMG_OFF + c] = image[c]
    <3>1. PICK x : x = BL_IMG_OFF + c OBVIOUS
    <3>2. x \in 1 .. n /\ x > BL_IMG_OFF /\ x <= BL_IMG_OFF + Len(image) /\ x - BL_IMG_OFF = c
      BY <1>1, <1>2, <2>15, <3>1
    <3>3. QED BY <2>13, <2>16, <3>1, <3>2 DEF AssignOk
  <2>20. f[1] = Header("TC8CFGv1", payload)
    <3>1. 1 \in 1 .. 1 + l /\ 1 <= BL_HDR_OFF BY <1>1
    <3>2. QED BY <1>4, <2>17, <3>1
  <2>21. ASSUME l < BL_HDR_OFF, NEW c \in 1 .. l PROVE f[c + 1] = payload[c]
    <3>1. c + 1 \in 1 .. 1 + l /\ c + 1 <= BL_HDR_OFF BY <1>1, <2>21
    <3>2. QED BY <1>4, <2>17, <3>1
  <2>22. 1 + l <= Len(f) /\ BL_IMG_OFF + m <= Len(f) BY <2>15, <2>16
  <2>23. FileOk(opt, payload, image, f) BY <1>2, <1>6, <2>3, <2>16, <2>18, <2>19, <2>20, <2>21, <2>22 DEF FileOk
  <2>24. QED BY <2>14, <2>23
<1>7. QED BY <1>5, <1>6

-----------------------------------------------------------------------------
(* The invariant. *)

Types ==
  /\ img \in Seq(Cell) /\ cache \in Seq(Cell)
  /\ asked \in [opt : Opts, cfg : Seq(Datum), boot : Seq(Datum), whole : BOOLEAN]
  /\ pushes \in Nat
  /\ pos \in Nat /\ pos <= Len(img) /\ pos <= Len(cache)

\* The file is what it was asked to be, or the beginning of it.
ImgInv ==
  LET f == File(asked.opt, asked.cfg, asked.boot) IN
    /\ Len(img) <= Len(f) /\ (asked.whole => Len(img) = Len(f))
    /\ \A c \in 1 .. Len(img) : img[c] = f[c]

\* What is flashed of it is on the partition, but for a config that was applied.
CacheInv == \A c \in 1 .. pos : cache[c] = img[c] \/ (c = 1 /\ cache[1] = Zero)

CacheIInv == Types /\ ImgInv /\ CacheInv

\* Flashing a cell writes that cell and no other.
FlashOk(c, r) ==
  /\ r \in Seq(Cell) /\ r[pos + 1] = img[pos + 1]
  /\ Len(r) = IF pos + 1 > Len(c) THEN pos + 1 ELSE Len(c)
  /\ \A x \in 1 .. Len(c) : x # pos + 1 => r[x] = c[x]
LEMMA FlashIs == ASSUME Types, FlashCell PROVE FlashOk(cache, cache')
<1>1. PICK l \in Nat : l = Len(cache) BY DEF Types
<1>2. pos \in Nat /\ pos <= l /\ pos < Len(img) BY <1>1 DEF Types, FlashCell
<1>3. pos + 1 \in 1 .. Len(img) BY <1>2 DEF Types
<1>4. PICK d : d = img[pos + 1] OBVIOUS
<1>5. d \in Cell BY <1>3, <1>4 DEF Types
<1>6. <<d>> \in Seq(Cell) /\ Len(<<d>>) = 1 /\ <<d>>[1] = d BY <1>5
<1>7. [c \in 1 .. (IF pos > Len(cache) THEN pos ELSE Len(cache)) |-> IF c <= Len(cache) THEN cache[c] ELSE Zero] = cache
  <2>1. (IF pos > Len(cache) THEN pos ELSE Len(cache)) = l BY <1>1, <1>2
  <2>2. \A c \in 1 .. l : c <= Len(cache) BY <1>1
  <2>3. [c \in 1 .. l |-> cache[c]] = cache BY <1>1 DEF Types
  <2>4. [c \in 1 .. l |-> IF c <= Len(cache) THEN cache[c] ELSE Zero] = [c \in 1 .. l |-> cache[c]] BY <2>2
  <2>5. QED BY <2>1, <2>3, <2>4
<1>8. cache' = Assign(cache, pos, <<d>>) BY <1>4, <1>7 DEF FlashCell
<1>9. PICK r : r = cache' OBVIOUS
<1>10. AssignOk(cache, pos, <<d>>, r)
  <2>1. pos \in 0 .. Len(cache) /\ cache \in Seq(Cell) BY <1>1, <1>2 DEF Types
  <2>2. QED BY <1>6, <1>8, <1>9, <2>1, AssignIs
<1>11. r \in Seq(Cell) /\ Len(r) = IF pos + 1 > Len(cache) THEN pos + 1 ELSE Len(cache)
  BY <1>6, <1>10 DEF AssignOk
<1>12. r[pos + 1] = d
  <2>1. pos + 1 \in 1 .. Len(r) /\ pos + 1 > pos /\ pos + 1 <= pos + Len(<<d>>) /\ (pos + 1) - pos = 1
    BY <1>1, <1>2, <1>6, <1>11
  <2>2. QED BY <1>6, <1>10, <2>1 DEF AssignOk
<1>13. ASSUME NEW x \in 1 .. Len(cache), x # pos + 1 PROVE r[x] = cache[x]
  <2>1. x \in 1 .. Len(r) /\ ~(x > pos /\ x <= pos + Len(<<d>>)) BY <1>1, <1>2, <1>6, <1>11, <1>13
  <2>2. QED BY <1>10, <2>1 DEF AssignOk
<1>14. QED BY <1>4, <1>9, <1>11, <1>12, <1>13 DEF FlashOk

\* Consuming the config zeroes its header and nothing else.
ConsumeOk(c, r) ==
  r \in Seq(Cell) /\ Len(r) = Len(c) /\ Len(c) > 0 /\ r[1] = Zero /\ \A x \in 2 .. Len(c) : r[x] = c[x]
LEMMA ConsumeIs == ASSUME Types, Consume PROVE ConsumeOk(cache, cache')
<1>1. Len(cache) > 0 BY DEF Consume, Config, Accepted
<1>2. PICK l \in Nat : l = Len(cache) /\ l > 0 BY <1>1 DEF Types
<1>3. Zero \in Cell BY DEF Cell
<1>4. <<Zero>> \in Seq(Cell) /\ Len(<<Zero>>) = 1 /\ <<Zero>>[1] = Zero BY <1>3
<1>5. PICK r : r = cache' OBVIOUS
<1>6. AssignOk(cache, 0, <<Zero>>, r)
  <2>1. 0 \in 0 .. Len(cache) /\ cache \in Seq(Cell) BY <1>2 DEF Types
  <2>2. QED BY <1>4, <1>5, <2>1, AssignIs DEF Consume
<1>7. r \in Seq(Cell) /\ Len(r) = l BY <1>2, <1>4, <1>6 DEF AssignOk
<1>8. r[1] = Zero
  <2>1. 1 \in 1 .. l /\ 1 > 0 /\ 1 <= 0 + Len(<<Zero>>) /\ 1 - 0 = 1 BY <1>2, <1>4
  <2>2. QED BY <1>4, <1>6, <1>7, <2>1 DEF AssignOk
<1>9. ASSUME NEW x \in 2 .. l PROVE r[x] = cache[x]
  <2>1. x \in 1 .. l /\ ~(x > 0 /\ x <= 0 + Len(<<Zero>>)) BY <1>2, <1>4
  <2>2. QED BY <1>6, <1>7, <2>1 DEF AssignOk
<1>10. QED BY <1>2, <1>5, <1>7, <1>8, <1>9 DEF ConsumeOk

LEMMA DataIs ==
  ASSUME NEW kind \in {"cfg", "boot"}, NEW n \in Nat, NEW len \in Nat
  PROVE  Data(kind, n, len) \in Seq(Datum) /\ Len(Data(kind, n, len)) = len
<1>1. Data(kind, n, len) \in [1 .. len -> Datum] BY DEF Data, Datum
<1>2. QED BY <1>1 DEF Data

LEMMA InitCache == ASSUME OffsetAssumption PROVE CacheInit => CacheIInv
<1>1. SUFFICES ASSUME CacheInit PROVE CacheIInv OBVIOUS
<1>2. img = <<>> /\ cache = <<>> /\ pos = 0 /\ pushes = 0 BY <1>1 DEF CacheInit
<1>3. /\ asked = [opt |-> "config only", cfg |-> <<>>, boot |-> <<>>, whole |-> FALSE]
      /\ ~asked.whole /\ asked.cfg = <<>> /\ asked.boot = <<>>
  BY <1>1 DEF CacheInit, Nothing, None
<1>4. Types
  <2>1. "config only" \in Opts BY DEF Opts
  <2>2. <<>> \in Seq(Datum) OBVIOUS
  <2>3. asked \in [opt : Opts, cfg : Seq(Datum), boot : Seq(Datum), whole : BOOLEAN] BY <1>3, <2>1, <2>2
  <2>4. img \in Seq(Cell) /\ cache \in Seq(Cell) /\ Len(img) = 0 /\ Len(cache) = 0 BY <1>2
  <2>5. pushes \in Nat /\ pos \in Nat /\ pos <= Len(img) /\ pos <= Len(cache) BY <1>2, <2>4
  <2>6. QED BY <2>3, <2>4, <2>5 DEF Types
<1>5. PICK f : f = File(asked.opt, asked.cfg, asked.boot) OBVIOUS
<1>6. f \in Seq(Cell)
  <2>1. asked.opt \in Opts /\ asked.cfg \in Seq(Datum) /\ asked.boot \in Seq(Datum) BY <1>4 DEF Types
  <2>2. FileOk(asked.opt, asked.cfg, asked.boot, f) BY <1>5, <2>1, FileIs
  <2>3. QED BY <2>2 DEF FileOk
<1>7. ImgInv
  <2>1. Len(img) = 0 BY <1>2
  <2>2. Len(f) \in Nat BY <1>6
  <2>3. Len(img) <= Len(f) /\ \A c \in 1 .. Len(img) : img[c] = f[c] BY <2>1, <2>2
  <2>4. QED BY <1>3, <1>5, <2>3 DEF ImgInv
<1>8. CacheInv BY <1>2 DEF CacheInv
<1>9. QED BY <1>4, <1>7, <1>8 DEF CacheIInv

LEMMA BuildKeeps == ASSUME OffsetAssumption, LengthAssumption, CacheIInv, Build PROVE CacheIInv'
<1>1. PICK opt \in Opts, l \in CfgLens, m \in Stage2Lens :
        LET payload == Data("cfg", pushes', l)
            image == IF opt = "--bootloader" THEN Data("boot", pushes', m) ELSE None
            file == File(opt, payload, image)
        IN  \E cut \in 0 .. Len(file) :
              /\ img' = SubSeq(file, 1, cut)
              /\ asked' = [opt |-> opt, cfg |-> payload, boot |-> image, whole |-> cut = Len(file)]
  BY DEF Build
<1>2. PICK payload, image : /\ payload = Data("cfg", pushes', l)
                            /\ image = IF opt = "--bootloader" THEN Data("boot", pushes', m) ELSE None
  OBVIOUS
<1>3. l \in Nat /\ m \in Nat /\ pushes' \in Nat BY DEF LengthAssumption, CacheIInv, Types, Build
<1>4. payload \in Seq(Datum) /\ image \in Seq(Datum)
  <2>1. None \in Seq(Datum) BY DEF None
  <2>2. QED BY <1>2, <1>3, <2>1, DataIs
<1>5. PICK f : f = File(opt, payload, image) OBVIOUS
<1>7. PICK cut \in 0 .. Len(f) :
        img' = SubSeq(f, 1, cut) /\ asked' = [opt |-> opt, cfg |-> payload, boot |-> image, whole |-> cut = Len(f)]
  BY <1>1, <1>2, <1>5
<1>8. f \in Seq(Cell) /\ Len(f) \in Nat
  <2>1. FileOk(opt, payload, image, f) BY <1>4, <1>5, FileIs
  <2>2. QED BY <2>1 DEF FileOk
<1>9. img' \in Seq(Cell) /\ Len(img') = cut /\ \A c \in 1 .. cut : img'[c] = f[c] BY <1>7, <1>8
<1>10. asked'.opt = opt /\ asked'.cfg = payload /\ asked'.boot = image /\ (asked'.whole <=> cut = Len(f)) BY <1>7
<1>11. asked' \in [opt : Opts, cfg : Seq(Datum), boot : Seq(Datum), whole : BOOLEAN] BY <1>4, <1>7
<1>12. pos' = 0 /\ cache' = cache BY DEF Build
<1>13. Types' BY <1>3, <1>8, <1>9, <1>11, <1>12 DEF CacheIInv, Types
<1>14. ImgInv'
  <2>1. f = File(asked'.opt, asked'.cfg, asked'.boot) BY <1>5, <1>10
  <2>2. QED BY <1>8, <1>9, <1>10, <2>1 DEF ImgInv
<1>15. CacheInv' BY <1>12 DEF CacheInv
<1>16. QED BY <1>13, <1>14, <1>15 DEF CacheIInv

LEMMA SameFile == ASSUME ImgInv, UNCHANGED <<img, asked>> PROVE ImgInv'
BY DEF ImgInv

LEMMA FlashKeeps == ASSUME CacheIInv, FlashCell PROVE CacheIInv'
<1>1. Types /\ ImgInv /\ CacheInv BY DEF CacheIInv
<1>2. pos' = pos + 1 /\ pos < Len(img) /\ UNCHANGED <<img, asked, pushes>> BY DEF FlashCell
<1>3. PICK r : r = cache' OBVIOUS
<1>4. FlashOk(cache, r) BY <1>1, <1>3, FlashIs
<1>5. pos \in Nat /\ Len(img) \in Nat /\ Len(cache) \in Nat /\ pos <= Len(cache) BY <1>1 DEF Types
<1>6. Len(r) \in Nat /\ pos + 1 <= Len(r) /\ r \in Seq(Cell) BY <1>4, <1>5 DEF FlashOk
<1>7. Types' BY <1>1, <1>2, <1>3, <1>5, <1>6 DEF Types
<1>8. ASSUME NEW c \in 1 .. pos + 1 PROVE r[c] = img[c] \/ (c = 1 /\ r[1] = Zero)
  <2>1. CASE c = pos + 1 BY <1>4, <2>1 DEF FlashOk
  <2>2. CASE c # pos + 1
    <3>1. c \in 1 .. pos /\ c \in 1 .. Len(cache) BY <1>5, <2>2
    <3>2. r[c] = cache[c] BY <1>4, <2>2, <3>1 DEF FlashOk
    <3>3. QED BY <1>1, <3>1, <3>2 DEF CacheInv
  <2>3. QED BY <2>1, <2>2
<1>9. CacheInv' BY <1>2, <1>3, <1>8 DEF CacheInv
<1>10. QED BY <1>1, <1>2, <1>7, <1>9, SameFile DEF CacheIInv

LEMMA ConsumeKeeps == ASSUME CacheIInv, Consume PROVE CacheIInv'
<1>1. Types /\ ImgInv /\ CacheInv BY DEF CacheIInv
<1>2. pos' = (IF pos = Len(img) THEN pos ELSE 0) /\ UNCHANGED <<img, asked, pushes>> BY DEF Consume
<1>3. PICK r : r = cache' OBVIOUS
<1>4. ConsumeOk(cache, r) BY <1>1, <1>3, ConsumeIs
<1>5. pos \in Nat /\ Len(img) \in Nat /\ Len(cache) \in Nat /\ pos <= Len(cache) /\ pos' \in {0, pos}
  BY <1>1, <1>2 DEF Types
<1>6. Types'
  <2>1. pos' \in Nat /\ pos' <= Len(img) /\ pos' <= Len(r) BY <1>1, <1>4, <1>5 DEF ConsumeOk, Types
  <2>2. QED BY <1>1, <1>2, <1>3, <1>4, <2>1 DEF ConsumeOk, Types
<1>7. ASSUME NEW c \in 1 .. pos' PROVE r[c] = img[c] \/ (c = 1 /\ r[1] = Zero)
  <2>1. CASE c = 1 BY <1>4, <2>1 DEF ConsumeOk
  <2>2. CASE c # 1
    <3>1. c \in 1 .. pos /\ c \in 2 .. Len(cache) BY <1>5, <2>2
    <3>2. r[c] = cache[c] BY <1>4, <3>1 DEF ConsumeOk
    <3>3. QED BY <1>1, <2>2, <3>1, <3>2 DEF CacheInv
  <2>3. QED BY <2>1, <2>2
<1>8. CacheInv' BY <1>2, <1>3, <1>7 DEF CacheInv
<1>9. QED BY <1>1, <1>2, <1>6, <1>8, SameFile DEF CacheIInv

\* The invariant holds over any number of pushes, power cuts and boots.
THEOREM CacheInvariance == ASSUME OffsetAssumption, LengthAssumption PROVE CacheSpec => []CacheIInv
<1>1. CacheIInv /\ [CacheNext]_cacheVars => CacheIInv'
  <2> SUFFICES ASSUME CacheIInv, [CacheNext]_cacheVars PROVE CacheIInv' OBVIOUS
  <2>1. CASE Build BY <2>1, BuildKeeps
  <2>2. CASE FlashCell BY <2>2, FlashKeeps
  <2>3. CASE Retry
    <3>1. pos' = 0 /\ UNCHANGED <<img, asked, cache, flashed, pushes>> BY <2>3 DEF Retry
    <3>2. Types' BY <3>1 DEF CacheIInv, Types
    <3>3. CacheInv' BY <3>1 DEF CacheInv
    <3>4. QED BY <3>1, <3>2, <3>3, SameFile DEF CacheIInv
  <2>4. CASE Consume BY <2>4, ConsumeKeeps
  <2>5. CASE UNCHANGED cacheVars BY <2>5 DEF cacheVars, CacheIInv, Types, ImgInv, CacheInv
  <2>6. QED BY <2>1, <2>2, <2>3, <2>4, <2>5 DEF CacheNext, CacheDone
<1>2. QED BY <1>1, InitCache, PTL DEF CacheSpec

-----------------------------------------------------------------------------
(* The readers. *)

\* A header and, from the next place that its reader looks at, its data.
LEMMA AcceptedIs ==
  ASSUME Types, NEW magic \in {"TC8CFGv1", "TC8BOOT1"}, NEW off \in Nat, NEW at \in Nat, NEW data \in Seq(Datum),
         Len(cache) > off, cache[off + 1] = Header(magic, data), Len(cache) >= at + Len(data),
         \A c \in 1 .. Len(data) : cache[at + c] = data[c]
  PROVE  Accepted(magic, off, at) = data
<1>1. PICK l \in Nat : l = Len(data) OBVIOUS
<1>2. PICK h : h = cache[off + 1] OBVIOUS
<1>3. h.kind = magic /\ h.len = l /\ h.sha = data BY <1>1, <1>2, HeaderIs
<1>4. SubSeq(cache, at + 1, at + l) = data
  <2>1. PICK s : s = SubSeq(cache, at + 1, at + l) OBVIOUS
  <2>2. cache \in Seq(Cell) /\ at + l <= Len(cache) /\ Len(cache) \in Nat BY <1>1 DEF Types
  <2>3. s = [c \in 1 .. l |-> cache[at + c]]
    <3>1. s = [c \in 1 .. (at + l) - (at + 1) + 1 |-> cache[(at + 1) + c - 1]] BY <2>1, <2>2
    <3>2. (at + l) - (at + 1) + 1 = l /\ \A c \in 1 .. l : (at + 1) + c - 1 = at + c OBVIOUS
    <3>3. QED BY <3>1, <3>2
  <2>4. [c \in 1 .. l |-> cache[at + c]] = [c \in 1 .. l |-> data[c]] BY <1>1
  <2>5. [c \in 1 .. l |-> data[c]] = data BY <1>1
  <2>6. QED BY <2>1, <2>3, <2>4, <2>5
<1>5. QED BY <1>1, <1>2, <1>3, <1>4 DEF Accepted

\* A config that runs into the bootloader header is refused.
LEMMA RefusedIs ==
  ASSUME OffsetAssumption, Types, NEW payload \in Seq(Datum), NEW image \in Seq(Datum), Len(payload) >= BL_HDR_OFF,
         Len(cache) > 0, cache[1] = Header("TC8CFGv1", payload),
         Len(cache) > BL_HDR_OFF, cache[BL_HDR_OFF + 1] = Header("TC8BOOT1", image)
  PROVE  Config = None
<1>1. PICK l, o \in Nat : l = Len(payload) /\ o = BL_HDR_OFF /\ o > 0 BY DEF OffsetAssumption
<1>2. PICK h : h = cache[1] OBVIOUS
<1>3. h.len = l /\ h.sha = payload BY <1>1, <1>2, HeaderIs
<1>4. SUFFICES ASSUME Len(cache) >= 1 + l, SubSeq(cache, 1 + 1, 1 + l) = payload PROVE FALSE
  <2>1. cache[0 + 1] = h BY <1>2
  <2>2. ~(Len(cache) >= 1 + h.len /\ SubSeq(cache, 1 + 1, 1 + h.len) = h.sha) BY <1>3, <1>4
  <2>3. QED BY <2>1, <2>2 DEF Config, Accepted
<1>5. o \in 1 .. l BY <1>1
<1>6. cache[o + 1] = payload[o]
  <2>1. PICK s : s = SubSeq(cache, 1 + 1, 1 + l) OBVIOUS
  <2>2. cache \in Seq(Cell) /\ Len(cache) \in Nat /\ 1 + l <= Len(cache) BY <1>1, <1>4 DEF Types
  <2>3. s = [c \in 1 .. (1 + l) - (1 + 1) + 1 |-> cache[(1 + 1) + c - 1]] BY <2>1, <2>2
  <2>4. (1 + l) - (1 + 1) + 1 = l /\ (1 + 1) + o - 1 = o + 1 OBVIOUS
  <2>5. s[o] = cache[o + 1] BY <1>5, <2>3, <2>4
  <2>6. QED BY <1>4, <2>1, <2>5
<1>7. payload[o].kind \in {"cfg", "boot"}
  <2>1. payload[o] \in Datum BY <1>1, <1>5
  <2>2. QED BY <2>1 DEF Datum
<1>8. cache[o + 1].kind = "TC8BOOT1" BY <1>1, HeaderIs
<1>9. QED BY <1>6, <1>7, <1>8

\* A push that landed is understood by both readers, whatever older images or cut
\* pushes left behind, and a config that runs into the bootloader header is refused
\* whole (mkconfigblob.py 28-58).
THEOREM PushCorrect == ASSUME OffsetAssumption, LengthAssumption PROVE CacheSpec => []PushUnderstood
<1>1. ASSUME CacheIInv, Landed
      PROVE  /\ \/ Config = IF asked.opt = "--bootloader" /\ Len(asked.cfg) >= BL_HDR_OFF THEN None ELSE asked.cfg
                \/ cache[1] = Zero
             /\ asked.opt = "--bootloader" => Stage2 = asked.boot
  <2>1. PICK opt, payload, image : opt = asked.opt /\ payload = asked.cfg /\ image = asked.boot OBVIOUS
  <2>2. Types /\ opt \in Opts /\ payload \in Seq(Datum) /\ image \in Seq(Datum) BY <1>1, <2>1 DEF CacheIInv, Types
  <2>3. PICK f : f = File(opt, payload, image) OBVIOUS
  <2>4. FileOk(opt, payload, image, f) BY <2>2, <2>3, FileIs
  <2>5. PICK l, m \in Nat : l = Len(payload) /\ m = Len(image) BY <2>2
  <2>6. BL_HDR_OFF \in Nat \ {0} /\ SECTOR \in Nat \ {0} /\ BL_IMG_OFF = BL_HDR_OFF + SECTOR
    BY DEF OffsetAssumption, BL_IMG_OFF
  <2>7. Len(f) \in Nat /\ 1 + l <= Len(f) /\ f[1] = Header("TC8CFGv1", payload) BY <2>4, <2>5 DEF FileOk
  <2>8. Len(img) = Len(f) /\ pos = Len(f) /\ Len(cache) >= Len(f) /\ Len(cache) \in Nat
    BY <1>1, <2>1, <2>3 DEF CacheIInv, Types, ImgInv, Landed
  <2>9. \A c \in 1 .. Len(f) : cache[c] = f[c] \/ (c = 1 /\ cache[1] = Zero)
    BY <1>1, <2>1, <2>3, <2>8 DEF CacheIInv, ImgInv, CacheInv
  <2>10. 1 \in 1 .. Len(f) /\ Len(cache) > 0 /\ Len(cache) >= 1 + l BY <2>5, <2>7, <2>8
  <2>11. ASSUME cache[1] # Zero PROVE cache[0 + 1] = Header("TC8CFGv1", payload) BY <2>7, <2>9, <2>10, <2>11
  <2>12. ASSUME opt # "--bootloader" \/ l < BL_HDR_OFF, cache[1] # Zero PROVE Config = payload
    <3>1. ASSUME NEW c \in 1 .. l PROVE cache[1 + c] = payload[c]
      <4>1. 1 + c \in 1 .. Len(f) /\ 1 + c # 1 /\ 1 + c = c + 1 BY <2>5, <2>7
      <4>2. f[c + 1] = payload[c] BY <2>4, <2>5, <2>12 DEF FileOk
      <4>3. QED BY <2>9, <4>1, <4>2
    <3>2. QED BY <2>2, <2>5, <2>10, <2>11, <2>12, <3>1, AcceptedIs DEF Config
  <2>13. ASSUME opt = "--bootloader" PROVE cache[BL_HDR_OFF + 1] = Header("TC8BOOT1", image) /\ Len(cache) > BL_HDR_OFF
    <3>1. BL_IMG_OFF + m <= Len(f) /\ f[BL_HDR_OFF + 1] = Header("TC8BOOT1", image) BY <2>4, <2>5, <2>13 DEF FileOk
    <3>2. BL_HDR_OFF + 1 \in 1 .. Len(f) /\ BL_HDR_OFF + 1 # 1 /\ Len(cache) > BL_HDR_OFF BY <2>5, <2>6, <2>7, <2>8, <3>1
    <3>3. QED BY <2>9, <3>1, <3>2
  <2>14. ASSUME opt = "--bootloader" PROVE Stage2 = image
    <3>1. BL_IMG_OFF + m <= Len(f) /\ \A c \in 1 .. m : f[BL_IMG_OFF + c] = image[c] BY <2>4, <2>5, <2>14 DEF FileOk
    <3>2. Len(cache) >= BL_IMG_OFF + m /\ BL_HDR_OFF \in Nat /\ BL_IMG_OFF \in Nat BY <2>5, <2>6, <2>7, <2>8, <3>1
    <3>3. ASSUME NEW c \in 1 .. m PROVE cache[BL_IMG_OFF + c] = image[c]
      <4>1. BL_IMG_OFF + c \in 1 .. Len(f) /\ BL_IMG_OFF + c # 1 BY <2>6, <2>7, <3>1
      <4>2. QED BY <2>9, <3>1, <4>1
    <3>4. QED BY <2>2, <2>5, <2>13, <2>14, <3>2, <3>3, AcceptedIs DEF Stage2
  <2>15. ASSUME opt = "--bootloader", l >= BL_HDR_OFF, cache[1] # Zero PROVE Config = None
    <3>1. cache[1] = Header("TC8CFGv1", payload) BY <2>11, <2>15
    <3>2. QED BY <2>2, <2>5, <2>10, <2>13, <2>15, <3>1, RefusedIs
  <2>16. l >= BL_HDR_OFF \/ l < BL_HDR_OFF BY <2>5, <2>6
  <2>17. CASE opt = "--bootloader" /\ l >= BL_HDR_OFF BY <2>1, <2>5, <2>14, <2>15, <2>17
  <2>18. CASE ~(opt = "--bootloader" /\ l >= BL_HDR_OFF)
    <3>1. opt # "--bootloader" \/ l < BL_HDR_OFF BY <2>16, <2>18
    <3>2. QED BY <2>1, <2>5, <2>12, <2>14, <2>18, <3>1
  <2>19. QED BY <2>17, <2>18
<1>2. CacheIInv => PushUnderstood BY <1>1 DEF PushUnderstood
<1>3. QED BY <1>2, CacheInvariance, PTL

\* What the updater finds depends only on the cells from its header on.
LEMMA SameStage2 ==
  ASSUME OffsetAssumption, Types, cache' \in Seq(Cell),
         Len(cache') = Len(cache) \/ (Len(cache) <= BL_HDR_OFF /\ Len(cache') <= BL_HDR_OFF),
         \A c \in BL_HDR_OFF + 1 .. Len(cache) : cache'[c] = cache[c]
  PROVE  Stage2' = Stage2
<1>1. BL_HDR_OFF \in Nat \ {0} /\ SECTOR \in Nat \ {0} /\ BL_IMG_OFF = BL_HDR_OFF + SECTOR
  BY DEF OffsetAssumption, BL_IMG_OFF
<1>2. PICK r : r = cache' OBVIOUS
<1>3. Len(cache) \in Nat /\ Len(r) \in Nat /\ cache \in Seq(Cell) /\ r \in Seq(Cell) BY <1>2 DEF Types
<1>4. CASE Len(cache) <= BL_HDR_OFF
  <2>1. ~(Len(cache) > BL_HDR_OFF) /\ ~(Len(r) > BL_HDR_OFF) BY <1>1, <1>2, <1>3, <1>4
  <2>2. QED BY <1>2, <2>1 DEF Stage2, Accepted
<1>5. CASE Len(cache) > BL_HDR_OFF
  <2>1. Len(r) = Len(cache) BY <1>1, <1>2, <1>3, <1>5
  <2>2. PICK l \in Nat : l = Len(cache) BY <1>3
  <2>3. BL_HDR_OFF + 1 \in BL_HDR_OFF + 1 .. l /\ BL_HDR_OFF + 1 \in 1 .. l BY <1>1, <1>5, <2>2
  <2>4. PICK h : h = cache[BL_HDR_OFF + 1] OBVIOUS
  <2>5. r[BL_HDR_OFF + 1] = h /\ h \in Cell BY <1>2, <1>3, <2>2, <2>3, <2>4
  <2>6. h.kind = "TC8BOOT1" => h.len \in Nat BY <2>5 DEF Cell, Datum, Head64, Zero
  <2>7. ASSUME h.kind = "TC8BOOT1", l >= BL_IMG_OFF + h.len
        PROVE  SubSeq(r, BL_IMG_OFF + 1, BL_IMG_OFF + h.len) = SubSeq(cache, BL_IMG_OFF + 1, BL_IMG_OFF + h.len)
    <3>1. PICK n \in Nat : n = h.len BY <2>6, <2>7
    <3>2. BL_IMG_OFF \in Nat /\ BL_IMG_OFF + n <= l BY <1>1, <2>2, <2>7, <3>1
    <3>3. \A c \in 1 .. (BL_IMG_OFF + n) - (BL_IMG_OFF + 1) + 1 : (BL_IMG_OFF + 1) + c - 1 \in BL_HDR_OFF + 1 .. l
      BY <1>1, <3>2
    <3>4. \A c \in 1 .. (BL_IMG_OFF + n) - (BL_IMG_OFF + 1) + 1 :
            r[(BL_IMG_OFF + 1) + c - 1] = cache[(BL_IMG_OFF + 1) + c - 1]
      BY <1>2, <2>2, <3>3
    <3>5. /\ SubSeq(r, BL_IMG_OFF + 1, BL_IMG_OFF + n) =
               [c \in 1 .. (BL_IMG_OFF + n) - (BL_IMG_OFF + 1) + 1 |-> r[(BL_IMG_OFF + 1) + c - 1]]
          /\ SubSeq(cache, BL_IMG_OFF + 1, BL_IMG_OFF + n) =
               [c \in 1 .. (BL_IMG_OFF + n) - (BL_IMG_OFF + 1) + 1 |-> cache[(BL_IMG_OFF + 1) + c - 1]]
      BY <1>3, <2>1, <2>2, <3>2
    <3>6. QED BY <3>1, <3>4, <3>5
  <2>8. QED BY <1>2, <2>1, <2>2, <2>4, <2>5, <2>7 DEF Stage2, Accepted
<1>6. QED BY <1>1, <1>3, <1>4, <1>5

\* What the updater finds changes only with a push that carries a bootloader, or
\* a config that runs over the header (mkconfigblob.py 45-56).
THEOREM UpdateCorrect == ASSUME OffsetAssumption, LengthAssumption PROVE CacheSpec => UpdateKept
<1>1. ASSUME CacheIInv, [CacheNext]_cacheVars, asked.opt # "--bootloader", Len(asked.cfg) < BL_HDR_OFF
      PROVE  Stage2' = Stage2
  <2>1. Types /\ ImgInv BY <1>1 DEF CacheIInv
  <2>2. BL_HDR_OFF \in Nat \ {0} BY DEF OffsetAssumption
  <2>3. CASE cache' = cache BY <2>3 DEF Stage2, Accepted
  <2>4. CASE FlashCell
    <3>1. PICK r : r = cache' OBVIOUS
    <3>2. FlashOk(cache, r) BY <2>1, <2>4, <3>1, FlashIs
    <3>3. pos \in Nat /\ Len(cache) \in Nat /\ Len(img) \in Nat /\ pos <= Len(cache) /\ pos < Len(img)
      BY <2>1, <2>4 DEF Types, FlashCell
    <3>4. pos + 1 <= BL_HDR_OFF
      <4>1. PICK f : f = File(asked.opt, asked.cfg, asked.boot) OBVIOUS
      <4>2. asked.opt \in Opts /\ asked.cfg \in Seq(Datum) /\ asked.boot \in Seq(Datum) BY <2>1 DEF Types
      <4>3. Len(f) = 1 + Len(asked.cfg)
        <5>1. FileOk(asked.opt, asked.cfg, asked.boot, f) BY <4>1, <4>2, FileIs
        <5>2. QED BY <1>1, <5>1 DEF FileOk
      <4>4. Len(img) <= Len(f) BY <2>1, <4>1 DEF ImgInv
      <4>5. Len(asked.cfg) \in Nat BY <4>2
      <4>6. QED BY <1>1, <2>2, <3>3, <4>3, <4>4, <4>5
    <3>5. r \in Seq(Cell) /\ (Len(r) = Len(cache) \/ (Len(cache) <= BL_HDR_OFF /\ Len(r) <= BL_HDR_OFF))
      BY <2>2, <3>2, <3>3, <3>4 DEF FlashOk
    <3>6. \A c \in BL_HDR_OFF + 1 .. Len(cache) : c \in 1 .. Len(cache) /\ c # pos + 1 BY <2>2, <3>3, <3>4
    <3>7. \A c \in BL_HDR_OFF + 1 .. Len(cache) : r[c] = cache[c] BY <3>2, <3>6 DEF FlashOk
    <3>8. QED BY <2>1, <3>1, <3>5, <3>7, SameStage2
  <2>5. CASE Consume
    <3>1. PICK r : r = cache' OBVIOUS
    <3>2. ConsumeOk(cache, r) BY <2>1, <2>5, <3>1, ConsumeIs
    <3>3. \A c \in BL_HDR_OFF + 1 .. Len(cache) : c \in 2 .. Len(cache) BY <2>1, <2>2 DEF Types
    <3>4. QED BY <2>1, <3>1, <3>2, <3>3, SameStage2 DEF ConsumeOk
  <2>6. QED BY <1>1, <2>3, <2>4, <2>5 DEF CacheNext, Build, Retry, CacheDone, cacheVars
<1>2. CacheIInv /\ [CacheNext]_cacheVars => [Stage2' # Stage2 => asked.opt = "--bootloader" \/ Len(asked.cfg) >= BL_HDR_OFF]_cacheVars
  <2>1. ASSUME CacheIInv PROVE Len(asked.cfg) \in Nat BY <2>1 DEF CacheIInv, Types
  <2>2. BL_HDR_OFF \in Nat BY DEF OffsetAssumption
  <2>3. QED BY <1>1, <2>1, <2>2
<1>3. QED BY <1>2, CacheInvariance, PTL DEF CacheSpec, UpdateKept

-----------------------------------------------------------------------------
(* The packers. *)

PartNames == {"header", "kernel", "ramdisk", "second", "entry", "fdt", "name", "dir", "console", "null",
              "busybox", "init", "trailer", "tail"}
PartSet == [name : PartNames, len : Nat, pad : Nat \ {0}]

LEMMA PartIs ==
  ASSUME NEW name \in PartNames, NEW len \in Nat, NEW pad \in Nat \ {0}
  PROVE  /\ Part(name, len, pad) \in PartSet /\ Part(name, len, pad).name = name
         /\ Part(name, len, pad).len = len /\ Part(name, len, pad).pad = pad
BY DEF PartSet, Part

EntryOk(e) ==
  /\ e \in Seq(PartSet) /\ Len(e) = 3
  /\ e[1].name = "header" /\ e[1].len = CPIO_HDR /\ e[1].pad = 1
  /\ e[2].name = "name" /\ e[2].pad = 4
  /\ e[3].name \notin {"header", "name"} /\ e[3].pad = 4

LEMMA EntryIs ==
  ASSUME NEW name \in PartNames, name \notin {"header", "name"}, NEW namesize \in Nat, NEW filesize \in Nat
  PROVE  EntryOk(Entry(name, namesize, filesize))
<1>1. CPIO_HDR \in Nat BY DEF CPIO_HDR
<1>2. PICK a, b, c : /\ a = Part("header", CPIO_HDR, 1) /\ b = Part("name", namesize, 4)
                     /\ c = Part(name, filesize, 4)
  OBVIOUS
<1>0. "header" \in PartNames /\ "name" \in PartNames BY DEF PartNames
<1>3. /\ a \in PartSet /\ a.name = "header" /\ a.len = CPIO_HDR /\ a.pad = 1
      /\ b \in PartSet /\ b.name = "name" /\ b.pad = 4
      /\ c \in PartSet /\ c.name = name /\ c.pad = 4
  BY <1>0, <1>1, <1>2, PartIs
<1>4. Entry(name, namesize, filesize) = <<a, b, c>> BY <1>2 DEF Entry
<1>5. QED BY <1>3, <1>4 DEF EntryOk

LEMMA ConcatAt ==
  ASSUME NEW T, NEW d \in Seq(T), NEW r \in Seq(T), NEW i \in 1 .. Len(d) + Len(r)
  PROVE  (d \o r)[i] = IF i <= Len(d) THEN d[i] ELSE r[i - Len(d)]
OBVIOUS

LEMMA FunIsSeq == ASSUME NEW T, NEW n \in Nat, NEW f \in [1 .. n -> T] PROVE f \in Seq(T) /\ Len(f) = n
OBVIOUS

LEMMA EntriesAre ==
  ASSUME NEW j, j.busybox \in Nat, j.init \in Nat
  PROVE  \A i \in 1 .. 14 : EntryOk(Entries(j)[i])
<1> DEFINE dirs == [n \in 1 .. 9 |-> Entry("dir", <<4, 5, 4, 4, 4, 6, 3, 8, 8>>[n], 0)]
           rest == << Entry("console", 12, 0), Entry("null", 9, 0), Entry("busybox", 12, j.busybox),
                      Entry("init", 5, j.init), Entry("trailer", 11, 0) >>
<1>0. {"dir", "console", "null", "busybox", "init", "trailer"} \subseteq PartNames \ {"header", "name"} BY DEF PartNames
<1>1. \A n \in 1 .. 9 : EntryOk(dirs[n])
  <2>1. TAKE n \in 1 .. 9
  <2>2. n \in {1, 2, 3, 4, 5, 6, 7, 8, 9} OBVIOUS
  <2>3. PICK k : k = <<4, 5, 4, 4, 4, 6, 3, 8, 8>>[n] OBVIOUS
  <2>4. k \in Nat BY <2>2, <2>3
  <2>5. EntryOk(Entry("dir", k, 0)) BY <1>0, <2>4, EntryIs
  <2>6. QED BY <2>3, <2>5
<1>2. \A n \in 1 .. 5 : EntryOk(rest[n])
  <2>1. TAKE n \in 1 .. 5
  <2>2. n \in {1, 2, 3, 4, 5} OBVIOUS
  <2>3. /\ EntryOk(Entry("console", 12, 0)) /\ EntryOk(Entry("null", 9, 0))
        /\ EntryOk(Entry("busybox", 12, j.busybox)) /\ EntryOk(Entry("init", 5, j.init))
        /\ EntryOk(Entry("trailer", 11, 0))
    BY <1>0, EntryIs
  <2>4. QED BY <2>2, <2>3
<1>3. Entries(j) = dirs \o rest BY DEF Entries
<1>4. dirs \in Seq(Seq(PartSet)) /\ Len(dirs) = 9
  <2>1. dirs \in [1 .. 9 -> Seq(PartSet)] BY <1>1 DEF EntryOk
  <2>2. QED BY <2>1
<1>5. rest \in Seq(Seq(PartSet)) /\ Len(rest) = 5
  <2>1. \A n \in 1 .. 5 : rest[n] \in Seq(PartSet) BY <1>2 DEF EntryOk
  <2>2. rest[1] \in Seq(PartSet) /\ rest[2] \in Seq(PartSet) /\ rest[3] \in Seq(PartSet)
        /\ rest[4] \in Seq(PartSet) /\ rest[5] \in Seq(PartSet)
    BY <2>1
  <2>3. QED BY <2>2
<1> HIDE DEF dirs, rest
<1>6. ASSUME NEW i \in 1 .. 14 PROVE (dirs \o rest)[i] = IF i <= 9 THEN dirs[i] ELSE rest[i - 9]
  <2>1. i \in 1 .. Len(dirs) + Len(rest) BY <1>4, <1>5
  <2>2. (dirs \o rest)[i] = IF i <= Len(dirs) THEN dirs[i] ELSE rest[i - Len(dirs)]
    BY <1>4, <1>5, <2>1, ConcatAt
  <2>3. QED BY <1>4, <2>2
<1>7. ASSUME NEW i \in 1 .. 14 PROVE EntryOk((dirs \o rest)[i])
  <2>1. CASE i <= 9
    <3>1. i \in 1 .. 9 BY <2>1
    <3>2. QED BY <1>1, <1>6, <2>1, <3>1
  <2>2. CASE ~(i <= 9)
    <3>1. i - 9 \in 1 .. 5 BY <2>2
    <3>2. QED BY <1>2, <1>6, <2>2, <3>1
  <2>3. QED BY <2>1, <2>2
<1>8. QED BY <1>3, <1>7

\* Entry i of the archive is parts 3i - 2 to 3i.
CpioOk(l) ==
  /\ l \in Seq(PartSet) /\ Len(l) = 43
  /\ \A n \in 1 .. 43 : l[n].name = "header" =>
       /\ n + 3 <= 43 /\ l[n].len = CPIO_HDR /\ l[n].pad = 1 /\ l[n + 1].pad = 4 /\ l[n + 2].pad = 4

LEMMA CpioIs == ASSUME NEW j, j.busybox \in Nat, j.init \in Nat PROVE CpioOk(CpioParts(j))
<1>1. PICK es : es = Entries(j) OBVIOUS
<1>2. \A i \in 1 .. 14 : EntryOk(es[i]) BY <1>1, EntriesAre
<1>3. PICK t : t = Part("tail", 0, 512) OBVIOUS
<1>4. t \in PartSet /\ t.name = "tail"
  <2>1. "tail" \in PartNames BY DEF PartNames
  <2>2. QED BY <1>3, <2>1, PartIs
<1> DEFINE l == [n \in 1 .. 43 |-> IF n = 43 THEN t ELSE es[(n + 2) \div 3][((n - 1) % 3) + 1]]
<1>5. CpioParts(j) = l BY <1>1, <1>3 DEF CpioParts
<1>6. ASSUME NEW i \in 1 .. 14, NEW k \in 1 .. 3 PROVE 3 * (i - 1) + k \in 1 .. 43 /\ l[3 * (i - 1) + k] = es[i][k]
  <2>1. PICK n \in 1 .. 42 : n = 3 * (i - 1) + k OBVIOUS
  <2>2. (n + 2) \div 3 = i /\ ((n - 1) % 3) + 1 = k BY <2>1
  <2>3. n \in 1 .. 43 /\ n # 43 OBVIOUS
  <2>4. l[n] = es[(n + 2) \div 3][((n - 1) % 3) + 1] BY <2>3
  <2>5. QED BY <2>1, <2>2, <2>3, <2>4
<1>7. ASSUME NEW n \in 1 .. 43, n # 43 PROVE \E i \in 1 .. 14, k \in 1 .. 3 : n = 3 * (i - 1) + k
  <2>1. (n + 2) \div 3 \in 1 .. 14 /\ ((n - 1) % 3) + 1 \in 1 .. 3 /\ n = 3 * ((n + 2) \div 3 - 1) + (((n - 1) % 3) + 1)
    BY <1>7
  <2>2. QED BY <2>1
<1>8. l[43] = t OBVIOUS
<1>9. DOMAIN l = 1 .. 43 /\ l = [n \in 1 .. 43 |-> l[n]] OBVIOUS
<1> HIDE DEF l
<1>10. ASSUME NEW n \in 1 .. 43 PROVE l[n] \in PartSet
  <2>1. CASE n = 43 BY <1>4, <1>8, <2>1
  <2>2. CASE n # 43
    <3>1. PICK i \in 1 .. 14, k \in 1 .. 3 : n = 3 * (i - 1) + k BY <1>7, <2>2
    <3>2. l[n] = es[i][k] BY <1>6, <3>1
    <3>3. es[i] \in Seq(PartSet) /\ Len(es[i]) = 3 BY <1>2 DEF EntryOk
    <3>4. QED BY <3>2, <3>3
  <2>3. QED BY <2>1, <2>2
<1>11. l \in Seq(PartSet) /\ Len(l) = 43
  <2>1. l \in [1 .. 43 -> PartSet] BY <1>9, <1>10
  <2>2. QED BY <2>1, FunIsSeq
<1>12. ASSUME NEW n \in 1 .. 43, l[n].name = "header"
       PROVE  n + 3 <= 43 /\ l[n].len = CPIO_HDR /\ l[n].pad = 1 /\ l[n + 1].pad = 4 /\ l[n + 2].pad = 4
  <2>1. n # 43 BY <1>4, <1>8, <1>12
  <2>2. PICK i \in 1 .. 14, k \in 1 .. 3 : n = 3 * (i - 1) + k BY <1>7, <2>1
  <2>3. l[n] = es[i][k] /\ EntryOk(es[i]) BY <1>2, <1>6, <2>2
  <2>4. k = 1
    <3>1. k \in {1, 2, 3} OBVIOUS
    <3>2. QED BY <1>12, <2>3, <3>1 DEF EntryOk
  <2>5. n + 1 = 3 * (i - 1) + 2 /\ n + 2 = 3 * (i - 1) + 3 /\ n + 3 <= 43 BY <2>2, <2>4
  <2>6. l[n + 1] = es[i][2] /\ l[n + 2] = es[i][3]
    <3>1. l[3 * (i - 1) + 2] = es[i][2] /\ l[3 * (i - 1) + 3] = es[i][3] BY <1>6
    <3>2. QED BY <2>5, <3>1
  <2>7. QED BY <2>3, <2>4, <2>5, <2>6 DEF EntryOk
<1>13. QED BY <1>5, <1>11, <1>12 DEF CpioOk

\* Rounding up.
LEMMA DivIs ==
  ASSUME NEW x \in Nat, NEW p \in Nat \ {0}
  PROVE  x \div p \in Nat /\ p * (x \div p) <= x /\ x < p * (x \div p) + p
OBVIOUS

LEMMA DivUnique ==
  ASSUME NEW x \in Nat, NEW p \in Nat \ {0}, NEW q \in Nat, p * q <= x, x < p * q + p
  PROVE  x \div p = q
<1>1. PICK r \in Nat : r = x \div p /\ p * r <= x /\ x < p * r + p BY DivIs
<1>2. q = r BY <1>1
<1>3. QED BY <1>1, <1>2

LEMMA AlignIs ==
  ASSUME NEW n \in Nat, NEW p \in Nat \ {0}
  PROVE  /\ Align(n, p) \in Nat /\ \E k \in Nat : Align(n, p) = k * p
         /\ \A k \in Nat : Align(k * p + n, p) = k * p + Align(n, p)
         /\ n = 0 => Align(n, p) = 0
         /\ n \in 1 .. p => Align(n, p) = p
         /\ p = 1 => Align(n, p) = n
<1>1. PICK x \in Nat : x = n + p - 1 OBVIOUS
<1>2. PICK q \in Nat : q = x \div p /\ p * q <= x /\ x < p * q + p BY DivIs
<1>3. Align(n, p) = q * p BY <1>1, <1>2 DEF Align
<1>4. q * p \in Nat BY <1>2
<1>5. ASSUME NEW k \in Nat PROVE Align(k * p + n, p) = k * p + q * p
  <2>1. PICK m \in Nat : m = k * p OBVIOUS
  <2>2. PICK y \in Nat : y = m + x BY <2>1
  <2>3. PICK u \in Nat : u = p * q /\ u = q * p BY <1>2
  <2>4. p * (k + q) = m + u BY <1>2, <2>1, <2>3
  <2>5. p * (k + q) <= y /\ y < p * (k + q) + p BY <1>2, <2>2, <2>3, <2>4
  <2>6. y \div p = k + q
    <3>1. PICK z \in Nat : z = k + q BY <1>2
    <3>2. p * z <= y /\ y < p * z + p BY <2>5, <3>1
    <3>3. QED BY <2>2, <3>1, <3>2, DivUnique
  <2>7. y = (m + n) + p - 1 BY <1>1, <2>1, <2>2
  <2>8. Align(m + n, p) = (k + q) * p BY <2>6, <2>7 DEF Align
  <2>9. (k + q) * p = m + u BY <2>1, <2>3
  <2>10. QED BY <2>1, <2>3, <2>8, <2>9
<1>6. ASSUME n = 0 PROVE q = 0
  <2>1. p * 0 <= x /\ x < p * 0 + p BY <1>1, <1>6
  <2>2. QED BY <1>2, <2>1, DivUnique
<1>7. ASSUME n \in 1 .. p PROVE q = 1
  <2>1. p * 1 <= x /\ x < p * 1 + p BY <1>1, <1>7
  <2>2. QED BY <1>2, <2>1, DivUnique
<1>8. ASSUME p = 1 PROVE q = n BY <1>1, <1>2, <1>8
<1>9. 0 * p = 0 /\ 1 * p = p /\ n * 1 = n OBVIOUS
<1>10. QED BY <1>2, <1>3, <1>4, <1>5, <1>6, <1>7, <1>8, <1>9

\* The parts of a boot.img and of a dtbo.img.
BootOk(j, l) ==
  LET h == Part("header", HDR, j.page)
      k == Part("kernel", j.kernel, j.page)
      r == Part("ramdisk", j.ramdisk, j.page)
      s == Part("second", j.second, j.page)
  IN  l = IF j.ramdisk = 0 THEN (IF j.second = 0 THEN <<h, k>> ELSE <<h, k, s>>)
          ELSE (IF j.second = 0 THEN <<h, k, r>> ELSE <<h, k, r, s>>)

\* Concatenations of pairs and single parts, written out.
LEMMA Joined ==
  ASSUME NEW T, NEW a \in Seq(T), NEW t \in T
  PROVE  a \o <<>> = a /\ a \o <<t>> = Append(a, t)
OBVIOUS

LEMMA SameSeq ==
  ASSUME NEW T, NEW a \in Seq(T), NEW b \in Seq(T), Len(a) = Len(b), \A i \in 1 .. Len(a) : a[i] = b[i]
  PROVE  a = b
OBVIOUS

LEMMA AppendAt ==
  ASSUME NEW T, NEW a \in Seq(T), NEW t \in T
  PROVE  /\ Append(a, t) \in Seq(T) /\ Len(Append(a, t)) = Len(a) + 1 /\ Append(a, t)[Len(a) + 1] = t
         /\ \A i \in 1 .. Len(a) : Append(a, t)[i] = a[i]
OBVIOUS

LEMMA Appended ==
  ASSUME NEW T, NEW h \in T, NEW k \in T, NEW r \in T, NEW s \in T
  PROVE  Append(<<h, k>>, r) = <<h, k, r>> /\ Append(<<h, k, r>>, s) = <<h, k, r, s>>
<1>1. PICK a, b, c : a = <<h, k>> /\ b = <<h, k, r>> /\ c = <<h, k, r, s>> OBVIOUS
<1>2. /\ a \in Seq(T) /\ Len(a) = 2 /\ a[1] = h /\ a[2] = k
      /\ b \in Seq(T) /\ Len(b) = 3 /\ b[1] = h /\ b[2] = k /\ b[3] = r
      /\ c \in Seq(T) /\ Len(c) = 4 /\ c[1] = h /\ c[2] = k /\ c[3] = r /\ c[4] = s
  BY <1>1
<1>3. PICK x : x = Append(a, r) OBVIOUS
<1>4. x \in Seq(T) /\ Len(x) = 3 /\ x[1] = h /\ x[2] = k /\ x[3] = r
  <2>1. x \in Seq(T) /\ Len(x) = Len(a) + 1 /\ x[Len(a) + 1] = r /\ \A i \in 1 .. Len(a) : x[i] = a[i]
    <3>1. a \in Seq(T) BY <1>2
    <3>2. QED BY <1>3, <3>1, AppendAt
  <2>2. Len(a) + 1 = 3 /\ 1 \in 1 .. Len(a) /\ 2 \in 1 .. Len(a) BY <1>2
  <2>3. QED BY <1>2, <2>1, <2>2
<1>5. x = b
  <2>1. \A i \in 1 .. 3 : i \in {1, 2, 3} OBVIOUS
  <2>2. \A i \in 1 .. 3 : x[i] = b[i] BY <1>2, <1>4, <2>1
  <2>3. QED BY <1>2, <1>4, <2>2, SameSeq
<1>6. PICK y : y = Append(b, s) OBVIOUS
<1>7. y \in Seq(T) /\ Len(y) = 4 /\ y[1] = h /\ y[2] = k /\ y[3] = r /\ y[4] = s
  <2>1. y \in Seq(T) /\ Len(y) = Len(b) + 1 /\ y[Len(b) + 1] = s /\ \A i \in 1 .. Len(b) : y[i] = b[i]
    <3>1. b \in Seq(T) BY <1>2
    <3>2. QED BY <1>6, <3>1, AppendAt
  <2>2. Len(b) + 1 = 4 /\ 1 \in 1 .. Len(b) /\ 2 \in 1 .. Len(b) /\ 3 \in 1 .. Len(b) BY <1>2
  <2>3. QED BY <1>2, <2>1, <2>2
<1>8. y = c
  <2>1. \A i \in 1 .. 4 : i \in {1, 2, 3, 4} OBVIOUS
  <2>2. \A i \in 1 .. 4 : y[i] = c[i] BY <1>2, <1>7, <2>1
  <2>3. QED BY <1>2, <1>7, <2>2, SameSeq
<1>9. QED BY <1>1, <1>3, <1>5, <1>6, <1>8

LEMMA BootIs == ASSUME NEW j PROVE BootOk(j, BootParts(j))
<1>1. PICK h, k, r, s : /\ h = Part("header", HDR, j.page) /\ k = Part("kernel", j.kernel, j.page)
                        /\ r = Part("ramdisk", j.ramdisk, j.page) /\ s = Part("second", j.second, j.page)
  OBVIOUS
<1>2. BootParts(j) = <<h, k>> \o (IF j.ramdisk = 0 THEN <<>> ELSE <<r>>) \o (IF j.second = 0 THEN <<>> ELSE <<s>>)
  BY <1>1 DEF BootParts
<1> DEFINE T == {h, k, r, s}
<1>3. h \in T /\ k \in T /\ r \in T /\ s \in T OBVIOUS
<1> HIDE DEF T
<1>4. <<h, k>> \in Seq(T) /\ <<h, k, r>> \in Seq(T) BY <1>3
<1>5. <<h, k>> \o <<>> = <<h, k>> /\ <<h, k>> \o <<s>> = <<h, k, s>> /\ <<h, k>> \o <<r>> = <<h, k, r>>
      /\ <<h, k, r>> \o <<>> = <<h, k, r>> /\ <<h, k, r>> \o <<s>> = <<h, k, r, s>>
  <2>1. Append(<<h, k>>, s) = <<h, k, s>> BY <1>3, Appended
  <2>2. Append(<<h, k>>, r) = <<h, k, r>> /\ Append(<<h, k, r>>, s) = <<h, k, r, s>> BY <1>3, Appended
  <2>3. <<h, k>> \o <<s>> = Append(<<h, k>>, s) /\ <<h, k>> \o <<>> = <<h, k>> BY <1>3, <1>4, Joined
  <2>4. <<h, k>> \o <<r>> = Append(<<h, k>>, r) BY <1>3, <1>4, Joined
  <2>5. <<h, k, r>> \o <<>> = <<h, k, r>> /\ <<h, k, r>> \o <<s>> = Append(<<h, k, r>>, s) BY <1>3, <1>4, Joined
  <2>6. QED BY <2>1, <2>2, <2>3, <2>4, <2>5
<1>6. CASE j.ramdisk = 0 /\ j.second = 0 BY <1>1, <1>2, <1>5, <1>6 DEF BootOk
<1>7. CASE j.ramdisk = 0 /\ j.second # 0 BY <1>1, <1>2, <1>5, <1>7 DEF BootOk
<1>8. CASE j.ramdisk # 0 /\ j.second = 0 BY <1>1, <1>2, <1>5, <1>8 DEF BootOk
<1>9. CASE j.ramdisk # 0 /\ j.second # 0 BY <1>1, <1>2, <1>5, <1>9 DEF BootOk
<1>10. QED BY <1>6, <1>7, <1>8, <1>9

LEMMA JobIs ==
  ASSUME PagesAssumption, SizesAssumption, NEW j \in Jobs
  PROVE  /\ j.tool \in {"boot", "dtbo", "cpio"}
         /\ j.tool = "boot" => j.page \in Nat \ {0} /\ j.kernel \in Nat /\ j.ramdisk \in Nat /\ j.second \in Nat
         /\ j.tool = "dtbo" => j.dtb \in Nat
         /\ j.tool = "cpio" => j.busybox \in Nat /\ j.init \in Nat
BY DEF PagesAssumption, SizesAssumption, Jobs

LEMMA PartsAre ==
  ASSUME PagesAssumption, SizesAssumption, NEW j \in Jobs
  PROVE  Parts(j) \in Seq(PartSet)
<1>0. {"header", "kernel", "ramdisk", "second", "entry", "fdt"} \subseteq PartNames BY DEF PartNames
<1>1. CASE j.tool = "boot"
  <2>1. Parts(j) = BootParts(j) BY <1>1 DEF Parts
  <2>2. HDR \in Nat BY DEF HDR
  <2>3. PICK h, k, r, s : /\ h = Part("header", HDR, j.page) /\ k = Part("kernel", j.kernel, j.page)
                          /\ r = Part("ramdisk", j.ramdisk, j.page) /\ s = Part("second", j.second, j.page)
    OBVIOUS
  <2>4. h \in PartSet /\ k \in PartSet /\ r \in PartSet /\ s \in PartSet BY <1>0, <1>1, <2>2, <2>3, JobIs, PartIs
  <2>5. BootParts(j) \in {<<h, k>>, <<h, k, s>>, <<h, k, r>>, <<h, k, r, s>>} BY <2>3, BootIs DEF BootOk
  <2>6. <<h, k>> \in Seq(PartSet) /\ <<h, k, s>> \in Seq(PartSet) BY <2>4
  <2>7. <<h, k, r>> \in Seq(PartSet) /\ <<h, k, r, s>> \in Seq(PartSet) BY <2>4
  <2>8. QED BY <2>1, <2>5, <2>6, <2>7
<1>2. CASE j.tool = "dtbo"
  <2>1. Parts(j) = DtboParts(j) BY <1>2 DEF Parts
  <2>2. PICK h, e, d : h = Part("header", 32, 1) /\ e = Part("entry", 32, 1) /\ d = Part("fdt", j.dtb, 1) OBVIOUS
  <2>3. h \in PartSet /\ e \in PartSet /\ d \in PartSet BY <1>0, <1>2, <2>2, JobIs, PartIs
  <2>4. DtboParts(j) = <<h, e, d>> BY <2>2 DEF DtboParts, HEADER_SIZE, ENTRY_SIZE
  <2>5. QED BY <2>1, <2>3, <2>4
<1>3. CASE j.tool = "cpio"
  <2>1. Parts(j) = CpioParts(j) BY <1>3 DEF Parts
  <2>2. QED BY <1>3, <2>1, JobIs, CpioIs DEF CpioOk
<1>4. QED BY <1>1, <1>2, <1>3, JobIs

OutSet == [name : PartNames, off : Nat, len : Nat]

\* The file so far is the parts of l up to the ones still to do, in their order,
\* each where the padding behind the one before it ends.
Walk(l, t, o, s) ==
  /\ t \in Seq(PartSet) /\ o \in Seq(OutSet) /\ s \in Nat
  /\ Len(o) + Len(t) = Len(l)
  /\ \A i \in 1 .. Len(t) : t[i] = l[Len(o) + i]
  /\ \A n \in 1 .. Len(o) : o[n].name = l[n].name /\ o[n].len = l[n].len
  /\ Len(o) = 0 => s = 0
  /\ Len(o) > 0 => o[1].off = 0 /\ s = Align(o[Len(o)].off + l[Len(o)].len, l[Len(o)].pad)
  /\ \A n \in 1 .. Len(o) - 1 : o[n + 1].off = Align(o[n].off + l[n].len, l[n].pad)

LEMMA WalkOn ==
  ASSUME NEW l \in Seq(PartSet), NEW t, NEW o, NEW s, Walk(l, t, o, s), t # <<>>
  PROVE  Walk(l, Tail(t), Append(o, [name |-> Head(t).name, off |-> s, len |-> Head(t).len]),
              Align(s + Head(t).len, Head(t).pad))
<1>1. /\ t \in Seq(PartSet) /\ o \in Seq(OutSet) /\ s \in Nat /\ Len(o) \in Nat /\ Len(t) \in Nat /\ Len(t) > 0
      /\ Len(o) + Len(t) = Len(l)
  BY DEF Walk
<1>2. PICK h : h = Head(t) OBVIOUS
<1>3. PICK n \in Nat : n = Len(o) BY <1>1
<1>4. h = t[1] /\ h \in PartSet BY <1>1, <1>2
<1>5. h = l[n + 1]
  <2>1. 1 \in 1 .. Len(t) BY <1>1
  <2>2. QED BY <1>3, <1>4, <2>1 DEF Walk
<1>6. h.name \in PartNames /\ h.len \in Nat /\ h.pad \in Nat \ {0} BY <1>4 DEF PartSet
<1>7. PICK e : e = [name |-> h.name, off |-> s, len |-> h.len] OBVIOUS
<1>8. e \in OutSet /\ e.name = h.name /\ e.off = s /\ e.len = h.len BY <1>1, <1>6, <1>7 DEF OutSet
<1>9. PICK u : u = Tail(t) OBVIOUS
<1>10. u \in Seq(PartSet) /\ Len(u) = Len(t) - 1 /\ \A i \in 1 .. Len(u) : u[i] = t[i + 1] BY <1>1, <1>9
<1>11. PICK q : q = Append(o, e) OBVIOUS
<1>12. q \in Seq(OutSet) /\ Len(q) = n + 1 /\ q[n + 1] = e /\ \A i \in 1 .. n : q[i] = o[i]
  BY <1>1, <1>3, <1>8, <1>11, AppendAt
<1>13. PICK z : z = Align(s + h.len, h.pad) OBVIOUS
<1>14. z \in Nat
  <2>1. s + h.len \in Nat BY <1>1, <1>6
  <2>2. QED BY <1>6, <1>13, <2>1, AlignIs
<1>15. ASSUME NEW i \in 1 .. Len(u) PROVE u[i] = l[Len(q) + i]
  <2>1. i + 1 \in 1 .. Len(t) BY <1>1, <1>10
  <2>2. t[i + 1] = l[n + (i + 1)] BY <1>3, <2>1 DEF Walk
  <2>3. n + (i + 1) = (n + 1) + i BY <1>1, <1>10
  <2>4. QED BY <1>10, <1>12, <2>2, <2>3
<1>16. ASSUME NEW m \in 1 .. Len(q) PROVE q[m].name = l[m].name /\ q[m].len = l[m].len
  <2>1. CASE m = n + 1 BY <1>5, <1>8, <1>12, <2>1
  <2>2. CASE m # n + 1
    <3>1. m \in 1 .. n BY <1>12, <2>2
    <3>2. QED BY <1>3, <1>12, <3>1 DEF Walk
  <2>3. QED BY <2>1, <2>2
<1>17. q[1].off = 0
  <2>1. CASE n = 0
    <3>1. s = 0 BY <1>3, <2>1 DEF Walk
    <3>2. n + 1 = 1 BY <2>1
    <3>3. QED BY <1>8, <1>12, <3>1, <3>2
  <2>2. CASE n # 0
    <3>1. 1 \in 1 .. n /\ Len(o) > 0 BY <1>3, <2>2
    <3>2. o[1].off = 0 BY <3>1 DEF Walk
    <3>3. QED BY <1>12, <3>1, <3>2
  <2>3. QED BY <2>1, <2>2
<1>18. z = Align(q[Len(q)].off + l[Len(q)].len, l[Len(q)].pad) BY <1>5, <1>8, <1>12, <1>13
<1>19. ASSUME NEW m \in 1 .. Len(q) - 1 PROVE q[m + 1].off = Align(q[m].off + l[m].len, l[m].pad)
  <2>1. m \in 1 .. n BY <1>12
  <2>2. q[m] = o[m] BY <1>12, <2>1
  <2>3. CASE m = n
    <3>1. Len(o) > 0 BY <1>3, <2>1, <2>3
    <3>2. s = Align(o[n].off + l[n].len, l[n].pad) BY <1>3, <3>1 DEF Walk
    <3>3. q[m + 1].off = s BY <1>8, <1>12, <2>3
    <3>4. QED BY <2>2, <2>3, <3>2, <3>3
  <2>4. CASE m # n
    <3>1. m \in 1 .. Len(o) - 1 /\ m + 1 \in 1 .. n BY <1>3, <2>1, <2>4
    <3>2. q[m + 1] = o[m + 1] BY <1>12, <3>1
    <3>3. o[m + 1].off = Align(o[m].off + l[m].len, l[m].pad) BY <3>1 DEF Walk
    <3>4. QED BY <2>2, <3>2, <3>3
  <2>5. QED BY <2>3, <2>4
<1>20. Len(q) + Len(u) = Len(l) /\ Len(q) > 0
  <2>1. Len(u) = Len(t) - 1 /\ Len(q) = n + 1 BY <1>10, <1>12
  <2>2. n + Len(t) = Len(l) /\ Len(t) \in Nat BY <1>1, <1>3
  <2>3. QED BY <2>1, <2>2
<1>21. Walk(l, u, q, z)
  BY <1>10, <1>12, <1>14, <1>15, <1>16, <1>17, <1>18, <1>19, <1>20 DEF Walk
<1>22. QED BY <1>2, <1>7, <1>9, <1>11, <1>13, <1>21

PackInv ==
  /\ job \in Jobs /\ Walk(Parts(job), todo, out, size)
  /\ done = "ok" => todo = <<>>

\* The three packers write their parts in order and without gaps other than the
\* padding, up to the end, whatever the sizes (mkbootimg.py 74-78, mkdtboimg.py
\* 47-54, mkinitramfs.py 33-58).
THEOREM PackInvariance == ASSUME PagesAssumption, SizesAssumption PROVE PackSpec => []PackInv
<1>1. PackInit => PackInv
  <2>1. SUFFICES ASSUME PackInit PROVE PackInv OBVIOUS
  <2>2. job \in Jobs /\ todo = Parts(job) /\ out = <<>> /\ size = 0 /\ done = "no" BY <2>1 DEF PackInit
  <2>3. PICK l : l = Parts(job) OBVIOUS
  <2>4. l \in Seq(PartSet) BY <2>2, <2>3, PartsAre
  <2>5. <<>> \in Seq(OutSet) /\ Len(<<>>) = 0 OBVIOUS
  <2>6. \A i \in 1 .. Len(l) : l[i] = l[0 + i] BY <2>4
  <2>7. Walk(l, l, <<>>, 0) BY <2>4, <2>5, <2>6 DEF Walk
  <2>8. QED BY <2>2, <2>3, <2>7 DEF PackInv
<1>2. PackInv /\ [PackNext]_packVars => PackInv'
  <2>1. SUFFICES ASSUME PackInv, [PackNext]_packVars PROVE PackInv' OBVIOUS
  <2>2. CASE AppendPart
    <3>1. PICK l : l = Parts(job) OBVIOUS
    <3>2. job \in Jobs /\ l \in Seq(PartSet) BY <2>1, <3>1, PartsAre DEF PackInv
    <3>3. job' = job /\ done' = "no" /\ todo # <<>> BY <2>2 DEF AppendPart
    <3>4. Parts(job)' = l BY <3>1, <3>3
    <3>5. PICK t, o, s : t = todo /\ o = out /\ s = size OBVIOUS
    <3>6. Walk(l, t, o, s) BY <2>1, <3>1, <3>5 DEF PackInv
    <3>7. Walk(l, Tail(t), Append(o, [name |-> Head(t).name, off |-> s, len |-> Head(t).len]),
               Align(s + Head(t).len, Head(t).pad))
      BY <3>2, <3>3, <3>5, <3>6, WalkOn
    <3>8. Walk(l, todo', out', size') BY <2>2, <3>5, <3>7 DEF AppendPart
    <3>9. QED BY <3>2, <3>3, <3>4, <3>8 DEF PackInv
  <2>3. CASE Refuse BY <2>1, <2>3 DEF PackInv, Refuse
  <2>4. CASE Finish BY <2>1, <2>4 DEF PackInv, Finish
  <2>5. CASE UNCHANGED packVars BY <2>1, <2>5 DEF PackInv, packVars
  <2>6. QED BY <2>1, <2>2, <2>3, <2>4, <2>5 DEF PackNext, PackDone
<1>3. QED BY <1>1, <1>2, PTL DEF PackSpec

\* A finished file, part by part.
DoneOk(l, o, s) ==
  /\ Len(o) = Len(l) /\ DOMAIN o = 1 .. Len(l)
  /\ \A n \in 1 .. Len(l) :
       /\ o[n].off \in Nat /\ l[n].len \in Nat
       /\ o[n].name = l[n].name /\ o[n].len = l[n].len
       /\ o[n] = [name |-> l[n].name, off |-> o[n].off, len |-> l[n].len]
  /\ Len(l) > 0 => o[1].off = 0 /\ s = Align(o[Len(l)].off + l[Len(l)].len, l[Len(l)].pad)
  /\ \A n \in 1 .. Len(l) - 1 : o[n + 1].off = Align(o[n].off + l[n].len, l[n].pad)

LEMMA DoneIs ==
  ASSUME NEW l \in Seq(PartSet), NEW o, NEW s, Walk(l, <<>>, o, s)
  PROVE  DoneOk(l, o, s)
<1>1. o \in Seq(OutSet) BY DEF Walk
<1>2. Len(o) = Len(l)
  <2>1. Len(o) + 0 = Len(l) BY DEF Walk
  <2>2. QED BY <1>1, <2>1
<1>3. DOMAIN o = 1 .. Len(l) BY <1>1, <1>2
<1>4. ASSUME NEW n \in 1 .. Len(l)
      PROVE  /\ o[n].off \in Nat /\ l[n].len \in Nat
             /\ o[n].name = l[n].name /\ o[n].len = l[n].len
             /\ o[n] = [name |-> l[n].name, off |-> o[n].off, len |-> l[n].len]
  <2>1. o[n] \in OutSet /\ l[n] \in PartSet BY <1>1, <1>2
  <2>2. o[n].name = l[n].name /\ o[n].len = l[n].len BY <1>2 DEF Walk
  <2>3. o[n] = [name |-> o[n].name, off |-> o[n].off, len |-> o[n].len] BY <2>1 DEF OutSet
  <2>4. o[n].off \in Nat /\ l[n].len \in Nat BY <2>1 DEF OutSet, PartSet
  <2>5. QED BY <2>2, <2>3, <2>4
<1>5. Len(l) > 0 => o[1].off = 0 /\ s = Align(o[Len(l)].off + l[Len(l)].len, l[Len(l)].pad) BY <1>2 DEF Walk
<1>6. \A n \in 1 .. Len(l) - 1 : o[n + 1].off = Align(o[n].off + l[n].len, l[n].pad) BY <1>2 DEF Walk
<1>7. QED BY <1>2, <1>3, <1>4, <1>5, <1>6 DEF DoneOk

\* Where the areas of a boot.img start.
AreasOk(p, k, r) ==
  /\ Align(0 + HDR, p) = p
  /\ Align(p + k, p) = p + Align(k, p)
  /\ Align((p + Align(k, p)) + r, p) = (p + Align(k, p)) + Align(r, p)
  /\ Align(k, p) \in Nat /\ Align(r, p) \in Nat /\ Align(0, p) = 0
LEMMA AreasAt ==
  ASSUME NEW p \in Nat \ {0}, NEW k \in Nat, NEW r \in Nat, p >= HDR
  PROVE  AreasOk(p, k, r)
<1>1. HDR \in 1 .. p /\ 0 + HDR = HDR /\ HDR \in Nat BY DEF HDR
<1>2. Align(HDR, p) = p BY <1>1, AlignIs
<1>3. Align(p + k, p) = p + Align(k, p)
  <2>1. PICK one \in Nat : one = 1 OBVIOUS
  <2>2. Align(one * p + k, p) = one * p + Align(k, p) BY AlignIs
  <2>3. one * p = p BY <2>1
  <2>4. QED BY <2>2, <2>3
<1>4. PICK c \in Nat : Align(k, p) = c * p BY AlignIs
<1>5. PICK d \in Nat : d = 1 + c OBVIOUS
<1>6. Align(d * p + r, p) = d * p + Align(r, p) BY AlignIs
<1>7. d * p = p + c * p BY <1>5
<1>8. Align(k, p) \in Nat /\ Align(r, p) \in Nat /\ Align(0, p) = 0 BY AlignIs
<1>9. QED BY <1>1, <1>2, <1>3, <1>4, <1>6, <1>7, <1>8 DEF AreasOk

Found(o, names) == {e \in ToSet(o) : e.name \in names}
Areas == {"kernel", "ramdisk", "second"}

LEMMA BootFound ==
  ASSUME NEW j, j.page \in Nat \ {0}, j.kernel \in Nat, j.ramdisk \in Nat, j.second \in Nat, j.page >= HDR,
         NEW o, NEW s, DoneOk(BootParts(j), o, s)
  PROVE  Found(o, Areas) = BootReader(j)
<1>1. PICK h, k, r, x : /\ h = Part("header", HDR, j.page) /\ k = Part("kernel", j.kernel, j.page)
                        /\ r = Part("ramdisk", j.ramdisk, j.page) /\ x = Part("second", j.second, j.page)
  OBVIOUS
<1>2. /\ h.name = "header" /\ h.len = HDR /\ h.pad = j.page
      /\ k.name = "kernel" /\ k.len = j.kernel /\ k.pad = j.page
      /\ r.name = "ramdisk" /\ r.len = j.ramdisk /\ r.pad = j.page
      /\ x.name = "second" /\ x.len = j.second /\ x.pad = j.page
  BY <1>1 DEF Part
<1>3. PICK p \in Nat \ {0}, kl \in Nat, rl \in Nat : p = j.page /\ kl = j.kernel /\ rl = j.ramdisk OBVIOUS
<1>4. PICK ramdisk, second : ramdisk = p + Align(kl, p) /\ second = ramdisk + Align(rl, p) OBVIOUS
<1>5. /\ Align(0 + HDR, p) = p /\ Align(p + kl, p) = ramdisk
       /\ Align(ramdisk + rl, p) = second /\ (rl = 0 => second = ramdisk)
  <2>1. p >= HDR BY <1>3
  <2>2. AreasOk(p, kl, rl) BY <2>1, AreasAt
  <2>3. QED BY <1>4, <2>2 DEF AreasOk
<1>6. PICK H, K, R, X : /\ H = [name |-> "header", off |-> 0, len |-> HDR]
                        /\ K = [name |-> "kernel", off |-> p, len |-> j.kernel]
                        /\ R = [name |-> "ramdisk", off |-> ramdisk, len |-> j.ramdisk]
                        /\ X = [name |-> "second", off |-> second, len |-> j.second]
  OBVIOUS
<1>7. H.name \notin Areas /\ K.name \in Areas /\ R.name \in Areas /\ X.name \in Areas BY <1>6 DEF Areas
<1>8. BootReader(j) = {K} \cup (IF j.ramdisk = 0 THEN {} ELSE {R}) \cup (IF j.second = 0 THEN {} ELSE {X})
  BY <1>3, <1>4, <1>6 DEF BootReader
<1>9. PICK l : l = BootParts(j) OBVIOUS
<1>10. l = IF j.ramdisk = 0 THEN (IF j.second = 0 THEN <<h, k>> ELSE <<h, k, x>>)
          ELSE (IF j.second = 0 THEN <<h, k, r>> ELSE <<h, k, r, x>>)
  BY <1>1, <1>9, BootIs DEF BootOk
<1>11. /\ Len(l) \in 2 .. 4 /\ l[1] = h /\ l[2] = k
  BY <1>10
<1>12. DOMAIN o = 1 .. Len(l) /\ o[1] = H /\ o[2] = K
  <2>1. 1 \in 1 .. Len(l) /\ 2 \in 1 .. Len(l) /\ 1 \in 1 .. Len(l) - 1 /\ Len(l) > 0 BY <1>11
  <2>2. o[1].off = 0 BY <1>9, <2>1 DEF DoneOk
  <2>3. o[1 + 1].off = Align(o[1].off + l[1].len, l[1].pad) BY <1>9, <2>1 DEF DoneOk
  <2>4. o[2].off = p BY <1>2, <1>3, <1>5, <1>11, <2>2, <2>3
  <2>5. /\ o[1] = [name |-> l[1].name, off |-> o[1].off, len |-> l[1].len]
        /\ o[2] = [name |-> l[2].name, off |-> o[2].off, len |-> l[2].len] /\ DOMAIN o = 1 .. Len(l)
    BY <1>9, <2>1 DEF DoneOk
  <2>6. QED BY <1>2, <1>6, <1>11, <2>2, <2>4, <2>5
<1>13. ASSUME Len(l) > 2
       PROVE  o[3] = [name |-> l[3].name, off |-> ramdisk, len |-> l[3].len]
  <2>1. 3 \in 1 .. Len(l) /\ 2 \in 1 .. Len(l) - 1 BY <1>11, <1>13
  <2>2. o[2 + 1].off = Align(o[2].off + l[2].len, l[2].pad) BY <1>9, <2>1 DEF DoneOk
  <2>3. o[2].off = p BY <1>6, <1>12
  <2>4. o[3].off = ramdisk BY <1>2, <1>3, <1>5, <1>11, <2>2, <2>3
  <2>5. o[3] = [name |-> l[3].name, off |-> o[3].off, len |-> l[3].len] BY <1>9, <2>1 DEF DoneOk
  <2>6. QED BY <2>4, <2>5
<1>14. CASE j.ramdisk = 0 /\ j.second = 0
  <2>1. Len(l) = 2 BY <1>10, <1>14
  <2>2. DOMAIN o = {1, 2}
    <3>1. 1 .. 2 = {1, 2} OBVIOUS
    <3>2. QED BY <1>12, <2>1, <3>1
  <2>3. ToSet(o) = {H, K} BY <1>12, <2>2 DEF ToSet
  <2>4. QED BY <1>7, <1>8, <1>14, <2>3 DEF Found
<1>15. CASE j.ramdisk = 0 /\ j.second # 0
  <2>1. Len(l) = 3 /\ l[3] = x BY <1>10, <1>15
  <2>2. o[3] = X BY <1>2, <1>3, <1>5, <1>6, <1>13, <1>15, <2>1
  <2>3. DOMAIN o = {1, 2, 3}
    <3>1. 1 .. 3 = {1, 2, 3} OBVIOUS
    <3>2. QED BY <1>12, <2>1, <3>1
  <2>4. ToSet(o) = {H, K, X} BY <1>12, <2>2, <2>3 DEF ToSet
  <2>5. QED BY <1>7, <1>8, <1>15, <2>4 DEF Found
<1>16. CASE j.ramdisk # 0 /\ j.second = 0
  <2>1. Len(l) = 3 /\ l[3] = r BY <1>10, <1>16
  <2>2. o[3] = R BY <1>2, <1>6, <1>13, <2>1
  <2>3. DOMAIN o = {1, 2, 3}
    <3>1. 1 .. 3 = {1, 2, 3} OBVIOUS
    <3>2. QED BY <1>12, <2>1, <3>1
  <2>4. ToSet(o) = {H, K, R} BY <1>12, <2>2, <2>3 DEF ToSet
  <2>5. QED BY <1>7, <1>8, <1>16, <2>4 DEF Found
<1>17. CASE j.ramdisk # 0 /\ j.second # 0
  <2>1. Len(l) = 4 /\ l[3] = r /\ l[4] = x BY <1>10, <1>17
  <2>2. o[3] = R BY <1>2, <1>6, <1>13, <2>1
  <2>3. o[4] = X
    <3>1. 4 \in 1 .. Len(l) /\ 3 \in 1 .. Len(l) - 1 BY <2>1
    <3>2. o[3 + 1].off = Align(o[3].off + l[3].len, l[3].pad) BY <1>9, <3>1 DEF DoneOk
    <3>3. o[3].off = ramdisk BY <1>6, <2>2
    <3>4. o[4].off = second BY <1>2, <1>3, <1>5, <2>1, <3>2, <3>3
    <3>5. o[4] = [name |-> l[4].name, off |-> o[4].off, len |-> l[4].len] BY <1>9, <3>1 DEF DoneOk
    <3>6. QED BY <1>2, <1>6, <2>1, <3>4, <3>5
  <2>4. DOMAIN o = {1, 2, 3, 4}
    <3>1. 1 .. 4 = {1, 2, 3, 4} OBVIOUS
    <3>2. QED BY <1>12, <2>1, <3>1
  <2>5. ToSet(o) = {o[1], o[2], o[3], o[4]} BY <2>4 DEF ToSet
  <2>6. ToSet(o) = {H, K, R, X} BY <1>12, <2>2, <2>3, <2>5
  <2>7. QED BY <1>7, <1>8, <1>17, <2>6 DEF Found
<1>18. QED BY <1>14, <1>15, <1>16, <1>17

LEMMA DtboFoundIs ==
  ASSUME NEW j, j.dtb \in Nat, NEW o, NEW s, DoneOk(DtboParts(j), o, s)
  PROVE  Found(o, {"fdt"}) = DtboReader(j) /\ s = DT_OFFSET + j.dtb
<1>1. PICK h, e, d : h = Part("header", 32, 1) /\ e = Part("entry", 32, 1) /\ d = Part("fdt", j.dtb, 1) OBVIOUS
<1>2. /\ h.name = "header" /\ h.len = 32 /\ h.pad = 1 /\ e.name = "entry" /\ e.len = 32 /\ e.pad = 1
      /\ d.name = "fdt" /\ d.len = j.dtb /\ d.pad = 1
  BY <1>1 DEF Part
<1>3. PICK l : l = DtboParts(j) OBVIOUS
<1>4. l = <<h, e, d>> BY <1>1, <1>3 DEF DtboParts, HEADER_SIZE, ENTRY_SIZE
<1>5. Len(l) = 3 /\ l[1] = h /\ l[2] = e /\ l[3] = d BY <1>4
<1>6. 1 \in 1 .. Len(l) /\ 2 \in 1 .. Len(l) /\ 3 \in 1 .. Len(l) /\ 1 \in 1 .. Len(l) - 1 /\ 2 \in 1 .. Len(l) - 1
      /\ Len(l) > 0
  BY <1>5
<1>7. o[1].off = 0 /\ s = Align(o[Len(l)].off + l[Len(l)].len, l[Len(l)].pad) BY <1>3, <1>6 DEF DoneOk
<1>8. o[1 + 1].off = Align(o[1].off + l[1].len, l[1].pad) /\ o[2 + 1].off = Align(o[2].off + l[2].len, l[2].pad)
  BY <1>3, <1>6 DEF DoneOk
<1>9. \A n \in Nat : Align(n, 1) = n BY AlignIs
<1>10. o[2].off = 32
  <2>1. o[2].off = Align(0 + 32, 1) BY <1>2, <1>5, <1>7, <1>8
  <2>2. QED BY <1>9, <2>1
<1>11. o[3].off = 64
  <2>1. o[3].off = Align(32 + 32, 1) BY <1>2, <1>5, <1>8, <1>10
  <2>2. QED BY <1>9, <2>1
<1>12. s = 64 + j.dtb
  <2>1. s = Align(64 + j.dtb, 1) BY <1>2, <1>5, <1>7, <1>11
  <2>2. 64 + j.dtb \in Nat OBVIOUS
  <2>3. QED BY <1>9, <2>1, <2>2
<1>13. DT_OFFSET = 64 BY DEF DT_OFFSET, HEADER_SIZE, ENTRY_SIZE
<1>14. o[1].name = "header" /\ o[2].name = "entry" /\ o[3] = [name |-> "fdt", off |-> 64, len |-> j.dtb]
  <2>1. /\ o[1].name = l[1].name /\ o[2].name = l[2].name
        /\ o[3] = [name |-> l[3].name, off |-> o[3].off, len |-> l[3].len]
    BY <1>3, <1>6 DEF DoneOk
  <2>2. QED BY <1>2, <1>5, <1>11, <2>1
<1>15. DOMAIN o = {1, 2, 3}
  <2>1. DOMAIN o = 1 .. Len(l) BY <1>3 DEF DoneOk
  <2>2. 1 .. 3 = {1, 2, 3} OBVIOUS
  <2>3. QED BY <1>5, <2>1, <2>2
<1>16. ToSet(o) = {o[1], o[2], o[3]} BY <1>15 DEF ToSet
<1>17. PICK F : F = [name |-> "fdt", off |-> 64, len |-> j.dtb] OBVIOUS
<1>18. F.name = "fdt" /\ DtboReader(j) = {F} BY <1>13, <1>17 DEF DtboReader
<1>19. Found(o, {"fdt"}) = {F} BY <1>14, <1>16, <1>17, <1>18 DEF Found
<1>20. QED BY <1>12, <1>13, <1>18, <1>19

LEMMA CpioFound ==
  ASSUME NEW l, CpioOk(l), NEW o, NEW s, DoneOk(l, o, s), NEW n \in DOMAIN o, o[n].name = "header"
  PROVE  /\ o[n + 2].off = CpioData(o[n].off, o[n + 1].len)
         /\ o[n + 3].off = CpioNext(o[n].off, o[n + 1].len, o[n + 2].len)
<1>1. Len(l) = 43 BY DEF CpioOk
<1>2. n \in 1 .. 43 /\ DOMAIN o = 1 .. 43 BY <1>1 DEF DoneOk
<1>3. \A i \in 1 .. 43 : o[i].off \in Nat /\ l[i].len \in Nat /\ o[i].name = l[i].name /\ o[i].len = l[i].len
  BY <1>1 DEF DoneOk
<1>4. \A i \in 1 .. 42 : o[i + 1].off = Align(o[i].off + l[i].len, l[i].pad)
  <2>1. Len(l) - 1 = 42 BY <1>1
  <2>2. QED BY <2>1 DEF DoneOk
<1>5. n + 3 <= 43 /\ l[n].len = CPIO_HDR /\ l[n].pad = 1 /\ l[n + 1].pad = 4 /\ l[n + 2].pad = 4
  BY <1>2, <1>3 DEF CpioOk
<1>6. n \in 1 .. 42 /\ n + 1 \in 1 .. 42 /\ n + 2 \in 1 .. 42 /\ n + 1 \in 1 .. 43 /\ n + 2 \in 1 .. 43 BY <1>2, <1>5
<1>7. (n + 1) + 1 = n + 2 /\ (n + 2) + 1 = n + 3 BY <1>2
<1>8. PICK a, b, c : a = o[n].off /\ b = o[n + 1].len /\ c = o[n + 2].len OBVIOUS
<1>9. a \in Nat /\ b \in Nat /\ c \in Nat /\ b = l[n + 1].len /\ c = l[n + 2].len BY <1>2, <1>3, <1>6, <1>8
<1>10. CPIO_HDR \in Nat BY DEF CPIO_HDR
<1>11. o[n + 1].off = a + CPIO_HDR
  <2>1. o[n + 1].off = Align(a + CPIO_HDR, 1) BY <1>4, <1>5, <1>6, <1>8
  <2>2. a + CPIO_HDR \in Nat BY <1>9, <1>10
  <2>3. QED BY <2>1, <2>2, AlignIs
<1>12. o[n + 2].off = Align(a + CPIO_HDR + b, 4)
  <2>1. o[(n + 1) + 1].off = Align(o[n + 1].off + l[n + 1].len, l[n + 1].pad) BY <1>4, <1>6
  <2>2. QED BY <1>5, <1>7, <1>9, <1>11, <2>1
<1>13. o[n + 3].off = Align(o[n + 2].off + c, 4)
  <2>1. o[(n + 2) + 1].off = Align(o[n + 2].off + l[n + 2].len, l[n + 2].pad) BY <1>4, <1>6
  <2>2. QED BY <1>5, <1>7, <1>9, <2>1
<1>14. QED BY <1>8, <1>12, <1>13 DEF CpioData, CpioNext

\* For every size of their inputs, U-Boot finds the areas of a boot.img and the
\* tree of a dtbo.img where it looks for them, and the kernel's walk over the
\* initramfs meets every entry (mkbootimg.py 74-78, mkdtboimg.py 28-54,
\* mkinitramfs.py 33-58).
THEOREM PartsCorrect == ASSUME PagesAssumption, SizesAssumption PROVE PackSpec => []PartsFound
<1>1. PackInv => PartsFound
  <2>1. SUFFICES ASSUME PackInv, done = "ok" PROVE PartsFound
    BY DEF PartsFound, BootAreasFound, DtboFound, CpioWalk
  <2>2. PICK j, l, o, s : j = job /\ l = Parts(job) /\ o = out /\ s = size OBVIOUS
  <2>3. j \in Jobs /\ Walk(l, <<>>, o, s) BY <2>1, <2>2 DEF PackInv
  <2>4. l \in Seq(PartSet) BY <2>2, <2>3, PartsAre
  <2>5. DoneOk(l, o, s) BY <2>3, <2>4, DoneIs
  <2>6. ASSUME j.tool = "boot", j.page >= HDR PROVE Written(Areas) = BootReader(job)
    <3>1. l = BootParts(j) BY <2>2, <2>6 DEF Parts
    <3>2. j.page \in Nat \ {0} /\ j.kernel \in Nat /\ j.ramdisk \in Nat /\ j.second \in Nat BY <2>3, <2>6, JobIs
    <3>3. Found(o, Areas) = BootReader(j) BY <2>5, <2>6, <3>1, <3>2, BootFound
    <3>4. QED BY <2>2, <3>3 DEF Found, Written
  <2>7. ASSUME j.tool = "dtbo" PROVE Written({"fdt"}) = DtboReader(job) /\ size = DT_OFFSET + job.dtb
    <3>1. l = DtboParts(j) BY <2>2, <2>7 DEF Parts
    <3>2. j.dtb \in Nat BY <2>3, <2>7, JobIs
    <3>3. Found(o, {"fdt"}) = DtboReader(j) /\ s = DT_OFFSET + j.dtb BY <2>5, <3>1, <3>2, DtboFoundIs
    <3>4. QED BY <2>2, <3>3 DEF Found, Written
  <2>8. ASSUME j.tool = "cpio", NEW n \in DOMAIN out, out[n].name = "header"
        PROVE  /\ out[n + 2].off = CpioData(out[n].off, out[n + 1].len)
               /\ out[n + 3].off = CpioNext(out[n].off, out[n + 1].len, out[n + 2].len)
    <3>1. l = CpioParts(j) BY <2>2, <2>8 DEF Parts
    <3>2. j.busybox \in Nat /\ j.init \in Nat BY <2>3, <2>8, JobIs
    <3>3. CpioOk(l) BY <3>1, <3>2, CpioIs
    <3>4. QED BY <2>2, <2>5, <2>8, <3>3, CpioFound
  <2>9. BootAreasFound BY <2>2, <2>6 DEF BootAreasFound, Areas
  <2>10. DtboFound BY <2>2, <2>7 DEF DtboFound
  <2>11. CpioWalk BY <2>2, <2>8 DEF CpioWalk
  <2>12. QED BY <2>9, <2>10, <2>11 DEF PartsFound
<1>2. QED BY <1>1, PackInvariance, PTL
=============================================================================
