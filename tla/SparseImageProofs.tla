------------------------- MODULE SparseImageProofs -------------------------
(***************************************************************************)
(* For every raw image and block size: the chunks that convert() finds are *)
(* maximal, verify() accepts what convert() has written unless a size has  *)
(* no 32 bits, and flashing writes the blocks that are not zero, each in   *)
(* its place.                                                              *)
(*                                                                         *)
(* The invariant of the coalescing loop (ListInv): the chunks closed so    *)
(* far tile the blocks below i, a RAW chunk holds its blocks, which are    *)
(* not zero, and a DONT_CARE chunk spans zero blocks. The place of a chunk *)
(* is a sum over the chunks before it, so appending one moves no other     *)
(* (StartAppend).                                                          *)
(***************************************************************************)
EXTENDS SparseImage, TLAPS, WellFoundedInduction

Block == [1 .. BLK_SZ -> Byte]
Chunk == [type : {"RAW", "DONT_CARE"}, blks : Nat, data : Seq(Block)]

\* Block m lies in chunk n.
Holds(cs, n, m) == Start(cs, n) <= m /\ m < Start(cs, n + 1)

\* Chunk c, which begins at block from, has what it should of the image.
Right(c, from) ==
  /\ from + c.blks <= TotalBlks
  /\ ChunkOk(c)
  /\ \A m \in Nat : from <= m /\ m < from + c.blks =>
       IF c.type = "RAW" THEN ~IsZero(m) /\ c.data[m - from + 1] = Blk(m) ELSE IsZero(m)

Tiles(cs, top) ==
  /\ \A n \in 1 .. Len(cs) : Right(cs[n], Start(cs, n))
  /\ Start(cs, Len(cs) + 1) = top
  /\ \A m \in Nat : m < top => \E n \in 1 .. Len(cs) : Holds(cs, n, m)

Scanning == {"scan", "run"}
Writing == {"write", "verify", "ready"}

TypeInv ==
  /\ pc \in Scanning \cup Writing \cup {"flashed", "failed"}
  /\ raw \in Seq(Byte)
  /\ i \in Nat /\ j \in Nat
  /\ chunks \in Seq(Chunk)

\* The run being scanned.
RunInv ==
  /\ pc \in Scanning => i <= TotalBlks
  /\ pc \notin Scanning => i = TotalBlks
  /\ pc = "run" => /\ i < j /\ j <= TotalBlks
                   /\ \A m \in Nat : i <= m /\ m < j => (IsZero(m) <=> IsZero(i))

\* The last chunk closed is not of the kind of block i.
LastInv == i < TotalBlks /\ chunks # <<>> => (chunks[Len(chunks)].type = "RAW" <=> IsZero(i))

ListInv == Tiles(chunks, i)

FileInv ==
  /\ pc \in Writing =>
       /\ simg.total_blks = TotalBlks /\ simg.total_chunks = Len(chunks)
       /\ simg.chunks \in Seq(Chunk) /\ Len(simg.chunks) <= Len(chunks)
       /\ \A n \in 1 .. Len(simg.chunks) : simg.chunks[n] = chunks[n]
  /\ pc \in {"verify", "ready"} => simg.chunks = chunks

PartInv ==
  pc # "flashed" => part \in {[m \in 0 .. TotalBlks |-> ZeroBlk], [m \in 0 .. TotalBlks |-> Stale]}

\* verify() rejects nothing that convert() has written: a conversion fails only
\* on a size that has no 32 bits (lines 93-100 against 105-147).
FailsOnlyOnOverflow == pc = "failed" => Overflows

IInv ==
  /\ TypeInv /\ RunInv /\ LastInv /\ ListInv /\ FileInv /\ PartInv
  /\ Coalesced /\ OnlyRawWritten /\ FailsOnlyOnOverflow

-----------------------------------------------------------------------------
(* Start: the recursive sum is what its equation says, and a list that     *)
(* grows keeps the places of its chunks.                                   *)

LEMMA NatInd ==
  ASSUME NEW S \in SUBSET Nat, 0 \in S, \A m \in S : m + 1 \in S
  PROVE  S = Nat
<1>1. SUFFICES ASSUME Nat \ S # {} PROVE FALSE
  OBVIOUS
<1>2. PICK x \in Nat \ S : \A y \in Nat \ S : ~(<<y, x>> \in OpToRel(<, Nat))
  <2>1. Nat \ S \subseteq Nat OBVIOUS
  <2>2. QED BY <1>1, <2>1, NatLessThanWellFounded, WFMin
<1>3. x # 0 /\ x - 1 \in Nat
  OBVIOUS
<1>4. x - 1 \in S
  <2>1. SUFFICES ASSUME x - 1 \in Nat \ S PROVE FALSE
    BY <1>3
  <2>2. <<x - 1, x>> \in OpToRel(<, Nat)
    BY <1>3 DEF OpToRel
  <2>3. QED BY <1>2, <2>1, <2>2
<1>5. QED BY <1>3, <1>4

LEMMA StartsUnfold ==
  ASSUME NEW cs \in Seq(Chunk)
  PROVE  Starts(cs) = [n \in 0 .. Len(cs) |-> IF n = 0 THEN 0 ELSE Starts(cs)[n - 1] + cs[n].blks]
<1> DEFINE Step(x, n) == x + cs[n].blks
           Upto(m, w) == w = [n \in 0 .. m |-> IF n = 0 THEN 0 ELSE Step(w[n - 1], n)]
           S == {m \in Nat : \E w : Upto(m, w)}
<1> HIDE DEF Step
<1>1. 0 \in S
  <2>1. Upto(0, [n \in 0 .. 0 |-> 0])
    OBVIOUS
  <2>2. QED BY <2>1
<1>2. ASSUME NEW m \in S PROVE m + 1 \in S
  <2>1. PICK w : Upto(m, w)
    OBVIOUS
  <2> DEFINE v == [n \in 0 .. m + 1 |-> IF n = m + 1 THEN Step(w[m], m + 1) ELSE w[n]]
  <2>2. \A n \in 0 .. m + 1 : v[n] = IF n = 0 THEN 0 ELSE Step(v[n - 1], n)
    <3>1. TAKE n \in 0 .. m + 1
    <3>2. CASE n = m + 1
      BY <3>2
    <3>3. CASE n # m + 1
      <4>1. n \in 0 .. m /\ v[n] = w[n] /\ (n # 0 => n - 1 \in 0 .. m /\ v[n - 1] = w[n - 1])
        BY <3>3
      <4>2. w[n] = IF n = 0 THEN 0 ELSE Step(w[n - 1], n)
        BY <2>1, <4>1
      <4>3. QED BY <4>1, <4>2
    <3>4. QED BY <3>2, <3>3
  <2>3. Upto(m + 1, v)
    BY <2>2
  <2>4. \E x : Upto(m + 1, x)
    <3> HIDE DEF Upto, v
    <3>1. QED BY <2>3
  <2>5. QED BY <2>4
<1>3. Len(cs) \in S
  <2>1. S = Nat
    <3> HIDE DEF S
    <3>1. S \in SUBSET Nat BY DEF S
    <3>2. QED BY <1>1, <1>2, <3>1, NatInd
  <2>2. QED BY <2>1
<1>4. PICK x : Upto(Len(cs), x)
  BY <1>3
<1>5. Starts(cs) = CHOOSE w : Upto(Len(cs), w)
  BY DEF Starts, Step
<1>6. Upto(Len(cs), Starts(cs))
  BY <1>4, <1>5
<1>7. QED BY <1>6 DEF Step

LEMMA StartStep ==
  ASSUME NEW cs \in Seq(Chunk)
  PROVE  /\ Start(cs, 1) = 0
         /\ \A n \in 1 .. Len(cs) : Start(cs, n + 1) = Start(cs, n) + cs[n].blks
<1>1. Starts(cs)[0] = 0
  BY StartsUnfold
<1>2. \A n \in 1 .. Len(cs) : Starts(cs)[n] = Starts(cs)[n - 1] + cs[n].blks
  BY StartsUnfold
<1>3. \A n \in 1 .. Len(cs) : (n + 1) - 1 = n
  OBVIOUS
<1>4. QED BY <1>1, <1>2, <1>3 DEF Start

LEMMA StartNat ==
  ASSUME NEW cs \in Seq(Chunk)
  PROVE  \A n \in 1 .. Len(cs) + 1 : Start(cs, n) \in Nat
<1> DEFINE S == {m \in Nat : m <= Len(cs) => Start(cs, m + 1) \in Nat}
<1>1. 0 \in S
  BY StartStep
<1>2. ASSUME NEW m \in S PROVE m + 1 \in S
  <2>1. SUFFICES ASSUME m + 1 <= Len(cs) PROVE Start(cs, (m + 1) + 1) \in Nat
    OBVIOUS
  <2>2. m + 1 \in 1 .. Len(cs) /\ Start(cs, m + 1) \in Nat
    BY <2>1
  <2>3. cs[m + 1].blks \in Nat
    <3>1. cs[m + 1] \in Chunk BY <2>2
    <3>2. QED BY <3>1 DEF Chunk
  <2>4. Start(cs, (m + 1) + 1) = Start(cs, m + 1) + cs[m + 1].blks
    BY <2>2, StartStep
  <2>5. QED BY <2>2, <2>3, <2>4
<1>3. S = Nat
  <2> HIDE DEF S
  <2>1. S \in SUBSET Nat BY DEF S
  <2>2. QED BY <1>1, <1>2, <2>1, NatInd
<1>4. TAKE n \in 1 .. Len(cs) + 1
<1>5. n - 1 \in S /\ n - 1 <= Len(cs) /\ (n - 1) + 1 = n
  <2>1. Len(cs) \in Nat /\ n \in Nat OBVIOUS
  <2>2. n - 1 \in Nat /\ n - 1 <= Len(cs) /\ (n - 1) + 1 = n
    BY <2>1
  <2> HIDE DEF S
  <2>3. QED BY <1>3, <2>2
<1>6. QED BY <1>5

LEMMA StartAppend ==
  ASSUME NEW cs \in Seq(Chunk), NEW c \in Chunk
  PROVE  \A n \in 1 .. Len(cs) + 1 : Start(Append(cs, c), n) = Start(cs, n)
<1> DEFINE ds == Append(cs, c)
           S == {m \in Nat : m <= Len(cs) => Start(ds, m + 1) = Start(cs, m + 1)}
<1>1. ds \in Seq(Chunk) /\ Len(ds) = Len(cs) + 1 /\ \A n \in 1 .. Len(cs) : ds[n] = cs[n]
  OBVIOUS
<1>2. 0 \in S
  <2> HIDE DEF ds
  <2>1. QED BY <1>1, StartStep
<1>3. ASSUME NEW m \in S PROVE m + 1 \in S
  <2> HIDE DEF ds
  <2>1. SUFFICES ASSUME m + 1 <= Len(cs) PROVE Start(ds, (m + 1) + 1) = Start(cs, (m + 1) + 1)
    OBVIOUS
  <2>2. m + 1 \in 1 .. Len(cs) /\ m + 1 \in 1 .. Len(ds) /\ Start(ds, m + 1) = Start(cs, m + 1)
    BY <1>1, <2>1
  <2>3. Start(ds, (m + 1) + 1) = Start(ds, m + 1) + ds[m + 1].blks
    BY <1>1, <2>2, StartStep
  <2>4. Start(cs, (m + 1) + 1) = Start(cs, m + 1) + cs[m + 1].blks
    BY <2>2, StartStep
  <2>5. QED BY <1>1, <2>2, <2>3, <2>4
<1>4. S = Nat
  <2> HIDE DEF S
  <2>1. S \in SUBSET Nat BY DEF S
  <2>2. QED BY <1>2, <1>3, <2>1, NatInd
<1>5. TAKE n \in 1 .. Len(cs) + 1
<1>6. n - 1 \in S /\ n - 1 <= Len(cs) /\ (n - 1) + 1 = n
  <2>1. Len(cs) \in Nat /\ n \in Nat OBVIOUS
  <2>2. n - 1 \in Nat /\ n - 1 <= Len(cs) /\ (n - 1) + 1 = n
    BY <2>1
  <2> HIDE DEF S
  <2>3. QED BY <1>4, <2>2
<1>7. QED BY <1>6

-----------------------------------------------------------------------------
(* The image: no step changes it. *)

LEMMA TotalBlksNat == ASSUME raw \in Seq(Byte) PROVE TotalBlks \in Nat
<1>1. \A a \in Nat, b \in Nat \ {0} : (a + b - 1) \div b \in Nat
  OBVIOUS
<1>2. Len(raw) \in Nat OBVIOUS
<1>3. QED BY <1>1, <1>2, BlockAssumption DEF TotalBlks

LEMMA BlkType == ASSUME raw \in Seq(Byte), NEW m \in Nat PROVE Blk(m) \in Block
<1>1. ASSUME NEW o \in 1 .. BLK_SZ, m * BLK_SZ + o <= Len(raw) PROVE raw[m * BLK_SZ + o] \in Byte
  <2>1. m * BLK_SZ \in Nat BY BlockAssumption
  <2>2. m * BLK_SZ + o \in 1 .. Len(raw) BY <1>1, <2>1, BlockAssumption
  <2>3. QED BY <2>2
<1>2. QED BY <1>1, ByteAssumption DEF Blk, Block

LEMMA SameImage ==
  ASSUME raw' = raw
  PROVE  /\ TotalBlks' = TotalBlks
         /\ \A m : Blk(m)' = Blk(m) /\ (IsZero(m)' <=> IsZero(m))
         /\ \A c, from : Right(c, from)' <=> Right(c, from)
BY DEF TotalBlks, Blk, IsZero, Right, ZeroBlk, ChunkOk

LEMMA InitInv == ASSUME Init PROVE IInv
<1>1. /\ pc = "scan" /\ i = 0 /\ j = 0 /\ chunks = <<>>
  BY DEF Init
<1>2. raw \in Seq(Byte)
  BY MaxLenAssumption DEF Init
<1>3. TotalBlks \in Nat BY <1>2, TotalBlksNat
<1>4. <<>> \in Seq(Chunk) /\ Len(<<>>) = 0
  OBVIOUS
<1>5. ListInv
  <2>1. Start(<<>>, 1) = 0 BY <1>4, StartStep
  <2>2. Len(<<>>) + 1 = 1 /\ 1 .. Len(<<>>) = {} BY <1>4
  <2>3. \A m \in Nat : ~(m < 0) OBVIOUS
  <2>4. QED BY <1>1, <2>1, <2>2, <2>3 DEF ListInv, Tiles
<1>6. PartInv
  BY PartitionsAssumption DEF Init, PartInv
<1>7. TypeInv /\ RunInv /\ LastInv /\ FileInv /\ Coalesced
  BY <1>1, <1>2, <1>3, <1>4
     DEF TypeInv, RunInv, LastInv, FileInv, Coalesced, Scanning, Writing
<1>8. QED BY <1>1, <1>5, <1>6, <1>7 DEF IInv, OnlyRawWritten, FailsOnlyOnOverflow

\* What a step keeps that leaves the image and the list alone.
LEMMA ListKept ==
  ASSUME IInv, raw' = raw, chunks' = chunks, i' = i
  PROVE  ListInv' /\ LastInv' /\ Coalesced' /\ TotalBlks' = TotalBlks /\ TotalBlks \in Nat
<1>1. TotalBlks' = TotalBlks /\ TotalBlks \in Nat
  BY SameImage, TotalBlksNat DEF IInv, TypeInv
<1>2. Coalesced' BY DEF IInv, Coalesced
<1>3. LastInv'
  BY <1>1, SameImage DEF IInv, LastInv
<1>4. ListInv'
  <2>1. \A n, m : (Start(chunks, n))' = Start(chunks, n) /\ (Holds(chunks, n, m)' <=> Holds(chunks, n, m))
    BY DEF Holds, Start, Starts
  <2>2. Tiles(chunks, i) BY DEF IInv, ListInv
  <2>3. QED BY <2>1, <2>2, SameImage DEF ListInv, Tiles
<1>5. QED BY <1>1, <1>2, <1>3, <1>4

LEMMA ScanInv == ASSUME IInv, Begin \/ Extend PROVE IInv'
<1>1. /\ raw' = raw /\ chunks' = chunks /\ i' = i /\ simg' = simg /\ part' = part
      /\ pc \in Scanning /\ pc' = "run"
  BY DEF Begin, Extend, Scanning
<1>2. ListInv' /\ LastInv' /\ Coalesced' /\ TotalBlks' = TotalBlks /\ TotalBlks \in Nat
  BY <1>1, ListKept
<1>3. TypeInv'
  BY <1>1 DEF IInv, TypeInv, Begin, Extend, Scanning
<1>4. RunInv'
  <2>1. i < j' /\ j' <= TotalBlks
    BY <1>2 DEF IInv, TypeInv, RunInv, Begin, Extend
  <2>2. ASSUME NEW m \in Nat, i <= m, m < j' PROVE IsZero(m) <=> IsZero(i)
    <3>1. CASE Begin
      <4>1. m = i BY <2>2, <3>1 DEF Begin, IInv, TypeInv
      <4>2. QED BY <4>1
    <3>2. CASE Extend
      <4>1. m < j \/ m = j BY <2>2, <3>2 DEF Extend, IInv, TypeInv
      <4>2. m < j => (IsZero(m) <=> IsZero(i))
        BY <2>2, <3>2 DEF Extend, IInv, RunInv
      <4>3. IsZero(j) <=> IsZero(i) BY <3>2 DEF Extend, IsZero
      <4>4. QED BY <4>1, <4>2, <4>3
    <3>3. QED BY <3>1, <3>2
  <2>3. QED BY <1>1, <1>2, <2>1, <2>2, SameImage DEF RunInv, Scanning, IInv
<1>5. FileInv' /\ PartInv'
  BY <1>1, <1>2 DEF IInv, FileInv, PartInv, Scanning, Writing, ZeroBlk, Stale
<1>6. QED BY <1>1, <1>2, <1>3, <1>4, <1>5 DEF IInv, OnlyRawWritten, FailsOnlyOnOverflow

-----------------------------------------------------------------------------
(* A run is closed. *)

\* The chunk that Close appends.
Closed == IF IsZero(i) THEN DontCare(j - i) ELSE Raw(i, j)

LEMMA ClosedRight ==
  ASSUME IInv, pc = "run"
  PROVE  /\ Closed \in Chunk /\ Closed.blks = j - i /\ j - i \in Nat
         /\ (Closed.type = "RAW" <=> ~IsZero(i)) /\ Right(Closed, i)
<1>1. /\ i \in Nat /\ j \in Nat /\ j - i \in Nat /\ i < j /\ j <= TotalBlks
      /\ \A m \in Nat : i <= m /\ m < j => (IsZero(m) <=> IsZero(i))
      /\ raw \in Seq(Byte) /\ TotalBlks \in Nat
  BY TotalBlksNat DEF IInv, TypeInv, RunInv
<1>2. i + (j - i) = j BY <1>1
<1>3. CASE IsZero(i)
  <2>1. Closed = [type |-> "DONT_CARE", blks |-> j - i, data |-> <<>>]
    BY <1>3 DEF Closed, DontCare
  <2>2. Closed \in Chunk BY <1>1, <2>1 DEF Chunk
  <2>3. ChunkOk(Closed) BY <2>1 DEF ChunkOk
  <2>4. QED BY <1>1, <1>2, <1>3, <2>1, <2>2, <2>3 DEF Right
<1>4. CASE ~IsZero(i)
  <2> DEFINE d == [n \in 1 .. j - i |-> Blk(i + n - 1)]
  <2>1. Closed = [type |-> "RAW", blks |-> j - i, data |-> d]
    BY <1>4 DEF Closed, Raw
  <2>2. \A n \in 1 .. j - i : i + n - 1 \in Nat
    BY <1>1
  <2>3. d \in Seq(Block) /\ Len(d) = j - i
    <3>1. \A n \in 1 .. j - i : Blk(i + n - 1) \in Block
      BY <1>1, <2>2, BlkType
    <3>2. QED BY <1>1, <3>1
  <2>4. \A m \in Nat : i <= m /\ m < j => d[m - i + 1] = Blk(m)
    <3>1. TAKE m \in Nat
    <3>2. HAVE i <= m /\ m < j
    <3>3. m - i + 1 \in 1 .. j - i /\ i + (m - i + 1) - 1 = m
      BY <1>1, <3>2
    <3>4. QED BY <3>3
  <2> HIDE DEF d
  <2>5. Closed \in Chunk BY <1>1, <2>1, <2>3 DEF Chunk
  <2>6. ChunkOk(Closed) BY <2>1, <2>3 DEF ChunkOk
  <2>7. QED BY <1>1, <1>2, <1>4, <2>1, <2>4, <2>5, <2>6 DEF Right
<1>5. QED BY <1>3, <1>4

\* A list that tiles the blocks below top, and a chunk that begins at top.
LEMMA TilesAppend ==
  ASSUME NEW cs \in Seq(Chunk), NEW top \in Nat, Tiles(cs, top), NEW c \in Chunk, Right(c, top)
  PROVE  Tiles(Append(cs, c), top + c.blks)
<1> DEFINE ds == Append(cs, c)
           n == Len(cs)
<1>1. ds \in Seq(Chunk) /\ Len(ds) = n + 1 /\ ds[n + 1] = c /\ n \in Nat
  OBVIOUS
<1>2. \A x \in 1 .. n : ds[x] = cs[x]
  OBVIOUS
<1>3. \A x \in 1 .. n + 1 : Start(ds, x) = Start(cs, x)
  BY StartAppend
<1>4. Start(cs, n + 1) = top
  BY DEF Tiles
<1>5. c.blks \in Nat BY DEF Chunk
<1> HIDE DEF ds, n
<1>6. Start(ds, (n + 1) + 1) = top + c.blks
  BY <1>1, <1>3, <1>4, StartStep
<1>7. \A x \in 1 .. Len(ds) : Right(ds[x], Start(ds, x))
  <2>1. TAKE x \in 1 .. Len(ds)
  <2>2. CASE x \in 1 .. n
    BY <1>1, <1>2, <1>3, <2>2 DEF Tiles, n
  <2>3. CASE x = n + 1
    BY <1>1, <1>3, <1>4, <2>3
  <2>4. QED BY <1>1, <2>2, <2>3
<1>8. ASSUME NEW m \in Nat, m < top + c.blks PROVE \E x \in 1 .. Len(ds) : Holds(ds, x, m)
  <2>1. CASE m < top
    <3>1. PICK x \in 1 .. n : Holds(cs, x, m)
      BY <2>1 DEF Tiles, n
    <3>2. x \in 1 .. n + 1 /\ x + 1 \in 1 .. n + 1 /\ x \in 1 .. Len(ds)
      BY <1>1
    <3>3. QED BY <1>3, <3>1, <3>2 DEF Holds
  <2>2. CASE ~(m < top)
    <3>1. top <= m BY <2>2
    <3>2. n + 1 \in 1 .. Len(ds) /\ n + 1 \in 1 .. n + 1 BY <1>1
    <3>3. Holds(ds, n + 1, m)
      BY <1>3, <1>4, <1>6, <1>8, <3>1, <3>2 DEF Holds
    <3>4. QED BY <3>2, <3>3
  <2>3. QED BY <2>1, <2>2
<1>9. QED BY <1>1, <1>6, <1>7, <1>8 DEF Tiles, ds

LEMMA CloseInv == ASSUME IInv, Close PROVE IInv'
<1>1. /\ pc = "run" /\ pc' = "scan" /\ chunks' = Append(chunks, Closed) /\ i' = j
      /\ raw' = raw /\ j' = j /\ simg' = simg /\ part' = part
  BY DEF Close, Closed
<1>2. /\ chunks \in Seq(Chunk) /\ i \in Nat /\ j \in Nat /\ i < j /\ j <= TotalBlks
      /\ TotalBlks \in Nat /\ raw \in Seq(Byte)
  BY <1>1, TotalBlksNat DEF IInv, TypeInv, RunInv
<1>3. /\ Closed \in Chunk /\ Closed.blks = j - i /\ j - i \in Nat
      /\ (Closed.type = "RAW" <=> ~IsZero(i)) /\ Right(Closed, i)
  BY <1>1, ClosedRight
<1>4. TotalBlks' = TotalBlks BY <1>1, SameImage
<1>5. TypeInv' /\ RunInv'
  BY <1>1, <1>2, <1>3, <1>4 DEF TypeInv, RunInv, Scanning, Writing
<1>6. ListInv'
  <2>1. i + Closed.blks = j BY <1>2, <1>3
  <2>2. Tiles(Append(chunks, Closed), j)
    BY <1>2, <1>3, <2>1, TilesAppend DEF IInv, ListInv
  <2>3. Tiles(chunks', i')
    BY <1>1, <2>2
  <2>4. QED BY <1>1, <2>3, SameImage DEF ListInv, Tiles, Holds, Start, Starts
<1>7. /\ Len(chunks') = Len(chunks) + 1 /\ Len(chunks) \in Nat
      /\ chunks'[Len(chunks) + 1] = Closed
      /\ \A n \in 1 .. Len(chunks) : chunks'[n] = chunks[n]
  BY <1>1, <1>2, <1>3
<1>8. LastInv'
  <2>1. j < TotalBlks => (IsZero(j) <=> ~IsZero(i))
    BY <1>2 DEF Close, IsZero
  <2>2. QED BY <1>1, <1>3, <1>4, <1>7, <2>1, SameImage DEF LastInv
<1>9. Coalesced'
  <2>1. SUFFICES ASSUME NEW n \in 1 .. Len(chunks') - 1 PROVE chunks'[n].type # chunks'[n + 1].type
    BY DEF Coalesced
  <2>2. CASE n + 1 <= Len(chunks)
    <3>1. n \in 1 .. Len(chunks) - 1 /\ n \in 1 .. Len(chunks) /\ n + 1 \in 1 .. Len(chunks)
      BY <1>7, <2>2
    <3>2. QED BY <1>7, <3>1 DEF IInv, Coalesced
  <2>3. CASE n = Len(chunks)
    <3>1. chunks # <<>> /\ n \in 1 .. Len(chunks)
      BY <1>2, <2>3
    <3>2. chunks[n].type = "RAW" <=> IsZero(i)
      BY <1>2, <2>3, <3>1 DEF IInv, LastInv
    <3>3. chunks'[n] = chunks[n] /\ chunks'[n + 1] = Closed
      BY <1>7, <2>3, <3>1
    <3>4. QED BY <1>3, <3>2, <3>3
  <2>4. QED BY <1>7, <2>2, <2>3
<1>10. FileInv' /\ PartInv'
  BY <1>1, <1>4 DEF IInv, FileInv, PartInv, Writing, ZeroBlk, Stale
<1>11. QED BY <1>1, <1>5, <1>6, <1>8, <1>9, <1>10 DEF IInv, OnlyRawWritten, FailsOnlyOnOverflow

-----------------------------------------------------------------------------
(* The file is written and read back. *)

LEMMA WriteInv == ASSUME IInv, WriteHeader \/ WriteChunk \/ WriteDone PROVE IInv'
<1>1. /\ raw' = raw /\ chunks' = chunks /\ i' = i /\ j' = j /\ part' = part
      /\ pc \in {"scan", "write"} /\ pc' \in {"write", "verify", "failed"}
  BY DEF WriteHeader, WriteChunk, WriteDone
<1>2. ListInv' /\ LastInv' /\ Coalesced' /\ TotalBlks' = TotalBlks /\ TotalBlks \in Nat
  BY <1>1, ListKept
<1>3. chunks \in Seq(Chunk) /\ Len(chunks) \in Nat
  BY DEF IInv, TypeInv
<1>4. TypeInv'
  BY <1>1 DEF IInv, TypeInv, Scanning, Writing
<1>5. i = TotalBlks
  BY DEF IInv, RunInv, Scanning, WriteHeader, WriteChunk, WriteDone
<1>6. RunInv' /\ PartInv'
  BY <1>1, <1>2, <1>5 DEF IInv, RunInv, PartInv, Scanning, ZeroBlk, Stale
<1>7. FileInv' /\ FailsOnlyOnOverflow'
  <2>1. CASE WriteHeader
    <3>1. <<>> \in Seq(Chunk) /\ Len(<<>>) = 0 OBVIOUS
    <3>2. simg' = [total_blks |-> TotalBlks, total_chunks |-> Len(chunks), chunks |-> <<>>] /\ pc' = "write"
      BY <2>1 DEF WriteHeader
    <3>3. QED BY <1>1, <1>2, <1>3, <3>1, <3>2 DEF FileInv, FailsOnlyOnOverflow, Writing
  <2>2. CASE WriteChunk
    <3> DEFINE m == Len(simg.chunks)
               c == chunks[m + 1]
    <3>1. /\ simg.total_blks = TotalBlks /\ simg.total_chunks = Len(chunks)
          /\ simg.chunks \in Seq(Chunk) /\ m \in Nat /\ m + 1 \in 1 .. Len(chunks)
          /\ \A n \in 1 .. m : simg.chunks[n] = chunks[n]
      BY <1>3, <2>2 DEF WriteChunk, IInv, FileInv, Writing
    <3>2. c \in Chunk BY <1>3, <3>1
    <3>3. CASE TotalSz(c) < U32
      <4>1. simg' = [simg EXCEPT !.chunks = Append(@, c)] /\ pc' = "write"
        BY <2>2, <3>3 DEF WriteChunk
      <4>2. simg.chunks \in Seq(Chunk) /\ simg'.chunks = Append(simg.chunks, c)
        BY <3>1, <4>1
      <4>3. simg'.total_blks = TotalBlks /\ simg'.total_chunks = Len(chunks)
        BY <3>1, <4>1
      <4>4. /\ simg'.chunks \in Seq(Chunk) /\ Len(simg'.chunks) = m + 1
            /\ simg'.chunks[m + 1] = c /\ \A n \in 1 .. m : simg'.chunks[n] = simg.chunks[n]
        BY <3>2, <4>2
      <4>5. \A n \in 1 .. Len(simg'.chunks) : simg'.chunks[n] = chunks[n]
        <5> HIDE DEF m, c
        <5>1. \A n \in 1 .. m + 1 : n \in 1 .. m \/ n = m + 1
          BY <3>1
        <5>2. c = chunks[m + 1] BY DEF c
        <5>3. QED BY <3>1, <4>4, <5>1, <5>2
      <4>6. Len(simg'.chunks) <= Len(chunks) BY <1>3, <3>1, <4>4
      <4>7. QED BY <1>1, <1>2, <4>1, <4>3, <4>4, <4>5, <4>6 DEF FileInv, FailsOnlyOnOverflow, Writing
    <3>4. CASE ~(TotalSz(c) < U32)
      <4>1. pc' = "failed" BY <2>2, <3>4 DEF WriteChunk
      <4>2. TotalSz(c) \in Nat
        <5>1. Len(c.data) \in Nat BY <3>2 DEF Chunk
        <5>2. QED BY <5>1, BlockAssumption DEF TotalSz, CHUNK_HDR_SZ
      <4>3. TotalSz(c) >= U32 BY <3>4, <4>2, U32Assumption
      <4>4. Overflows BY <3>1, <4>3 DEF Overflows
      <4>5. Overflows' BY <1>1, <4>4 DEF Overflows, TotalSz
      <4>6. QED BY <4>1, <4>5 DEF FileInv, FailsOnlyOnOverflow, Writing
    <3>5. QED BY <3>3, <3>4
  <2>3. CASE WriteDone
    <3>1. pc = "write" /\ pc' = "verify" /\ simg' = simg /\ Len(simg.chunks) = Len(chunks)
      BY <2>3 DEF WriteDone
    <3>2. simg.chunks \in Seq(Chunk) /\ \A n \in 1 .. Len(simg.chunks) : simg.chunks[n] = chunks[n]
      BY <3>1 DEF IInv, FileInv, Writing
    <3>3. simg.chunks = chunks
      BY <1>3, <3>1, <3>2
    <3>4. QED BY <1>1, <1>2, <3>1, <3>3 DEF IInv, FileInv, FailsOnlyOnOverflow, Writing
  <2>4. QED BY <2>1, <2>2, <2>3
<1>8. QED BY <1>1, <1>2, <1>4, <1>6, <1>7 DEF IInv, OnlyRawWritten

LEMMA VerifyInv == ASSUME IInv, Verify PROVE IInv'
<1>1. /\ raw' = raw /\ chunks' = chunks /\ i' = i /\ j' = j /\ part' = part /\ simg' = simg
      /\ pc = "verify" /\ pc' = IF Accepts(simg) THEN "ready" ELSE "failed"
  BY DEF Verify
<1>2. ListInv' /\ LastInv' /\ Coalesced' /\ TotalBlks' = TotalBlks
  BY <1>1, ListKept
<1>3. Accepts(simg)
  <2>1. /\ simg.chunks = chunks /\ simg.total_blks = TotalBlks /\ simg.total_chunks = Len(chunks)
        /\ i = TotalBlks
    BY <1>1 DEF IInv, FileInv, RunInv, Scanning, Writing
  <2>2. \A n \in 1 .. Len(chunks) : ChunkOk(chunks[n])
    BY DEF IInv, ListInv, Tiles, Right
  <2>3. Covered(chunks) = TotalBlks
    BY <2>1 DEF IInv, ListInv, Tiles, Covered
  <2>4. QED BY <2>1, <2>2, <2>3 DEF Accepts
<1>4. TypeInv' /\ RunInv' /\ FileInv' /\ PartInv'
  BY <1>1, <1>2, <1>3 DEF IInv, TypeInv, RunInv, FileInv, PartInv, Scanning, Writing, ZeroBlk, Stale
<1>5. QED BY <1>1, <1>2, <1>3, <1>4 DEF IInv, OnlyRawWritten, FailsOnlyOnOverflow

-----------------------------------------------------------------------------
(* The file is flashed. *)

\* Un-sparsing a list that tiles the image.
LEMMA UnsparseTiles ==
  ASSUME raw \in Seq(Byte), NEW cs \in Seq(Chunk), Tiles(cs, TotalBlks),
         NEW old, DOMAIN old = 0 .. TotalBlks
  PROVE  /\ Unsparse(cs, old)[TotalBlks] = old[TotalBlks]
         /\ \A m \in 0 .. TotalBlks - 1 : Unsparse(cs, old)[m] = IF IsZero(m) THEN old[m] ELSE Blk(m)
<1>1. TotalBlks \in Nat BY TotalBlksNat
<1> DEFINE In(m) == {n \in 1 .. Len(cs) : Start(cs, n) <= m /\ m < Start(cs, n + 1)}
<1>2. ASSUME NEW m \in 0 .. TotalBlks
      PROVE  Unsparse(cs, old)[m] =
               IF \E n \in In(m) : cs[n].type = "RAW"
               THEN cs[CHOOSE n \in In(m) : TRUE].data[m - Start(cs, CHOOSE n \in In(m) : TRUE) + 1]
               ELSE old[m]
  BY DEF Unsparse
<1>3. ASSUME NEW m \in Nat, NEW n \in In(m)
      PROVE  /\ m < TotalBlks
             /\ IF cs[n].type = "RAW" THEN ~IsZero(m) /\ cs[n].data[m - Start(cs, n) + 1] = Blk(m) ELSE IsZero(m)
  <2>1. cs[n] \in Chunk OBVIOUS
  <2>2. cs[n].blks \in Nat BY <2>1 DEF Chunk
  <2>3. Start(cs, n + 1) = Start(cs, n) + cs[n].blks
    BY StartStep
  <2>4. Start(cs, n) \in Nat BY StartNat
  <2>5. Right(cs[n], Start(cs, n)) BY DEF Tiles
  <2>6. QED BY <1>1, <2>2, <2>3, <2>4, <2>5 DEF Right
<1>4. ASSUME NEW m \in Nat, m < TotalBlks PROVE In(m) # {}
  BY <1>4 DEF Tiles, Holds
<1> HIDE DEF In
<1>5. Unsparse(cs, old)[TotalBlks] = old[TotalBlks]
  <2>1. TotalBlks \in 0 .. TotalBlks /\ ~(TotalBlks < TotalBlks) BY <1>1
  <2>2. In(TotalBlks) = {} BY <1>1, <1>3, <2>1
  <2>3. QED BY <1>2, <2>1, <2>2
<1>6. ASSUME NEW m \in 0 .. TotalBlks - 1
      PROVE  Unsparse(cs, old)[m] = IF IsZero(m) THEN old[m] ELSE Blk(m)
  <2>1. m \in Nat /\ m < TotalBlks /\ m \in 0 .. TotalBlks BY <1>1
  <2> DEFINE n == CHOOSE x \in In(m) : TRUE
  <2>2. n \in In(m) BY <1>4, <2>1
  <2> HIDE DEF n
  <2>3. Unsparse(cs, old)[m] =
          IF \E x \in In(m) : cs[x].type = "RAW" THEN cs[n].data[m - Start(cs, n) + 1] ELSE old[m]
    BY <1>2, <2>1 DEF n
  <2>4. QED BY <1>3, <2>1, <2>2, <2>3
<1>7. QED BY <1>5, <1>6

LEMMA FlashInv == ASSUME IInv, Flash PROVE IInv'
<1>1. /\ raw' = raw /\ chunks' = chunks /\ i' = i /\ j' = j /\ simg' = simg
      /\ pc = "ready" /\ pc' = "flashed" /\ part' = Unsparse(simg.chunks, part)
  BY DEF Flash
<1>2. ListInv' /\ LastInv' /\ Coalesced' /\ TotalBlks' = TotalBlks /\ TotalBlks \in Nat
  BY <1>1, ListKept
<1>3. simg.chunks = chunks /\ i = TotalBlks /\ chunks \in Seq(Chunk) /\ raw \in Seq(Byte)
  BY <1>1 DEF IInv, FileInv, RunInv, TypeInv, Scanning, Writing
<1>4. PICK b \in {ZeroBlk, Stale} : part = [m \in 0 .. TotalBlks |-> b]
  BY <1>1 DEF IInv, PartInv
<1>5. Tiles(chunks, TotalBlks) BY <1>3 DEF IInv, ListInv
<1>6. /\ part'[TotalBlks] = b
      /\ \A m \in 0 .. TotalBlks - 1 : part'[m] = IF IsZero(m) THEN b ELSE Blk(m)
  <2>1. DOMAIN part = 0 .. TotalBlks /\ part[TotalBlks] = b /\ \A m \in 0 .. TotalBlks - 1 : part[m] = b
    BY <1>2, <1>4
  <2>2. /\ part'[TotalBlks] = part[TotalBlks]
        /\ \A m \in 0 .. TotalBlks - 1 : part'[m] = IF IsZero(m) THEN part[m] ELSE Blk(m)
    BY <1>1, <1>3, <1>5, <2>1, UnsparseTiles
  <2>3. QED BY <2>1, <2>2
<1>7. OnlyRawWritten'
  <2>1. ZeroBlk' = ZeroBlk /\ Stale' = Stale BY DEF ZeroBlk, Stale
  <2>2. QED BY <1>1, <1>2, <1>6, <2>1, SameImage DEF OnlyRawWritten, IsZero
<1>8. TypeInv' /\ RunInv' /\ FileInv'
  BY <1>1, <1>2, <1>3 DEF IInv, TypeInv, RunInv, FileInv, Scanning, Writing
<1>9. QED BY <1>1, <1>2, <1>7, <1>8 DEF IInv, PartInv, FailsOnlyOnOverflow

LEMMA NextInv == ASSUME IInv, [Next]_vars PROVE IInv'
<1>1. CASE Begin \/ Extend BY <1>1, ScanInv
<1>2. CASE Close BY <1>2, CloseInv
<1>3. CASE WriteHeader \/ WriteChunk \/ WriteDone BY <1>3, WriteInv
<1>4. CASE Verify BY <1>4, VerifyInv
<1>5. CASE Flash BY <1>5, FlashInv
<1>6. CASE UNCHANGED vars
  <2>1. raw' = raw /\ chunks' = chunks /\ i' = i /\ j' = j /\ part' = part /\ simg' = simg /\ pc' = pc
    BY <1>6 DEF vars
  <2>2. ListInv' /\ LastInv' /\ Coalesced' /\ TotalBlks' = TotalBlks
    BY <2>1, ListKept
  <2>3. ZeroBlk' = ZeroBlk /\ Stale' = Stale BY DEF ZeroBlk, Stale
  <2>4. TypeInv' /\ FileInv' /\ PartInv'
    BY <2>1, <2>2, <2>3 DEF IInv, TypeInv, FileInv, PartInv
  <2>5. RunInv' BY <2>1, <2>2, SameImage DEF IInv, RunInv
  <2>6. OnlyRawWritten' BY <2>1, <2>2, <2>3, SameImage DEF IInv, OnlyRawWritten
  <2>7. FailsOnlyOnOverflow' BY <2>1 DEF IInv, FailsOnlyOnOverflow, Overflows, TotalSz
  <2>8. QED BY <2>2, <2>4, <2>5, <2>6, <2>7 DEF IInv
<1>7. QED BY <1>1, <1>2, <1>3, <1>4, <1>5, <1>6 DEF Next, Convert, Done

\* The invariant is one, for every raw image and block size.
THEOREM Invariance == Spec => []IInv
<1>1. Init => IInv BY InitInv
<1>2. IInv /\ [Next]_vars => IInv' BY NextInv
<1>3. QED BY <1>1, <1>2, PTL DEF Spec

\* Runs are maximal: two chunks in a row are never of one kind (mksparse.py
\* 74-92).
THEOREM CoalescedCorrect == Spec => []Coalesced
<1>1. IInv => Coalesced BY DEF IInv
<1>2. QED BY <1>1, Invariance, PTL

\* Flashing writes the blocks that are not zero, each in its place, and nothing
\* else (mksparse.py 74-100).
THEOREM FlashCorrect == Spec => []OnlyRawWritten
<1>1. IInv => OnlyRawWritten BY DEF IInv
<1>2. QED BY <1>1, Invariance, PTL

\* The reader accepts whatever the writer has written to its end: a conversion
\* fails only on a size that has no 32 bits (mksparse.py 93-100 against 105-147).
THEOREM WriterAndReaderAgree == Spec => []FailsOnlyOnOverflow
<1>1. IInv => FailsOnlyOnOverflow BY DEF IInv
<1>2. QED BY <1>1, Invariance, PTL
=============================================================================
