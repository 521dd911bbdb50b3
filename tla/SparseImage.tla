---------------------------- MODULE SparseImage ----------------------------
(***************************************************************************)
(* tools/mksparse.py: convert() walks the blocks of a raw image, closes    *)
(* maximal runs into DONT_CARE and RAW chunks and writes them behind a     *)
(* header; verify() reads them back. Then the stage-2 fastboot (external)  *)
(* un-sparses the file onto a partition that already holds something.      *)
(* Blocks are BLK_SZ bytes; a byte is 0 or not. Every field of the file    *)
(* that is counted in bytes has 32 bits: its values stay below U32.        *)
(***************************************************************************)
EXTENDS Integers, Sequences

CONSTANTS
  Byte,       \* the values of a byte, 0 among them
  BLK_SZ,     \* bytes in a block (4096)
  U32,        \* 2^32
  MaxLen,     \* bound: length of the raw image in bytes
  Partitions  \* what the partition may hold: "zeroed", "used"

ASSUME ByteAssumption == 0 \in Byte
ASSUME BlockAssumption == BLK_SZ \in Nat \ {0}
ASSUME U32Assumption == U32 \in Nat
ASSUME MaxLenAssumption == MaxLen \in Nat
ASSUME PartitionsAssumption == Partitions \subseteq {"zeroed", "used"}

CHUNK_HDR_SZ == 12

VARIABLES
  pc,      \* "scan", "run", "write", "verify", "ready", "flashed", "failed"
  raw,     \* the raw image, a sequence of bytes
  i, j,    \* the run being scanned is the blocks i .. j - 1
  chunks,  \* list of chunks found
  simg,    \* the file written: header fields and chunks
  part     \* what the partition holds, as blocks

vars == <<pc, raw, i, j, chunks, simg, part>>

-----------------------------------------------------------------------------
ZeroBlk == [o \in 1 .. BLK_SZ |-> 0]

\* Blocks of a raw image, the tail padded with zeros, and its k-th block.
TotalBlks == (Len(raw) + BLK_SZ - 1) \div BLK_SZ
Blk(k) ==
  [o \in 1 .. BLK_SZ |-> IF k * BLK_SZ + o <= Len(raw) THEN raw[k * BLK_SZ + o] ELSE 0]

\* Mutant: any block that begins with a zero is taken for a zero block.
IsZeroHasty(k) == Blk(k)[1] = 0

IsZero(k) == Blk(k) = ZeroBlk

DontCare(n) == [type |-> "DONT_CARE", blks |-> n, data |-> <<>>]
Raw(from, to) ==
  [type |-> "RAW", blks |-> to - from,
   data |-> [n \in 1 .. to - from |-> Blk(from + n - 1)]]

\* chunk_header's total_sz, in bytes.
TotalSz(c) == CHUNK_HDR_SZ + BLK_SZ * Len(c.data)

\* Blocks before the n-th chunk of a list of chunks.
Starts(cs) ==
  LET b[n \in 0 .. Len(cs)] == IF n = 0 THEN 0 ELSE b[n - 1] + cs[n].blks IN b
Start(cs, n) == Starts(cs)[n - 1]
Covered(cs) == Start(cs, Len(cs) + 1)

\* What un-sparsing leaves in block k of a partition that held old: the span
\* of a DONT_CARE chunk is skipped, as gpt-restore requires of the device.
Unsparse(cs, old) ==
  [k \in DOMAIN old |->
     LET in == {n \in 1 .. Len(cs) : Start(cs, n) <= k /\ k < Start(cs, n + 1)}
     IN  IF \E n \in in : cs[n].type = "RAW"
         THEN LET n == CHOOSE m \in in : TRUE IN cs[n].data[k - Start(cs, n) + 1]
         ELSE old[k]]

NoFile == [total_blks |-> 0, total_chunks |-> 0, chunks |-> <<>>]

\* Blocks that are not zero: what an earlier file system left.
Stale == [o \in 1 .. BLK_SZ |-> IF Byte = {0} THEN 0 ELSE CHOOSE b \in Byte : b # 0]

Init ==
  /\ pc = "scan"
  /\ raw \in UNION {[1 .. n -> Byte] : n \in 0 .. MaxLen}
  /\ i = 0 /\ j = 0
  /\ chunks = <<>>
  /\ simg = NoFile
  /\ \E p \in Partitions :
       part = [k \in 0 .. TotalBlks |-> IF p = "zeroed" THEN ZeroBlk ELSE Stale]

-----------------------------------------------------------------------------
(* convert(). *)

\* The next run begins at block i.
Begin ==
  /\ pc = "scan" /\ i < TotalBlks
  /\ j' = i + 1
  /\ pc' = "run"
  /\ UNCHANGED <<raw, i, chunks, simg, part>>

\* Block j is of the same kind as block i.
Extend ==
  /\ pc = "run" /\ j < TotalBlks /\ IsZero(j) = IsZero(i)
  /\ j' = j + 1
  /\ UNCHANGED <<pc, raw, i, chunks, simg, part>>

\* Mutant: the payload of a RAW run stops one block early.
CloseShort ==
  /\ pc = "run" /\ (j = TotalBlks \/ IsZero(j) # IsZero(i))
  /\ chunks' = Append(chunks, IF IsZero(i) THEN DontCare(j - i)
                              ELSE [Raw(i, j) EXCEPT !.data = SubSeq(@, 1, Len(@) - 1)])
  /\ i' = j
  /\ pc' = "scan"
  /\ UNCHANGED <<raw, j, simg, part>>

\* Mutant: a chunk may end anywhere.
CloseAnywhere ==
  /\ pc = "run"
  /\ chunks' = Append(chunks, IF IsZero(i) THEN DontCare(j - i) ELSE Raw(i, j))
  /\ i' = j
  /\ pc' = "scan"
  /\ UNCHANGED <<raw, j, simg, part>>

\* The run ends before block j.
Close ==
  /\ pc = "run" /\ (j = TotalBlks \/ IsZero(j) # IsZero(i))
  /\ chunks' = Append(chunks, IF IsZero(i) THEN DontCare(j - i) ELSE Raw(i, j))
  /\ i' = j
  /\ pc' = "scan"
  /\ UNCHANGED <<raw, j, simg, part>>

\* The output file is opened and its header written.
WriteHeader ==
  /\ pc = "scan" /\ i = TotalBlks
  /\ simg' = [total_blks |-> TotalBlks, total_chunks |-> Len(chunks), chunks |-> <<>>]
  /\ pc' = "write"
  /\ UNCHANGED <<raw, i, j, chunks, part>>

\* The next chunk goes out; struct.pack raises when its size has no 32 bits,
\* and the file stays as it is.
WriteChunk ==
  /\ pc = "write" /\ Len(simg.chunks) < Len(chunks)
  /\ LET c == chunks[Len(simg.chunks) + 1] IN
       IF TotalSz(c) < U32
       THEN simg' = [simg EXCEPT !.chunks = Append(@, c)] /\ pc' = "write"
       ELSE UNCHANGED simg /\ pc' = "failed"
  /\ UNCHANGED <<raw, i, j, chunks, part>>

WriteDone ==
  /\ pc = "write" /\ Len(simg.chunks) = Len(chunks)
  /\ pc' = "verify"
  /\ UNCHANGED <<raw, i, j, chunks, simg, part>>

-----------------------------------------------------------------------------
(* verify(). *)

\* The payload length that follows from total_sz fits the chunk's type.
ChunkOk(c) == Len(c.data) = IF c.type = "RAW" THEN c.blks ELSE 0

Accepts(file) ==
  /\ Len(file.chunks) = file.total_chunks
  /\ \A n \in 1 .. Len(file.chunks) : ChunkOk(file.chunks[n])
  /\ Covered(file.chunks) = file.total_blks
  /\ file.total_blks = TotalBlks

Verify ==
  /\ pc = "verify"
  /\ pc' = IF Accepts(simg) THEN "ready" ELSE "failed"
  /\ UNCHANGED <<raw, i, j, chunks, simg, part>>

-----------------------------------------------------------------------------
(* External: fastboot flash of the file. *)

Flash ==
  /\ pc = "ready"
  /\ part' = Unsparse(simg.chunks, part)
  /\ pc' = "flashed"
  /\ UNCHANGED <<raw, i, j, chunks, simg>>

Done == pc \in {"flashed", "failed"} /\ UNCHANGED vars

Convert == Begin \/ Extend \/ Close \/ WriteHeader \/ WriteChunk \/ WriteDone
Next == Convert \/ Verify \/ Flash \/ Done

Spec == Init /\ [][Next]_vars /\ WF_vars(Convert \/ Verify)

-----------------------------------------------------------------------------
(* Properties. *)

\* Flashing writes the blocks of the image that are not zero, each in its
\* place, and nothing else: none is lost, doubled or shifted by the coalescing
\* (lines 74-92) and the block behind the image is untouched. On a zeroed
\* partition that is the image.
OnlyRawWritten ==
  pc = "flashed" =>
    /\ part[TotalBlks] \in {ZeroBlk, Stale}
    /\ \A k \in 0 .. TotalBlks - 1 :
         part[k] = IF Blk(k) = ZeroBlk THEN part[TotalBlks] ELSE Blk(k)

\* Runs are maximal: two chunks in a row are never of one kind, so that the
\* file has the fewest chunks the device has to take (lines 74-92).
Coalesced ==
  \A n \in 1 .. Len(chunks) - 1 : chunks[n].type # chunks[n + 1].type

\* The walk ends, whatever the image, and the writer and the reader agree: the
\* file is complete and verify() accepts it, unless a chunk's size does not fit
\* its 32-bit field (lines 64-100 against 105-147).
Overflows == \E n \in 1 .. Len(chunks) : TotalSz(chunks[n]) >= U32
Converts == <>(pc \in {"ready", "flashed"} \/ (pc = "failed" /\ Overflows))
=============================================================================
