----------------------------- MODULE GptRestore -----------------------------
(***************************************************************************)
(* gpt-restore/make-gpt-restore.py: a sparse image of the whole eMMC with  *)
(* the captured GPT at both ends and a DONT_CARE chunk between. fastboot   *)
(* (external) writes it sector by sector onto a panel whose table is       *)
(* damaged or another one; the power may go at any sector, and the         *)
(* operator starts again. A sector holds a piece of a table or of data.    *)
(***************************************************************************)
EXTENDS Integers, Sequences

CONSTANTS
  NP, NB,  \* sectors of the primary and of the backup GPT (34 and 33)
  TOTAL    \* TOTAL_SECTORS

SizeAssumption == NP \in Nat /\ NP >= 2 /\ NB \in Nat \ {0} /\ TOTAL \in Nat /\ TOTAL > NP + NB

VARIABLES
  gchunks, \* of tc8-gpt-restore.simg; none when an assertion failed
  made,    \* the script has run
  n, at,   \* the chunk fastboot is at, and the next sector of the disk; n = 0: not flashing
  disk,    \* sectors of the eMMC
  had      \* history: the backup copy was whole at first

gptVars == <<gchunks, made, n, at, disk, had>>

Sector(t, l) == [of |-> t, lba |-> l]
Tables == {"old", "captured"}
Primary == 0 .. NP - 1
Backup == TOTAL - NB .. TOTAL - 1
Middle == NP .. TOTAL - NB - 1

\* The table in a copy whose checksums are right, and the one a reader finds.
Whole(t, copy, d) == \A l \in copy : d[l] = Sector(t, l)
Table(d) ==
  IF \E t \in Tables : Whole(t, Primary, d) THEN CHOOSE t \in Tables : Whole(t, Primary, d)
  ELSE IF \E t \in Tables : Whole(t, Backup, d) THEN CHOOSE t \in Tables : Whole(t, Backup, d)
  ELSE "none"

\* A panel with another table, or with one copy or both destroyed.
GptInit ==
  /\ gchunks = <<>> /\ made = FALSE
  /\ n = 0 /\ at = 0
  /\ \E p, b \in {"old", "junk"} :
       disk = [l \in 0 .. TOTAL - 1 |->
                 Sector(IF l \in Primary THEN p ELSE IF l \in Backup THEN b ELSE "data", l)]
  /\ had = Whole("old", Backup, disk)

-----------------------------------------------------------------------------
\* A captured file: sectors of a panel from a place on.
Capture(t, from, len) == [i \in 1 .. len |-> Sector(t, from + i - 1)]

GptRaw(blks, data) == [type |-> "RAW", blks |-> blks, data |-> data]
GptDontCare(blks) == [type |-> "DONT_CARE", blks |-> blks, data |-> <<>>]

\* Mutant: the middle ends one sector early.
Chunks_near(prim, back) ==
  <<GptRaw(NP, prim), GptDontCare(TOTAL - NP - NB - 1), GptRaw(NB, back)>>

\* Mutant: LBA 0..33 is taken for 33 sectors.
Chunks_33(prim, back) ==
  <<GptRaw(NP - 1, SubSeq(prim, 1, NP - 1)), GptDontCare(TOTAL - NP + 1 - NB), GptRaw(NB, back)>>

\* Mutant: the backup is the primary once more.
Chunks_twice(prim, back) ==
  <<GptRaw(NP, prim), GptDontCare(TOTAL - NP - NB), GptRaw(NB, SubSeq(prim, 1, NB))>>

Chunks(prim, back) ==
  <<GptRaw(NP, prim), GptDontCare(TOTAL - NP - NB), GptRaw(NB, back)>>

\* The script, on captures of any length, the primary of a healthy panel or of a
\* damaged one. The assertions let the right length pass, with "EFI PART" at the
\* start of the second sector.
Make ==
  /\ ~made /\ made' = TRUE
  /\ \E t \in {"captured", "junk"}, np \in NP - 1 .. NP + 1, nb \in NB - 1 .. NB + 1 :
       LET prim == Capture(t, 0, np)
           back == Capture("captured", TOTAL - nb, nb)
       IN  gchunks' = IF np = NP /\ prim[2].of = "captured" /\ nb = NB
                      THEN Chunks(prim, back) ELSE <<>>
  /\ UNCHANGED <<n, at, disk, had>>

(* External: fastboot flash gpt. *)

\* `fastboot_raw_partition_gpt` has TOTAL sectors.
StartFlash ==
  /\ n = 0 /\ gchunks # <<>>
  /\ n' = 1 /\ at' = 0
  /\ UNCHANGED <<gchunks, made, disk, had>>

\* Sectors of the disk before chunk k.
Offset(k) ==
  (IF k > 1 THEN gchunks[1].blks ELSE 0) + (IF k > 2 THEN gchunks[2].blks ELSE 0)

WriteSector ==
  /\ n \in DOMAIN gchunks /\ gchunks[n].type = "RAW"
  /\ at < Offset(n) + gchunks[n].blks
  /\ disk' = [disk EXCEPT ![at] = gchunks[n].data[at - Offset(n) + 1]]
  /\ at' = at + 1
  /\ UNCHANGED <<gchunks, made, n, had>>

EndChunk ==
  /\ n \in DOMAIN gchunks
  /\ gchunks[n].type = "RAW" => at = Offset(n) + gchunks[n].blks
  /\ at' = Offset(n) + gchunks[n].blks
  /\ n' = n + 1
  /\ UNCHANGED <<gchunks, made, disk, had>>

\* The power goes, or the flash is over and done once more.
Again ==
  /\ n > 0 /\ n' = 0
  /\ UNCHANGED <<gchunks, made, at, disk, had>>

Refused == made /\ gchunks = <<>> /\ UNCHANGED gptVars

GptNext == Make \/ StartFlash \/ WriteSector \/ EndChunk \/ Again \/ Refused

GptSpec == GptInit /\ [][GptNext]_gptVars

-----------------------------------------------------------------------------
(* Properties. *)

\* Whenever the power goes, the U-Boot environment, the stage-2 slot and the
\* partitions between the two tables are as they were (lines 6-8).
MiddleKept == \A l \in Middle : disk[l] = Sector("data", l)

\* A panel whose backup copy is whole has a table that can be read at every
\* power cut and over any number of attempts: the copies are never both in
\* pieces. (With a bad backup the primary cannot be rewritten in one piece.)
StaysReadable == had => Table(disk) # "none"

\* Flashed to its end, both copies are the captured table (lines 25-35).
Restored == n = 4 => Whole("captured", Primary, disk) /\ Whole("captured", Backup, disk)
=============================================================================
