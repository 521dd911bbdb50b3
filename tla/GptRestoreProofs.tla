-------------------------- MODULE GptRestoreProofs --------------------------
(***************************************************************************)
(* For every size of the two tables and of the disk: restoring the GPT     *)
(* touches nothing between the tables, never leaves a panel whose backup   *)
(* was whole without a readable table, and ends with both copies restored. *)
(*                                                                         *)
(* The invariant says where the write position can be in each chunk, and   *)
(* that every sector before it holds what was captured. StaysReadable is   *)
(* not inductive: a cut in the middle of the backup is harmless only       *)
(* because the primary is the captured one by then (ReadInv), and a second *)
(* attempt rewrites that primary with the same sectors.                    *)
(***************************************************************************)
EXTENDS GptRestore, TLAPS

\* What the script writes when its assertions pass.
Image == Chunks(Capture("captured", 0, NP), Capture("captured", TOTAL - NB, NB))

TypeInv ==
  /\ gchunks \in {<<>>, Image} /\ (~made => gchunks = <<>>)
  /\ n \in 0 .. 4 /\ (n > 0 => gchunks = Image)
  /\ at \in Nat
  /\ DOMAIN disk = 0 .. TOTAL - 1

PlaceInv ==
  /\ n = 1 => at <= NP
  /\ n = 2 => at = NP
  /\ n = 3 => TOTAL - NB <= at /\ at <= TOTAL
  /\ n = 4 => at = TOTAL

\* Sectors written in this attempt.
PrimaryInv ==
  /\ n = 1 => \A l \in Primary : l < at => disk[l] = Sector("captured", l)
  /\ n > 1 => Whole("captured", Primary, disk)
BackupInv ==
  /\ n = 3 => \A l \in Backup : l < at => disk[l] = Sector("captured", l)
  /\ n = 4 => Whole("captured", Backup, disk)

\* The old backup is there until the new primary is.
ReadInv == had => Whole("captured", Primary, disk) \/ Whole("old", Backup, disk) \/ Whole("captured", Backup, disk)

IInv == TypeInv /\ PlaceInv /\ PrimaryInv /\ BackupInv /\ MiddleKept /\ ReadInv

-----------------------------------------------------------------------------
\* The image has the sectors of both tables where they belong: the fields that
\* make-gpt-restore.py writes (lines 25-47) put every captured sector at its LBA.
LEMMA ImageLayout ==
  ASSUME SizeAssumption
  PROVE  /\ Image # <<>> /\ DOMAIN Image = 1 .. 3
         /\ Image[1].type = "RAW" /\ Image[2].type = "DONT_CARE" /\ Image[3].type = "RAW"
         /\ Image[1].blks = NP /\ Image[2].blks = TOTAL - NP - NB /\ Image[3].blks = NB
         /\ \A l \in Primary : Image[1].data[l + 1] = Sector("captured", l)
         /\ \A l \in Backup : Image[3].data[l - (TOTAL - NB) + 1] = Sector("captured", l)
<1> DEFINE prim == Capture("captured", 0, NP)
           back == Capture("captured", TOTAL - NB, NB)
<1>1. Image = <<GptRaw(NP, prim), GptDontCare(TOTAL - NP - NB), GptRaw(NB, back)>>
  BY DEF Image, Chunks
<1>2. \A l \in Primary : prim[l + 1] = Sector("captured", l)
  BY DEF Capture, Primary, SizeAssumption
<1>3. \A l \in Backup : back[l - (TOTAL - NB) + 1] = Sector("captured", l)
  <2>1. TAKE l \in Backup
  <2>2. l - (TOTAL - NB) + 1 \in 1 .. NB
    BY DEF Backup, SizeAssumption
  <2>3. TOTAL - NB + (l - (TOTAL - NB) + 1) - 1 = l
    BY DEF Backup, SizeAssumption
  <2>4. QED BY <2>2, <2>3 DEF Capture
<1>4. QED
  <2>1. DEFINE mid == TOTAL - NP - NB
  <2> HIDE DEF prim, back, mid
  <2>2. Image = <<GptRaw(NP, prim), GptDontCare(mid), GptRaw(NB, back)>>
    BY <1>1 DEF mid
  <2>3. Image # <<>> /\ DOMAIN Image = 1 .. 3
    BY <2>2
  <2>4. Image[1] = GptRaw(NP, prim) /\ Image[2] = GptDontCare(mid) /\ Image[3] = GptRaw(NB, back)
    BY <2>2
  <2>5. QED BY <1>2, <1>3, <2>3, <2>4 DEF GptRaw, GptDontCare, mid

\* A write of the sector at l changes no other; the three regions are disjoint.
LEMMA Regions ==
  ASSUME SizeAssumption
  PROVE  /\ \A l \in Primary : l \notin Middle /\ l \notin Backup
         /\ \A l \in Backup : l \notin Middle
         /\ Primary \subseteq 0 .. TOTAL - 1 /\ Middle \subseteq 0 .. TOTAL - 1
         /\ Backup \subseteq 0 .. TOTAL - 1
BY DEF SizeAssumption, Primary, Middle, Backup

LEMMA InitInv == ASSUME SizeAssumption, GptInit PROVE IInv
<1>1. PICK p, b \in {"old", "junk"} :
        disk = [l \in 0 .. TOTAL - 1 |->
                 Sector(IF l \in Primary THEN p ELSE IF l \in Backup THEN b ELSE "data", l)]
  BY DEF GptInit
<1>2. MiddleKept
  BY <1>1, Regions DEF MiddleKept
<1>3. ReadInv
  BY DEF GptInit, ReadInv
<1>4. TypeInv
  BY <1>1 DEF GptInit, TypeInv
<1>5. QED BY <1>2, <1>3, <1>4 DEF GptInit, IInv, PlaceInv, PrimaryInv, BackupInv

-----------------------------------------------------------------------------
(* A write goes to the primary or to the backup, and is the captured sector. *)

LEMMA WriteIsCaptured ==
  ASSUME SizeAssumption, IInv, WriteSector
  PROVE  /\ n \in {1, 3} /\ at \in IF n = 1 THEN Primary ELSE Backup
         /\ disk' = [disk EXCEPT ![at] = Sector("captured", at)]
<1>1. gchunks = Image /\ n \in {1, 3}
  BY ImageLayout DEF IInv, TypeInv, WriteSector
<1>2. CASE n = 1
  <2>1. Offset(n) = 0 BY <1>2 DEF Offset
  <2>2. at \in Primary
    BY <1>1, <1>2, <2>1, ImageLayout DEF WriteSector, Primary, IInv, TypeInv, SizeAssumption
  <2>3. at - Offset(n) + 1 = at + 1
    BY <2>1, <2>2 DEF Primary, SizeAssumption
  <2>4. QED BY <1>1, <1>2, <2>2, <2>3, ImageLayout DEF WriteSector
<1>3. CASE n = 3
  <2>1. Offset(n) = TOTAL - NB
    BY <1>1, <1>3, ImageLayout DEF Offset, SizeAssumption
  <2>2. at \in Backup
    BY <1>1, <1>3, <2>1, ImageLayout DEF WriteSector, Backup, IInv, TypeInv, PlaceInv, SizeAssumption
  <2>3. Image[3].data[at - Offset(n) + 1] = Sector("captured", at)
    BY <2>1, <2>2, ImageLayout
  <2>4. QED BY <1>1, <1>3, <2>2, <2>3 DEF WriteSector
<1>4. QED BY <1>1, <1>2, <1>3

LEMMA WriteInv == ASSUME SizeAssumption, IInv, WriteSector PROVE IInv'
<1>1. /\ n \in {1, 3} /\ at \in IF n = 1 THEN Primary ELSE Backup
      /\ disk' = [disk EXCEPT ![at] = Sector("captured", at)]
  BY WriteIsCaptured
<1>2. /\ n' = n /\ at' = at + 1 /\ gchunks' = gchunks /\ had' = had /\ made' = made
  BY DEF WriteSector
<1>3. /\ at \in 0 .. TOTAL - 1 /\ disk'[at] = Sector("captured", at)
      /\ \A l \in 0 .. TOTAL - 1 : l # at => disk'[l] = disk[l]
      /\ DOMAIN disk' = 0 .. TOTAL - 1
  BY <1>1, Regions DEF IInv, TypeInv
<1>4. TypeInv'
  BY <1>2, <1>3 DEF IInv, TypeInv
<1>5. PlaceInv'
  BY <1>1, <1>2 DEF IInv, TypeInv, PlaceInv, Primary, Backup, SizeAssumption
<1>6. PrimaryInv'
  <2>1. CASE n = 1
    <3>1. \A l \in Primary : l < at + 1 => disk'[l] = Sector("captured", l)
      <4>1. \A l \in Primary : l < at + 1 => l < at \/ l = at
        BY DEF IInv, TypeInv, Primary, SizeAssumption
      <4>2. QED BY <1>3, <2>1, <4>1, Regions DEF IInv, PrimaryInv
    <3>2. QED BY <1>2, <2>1, <3>1 DEF PrimaryInv
  <2>2. CASE n = 3
    BY <1>1, <1>2, <1>3, <2>2, Regions DEF IInv, PrimaryInv, Whole
  <2>3. QED BY <1>1, <2>1, <2>2
<1>7. BackupInv'
  <2>1. CASE n = 1
    BY <1>2, <2>1 DEF BackupInv
  <2>2. CASE n = 3
    <3>1. \A l \in Backup : l < at + 1 => disk'[l] = Sector("captured", l)
      <4>1. \A l \in Backup : l < at + 1 => l < at \/ l = at
        BY DEF IInv, TypeInv, Backup, SizeAssumption
      <4>2. QED BY <1>3, <2>2, <4>1, Regions DEF IInv, BackupInv
    <3>2. QED BY <1>2, <2>2, <3>1 DEF BackupInv
  <2>3. QED BY <1>1, <2>1, <2>2
<1>8. MiddleKept'
  BY <1>1, <1>3, Regions DEF IInv, MiddleKept, Middle, Backup, Primary
<1>9. ReadInv'
  <2>1. Whole("captured", Primary, disk) => Whole("captured", Primary, disk')
    BY <1>3, Regions DEF Whole
  <2>2. CASE n = 1
    <3>1. \A t \in Tables : Whole(t, Backup, disk) => Whole(t, Backup, disk')
      BY <1>1, <1>3, <2>2, Regions DEF Whole
    <3>2. QED BY <1>2, <2>1, <3>1 DEF IInv, ReadInv, Tables, Whole
  <2>3. CASE n = 3
    BY <2>1, <2>3 DEF IInv, PrimaryInv, ReadInv, Whole
  <2>4. QED BY <1>1, <2>2, <2>3
<1>10. QED BY <1>4, <1>5, <1>6, <1>7, <1>8, <1>9 DEF IInv

-----------------------------------------------------------------------------
LEMMA EndChunkInv == ASSUME SizeAssumption, IInv, EndChunk PROVE IInv'
<1>1. gchunks = Image /\ n \in 1 .. 3
  BY ImageLayout DEF IInv, TypeInv, EndChunk
<1>2. at' = (CASE n = 1 -> NP [] n = 2 -> TOTAL - NB [] n = 3 -> TOTAL)
  <2>1. at' = Offset(n) + gchunks[n].blks BY DEF EndChunk
  <2>2. gchunks[1].blks = NP /\ gchunks[2].blks = TOTAL - NP - NB /\ gchunks[3].blks = NB
    BY <1>1, ImageLayout
  <2>3. NP \in Nat /\ NB \in Nat /\ TOTAL \in Nat BY DEF SizeAssumption
  <2>4. CASE n = 1 BY <2>1, <2>2, <2>3, <2>4 DEF Offset
  <2>5. CASE n = 2 BY <2>1, <2>2, <2>3, <2>5 DEF Offset
  <2>6. CASE n = 3 BY <2>1, <2>2, <2>3, <2>6 DEF Offset
  <2>7. QED BY <1>1, <2>4, <2>5, <2>6
<1>3. n # 2 => at' = at
  BY <1>1, ImageLayout DEF EndChunk
<1>4. n' = n + 1 /\ gchunks' = gchunks /\ disk' = disk /\ had' = had /\ made' = made
  BY DEF EndChunk
<1>5. TypeInv' /\ PlaceInv'
  BY <1>1, <1>2, <1>4 DEF IInv, TypeInv, PlaceInv, SizeAssumption
<1>6. PrimaryInv'
  BY <1>1, <1>2, <1>3, <1>4 DEF IInv, PrimaryInv, Whole, Primary, SizeAssumption
<1>7. BackupInv'
  BY <1>1, <1>2, <1>3, <1>4 DEF IInv, BackupInv, Whole, Backup, SizeAssumption
<1>8. QED BY <1>4, <1>5, <1>6, <1>7 DEF IInv, MiddleKept, ReadInv, Whole

LEMMA NextInv == ASSUME SizeAssumption, IInv, [GptNext]_gptVars PROVE IInv'
<1> USE DEF IInv, TypeInv, PlaceInv, PrimaryInv, BackupInv, MiddleKept, ReadInv, Whole
<1>1. CASE Make
  <2>1. PICK t \in {"captured", "junk"} :
          \/ gchunks' = <<>>
          \/ /\ Capture(t, 0, NP)[2].of = "captured"
             /\ gchunks' = Chunks(Capture(t, 0, NP), Capture("captured", TOTAL - NB, NB))
    BY <1>1 DEF Make
  <2>2. Capture(t, 0, NP)[2].of = t BY DEF Capture, Sector, SizeAssumption
  <2>3. gchunks' \in {<<>>, Image} BY <2>1, <2>2 DEF Image
  <2>4. QED BY <1>1, <2>3, ImageLayout DEF Make
<1>2. CASE StartFlash
  BY <1>2 DEF StartFlash, Primary, SizeAssumption
<1>3. CASE WriteSector
  BY <1>3, WriteInv
<1>4. CASE EndChunk
  BY <1>4, EndChunkInv
<1>5. CASE Again
  BY <1>5 DEF Again
<1>6. CASE UNCHANGED gptVars
  BY <1>6 DEF gptVars
<1>7. QED BY <1>1, <1>2, <1>3, <1>4, <1>5, <1>6 DEF GptNext, Refused

\* The invariant is one, for every size of tables and disk.
THEOREM Invariance == ASSUME SizeAssumption PROVE GptSpec => []IInv
<1>1. GptInit => IInv BY InitInv
<1>2. IInv /\ [GptNext]_gptVars => IInv' BY NextInv
<1>3. QED BY <1>1, <1>2, PTL DEF GptSpec

\* Whenever the power goes, and over any number of attempts, what lies between
\* the two tables is as it was: the DONT_CARE chunk (make-gpt-restore.py 6-8 and
\* 41-45) covers exactly the sectors that neither RAW chunk does.
THEOREM MiddleCorrect == ASSUME SizeAssumption PROVE GptSpec => []MiddleKept
<1>1. IInv => MiddleKept BY DEF IInv
<1>2. QED BY <1>1, Invariance, PTL

\* A panel whose backup table was whole has a readable table at every moment of
\* every attempt.
THEOREM ReadableCorrect == ASSUME SizeAssumption PROVE GptSpec => []StaysReadable
<1>1. IInv => StaysReadable
  <2>1. SUFFICES ASSUME IInv, had PROVE Table(disk) # "none"
    BY DEF StaysReadable
  <2>2. "none" \notin Tables BY DEF Tables
  <2>3. \E t \in Tables : Whole(t, Primary, disk) \/ Whole(t, Backup, disk)
    BY <2>1 DEF IInv, ReadInv, Tables
  <2>4. QED BY <2>2, <2>3 DEF Table
<1>2. QED BY <1>1, Invariance, PTL

\* When a flash has reached its end both copies are the captured table.
THEOREM RestoredCorrect == ASSUME SizeAssumption PROVE GptSpec => []Restored
<1>1. IInv => Restored BY DEF IInv, PrimaryInv, BackupInv, Restored
<1>2. QED BY <1>1, Invariance, PTL
=============================================================================
