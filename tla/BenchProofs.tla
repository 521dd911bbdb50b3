---------------------------- MODULE BenchProofs ----------------------------
(***************************************************************************)
(* The tools of the test bench, for every stream, schedule and timing: the *)
(* catcher (CatchUboot), the watcher (UbootWatch) and the PoE cycler       *)
(* (PoeCycle). The catcher's stream is well formed when it is made of      *)
(* whole frames, and what is taken, held and still to come is always such  *)
(* a stream cut in two.                                                    *)
(***************************************************************************)
EXTENDS CatchUboot, UbootWatch, PoeCycle, TLAPS, SequenceTheorems

-----------------------------------------------------------------------------
(* The watcher. A prompt that was reported stays one until the command is  *)
(* typed; a key changes a running countdown only.                          *)

\* Where the watcher is in each phase, and where the panel is with it.
WatchInv ==
  /\ wpc = "spam" => phase = "wait_uboot"
  /\ wpc \in {"cr", "cmd", "cr2"} => phase = "at_uboot"
  /\ phase \in {"open", "wait_uboot"} => ~stopped
  /\ phase = "at_uboot" /\ stopped => wpanel = IF wpc = "cr2" THEN "fastboot" ELSE "prompt"
  /\ phase \in {"fastboot_sent", "idle"} /\ stopped => wpanel = "fastboot"

\* For any number of restarts: a panel that was at the prompt when that was
\* reported, and has not restarted since, is in fastboot when that is reported
\* (uboot_watch.py 53-76).
THEOREM ReportCorrect == WatchSpec => []ReportTrueIfStopped
<1>1. WatchInit => WatchInv
  BY DEF WatchInit, WatchInv
<1>2. WatchInv /\ [WatchNext]_watchVars => WatchInv'
  <2> SUFFICES ASSUME WatchInv, [WatchNext]_watchVars PROVE WatchInv'
    OBVIOUS
  <2> USE DEF WatchInv, Key, watcher
  <2>1. CASE PanelBoot BY <2>1 DEF PanelBoot
  <2>2. CASE Restart BY <2>2 DEF Restart
  <2>3. CASE EightSeconds BY <2>3 DEF EightSeconds
  <2>4. CASE Spam BY <2>4 DEF Spam
  <2>5. CASE Open BY <2>5 DEF Open
  <2>6. CASE Read BY <2>6 DEF Read, Running
  <2>7. CASE ReadLost BY <2>7 DEF ReadLost, Running
  <2>8. CASE WriteFail BY <2>8 DEF WriteFail
  <2>9. CASE SeeBanner BY <2>9 DEF SeeBanner
  <2>10. CASE SpamEnd BY <2>10 DEF SpamEnd
  <2>11. CASE TypeCr BY <2>11 DEF TypeCr
  <2>12. CASE TypeFastboot BY <2>12 DEF TypeFastboot
  <2>13. CASE TypeEnd BY <2>13 DEF TypeEnd
  <2>14. CASE Report BY <2>14 DEF Report
  <2>15. CASE Again BY <2>15 DEF Again
  <2>16. CASE UNCHANGED watchVars BY <2>16 DEF watchVars
  <2>17. QED
    BY <2>1, <2>2, <2>3, <2>4, <2>5, <2>6, <2>7, <2>8, <2>9, <2>10, <2>11, <2>12, <2>13, <2>14,
       <2>15, <2>16 DEF WatchNext, Watcher, Dead
<1>3. WatchInv => ReportTrueIfStopped
  BY DEF WatchInv, ReportTrueIfStopped
<1>4. QED BY <1>1, <1>2, <1>3, PTL DEF WatchSpec

-----------------------------------------------------------------------------
(* The power cycler. Both properties come from the distance between the    *)
(* end of the wait and the next ping, which no second changes and only a   *)
(* ping makes smaller, by INTERVAL or more.                                *)

TimeInv ==
  /\ ppc \in {"idle", "port", "global", "sleep"}
  /\ wait \in Nat /\ due \in Nat \ {0} /\ off \in Nat /\ drops \in Nat

\* A cycle that has not cut the power yet will, before its wait is over.
CutInv ==
  /\ ppc # "idle" => said = "nothing"
  /\ ppc = "sleep" /\ taken /\ settled /\ drops = 0 =>
       Armed /\ target = "blackhole" /\ off = 0 /\ due <= wait

Late == Margin + MaxLag

\* How many pings the rest of the wait has room for.
RoomInv ==
  ppc = "sleep" =>
    /\ drops = 0 => wait < due + (INTERVAL + Late) /\ (close \/ wait < due + INTERVAL)
    /\ drops = 1 => wait < due + Late /\ (close \/ wait < due)
    /\ drops = 2 => wait < due

PoeInv == TimeInv /\ CutInv /\ RoomInv /\ CycleCuts /\ SecondCutOnlyIfClose

LEMMA Times ==
  ASSUME TimeAssumption
  PROVE  /\ INTERVAL \in Nat \ {0} /\ BREAK_SEC \in Nat \ {0} /\ STARTUP \in Nat \ {0}
         /\ Margin \in Nat \ {0} /\ MaxLag \in Nat /\ Margin + MaxLag < INTERVAL
BY DEF TimeAssumption

LEMMA PoeInitial == ASSUME TimeAssumption, PoeInit PROVE PoeInv
<1>1. /\ ppc = "idle" /\ wait = 0 /\ said = "nothing" /\ due = INTERVAL /\ off = 0 /\ drops = 0
  BY DEF PoeInit
<1>2. TimeInv /\ SecondCutOnlyIfClose BY <1>1, Times DEF TimeInv, SecondCutOnlyIfClose
<1>3. QED BY <1>1, <1>2 DEF PoeInv, CutInv, RoomInv, CycleCuts

\* A second and a ping, with room x left.
LEMMA Shift ==
  ASSUME NEW w \in Nat, NEW d \in Nat, NEW e \in Nat, NEW x \in Nat
  PROVE  /\ e >= d - 1 /\ w < d + x => w - 1 < e + x
         /\ d = 1 /\ w < d + x /\ x <= e => w - 1 < e
         /\ \A y \in Nat : d = 1 /\ w < d + (y + x) /\ y <= e => w - 1 < e + x
OBVIOUS

LEMMA PoeSecond == ASSUME TimeAssumption, PoeInv, Second PROVE PoeInv'
<1>0. /\ INTERVAL \in Nat /\ INTERVAL > 0 /\ BREAK_SEC \in Nat /\ Margin \in Nat /\ MaxLag \in Nat
      /\ Late \in Nat /\ Late < INTERVAL
      /\ wait \in Nat /\ due \in Nat /\ due > 0 /\ off \in Nat /\ drops \in Nat
  BY Times DEF PoeInv, TimeInv, Late
<1>1. /\ ppc' = ppc /\ said' = said /\ target' = target /\ enabled' = enabled /\ global' = global
      /\ settled' = settled /\ close' = close /\ taken' = taken
      /\ wait' = (IF wait > 0 THEN wait - 1 ELSE 0) /\ (ppc = "sleep" => wait > 0)
  BY DEF Second
<1>2. CASE due = 1 /\ off = 0 /\ Armed /\ target = "blackhole"
  <2>1. /\ off' = BREAK_SEC /\ due' \in {INTERVAL, INTERVAL + BREAK_SEC}
        /\ drops' = IF ppc = "sleep" THEN drops + 1 ELSE drops
    BY <1>2 DEF Second
  <2>2. TimeInv' BY <1>0, <1>1, <2>1 DEF PoeInv, TimeInv
  <2>3. CutInv' BY <1>0, <1>1, <2>1 DEF PoeInv, CutInv
  <2>4. RoomInv'
    <3>1. SUFFICES ASSUME ppc = "sleep" PROVE RoomInv'
      BY <1>1 DEF RoomInv
    <3>2. wait > 0 /\ wait' = wait - 1 /\ wait' \in Nat BY <1>0, <1>1, <3>1
    <3>3. drops' = drops + 1 /\ due' >= INTERVAL /\ due' \in Nat BY <1>0, <2>1, <3>1
    <3>4. /\ wait < due + INTERVAL => wait' < due'
          /\ wait < due + Late => wait' < due'
          /\ wait < due + (INTERVAL + Late) => wait' < due' + Late
      <4>1. wait < due + INTERVAL => wait' < due' BY <1>0, <1>2, <3>2, <3>3, Shift
      <4>2. Late <= due' BY <1>0, <3>3
      <4>3. wait < due + Late => wait' < due' BY <1>0, <1>2, <3>2, <3>3, <4>2, Shift
      <4>4. wait < due + (INTERVAL + Late) => wait' < due' + Late BY <1>0, <1>2, <3>2, <3>3, Shift
      <4>5. QED BY <4>1, <4>3, <4>4
    <3>5. (drops' = 1 => drops = 0) /\ (drops' = 2 => drops = 1) /\ drops' # 0
      BY <1>0, <3>3
    <3>6. QED BY <1>1, <3>1, <3>4, <3>5, Zenon DEF PoeInv, RoomInv
  <2>5. CycleCuts' BY <1>0, <1>1, <2>1 DEF PoeInv, CycleCuts
  <2>6. SecondCutOnlyIfClose'
    BY <1>0, <1>1, <1>2, <2>1 DEF PoeInv, RoomInv, SecondCutOnlyIfClose
  <2>7. QED BY <2>2, <2>3, <2>4, <2>5, <2>6 DEF PoeInv
<1>3. CASE ~(due = 1 /\ off = 0 /\ Armed /\ target = "blackhole")
  <2>1. /\ off' = (IF off > 0 THEN off - 1 ELSE 0)
        /\ due' = (IF due > 1 THEN due - 1 ELSE INTERVAL) /\ drops' = drops
    BY <1>3 DEF Second
  <2>2. TimeInv' BY <1>0, <1>1, <2>1 DEF PoeInv, TimeInv
  <2>3. CutInv'
    <3>1. SUFFICES ASSUME ppc = "sleep", taken, settled, drops = 0
                   PROVE  Armed' /\ target' = "blackhole" /\ off' = 0 /\ due' <= wait'
      BY <1>1, <2>1 DEF PoeInv, CutInv
    <3>2. Armed /\ target = "blackhole" /\ off = 0 /\ due <= wait
      BY <3>1 DEF PoeInv, CutInv
    <3>3. Armed' BY <1>1, <3>2 DEF Armed
    <3>4. due # 1 BY <1>3, <3>2
    <3>5. due' = due - 1 /\ off' = 0
      BY <1>0, <2>1, <3>2, <3>4
    <3>6. wait > 0 BY <1>1, <3>1
    <3>7. wait' = wait - 1 BY <1>0, <1>1, <3>6
    <3>8. due' <= wait' BY <1>0, <3>2, <3>5, <3>7
    <3>9. QED BY <1>1, <3>2, <3>3, <3>5, <3>8
  <2>4. RoomInv'
    <3>1. SUFFICES ASSUME ppc = "sleep" PROVE RoomInv'
      BY <1>1 DEF RoomInv
    <3>2. wait > 0 BY <1>1, <3>1
    <3>3. wait' = wait - 1 /\ wait' \in Nat BY <1>0, <1>1, <3>2
    <3>4. due' \in Nat /\ due' >= due - 1 BY <1>0, <2>1
    <3>5. drops' = drops /\ close' = close BY <1>1, <2>1
    <3>6. /\ wait < due => wait' < due'
          /\ wait < due + INTERVAL => wait' < due' + INTERVAL
          /\ wait < due + Late => wait' < due' + Late
          /\ wait < due + (INTERVAL + Late) => wait' < due' + (INTERVAL + Late)
      <4>1. wait < due => wait' < due' BY <1>0, <3>3, <3>4
      <4>2. wait < due + INTERVAL => wait' < due' + INTERVAL BY <1>0, <3>3, <3>4, Shift
      <4>3. wait < due + Late => wait' < due' + Late BY <1>0, <3>3, <3>4, Shift
      <4>4. wait < due + (INTERVAL + Late) => wait' < due' + (INTERVAL + Late)
        <5>1. INTERVAL + Late \in Nat BY <1>0
        <5>2. QED BY <1>0, <3>3, <3>4, <5>1, Shift
      <4>5. QED BY <4>1, <4>2, <4>3, <4>4
    <3>7. QED BY <3>1, <3>5, <3>6, Zenon DEF PoeInv, RoomInv
  <2>5. QED BY <1>1, <2>1, <2>2, <2>3, <2>4 DEF PoeInv, CycleCuts, SecondCutOnlyIfClose
<1>4. QED BY <1>2, <1>3

\* What a POST does to the timer, taken or dropped.
LEMMA PostTimer ==
  ASSUME TimeAssumption, PoeInv, Effect \/ UNCHANGED switch
  PROVE  due' \in Nat \ {0} /\ off' = off /\ (ppc = "port" /\ cmd = "cycle" /\ due <= INTERVAL => due' <= INTERVAL)
BY Times DEF PoeInv, TimeInv, Effect, SetupPort, SetTarget, switch

LEMMA PoeFlip == ASSUME TimeAssumption, PoeInv, Flip PROVE PoeInv'
<1> USE Times
<1>1. /\ ppc = "port" /\ cmd = "cycle" /\ ppc' = "sleep" /\ said' = said
      /\ wait' \in INTERVAL + Margin .. INTERVAL + Margin + MaxLag
      /\ drops' = 0 /\ (settled' => Armed /\ due <= INTERVAL /\ off = 0)
      /\ (close' <=> due' <= Margin + MaxLag)
  BY Zenon DEF Flip
<1>2. due' \in Nat \ {0} /\ off' = off /\ (due <= INTERVAL => due' <= INTERVAL)
  BY <1>1, PostTimer DEF Flip, Post
<1>3. taken' => taken /\ target' = "blackhole" /\ enabled' = enabled /\ global' = global
  BY <1>1 DEF Flip, Post, Effect, SetTarget
<1>4. TimeInv' BY <1>1, <1>2 DEF PoeInv, TimeInv
<1>5. CutInv'
  <2>1. taken' /\ settled' => Armed' BY <1>1, <1>3 DEF Armed
  <2>2. settled' => due' <= wait' /\ off' = 0
    BY <1>1, <1>2
  <2>3. QED BY <1>1, <1>3, <2>1, <2>2 DEF PoeInv, CutInv
<1>6. RoomInv'
  <2>1. wait' \in Nat /\ wait' <= INTERVAL + Late /\ Late \in Nat
    BY <1>1 DEF Late
  <2>2. wait' < due' + (INTERVAL + Late)
    BY <1>2, <2>1
  <2>3. ~(due' <= Late) => wait' < due' + INTERVAL
    BY <1>2, <2>1
  <2>4. drops' # 1 /\ drops' # 2 BY <1>1
  <2>5. QED BY <1>1, <2>2, <2>3, <2>4, Zenon DEF RoomInv, Late
<1>7. QED BY <1>1, <1>4, <1>5, <1>6 DEF PoeInv, CutInv, CycleCuts, SecondCutOnlyIfClose

\* Commands other than the flip do not touch the history of the last cycle.
LEMMA PoeOther ==
  ASSUME TimeAssumption, PoeInv, Start \/ SetupPost \/ GlobalPost \/ Revert \/ Die
  PROVE  PoeInv'
<1>1. /\ ppc' \in {"idle", "port", "global"} /\ wait' \in {wait, 0}
      /\ drops' = drops /\ settled' = settled /\ close' = close
  BY DEF Start, SetupPost, GlobalPost, Revert, Die
<1>2. due' \in Nat \ {0} /\ off' = off
  BY PostTimer DEF Start, SetupPost, GlobalPost, Revert, Die, Post
<1>3. TimeInv' BY <1>1, <1>2 DEF PoeInv, TimeInv
<1>4. CutInv'
  BY DEF Start, SetupPost, GlobalPost, Revert, Die, PoeInv, CutInv
<1>5. CycleCuts'
  <2>1. CASE Revert
    <3>1. taken' => taken BY <2>1 DEF Revert, Post
    <3>2. taken /\ settled => drops # 0
      BY <2>1 DEF Revert, PoeInv, CutInv, TimeInv
    <3>3. QED BY <1>1, <3>1, <3>2 DEF PoeInv, TimeInv, CycleCuts
  <2>2. CASE Start \/ SetupPost \/ GlobalPost \/ Die
    BY <2>2 DEF Start, SetupPost, GlobalPost, Die, PoeInv, CutInv, CycleCuts
  <2>3. QED BY <2>1, <2>2
<1>6. QED BY <1>1, <1>3, <1>4, <1>5 DEF PoeInv, RoomInv, SecondCutOnlyIfClose

\* The invariant is one, for every interval, break, margin and lag.
THEOREM PoeInvariance == ASSUME TimeAssumption PROVE PoeSpec => []PoeInv
<1>1. PoeInit => PoeInv BY PoeInitial
<1>2. PoeInv /\ [PoeNext]_poeVars => PoeInv'
  <2>1. SUFFICES ASSUME PoeInv, [PoeNext]_poeVars PROVE PoeInv'
    OBVIOUS
  <2>2. CASE Second BY <2>1, <2>2, PoeSecond
  <2>3. CASE Flip BY <2>1, <2>3, PoeFlip
  <2>4. CASE Start \/ SetupPost \/ GlobalPost \/ Revert \/ Die
    BY <2>1, <2>4, PoeOther
  <2>5. CASE UNCHANGED poeVars
    BY <2>1, <2>5 DEF poeVars, switch, hist, PoeInv, TimeInv, CutInv, RoomInv, Armed, CycleCuts,
                      SecondCutOnlyIfClose
  <2>6. QED BY <2>1, <2>2, <2>3, <2>4, <2>5 DEF PoeNext, Script
<1>3. QED BY <1>1, <1>2, PTL DEF PoeSpec

\* A cycle that reports success has cut the power, wherever in its interval the
\* flip came, unless the port was first armed moments before (poe_cycle.sh
\* 115-122).
THEOREM CycleCorrect == ASSUME TimeAssumption PROVE PoeSpec => []CycleCuts
<1>1. PoeInv => CycleCuts BY DEF PoeInv
<1>2. QED BY <1>1, PoeInvariance, PTL

\* A cycle cuts the power a second time only if it comes so close before a ping
\* that the next one falls into the wait too, and never a third time
\* (poe_cycle.sh 115-122).
THEOREM SecondCutCorrect == ASSUME TimeAssumption PROVE PoeSpec => []SecondCutOnlyIfClose
<1>1. PoeInv => SecondCutOnlyIfClose BY DEF PoeInv
<1>2. QED BY <1>1, PoeInvariance, PTL

-----------------------------------------------------------------------------
(* The catcher. *)

Str == Seq(Nat)

\* Sequences cut in two.
LEMMA SubSeqStr ==
  ASSUME NEW s \in Str, NEW m \in Nat \ {0}, NEW k \in Nat, k <= Len(s)
  PROVE  /\ SubSeq(s, m, k) \in Str
         /\ Len(SubSeq(s, m, k)) = IF m <= k THEN k - m + 1 ELSE 0
         /\ \A i \in 1 .. k - m + 1 : SubSeq(s, m, k)[i] = s[m + i - 1]
<1>1. Len(s) \in Nat BY DEF Str
<1>2. \A i \in m .. k : s[i] \in Nat BY <1>1 DEF Str
<1>3. m \in Int /\ k \in Int OBVIOUS
<1>4. QED BY <1>2, <1>3, SubSeqProperties DEF Str

LEMMA EqualFronts ==
  ASSUME NEW a \in Str, NEW b \in Str, NEW k \in Nat, k <= Len(a), k <= Len(b),
         \A i \in 1 .. k : a[i] = b[i]
  PROVE  SubSeq(a, 1, k) = SubSeq(b, 1, k)
<1> DEFINE c == SubSeq(a, 1, k)
           d == SubSeq(b, 1, k)
<1>1. k - 1 + 1 = k /\ \A i \in 1 .. k : 1 + i - 1 = i OBVIOUS
<1>2. c \in Str /\ Len(c) = k /\ \A i \in 1 .. k : c[i] = a[i]
  BY <1>1, SubSeqStr
<1>3. d \in Str /\ Len(d) = k /\ \A i \in 1 .. k : d[i] = b[i]
  BY <1>1, SubSeqStr
<1> HIDE DEF c, d
<1>4. c = d BY <1>2, <1>3, SeqEqual DEF Str
<1>5. QED BY <1>4 DEF c, d

LEMMA PrefixOfConcat == ASSUME NEW s \in Str, NEW r \in Str PROVE IsPrefix(s, s \o r)
<1>1. Len(s) <= Len(s \o r) BY DEF Str
<1>2. SubSeq(s, 1, Len(s)) = SubSeq(s \o r, 1, Len(s))
  BY DEF Str
<1>3. QED BY <1>1, <1>2 DEF IsPrefix

LEMMA ReverseStr == ASSUME NEW s \in Str PROVE Reverse(s) \in Str
<1>1. Len(s) \in Nat /\ \A i \in 1 .. Len(s) : s[i] \in Nat BY DEF Str
<1>2. \A i \in 1 .. Len(s) : (Len(s) - i) + 1 \in 1 .. Len(s) BY <1>1
<1>3. Reverse(s) = [i \in 1 .. Len(s) |-> s[(Len(s) - i) + 1]] BY DEF Reverse
<1>4. Reverse(s) \in [1 .. Len(s) -> Nat] BY <1>1, <1>2, <1>3
<1>5. QED BY <1>1, <1>4 DEF Str

LEMMA SuffixOfConcat == ASSUME NEW s \in Str, NEW r \in Str PROVE IsSuffix(s, r \o s)
<1> DEFINE t == r \o s
<1>1. t \in Str /\ Len(t) = Len(r) + Len(s) /\ Len(s) \in Nat /\ Len(r) \in Nat
  BY DEF Str
<1>2. Len(Reverse(s)) = Len(s) /\ Len(Reverse(t)) = Len(t)
  BY <1>1 DEF Reverse, Str
<1>3. \A i \in 1 .. Len(s) : Reverse(s)[i] = Reverse(t)[i]
  <2>1. TAKE i \in 1 .. Len(s)
  <2>2. Reverse(s)[i] = s[(Len(s) - i) + 1] BY DEF Reverse
  <2>3. i \in 1 .. Len(t) BY <1>1
  <2>4. Reverse(t)[i] = t[(Len(t) - i) + 1] BY <2>3 DEF Reverse
  <2>5. (Len(t) - i) + 1 = Len(r) + ((Len(s) - i) + 1) /\ (Len(s) - i) + 1 \in 1 .. Len(s)
    BY <1>1
  <2>6. t[Len(r) + ((Len(s) - i) + 1)] = s[(Len(s) - i) + 1]
    BY <1>1, <2>5 DEF Str
  <2>7. QED BY <2>2, <2>4, <2>5, <2>6
<1>4. QED
  <2>1. Reverse(s) \in Str /\ Reverse(t) \in Str
    BY <1>1, ReverseStr
  <2>2. SubSeq(Reverse(s), 1, Len(s)) = SubSeq(Reverse(t), 1, Len(s))
    <3>1. Len(s) <= Len(Reverse(s)) /\ Len(s) <= Len(Reverse(t)) BY <1>1, <1>2
    <3> HIDE DEF t
    <3>2. QED BY <1>1, <1>3, <2>1, <3>1, EqualFronts
  <2>3. QED BY <1>1, <1>2, <2>2 DEF IsSuffix, IsPrefix

Associates(a, b, c) == (a \o b) \o c = a \o (b \o c)
LEMMA Associate == ASSUME NEW a \in Str, NEW b \in Str, NEW c \in Str PROVE Associates(a, b, c)
<1>1. a \in Seq(Nat) /\ b \in Seq(Nat) /\ c \in Seq(Nat) BY Zenon DEF Str
<1>2. (a \o b) \o c = a \o (b \o c) BY <1>1, ConcatAssociative, SMTT(40)
<1>3. QED BY <1>2, Zenon DEF Associates

LEMMA CutInTwo ==
  ASSUME NEW s \in Str, NEW k \in 0 .. Len(s)
  PROVE  /\ SubSeq(s, 1, k) \in Str /\ SubSeq(s, k + 1, Len(s)) \in Str
         /\ s = SubSeq(s, 1, k) \o SubSeq(s, k + 1, Len(s))
         /\ Len(SubSeq(s, 1, k)) = k /\ Len(SubSeq(s, k + 1, Len(s))) = Len(s) - k
<1>1. Len(s) \in Nat /\ k \in Nat /\ k <= Len(s) /\ k + 1 \in Nat \ {0} BY DEF Str
<1>2. SubSeq(s, 1, k) \in Str /\ Len(SubSeq(s, 1, k)) = k
  <2>1. Len(SubSeq(s, 1, k)) = IF 1 <= k THEN k - 1 + 1 ELSE 0 BY <1>1, SubSeqStr
  <2>2. QED BY <1>1, <2>1, SubSeqStr
<1>3. SubSeq(s, k + 1, Len(s)) \in Str /\ Len(SubSeq(s, k + 1, Len(s))) = Len(s) - k
  <2>1. Len(SubSeq(s, k + 1, Len(s))) = IF k + 1 <= Len(s) THEN Len(s) - (k + 1) + 1 ELSE 0
    BY <1>1, SubSeqStr
  <2>2. QED BY <1>1, <2>1, SubSeqStr
<1>4. SubSeq(s, 1, k) \o SubSeq(s, k + 1, Len(s)) = SubSeq(s, 1, Len(s))
  <2>1. 1 \in 1 .. Len(s) + 1 /\ k \in 1 - 1 .. Len(s) /\ Len(s) \in k .. Len(s) BY <1>1
  <2>2. QED BY <2>1, ConcatAdjacentSubSeq DEF Str
<1>5. QED BY <1>2, <1>3, <1>4, SubSeqFull DEF Str

\* A sequence that is long enough has all of the first part; r is the rest.
Splits(b, x, e, z, r) == r \in Str /\ b = e \o r /\ r \o x = z
LEMMA SplitFront ==
  ASSUME NEW b \in Str, NEW x \in Str, NEW e \in Str, NEW z \in Str, b \o x = e \o z, Len(b) >= Len(e)
  PROVE  Splits(b, x, e, z, SubSeq(b, Len(e) + 1, Len(b)))
<1> DEFINE r == SubSeq(b, Len(e) + 1, Len(b))
<1>1. /\ Len(b) \in Nat /\ Len(x) \in Nat /\ Len(e) \in Nat /\ Len(z) \in Nat
      /\ Len(b) + Len(x) = Len(e) + Len(z)
  <2>1. Len(b \o x) = Len(b) + Len(x) /\ Len(e \o z) = Len(e) + Len(z) BY DEF Str
  <2>2. QED BY <2>1 DEF Str
<1>2. r \in Str /\ Len(r) = Len(b) - Len(e) /\ b = SubSeq(b, 1, Len(e)) \o r
  <2>1. Len(e) \in 0 .. Len(b) BY <1>1
  <2>2. QED BY <2>1, CutInTwo
<1>3. SubSeq(b, 1, Len(e)) = e
  <2>1. \A i \in 1 .. Len(e) : b[i] = e[i]
    <3>1. TAKE i \in 1 .. Len(e)
    <3>2. (b \o x)[i] = b[i] BY <1>1 DEF Str
    <3>3. (e \o z)[i] = e[i] BY <1>1 DEF Str
    <3>4. QED BY <3>2, <3>3
  <2>2. SubSeq(b, 1, Len(e)) = SubSeq(e, 1, Len(e)) BY <1>1, <2>1, EqualFronts
  <2>3. QED BY <2>2, SubSeqFull DEF Str
<1>4. b = e \o r BY <1>2, <1>3
<1> HIDE DEF r
<1>5. e \o (r \o x) = e \o z
  <2>1. Associates(e, r, x) BY <1>2, Associate
  <2>2. QED BY <1>4, <2>1 DEF Associates
<1>6. r \o x = z
  <2>1. r \o x \in Str BY <1>2 DEF Str
  <2>2. QED BY <1>5, <2>1, ConcatSimplifications DEF Str
<1>7. QED BY <1>2, <1>4, <1>6 DEF r, Splits

LEMMA ConcatStr ==
  ASSUME NEW a \in Str, NEW b \in Str
  PROVE  /\ a \o b \in Str /\ Len(a \o b) = Len(a) + Len(b) /\ Len(a) \in Nat /\ Len(b) \in Nat
         /\ \A i \in 1 .. Len(a) : (a \o b)[i] = a[i]
         /\ a \o <<>> = a /\ <<>> \o a = a
BY DEF Str

LEMMA EmptyConcat == ASSUME NEW a \in Str, NEW b \in Str, a \o b = <<>> PROVE a = <<>> /\ b = <<>>
BY DEF Str

LEMMA EmptyStr == <<>> \in Str /\ Len(<<>>) = 0
BY DEF Str

LEMMA Base4 == ASSUME NEW n \in Nat PROVE n = 4 * (n \div 4) + (n % 4) /\ n \div 4 \in Nat /\ n % 4 \in Nat
OBVIOUS

LEMMA FourStr ==
  ASSUME NEW a \in Nat, NEW b \in Nat, NEW c \in Nat, NEW d \in Nat
  PROVE  <<a, b, c, d>> \in Str /\ Len(<<a, b, c, d>>) = 4
BY DEF Str

\* A frame with header g and data d, at the front of a stream.
LEMMA FrameInFront ==
  ASSUME NEW b \in Str, NEW x \in Str, NEW g \in Str, NEW d \in Str, NEW z \in Str,
         b \o x = (g \o d) \o z, Len(b) >= Len(g) + Len(d)
  PROVE  /\ SubSeq(b, Len(g) + 1, Len(g) + Len(d)) = d
         /\ Splits(b, x, g \o d, z, SubSeq(b, Len(g) + Len(d) + 1, Len(b)))
<1> DEFINE e == g \o d
           r == SubSeq(b, Len(e) + 1, Len(b))
           p == SubSeq(b, Len(g) + 1, Len(e))
<1>1. e \in Str /\ Len(e) = Len(g) + Len(d) /\ Len(g) \in Nat /\ Len(d) \in Nat /\ Len(b) \in Nat
  BY ConcatStr
<1>2. b \o x = e \o z /\ Len(b) >= Len(e) BY <1>1
<1>3. Splits(b, x, e, z, r)
  <2> HIDE DEF e
  <2>1. QED BY <1>1, <1>2, SplitFront
<1>4. p = d
  <2>1. Len(g) + 1 \in Nat \ {0} /\ Len(e) \in Nat /\ Len(e) <= Len(b) BY <1>1, <1>2
  <2>2. \A i \in 1 .. Len(d) : e[Len(g) + i] = d[i] BY DEF Str
  <2>3. \A i \in 1 .. Len(e) : b[i] = e[i]
    <3> HIDE DEF e, r
    <3>1. r \in Str /\ b = e \o r BY <1>3 DEF Splits
    <3>2. QED BY <1>1, <3>1, ConcatStr
  <2>4. /\ p \in Str /\ Len(p) = (IF Len(g) + 1 <= Len(e) THEN Len(e) - (Len(g) + 1) + 1 ELSE 0)
        /\ \A i \in 1 .. Len(e) - (Len(g) + 1) + 1 : p[i] = b[Len(g) + 1 + i - 1]
    <3> HIDE DEF e
    <3>1. QED BY <2>1, SubSeqStr
  <2> HIDE DEF p, e
  <2>5. Len(p) = Len(d) BY <1>1, <2>4
  <2>6. \A i \in 1 .. Len(d) : p[i] = d[i]
    <3>1. TAKE i \in 1 .. Len(d)
    <3>2. Len(g) + 1 + i - 1 = Len(g) + i /\ Len(e) - (Len(g) + 1) + 1 = Len(d) /\ Len(g) + i \in 1 .. Len(e)
      BY <1>1
    <3>3. QED BY <2>2, <2>3, <2>4, <3>2
  <2>7. QED BY <2>4, <2>5, <2>6, SeqEqual DEF Str
<1> HIDE DEF e
<1>5. Len(e) + 1 = Len(g) + Len(d) + 1 BY <1>1
<1>6. QED BY <1>1, <1>3, <1>4, <1>5 DEF e

Agree(b, g) == \A i \in 1 .. Len(g) : i <= Len(b) => b[i] = g[i]
LEMMA SameFront ==
  ASSUME NEW b \in Str, NEW x \in Str, NEW g \in Str, NEW d \in Str, NEW z \in Str,
         b \o x = (g \o d) \o z
  PROVE  Agree(b, g)
<1> USE DEF Agree
<1>1. TAKE i \in 1 .. Len(g)
<1>2. HAVE i <= Len(b)
<1>3. i \in 1 .. Len(b) BY <1>2, ConcatStr
<1>4. (b \o x)[i] = b[i] BY <1>3, ConcatStr
<1>5. (g \o d)[i] = g[i] /\ i \in 1 .. Len(g \o d) /\ g \o d \in Str BY ConcatStr
<1>6. ((g \o d) \o z)[i] = g[i] BY <1>5, ConcatStr
<1>7. QED BY <1>4, <1>6

\* The client takes exactly the frame that is at the front of the stream.
LEMMA ShortNotExt == ASSUME NEW n \in Nat, n < EXT PROVE n # EXT
BY DEF EXT

LEMMA TakeFrame ==
  ASSUME NEW op \in Nat, NEW d \in Str, NEW x \in Str, NEW z \in Str, buf \in Str,
         buf \o x = Encode(op, d) \o z, Len(buf) >= 2, Complete
  PROVE  LET end == HeadLen + DataLen
         IN  /\ buf[1] = op /\ SubSeq(buf, HeadLen + 1, end) = d
             /\ Splits(buf, x, Encode(op, d), z, SubSeq(buf, end + 1, Len(buf)))
<1>1. Len(d) \in Nat /\ Len(buf) \in Nat BY ConcatStr
<1>2. \E g \in Str : /\ Encode(op, d) = g \o d /\ g[1] = op /\ buf[1] = g[1]
                    /\ Len(g) = HeadLen /\ Len(d) = DataLen
  <2>1. CASE Len(d) < EXT
    <3> DEFINE g == <<op, Len(d)>>
    <3>1. g \in Str /\ Len(g) = 2 /\ g[1] = op /\ g[2] = Len(d) BY <1>1 DEF Str
    <3>2. Encode(op, d) = g \o d BY <2>1 DEF Encode
    <3> HIDE DEF g
    <3>3. Agree(buf, g)
      <4>1. buf \o x = (g \o d) \o z BY <3>2
      <4>2. QED BY <3>1, <4>1, SameFront
    <3>4. buf[1] = g[1] /\ buf[2] = Len(d) BY <1>1, <3>1, <3>3 DEF Agree
    <3>5. buf[2] # EXT BY <1>1, <2>1, <3>4, ShortNotExt, Zenon
    <3>6. Len(g) = HeadLen /\ Len(d) = DataLen BY <3>1, <3>4, <3>5 DEF HeadLen, DataLen
    <3>7. QED BY <3>1, <3>2, <3>4, <3>6
  <2>2. CASE ~(Len(d) < EXT)
    <3> DEFINE g == <<op, EXT, Len(d) \div 4, Len(d) % 4>>
    <3>1. Len(d) = 4 * (Len(d) \div 4) + (Len(d) % 4) /\ Len(d) \div 4 \in Nat /\ Len(d) % 4 \in Nat
      BY <1>1, Base4
    <3>2. /\ g \in Str /\ Len(g) = 4 /\ g[1] = op /\ g[2] = EXT
          /\ g[3] = Len(d) \div 4 /\ g[4] = Len(d) % 4
      BY <1>1, <3>1 DEF Str, EXT
    <3>3. Encode(op, d) = g \o d BY <2>2 DEF Encode
    <3> HIDE DEF g
    <3>4. Agree(buf, g)
      <4>1. buf \o x = (g \o d) \o z BY <3>3
      <4>2. QED BY <3>2, <4>1, SameFront
    <3>5. buf[1] = g[1] /\ buf[2] = EXT BY <1>1, <3>2, <3>4 DEF Agree
    <3>6. HeadLen = 4 BY <3>5 DEF HeadLen
    <3>7. Len(buf) >= 4 BY <3>6 DEF Complete
    <3>8. buf[3] = Len(d) \div 4 /\ buf[4] = Len(d) % 4 BY <1>1, <3>2, <3>4, <3>7 DEF Agree
    <3>9. DataLen = 4 * (Len(d) \div 4) + (Len(d) % 4) BY <3>5, <3>8 DEF DataLen
    <3>10. QED BY <3>1, <3>2, <3>3, <3>5, <3>6, <3>9
  <2>3. QED BY <2>1, <2>2
<1>3. PICK g \in Str : /\ Encode(op, d) = g \o d /\ g[1] = op /\ buf[1] = g[1]
                     /\ Len(g) = HeadLen /\ Len(d) = DataLen
  BY <1>2
<1>4. Len(buf) >= Len(g) + Len(d) BY <1>3 DEF Complete
<1>5. buf \o x = (g \o d) \o z BY <1>3
<1>6. /\ SubSeq(buf, Len(g) + 1, Len(g) + Len(d)) = d
      /\ Splits(buf, x, g \o d, z, SubSeq(buf, Len(g) + Len(d) + 1, Len(buf)))
  BY <1>4, <1>5, FrameInFront
<1>7. QED BY <1>3, <1>6

\* A stream of whole frames and the console text they carry: the least set with
\* the empty stream that is closed under putting a frame in front.
Unit(e, dd) == \/ dd \in Str /\ e = Encode(TEXT, dd)
               \/ dd = <<>> /\ e = Encode(PING, <<>>)
Closed(X) == /\ <<<<>>, <<>>>> \in X
             /\ \A w, s, e, dd \in Str : <<w, s>> \in X /\ Unit(e, dd) => <<e \o w, dd \o s>> \in X
Valid == {p \in Str \X Str : \A X \in SUBSET (Str \X Str) : Closed(X) => p \in X}

LEMMA EncodeStr == ASSUME NEW op \in Nat, NEW d \in Str PROVE Encode(op, d) \in Str /\ Encode(op, d) # <<>>
<1>1. Len(d) \in Nat /\ Len(d) \div 4 \in Nat /\ Len(d) % 4 \in Nat
  <2>1. Len(d) \in Nat BY ConcatStr
  <2>2. QED BY <2>1, Base4
<1>2. PICK g \in Str : Encode(op, d) = g \o d /\ Len(g) \in {2, 4}
  <2>1. CASE Len(d) < EXT
    <3> DEFINE g == <<op, Len(d)>>
    <3>1. g \in Str /\ Len(g) = 2 BY <1>1 DEF Str
    <3>2. Encode(op, d) = g \o d BY <2>1 DEF Encode
    <3> HIDE DEF g
    <3>3. QED BY <3>1, <3>2
  <2>2. CASE ~(Len(d) < EXT)
    <3> DEFINE g == <<op, EXT, Len(d) \div 4, Len(d) % 4>>
    <3>1. EXT \in Nat BY DEF EXT
    <3>2. g \in Str /\ Len(g) = 4
      <4>1. op \in Nat /\ Len(d) \div 4 \in Nat /\ Len(d) % 4 \in Nat BY <1>1
      <4>2. QED BY <3>1, <4>1, FourStr DEF g
    <3>3. Encode(op, d) = g \o d BY <2>2 DEF Encode
    <3> HIDE DEF g
    <3>4. QED BY <3>2, <3>3
  <2>3. QED BY <2>1, <2>2
<1>3. g \o d \in Str /\ Len(g \o d) = Len(g) + Len(d) BY ConcatStr
<1>4. g \o d # <<>> BY <1>1, <1>2, <1>3, EmptyStr
<1>5. QED BY <1>2, <1>3, <1>4

LEMMA UnitStr == ASSUME NEW e, NEW dd, Unit(e, dd) PROVE e \in Str /\ dd \in Str
BY EncodeStr, EmptyStr DEF Unit, TEXT, PING

LEMMA ValidClosed == Closed(Valid)
<1>1. <<<<>>, <<>>>> \in Valid BY EmptyStr DEF Valid, Closed
<1>2. ASSUME NEW w \in Str, NEW s \in Str, NEW e \in Str, NEW dd \in Str, <<w, s>> \in Valid, Unit(e, dd)
      PROVE  <<e \o w, dd \o s>> \in Valid
  <2>1. <<e \o w, dd \o s>> \in Str \X Str BY ConcatStr
  <2>2. ASSUME NEW X \in SUBSET (Str \X Str), Closed(X) PROVE <<e \o w, dd \o s>> \in X
    <3>1. <<w, s>> \in X BY <1>2, <2>2 DEF Valid
    <3>2. QED BY <1>2, <2>2, <3>1 DEF Closed
  <2>3. QED BY <2>1, <2>2 DEF Valid
<1>3. QED BY <1>1, <1>2 DEF Closed

LEMMA ValidLeast == ASSUME NEW X \in SUBSET Valid, Closed(X) PROVE Valid \subseteq X
BY DEF Valid

\* A stream of whole frames is empty, or begins with a frame.
Begins(w, s) == \E e, dd, v, t \in Str : Unit(e, dd) /\ w = e \o v /\ s = dd \o t /\ <<v, t>> \in Valid
LEMMA ValidSplit ==
  ASSUME NEW w \in Str, NEW s \in Str, <<w, s>> \in Valid
  PROVE  (w = <<>> /\ s = <<>>) \/ Begins(w, s)
<1> DEFINE X == {p \in Valid : p = <<<<>>, <<>>>> \/ Begins(p[1], p[2])}
<1>1. <<<<>>, <<>>>> \in X BY ValidClosed DEF Closed
<1>2. ASSUME NEW v \in Str, NEW t \in Str, NEW e \in Str, NEW dd \in Str, <<v, t>> \in X, Unit(e, dd)
      PROVE  <<e \o v, dd \o t>> \in X
  <2>1. <<v, t>> \in Valid BY <1>2
  <2>2. <<e \o v, dd \o t>> \in Valid BY <1>2, <2>1, ValidClosed DEF Closed
  <2>3. Begins(e \o v, dd \o t) BY <1>2, <2>1 DEF Begins
  <2>4. QED BY <2>2, <2>3
<1>3. Closed(X)
  <2> HIDE DEF X
  <2>1. QED BY <1>1, <1>2 DEF Closed
<1>4. X \in SUBSET Valid OBVIOUS
<1>5. <<w, s>> \in X
  <2> HIDE DEF X
  <2>1. QED BY <1>3, <1>4, ValidLeast
<1>6. QED BY <1>5

\* A frame may be put behind a stream of whole frames.
LEMMA ValidAppend ==
  ASSUME NEW w \in Str, NEW s \in Str, NEW f \in Str, NEW c \in Str, <<w, s>> \in Valid, Unit(f, c)
  PROVE  <<w \o f, s \o c>> \in Valid
<1> DEFINE X == {p \in Valid : <<p[1] \o f, p[2] \o c>> \in Valid}
<1>1. <<<<>>, <<>>>> \in X
  <2>1. <<f \o <<>>, c \o <<>>>> \in Valid BY EmptyStr, ValidClosed DEF Closed
  <2>2. f \o <<>> = <<>> \o f /\ c \o <<>> = <<>> \o c BY ConcatStr
  <2>3. <<<<>> \o f, <<>> \o c>> \in Valid BY <2>1, <2>2
  <2>4. QED BY <2>3, ValidClosed DEF Closed
<1>2. ASSUME NEW v \in Str, NEW t \in Str, NEW e \in Str, NEW dd \in Str, <<v, t>> \in X, Unit(e, dd)
      PROVE  <<e \o v, dd \o t>> \in X
  <2>1. <<v, t>> \in Valid /\ <<v \o f, t \o c>> \in Valid BY <1>2
  <2>2. v \o f \in Str /\ t \o c \in Str BY ConcatStr
  <2>3. <<e \o (v \o f), dd \o (t \o c)>> \in Valid BY <1>2, <2>1, <2>2, ValidClosed DEF Closed
  <2>4. <<(e \o v) \o f, (dd \o t) \o c>> \in Valid
    <3>1. Associates(e, v, f) /\ Associates(dd, t, c) BY Associate
    <3>2. QED BY <2>3, <3>1, Zenon DEF Associates
  <2>5. <<e \o v, dd \o t>> \in Valid BY <1>2, <2>1, ValidClosed DEF Closed
  <2>6. QED BY <2>4, <2>5
<1>3. Closed(X)
  <2> HIDE DEF X
  <2>1. QED BY <1>1, <1>2 DEF Closed
<1>4. X \in SUBSET Valid OBVIOUS
<1>5. <<w, s>> \in X
  <2> HIDE DEF X
  <2>1. QED BY <1>3, <1>4, ValidLeast
<1>6. QED BY <1>5

Types ==
  /\ buf \in Str /\ out \in Str /\ rx_buf \in Str /\ net \in Str /\ sent \in Str /\ got \in Str
  /\ frames \in Nat
  /\ pc = "frame" => Len(buf) >= 2
  /\ pc \in {"connect", "loop", "send"} => out = <<>>

\* The bytes held and on their way, with the ones a dying probe has cut off, are
\* whole frames w and perhaps a close; the frames carry the text not delivered
\* yet. Nothing is cut off while the probe goes on.
Tails == {<<>>, Encode(CLOSE, <<>>)}
Stream(w, rest, cut, tail) ==
  /\ <<w, rest>> \in Valid
  /\ buf \o (net \o cut) = w \o tail
  /\ sent = (got \o out) \o rest
  /\ tail # <<>> => closed
  /\ frames < MaxFrames /\ ~closed => cut = <<>>
StreamInv == \E w, rest, cut \in Str, tail \in Tails : Stream(w, rest, cut, tail)

KeptInv ==
  /\ \E r \in Str : got = r \o rx_buf
  /\ rx_buf = got \/ Len(rx_buf) >= TAIL

LEMMA TailsStr == Tails \subseteq Str
BY EncodeStr, EmptyStr DEF Tails, CLOSE

LEMMA TextStr == ASSUME sent \in Str, NEW n \in Nat
                 PROVE  Text(n) \in Str /\ Len(Text(n)) = n /\ \A i \in 1 .. n : Text(n)[i] \in {4, 5}
<1>1. Text(n) = [i \in 1 .. n |-> IF (Len(sent) + i) % 2 = 0 THEN 4 ELSE 5] BY DEF Text
<1>2. \A i \in 1 .. n : Text(n)[i] \in {4, 5} BY <1>1
<1>3. Text(n) \in [1 .. n -> Nat] BY <1>1
<1>4. QED BY <1>2, <1>3 DEF Str

LEMMA MarkedStr == ASSUME NEW t \in Str, NEW marks \in SUBSET Nat, NEW d \in Marked(t, marks) PROVE d \in Str
<1>1. PICK i \in DOMAIN t, m \in marks : d = [t EXCEPT ![i] = m] BY DEF Marked
<1>2. QED BY <1>1 DEF Str

LEMMA PromptsStr == ASSUME NEW t \in Str, NEW d \in Prompts(t) PROVE d \in Str
<1>1. PICK i \in 1 .. Len(t) - 1 : d = [t EXCEPT ![i] = UBOOT, ![i + 1] = ARROW] BY DEF Prompts
<1>2. UBOOT \in Nat /\ ARROW \in Nat BY DEF UBOOT, ARROW
<1>3. PICK e : e = [t EXCEPT ![i] = UBOOT] OBVIOUS
<1>4. e \in Str BY <1>2, <1>3 DEF Str
<1>5. d = [e EXCEPT ![i + 1] = ARROW] BY <1>1, <1>3
<1>6. DOMAIN e = 1 .. Len(e) BY <1>4 DEF Str
<1>7. d = [x \in 1 .. Len(e) |-> IF x = i + 1 THEN ARROW ELSE e[x]] BY <1>5, <1>6
<1>8. \A x \in 1 .. Len(e) : e[x] \in Nat BY <1>4, <1>6 DEF Str
<1>9. d \in [1 .. Len(e) -> Nat] BY <1>2, <1>7, <1>8
<1>10. Len(e) \in Nat BY <1>4, ConcatStr
<1>11. QED BY <1>9, <1>10 DEF Str

LEMMA PrintsStr == ASSUME sent \in Str, NEW d \in Prints PROVE d \in Str
<1>1. PICK n \in DataLens :
        d \in {Text(n)} \cup Marked(Text(n), Marks) \cup
              (IF panel = "prompt" THEN Marked(Text(n), {UBOOT, ARROW}) \cup Prompts(Text(n)) ELSE {})
  BY DEF Prints
<1>2. n \in Nat BY BoundAssumption
<1>3. PICK t \in Str : t = Text(n) BY <1>2, TextStr
<1>4. d = t \/ d \in Marked(t, Marks) \/ d \in Marked(t, {UBOOT, ARROW}) \/ d \in Prompts(t) BY <1>1, <1>3
<1>5. Marks \in SUBSET Nat /\ {UBOOT, ARROW} \in SUBSET Nat BY MarksAssumption DEF UBOOT, ARROW
<1>6. QED BY <1>4, <1>5, MarkedStr, PromptsStr

\* Reading moves bytes from the network into the buffer.
LEMMA RecvStream ==
  ASSUME Types, StreamInv, NEW k \in 0 .. Len(net), Recv(k), UNCHANGED <<out, got>>
  PROVE  /\ buf' \in Str /\ net' \in Str /\ Len(buf') = Len(buf) + k /\ StreamInv'
<1>1. PICK w \in Str, rest \in Str, cut \in Str, tail \in Tails : Stream(w, rest, cut, tail) BY DEF StreamInv
<1>2. PICK a \in Str, b \in Str : a = SubSeq(net, 1, k) /\ b = SubSeq(net, k + 1, Len(net)) /\ net = a \o b /\ Len(a) = k
  <2>1. net \in Str BY DEF Types
  <2>2. QED BY <2>1, CutInTwo
<1>3. buf' = buf \o a /\ net' = b /\ UNCHANGED <<closed, frames, sent>> BY <1>2 DEF Recv
<1>4. buf \in Str BY DEF Types
<1>5. buf' \o (net' \o cut) = buf \o (net \o cut)
  <2>1. b \o cut \in Str BY ConcatStr
  <2>2. (buf \o a) \o (b \o cut) = buf \o (a \o (b \o cut))
    <3>1. Associates(buf, a, b \o cut) BY <1>4, <2>1, Associate
    <3>2. QED BY <3>1 DEF Associates
  <2>3. a \o (b \o cut) = (a \o b) \o cut
    <3>1. Associates(a, b, cut) BY Associate
    <3>2. QED BY <3>1 DEF Associates
  <2>4. QED BY <1>2, <1>3, <2>2, <2>3
<1>6. Stream(w, rest, cut, tail)'
  BY <1>1, <1>3, <1>5 DEF Stream
<1>7. StreamInv' BY <1>6 DEF StreamInv
<1>8. Len(buf') = Len(buf) + k /\ buf' \in Str BY <1>2, <1>3, <1>4, ConcatStr
<1>9. QED BY <1>3, <1>7, <1>8

LEMMA SameStream ==
  ASSUME StreamInv, UNCHANGED <<buf, out, got, wire>> PROVE StreamInv'
<1>1. PICK w \in Str, rest \in Str, cut \in Str, tail \in Tails : Stream(w, rest, cut, tail) BY DEF StreamInv
<1>2. Stream(w, rest, cut, tail)' BY <1>1 DEF Stream, wire
<1>3. QED BY <1>2 DEF StreamInv

\* The frame at the front of the stream is taken: a whole one, or the close
\* with nothing behind it.
LEMMA TakeStream == ASSUME Types, StreamInv, Take PROVE Types' /\ StreamInv'
<1>1. PICK w \in Str, rest \in Str, cut \in Str, tail \in Tails : Stream(w, rest, cut, tail) BY DEF StreamInv
<1>2. tail \in Str BY TailsStr
<1>3. /\ buf \in Str /\ out \in Str /\ net \in Str /\ got \in Str /\ Len(buf) >= 2 /\ Complete
      /\ UNCHANGED <<exit, rx_buf, got, wire>>
  BY DEF Types, Take
<1>4. net \o cut \in Str /\ Len(buf) \in Nat BY <1>3, ConcatStr
<1>5. /\ got' = got /\ net' = net /\ sent' = sent /\ closed' = closed /\ frames' = frames /\ rx_buf' = rx_buf
  BY <1>3 DEF wire
<1>6. buf \o (net \o cut) = w \o tail /\ <<w, rest>> \in Valid /\ sent = (got \o out) \o rest BY <1>1 DEF Stream
<1>7. pc' \in {"ret", "pull"} BY DEF Take
<1>8. CASE Begins(w, rest)
  <2>1. PICK e \in Str, dd \in Str, v \in Str, t \in Str :
          Unit(e, dd) /\ w = e \o v /\ rest = dd \o t /\ <<v, t>> \in Valid
    BY <1>8 DEF Begins
  <2>2. v \o tail \in Str BY <1>2, ConcatStr
  <2>3. buf \o (net \o cut) = e \o (v \o tail)
    <3>1. Associates(e, v, tail) BY <1>2, Associate
    <3>2. QED BY <1>6, <2>1, <3>1 DEF Associates
  <2> DEFINE end == HeadLen + DataLen
             r == SubSeq(buf, end + 1, Len(buf))
             data == SubSeq(buf, HeadLen + 1, end)
  <2>4. PICK op \in {TEXT, PING}, d \in Str : e = Encode(op, d) /\ dd = IF op = TEXT THEN d ELSE <<>>
    <3>1. TEXT # PING BY DEF TEXT, PING
    <3>2. QED BY <2>1, <3>1, EmptyStr DEF Unit
  <2>5. op \in Nat /\ op # CLOSE BY <2>4 DEF TEXT, PING, CLOSE
  <2>6. buf[1] = op /\ data = d /\ Splits(buf, net \o cut, e, v \o tail, r)
    <3>1. buf \o (net \o cut) = Encode(op, d) \o (v \o tail) BY <2>3, <2>4
    <3>2. QED BY <1>3, <1>4, <2>2, <2>4, <2>5, <3>1, TakeFrame
  <2>7. r \in Str /\ r \o (net \o cut) = v \o tail BY <2>6 DEF Splits
  <2>8. buf' = r /\ out' = (IF buf[1] = TEXT THEN out \o data ELSE out) BY <2>5, <2>6 DEF Take
  <2> HIDE DEF r, data
  <2>9. out' = out \o dd
    <3>1. CASE op = TEXT BY <2>4, <2>6, <2>8, <3>1
    <3>2. CASE op # TEXT BY <1>3, <2>4, <2>6, <2>8, <3>2, ConcatStr
    <3>3. QED BY <3>1, <3>2
  <2>10. sent' = (got' \o out') \o t
    <3>1. got \o out \in Str BY <1>3, ConcatStr
    <3>2. (got \o out) \o (dd \o t) = ((got \o out) \o dd) \o t
      <4>1. Associates(got \o out, dd, t) BY <3>1, Associate
      <4>2. QED BY <4>1 DEF Associates
    <3>3. (got \o out) \o dd = got \o (out \o dd)
      <4>1. Associates(got, out, dd) BY <1>3, Associate
      <4>2. QED BY <4>1 DEF Associates
    <3>4. QED BY <1>5, <1>6, <2>1, <2>9, <3>2, <3>3
  <2>11. buf' \o (net' \o cut) = v \o tail BY <1>5, <2>7, <2>8
  <2>12. Stream(v, t, cut, tail)' BY <1>1, <1>5, <2>1, <2>10, <2>11 DEF Stream
  <2>13. StreamInv' BY <2>12 DEF StreamInv
  <2>14. buf' \in Str /\ out' \in Str
    <3>1. out \o dd \in Str BY <1>3, ConcatStr
    <3>2. QED BY <2>7, <2>8, <2>9, <3>1
  <2>15. QED BY <1>5, <1>7, <2>13, <2>14 DEF Types
<1>9. CASE w = <<>> /\ rest = <<>>
  <2>1. buf \o (net \o cut) = tail BY <1>2, <1>6, <1>9, ConcatStr
  <2>2. tail # <<>>
    <3>1. buf # <<>> BY <1>3, EmptyStr
    <3>2. QED BY <1>3, <1>4, <2>1, <3>1, EmptyConcat
  <2>3. tail = Encode(CLOSE, <<>>) BY <2>2 DEF Tails
  <2>4. buf \o (net \o cut) = Encode(CLOSE, <<>>) \o <<>> BY <1>2, <2>1, <2>3, ConcatStr
  <2> DEFINE r == SubSeq(buf, HeadLen + DataLen + 1, Len(buf))
  <2>5. buf[1] = CLOSE /\ Splits(buf, net \o cut, Encode(CLOSE, <<>>), <<>>, r)
    <3>1. CLOSE \in Nat BY DEF CLOSE
    <3>2. QED BY <1>3, <1>4, <2>4, <3>1, EmptyStr, TakeFrame
  <2>6. net = <<>> /\ cut = <<>>
    <3>1. r \in Str /\ r \o (net \o cut) = <<>> BY <2>5 DEF Splits
    <3>2. net \o cut = <<>> BY <1>4, <3>1, EmptyConcat
    <3>3. QED BY <1>3, <3>2, EmptyConcat
  <2>7. buf' = <<>> /\ out' = out BY <2>5 DEF Take
  <2>8. buf' \o (net' \o cut) = w \o <<>> BY <1>5, <1>9, <2>6, <2>7, EmptyStr, ConcatStr
  <2>9. Stream(w, rest, cut, <<>>)' BY <1>1, <1>5, <1>6, <2>6, <2>7, <2>8 DEF Stream
  <2>10. <<>> \in Tails BY DEF Tails
  <2>11. StreamInv' BY <2>9, <2>10 DEF StreamInv
  <2>12. QED BY <1>5, <1>7, <2>7, <2>11, EmptyStr DEF Types
<1>10. QED BY <1>6, <1>8, <1>9, ValidSplit

\* The probe puts a frame behind the stream, a close, or dies.
LEMMA ProbeStream == ASSUME Types, StreamInv, ProbeSend PROVE Types' /\ StreamInv'
<1>1. PICK w \in Str, rest \in Str, cut \in Str, tail \in Tails : Stream(w, rest, cut, tail) BY DEF StreamInv
<1>2. /\ buf \in Str /\ out \in Str /\ net \in Str /\ got \in Str /\ sent \in Str
      /\ frames < MaxFrames /\ ~closed
  BY DEF Types, ProbeSend
<1>3. /\ got' = got /\ out' = out /\ buf' = buf /\ rx_buf' = rx_buf /\ pc' = pc /\ frames' = frames + 1
  BY DEF ProbeSend, client
<1>4. cut = <<>> /\ tail = <<>> BY <1>1, <1>2 DEF Stream
<1>5. buf \o net = w
  <2>1. buf \o (net \o cut) = w \o tail BY <1>1 DEF Stream
  <2>2. net \o cut = net /\ w \o tail = w BY <1>2, <1>4, ConcatStr
  <2>3. QED BY <2>1, <2>2
<1>6. <<w, rest>> \in Valid /\ sent = (got \o out) \o rest BY <1>1 DEF Stream
<1>7. ASSUME NEW f \in Str, net' = net \o f
      PROVE  net' \in Str /\ buf' \o (net' \o cut) = w \o f
  <2>1. net \o f \in Str BY <1>2, ConcatStr
  <2>2. net' \o cut = net \o f BY <1>4, <1>7, <2>1, ConcatStr
  <2>3. Associates(buf, net, f) BY <1>2, Associate
  <2>4. w \o f = buf \o (net \o f) BY <1>5, <2>3 DEF Associates
  <2>5. QED BY <1>3, <1>7, <2>1, <2>2, <2>4
<1>8. ASSUME NEW f \in Str, NEW c \in Str, Unit(f, c), net' = net \o f, sent' = sent \o c, closed' = closed
      PROVE  Types' /\ StreamInv'
  <2>1. <<w \o f, rest \o c>> \in Valid BY <1>6, <1>8, ValidAppend
  <2>2. w \o f \in Str /\ rest \o c \in Str /\ sent \o c \in Str BY <1>2, ConcatStr
  <2>3. net' \in Str /\ buf' \o (net' \o cut) = (w \o f) \o <<>> BY <1>7, <1>8, <2>2, ConcatStr
  <2>4. sent' = (got' \o out') \o (rest \o c)
    <3>1. got \o out \in Str BY <1>2, ConcatStr
    <3>2. ((got \o out) \o rest) \o c = (got \o out) \o (rest \o c)
      <4>1. Associates(got \o out, rest, c) BY <3>1, Associate
      <4>2. QED BY <4>1 DEF Associates
    <3>3. QED BY <1>3, <1>6, <1>8, <3>2
  <2>5. Stream(w \o f, rest \o c, cut, <<>>)' BY <1>4, <2>1, <2>3, <2>4 DEF Stream
  <2>6. StreamInv'
    <3>1. <<>> \in Tails BY DEF Tails
    <3>2. QED BY <2>2, <2>5, <3>1 DEF StreamInv
  <2>7. sent' \in Str BY <1>8, <2>2
  <2>8. Types' BY <1>3, <2>3, <2>7 DEF Types
  <2>9. QED BY <2>6, <2>8
<1>9. CASE \E d \in Prints : net' = net \o Encode(TEXT, d) /\ sent' = sent \o d /\ UNCHANGED closed
  <2>1. PICK d \in Prints : net' = net \o Encode(TEXT, d) /\ sent' = sent \o d /\ UNCHANGED closed BY <1>9
  <2>2. d \in Str BY <1>2, PrintsStr
  <2>3. Unit(Encode(TEXT, d), d) BY <2>2 DEF Unit
  <2>4. Encode(TEXT, d) \in Str BY <2>3, UnitStr
  <2>5. QED BY <1>8, <2>1, <2>2, <2>3, <2>4
<1>10. CASE net' = net \o Encode(PING, <<>>) /\ UNCHANGED <<sent, closed>>
  <2>1. Unit(Encode(PING, <<>>), <<>>) BY DEF Unit
  <2>2. Encode(PING, <<>>) \in Str /\ <<>> \in Str BY <2>1, UnitStr
  <2>3. sent' = sent \o <<>> BY <1>2, <1>10, ConcatStr
  <2>4. QED BY <1>8, <1>10, <2>1, <2>2, <2>3
<1>11. CASE net' = net \o Encode(CLOSE, <<>>) /\ closed' = TRUE /\ UNCHANGED sent
  <2>1. Encode(CLOSE, <<>>) \in Tails /\ Encode(CLOSE, <<>>) \in Str BY TailsStr DEF Tails
  <2>2. net' \in Str /\ buf' \o (net' \o cut) = w \o Encode(CLOSE, <<>>) BY <1>7, <1>11, <2>1
  <2>3. sent' = (got' \o out') \o rest BY <1>3, <1>6, <1>11
  <2>4. Stream(w, rest, cut, Encode(CLOSE, <<>>))' BY <1>4, <1>6, <1>11, <2>2, <2>3 DEF Stream
  <2>5. StreamInv' BY <2>1, <2>4 DEF StreamInv
  <2>6. Types' BY <1>3, <1>11, <2>2 DEF Types
  <2>7. QED BY <2>5, <2>6
<1>12. QED BY <1>9, <1>10, <1>11 DEF ProbeSend

LEMMA DiesStream == ASSUME Types, StreamInv, ProbeDies PROVE Types' /\ StreamInv'
<1>1. PICK w \in Str, rest \in Str, cut \in Str, tail \in Tails : Stream(w, rest, cut, tail) BY DEF StreamInv
<1>2. PICK k \in 0 .. Len(net) : net' = SubSeq(net, 1, k) BY DEF ProbeDies
<1>3. /\ got' = got /\ out' = out /\ buf' = buf /\ rx_buf' = rx_buf /\ pc' = pc /\ frames' = MaxFrames
      /\ closed' = closed /\ sent' = sent
  BY DEF ProbeDies, client
<1>4. PICK a \in Str, b \in Str : a = net' /\ net = a \o b
  <2>1. net \in Str BY DEF Types
  <2>2. /\ SubSeq(net, 1, k) \in Str /\ SubSeq(net, k + 1, Len(net)) \in Str
        /\ net = SubSeq(net, 1, k) \o SubSeq(net, k + 1, Len(net))
    BY <2>1, CutInTwo
  <2>3. QED BY <1>2, <2>2
<1>5. b \o cut \in Str BY ConcatStr
<1>6. net' \o (b \o cut) = net \o cut
  <2>1. Associates(a, b, cut) BY Associate
  <2>2. QED BY <1>4, <2>1 DEF Associates
<1>7. MaxFrames \in Nat BY BoundAssumption
<1>8. ~(frames' < MaxFrames) BY <1>3, <1>7
<1>9. Stream(w, rest, b \o cut, tail)' BY <1>1, <1>3, <1>6, <1>8 DEF Stream
<1>10. StreamInv' BY <1>5, <1>9 DEF StreamInv
<1>11. Types' BY <1>3, <1>4, <1>7 DEF Types
<1>12. QED BY <1>10, <1>11

\* What is drained goes into rx_buf, whose front may be cut off.
LEMMA RetKept == ASSUME Types, KeptInv, Ret PROVE rx_buf' \in Str /\ got' \in Str /\ KeptInv'
<1>1. /\ rx_buf \in Str /\ got \in Str /\ out \in Str /\ got' = got \o out /\ rx_buf' = Trim(rx_buf \o out)
  BY DEF Types, Ret
<1>2. PICK r \in Str : got = r \o rx_buf BY DEF KeptInv
<1>3. PICK b \in Str : b = rx_buf \o out BY <1>1, ConcatStr
<1>4. got' = r \o b
  <2>1. Associates(r, rx_buf, out) BY <1>1, Associate
  <2>2. QED BY <1>1, <1>2, <1>3, <2>1 DEF Associates
<1>5. got' \in Str /\ Len(b) \in Nat BY <1>4, ConcatStr
<1>6. TAIL \in Nat /\ RX_KEEP \in Nat /\ RX_MAX \in Nat /\ TAIL <= RX_KEEP /\ RX_KEEP <= RX_MAX
  BY BufferAssumption
<1>7. CASE Len(b) > RX_MAX
  <2>1. rx_buf' = SubSeq(b, Len(b) - RX_KEEP + 1, Len(b)) BY <1>1, <1>3, <1>7 DEF Trim
  <2>2. PICK k \in 0 .. Len(b) : k = Len(b) - RX_KEEP BY <1>5, <1>6, <1>7
  <2>3. /\ SubSeq(b, 1, k) \in Str /\ SubSeq(b, k + 1, Len(b)) \in Str
        /\ b = SubSeq(b, 1, k) \o SubSeq(b, k + 1, Len(b))
        /\ Len(SubSeq(b, k + 1, Len(b))) = Len(b) - k
    BY CutInTwo
  <2>4. rx_buf' = SubSeq(b, k + 1, Len(b)) BY <2>1, <2>2
  <2>5. PICK a \in Str : b = a \o rx_buf' BY <2>3, <2>4
  <2>6. rx_buf' \in Str /\ Len(rx_buf') >= TAIL
    <3>1. Len(rx_buf') = Len(b) - k /\ rx_buf' \in Str BY <2>3, <2>4
    <3>2. QED BY <1>5, <1>6, <2>2, <3>1
  <2>7. got' = (r \o a) \o rx_buf'
    <3>1. Associates(r, a, rx_buf') BY <2>6, Associate
    <3>2. QED BY <1>4, <2>5, <3>1 DEF Associates
  <2>8. r \o a \in Str BY ConcatStr
  <2>9. QED BY <1>5, <2>6, <2>7, <2>8 DEF KeptInv
<1>8. CASE ~(Len(b) > RX_MAX)
  <2>1. rx_buf' = b BY <1>1, <1>3, <1>8 DEF Trim
  <2>2. rx_buf' = got' \/ Len(rx_buf') >= TAIL
    <3>1. CASE rx_buf = got BY <1>1, <1>3, <2>1, <3>1
    <3>2. CASE Len(rx_buf) >= TAIL
      <4>1. Len(b) = Len(rx_buf) + Len(out) /\ Len(rx_buf) \in Nat /\ Len(out) \in Nat
        BY <1>1, <1>3, ConcatStr
      <4>2. QED BY <1>6, <2>1, <3>2, <4>1
    <3>3. QED BY <3>1, <3>2 DEF KeptInv
  <2>3. QED BY <1>4, <1>5, <2>1, <2>2 DEF KeptInv
<1>9. QED BY <1>7, <1>8

LEMMA RetStream == ASSUME Types, StreamInv, KeptInv, Ret PROVE Types' /\ StreamInv' /\ KeptInv'
<1>1. PICK w \in Str, rest \in Str, cut \in Str, tail \in Tails : Stream(w, rest, cut, tail) BY DEF StreamInv
<1>2. /\ buf' = buf /\ net' = net /\ sent' = sent /\ closed' = closed /\ frames' = frames
      /\ got' = got \o out /\ out' = <<>> /\ pc' \in {"exit", "send"}
  BY DEF Ret, wire, Exit
<1>3. rx_buf' \in Str /\ got' \in Str /\ KeptInv' BY RetKept
<1>4. got' \o out' = got \o out BY <1>2, <1>3, ConcatStr
<1>5. Stream(w, rest, cut, tail)' BY <1>1, <1>2, <1>4 DEF Stream
<1>6. StreamInv' BY <1>5 DEF StreamInv
<1>7. Types' BY <1>2, <1>3, EmptyStr DEF Types
<1>8. QED BY <1>3, <1>6, <1>7

CatchInv == Types /\ StreamInv /\ KeptInv

LEMMA CatchInit == Init => CatchInv
<1>1. SUFFICES ASSUME Init PROVE CatchInv OBVIOUS
<1>2. /\ buf = <<>> /\ out = <<>> /\ rx_buf = <<>> /\ net = <<>> /\ sent = <<>> /\ got = <<>>
      /\ frames = 0 /\ pc = "connect"
  BY <1>1 DEF Init
<1>3. Types BY <1>2, EmptyStr DEF Types
<1>4. <<>> \o <<>> = <<>> /\ <<>> \in Str BY EmptyStr, ConcatStr
<1>5. <<<<>>, <<>>>> \in Valid BY ValidClosed DEF Closed
<1>6. Stream(<<>>, <<>>, <<>>, <<>>) BY <1>2, <1>4, <1>5 DEF Stream
<1>7. <<>> \in Tails BY DEF Tails
<1>8. StreamInv BY <1>4, <1>6, <1>7 DEF StreamInv
<1>9. KeptInv BY <1>2, <1>4 DEF KeptInv
<1>10. QED BY <1>3, <1>8, <1>9 DEF CatchInv

LEMMA SameKept == ASSUME KeptInv, UNCHANGED <<rx_buf, got>> PROVE KeptInv'
BY DEF KeptInv

\* The steps that read.
LEMMA ReadStep == ASSUME CatchInv, Connect \/ Pull \/ Need PROVE CatchInv'
<1> USE DEF CatchInv
<1>1. KeptInv'
  <2>1. UNCHANGED <<rx_buf, got>> BY DEF Connect, Pull, Need
  <2>2. QED BY <2>1, SameKept
<1>2. ASSUME NEW k \in 0 .. Len(net), Recv(k), UNCHANGED <<out, rx_buf, got>>,
             pc' \in {"loop", "ret"} \/ (pc' = "frame" /\ Len(buf) + k >= 2),
             pc' = "loop" => pc = "connect"
      PROVE  CatchInv'
  <2>1. buf' \in Str /\ net' \in Str /\ Len(buf') = Len(buf) + k /\ StreamInv' BY <1>2, RecvStream
  <2>2. UNCHANGED <<sent, frames>> BY <1>2 DEF Recv
  <2>3. Types' BY <1>2, <2>1, <2>2 DEF Types
  <2>4. QED BY <1>1, <2>1, <2>3
<1>3. Len(net) \in Nat /\ Len(buf) \in Nat BY ConcatStr DEF Types
<1>4. CASE Connect
  <2>1. PICK k \in 0 .. Len(net) : Recv(k) BY <1>4 DEF Connect
  <2>2. pc = "connect" /\ pc' = "loop" /\ UNCHANGED <<out, rx_buf, got>> BY <1>4 DEF Connect
  <2>3. QED BY <1>2, <2>1, <2>2
<1>5. CASE Pull
  <2>1. PICK k \in 0 .. Len(net) : Recv(k) /\ pc' = IF Len(buf) + k < 2 THEN "ret" ELSE "frame" BY <1>5 DEF Pull
  <2>2. UNCHANGED <<out, rx_buf, got>> BY <1>5 DEF Pull
  <2>3. pc' = "ret" \/ (pc' = "frame" /\ Len(buf) + k >= 2) BY <1>3, <2>1
  <2>4. pc' # "loop" BY <2>3
  <2>5. QED BY <1>2, <2>1, <2>2, <2>3, <2>4
<1>6. CASE Need
  <2>1. pc = "frame" /\ UNCHANGED <<out, rx_buf, got>> BY <1>6 DEF Need
  <2>2. CASE \E k \in 1 .. Len(net) : Recv(k) /\ UNCHANGED pc
    <3>1. PICK k \in 1 .. Len(net) : Recv(k) /\ UNCHANGED pc BY <2>2
    <3>2. k \in 0 .. Len(net) /\ Len(buf) + k >= 2 BY <1>3, <2>1 DEF Types
    <3>3. pc' = "frame" BY <2>1, <3>1
    <3>4. QED BY <1>2, <2>1, <3>1, <3>2, <3>3
  <2>3. CASE pc' = "ret" /\ UNCHANGED <<buf, wire>>
    <3>1. StreamInv' BY <2>1, <2>3, SameStream
    <3>2. Types' BY <2>1, <2>3 DEF Types, wire
    <3>3. QED BY <1>1, <3>1, <3>2
  <2>4. QED BY <1>6, <2>2, <2>3 DEF Need
<1>7. QED BY <1>4, <1>5, <1>6

\* The steps that leave the stream alone.
LEMMA StillStep ==
  ASSUME CatchInv,
         PanelNext \/ Deadline \/ ConnectFail \/ GiveUp \/ Select \/ RecvError \/ Wait \/ Send \/ SendBlocked \/ SendError
         \/ UNCHANGED vars
  PROVE  CatchInv'
<1> USE DEF CatchInv
<1>1. /\ UNCHANGED <<buf, rx_buf, got, net, closed, frames, sent>>
      /\ out' = out
      /\ pc' = pc \/ pc' \in {"exit", "pull"} \/ (pc \in {"loop", "send"} /\ pc' \in {"loop", "send"})
  <2>1. CASE Select
    <3>1. out = <<>> BY <2>1 DEF Select, Types
    <3>2. QED BY <2>1, <3>1 DEF Select, wire
  <2>2. CASE PanelNext \/ Deadline \/ UNCHANGED vars
    BY <2>2 DEF PanelNext, Deadline, vars, client, wire
  <2>3. CASE ConnectFail \/ GiveUp \/ RecvError \/ SendError
    BY <2>3 DEF ConnectFail, GiveUp, RecvError, SendError, wire, Exit
  <2>4. CASE Wait \/ Send \/ SendBlocked BY <2>4 DEF Wait, Send, SendBlocked, wire
  <2>5. QED BY <2>1, <2>2, <2>3, <2>4
<1>2. StreamInv' BY <1>1, SameStream DEF wire
<1>3. KeptInv' BY <1>1, SameKept
<1>4. Types' BY <1>1 DEF Types
<1>5. QED BY <1>2, <1>3, <1>4

LEMMA CatchStep == ASSUME CatchInv, [Next]_vars PROVE CatchInv'
<1> USE DEF CatchInv
<1>1. CASE Connect \/ Pull \/ Need BY <1>1, ReadStep
<1>2. CASE Take
  <2>1. UNCHANGED <<rx_buf, got>> BY <1>2 DEF Take
  <2>2. QED BY <1>2, <2>1, TakeStream, SameKept
<1>3. CASE Ret BY <1>3, RetStream
<1>4. CASE ProbeSend \/ ProbeDies
  <2>1. UNCHANGED <<rx_buf, got>> BY <1>4 DEF ProbeSend, ProbeDies, client
  <2>2. QED BY <1>4, <2>1, ProbeStream, DiesStream, SameKept
<1>5. CASE PanelNext \/ Deadline \/ ConnectFail \/ GiveUp \/ Select \/ RecvError \/ Wait \/ Send \/ SendBlocked \/ SendError
           \/ UNCHANGED vars
  BY <1>5, StillStep
<1>6. QED BY <1>1, <1>2, <1>3, <1>4, <1>5 DEF Next, Loop, Done

\* The catcher's invariant holds for every probe, every cut of the stream into
\* reads and every size of the buffers.
THEOREM CatchInvariance == Spec => []CatchInv
<1>1. Init => CatchInv BY CatchInit
<1>2. CatchInv /\ [Next]_vars => CatchInv' BY CatchStep
<1>3. QED BY <1>1, <1>2, PTL DEF Spec

\* However the stream is cut into reads, the console text is delivered without
\* a byte lost, doubled or taken for a header (catch_uboot.py 63-120).
THEOREM StreamCorrect == Spec => []StreamIntact
<1>1. CatchInv => StreamIntact
  <2>1. SUFFICES ASSUME CatchInv PROVE StreamIntact OBVIOUS
  <2>2. PICK rest \in Str : sent = (got \o out) \o rest BY <2>1 DEF CatchInv, StreamInv, Stream
  <2>3. got \o out \in Str BY <2>1, ConcatStr DEF CatchInv, Types
  <2>4. QED BY <2>2, <2>3, PrefixOfConcat DEF StreamIntact
<1>2. QED BY <1>1, CatchInvariance, PTL

\* Cutting rx_buf down never takes away what the search looks at
\* (catch_uboot.py 155-160).
THEOREM TailCorrect == Spec => []TailKept
<1>1. CatchInv => TailKept
  <2>1. SUFFICES ASSUME CatchInv PROVE TailKept OBVIOUS
  <2>2. PICK r \in Str : got = r \o rx_buf BY <2>1 DEF CatchInv, KeptInv
  <2>3. rx_buf \in Str BY <2>1 DEF CatchInv, Types
  <2>4. IsSuffix(rx_buf, got) BY <2>2, <2>3, SuffixOfConcat
  <2>5. QED BY <2>1, <2>4 DEF TailKept, CatchInv, KeptInv
<1>2. QED BY <1>1, CatchInvariance, PTL

\* The window lies at the end of the buffer, the buffer at the end of the text:
\* a prompt whole within the last TAIL tokens of the text is in the window.
LEMMA WindowFinds ==
  ASSUME NEW b \in Str, NEW r \in Str, NEW g \in Str, g = r \o b, g = b \/ Len(b) >= TAIL,
         NEW i \in DOMAIN g, PromptAt(g, i), i > Len(g) - TAIL
  PROVE  Prompted(b)
<1>1. Len(b) \in Nat /\ Len(r) \in Nat /\ TAIL \in Nat BY ConcatStr, BufferAssumption
<1>2. Len(g) = Len(r) + Len(b) BY ConcatStr
<1>3. i \in Nat /\ i >= 1 /\ i + 1 <= Len(g) /\ g[i] = UBOOT /\ g[i + 1] = ARROW
  <2>1. DOMAIN g = 1 .. Len(g) BY DEF Str
  <2>2. QED BY <1>1, <1>2, <2>1 DEF PromptAt
<1>4. PICK j \in 1 .. Len(b) : i = Len(r) + j /\ j + 1 <= Len(b)
  <2>1. CASE g = b
    <3>1. Len(r) = 0 /\ i \in 1 .. Len(b) /\ i = Len(r) + i BY <1>1, <1>2, <1>3, <2>1
    <3>2. QED BY <1>1, <1>2, <1>3, <3>1
  <2>2. CASE Len(b) >= TAIL
    <3>1. i - Len(r) \in 1 .. Len(b) /\ i = Len(r) + (i - Len(r)) BY <1>1, <1>2, <1>3, <2>2
    <3>2. QED BY <1>1, <1>2, <1>3, <3>1
  <2>3. QED BY <2>1, <2>2
<1>5. b[j] = UBOOT /\ b[j + 1] = ARROW
  <2>1. ASSUME NEW x \in 1 .. Len(b) PROVE (r \o b)[Len(r) + x] = b[x]
    <3>1. Len(r) + x \in 1 .. Len(r) + Len(b) /\ Len(r) + x > Len(r) /\ (Len(r) + x) - Len(r) = x BY <1>1
    <3>2. QED BY <3>1, ConcatProperties DEF Str
  <2>2. j + 1 \in 1 .. Len(b) /\ i + 1 = Len(r) + (j + 1) BY <1>1, <1>4
  <2>3. QED BY <1>3, <1>4, <2>1, <2>2
<1>6. PICK k \in 0 .. Len(b) : /\ k + 1 = IF Len(b) > TAIL THEN Len(b) - TAIL + 1 ELSE 1
                               /\ j > k
  <2>1. CASE Len(b) > TAIL
    <3>1. Len(b) - TAIL \in 0 .. Len(b) /\ j > Len(b) - TAIL BY <1>1, <1>2, <1>4, <2>1
    <3>2. QED BY <2>1, <3>1
  <2>2. CASE ~(Len(b) > TAIL)
    <3>1. 0 \in 0 .. Len(b) /\ 0 + 1 = 1 /\ j > 0 BY <1>1, <1>4
    <3>2. QED BY <2>2, <3>1
  <2>3. QED BY <2>1, <2>2
<1>7. PICK t : t = SubSeq(b, k + 1, Len(b)) OBVIOUS
<1>8. t \in Str /\ Len(t) = Len(b) - k /\ \A x \in 1 .. Len(t) : t[x] = b[k + x]
  <2>1. t \in Str /\ Len(t) = Len(b) - k BY <1>1, <1>7, CutInTwo
  <2>2. ASSUME NEW x \in 1 .. Len(b) - k PROVE t[x] = b[k + x]
    <3>1. k + 1 \in 1 .. Len(b) + 1 /\ x \in 1 .. Len(b) - (k + 1) + 1 /\ (k + 1) + x - 1 = k + x BY <1>1
    <3>2. SubSeq(b, k + 1, Len(b))[x] = b[(k + 1) + x - 1] BY <1>1, <3>1 DEF Str
    <3>3. QED BY <1>7, <3>1, <3>2
  <2>3. QED BY <2>1, <2>2
<1>9. PICK m \in 1 .. Len(t) : j = k + m BY <1>1, <1>6, <1>8
<1>10. m + 1 \in 1 .. Len(t) /\ j + 1 = k + (m + 1) BY <1>1, <1>4, <1>8, <1>9
<1>11. t[m] = UBOOT /\ t[m + 1] = ARROW BY <1>5, <1>8, <1>9, <1>10
<1>12. DOMAIN t = 1 .. Len(t) BY <1>8 DEF Str
<1>13. PromptAt(t, m) BY <1>10, <1>11, <1>12 DEF PromptAt
<1>14. Window(b) = t BY <1>6, <1>7 DEF Window
<1>15. QED BY <1>12, <1>13, <1>14 DEF Prompted

\* The search is over once something is caught.
PromptInv == PromptCaught /\ (exit = "caught" => pc = "exit")

LEMMA PromptRet == ASSUME CatchInv, PromptInv, Ret PROVE PromptInv'
<1>1. PICK b, g : b = rx_buf' /\ g = got' OBVIOUS
<1>2. b \in Str /\ g \in Str /\ KeptInv' BY <1>1, RetKept DEF CatchInv
<1>3. PICK r \in Str : g = r \o b BY <1>1, <1>2 DEF KeptInv
<1>4. g = b \/ Len(b) >= TAIL BY <1>1, <1>2 DEF KeptInv
<1>5. CASE out # <<>> /\ Prompted(b) BY <1>1, <1>5 DEF Ret, Exit, PromptInv, PromptCaught
<1>6. CASE out = <<>>
  <2>1. got' = got /\ exit' = exit /\ pc = "ret"
    <3>1. got \in Str BY DEF CatchInv, Types
    <3>2. got \o <<>> = got BY <3>1, ConcatStr
    <3>3. QED BY <1>6, <3>2 DEF Ret
  <2>2. exit # "caught" BY <2>1 DEF PromptInv
  <2>3. QED BY <2>1, <2>2 DEF PromptInv, PromptCaught
<1>7. CASE ~Prompted(b)
  <2>1. exit' = exit /\ exit # "caught" BY <1>1, <1>7 DEF Ret, PromptInv
  <2>2. ASSUME NEW i \in DOMAIN g, PromptAt(g, i) PROVE i <= Len(g) - TAIL
    <3>1. Len(g) \in Nat /\ TAIL \in Nat /\ i \in Nat
      <4>1. DOMAIN g = 1 .. Len(g) BY <1>2 DEF Str
      <4>2. QED BY <1>2, <4>1, ConcatStr, BufferAssumption
    <3>2. ~(i > Len(g) - TAIL) BY <1>2, <1>3, <1>4, <1>7, <2>2, WindowFinds
    <3>3. QED BY <3>1, <3>2
  <2>3. PromptCaught' BY <1>1, <2>2 DEF PromptCaught
  <2>4. QED BY <2>1, <2>3 DEF PromptInv
<1>8. QED BY <1>5, <1>6, <1>7

LEMMA PromptStep == ASSUME CatchInv, PromptInv, [Next]_vars PROVE PromptInv'
<1>1. CASE Ret BY <1>1, PromptRet
<1>2. CASE PanelNext \/ ProbeSend \/ ProbeDies \/ Deadline \/ UNCHANGED vars
  <2>1. UNCHANGED <<exit, pc, got>> BY <1>2 DEF PanelNext, ProbeSend, ProbeDies, Deadline, vars, client
  <2>2. QED BY <2>1 DEF PromptInv, PromptCaught
<1>3. CASE Connect \/ ConnectFail \/ GiveUp \/ Select \/ Pull \/ Need \/ Take \/ RecvError
           \/ Wait \/ Send \/ SendBlocked \/ SendError
  <2>1. pc # "exit" /\ exit' \in {exit, "error", "gaveup"} /\ got' = got
    BY <1>3 DEF Connect, ConnectFail, GiveUp, Select, Pull, Need, Take, RecvError, Wait, Send, SendBlocked,
                SendError, Exit
  <2>2. exit # "caught" /\ exit' # "caught" BY <2>1 DEF PromptInv
  <2>3. QED BY <2>1, <2>2 DEF PromptInv, PromptCaught
<1>4. QED BY <1>1, <1>2, <1>3 DEF Next, Loop, Done

\* No prompt slips through, for every size of the window and the buffer, every
\* cut of the stream and whatever the panel prints: one that lies whole within
\* the last TAIL tokens delivered has ended the search (catch_uboot.py 154-165).
THEOREM PromptCorrect == Spec => []PromptCaught
<1>1. Init => PromptInv
  <2>1. SUFFICES ASSUME Init PROVE PromptInv OBVIOUS
  <2>2. got = <<>> /\ exit = "nothing" BY <2>1 DEF Init
  <2>3. DOMAIN got = {} BY <2>2
  <2>4. QED BY <2>2, <2>3 DEF PromptInv, PromptCaught
<1>2. CatchInv /\ PromptInv /\ [Next]_vars => PromptInv' BY PromptStep
<1>3. PromptInv => PromptCaught BY DEF PromptInv
<1>4. QED BY <1>1, <1>2, <1>3, CatchInvariance, PTL DEF Spec
=============================================================================
