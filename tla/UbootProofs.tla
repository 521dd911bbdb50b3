----------------------------- MODULE UbootProofs -----------------------------
(***************************************************************************)
(* The U-Boot environment, for blocks, files, texts and commands of any    *)
(* number and size (UbootEnv), and the macros it holds, for every content  *)
(* of the slots (SlotBoot).                                                *)
(***************************************************************************)
EXTENDS UbootEnv, SlotBoot, TLAPS, WellFoundedInduction

-----------------------------------------------------------------------------
(* The macros. Memory holds what the running macro has loaded, if its      *)
(* reads went well; for the first macro that runs, that or nothing. And    *)
(* slotbboot runs for slot a only once slotaboot could not boot it.        *)

Unbootable(s) == ~Bootable(boot[s]) \/ dtbo[s] # "dtb"
KernelOf(s) == [slot |-> s, bytes |-> boot[s]]
TreeOf(s) == [slot |-> s, head |-> dtbo[s]]

MacroInv ==
  /\ bpc \in {"test", "readk", "readd", "args", "booti", "boota", "up", "prompt", "hung"}
  /\ run \in {"a", "b"} /\ by \in {"none", "macro", "boota"}
  /\ by = "none" <=> bpc \notin {"up", "hung"}
  /\ run = "a" => slot = "a" /\ "b" \notin faulted
  /\ bpc = "test" => run = "b" /\ kmem = Nothing /\ dmem = NoTree
  /\ bpc \in {"test", "readk"} => run \notin faulted
  /\ bpc = "test" => faulted = {}
  /\ bpc \in {"readd", "args", "booti"} /\ run \notin faulted => kmem = KernelOf(run)
  /\ bpc \in {"args", "booti"} /\ run \notin faulted => dmem = TreeOf(run)
  /\ bpc \in {"readk", "readd", "args", "booti"} /\ (run = "a" \/ slot # "a") =>
       kmem \in {Nothing, KernelOf(run)} /\ dmem \in {NoTree, TreeOf(run)}
  /\ bpc = "booti" \/ by = "macro" => suffix = run
  /\ run = "b" /\ slot = "a" /\ bpc # "test" => "a" \in faulted \/ Unbootable("a")
  /\ SlotCoherent

\* The macros' invariant holds for every content of the slots.
THEOREM MacroInvariance == MacroSpec => []MacroInv
<1>1. MacroInit => MacroInv
  BY DEF MacroInit, MacroInv, SlotCoherent
<1>2. MacroInv /\ [MacroNext]_macroVars => MacroInv'
  <2> SUFFICES ASSUME MacroInv, [MacroNext]_macroVars PROVE MacroInv'
    OBVIOUS
  <2> USE DEF parts, KernelOf, TreeOf
  <2>1. CASE Test BY <2>1 DEF Test, MacroInv, Unbootable, SlotCoherent
  <2>2. CASE ReadKernel BY <2>2 DEF ReadKernel, MacroInv, Unbootable, SlotCoherent
  <2>3. CASE ReadDtb BY <2>3 DEF ReadDtb, MacroInv, Unbootable, SlotCoherent
  <2>4. CASE ReadError BY <2>4 DEF ReadError, MacroInv, Unbootable, SlotCoherent
  <2>5. CASE SetArgs BY <2>5 DEF SetArgs, MacroInv, Unbootable, SlotCoherent
  <2>6. CASE Booti
    <3>1. SlotCoherent'
      <4>1. kmem.bytes > 0 /\ dmem.head = "dtb" BY <2>6 DEF Booti, Bootable, FdtOk
      <4>2. kmem # Nothing /\ dmem # NoTree BY <4>1 DEF Nothing, NoTree
      <4>3. CASE run \notin faulted
        <5>1. kmem.slot = run /\ dmem.slot = run /\ suffix = run BY <2>6, <4>3 DEF Booti, MacroInv
        <5>2. QED BY <2>6, <5>1 DEF Booti, SlotCoherent
      <4>4. CASE run \in faulted /\ (run = "a" \/ slot # "a")
        <5>1. kmem.slot = run /\ dmem.slot = run /\ suffix = run BY <2>6, <4>2, <4>4 DEF Booti, MacroInv
        <5>2. QED BY <2>6, <5>1 DEF Booti, SlotCoherent
      <4>5. CASE run \in faulted /\ run = "b" /\ slot = "a" BY <2>6, <4>5 DEF Booti, SlotCoherent
      <4>6. QED BY <4>3, <4>4, <4>5 DEF MacroInv
    <3>2. QED BY <2>6, <3>1 DEF Booti, MacroInv, Unbootable
  <2>7. CASE BootiFail
    <3>1. run \notin faulted => Unbootable(run) BY <2>7 DEF BootiFail, FdtOk, MacroInv, Unbootable
    <3>2. QED BY <2>7, <3>1 DEF BootiFail, MacroInv, Unbootable, SlotCoherent
  <2>8. CASE Boota BY <2>8 DEF Boota, MacroInv, Unbootable, SlotCoherent
  <2>9. CASE UNCHANGED macroVars BY <2>9 DEF macroVars, MacroInv, Unbootable, SlotCoherent
  <2>10. QED BY <2>1, <2>2, <2>3, <2>4, <2>5, <2>6, <2>7, <2>8, <2>9 DEF MacroNext, Steps, MacroDone
<1>3. QED BY <1>1, <1>2, PTL DEF MacroSpec

\* Kernel, device tree and slot suffix are of one slot, but for a read that fails
\* in slotbboot behind a refused slotaboot (uboot_env_edit.py 77-95).
THEOREM CoherentCorrect == MacroSpec => []SlotCoherent
<1>1. MacroInv => SlotCoherent BY DEF MacroInv
<1>2. QED BY <1>1, MacroInvariance, PTL

\* A macro boots the other slot only when the chosen one cannot be booted by its
\* macro, or could not be read (uboot_env_edit.py 91-95).
THEOREM ChoiceCorrect == MacroSpec => []ChoiceHonoured
<1>1. MacroInv => ChoiceHonoured
  <2>1. SUFFICES ASSUME MacroInv, by = "macro", suffix # (IF slot = "a" THEN "a" ELSE "b")
                 PROVE  slot = "a" /\ ("a" \in faulted \/ Unbootable("a"))
    BY DEF ChoiceHonoured, Unbootable
  <2>2. suffix = run /\ bpc # "test" BY <2>1 DEF MacroInv
  <2>3. QED BY <2>1, <2>2 DEF MacroInv
<1>2. QED BY <1>1, MacroInvariance, PTL

-----------------------------------------------------------------------------
(* The dict. *)

DictOk(e) == e \in Seq(Text) /\ \A i, j \in 1 .. Len(e) : e[i].k = e[j].k => i = j

LEMMA NatInd ==
  ASSUME NEW S \in SUBSET Nat, 0 \in S, \A m \in S : m + 1 \in S
  PROVE  S = Nat
<1>1. SUFFICES ASSUME Nat \ S # {} PROVE FALSE OBVIOUS
<1>2. PICK x \in Nat \ S : \A y \in Nat \ S : ~(<<y, x>> \in OpToRel(<, Nat))
  <2>1. Nat \ S \subseteq Nat OBVIOUS
  <2>2. QED BY <1>1, <2>1, NatLessThanWellFounded, WFMin
<1>3. x # 0 /\ x - 1 \in Nat OBVIOUS
<1>4. x - 1 \in S
  <2>1. SUFFICES ASSUME x - 1 \in Nat \ S PROVE FALSE BY <1>3
  <2>2. <<x - 1, x>> \in OpToRel(<, Nat) BY <1>3 DEF OpToRel
  <2>3. QED BY <1>2, <2>1, <2>2
<1>5. QED BY <1>3, <1>4

\* The loop that fills a dict, for a list of any length.
LEMMA FilledStep ==
  ASSUME NEW dict, NEW ts, Len(ts) \in Nat
  PROVE  /\ Filled(dict, ts)[0] = dict
         /\ \A n \in 1 .. Len(ts) :
              Filled(dict, ts)[n] = IF ts[n] \in {NUL, Junk} THEN Filled(dict, ts)[n - 1]
                                    ELSE Put(Filled(dict, ts)[n - 1], ts[n])
<1> DEFINE Step(e, n) == IF ts[n] \in {NUL, Junk} THEN e ELSE Put(e, ts[n])
           Upto(m, w) == w = [n \in 0 .. m |-> IF n = 0 THEN dict ELSE Step(w[n - 1], n)]
           S == {m \in Nat : \E w : Upto(m, w)}
<1> HIDE DEF Step
<1>1. 0 \in S
  <2>1. Upto(0, [n \in 0 .. 0 |-> dict]) OBVIOUS
  <2>2. QED BY <2>1
<1>2. ASSUME NEW m \in S PROVE m + 1 \in S
  <2>1. PICK w : Upto(m, w) OBVIOUS
  <2> DEFINE v == [n \in 0 .. m + 1 |-> IF n = m + 1 THEN Step(w[m], m + 1) ELSE w[n]]
  <2>2. \A n \in 0 .. m + 1 : v[n] = IF n = 0 THEN dict ELSE Step(v[n - 1], n)
    <3>1. TAKE n \in 0 .. m + 1
    <3>2. CASE n = m + 1 BY <3>2
    <3>3. CASE n # m + 1
      <4>1. n \in 0 .. m /\ v[n] = w[n] /\ (n # 0 => n - 1 \in 0 .. m /\ v[n - 1] = w[n - 1]) BY <3>3
      <4>2. w[n] = IF n = 0 THEN dict ELSE Step(w[n - 1], n) BY <2>1, <4>1
      <4>3. QED BY <4>1, <4>2
    <3>4. QED BY <3>2, <3>3
  <2>3. Upto(m + 1, v) BY <2>2
  <2>4. \E x : Upto(m + 1, x)
    <3> HIDE DEF Upto, v
    <3>1. QED BY <2>3
  <2>5. m + 1 \in Nat OBVIOUS
  <2>6. QED
    <3> HIDE DEF Upto
    <3>1. QED BY <2>4, <2>5
<1>3. S = Nat
  <2> HIDE DEF S
  <2>1. S \in SUBSET Nat BY DEF S
  <2>2. QED BY <1>1, <1>2, <2>1, NatInd
<1>4. PICK w : Upto(Len(ts), w) BY <1>3
<1>5. Filled(dict, ts) = CHOOSE x : Upto(Len(ts), x)
  <2>1. Filled(dict, ts) =
          CHOOSE x : x = [n \in 0 .. Len(ts) |-> IF n = 0 THEN dict
                                                ELSE IF ts[n] \in {NUL, Junk} THEN x[n - 1] ELSE Put(x[n - 1], ts[n])]
    BY DEF Filled
  <2>2. QED BY <2>1 DEF Step
<1>6. Upto(Len(ts), Filled(dict, ts)) BY <1>4, <1>5
<1>7. QED BY <1>6 DEF Step

\* Put replaces the entry of its key in its place, or appends.
Replaced(e, t, f) ==
  /\ Len(f) = Len(e)
  /\ \E p \in 1 .. Len(e) : /\ e[p].k = t.k /\ f[p] = t
                           /\ \A i \in 1 .. Len(e) : i # p => f[i] = e[i] /\ e[i].k # t.k
Appended(e, t, f) ==
  /\ Len(f) = Len(e) + 1 /\ f[Len(e) + 1] = t /\ f = Append(e, t)
  /\ \A i \in 1 .. Len(e) : f[i] = e[i] /\ e[i].k # t.k
LEMMA PutCases ==
  ASSUME NEW e, DictOk(e), NEW t \in Text
  PROVE  DictOk(Put(e, t)) /\ (Replaced(e, t, Put(e, t)) \/ Appended(e, t, Put(e, t)))
<1>1. e \in Seq(Text) /\ Len(e) \in Nat /\ DOMAIN e = 1 .. Len(e) BY DEF DictOk
<1>2. CASE \E p \in DOMAIN e : e[p].k = t.k
  <2>1. PICK p \in 1 .. Len(e) : e[p].k = t.k BY <1>1, <1>2
  <2>2. \A i \in 1 .. Len(e) : i # p => e[i].k # t.k BY <2>1 DEF DictOk
  <2> DEFINE f == [n \in 1 .. Len(e) |-> IF e[n].k = t.k THEN t ELSE e[n]]
  <2>3. Put(e, t) = f BY <1>1, <1>2 DEF Put
  <2>4. f \in Seq(Text) /\ Len(f) = Len(e)
    <3>1. f \in [1 .. Len(e) -> Text] BY <1>1
    <3>2. QED BY <1>1, <3>1
  <2>5. f[p] = t /\ \A i \in 1 .. Len(e) : i # p => f[i] = e[i] BY <2>1, <2>2
  <2> HIDE DEF f
  <2>6. \A i \in 1 .. Len(e) : f[i].k = e[i].k BY <2>1, <2>5
  <2>7. DictOk(f) BY <2>4, <2>6 DEF DictOk
  <2>8. QED BY <2>1, <2>2, <2>3, <2>4, <2>5, <2>7 DEF Replaced
<1>3. CASE ~\E p \in DOMAIN e : e[p].k = t.k
  <2>1. PICK f : f = Append(e, t) OBVIOUS
  <2>2. Put(e, t) = f BY <1>3, <2>1 DEF Put
  <2>3. /\ f \in Seq(Text) /\ Len(f) = Len(e) + 1 /\ f[Len(e) + 1] = t
        /\ \A i \in 1 .. Len(e) : f[i] = e[i]
    BY <1>1, <2>1
  <2>4. \A i \in 1 .. Len(e) : e[i].k # t.k BY <1>1, <1>3
  <2>5. DictOk(f)
    <3>1. SUFFICES ASSUME NEW i \in 1 .. Len(f), NEW j \in 1 .. Len(f), f[i].k = f[j].k PROVE i = j
      BY <2>3 DEF DictOk
    <3>2. (i \in 1 .. Len(e) \/ i = Len(e) + 1) /\ (j \in 1 .. Len(e) \/ j = Len(e) + 1) BY <1>1, <2>3
    <3>3. CASE i \in 1 .. Len(e) /\ j \in 1 .. Len(e) BY <2>3, <3>1, <3>3 DEF DictOk
    <3>4. CASE i = Len(e) + 1 /\ j \in 1 .. Len(e) BY <2>3, <2>4, <3>1, <3>4
    <3>5. CASE i \in 1 .. Len(e) /\ j = Len(e) + 1 BY <2>3, <2>4, <3>1, <3>5
    <3>6. QED BY <3>2, <3>3, <3>4, <3>5
  <2>6. QED BY <2>1, <2>2, <2>3, <2>4, <2>5 DEF Appended
<1>4. QED BY <1>2, <1>3

\* What the loop has made of a dict after n texts: entries keep their places,
\* each has the last value given to its key, none is missing, and new keys are
\* in the order in which they first came.
KeyAt(ts, n, key) == ts[n] \in Text /\ ts[n].k = key
Kept(dict, ts, n, e, i) ==
  i <= Len(dict) /\ e[i] = dict[i] /\ \A m \in 1 .. n : ~KeyAt(ts, m, e[i].k)
Given(ts, n, e, i) ==
  \E m \in 1 .. n : ts[m] \in Text /\ e[i] = ts[m] /\ \A q \in m + 1 .. n : ~KeyAt(ts, q, ts[m].k)
Covered(ts, n, e) == \A m \in 1 .. n : ts[m] \in Text => \E i \in 1 .. Len(e) : e[i].k = ts[m].k
FirstSeen(ts, n, a, b) == \E m \in 1 .. n : KeyAt(ts, m, a) /\ \A q \in 1 .. n : KeyAt(ts, q, b) => m < q
FillOk(dict, ts, n, e) ==
  /\ DictOk(e) /\ Len(dict) <= Len(e)
  /\ \A i \in 1 .. Len(dict) : e[i].k = dict[i].k
  /\ \A i \in 1 .. Len(e) : Kept(dict, ts, n, e, i) \/ Given(ts, n, e, i)
  /\ Covered(ts, n, e)
  /\ \A i, j \in Len(dict) + 1 .. Len(e) : i < j => FirstSeen(ts, n, e[i].k, e[j].k)

LEMMA FillPut ==
  ASSUME NEW dict, DictOk(dict), NEW ts \in Seq(Cell), NEW n \in Nat, n + 1 <= Len(ts), ts[n + 1] \in Text,
         NEW e, FillOk(dict, ts, n, e)
  PROVE  FillOk(dict, ts, n + 1, Put(e, ts[n + 1]))
<1>1. PICK t \in Text : t = ts[n + 1] OBVIOUS
<1>2. PICK f : f = Put(e, t) OBVIOUS
<1>3. /\ DictOk(e) /\ e \in Seq(Text) /\ Len(e) \in Nat /\ Len(dict) \in Nat /\ Len(dict) <= Len(e)
  BY DEF FillOk, DictOk
<1>4. DictOk(f) /\ (Replaced(e, t, f) \/ Appended(e, t, f)) BY <1>2, <1>3, PutCases
<1>5. PICK p \in 1 .. Len(f) :
        /\ f[p] = t /\ Len(e) <= Len(f) /\ Len(f) \in {Len(e), Len(e) + 1}
        /\ p # Len(e) + 1 => Len(f) = Len(e)
        /\ \A i \in 1 .. Len(e) : i # p => f[i] = e[i] /\ e[i].k # t.k
        /\ \A i \in 1 .. Len(e) : f[i].k = e[i].k
  <2>1. CASE Replaced(e, t, f) BY <1>3, <2>1 DEF Replaced
  <2>2. CASE Appended(e, t, f)
    <3> USE DEF Appended
    <3>1. Len(e) + 1 \in 1 .. Len(f) /\ \A i \in 1 .. Len(e) : i # Len(e) + 1 BY <1>3, <2>2
    <3>2. f[Len(e) + 1] = t /\ \A i \in 1 .. Len(e) : f[i] = e[i] /\ e[i].k # t.k BY <1>3, <1>4, <2>2
    <3>3. QED BY <1>3, <2>2, <3>1, <3>2
  <2>3. QED BY <1>4, <2>1, <2>2
<1>6. \A m \in 1 .. n + 1 : m \in 1 .. n \/ m = n + 1 OBVIOUS
<1>7. \A i \in 1 .. Len(f) : i \in 1 .. Len(e) \/ i = p BY <1>3, <1>5
<1>8. \A i \in 1 .. Len(dict) : f[i].k = dict[i].k /\ i \in 1 .. Len(e) BY <1>3, <1>5 DEF FillOk
<1>9. ASSUME NEW i \in 1 .. Len(f) PROVE Kept(dict, ts, n + 1, f, i) \/ Given(ts, n + 1, f, i)
  <2>1. CASE i = p
    <3>1. n + 1 \in 1 .. n + 1 /\ (n + 1) + 1 .. n + 1 = {} OBVIOUS
    <3>2. QED BY <1>1, <1>5, <2>1, <3>1 DEF Given
  <2>2. CASE i # p
    <3>1. i \in 1 .. Len(e) BY <1>7, <2>2
    <3>2. f[i] = e[i] /\ ~KeyAt(ts, n + 1, e[i].k) BY <1>1, <1>5, <2>2, <3>1 DEF KeyAt
    <3>3. CASE Kept(dict, ts, n, e, i) BY <1>6, <3>2, <3>3 DEF Kept
    <3>4. CASE Given(ts, n, e, i)
      <4>1. PICK m \in 1 .. n : ts[m] \in Text /\ e[i] = ts[m] /\ \A q \in m + 1 .. n : ~KeyAt(ts, q, ts[m].k)
        BY <3>4 DEF Given
      <4>2. m \in 1 .. n + 1 /\ \A q \in m + 1 .. n + 1 : q \in m + 1 .. n \/ q = n + 1 OBVIOUS
      <4>3. QED BY <3>2, <4>1, <4>2 DEF Given
    <3>5. QED BY <3>1, <3>3, <3>4 DEF FillOk
  <2>3. QED BY <2>1, <2>2
<1>10. Covered(ts, n + 1, f)
  <2>1. ASSUME NEW m \in 1 .. n + 1, ts[m] \in Text PROVE \E i \in 1 .. Len(f) : f[i].k = ts[m].k
    <3>1. CASE m = n + 1 BY <1>1, <1>5, <3>1
    <3>2. CASE m \in 1 .. n
      <4>1. PICK i \in 1 .. Len(e) : e[i].k = ts[m].k BY <2>1, <3>2 DEF FillOk, Covered
      <4>2. i \in 1 .. Len(f) BY <1>3, <1>5
      <4>3. QED BY <1>5, <4>1, <4>2
    <3>3. QED BY <1>6, <3>1, <3>2
  <2>2. QED BY <2>1 DEF Covered
<1>11. ASSUME NEW i \in Len(dict) + 1 .. Len(f), NEW j \in Len(dict) + 1 .. Len(f), i < j
       PROVE  FirstSeen(ts, n + 1, f[i].k, f[j].k)
  <2>1. i \in Len(dict) + 1 .. Len(e) /\ i \in 1 .. Len(e) /\ i \in 1 .. Len(f) /\ f[i].k = e[i].k
    BY <1>3, <1>5, <1>11
  <2>2. CASE j \in 1 .. Len(e)
    <3>1. j \in Len(dict) + 1 .. Len(e) /\ f[j].k = e[j].k BY <1>3, <1>5, <2>2
    <3>2. FirstSeen(ts, n, e[i].k, e[j].k) BY <1>11, <2>1, <3>1 DEF FillOk
    <3>3. PICK m \in 1 .. n : KeyAt(ts, m, e[i].k) /\ \A q \in 1 .. n : KeyAt(ts, q, e[j].k) => m < q
      BY <3>2 DEF FirstSeen
    <3>4. m \in 1 .. n + 1 /\ m < n + 1 OBVIOUS
    <3>5. QED BY <1>6, <2>1, <3>1, <3>3, <3>4 DEF FirstSeen
  <2>3. CASE j \notin 1 .. Len(e)
    <3>1. j = p /\ j = Len(e) + 1 /\ j \in 1 .. Len(f) BY <1>3, <1>5, <1>7, <2>3
    <3>2. f[j].k = t.k /\ \A l \in 1 .. Len(e) : e[l].k # t.k BY <1>3, <1>5, <3>1
    <3>3. \A q \in 1 .. n : ~KeyAt(ts, q, t.k) BY <3>2 DEF FillOk, Covered, KeyAt
    <3>4. ~(i <= Len(dict)) BY <1>3
    <3>5. Given(ts, n, e, i) BY <2>1, <3>4 DEF FillOk, Kept
    <3>6. PICK m \in 1 .. n : ts[m] \in Text /\ e[i] = ts[m] BY <3>5 DEF Given
    <3>7. KeyAt(ts, m, f[i].k) BY <2>1, <3>6 DEF KeyAt
    <3>8. m \in 1 .. n + 1 /\ m < n + 1 OBVIOUS
    <3>9. QED BY <1>6, <3>2, <3>3, <3>7, <3>8 DEF FirstSeen
  <2>4. QED BY <2>2, <2>3
<1>12. Len(dict) <= Len(f) BY <1>3, <1>5
<1>13. FillOk(dict, ts, n + 1, f) BY <1>4, <1>8, <1>9, <1>10, <1>11, <1>12 DEF FillOk
<1>14. QED BY <1>1, <1>2, <1>13

LEMMA FillSkip ==
  ASSUME NEW dict, DictOk(dict), NEW ts \in Seq(Cell), NEW n \in Nat, n + 1 <= Len(ts), ts[n + 1] \notin Text,
         NEW e, FillOk(dict, ts, n, e)
  PROVE  FillOk(dict, ts, n + 1, e)
<1>1. \A m \in 1 .. n + 1 : m \in 1 .. n \/ m = n + 1 OBVIOUS
<1>2. \A key : ~KeyAt(ts, n + 1, key) BY DEF KeyAt
<1>3. ASSUME NEW i \in 1 .. Len(e) PROVE Kept(dict, ts, n + 1, e, i) \/ Given(ts, n + 1, e, i)
  <2>1. CASE Kept(dict, ts, n, e, i) BY <1>1, <1>2, <2>1 DEF Kept
  <2>2. CASE Given(ts, n, e, i)
    <3>1. PICK m \in 1 .. n : ts[m] \in Text /\ e[i] = ts[m] /\ \A q \in m + 1 .. n : ~KeyAt(ts, q, ts[m].k)
      BY <2>2 DEF Given
    <3>2. m \in 1 .. n + 1 /\ \A q \in m + 1 .. n + 1 : q \in m + 1 .. n \/ q = n + 1 OBVIOUS
    <3>3. QED BY <1>2, <3>1, <3>2 DEF Given
  <2>3. QED BY <2>1, <2>2 DEF FillOk
<1>4. Covered(ts, n + 1, e) BY <1>1 DEF FillOk, Covered
<1>5. ASSUME NEW a, NEW b, FirstSeen(ts, n, a, b) PROVE FirstSeen(ts, n + 1, a, b)
  <2>1. PICK m \in 1 .. n : KeyAt(ts, m, a) /\ \A q \in 1 .. n : KeyAt(ts, q, b) => m < q BY <1>5 DEF FirstSeen
  <2>2. m \in 1 .. n + 1 OBVIOUS
  <2>3. QED BY <1>1, <1>2, <2>1, <2>2 DEF FirstSeen
<1>6. QED BY <1>3, <1>4, <1>5 DEF FillOk

LEMMA PutAllOk ==
  ASSUME NEW dict, DictOk(dict), NEW ts \in Seq(Cell)
  PROVE  FillOk(dict, ts, Len(ts), PutAll(dict, ts))
<1> DEFINE S == {n \in Nat : n <= Len(ts) => FillOk(dict, ts, n, Filled(dict, ts)[n])}
<1>1. Len(ts) \in Nat /\ Len(dict) \in Nat /\ \A n \in 1 .. Len(ts) : ts[n] \in Cell BY DEF DictOk
<1>2. 0 \in S
  <2>1. Filled(dict, ts)[0] = dict BY <1>1, FilledStep
  <2>2. 1 .. 0 = {} /\ Len(dict) + 1 .. Len(dict) = {} /\ \A i \in 1 .. Len(dict) : i <= Len(dict) BY <1>1
  <2>3. FillOk(dict, ts, 0, dict) BY <1>1, <2>2 DEF FillOk, Kept, Covered
  <2>4. QED BY <2>1, <2>3
<1>3. ASSUME NEW n \in S PROVE n + 1 \in S
  <2>1. SUFFICES ASSUME n + 1 <= Len(ts) PROVE FillOk(dict, ts, n + 1, Filled(dict, ts)[n + 1]) OBVIOUS
  <2>2. n \in Nat /\ n + 1 \in 1 .. Len(ts) /\ (n + 1) - 1 = n /\ n <= Len(ts) BY <1>1, <2>1
  <2>3. FillOk(dict, ts, n, Filled(dict, ts)[n]) BY <2>2
  <2>4. Filled(dict, ts)[n + 1] = IF ts[n + 1] \in {NUL, Junk} THEN Filled(dict, ts)[n]
                                  ELSE Put(Filled(dict, ts)[n], ts[n + 1])
    BY <1>1, <2>2, FilledStep
  <2>5. ts[n + 1] \in {NUL, Junk} <=> ts[n + 1] \notin Text BY <1>1, <2>2, TextAssumption DEF Cell
  <2>6. CASE ts[n + 1] \in Text BY <2>1, <2>2, <2>3, <2>4, <2>5, <2>6, FillPut
  <2>7. CASE ts[n + 1] \notin Text BY <2>1, <2>2, <2>3, <2>4, <2>5, <2>7, FillSkip
  <2>8. QED BY <2>6, <2>7
<1>4. S = Nat
  <2> HIDE DEF S
  <2>1. S \in SUBSET Nat BY DEF S
  <2>2. QED BY <1>2, <1>3, <2>1, NatInd
<1>5. QED BY <1>1, <1>4 DEF PutAll

\* Entries with keys outside T are the same in both dicts, in the same order.
SameOutside(b, e, T) ==
  /\ DictOk(e)
  /\ \A j \in 1 .. Len(b) : b[j].k \notin T => \E i \in 1 .. Len(e) : e[i] = b[j]
  /\ \A i \in 1 .. Len(e) : e[i].k \notin T => \E j \in 1 .. Len(b) : b[j] = e[i]
  /\ \A i1, i2 \in 1 .. Len(e) :
       i1 < i2 /\ e[i1].k \notin T /\ e[i2].k \notin T =>
         \E j1, j2 \in 1 .. Len(b) : j1 < j2 /\ b[j1] = e[i1] /\ b[j2] = e[i2]

LEMMA PutAllKeeps ==
  ASSUME NEW b, DictOk(b), NEW ts \in Seq(Cell), NEW T, \A n \in 1 .. Len(ts) : ts[n] \in Text => ts[n].k \in T
  PROVE  SameOutside(b, PutAll(b, ts), T)
<1>1. PICK e : e = PutAll(b, ts) OBVIOUS
<1>2. FillOk(b, ts, Len(ts), e) BY <1>1, PutAllOk
<1>3. Len(b) \in Nat /\ Len(e) \in Nat /\ Len(b) <= Len(e) /\ DictOk(e) BY <1>2 DEF FillOk, DictOk
<1>4. ASSUME NEW i \in 1 .. Len(e), e[i].k \notin T PROVE i \in 1 .. Len(b) /\ e[i] = b[i]
  <2>1. ~Given(ts, Len(ts), e, i) BY <1>4 DEF Given
  <2>2. i <= Len(b) /\ e[i] = b[i] BY <1>2, <2>1 DEF FillOk, Kept
  <2>3. QED BY <1>3, <2>2
<1>5. ASSUME NEW j \in 1 .. Len(b), b[j].k \notin T PROVE j \in 1 .. Len(e) /\ e[j] = b[j]
  <2>1. j \in 1 .. Len(e) BY <1>3
  <2>2. e[j].k = b[j].k BY <1>2 DEF FillOk
  <2>3. QED BY <1>4, <1>5, <2>1, <2>2
<1>6. SameOutside(b, e, T) BY <1>3, <1>4, <1>5 DEF SameOutside
<1>7. QED BY <1>1, <1>6

LEMMA DeleteKeeps ==
  ASSUME NEW b, DictOk(b), NEW T
  PROVE  SameOutside(b, Delete(b, T), T) /\ Len(Delete(b, T)) <= Len(b)
<1> DEFINE ts == [n \in 1 .. Len(b) |-> IF b[n].k \in T THEN NUL ELSE b[n]]
<1>1. PICK e : e = Delete(b, T) OBVIOUS
<1>2. b \in Seq(Text) /\ Len(b) \in Nat /\ \A n \in 1 .. Len(b) : b[n] \in Text BY DEF DictOk
<1>3. ts \in Seq(Cell) /\ Len(ts) = Len(b)
  <2>1. ts \in [1 .. Len(b) -> Cell] BY <1>2 DEF Cell
  <2>2. QED BY <1>2, <2>1
<1>4. \A n \in 1 .. Len(b) : ts[n] = IF b[n].k \in T THEN NUL ELSE b[n] OBVIOUS
<1>5. e = PutAll(<<>>, ts) BY <1>1 DEF Delete
<1> HIDE DEF ts
<1>6. DictOk(<<>>) BY DEF DictOk
<1>7. FillOk(<<>>, ts, Len(b), e) BY <1>3, <1>5, <1>6, PutAllOk
<1>8. Len(e) \in Nat /\ DictOk(e) BY <1>7 DEF FillOk, DictOk
<1>9. \A n \in 1 .. Len(b) : ts[n] \in Text => ts[n] = b[n] /\ b[n].k \notin T BY <1>2, <1>4, TextAssumption
<1>10. ASSUME NEW i \in 1 .. Len(e) PROVE \E m \in 1 .. Len(b) : e[i] = b[m] /\ ts[m] = b[m]
  <2>1. ~Kept(<<>>, ts, Len(b), e, i) BY DEF Kept
  <2>2. Given(ts, Len(b), e, i) BY <1>7, <2>1 DEF FillOk
  <2>3. QED BY <1>9, <2>2 DEF Given
<1>11. ASSUME NEW j \in 1 .. Len(b), b[j].k \notin T PROVE \E i \in 1 .. Len(e) : e[i] = b[j]
  <2>1. ts[j] = b[j] /\ ts[j] \in Text BY <1>2, <1>4, <1>11
  <2>2. PICK i \in 1 .. Len(e) : e[i].k = b[j].k BY <1>7, <2>1 DEF FillOk, Covered
  <2>3. PICK m \in 1 .. Len(b) : e[i] = b[m] BY <1>10
  <2>4. m = j BY <2>2, <2>3 DEF DictOk
  <2>5. QED BY <2>3, <2>4
<1>12. ASSUME NEW i1 \in 1 .. Len(e), NEW i2 \in 1 .. Len(e), i1 < i2
       PROVE  \E j1, j2 \in 1 .. Len(b) : j1 < j2 /\ b[j1] = e[i1] /\ b[j2] = e[i2]
  <2>1. PICK j1 \in 1 .. Len(b) : e[i1] = b[j1] /\ ts[j1] = b[j1] BY <1>10
  <2>2. PICK j2 \in 1 .. Len(b) : e[i2] = b[j2] /\ ts[j2] = b[j2] BY <1>10
  <2>3. FirstSeen(ts, Len(b), e[i1].k, e[i2].k)
    <3>1. i1 \in Len(<<>>) + 1 .. Len(e) /\ i2 \in Len(<<>>) + 1 .. Len(e) OBVIOUS
    <3>2. QED BY <1>7, <1>12, <3>1 DEF FillOk
  <2>4. PICK m \in 1 .. Len(b) : KeyAt(ts, m, e[i1].k) /\ \A q \in 1 .. Len(b) : KeyAt(ts, q, e[i2].k) => m < q
    BY <2>3 DEF FirstSeen
  <2>5. b[m].k = b[j1].k BY <1>9, <2>1, <2>4 DEF KeyAt
  <2>6. m = j1 BY <2>5 DEF DictOk
  <2>7. KeyAt(ts, j2, e[i2].k) BY <1>2, <2>2 DEF KeyAt
  <2>8. QED BY <2>1, <2>2, <2>4, <2>6, <2>7
<1>13. SameOutside(b, e, T) BY <1>8, <1>10, <1>11, <1>12 DEF SameOutside
<1>14. Len(e) <= Len(b)
  <2> DEFINE S == {n \in Nat : n <= Len(b) => Len(Filled(<<>>, ts)[n]) <= n /\ DictOk(Filled(<<>>, ts)[n])}
  <2>1. 0 \in S BY <1>3, <1>6, FilledStep
  <2>2. ASSUME NEW n \in S PROVE n + 1 \in S
    <3>1. SUFFICES ASSUME n + 1 <= Len(b)
                   PROVE  Len(Filled(<<>>, ts)[n + 1]) <= n + 1 /\ DictOk(Filled(<<>>, ts)[n + 1])
      OBVIOUS
    <3>2. n + 1 \in 1 .. Len(ts) /\ (n + 1) - 1 = n /\ n <= Len(b) BY <1>2, <1>3, <3>1
    <3>3. PICK f, g : f = Filled(<<>>, ts)[n] /\ g = Filled(<<>>, ts)[n + 1] OBVIOUS
    <3>4. g = IF ts[n + 1] \in {NUL, Junk} THEN f ELSE Put(f, ts[n + 1]) BY <1>2, <1>3, <3>2, <3>3, FilledStep
    <3>5. Len(f) <= n /\ DictOk(f) BY <3>2, <3>3
    <3>6. Len(f) \in Nat BY <3>5 DEF DictOk
    <3>7. CASE g = f BY <3>3, <3>5, <3>6, <3>7
    <3>8. CASE g # f
      <4>1. ts[n + 1] \in Text BY <1>3, <3>2, <3>4, <3>8 DEF Cell
      <4>2. DictOk(g) /\ Len(g) \in {Len(f), Len(f) + 1}
        <5>1. g = Put(f, ts[n + 1]) BY <3>4, <3>8
        <5>2. QED BY <3>5, <4>1, <5>1, PutCases DEF Replaced, Appended
      <4>3. QED BY <3>3, <3>5, <3>6, <4>2
    <3>9. QED BY <3>7, <3>8
  <2>3. S = Nat
    <3> HIDE DEF S
    <3>1. S \in SUBSET Nat BY DEF S
    <3>2. QED BY <2>1, <2>2, <3>1, NatInd
  <2>4. QED BY <1>2, <1>3, <1>5, <2>3 DEF PutAll
<1>15. QED BY <1>1, <1>13, <1>14

PresetKeys == {"slotaboot", "slotbboot", "bootcmd_ab"}

LEMMA PresetsOk ==
  /\ Presets \in Seq(Cell) /\ Len(Presets) = 3 /\ \A n \in 1 .. 3 : Presets[n] \in Text
  /\ Presets[1].k = "slotaboot" /\ Presets[2].k = "slotbboot" /\ Presets[3].k = "bootcmd_ab"
  /\ DefaultSlot \in Text /\ DefaultSlot.k = "slot"
<1>1. DefaultSlot \in Text /\ \A n \in 1 .. 3 : Presets[n] \in Text BY PresetsAssumption
<1>2. /\ Presets[1].k = "slotaboot" /\ Presets[2].k = "slotbboot" /\ Presets[3].k = "bootcmd_ab"
      /\ DefaultSlot.k = "slot"
  BY DEF Presets, DefaultSlot
<1>3. Len(Presets) = 3 BY DEF Presets
<1>4. Presets \in Seq(Cell)
  <2>1. Presets[1] \in Cell /\ Presets[2] \in Cell /\ Presets[3] \in Cell BY <1>1 DEF Cell
  <2>2. QED BY <2>1 DEF Presets
<1>5. QED BY <1>1, <1>2, <1>3, <1>4

\* What preset-symmetric makes of a dict.
PresetOk(b, e) ==
  /\ SameOutside(b, e, PresetKeys \cup {"slot"})
  /\ \A n \in 1 .. 3 : \E i \in 1 .. Len(e) : e[i] = Presets[n]
  /\ \E i \in 1 .. Len(e) : e[i].k = "slot"
  /\ \A j \in 1 .. Len(b) : b[j].k = "slot" => \E i \in 1 .. Len(e) : e[i] = b[j]

LEMMA PresetMakes == ASSUME NEW b, DictOk(b) PROVE PresetOk(b, preset_symmetric(b))
<1> DEFINE T == PresetKeys \cup {"slot"}
<1>1. PICK d : d = PutAll(b, Presets) OBVIOUS
<1>2. FillOk(b, Presets, 3, d) BY <1>1, PresetsOk, PutAllOk
<1>3. Len(b) \in Nat /\ DictOk(d) /\ d \in Seq(Text) /\ Len(d) \in Nat BY <1>2 DEF FillOk, DictOk
<1>4. \A n \in 1 .. 3 : Presets[n].k \in PresetKeys BY PresetsOk DEF PresetKeys
<1>5. SameOutside(b, d, PresetKeys) BY <1>1, <1>4, PresetsOk, PutAllKeeps
<1>6. ASSUME NEW n \in 1 .. 3 PROVE \E i \in 1 .. Len(d) : d[i] = Presets[n]
  <2>1. PICK i \in 1 .. Len(d) : d[i].k = Presets[n].k BY <1>2, PresetsOk DEF FillOk, Covered
  <2>2. KeyAt(Presets, n, d[i].k) BY <2>1, PresetsOk DEF KeyAt
  <2>3. Given(Presets, 3, d, i) BY <1>2, <2>2 DEF FillOk, Kept
  <2>4. PICK m \in 1 .. 3 : d[i] = Presets[m] BY <2>3 DEF Given
  <2>5. m = n BY <2>1, <2>4, PresetsOk
  <2>6. QED BY <2>4, <2>5
<1>7. "slot" \notin PresetKeys BY DEF PresetKeys
<1>8. \A j \in 1 .. Len(b) : b[j].k = "slot" => \E i \in 1 .. Len(d) : d[i] = b[j] BY <1>5, <1>7 DEF SameOutside
<1>9. CASE \E n \in DOMAIN d : d[n].k = "slot"
  <2>1. preset_symmetric(b) = d BY <1>1, <1>9 DEF preset_symmetric
  <2>2. SameOutside(b, d, T) BY <1>5 DEF SameOutside
  <2>3. QED BY <1>3, <1>6, <1>8, <1>9, <2>1, <2>2 DEF PresetOk
<1>10. CASE ~\E n \in DOMAIN d : d[n].k = "slot"
  <2>1. PICK e : e = Append(d, DefaultSlot) OBVIOUS
  <2>2. preset_symmetric(b) = e BY <1>1, <1>10, <2>1 DEF preset_symmetric
  <2>3. /\ e \in Seq(Text) /\ Len(e) = Len(d) + 1 /\ e[Len(d) + 1] = DefaultSlot
        /\ \A i \in 1 .. Len(d) : e[i] = d[i]
    BY <1>3, <2>1, PresetsOk
  <2>4. \A i \in 1 .. Len(d) : d[i].k # "slot" BY <1>3, <1>10
  <2>5. e[Len(d) + 1].k = "slot" BY <2>3, PresetsOk
  <2>6. \A i \in 1 .. Len(e) : i \in 1 .. Len(d) \/ i = Len(d) + 1 BY <1>3, <2>3
  <2>7. \A i \in 1 .. Len(d) : i \in 1 .. Len(e) BY <1>3, <2>3
  <2>8. DictOk(e)
    <3>1. SUFFICES ASSUME NEW i \in 1 .. Len(e), NEW j \in 1 .. Len(e), e[i].k = e[j].k PROVE i = j
      BY <2>3 DEF DictOk
    <3>2. CASE i \in 1 .. Len(d) /\ j \in 1 .. Len(d) BY <1>3, <2>3, <3>1, <3>2 DEF DictOk
    <3>3. CASE i = Len(d) + 1 /\ j \in 1 .. Len(d) BY <2>3, <2>4, <2>5, <3>1, <3>3
    <3>4. CASE i \in 1 .. Len(d) /\ j = Len(d) + 1 BY <2>3, <2>4, <2>5, <3>1, <3>4
    <3>5. QED BY <2>6, <3>2, <3>3, <3>4
  <2>9. SameOutside(b, e, T)
    <3>1. \A i \in 1 .. Len(e) : e[i].k \notin T => i \in 1 .. Len(d) /\ e[i] = d[i] /\ d[i].k \notin PresetKeys
      BY <2>3, <2>5, <2>6
    <3>2. \A j \in 1 .. Len(b) : b[j].k \notin T => \E i \in 1 .. Len(e) : e[i] = b[j]
      BY <1>5, <2>3, <2>7 DEF SameOutside
    <3>3. QED BY <1>5, <2>8, <3>1, <3>2 DEF SameOutside
  <2>10. \A n \in 1 .. 3 : \E i \in 1 .. Len(e) : e[i] = Presets[n] BY <1>6, <2>3, <2>7
  <2>11. \E i \in 1 .. Len(e) : e[i].k = "slot"
    <3>1. Len(d) + 1 \in 1 .. Len(e) BY <1>3, <2>3
    <3>2. QED BY <2>5, <3>1
  <2>12. \A j \in 1 .. Len(b) : b[j].k = "slot" => \E i \in 1 .. Len(e) : e[i] = b[j] BY <1>8, <2>3, <2>7
  <2>13. PresetOk(b, e) BY <2>9, <2>10, <2>11, <2>12 DEF PresetOk
  <2>14. QED BY <2>2, <2>13
<1>11. QED BY <1>9, <1>10

\* Run again on its own result it changes nothing.
LEMMA PresetAgain ==
  ASSUME NEW b, NEW e, PresetOk(b, e) PROVE preset_symmetric(e) = e
<1>1. DictOk(e) /\ e \in Seq(Text) /\ Len(e) \in Nat /\ DOMAIN e = 1 .. Len(e) BY DEF PresetOk, SameOutside, DictOk
<1>2. ASSUME NEW n \in 1 .. 3 PROVE Put(e, Presets[n]) = e
  <2>1. PICK p \in 1 .. Len(e) : e[p] = Presets[n] BY DEF PresetOk
  <2>2. \A i \in 1 .. Len(e) : e[i].k = Presets[n].k => e[i] = Presets[n] BY <1>1, <2>1 DEF DictOk
  <2>3. Put(e, Presets[n]) = [i \in 1 .. Len(e) |-> IF e[i].k = Presets[n].k THEN Presets[n] ELSE e[i]]
    BY <1>1, <2>1 DEF Put
  <2>4. e = [i \in 1 .. Len(e) |-> e[i]] BY <1>1
  <2>5. QED BY <2>2, <2>3, <2>4
<1>3. PutAll(e, Presets) = e
  <2>1. \A n \in 1 .. 3 : Presets[n] \notin {NUL, Junk} BY PresetsOk, TextAssumption
  <2>2. /\ Filled(e, Presets)[0] = e
        /\ \A n \in 1 .. 3 : Filled(e, Presets)[n] = Put(Filled(e, Presets)[n - 1], Presets[n])
    <3>1. Len(Presets) = 3 /\ Len(Presets) \in Nat BY PresetsOk
    <3>2. /\ Filled(e, Presets)[0] = e
          /\ \A n \in 1 .. Len(Presets) :
               Filled(e, Presets)[n] = IF Presets[n] \in {NUL, Junk} THEN Filled(e, Presets)[n - 1]
                                       ELSE Put(Filled(e, Presets)[n - 1], Presets[n])
      BY <3>1, FilledStep
    <3>3. QED BY <2>1, <3>1, <3>2
  <2>3. Filled(e, Presets)[1] = Put(Filled(e, Presets)[0], Presets[1]) BY <2>2
  <2>4. Filled(e, Presets)[2] = Put(Filled(e, Presets)[1], Presets[2]) BY <2>2
  <2>5. Filled(e, Presets)[3] = Put(Filled(e, Presets)[2], Presets[3]) BY <2>2
  <2>6. QED BY <1>2, <2>2, <2>3, <2>4, <2>5, PresetsOk DEF PutAll
<1>4. \E n \in DOMAIN e : e[n].k = "slot" BY <1>1 DEF PresetOk
<1>5. QED BY <1>3, <1>4 DEF preset_symmetric

-----------------------------------------------------------------------------
(* Blocks. *)

GoodData == {d \in [1 .. ENV_DATA_SIZE -> Cell] : \A n \in 2 .. ENV_DATA_SIZE : NUL \in {d[n - 1], d[n]}}

LEMMA MinIs ==
  ASSUME NEW S \in SUBSET Nat, NEW x \in S, \A y \in S : x <= y PROVE Min(S) = x
<1>1. Min(S) \in S /\ \A y \in S : Min(S) <= y BY DEF Min
<1>2. PICK m \in Nat : m = Min(S) BY <1>1
<1>3. m <= x /\ x <= m /\ x \in Nat BY <1>1, <1>2
<1>4. m = x BY <1>3
<1>5. QED BY <1>2, <1>4

LEMMA NatHasMin == ASSUME NEW S \in SUBSET Nat, S # {} PROVE Min(S) \in S /\ \A y \in S : Min(S) <= y
<1>1. PICK x \in S : \A y \in S : ~(<<y, x>> \in OpToRel(<, Nat))
  BY NatLessThanWellFounded, WFMin
<1>2. \A y \in S : x <= y
  <2>1. TAKE y \in S
  <2>2. SUFFICES ASSUME y < x PROVE FALSE OBVIOUS
  <2>3. <<y, x>> \in OpToRel(<, Nat) BY <2>2 DEF OpToRel
  <2>4. QED BY <1>1, <2>3
<1>3. QED BY <1>2, MinIs

Stops(d) == {n \in 1 .. Len(d) : d[n] = NUL /\ (n = 1 \/ d[n - 1] = NUL)} \cup {Len(d) + 1}

LEMMA StopIs ==
  ASSUME NEW d, Len(d) \in Nat
  PROVE  Stop(d) \in Stops(d) /\ Stop(d) \in 1 .. Len(d) + 1 /\ \A n \in Stops(d) : Stop(d) <= n
<1>1. Stops(d) \in SUBSET Nat /\ Stops(d) # {} /\ Stops(d) \subseteq 1 .. Len(d) + 1 BY DEF Stops
<1>2. Stop(d) = Min(Stops(d)) BY DEF Stop, Stops
<1>3. QED BY <1>1, <1>2, NatHasMin

LEMMA CellsOk ==
  ASSUME NEW d \in GoodData
  PROVE  /\ d \in Seq(Cell) /\ Len(d) = ENV_DATA_SIZE /\ Stop(d) \in 1 .. ENV_DATA_SIZE + 1
         /\ Cells(d) \in Seq(Cell) /\ Len(Cells(d)) = Stop(d) - 1
         /\ \A n \in 1 .. Stop(d) - 1 : Cells(d)[n] = d[n] /\ d[n] \in Cell
<1>1. ENV_DATA_SIZE \in Nat BY SizeAssumption
<1>2. d \in [1 .. ENV_DATA_SIZE -> Cell] BY DEF GoodData
<1>3. d \in Seq(Cell) /\ Len(d) = ENV_DATA_SIZE BY <1>1, <1>2
<1>4. Stop(d) \in 1 .. ENV_DATA_SIZE + 1 BY <1>1, <1>3, StopIs
<1>5. PICK m \in 0 .. ENV_DATA_SIZE : m = Stop(d) - 1 BY <1>1, <1>4
<1>6. SubSeq(d, 1, m) \in Seq(Cell) /\ Len(SubSeq(d, 1, m)) = m /\ \A n \in 1 .. m : SubSeq(d, 1, m)[n] = d[n]
  BY <1>1, <1>3
<1>7. \A n \in 1 .. m : d[n] \in Cell BY <1>1, <1>2
<1>8. QED BY <1>3, <1>4, <1>5, <1>6, <1>7 DEF Cells

LEMMA ParseOk ==
  ASSUME NEW d \in GoodData
  PROVE  FillOk(<<>>, Cells(d), Stop(d) - 1, parse_env(d)) /\ DictOk(parse_env(d))
<1>1. DictOk(<<>>) BY DEF DictOk
<1>2. FillOk(<<>>, Cells(d), Len(Cells(d)), PutAll(<<>>, Cells(d))) BY <1>1, CellsOk, PutAllOk
<1>3. QED BY <1>2, CellsOk DEF parse_env, FillOk

LEMMA Parity ==
  ASSUME NEW i \in Nat
  PROVE  /\ (2 * i + 1) % 2 = 1 /\ (2 * i) % 2 = 0 /\ ((2 * i + 1) + 1) \div 2 = i + 1
OBVIOUS

LEMMA EvenOrOdd == ASSUME NEW n \in Nat PROVE \E i \in Nat : n = 2 * i \/ n = 2 * i + 1
<1>1. n \div 2 \in Nat /\ (n = 2 * (n \div 2) \/ n = 2 * (n \div 2) + 1) OBVIOUS
<1>2. QED BY <1>1

\* Where serialize_env puts the entries.
Layout(e, d) ==
  /\ \A i \in 0 .. Len(e) - 1 : d[2 * i + 1] = e[i + 1] /\ d[2 * i + 2] = NUL
  /\ \A n \in 2 * Len(e) + 1 .. ENV_DATA_SIZE : d[n] = NUL
  /\ 2 * Len(e) + 1 <= ENV_DATA_SIZE

LEMMA PayloadIs ==
  ASSUME NEW e, DictOk(e)
  PROVE  /\ Len(Payload(e)) = (IF e = <<>> THEN 2 ELSE 2 * Len(e) + 1)
         /\ \A i \in 0 .. Len(e) - 1 : Payload(e)[2 * i + 1] = e[i + 1] /\ Payload(e)[2 * i + 2] = NUL
         /\ Payload(e)[2 * Len(e) + 1] = NUL
<1>1. e \in Seq(Text) /\ Len(e) \in Nat BY DEF DictOk
<1>2. CASE e = <<>>
  <2>1. Payload(e) = <<NUL, NUL>> BY <1>2 DEF Payload
  <2>2. Len(e) = 0 /\ 0 .. 0 - 1 = {} BY <1>2
  <2>3. QED BY <1>2, <2>1, <2>2
<1>3. CASE e # <<>>
  <2> DEFINE P == [n \in 1 .. 2 * Len(e) + 1 |-> IF n % 2 = 1 /\ n < 2 * Len(e) THEN e[(n + 1) \div 2] ELSE NUL]
  <2>1. Payload(e) = P BY <1>3 DEF Payload
  <2>2. Len(P) = 2 * Len(e) + 1 BY <1>1
  <2>3. ASSUME NEW i \in 0 .. Len(e) - 1 PROVE P[2 * i + 1] = e[i + 1] /\ P[2 * i + 2] = NUL
    <3>1. /\ 2 * i + 1 \in 1 .. 2 * Len(e) + 1 /\ 2 * i + 1 < 2 * Len(e)
          /\ 2 * i + 2 \in 1 .. 2 * Len(e) + 1 /\ 2 * (i + 1) = 2 * i + 2 /\ i \in Nat
      BY <1>1
    <3>2. (2 * i + 1) % 2 = 1 /\ ((2 * i + 1) + 1) \div 2 = i + 1 /\ (2 * i + 2) % 2 # 1
      <4>1. (2 * (i + 1)) % 2 = 0 BY <3>1, Parity
      <4>2. QED BY <3>1, <4>1, Parity
    <3>3. QED BY <3>1, <3>2
  <2>4. P[2 * Len(e) + 1] = NUL BY <1>1
  <2>5. QED BY <1>3, <2>1, <2>2, <2>3, <2>4
<1>4. QED BY <1>2, <1>3

LEMMA LayoutIs ==
  ASSUME NEW e, DictOk(e), Serializable(e)
  PROVE  /\ Layout(e, serialize_env(e).data) /\ Len(e) \in Nat
         /\ serialize_env(e).data = [n \in 1 .. ENV_DATA_SIZE |-> IF n <= Len(Payload(e)) THEN Payload(e)[n] ELSE NUL]
<1> DEFINE d == [n \in 1 .. ENV_DATA_SIZE |-> IF n <= Len(Payload(e)) THEN Payload(e)[n] ELSE NUL]
<1>1. e \in Seq(Text) /\ Len(e) \in Nat /\ ENV_DATA_SIZE \in Nat /\ ENV_DATA_SIZE >= 2 BY SizeAssumption DEF DictOk
<1>2. Len(Payload(e)) <= ENV_DATA_SIZE BY DEF Serializable
<1>3. PICK l \in Nat : l = Len(Payload(e)) /\ l \in 2 * Len(e) + 1 .. ENV_DATA_SIZE /\ l \in 2 * Len(e) + 1 .. 2 * Len(e) + 2
  <2>1. Len(Payload(e)) = (IF e = <<>> THEN 2 ELSE 2 * Len(e) + 1) BY PayloadIs
  <2>2. e = <<>> => Len(e) = 0 OBVIOUS
  <2>3. PICK l : l = Len(Payload(e)) OBVIOUS
  <2>4. CASE e = <<>>
    <3>1. l = 2 /\ Len(e) = 0 BY <2>1, <2>2, <2>3, <2>4
    <3>2. QED BY <1>1, <2>3, <3>1
  <2>5. CASE e # <<>>
    <3>1. l = 2 * Len(e) + 1 /\ l <= ENV_DATA_SIZE BY <1>2, <2>1, <2>3, <2>5
    <3>2. l \in Nat /\ l \in 2 * Len(e) + 1 .. ENV_DATA_SIZE /\ l \in 2 * Len(e) + 1 .. 2 * Len(e) + 2 BY <1>1, <3>1
    <3>3. QED BY <2>3, <3>2
  <2>6. QED BY <2>4, <2>5
<1>4. \A n \in 1 .. l : n \in 1 .. ENV_DATA_SIZE /\ d[n] = Payload(e)[n] BY <1>1, <1>3
<1>5. ASSUME NEW i \in 0 .. Len(e) - 1 PROVE d[2 * i + 1] = e[i + 1] /\ d[2 * i + 2] = NUL
  <2>1. 2 * i + 1 \in 1 .. l /\ 2 * i + 2 \in 1 .. l BY <1>1, <1>3
  <2>2. Payload(e)[2 * i + 1] = e[i + 1] /\ Payload(e)[2 * i + 2] = NUL BY PayloadIs
  <2>3. QED BY <1>4, <2>1, <2>2
<1>6. ASSUME NEW n \in 2 * Len(e) + 1 .. ENV_DATA_SIZE PROVE d[n] = NUL
  <2>1. n \in 1 .. ENV_DATA_SIZE BY <1>1
  <2>2. CASE n > l BY <1>3, <2>1, <2>2
  <2>3. CASE n <= l
    <3>1. n = 2 * Len(e) + 1 \/ (l = 2 /\ n = 2 /\ e = <<>>)
      <4>1. l = (IF e = <<>> THEN 2 ELSE 2 * Len(e) + 1) BY <1>3, PayloadIs
      <4>2. e = <<>> => Len(e) = 0 OBVIOUS
      <4>3. QED BY <1>1, <2>1, <2>3, <4>1, <4>2
    <3>2. e = <<>> => Payload(e) = <<NUL, NUL>> BY DEF Payload
    <3>3. Payload(e)[n] = NUL BY <3>1, <3>2, PayloadIs
    <3>4. QED BY <1>3, <2>1, <2>3, <3>3
  <2>4. QED BY <1>1, <1>3, <2>2, <2>3
<1>7. 2 * Len(e) + 1 <= ENV_DATA_SIZE BY <1>1, <1>3
<1>8. serialize_env(e).data = d BY DEF serialize_env
<1> HIDE DEF d
<1>9. Layout(e, d) BY <1>5, <1>6, <1>7 DEF Layout
<1>10. QED BY <1>1, <1>8, <1>9 DEF d

LEMMA LayoutStop ==
  ASSUME NEW e, DictOk(e), NEW d, Len(d) = ENV_DATA_SIZE, Layout(e, d)
  PROVE  Stop(d) = 2 * Len(e) + 1
<1>1. Len(e) \in Nat /\ ENV_DATA_SIZE \in Nat /\ 2 * Len(e) + 1 <= ENV_DATA_SIZE BY SizeAssumption DEF DictOk, Layout
<1>2. 2 * Len(e) + 1 \in Stops(d)
  <2>1. d[2 * Len(e) + 1] = NUL /\ 2 * Len(e) + 1 \in 1 .. Len(d) BY <1>1 DEF Layout
  <2>2. CASE Len(e) = 0
    <3>1. 2 * Len(e) + 1 = 1 BY <2>2
    <3>2. QED BY <2>1, <3>1 DEF Stops
  <2>3. CASE Len(e) # 0
    <3>1. PICK i \in 0 .. Len(e) - 1 : 2 * i + 2 = (2 * Len(e) + 1) - 1
      <4>1. Len(e) - 1 \in 0 .. Len(e) - 1 /\ 2 * (Len(e) - 1) + 2 = (2 * Len(e) + 1) - 1 BY <1>1, <2>3
      <4>2. QED BY <4>1
    <3>2. d[(2 * Len(e) + 1) - 1] = NUL BY <3>1 DEF Layout
    <3>3. QED BY <2>1, <3>2 DEF Stops
  <2>4. QED BY <2>2, <2>3
<1>3. ASSUME NEW n \in Stops(d), n < 2 * Len(e) + 1 PROVE FALSE
  <2>1. n \in 1 .. Len(d) /\ d[n] = NUL /\ (n = 1 \/ d[n - 1] = NUL) BY <1>1, <1>3 DEF Stops
  <2>2. n - 1 \in Nat BY <1>1, <2>1
  <2>3. PICK i \in Nat : n - 1 = 2 * i \/ n - 1 = 2 * i + 1 BY <2>2, EvenOrOdd
  <2>4. i \in 0 .. Len(e) - 1 /\ i + 1 \in 1 .. Len(e) BY <1>1, <1>3, <2>1, <2>3
  <2>5. d[2 * i + 1] = e[i + 1] /\ e[i + 1] # NUL BY <2>4, TextAssumption DEF Layout, DictOk
  <2>6. CASE n = 2 * i + 1 BY <2>1, <2>5, <2>6
  <2>7. CASE n - 1 = 2 * i + 1
    <3>1. n # 1 BY <2>1, <2>7
    <3>2. QED BY <2>1, <2>5, <2>7, <3>1
  <2>8. QED BY <2>1, <2>3, <2>6, <2>7
<1>4. Stop(d) \in Stops(d) /\ Stop(d) \in 1 .. Len(d) + 1 /\ Stop(d) <= 2 * Len(e) + 1 BY <1>1, <1>2, StopIs
<1>5. QED BY <1>1, <1>3, <1>4

LEMMA PutNew ==
  ASSUME NEW e, DictOk(e), NEW i \in 0 .. Len(e) - 1 PROVE Put(SubSeq(e, 1, i), e[i + 1]) = SubSeq(e, 1, i + 1)
<1>1. e \in Seq(Text) /\ Len(e) \in Nat BY DEF DictOk
<1>2. PICK f : f = SubSeq(e, 1, i) OBVIOUS
<1>3. f \in Seq(Text) /\ Len(f) = i /\ DOMAIN f = 1 .. i /\ \A n \in 1 .. i : f[n] = e[n] BY <1>1, <1>2
<1>4. \A n \in DOMAIN f : f[n].k # e[i + 1].k
  <2>1. TAKE n \in DOMAIN f
  <2>2. n \in 1 .. Len(e) /\ i + 1 \in 1 .. Len(e) /\ n # i + 1 /\ f[n] = e[n] BY <1>1, <1>3
  <2>3. QED BY <2>2 DEF DictOk
<1>5. Put(f, e[i + 1]) = Append(f, e[i + 1]) BY <1>4 DEF Put
<1>6. SubSeq(e, 1, i + 1) = Append(SubSeq(e, 1, i), e[i + 1]) BY <1>1
<1>7. QED BY <1>2, <1>5, <1>6

\* What serialize_env writes, parse_env reads.
LEMMA RoundTrip ==
  ASSUME NEW e, DictOk(e), NEW d \in GoodData, Layout(e, d)
  PROVE  parse_env(d) = e
<1>1. e \in Seq(Text) /\ Len(e) \in Nat BY DEF DictOk
<1>2. PICK ts : ts = Cells(d) OBVIOUS
<1>3. Len(d) = ENV_DATA_SIZE BY CellsOk
<1>4. Stop(d) - 1 = 2 * Len(e) BY <1>1, <1>3, LayoutStop
<1>5. Len(ts) = 2 * Len(e) /\ \A n \in 1 .. 2 * Len(e) : ts[n] = d[n] BY <1>2, <1>4, CellsOk
<1> DEFINE F == Filled(<<>>, ts)
           S == {i \in Nat : i <= Len(e) => F[2 * i] = SubSeq(e, 1, i)}
<1>6. /\ F[0] = <<>>
      /\ \A n \in 1 .. Len(ts) : F[n] = IF ts[n] \in {NUL, Junk} THEN F[n - 1] ELSE Put(F[n - 1], ts[n])
  BY <1>1, <1>5, FilledStep
<1> HIDE DEF F
<1>7. 0 \in S
  <2>1. 2 * 0 = 0 /\ SubSeq(e, 1, 0) = <<>> BY <1>1
  <2>2. QED BY <1>6, <2>1
<1>8. ASSUME NEW i \in S PROVE i + 1 \in S
  <2>1. SUFFICES ASSUME i + 1 <= Len(e) PROVE F[2 * (i + 1)] = SubSeq(e, 1, i + 1) OBVIOUS
  <2>2. i \in Nat /\ i \in 0 .. Len(e) - 1 /\ i + 1 \in 1 .. Len(e) /\ i <= Len(e) BY <1>1, <2>1
  <2>3. /\ 2 * i + 1 \in 1 .. Len(ts) /\ 2 * i + 2 \in 1 .. Len(ts) /\ 2 * (i + 1) = 2 * i + 2
        /\ (2 * i + 1) - 1 = 2 * i /\ (2 * i + 2) - 1 = 2 * i + 1
    BY <1>1, <1>5, <2>1, <2>2
  <2>4. ts[2 * i + 1] = e[i + 1] /\ ts[2 * i + 2] = NUL BY <1>5, <2>2, <2>3 DEF Layout
  <2>5. e[i + 1] \notin {NUL, Junk} BY <1>1, <2>2, TextAssumption
  <2>6. F[2 * i] = SubSeq(e, 1, i) BY <2>2
  <2>7. F[2 * i + 1] = Put(F[2 * i], e[i + 1]) BY <1>6, <2>3, <2>4, <2>5
  <2>8. F[2 * i + 1] = SubSeq(e, 1, i + 1) BY <2>2, <2>6, <2>7, PutNew
  <2>9. F[2 * i + 2] = F[2 * i + 1] BY <1>6, <2>3, <2>4
  <2>10. QED BY <2>3, <2>8, <2>9
<1>9. S = Nat
  <2> HIDE DEF S
  <2>1. S \in SUBSET Nat BY DEF S
  <2>2. QED BY <1>7, <1>8, <2>1, NatInd
<1>10. F[2 * Len(e)] = SubSeq(e, 1, Len(e)) BY <1>1, <1>9
<1>11. SubSeq(e, 1, Len(e)) = e BY <1>1
<1>12. QED BY <1>2, <1>5, <1>10, <1>11 DEF F, PutAll, parse_env

\* A block that serialize_env makes is one that verify_block accepts.
LEMMA SerializedOk ==
  ASSUME NEW e, DictOk(e), Serializable(e)
  PROVE  LET f == serialize_env(e) IN f.data \in GoodData /\ verify_block(f) /\ parse_env(f.data) = e
<1>1. PICK f : f = serialize_env(e) OBVIOUS
<1>2. PICK d : d = f.data OBVIOUS
<1>3. /\ Layout(e, d) /\ Len(e) \in Nat
      /\ d = [n \in 1 .. ENV_DATA_SIZE |-> IF n <= Len(Payload(e)) THEN Payload(e)[n] ELSE NUL]
  BY <1>1, <1>2, LayoutIs
<1>4. ENV_DATA_SIZE \in Nat BY SizeAssumption
<1>5. \A n \in 1 .. Len(e) : e[n] \in Text BY DEF DictOk
<1>6. ASSUME NEW n \in 1 .. ENV_DATA_SIZE
      PROVE  \/ d[n] = NUL
             \/ \E i \in 0 .. Len(e) - 1 : n = 2 * i + 1 /\ d[n] = e[i + 1] /\ i + 1 \in 1 .. Len(e)
  <2>1. PICK i \in Nat : n - 1 = 2 * i \/ n - 1 = 2 * i + 1
    <3>1. n - 1 \in Nat OBVIOUS
    <3>2. QED BY <3>1, EvenOrOdd
  <2>2. CASE i < Len(e)
    <3>1. i \in 0 .. Len(e) - 1 /\ i + 1 \in 1 .. Len(e) BY <1>3, <2>2
    <3>2. d[2 * i + 1] = e[i + 1] /\ d[2 * i + 2] = NUL BY <1>3, <3>1 DEF Layout
    <3>3. n = 2 * i + 1 \/ n = 2 * i + 2 BY <2>1
    <3>4. QED BY <3>1, <3>2, <3>3
  <2>3. CASE ~(i < Len(e))
    <3>1. n \in 2 * Len(e) + 1 .. ENV_DATA_SIZE BY <1>3, <1>4, <2>1, <2>3
    <3>2. QED BY <1>3, <3>1 DEF Layout
  <2>4. QED BY <2>2, <2>3
<1>7. d \in [1 .. ENV_DATA_SIZE -> Cell]
  <2>1. DOMAIN d = 1 .. ENV_DATA_SIZE /\ d = [n \in 1 .. ENV_DATA_SIZE |-> d[n]] BY <1>3
  <2>2. \A n \in 1 .. ENV_DATA_SIZE : d[n] \in Cell BY <1>5, <1>6 DEF Cell
  <2>3. QED BY <2>1, <2>2
<1>8. d \in GoodData
  <2>1. ASSUME NEW n \in 2 .. ENV_DATA_SIZE PROVE NUL \in {d[n - 1], d[n]}
    <3>1. n \in 1 .. ENV_DATA_SIZE /\ n - 1 \in 1 .. ENV_DATA_SIZE BY <1>4
    <3>2. SUFFICES ASSUME d[n] # NUL, d[n - 1] # NUL PROVE FALSE OBVIOUS
    <3>3. PICK i \in 0 .. Len(e) - 1 : n = 2 * i + 1 BY <1>6, <3>1, <3>2
    <3>4. PICK j \in 0 .. Len(e) - 1 : n - 1 = 2 * j + 1 BY <1>6, <3>1, <3>2
    <3>5. QED BY <1>3, <3>3, <3>4
  <2>2. QED BY <1>7, <2>1 DEF GoodData
<1>9. parse_env(d) = e BY <1>3, <1>8, RoundTrip
<1>10. verify_block(f)
  <2>1. Len(d) = ENV_DATA_SIZE /\ Stop(d) \in 1 .. ENV_DATA_SIZE + 1 BY <1>8, CellsOk
  <2>2. f.crc BY <1>1 DEF serialize_env
  <2>3. ASSUME NEW n \in 1 .. Stop(d) - 1, d[n] # NUL PROVE d[n] # Junk /\ d[n].v \notin NonAscii
    <3>1. n \in 1 .. ENV_DATA_SIZE BY <1>4, <2>1
    <3>2. PICK m \in 1 .. Len(e) : d[n] = e[m] BY <1>6, <2>3, <3>1
    <3>3. m \in DOMAIN e BY DEF DictOk
    <3>4. QED BY <1>5, <3>2, <3>3, TextAssumption DEF Serializable
  <2>4. f # NoFile
    <3>1. f = [crc |-> TRUE, data |-> d] BY <1>1, <1>2 DEF serialize_env
    <3>2. d \in Seq(Cell) BY <1>8, CellsOk
    <3>3. f \in [crc : BOOLEAN, data : Seq(Cell)] BY <3>1, <3>2
    <3>4. QED BY <3>3, NoFileAssumption
  <2>5. QED BY <1>2, <2>1, <2>2, <2>3, <2>4 DEF verify_block, Whole
<1>11. QED BY <1>1, <1>2, <1>8, <1>9, <1>10

\* Every entry takes a cell and the NUL behind it.
LEMMA ParseShort ==
  ASSUME NEW d \in GoodData, Stop(d) <= ENV_DATA_SIZE
  PROVE  2 * Len(parse_env(d)) + 1 <= ENV_DATA_SIZE
<1>1. PICK ts : ts = Cells(d) OBVIOUS
<1>2. PICK s \in Nat : s = Stop(d) - 1 /\ s + 1 <= ENV_DATA_SIZE /\ s + 1 = Stop(d) BY CellsOk, SizeAssumption
<1>3. ts \in Seq(Cell) /\ Len(ts) = s /\ \A n \in 1 .. s : ts[n] = d[n] BY <1>1, <1>2, CellsOk
<1> DEFINE F == Filled(<<>>, ts)
           Fits(n) == DictOk(F[n]) /\ 2 * Len(F[n]) <= n + 1 /\ (n = 0 \/ d[n] = NUL => 2 * Len(F[n]) <= n)
           S == {n \in Nat : n <= s => Fits(n)}
<1>4. /\ F[0] = <<>>
      /\ \A n \in 1 .. s : F[n] = IF ts[n] \in {NUL, Junk} THEN F[n - 1] ELSE Put(F[n - 1], ts[n])
  BY <1>3, FilledStep
<1> HIDE DEF F
<1>5. 0 \in S
  <2>1. DictOk(<<>>) /\ Len(<<>>) = 0 BY DEF DictOk
  <2>2. QED BY <1>4, <2>1
<1>6. ASSUME NEW n \in S PROVE n + 1 \in S
  <2>1. SUFFICES ASSUME n + 1 <= s PROVE Fits(n + 1) OBVIOUS
  <2>2. n \in Nat /\ n + 1 \in 1 .. s /\ n <= s /\ (n + 1) - 1 = n BY <1>2, <2>1
  <2>3. PICK f, g : f = F[n] /\ g = F[n + 1] OBVIOUS
  <2>4. DictOk(f) /\ 2 * Len(f) <= n + 1 /\ (n = 0 \/ d[n] = NUL => 2 * Len(f) <= n) /\ Len(f) \in Nat
    BY <2>2, <2>3 DEF DictOk
  <2>5. g = IF ts[n + 1] \in {NUL, Junk} THEN f ELSE Put(f, ts[n + 1]) BY <1>4, <2>2, <2>3
  <2>6. ts[n + 1] = d[n + 1] /\ d[n + 1] \in Cell BY <1>3, <2>2
  <2>7. CASE d[n + 1] = NUL
    <3>1. g = f BY <2>5, <2>6, <2>7
    <3>2. QED BY <2>2, <2>3, <2>4, <3>1
  <2>8. CASE d[n + 1] # NUL
    <3>1. 2 * Len(f) <= n
      <4>1. CASE n = 0 BY <2>4, <4>1
      <4>2. CASE n # 0
        <5>1. n + 1 \in 2 .. ENV_DATA_SIZE BY <1>2, <2>2, <4>2, SizeAssumption
        <5>2. NUL \in {d[(n + 1) - 1], d[n + 1]} BY <5>1 DEF GoodData
        <5>3. QED BY <2>2, <2>4, <2>8, <5>2
      <4>3. QED BY <4>1, <4>2
    <3>2. DictOk(g) /\ Len(g) \in {Len(f), Len(f) + 1}
      <4>1. CASE ts[n + 1] \in {NUL, Junk} BY <2>4, <2>5, <4>1
      <4>2. CASE ts[n + 1] \notin {NUL, Junk}
        <5>1. ts[n + 1] \in Text /\ g = Put(f, ts[n + 1]) BY <2>5, <2>6, <4>2 DEF Cell
        <5>2. QED BY <2>4, <5>1, PutCases DEF Replaced, Appended
      <4>3. QED BY <4>1, <4>2
    <3>3. 2 * Len(g) <= n + 2 BY <2>2, <2>4, <3>1, <3>2
    <3>4. (n + 1) + 1 = n + 2 /\ n + 1 # 0 BY <2>2
    <3>5. QED BY <2>3, <2>8, <3>2, <3>3, <3>4
  <2>9. QED BY <2>7, <2>8
<1>7. S = Nat
  <2> HIDE DEF S
  <2>1. S \in SUBSET Nat BY DEF S
  <2>2. QED BY <1>5, <1>6, <2>1, NatInd
<1>8. Fits(s) BY <1>2, <1>7
<1>9. s = 0 \/ d[s] = NUL
  <2>1. Stop(d) \in Stops(d) /\ Len(d) = ENV_DATA_SIZE BY CellsOk, StopIs, SizeAssumption
  <2>2. Stop(d) # Len(d) + 1 BY <1>2, <2>1, SizeAssumption
  <2>3. Stop(d) = 1 \/ d[Stop(d) - 1] = NUL BY <2>1, <2>2 DEF Stops
  <2>4. QED BY <1>2, <2>3
<1>10. PICK l \in Nat : l = Len(F[s]) /\ 2 * l <= s BY <1>8, <1>9 DEF DictOk
<1>11. parse_env(d) = F[s] BY <1>1, <1>3 DEF parse_env, PutAll, F
<1>12. 2 * l + 1 <= ENV_DATA_SIZE BY <1>2, <1>10, SizeAssumption
<1>13. QED BY <1>10, <1>11, <1>12

LEMMA DeleteFits ==
  ASSUME NEW d \in GoodData, Stop(d) <= ENV_DATA_SIZE, NEW T, NEW e, e = Delete(parse_env(d), T),
         ~Serializable(e)
  PROVE  \E n \in DOMAIN e : e[n].v \in NonAscii
<1>1. DictOk(parse_env(d)) BY ParseOk
<1>2. DictOk(e) /\ Len(e) <= Len(parse_env(d)) BY <1>1, DeleteKeeps DEF SameOutside
<1>3. PICK l, m \in Nat : l = Len(e) /\ m = Len(parse_env(d)) BY <1>1, <1>2 DEF DictOk
<1>4. 2 * l + 1 <= ENV_DATA_SIZE BY <1>2, <1>3, ParseShort, SizeAssumption
<1>5. Len(Payload(e)) <= ENV_DATA_SIZE
  <2>1. Len(Payload(e)) = (IF e = <<>> THEN 2 ELSE 2 * l + 1) BY <1>2, <1>3, PayloadIs
  <2>2. CASE e = <<>> BY <2>1, <2>2, SizeAssumption
  <2>3. CASE e # <<>> BY <1>4, <2>1, <2>3
  <2>4. QED BY <2>2, <2>3
<1>6. QED BY <1>5 DEF Serializable

-----------------------------------------------------------------------------
(* The editor. Whatever the step, the entries are those of the whole block  *)
(* the command began with, edited once the edit is done; and a file is only *)
(* touched once its new content is complete in memory.                      *)

Blocks == [crc : BOOLEAN, data : GoodData \cup {<<>>}]
Ops == {"read", "show", "verify", "modify", "delete", "preset"}
CmdOk(c) ==
  /\ c.op \in Ops
  /\ c.op # "read" => c.src \in Path
  /\ c.op \notin {"show", "verify"} => c.dst \in Path
  /\ c.op = "modify" => c.args \in Modifies

Base == IF Input = NoFile THEN <<>> ELSE parse_env(Input.data)
FromWhole == Whole(Input) \/ (cmd.op = "preset" /\ Input = NoFile)
Requested ==
  /\ cmd.op = "modify" => entries = PutAll(Base, cmd.args) /\ Junk \notin ToSet(cmd.args)
  /\ cmd.op = "delete" => entries = Delete(Base, cmd.args)
  /\ cmd.op = "preset" => entries = preset_symmetric(Base)
Warns == Input # NoFile /\ (~Input.crc \/ \E n \in 1 .. Stop(Input.data) - 1 : Input.data[n] = Junk) => warned

Types ==
  /\ panel \in Blocks /\ block \in Blocks
  /\ files \in [Path -> Blocks \cup {NoFile}]
  /\ before \in [Path -> Blocks \cup {NoFile}]
  /\ pc \in {"idle", "load", "edit", "save", "write", "done"}
  /\ pc # "idle" => CmdOk(cmd)
  /\ DictOk(entries)

Progress ==
  /\ pc = "load" => files = before
  /\ pc = "edit" => IsEdit(cmd) /\ files = before /\ FromWhole /\ entries = Base /\ Warns
  /\ pc \in {"save", "write"} => IsEdit(cmd) \/ cmd.op = "read"
  /\ pc = "save" /\ IsEdit(cmd) => files = before /\ FromWhole /\ Requested /\ Warns
  /\ pc = "write" /\ IsEdit(cmd) =>
       FromWhole /\ Requested /\ Warns /\ block = serialize_env(entries) /\ Serializable(entries)
  /\ Saved =>
       FromWhole /\ Requested /\ Warns /\ files[cmd.dst] = serialize_env(entries) /\ Serializable(entries)
  /\ pc = "done" /\ exit = "refused" /\ IsEdit(cmd) =>
       /\ files = before
       /\ cmd.op = "delete" /\ Whole(Input) => Requested /\ ~Serializable(entries)
  /\ pc \notin {"idle", "done"} => exit = "nothing"

EnvInv == Types /\ Progress

LEMMA ShortOk == Short \in Blocks
BY DEF Short, Blocks

LEMMA WholeIs ==
  ASSUME NEW f \in Blocks \cup {NoFile}, Whole(f) PROVE f \in Blocks /\ f.data \in GoodData
<1>1. f \in Blocks BY DEF Whole
<1>2. f.data \in GoodData \cup {<<>>} BY <1>1 DEF Blocks
<1>3. f.data # <<>> BY SizeAssumption DEF Whole
<1>4. QED BY <1>1, <1>2, <1>3

LEMMA BaseOk ==
  ASSUME Types, pc # "idle", cmd.op # "read", FromWhole
  PROVE  DictOk(Base) /\ (Input # NoFile => Whole(Input) /\ Input.data \in GoodData)
<1>1. Input \in Blocks \cup {NoFile} BY DEF Types, CmdOk, Input
<1>2. CASE Whole(Input)
  <2>1. Input.data \in GoodData /\ Input # NoFile BY <1>1, <1>2, WholeIs DEF Whole
  <2>2. DictOk(parse_env(Input.data)) BY <2>1, ParseOk
  <2>3. QED BY <1>2, <2>1, <2>2 DEF Base
<1>3. CASE Input = NoFile BY <1>3 DEF Base, DictOk
<1>4. QED BY <1>2, <1>3 DEF FromWhole

\* What each edit does to the dict it was given.
LEMMA EditKeeps ==
  ASSUME Types, pc # "idle", IsEdit(cmd), FromWhole, NEW e,
         /\ cmd.op = "modify" => e = PutAll(Base, cmd.args) /\ Junk \notin ToSet(cmd.args)
         /\ cmd.op = "delete" => e = Delete(Base, cmd.args)
         /\ cmd.op = "preset" => e = preset_symmetric(Base)
  PROVE  SameOutside(Base, e, Touched)
<1>1. cmd.op \in {"modify", "delete", "preset"} BY DEF IsEdit
<1>2. DictOk(Base) BY <1>1, BaseOk
<1>3. CASE cmd.op = "modify"
  <2>1. PICK ts : ts = cmd.args OBVIOUS
  <2>2. ts \in Seq(Text \cup {Junk}) BY <1>3, <2>1, ModifiesAssumption DEF Types, CmdOk
  <2>3. ts \in Seq(Cell) BY <2>2 DEF Cell
  <2>4. Touched = {ts[n].k : n \in DOMAIN ts} BY <1>3, <2>1 DEF Touched
  <2>5. \A n \in 1 .. Len(ts) : ts[n].k \in Touched BY <2>3, <2>4
  <2>6. QED BY <1>2, <1>3, <2>1, <2>3, <2>5, PutAllKeeps
<1>4. CASE cmd.op = "delete"
  <2>1. Touched = cmd.args BY <1>4 DEF Touched
  <2>2. QED BY <1>2, <1>4, <2>1, DeleteKeeps
<1>5. CASE cmd.op = "preset"
  <2>1. Touched = {Presets[n].k : n \in DOMAIN Presets} \cup {"slot"} BY <1>5 DEF Touched
  <2>2. {Presets[n].k : n \in DOMAIN Presets} = PresetKeys
    <3>1. DOMAIN Presets = 1 .. 3 BY PresetsOk
    <3>2. QED BY <3>1, PresetsOk DEF PresetKeys
  <2>3. QED BY <1>2, <1>5, <2>1, <2>2, PresetMakes DEF PresetOk
<1>6. QED BY <1>1, <1>3, <1>4, <1>5

LEMMA InitOk == Init => EnvInv
<1>1. SUFFICES ASSUME Init PROVE EnvInv OBVIOUS
<1>2. panel \in Blocks
  <2>1. Payloads \subseteq GoodData BY PayloadsAssumption DEF GoodData
  <2>2. QED BY <1>1, <2>1 DEF Init, Blocks
<1>3. files \in [Path -> Blocks \cup {NoFile}] BY <1>1, <1>2 DEF Init
<1>4. DictOk(entries) /\ block \in Blocks BY <1>1, ShortOk DEF Init, DictOk
<1>5. Types BY <1>1, <1>2, <1>3, <1>4 DEF Init, Types
<1>6. Progress BY <1>1 DEF Init, Progress, Saved
<1>7. QED BY <1>5, <1>6 DEF EnvInv

\* What depends only on the command, its input and the entries.
LEMMA SameInput ==
  ASSUME UNCHANGED <<cmd, before>>
  PROVE  /\ Input' = Input /\ Base' = Base /\ (FromWhole' <=> FromWhole) /\ (IsEdit(cmd)' <=> IsEdit(cmd))
         /\ entries' = entries => (Requested' <=> Requested)
         /\ warned' = warned => (Warns' <=> Warns)
<1>1. Input' = Input BY DEF Input
<1>2. Base' = Base BY <1>1 DEF Base
<1>3. QED BY <1>1, <1>2 DEF FromWhole, Requested, Warns, IsEdit

LEMMA InvokeOk == ASSUME EnvInv, Invoke PROVE EnvInv'
<1>1. PICK c \in Commands : cmd' = c /\ pc' = IF c.op = "read" THEN "save" ELSE "load" BY DEF Invoke
<1>2. CmdOk(c)
  <2>1. CASE c \in [op : {"read"}, dst : Path] BY <2>1 DEF CmdOk, Ops
  <2>2. CASE c \in [op : {"show", "verify"}, src : Path] BY <2>2 DEF CmdOk, Ops
  <2>3. CASE c \in [op : {"modify"}, src : Path, dst : Path, args : Modifies] BY <2>3 DEF CmdOk, Ops
  <2>4. CASE c \in [op : {"delete"}, src : Path, dst : Path, args : Deletes] BY <2>4 DEF CmdOk, Ops
  <2>5. CASE c \in [op : {"preset"}, src : Path, dst : Path] BY <2>5 DEF CmdOk, Ops
  <2>6. QED BY <2>1, <2>2, <2>3, <2>4, <2>5 DEF Commands
<1>3. pc' \in {"save", "load"} /\ CmdOk(cmd') BY <1>1, <1>2
<1>4. DictOk(entries') /\ block' \in Blocks BY ShortOk DEF Invoke, DictOk
<1>5. Types' BY <1>3, <1>4 DEF EnvInv, Types, Invoke
<1>6. (pc = "save")' => ~IsEdit(cmd)' /\ (cmd.op = "read")' BY <1>1 DEF IsEdit
<1>7. Progress' BY <1>3, <1>6 DEF Invoke, Progress, Saved
<1>8. QED BY <1>5, <1>7 DEF EnvInv

LEMMA InspectOk == ASSUME EnvInv, Inspect PROVE EnvInv'
<1>1. ~IsEdit(cmd) /\ ~IsEdit(cmd)' /\ pc' = "done" BY DEF Inspect, IsEdit, End
<1>2. Types' BY DEF EnvInv, Types, Inspect, End
<1>3. Progress' BY <1>1 DEF Inspect, Progress, Saved
<1>4. QED BY <1>2, <1>3 DEF EnvInv

LEMMA LoadOk == ASSUME EnvInv, Load PROVE EnvInv'
<1>1. UNCHANGED <<panel, files, cmd, block, before, runs>> /\ pc = "load" /\ IsEdit(cmd) BY DEF Load
<1>2. Types /\ Progress /\ cmd.op # "read" /\ files = before BY <1>1 DEF EnvInv, Progress, IsEdit
<1>3. PICK f : f = files[cmd.src] OBVIOUS
<1>4. Input = f /\ Input' = f /\ IsEdit(cmd)' BY <1>1, <1>2, <1>3 DEF Input, IsEdit
<1>5. f \in Blocks \cup {NoFile} BY <1>1, <1>2, <1>3 DEF Types, CmdOk
<1>6. CASE Whole(f) /\ entries' = parse_env(f.data) /\ pc' = "edit" /\ exit' = exit
           /\ warned' = (~f.crc \/ \E n \in 1 .. Stop(f.data) - 1 : f.data[n] = Junk)
  <2>1. FromWhole' /\ (entries = Base)' BY <1>4, <1>6 DEF FromWhole, Base, Whole
  <2>2. Warns' BY <1>4, <1>6, Zenon DEF Warns
  <2>3. DictOk(entries') BY <1>5, <1>6, WholeIs, ParseOk
  <2>4. Types' BY <1>1, <1>2, <1>6, <2>3 DEF Types
  <2>5. Progress' BY <1>1, <1>2, <1>4, <1>6, <2>1, <2>2 DEF Progress, Saved
  <2>6. QED BY <2>4, <2>5 DEF EnvInv
<1>7. CASE f = NoFile /\ cmd.op = "preset" /\ entries' = <<>> /\ pc' = "edit" /\ exit' = exit /\ warned' = warned
  <2>1. FromWhole' /\ (entries = Base)' /\ Warns' BY <1>1, <1>4, <1>7 DEF FromWhole, Base, Warns
  <2>2. DictOk(entries') BY <1>7 DEF DictOk
  <2>3. Types' BY <1>1, <1>2, <1>7, <2>2 DEF Types
  <2>4. Progress' BY <1>1, <1>2, <1>4, <1>7, <2>1 DEF Progress, Saved
  <2>5. QED BY <2>3, <2>4 DEF EnvInv
<1>8. CASE ~Whole(f) /\ End("refused") /\ entries' = entries
  <2>1. pc' = "done" /\ exit' = "refused" /\ ~Whole(Input)' BY <1>4, <1>8 DEF End
  <2>2. Types' BY <1>1, <1>2, <1>8, <2>1 DEF Types
  <2>3. Progress' BY <1>1, <1>2, <2>1 DEF Progress, Saved
  <2>4. QED BY <2>2, <2>3 DEF EnvInv
<1>9. QED BY <1>3, <1>6, <1>7, <1>8 DEF Load

LEMMA EditOk == ASSUME EnvInv, Edit PROVE EnvInv'
<1>1. UNCHANGED <<panel, files, cmd, block, warned, before, runs>> /\ pc = "edit" BY DEF Edit
<1>2. Types /\ Progress /\ IsEdit(cmd) /\ files = before /\ FromWhole /\ entries = Base /\ Warns
  BY <1>1 DEF EnvInv, Progress
<1>3. Base' = Base /\ FromWhole' /\ Warns' /\ IsEdit(cmd)' BY <1>1, <1>2, SameInput
<1>4. CASE cmd.op = "modify" /\ Junk \in ToSet(cmd.args)
  <2>1. pc' = "done" /\ exit' = "refused" /\ entries' = entries BY <1>4 DEF Edit, End
  <2>2. Types' BY <1>1, <1>2, <2>1 DEF Types
  <2>3. Progress' BY <1>1, <1>2, <1>4, <2>1 DEF Progress, Saved
  <2>4. QED BY <2>2, <2>3 DEF EnvInv
<1>5. CASE ~(cmd.op = "modify" /\ Junk \in ToSet(cmd.args))
  <2>1. PICK e : e = entries' OBVIOUS
  <2>2. /\ cmd.op = "modify" => e = PutAll(Base, cmd.args) /\ Junk \notin ToSet(cmd.args)
        /\ cmd.op = "delete" => e = Delete(Base, cmd.args)
        /\ cmd.op = "preset" => e = preset_symmetric(Base)
    BY <1>2, <1>5, <2>1 DEF Edit
  <2>3. SameOutside(Base, e, Touched) BY <1>1, <1>2, <2>2, EditKeeps
  <2>4. pc' = "save" /\ exit' = exit BY <1>5 DEF Edit
  <2>5. Requested' BY <1>1, <1>3, <2>1, <2>2 DEF Requested
  <2>6. Types' BY <1>1, <1>2, <2>1, <2>3, <2>4 DEF Types, SameOutside
  <2>7. Progress' BY <1>1, <1>2, <1>3, <2>4, <2>5 DEF Progress, Saved
  <2>8. QED BY <2>6, <2>7 DEF EnvInv
<1>6. QED BY <1>4, <1>5

LEMMA SaveOk == ASSUME EnvInv, Save PROVE EnvInv'
<1>1. UNCHANGED <<panel, cmd, entries, warned, before, runs>> /\ pc = "save" /\ IsEdit(cmd) BY DEF Save
<1>2. Types /\ Progress /\ files = before /\ FromWhole /\ Requested /\ Warns /\ cmd.dst \in Path /\ exit = "nothing"
  BY <1>1 DEF EnvInv, Types, Progress, IsEdit, CmdOk
<1>3. FromWhole' /\ Requested' /\ Warns' /\ IsEdit(cmd)' /\ Input' = Input BY <1>1, <1>2, SameInput
<1>4. CASE Serializable(entries)
  <2>1. /\ block' = serialize_env(entries) /\ files' = [files EXCEPT ![cmd.dst] = Short]
        /\ pc' = "write" /\ exit' = exit
    BY <1>4 DEF Save
  <2>2. serialize_env(entries) \in Blocks
    <3>1. serialize_env(entries).data \in GoodData BY <1>2, <1>4, SerializedOk DEF Types
    <3>2. PICK d : serialize_env(entries) = [crc |-> TRUE, data |-> d] BY DEF serialize_env
    <3>3. QED BY <3>1, <3>2 DEF Blocks
  <2>3. files' \in [Path -> Blocks \cup {NoFile}] BY <1>2, <2>1, ShortOk DEF Types
  <2>4. Types' BY <1>1, <1>2, <2>1, <2>2, <2>3 DEF Types
  <2>5. block' = serialize_env(entries') /\ Serializable(entries') BY <1>1, <1>4, <2>1
  <2>6. Progress' BY <1>2, <1>3, <2>1, <2>5 DEF Progress, Saved
  <2>7. QED BY <2>4, <2>6 DEF EnvInv
<1>5. CASE ~Serializable(entries)
  <2>1. pc' = "done" /\ exit' = "refused" /\ block' = block /\ files' = files BY <1>5 DEF Save, End
  <2>2. Types' BY <1>1, <1>2, <2>1 DEF Types
  <2>3. ~Serializable(entries') BY <1>1, <1>5
  <2>4. Progress' BY <1>1, <1>2, <1>3, <2>1, <2>3 DEF Progress, Saved
  <2>5. QED BY <2>2, <2>4 DEF EnvInv
<1>6. QED BY <1>4, <1>5

LEMMA ReadOpenOk == ASSUME EnvInv, ReadOpen PROVE EnvInv'
<1>1. ~IsEdit(cmd) /\ ~IsEdit(cmd)' /\ pc' = "write" /\ cmd' = cmd /\ cmd.op = "read" /\ exit' = exit
  BY DEF ReadOpen, IsEdit
<1>2. Types /\ Progress /\ cmd.dst \in Path /\ exit = "nothing" BY <1>1 DEF EnvInv, Types, Progress, CmdOk, ReadOpen
<1>3. files' \in [Path -> Blocks \cup {NoFile}] BY <1>2, ShortOk DEF ReadOpen, Types
<1>4. Types' BY <1>1, <1>2, <1>3 DEF Types, ReadOpen
<1>5. Progress' BY <1>1, <1>2 DEF Progress, Saved
<1>6. QED BY <1>4, <1>5 DEF EnvInv

LEMMA WriteOk == ASSUME EnvInv, Write PROVE EnvInv'
<1>1. UNCHANGED <<panel, cmd, entries, block, warned, before, runs>> /\ pc = "write" /\ pc' = "done"
  BY DEF Write, End
<1>2. Types /\ Progress /\ cmd.dst \in Path BY <1>1 DEF EnvInv, Types, Progress, IsEdit, CmdOk
<1>3. files' = [files EXCEPT ![cmd.dst] = block] BY DEF Write
<1>4. files' \in [Path -> Blocks \cup {NoFile}] /\ files'[cmd.dst] = block BY <1>2, <1>3 DEF Types
<1>5. Types' BY <1>1, <1>2, <1>4 DEF Types
<1>6. CASE IsEdit(cmd)
  <2>1. exit' = "ok" BY <1>6 DEF Write, End, IsEdit
  <2>2. FromWhole' /\ Requested' /\ Warns' BY <1>1, <1>2, <1>6, SameInput DEF Progress
  <2>3. files'[cmd'.dst] = serialize_env(entries') /\ Serializable(entries') BY <1>1, <1>2, <1>4, <1>6 DEF Progress
  <2>4. Progress' BY <1>1, <2>1, <2>2, <2>3 DEF Progress
  <2>5. QED BY <1>5, <2>4 DEF EnvInv
<1>7. CASE ~IsEdit(cmd)
  <2>1. ~IsEdit(cmd)' BY <1>1, <1>7, SameInput
  <2>2. Progress' BY <1>1, <2>1 DEF Progress, Saved
  <2>3. QED BY <1>5, <2>2 DEF EnvInv
<1>8. QED BY <1>6, <1>7

\* The steps that only end a command: failed reads and writes, and kills.
LEMMA EndOk ==
  ASSUME EnvInv, NEW e \in {"refused", "ioerror", "killed"}, pc # "idle", End(e), e = "refused" => ~IsEdit(cmd),
         UNCHANGED <<panel, files, cmd, entries, block, warned, before, runs>>
  PROVE  EnvInv'
<1>1. pc' = "done" /\ exit' = e /\ (IsEdit(cmd)' <=> IsEdit(cmd)) BY SameInput DEF End
<1>2. Types' BY <1>1 DEF EnvInv, Types
<1>3. Progress' BY <1>1 DEF Progress, Saved
<1>4. QED BY <1>2, <1>3 DEF EnvInv

\* The editor's invariant holds for every number of commands, files and texts.
THEOREM EnvInvariance == Spec => []EnvInv
<1>1. EnvInv /\ [Next]_vars => EnvInv'
  <2> SUFFICES ASSUME EnvInv, [Next]_vars PROVE EnvInv' OBVIOUS
  <2>1. CASE Invoke BY <2>1, InvokeOk
  <2>2. CASE Inspect BY <2>2, InspectOk
  <2>3. CASE Load BY <2>3, LoadOk
  <2>4. CASE Edit BY <2>4, EditOk
  <2>5. CASE Save BY <2>5, SaveOk
  <2>6. CASE ReadFail
    <3>1. ~IsEdit(cmd) /\ pc # "idle" BY <2>6 DEF ReadFail, IsEdit
    <3>2. QED BY <2>6, <3>1, EndOk DEF ReadFail
  <2>7. CASE ReadOpen BY <2>7, ReadOpenOk
  <2>8. CASE Write BY <2>8, WriteOk
  <2>9. CASE WriteError BY <2>9, EndOk DEF WriteError
  <2>10. CASE Kill BY <2>10, EndOk DEF Kill
  <2>11. CASE UNCHANGED vars
    <3>1. UNCHANGED <<cmd, before>> /\ warned' = warned /\ entries' = entries BY <2>11 DEF vars
    <3>2. Types' BY <2>11 DEF vars, EnvInv, Types
    <3>3. Progress' BY <2>11, <3>1, SameInput DEF vars, EnvInv, Progress, Saved
    <3>4. QED BY <3>2, <3>3 DEF EnvInv
  <2>12. QED BY <2>1, <2>2, <2>3, <2>4, <2>5, <2>6, <2>7, <2>8, <2>9, <2>10, <2>11 DEF Next, Done
<1>2. QED BY <1>1, InitOk, PTL DEF Spec

-----------------------------------------------------------------------------
(* What the editor promises. *)

LEMMA SavedIs ==
  ASSUME EnvInv, Saved
  PROVE  /\ Types /\ pc # "idle" /\ IsEdit(cmd) /\ cmd.op # "read" /\ FromWhole /\ Requested /\ Warns
         /\ files[cmd.dst] = serialize_env(entries) /\ Serializable(entries) /\ DictOk(entries)
BY DEF EnvInv, Progress, Types, Saved, IsEdit

\* A refused edit has touched no file (uboot_env_edit.py 212-213).
THEOREM RefusalCorrect == Spec => []RefusalHarmless
<1>1. EnvInv => RefusalHarmless BY DEF EnvInv, Progress, RefusalHarmless
<1>2. QED BY <1>1, EnvInvariance, PTL

\* What is saved comes from a whole block, whatever was killed or failed before,
\* or from nothing where preset says so (uboot_env_edit.py 104-105, 256-260).
THEOREM WholeCorrect == Spec => []SavedFromWhole
<1>1. EnvInv => SavedFromWhole BY SavedIs DEF SavedFromWhole, FromWhole
<1>2. QED BY <1>1, EnvInvariance, PTL

\* A saved file verifies and reads back as the entries that were to be saved,
\* for every environment that fits (uboot_env_edit.py 103-160).
THEOREM SavedCorrect == Spec => []SavedIsRequested
<1>1. EnvInv => SavedIsRequested
  <2>1. SUFFICES ASSUME EnvInv, Saved
                 PROVE  verify_block(files[cmd.dst]) /\ parse_env(files[cmd.dst].data) = entries
    BY DEF SavedIsRequested
  <2>2. QED BY <2>1, SavedIs, SerializedOk
<1>2. QED BY <1>1, EnvInvariance, PTL

\* preset-symmetric leaves a block that verify accepts, keeps a chosen slot and
\* changes nothing when run again (uboot_env_edit.py 251-269).
THEOREM PresetCorrect == Spec => []PresetReady
<1>1. EnvInv => PresetReady
  <2>1. SUFFICES ASSUME EnvInv, Saved, cmd.op = "preset"
                 PROVE  LET f == files[cmd.dst] IN
                          /\ Verified(f)
                          /\ serialize_env(preset_symmetric(parse_env(f.data))) = f
                          /\ Input # NoFile =>
                               \A t \in ToSet(parse_env(Input.data)) :
                                 t.k = "slot" => t \in ToSet(parse_env(f.data))
    BY DEF PresetReady
  <2>2. PICK f : f = files[cmd.dst] OBVIOUS
  <2>3. PICK e : e = entries OBVIOUS
  <2>4. f = serialize_env(e) /\ Serializable(e) /\ DictOk(e) /\ e = preset_symmetric(Base)
    BY <2>1, <2>2, <2>3, SavedIs DEF Requested
  <2>5. verify_block(f) /\ parse_env(f.data) = e BY <2>4, SerializedOk
  <2>6. DictOk(Base) BY <2>1, SavedIs, BaseOk
  <2>7. PresetOk(Base, e) BY <2>4, <2>6, PresetMakes
  <2>8. DOMAIN e = 1 .. Len(e) BY <2>4 DEF DictOk
  <2>9. Verified(f)
    <3>1. PICK i \in DOMAIN e : e[i] = Presets[1] BY <2>7, <2>8 DEF PresetOk
    <3>2. PICK j \in DOMAIN e : e[j] = Presets[2] BY <2>7, <2>8 DEF PresetOk
    <3>3. e[i].k = "slotaboot" /\ e[j].k = "slotbboot" BY <3>1, <3>2, PresetsOk
    <3>4. QED BY <2>5, <3>3 DEF Verified
  <2>10. serialize_env(preset_symmetric(parse_env(f.data))) = f BY <2>4, <2>5, <2>7, PresetAgain
  <2>11. ASSUME Input # NoFile, NEW t \in ToSet(parse_env(Input.data)), t.k = "slot"
         PROVE  t \in ToSet(parse_env(f.data))
    <3>1. Base = parse_env(Input.data) BY <2>11 DEF Base
    <3>2. DOMAIN Base = 1 .. Len(Base) BY <2>6 DEF DictOk
    <3>3. PICK j \in 1 .. Len(Base) : Base[j] = t BY <3>1, <3>2 DEF ToSet
    <3>4. PICK i \in 1 .. Len(e) : e[i] = t BY <2>7, <2>11, <3>3 DEF PresetOk
    <3>5. QED BY <2>5, <2>8, <3>4 DEF ToSet
  <2>12. QED BY <2>2, <2>9, <2>10, <2>11
<1>2. QED BY <1>1, EnvInvariance, PTL

\* delete never fails for lack of room (uboot_env_edit.py 132-138).
THEOREM DeleteCorrect == Spec => []DeleteNeverTooLarge
<1>1. EnvInv => DeleteNeverTooLarge
  <2>1. SUFFICES ASSUME EnvInv, pc = "done", exit = "refused", cmd.op = "delete", Whole(Input),
                        ~(Stop(Input.data) > ENV_DATA_SIZE)
                 PROVE  \E n \in DOMAIN entries : entries[n].v \in NonAscii
    BY DEF DeleteNeverTooLarge
  <2>2. Types /\ Requested /\ ~Serializable(entries) BY <2>1 DEF EnvInv, Progress, IsEdit
  <2>3. Input # NoFile /\ Input.data \in GoodData BY <2>1, <2>2, BaseOk DEF FromWhole, Whole
  <2>4. entries = Delete(parse_env(Input.data), cmd.args) BY <2>1, <2>2, <2>3 DEF Requested, Base
  <2>5. Stop(Input.data) <= ENV_DATA_SIZE BY <2>1, <2>3, CellsOk, SizeAssumption
  <2>6. QED BY <2>2, <2>3, <2>4, <2>5, DeleteFits
<1>2. QED BY <1>1, EnvInvariance, PTL

\* An edit keeps every entry it was not asked to change, adds none, keeps their
\* order, and warned of what it dropped and of a wrong CRC of its input
\* (uboot_env_edit.py 107-127, 216-248).
THEOREM KeepsCorrect == Spec => []KeepsUntouched
<1>1. ASSUME EnvInv, Saved, Input # NoFile PROVE KeepsUntouched
  <2>1. PICK in, last : in = Input.data /\ last = Stop(in) - 1 OBVIOUS
  <2>2. PICK b, e : b = parse_env(in) /\ e = entries OBVIOUS
  <2>3. PICK ts : ts = Cells(in) OBVIOUS
  <2>4. Base = b BY <1>1, <2>1, <2>2 DEF Base
  <2>5. in \in GoodData BY <1>1, <2>1, SavedIs, BaseOk
  <2>6. SameOutside(b, e, Touched) BY <1>1, <2>2, <2>4, SavedIs, EditKeeps DEF Requested
  <2>7. FillOk(<<>>, ts, last, b) /\ DictOk(b) BY <2>1, <2>2, <2>3, <2>5, ParseOk
  <2>8. last \in Nat /\ \A n \in 1 .. last : ts[n] = in[n] /\ in[n] \in Cell
    BY <2>1, <2>3, <2>5, CellsOk, SizeAssumption
  <2>9. DOMAIN e = 1 .. Len(e) BY <2>6 DEF SameOutside, DictOk
  <2> DEFINE IsKey(n, key) == in[n] \notin {NUL, Junk} /\ in[n].k = key
  <2>10. \A n \in 1 .. last : \A key : IsKey(n, key) <=> KeyAt(ts, n, key)
    BY <2>8, TextAssumption DEF KeyAt, Cell
  <2>11. ASSUME NEW i \in 1 .. Len(b) PROVE Given(ts, last, b, i)
    <3>1. ~Kept(<<>>, ts, last, b, i) BY DEF Kept
    <3>2. QED BY <2>7, <3>1 DEF FillOk
  <2>12. ASSUME NEW n \in 1 .. last
         PROVE  \/ in[n] = NUL
                \/ in[n] = Junk /\ warned
                \/ in[n] # Junk /\ in[n].k \in Touched
                \/ in[n] # Junk /\ \E m \in n + 1 .. last : IsKey(m, in[n].k)
                \/ \E i \in DOMAIN e : e[i] = in[n]
    <3>1. CASE in[n] = NUL BY <3>1
    <3>2. CASE in[n] = Junk
      <4>1. warned BY <1>1, <2>1, <3>2, SavedIs, Zenon DEF Warns
      <4>2. QED BY <3>2, <4>1
    <3>3. CASE in[n] \notin {NUL, Junk}
      <4>1. in[n] \in Text /\ ts[n] = in[n] BY <2>8, <3>3 DEF Cell
      <4>2. PICK i \in 1 .. Len(b) : b[i].k = in[n].k BY <2>7, <4>1 DEF FillOk, Covered
      <4>3. PICK m \in 1 .. last : ts[m] \in Text /\ b[i] = ts[m] /\ \A q \in m + 1 .. last : ~KeyAt(ts, q, ts[m].k)
        BY <2>11 DEF Given
      <4>4. KeyAt(ts, n, ts[m].k) /\ KeyAt(ts, m, in[n].k) BY <4>1, <4>2, <4>3 DEF KeyAt
      <4>5. ~(n \in m + 1 .. last) BY <4>3, <4>4
      <4>6. CASE m \in n + 1 .. last BY <2>10, <3>3, <4>4, <4>6
      <4>7. CASE m = n
        <5>1. CASE in[n].k \in Touched BY <3>3, <5>1
        <5>2. CASE in[n].k \notin Touched
          <6>1. b[i] = in[n] /\ b[i].k \notin Touched BY <4>1, <4>3, <4>7, <5>2
          <6>2. \E l \in 1 .. Len(e) : e[l] = b[i] BY <2>6, <6>1 DEF SameOutside
          <6>3. QED BY <2>9, <6>1, <6>2
        <5>3. QED BY <5>1, <5>2
      <4>8. m = n \/ m \in n + 1 .. last BY <2>8, <4>5
      <4>9. QED BY <4>6, <4>7, <4>8
    <3>4. QED BY <3>1, <3>2, <3>3
  <2>13. ASSUME NEW i \in DOMAIN e, e[i].k \notin Touched PROVE \E n \in 1 .. last : in[n] = e[i]
    <3>1. PICK j \in 1 .. Len(b) : b[j] = e[i] BY <2>6, <2>9, <2>13 DEF SameOutside
    <3>2. PICK m \in 1 .. last : b[j] = ts[m] BY <2>11 DEF Given
    <3>3. QED BY <2>8, <3>1, <3>2
  <2>14. ASSUME NEW i \in DOMAIN e, NEW j \in DOMAIN e, i < j, e[i].k \notin Touched, e[j].k \notin Touched
         PROVE  \E m \in 1 .. last : /\ IsKey(m, e[i].k)
                                     /\ \A n \in 1 .. last : IsKey(n, e[j].k) => m < n
    <3>1. PICK j1, j2 \in 1 .. Len(b) : j1 < j2 /\ b[j1] = e[i] /\ b[j2] = e[j]
      <4>1. i \in 1 .. Len(e) /\ j \in 1 .. Len(e) BY <2>9
      <4>2. QED BY <2>6, <2>14, <4>1, Zenon DEF SameOutside
    <3>2. FirstSeen(ts, last, e[i].k, e[j].k)
      <4>1. j1 \in Len(<<>>) + 1 .. Len(b) /\ j2 \in Len(<<>>) + 1 .. Len(b) OBVIOUS
      <4>2. QED BY <2>7, <3>1, <4>1 DEF FillOk
    <3>3. QED BY <2>10, <3>2 DEF FirstSeen
  <2>15. Input.crc \/ warned BY <1>1, SavedIs, Zenon DEF Warns
  <2>16. QED BY <2>1, <2>2, <2>12, <2>13, <2>14, <2>15 DEF KeepsUntouched
<1>2. EnvInv => KeepsUntouched
  <2>1. CASE Saved /\ Input # NoFile BY <1>1, <2>1
  <2>2. CASE ~(Saved /\ Input # NoFile) BY <2>2 DEF KeepsUntouched
  <2>3. QED BY <2>1, <2>2
<1>3. QED BY <1>2, EnvInvariance, PTL
=============================================================================
