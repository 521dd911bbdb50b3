-------------------------- MODULE KernelTreeProofs --------------------------
(***************************************************************************)
(* For every set of series that apply to the pristine tree: in a git tree  *)
(* a build brings the tree to what its series makes of the pristine one,   *)
(* whatever earlier builds left, and a patch can only fail on a file that  *)
(* Delete does not know of.                                                *)
(*                                                                         *)
(* The invariant (GitInv) follows the files that a series can speak of:    *)
(* tracked files, files that Delete removes and files the patches applied  *)
(* so far have created are what the same patches make of the pristine      *)
(* tree. Nothing is said of other files; no patch of the series looks at   *)
(* one before it creates it, which is what SeriesAssumption gives.         *)
(***************************************************************************)
EXTENDS KernelTree, TLAPS, WellFoundedInduction

\* Files that the tree has right before patch i of series s.
Known(s, i) == Before(s, i) \cup UNION {Creates[s[j]] : j \in 1 .. Len(s)}

PathInv ==
  /\ kpc \in {"idle", "reset", "remove", "git", "plain", "made", "failed"}
  /\ kpc \in {"reset", "remove", "git"} => git
  /\ kpc = "plain" => ~git

SeriesInv ==
  /\ series \in AllSeries \cup {<<>>}
  /\ kpc \in {"reset", "remove", "git"} => series \in AllSeries
  /\ kpc \in {"reset", "remove"} => k = 1
  /\ k \in 1 .. Len(series) + 1

RemoveInv == kpc = "remove" => \A f \in Tracked : tree[f] = <<>>
GitInv == kpc = "git" => \A f \in TreeFiles : f \in Known(series, k) => tree[f] = Trees(series)[k - 1][f]

IInv == PathInv /\ SeriesInv /\ RemoveInv /\ GitInv /\ AppliesAfterAnything /\ BuildsTheSeries

-----------------------------------------------------------------------------
(* Trees: the recursive function is what its equation says. *)

LEMMA NatInd ==
  ASSUME NEW S \in SUBSET Nat, 0 \in S, \A m \in S : m + 1 \in S
  PROVE  S = Nat
<1>1. SUFFICES ASSUME Nat \ S # {} PROVE FALSE
  OBVIOUS
<1>2. PICK x \in Nat \ S : \A y \in Nat \ S : ~(<<y, x>> \in OpToRel(<, Nat))
  <2>1. Nat \ S \subseteq Nat OBVIOUS
  <2>2. QED BY <1>1, <2>1, NatLessThanWellFounded, WFMin
<1>3. x # 0 /\ x - 1 \in Nat
  OBVIOUS
<1>4. x - 1 \in S
  <2>1. SUFFICES ASSUME x - 1 \in Nat \ S PROVE FALSE
    BY <1>3
  <2>2. <<x - 1, x>> \in OpToRel(<, Nat)
    BY <1>3 DEF OpToRel
  <2>3. QED BY <1>2, <2>1, <2>2
<1>5. QED BY <1>3, <1>4

\* The trees a series goes through, for a series of any length.
LEMMA TreesUnfold ==
  ASSUME NEW s \in Seq(Patches)
  PROVE  Trees(s) = [i \in 0 .. Len(s) |-> IF i = 0 THEN Pristine ELSE Patched(Trees(s)[i - 1], s[i], TreeFiles)]
<1> DEFINE Step(t, i) == Patched(t, s[i], TreeFiles)
           Upto(m, w) == w = [i \in 0 .. m |-> IF i = 0 THEN Pristine ELSE Step(w[i - 1], i)]
           S == {m \in Nat : \E w : Upto(m, w)}
<1> HIDE DEF Step
<1>1. 0 \in S
  <2>1. Upto(0, [i \in 0 .. 0 |-> Pristine])
    OBVIOUS
  <2>2. QED BY <2>1
<1>2. ASSUME NEW m \in S PROVE m + 1 \in S
  <2>1. PICK w : Upto(m, w)
    OBVIOUS
  <2> DEFINE v == [i \in 0 .. m + 1 |-> IF i = m + 1 THEN Step(w[m], m + 1) ELSE w[i]]
  <2>2. \A i \in 0 .. m + 1 : v[i] = IF i = 0 THEN Pristine ELSE Step(v[i - 1], i)
    <3>1. TAKE i \in 0 .. m + 1
    <3>2. CASE i = m + 1
      BY <3>2
    <3>3. CASE i # m + 1
      <4>1. i \in 0 .. m /\ v[i] = w[i] /\ (i # 0 => i - 1 \in 0 .. m /\ v[i - 1] = w[i - 1])
        BY <3>3
      <4>2. w[i] = IF i = 0 THEN Pristine ELSE Step(w[i - 1], i)
        BY <2>1, <4>1
      <4>3. QED BY <4>1, <4>2
    <3>4. QED BY <3>2, <3>3
  <2>3. Upto(m + 1, v)
    BY <2>2
  <2>4. \E x : Upto(m + 1, x)
    <3> HIDE DEF Upto, v
    <3>1. QED BY <2>3
  <2>5. QED BY <2>4
<1>3. Len(s) \in S
  <2>1. S = Nat
    <3> HIDE DEF S
    <3>1. S \in SUBSET Nat BY DEF S
    <3>2. QED BY <1>1, <1>2, <3>1, NatInd
  <2>2. QED BY <2>1
<1>4. PICK x : Upto(Len(s), x)
  BY <1>3
<1>5. Trees(s) = CHOOSE w : Upto(Len(s), w)
  BY DEF Trees, Step
<1>6. Upto(Len(s), Trees(s))
  BY <1>4, <1>5
<1>7. QED BY <1>6 DEF Step

LEMMA TreesStep ==
  ASSUME NEW s \in Seq(Patches)
  PROVE  /\ Trees(s)[0] = Pristine
         /\ \A i \in 1 .. Len(s) : Trees(s)[i] = Patched(Trees(s)[i - 1], s[i], TreeFiles)
BY TreesUnfold

\* A file that is not tracked is absent until a patch creates it.
LEMMA AbsentUntilCreated ==
  ASSUME SeriesAssumption, NEW s \in AllSeries, NEW f \in TreeFiles, f \notin Tracked
  PROVE  \A i \in 1 .. Len(s) + 1 : f \notin Before(s, i) => Trees(s)[i - 1][f] = Absent
<1> DEFINE S == {m \in Nat : m <= Len(s) /\ f \notin Before(s, m + 1) => Trees(s)[m][f] = Absent}
<1>1. s \in Seq(Patches) /\ Len(s) \in Nat
  BY DEF SeriesAssumption
<1>2. 0 \in S
  BY <1>1, TreesStep DEF Pristine
<1>3. ASSUME NEW m \in S PROVE m + 1 \in S
  <2>1. SUFFICES ASSUME m + 1 <= Len(s), f \notin Before(s, m + 2) PROVE Trees(s)[m + 1][f] = Absent
    OBVIOUS
  <2>2. m + 1 \in 1 .. Len(s)
    BY <1>1, <2>1
  <2>3. f \notin Before(s, m + 1) /\ f \notin New(s[m + 1])
    <3>1. 1 .. (m + 2) - 1 = 1 .. m + 1 /\ 1 .. (m + 1) - 1 = 1 .. m
      OBVIOUS
    <3>2. QED BY <2>1, <3>1 DEF Before
  <2>4. Trees(s)[m][f] = Absent
    BY <1>1, <2>1, <2>3
  <2>5. f \notin Edits[s[m + 1]]
    BY <2>2, <2>3 DEF SeriesAssumption
  <2>6. Trees(s)[m + 1] = Patched(Trees(s)[(m + 1) - 1], s[m + 1], TreeFiles)
    BY <1>1, <2>2, TreesStep
  <2>7. QED BY <2>3, <2>4, <2>5, <2>6 DEF Patched
<1>4. S = Nat
  <2> HIDE DEF S
  <2>1. S \in SUBSET Nat BY DEF S
  <2>2. QED BY <1>2, <1>3, <2>1, NatInd
<1>5. TAKE i \in 1 .. Len(s) + 1
<1>6. i - 1 \in S /\ i - 1 <= Len(s) /\ (i - 1) + 1 = i
  BY <1>1, <1>4
<1>7. QED BY <1>6

\* Delete removes no file of the pristine tree.
LEMMA ShownUntracked ==
  ASSUME SeriesAssumption, NEW s \in AllSeries, NEW j \in 1 .. Len(s)
  PROVE  Creates[s[j]] \cap Tracked = {}
BY DEF SeriesAssumption, New, Before

\* A patch that is applied to what the series makes of the pristine tree so far
\* leaves what the series makes of it with this patch.
LEMMA PatchStep ==
  ASSUME SeriesAssumption, NEW s \in AllSeries, NEW i \in 1 .. Len(s),
         NEW t, \A f \in TreeFiles : f \in Known(s, i) => t[f] = Trees(s)[i - 1][f]
  PROVE  \A f \in TreeFiles : f \in Known(s, i + 1) => Patched(t, s[i], TreeFiles)[f] = Trees(s)[i][f]
<1>1. s \in Seq(Patches) /\ Len(s) \in Nat
  BY DEF SeriesAssumption
<1>2. Trees(s)[i] = Patched(Trees(s)[i - 1], s[i], TreeFiles)
  BY <1>1, TreesStep
<1>3. TAKE f \in TreeFiles
<1>4. f \in Known(s, i + 1) => f \in Known(s, i) \/ f \in New(s[i])
  <2>1. \A j \in 1 .. (i + 1) - 1 : j \in 1 .. i - 1 \/ j = i
    OBVIOUS
  <2>2. QED BY <2>1 DEF Known, Before
<1>5. QED BY <1>2, <1>4 DEF Patched

-----------------------------------------------------------------------------
(* The invariant. *)

LEMMA InitInv == ASSUME KernelInit PROVE IInv
<1>1. kpc = "idle" /\ series = <<>> /\ k = 1
  BY DEF KernelInit
<1>2. k \in 1 .. Len(series) + 1
  BY <1>1
<1>3. QED BY <1>1, <1>2 DEF IInv, PathInv, SeriesInv, RemoveInv, GitInv, AppliesAfterAnything, BuildsTheSeries

LEMMA StartInv == ASSUME SeriesAssumption, IInv, Start PROVE IInv'
<1>1. series' \in AllSeries /\ k' = 1 /\ Len(series') \in Nat /\ git' = git
  BY DEF Start, SeriesAssumption
<1>2. kpc' = IF series' = <<>> THEN "made" ELSE IF git THEN "reset" ELSE "plain"
  BY DEF Start
<1>3. PathInv' BY <1>1, <1>2 DEF PathInv
<1>4. SeriesInv' BY <1>1, <1>2 DEF SeriesInv
<1>5. QED BY <1>1, <1>2, <1>3, <1>4 DEF IInv, RemoveInv, GitInv, AppliesAfterAnything, BuildsTheSeries

LEMMA CheckoutInv == ASSUME IInv, Checkout PROVE IInv'
<1>1. /\ kpc = "reset" /\ kpc' = "remove"
      /\ git' = git /\ series' = series /\ k' = k
  BY DEF Checkout
<1>2. \A f \in Tracked : tree'[f] = <<>>
  BY DEF Checkout, TreeFiles
<1>3. QED BY <1>1, <1>2 DEF IInv, PathInv, SeriesInv, RemoveInv, GitInv, AppliesAfterAnything, BuildsTheSeries

LEMMA DeleteInv == ASSUME SeriesAssumption, IInv, Delete PROVE IInv'
<1>1. /\ kpc = "remove" /\ kpc' = "git" /\ series \in AllSeries /\ k = 1
      /\ git' = git /\ series' = series /\ k' = k
  BY DEF Delete, IInv, SeriesInv
<1>2. series \in Seq(Patches) /\ DOMAIN series = 1 .. Len(series)
  BY <1>1 DEF SeriesAssumption
<1>3. ASSUME NEW f \in TreeFiles, f \in Known(series, 1) PROVE tree'[f] = Trees(series)[0][f]
  <2>1. Before(series, 1) = Tracked
    BY DEF Before
  <2>2. Known(series, 1) = Tracked \cup Shown
    BY <1>2, <2>1 DEF Known, Shown
  <2>3. f \in Shown => f \notin Tracked
    BY <1>1, <1>2, ShownUntracked DEF Shown
  <2>4. Trees(series)[0][f] = IF f \in Tracked THEN <<>> ELSE Absent
    BY <1>2, TreesStep DEF Pristine
  <2>5. f \in Tracked => tree[f] = <<>>
    BY <1>1 DEF IInv, RemoveInv
  <2>6. QED BY <1>3, <2>2, <2>3, <2>4, <2>5 DEF Delete
<1>4. GitInv'
  BY <1>1, <1>3 DEF GitInv, Known, Before, New
<1>5. QED BY <1>1, <1>4 DEF IInv, PathInv, SeriesInv, RemoveInv, AppliesAfterAnything, BuildsTheSeries

\* git apply fails only on a file that Delete did not remove.
LEMMA FailsOnRename ==
  ASSUME SeriesAssumption, IInv, kpc = "git", k <= Len(series), ~Fits(series[k])
  PROVE  \E i \in DOMAIN series : Renames[series[i]] # {}
<1>1. series \in AllSeries /\ series \in Seq(Patches) /\ k \in 1 .. Len(series)
  BY DEF IInv, SeriesInv, SeriesAssumption
<1>2. Edits[series[k]] \cup New(series[k]) \subseteq TreeFiles
  BY <1>1 DEF TreeFiles
<1>3. \A f \in Edits[series[k]] : tree[f] = Trees(series)[k - 1][f]
  BY <1>1, <1>2 DEF IInv, GitInv, Known, SeriesAssumption
<1>4. PICK f \in New(series[k]) : tree[f] # Absent
  BY <1>3 DEF Fits
<1>5. f \notin Before(series, k) /\ f \notin Tracked
  BY <1>1 DEF SeriesAssumption, Before
<1>6. Trees(series)[k - 1][f] = Absent
  BY <1>1, <1>2, <1>5, AbsentUntilCreated
<1>7. f \notin Creates[series[k]]
  BY <1>1, <1>2, <1>4, <1>6 DEF IInv, GitInv, Known
<1>8. QED BY <1>1, <1>7 DEF New

LEMMA GitApplyInv == ASSUME SeriesAssumption, IInv, GitApply PROVE IInv'
<1>1. /\ kpc = "git" /\ k \in 1 .. Len(series) /\ git /\ series \in AllSeries
      /\ git' = git /\ series' = series /\ Len(series) \in Nat
  BY DEF GitApply, IInv, PathInv, SeriesInv, SeriesAssumption
<1>2. CASE Fits(series[k])
  <2>1. tree' = Patched(tree, series[k], TreeFiles) /\ k' = k + 1 /\ kpc' = "git"
    BY <1>1, <1>2 DEF GitApply
  <2>2. \A f \in TreeFiles : f \in Known(series, k) => tree[f] = Trees(series)[k - 1][f]
    BY <1>1 DEF IInv, GitInv
  <2>3. \A f \in TreeFiles : f \in Known(series, k + 1) => tree'[f] = Trees(series)[k][f]
    BY <1>1, <2>1, <2>2, PatchStep
  <2>4. k' - 1 = k BY <1>1, <2>1
  <2>5. GitInv'
    BY <1>1, <2>1, <2>3, <2>4 DEF GitInv, Known, Before, New, Trees
  <2>6. QED BY <1>1, <2>1, <2>5 DEF IInv, PathInv, SeriesInv, RemoveInv, AppliesAfterAnything, BuildsTheSeries
<1>3. CASE ~Fits(series[k])
  <2>1. kpc' = "failed" /\ k' = k
    BY <1>3 DEF GitApply
  <2>2. \E i \in DOMAIN series : Renames[series[i]] # {}
    BY <1>1, <1>3, FailsOnRename
  <2>3. QED BY <1>1, <2>1, <2>2 DEF IInv, PathInv, SeriesInv, RemoveInv, GitInv, AppliesAfterAnything, BuildsTheSeries
<1>4. QED BY <1>2, <1>3

LEMMA PlainApplyInv == ASSUME IInv, PlainApply PROVE IInv'
<1>1. /\ kpc = "plain" /\ ~git /\ git' = git /\ series' = series
      /\ \/ k' = k + 1 /\ kpc' = kpc
         \/ k' = k /\ kpc' = "failed"
  BY DEF PlainApply, IInv, PathInv
<1>2. k' \in 1 .. Len(series) + 1
  BY <1>1 DEF PlainApply, IInv, SeriesInv
<1>3. QED BY <1>1, <1>2 DEF IInv, PathInv, SeriesInv, RemoveInv, GitInv, AppliesAfterAnything, BuildsTheSeries

LEMMA MadeInv == ASSUME SeriesAssumption, IInv, Made PROVE IInv'
<1>1. /\ kpc \in {"git", "plain"} /\ kpc' = "made" /\ k > Len(series)
      /\ git' = git /\ series' = series /\ k' = k /\ tree' = tree
  BY DEF Made
<1>2. ASSUME git, NEW f \in TreeFiles
      PROVE  tree[f] = With(series)[f] \/ (f \notin Tracked /\ With(series)[f] = Absent)
  <2>1. kpc = "git" /\ series \in AllSeries /\ Len(series) \in Nat
    BY <1>1, <1>2 DEF IInv, PathInv, SeriesInv, SeriesAssumption
  <2>2. k = Len(series) + 1 /\ k - 1 = Len(series)
    BY <1>1, <2>1 DEF IInv, SeriesInv
  <2>3. CASE f \in Known(series, k)
    BY <2>1, <2>2, <2>3 DEF IInv, GitInv, With
  <2>4. CASE f \notin Known(series, k)
    <3>1. f \notin Tracked /\ f \notin Before(series, k)
      BY <2>4 DEF Known, Before
    <3>2. k \in 1 .. Len(series) + 1
      BY <2>1, <2>2
    <3>3. QED BY <2>1, <2>2, <3>1, <3>2, AbsentUntilCreated DEF With
  <2>5. QED BY <2>3, <2>4
<1>3. BuildsTheSeries'
  BY <1>1, <1>2 DEF BuildsTheSeries
<1>4. QED BY <1>1, <1>3 DEF IInv, PathInv, SeriesInv, RemoveInv, GitInv, AppliesAfterAnything

LEMMA NextInv == ASSUME SeriesAssumption, IInv, [KernelNext]_kernelVars PROVE IInv'
<1>1. CASE Start BY <1>1, StartInv
<1>2. CASE Checkout BY <1>2, CheckoutInv
<1>3. CASE Delete BY <1>3, DeleteInv
<1>4. CASE GitApply BY <1>4, GitApplyInv
<1>5. CASE PlainApply BY <1>5, PlainApplyInv
<1>6. CASE Made BY <1>6, MadeInv
<1>7. CASE Kill
  BY <1>7 DEF Kill, IInv, PathInv, SeriesInv, RemoveInv, GitInv, AppliesAfterAnything, BuildsTheSeries
<1>8. CASE UNCHANGED kernelVars
  BY <1>8 DEF kernelVars, IInv, PathInv, SeriesInv, RemoveInv, GitInv, AppliesAfterAnything, BuildsTheSeries
<1>9. QED BY <1>1, <1>2, <1>3, <1>4, <1>5, <1>6, <1>7, <1>8 DEF KernelNext, Done

\* The invariant is one, for every such set of series, bound and kill.
THEOREM Invariance == ASSUME SeriesAssumption PROVE KernelSpec => []IInv
<1>1. KernelInit => IInv BY InitInv
<1>2. IInv /\ [KernelNext]_kernelVars => IInv' BY NextInv
<1>3. QED BY <1>1, <1>2, PTL DEF KernelSpec

\* In a git tree a build never fails on what earlier builds left, as long as its
\* patches show the files they create (kernel/build.sh 111-130).
THEOREM AppliesCorrect == ASSUME SeriesAssumption PROVE KernelSpec => []AppliesAfterAnything
<1>1. IInv => AppliesAfterAnything BY DEF IInv
<1>2. QED BY <1>1, Invariance, PTL

\* What is then compiled is the pristine tree with this board's series on it,
\* but for files that other series created (kernel/build.sh 111-141).
THEOREM BuildsCorrect == ASSUME SeriesAssumption PROVE KernelSpec => []BuildsTheSeries
<1>1. IInv => BuildsTheSeries BY DEF IInv
<1>2. QED BY <1>1, Invariance, PTL
=============================================================================
