----------------------------- MODULE KernelTree -----------------------------
(***************************************************************************)
(* kernel/build.sh, lines 104-141: bringing a kernel tree that earlier     *)
(* builds have patched, for this board or the other, to the state this     *)
(* board's series asks for. In a git tree it resets and applies; without   *)
(* git it asks patch whether each one is applied. The content of a file is *)
(* the sequence of patches applied to it. A build may be killed anywhere.  *)
(***************************************************************************)
EXTENDS Naturals, Sequences, SequencesExt

CONSTANTS
  Tracked,    \* files of the pristine tree
  Patches,
  Edits,      \* [Patches -> SUBSET files]: files a patch changes
  Creates,    \* [Patches -> SUBSET files]: files it creates, "+++ b/<file>" in its text
  Renames,    \* [Patches -> SUBSET files]: files it creates without: renames, empty, binary
  AllSeries,  \* the patch series of the boards, over time
  Git,        \* the values of is-inside-work-tree
  MaxKernelBuilds,  \* bound: builds
  MaxKills    \* bound: builds that are killed

VARIABLES
  kpc,     \* "idle", "reset", "remove", "git", "plain", "made", "failed"
  git,     \* the tree is a git work tree
  series,  \* patch_files of the running build
  k,       \* the next of them
  tree,    \* file -> patches applied, or Absent
  kbuilds, kills

kernelVars == <<kpc, git, series, k, tree, kbuilds, kills>>

Absent == <<"absent">>
New(p) == Creates[p] \cup Renames[p]
TreeFiles == Tracked \cup UNION {Edits[p] \cup New(p) : p \in Patches}

Pristine == [f \in TreeFiles |-> IF f \in Tracked THEN <<>> ELSE Absent]

\* What a patch makes of the files in fs.
Patched(t, p, fs) ==
  [f \in TreeFiles |-> IF f \notin fs THEN t[f]
                   ELSE IF f \in New(p) THEN <<p>>
                   ELSE IF f \in Edits[p] THEN Append(t[f], p) ELSE t[f]]

\* Files of a patch that it can work on: there to be changed, not there to be created.
Ready(t, p) ==
  {f \in Edits[p] : t[f] # Absent} \cup {f \in New(p) : t[f] = Absent}

\* The pristine tree with the first i patches of a series on it, and with all.
Trees(s) ==
  LET w[i \in 0 .. Len(s)] == IF i = 0 THEN Pristine ELSE Patched(w[i - 1], s[i], TreeFiles)
  IN  w
With(s) == Trees(s)[Len(s)]

\* A series is made against the pristine tree: it changes files that are there
\* and creates files that are not.
Before(s, i) == Tracked \cup UNION {New(s[j]) : j \in 1 .. i - 1}
SeriesAssumption ==
  \A s \in AllSeries :
    /\ s \in Seq(Patches)
    /\ \A i \in 1 .. Len(s) : Edits[s[i]] \subseteq Before(s, i) /\ New(s[i]) \cap Before(s, i) = {}

KernelInit ==
  /\ kpc = "idle" /\ git \in Git
  /\ series = <<>> /\ k = 1
  /\ tree = Pristine
  /\ kbuilds = 0 /\ kills = 0

-----------------------------------------------------------------------------
\* The series is looked up; an empty one leaves the tree alone.
Start ==
  /\ kpc \in {"idle", "made", "failed"} /\ kbuilds < MaxKernelBuilds
  /\ kbuilds' = kbuilds + 1
  /\ series' \in AllSeries /\ k' = 1
  /\ kpc' = IF series' = <<>> THEN "made" ELSE IF git THEN "reset" ELSE "plain"
  /\ UNCHANGED <<git, tree, kills>>

\* git checkout -- .
Checkout ==
  /\ kpc = "reset"
  /\ tree' = [f \in TreeFiles |-> IF f \in Tracked THEN <<>> ELSE tree[f]]
  /\ kpc' = "remove"
  /\ UNCHANGED <<git, series, k, kbuilds, kills>>

\* Mutant: only the files of the first patch are removed.
Shown_first == Creates[series[1]]

\* The files with a "+++ b/" line below "new file mode".
Shown == UNION {Creates[series[i]] : i \in DOMAIN series}

\* The files the series creates are deleted.
Delete ==
  /\ kpc = "remove"
  /\ tree' = [f \in TreeFiles |-> IF f \in Shown THEN Absent ELSE tree[f]]
  /\ kpc' = "git"
  /\ UNCHANGED <<git, series, k, kbuilds, kills>>

\* git apply: the patch finds what it was made against, or nothing is done.
Fits(p) ==
  /\ \A f \in Edits[p] : tree[f] = Trees(series)[k - 1][f]
  /\ \A f \in New(p) : tree[f] = Absent

GitApply ==
  /\ kpc = "git" /\ k <= Len(series)
  /\ IF Fits(series[k])
     THEN tree' = Patched(tree, series[k], TreeFiles) /\ k' = k + 1 /\ UNCHANGED kpc
     ELSE kpc' = "failed" /\ UNCHANGED <<tree, k>>
  /\ UNCHANGED <<git, series, kbuilds, kills>>

\* patch --dry-run -R: the patch is the last thing done to its files.
Reversible(p) ==
  \A f \in Edits[p] \cup New(p) : tree[f] \notin {<<>>, Absent} /\ Last(tree[f]) = p

\* Without git: skipped when the reverse dry run succeeds; else applied. On a
\* file that has the patch somewhere below it is doubled or rejected, and a file
\* to be created must not exist.
PlainApply ==
  /\ kpc = "plain" /\ k <= Len(series)
  /\ LET p == series[k]
         room == Edits[p] \cup New(p) \subseteq Ready(tree, p)
         clean == room /\ \A f \in Edits[p] : p \notin ToSet(tree[f])
     IN  \/ Reversible(p) /\ k' = k + 1 /\ UNCHANGED <<tree, kpc>>
         \/ /\ ~Reversible(p) /\ room
            /\ tree' = Patched(tree, p, TreeFiles) /\ k' = k + 1 /\ UNCHANGED kpc
         \/ ~Reversible(p) /\ ~clean /\ kpc' = "failed" /\ UNCHANGED <<tree, k>>
  /\ UNCHANGED <<git, series, kbuilds, kills>>

\* Mutant: the loop ends before the last patch.
Made_early ==
  /\ kpc \in {"git", "plain"} /\ k >= Len(series)
  /\ kpc' = "made"
  /\ UNCHANGED <<git, series, k, tree, kbuilds, kills>>

\* The rest of the script configures and compiles the tree.
Made ==
  /\ kpc \in {"git", "plain"} /\ k > Len(series)
  /\ kpc' = "made"
  /\ UNCHANGED <<git, series, k, tree, kbuilds, kills>>

\* Killed in the middle of a command: some of its files are done.
Kill ==
  /\ kpc \in {"reset", "remove", "git", "plain"} /\ kills < MaxKills
  /\ kills' = kills + 1
  /\ \E fs \in SUBSET TreeFiles :
       tree' = CASE kpc = "reset"  -> [f \in TreeFiles |-> IF f \in fs \cap Tracked THEN <<>> ELSE tree[f]]
                 [] kpc = "remove" -> [f \in TreeFiles |-> IF f \in fs \cap Shown THEN Absent ELSE tree[f]]
                 [] OTHER         -> IF k <= Len(series) /\ (kpc = "git" => Fits(series[k]))
                                     THEN Patched(tree, series[k], fs \cap Ready(tree, series[k])) ELSE tree
  /\ kpc' = "idle"
  /\ UNCHANGED <<git, series, k, kbuilds>>

\* Enough builds.
Done == kpc \in {"idle", "made", "failed"} /\ kbuilds = MaxKernelBuilds /\ UNCHANGED kernelVars

KernelNext == Start \/ Checkout \/ Delete \/ GitApply \/ PlainApply \/ Made \/ Kill \/ Done

KernelSpec == KernelInit /\ [][KernelNext]_kernelVars

-----------------------------------------------------------------------------
(* Properties. *)

\* In a git tree a build never fails on what earlier builds, for either board,
\* of an older series or killed anywhere, left behind (lines 111-130), as long
\* as its own patches show the files they create.
AppliesAfterAnything == git /\ kpc = "failed" => \E i \in DOMAIN series : Renames[series[i]] # {}

\* And what is then compiled is the pristine tree with this series on it, but
\* for files that other series created.
BuildsTheSeries ==
  git /\ kpc = "made" /\ series # <<>> =>
    \A f \in TreeFiles :
      tree[f] = With(series)[f] \/ (f \notin Tracked /\ With(series)[f] = Absent)
=============================================================================
