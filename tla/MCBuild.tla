------------------------------ MODULE MCBuild ------------------------------
(***************************************************************************)
(* What a workspace goes through over several builds: the output directory *)
(* and caches of BuildTree, and the kernel tree of KernelTree. The two     *)
(* share no variable and are explored side by side, not interleaved.       *)
(* Patch series: both boards change one file, tc8 twice; each creates a    *)
(* file and tc8 then changes it; both create a third one; a later c60      *)
(* series renames a file.                                                  *)
(***************************************************************************)
EXTENDS BuildTree, KernelTree

VARIABLE part   \* "twice", "thrice" or "kernel"

AllPatches == {"t1", "t2", "c1", "c2", "c3"}
Tc8 == <<"t1", "t2">>
Tc8Old == <<"t1">>
C60 == <<"c1", "c2">>
C60New == <<"c1", "c3">>
PatchEdits ==
  [t1 |-> {"Makefile"}, t2 |-> {"Makefile", "tc8.dts"}, c1 |-> {"Makefile", "sound.c"}, c2 |-> {},
   c3 |-> {}]
PatchCreates ==
  [t1 |-> {"tc8.dts"}, t2 |-> {"panel.c"}, c1 |-> {}, c2 |-> {"c60.dts", "panel.c"},
   c3 |-> {}]

PatchRenames == [p \in AllPatches |-> IF p = "c3" THEN {"poly.c", "tc8.dts"} ELSE {}]

TheSeries == {Tc8, Tc8Old, C60, C60New, <<>>}

ASSUME KernelAssumption == SeriesAssumption

allVars == <<vars, kernelVars, part>>

BuildInit ==
  /\ Init /\ KernelInit
  /\ part \in {"twice", "thrice", "kernel"}
  /\ part # "kernel" => git

\* Bounds: two builds with every option, or three with the default profile, one
\* revision and kernels that fit with their DTB.
Bounded ==
  \/ part = "twice" /\ builds' <= 2
  \/ /\ part = "thrice"
     /\ rev' = 1 /\ inv'.os_profiles = {"kiosk"}
     /\ kout'["Image"] \notin {Kernel(t, 1, n) : t \in Boards, n \in BootPadSize - 1 .. BootPartSize}

BuildNext ==
  \/ Next /\ Bounded /\ UNCHANGED <<kernelVars, part>>
  \/ part = "twice" /\ builds = 2 /\ pc \in {"idle", "done"} /\ UNCHANGED allVars
  \/ part = "kernel" /\ KernelNext /\ UNCHANGED <<vars, part>>

BuildSpec == BuildInit /\ [][BuildNext]_allVars
=============================================================================
