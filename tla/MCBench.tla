------------------------------- MODULE MCBench -------------------------------
(***************************************************************************)
(* The tools of the test bench: the catcher of CatchUboot, the watcher of  *)
(* UbootWatch and the power cycler of PoeCycle. They are run one at a time *)
(* and share nothing but the panel; `tool` is the one that runs, and the   *)
(* others stay in their initial state.                                     *)
(***************************************************************************)
EXTENDS CatchUboot, UbootWatch, PoeCycle

VARIABLE tool   \* "catch", "watch", "cycle"

ASSUME BenchAssumption == ResetsAssumption /\ TimeAssumption

allVars == <<tool, vars, watchVars, poeVars>>

BenchInit == tool \in {"catch", "watch", "cycle"} /\ Init /\ WatchInit /\ PoeInit

Catching(A) == tool = "catch" /\ A /\ UNCHANGED <<tool, watchVars, poeVars>>
Watching(A) == tool = "watch" /\ A /\ UNCHANGED <<tool, vars, poeVars>>
Cycling(A) == tool = "cycle" /\ A /\ UNCHANGED <<tool, vars, watchVars>>

BenchNext == Catching(Next) \/ Watching(WatchNext) \/ Cycling(PoeNext)

BenchSpec ==
  /\ BenchInit /\ [][BenchNext]_allVars
  /\ WF_allVars(Catching(Loop)) /\ WF_allVars(Catching(Deadline))
  /\ WF_allVars(Watching(Watcher)) /\ WF_allVars(Watching(EightSeconds))
  /\ WF_allVars(Cycling(Second)) /\ WF_allVars(Cycling(Script))

==============================================================================
