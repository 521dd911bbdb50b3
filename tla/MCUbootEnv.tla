----------------------------- MODULE MCUbootEnv -----------------------------
(***************************************************************************)
(* The U-Boot environment from both ends: the editor of UbootEnv and the   *)
(* macros it installs, run by U-Boot in SlotBoot. `side` is the one that   *)
(* is explored; the other stays in one initial state.                      *)
(***************************************************************************)
EXTENDS UbootEnv, SlotBoot, TLC

VARIABLE side   \* "editor", "panel"

ASSUME SlotBootAssumption == DtbosAssumption

allVars == <<side, vars, macroVars>>

FileSymmetry == Permutations(Path)

X(v) == [k |-> "x", v |-> v]
SlotA == [k |-> "slot", v |-> "a"]

\* Payloads of up to three texts, or of one text over and over; and one that is
\* full to the last cell.
SomePayloads ==
  {d \in [1 .. ENV_DATA_SIZE -> {X("1"), X("high"), SlotA, Junk, NUL}] :
     /\ \A n \in 2 .. ENV_DATA_SIZE : NUL \in {d[n - 1], d[n]}
     /\ \/ Quantify(1 .. ENV_DATA_SIZE, LAMBDA n : d[n] # NUL) <= 3
        \/ \A m, n \in 1 .. ENV_DATA_SIZE : NUL \in {d[m], d[n]} \/ d[m] = d[n]}
One == [n \in 1 .. ENV_DATA_SIZE |-> IF n = 1 THEN X("1") ELSE NUL]
Full == [n \in 1 .. ENV_DATA_SIZE |->
           IF n % 2 = 1 /\ n < ENV_DATA_SIZE
           THEN [k |-> <<"x", "z", "slot", "w">>[(n + 1) \div 2], v |-> ""]
           ELSE NUL]
AllTexts ==
  [k : {"x", "y", "z", "w", "slot", "slotaboot", "slotbboot", "bootcmd_ab"},
   v : {"", "1", "2", "high", "a", "b", "SLOTABOOT", "SLOTBBOOT", "BOOTCMD_AB"}]
AllPayloads == SomePayloads \cup {Full}

AllModifies ==
  {<<X("1")>>, <<X("2"), X("1")>>, <<X("2"), Junk>>, <<[k |-> "y", v |-> "high"]>>,
   <<[k |-> "y", v |-> ""], SlotA>>}
AllDeletes == {{"x"}, {"x", "slot"}, {"y"}}

EnvInit ==
  /\ side \in {"editor", "panel"}
  /\ side = "editor" \/ (side = "panel" /\ panel = [crc |-> TRUE, data |-> One])
  /\ \/ side = "editor" /\ slot = "a" /\ boot = [s \in Slots |-> 0]
                        /\ dtbo = [s \in Slots |-> "blank"]
     \/ side = "panel"
  /\ Init /\ MacroInit
  /\ side = "panel" => files = [p \in Path |-> NoFile]

\* Bound: more than one command only on two of the payloads.
Bounded == runs' > 1 => panel.data \in {One, Full}

EnvNext ==
  \/ side = "editor" /\ Next /\ Bounded /\ UNCHANGED <<side, macroVars>>
  \/ side = "editor" /\ runs = 1 /\ pc = "done" /\ UNCHANGED allVars
  \/ side = "panel" /\ MacroNext /\ UNCHANGED <<side, vars>>

EnvSpec == EnvInit /\ [][EnvNext]_allVars
=============================================================================
