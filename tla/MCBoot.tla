------------------------------- MODULE MCBoot -------------------------------
(***************************************************************************)
(* BootSelector twice. In the first part anything may be staged, edited    *)
(* and go wrong, without end. In the second the config step meets only     *)
(* finitely many faults, over fewer inputs: what a staged blob can count   *)
(* on once they cease.                                                     *)
(***************************************************************************)
EXTENDS BootSelector

CONSTANT MaxFaults   \* faults of the config step in the second part

ASSUME MaxFaultsAssumption == MaxFaults \in Nat

VARIABLES faults, part   \* faults so far; "any" or "few"

allVars == <<vars, faults, part>>

\* The config step is cut short by this step: the mount, the bind of /dev or
\* the applier fails, or the power does.
Fault ==
  \/ pc = "config" /\ BlobSeen /\ ~(pc' = "chroot" /\ "dev" \in binds')
  \/ Applying /\ pc' = "unbind" /\ blob' = "whole"
  \/ pc \in InitSteps /\ pc' = "off"

\* The inputs of the second part: one value, and two of the cmdlines.
V == CHOOSE v \in Values : TRUE

FewInputs ==
  /\ \A k \in Keys : {cfg'[k], dirty'[k]} \subseteq {V, Unset}
  /\ override' \in {"", "rw"}

BootInit ==
  /\ Init /\ faults = 0
  /\ \/ part = "any"
     \/ part = "few" /\ facres = "corrupt" /\ \A k \in Keys : disk[k] = V

AnyNext == part = "any" /\ Next /\ UNCHANGED <<faults, part>>

FewNext ==
  /\ part = "few" /\ Next /\ FewInputs
  /\ Fault => faults < MaxFaults
  /\ faults' = IF Fault THEN faults + 1 ELSE faults
  /\ UNCHANGED part

BootNext == AnyNext \/ FewNext

BootSpec == BootInit /\ [][BootNext]_allVars /\ WF_allVars(InitStep /\ BootNext)

\* A complete blob does not stay: if the panel keeps being booted as far as
\* the config step and that step fails only finitely often, the blob is
\* consumed, unless a newer one replaces it. That includes boots in either
\* mode, boots that end in the rescue shell, and a blob left half applied by
\* a failed attempt (lines 99-126).
ConfigConsumed ==
  part = "few" /\ []<>(pc = "config") => (blob = "whole" ~> blob # "whole")
=============================================================================
