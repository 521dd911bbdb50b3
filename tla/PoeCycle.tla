------------------------------ MODULE PoeCycle ------------------------------
(***************************************************************************)
(* smoke/poe_cycle.sh: power-cycles a PoE port by pointing the switch's    *)
(* Auto Recovery at an address that never answers, waiting, and pointing   *)
(* it back. Each command is a few HTTP POSTs: a POST may be taken, be      *)
(* dropped by the CGI without an error, or fail and end the script, which  *)
(* may also be killed. The switch (external, modelled from the script's    *)
(* own comments) pings once per interval. Time passes in seconds.          *)
(***************************************************************************)
EXTENDS Naturals

CONSTANTS
  INTERVAL,   \* seconds between pings
  BREAK_SEC,  \* seconds the port stays off
  STARTUP,    \* seconds without pings after the port is first armed
  Margin,     \* the 5 of revert_in
  MaxLag,     \* bound: seconds by which the revert may come late
  MaxRuns,    \* bound: commands given
  MaxFaults   \* bound: POSTs dropped or failed, kills

TimeAssumption ==
  {INTERVAL, BREAK_SEC, STARTUP, Margin} \subseteq Nat \ {0} /\ MaxLag \in Nat
  /\ Margin + MaxLag < INTERVAL

VARIABLES
  ppc,      \* "idle", "port", "global", "sleep"; "port" is the first POST
  cmd,      \* "setup", "cycle", "disarm"
  wait,     \* seconds left of the sleep
  said,     \* the last line printed: "nothing", "armed", "reverted", "disabled"
  target,   \* the address the port pings: "gateway", "blackhole"
  enabled,  \* the port's recovery is enabled
  global,   \* recovery is enabled globally
  due,      \* seconds to the next ping
  off,      \* seconds until the port has power again
  drops,    \* history: times the port lost power during the last sleep
  settled,  \* history: at the last flip a ping was due within INTERVAL
  close,    \* history: it was due within the margin of the wait
  taken,    \* history: the last command that logged in has had every POST taken
  runs, faults

switch == <<target, enabled, global, due, off>>
hist == <<drops, settled, close, taken>>
poeVars == <<ppc, cmd, wait, said, switch, hist, runs, faults>>

PoeInit ==
  /\ ppc = "idle" /\ cmd = "setup" /\ wait = 0 /\ said = "nothing"
  /\ target = "gateway" /\ enabled = FALSE /\ global = FALSE
  /\ due = INTERVAL /\ off = 0
  /\ drops = 0 /\ settled = FALSE /\ close = FALSE /\ taken = TRUE
  /\ runs = 0 /\ faults = 0

Armed == enabled /\ global

-----------------------------------------------------------------------------
(* External: the switch. *)

\* One second: the port comes back, or a ping is due and is answered or not.
\* The pause of a drop may or may not count towards the interval.
Second ==
  /\ ppc = "sleep" => wait > 0
  /\ wait' = IF wait > 0 THEN wait - 1 ELSE 0
  /\ IF due = 1 /\ off = 0 /\ Armed /\ target = "blackhole"
     THEN /\ off' = BREAK_SEC /\ due' \in {INTERVAL, INTERVAL + BREAK_SEC}
          /\ drops' = IF ppc = "sleep" THEN drops + 1 ELSE drops
     ELSE /\ off' = IF off > 0 THEN off - 1 ELSE 0
          /\ due' = IF due > 1 THEN due - 1 ELSE INTERVAL
          /\ UNCHANGED drops
  /\ UNCHANGED <<ppc, cmd, said, target, enabled, global, settled, close, taken, runs, faults>>

-----------------------------------------------------------------------------
(* The script. *)

\* A command is given and logs in, or does not.
Start ==
  /\ ppc = "idle" /\ runs < MaxRuns
  /\ runs' = runs + 1
  /\ cmd' \in {"setup", "cycle", "disarm"}
  /\ ppc' \in {IF cmd' = "disarm" THEN "global" ELSE "port", "idle"}
  /\ said' = "nothing" /\ taken' = (taken \/ ppc' # "idle")
  /\ UNCHANGED <<wait, switch, drops, settled, close, faults>>

\* setup's apply_port: first armed, the port is left alone for STARTUP.
SetupPort ==
  /\ target' = "gateway" /\ enabled' = TRUE
  /\ due' = IF enabled THEN due ELSE STARTUP
  /\ UNCHANGED <<global, off>>

\* apply_port with status 7: only the address; the timer may start afresh.
SetTarget(ip) ==
  /\ target' = ip
  /\ due' \in {due, IF due > INTERVAL THEN due ELSE INTERVAL}
  /\ UNCHANGED <<enabled, global, off>>

\* What the switch does with the POST the script is at.
Effect ==
  \/ ppc = "port" /\ cmd = "setup" /\ SetupPort
  \/ ppc = "port" /\ cmd = "cycle" /\ SetTarget("blackhole")
  \/ ppc = "sleep" /\ SetTarget("gateway")
  \/ ppc = "global" /\ global' = (cmd = "setup") /\ UNCHANGED <<target, enabled, due, off>>

\* The CGI takes a POST, or drops it: curl has no -f and nobody looks.
Post ==
  \/ Effect /\ UNCHANGED <<faults, taken>>
  \/ faults < MaxFaults /\ faults' = faults + 1 /\ taken' = FALSE /\ UNCHANGED switch

SetupPost ==
  /\ ppc = "port" /\ cmd = "setup"
  /\ Post
  /\ ppc' = "global"
  /\ UNCHANGED <<cmd, wait, said, drops, settled, close, runs>>

GlobalPost ==
  /\ ppc = "global"
  /\ Post
  /\ ppc' = "idle" /\ said' = IF cmd = "setup" THEN "armed" ELSE "disabled"
  /\ UNCHANGED <<cmd, wait, drops, settled, close, runs>>

\* Mutant: the sleep is shorter than the interval.
Flip_hasty ==
  /\ ppc = "port" /\ cmd = "cycle"
  /\ Post
  /\ ppc' = "sleep"
  /\ wait' \in INTERVAL - Margin .. INTERVAL - Margin + MaxLag
  /\ drops' = 0 /\ settled' = (Armed /\ due <= INTERVAL /\ off = 0)
  /\ close' = (due' <= Margin + MaxLag)
  /\ UNCHANGED <<cmd, said, runs>>

Flip ==
  /\ ppc = "port" /\ cmd = "cycle"
  /\ Post
  /\ ppc' = "sleep"
  /\ wait' \in INTERVAL + Margin .. INTERVAL + Margin + MaxLag
  /\ drops' = 0 /\ settled' = (Armed /\ due <= INTERVAL /\ off = 0)
  /\ close' = (due' <= Margin + MaxLag)
  /\ UNCHANGED <<cmd, said, runs>>

\* Mutant: the target is not set back.
Revert_forgotten ==
  /\ ppc = "sleep" /\ wait = 0
  /\ ppc' = "idle" /\ said' = "reverted"
  /\ UNCHANGED <<cmd, wait, switch, hist, runs, faults>>

Revert ==
  /\ ppc = "sleep" /\ wait = 0
  /\ Post
  /\ ppc' = "idle" /\ said' = "reverted"
  /\ UNCHANGED <<cmd, wait, drops, settled, close, runs>>

\* Killed, or set -e ends it when curl fails, whether the POST was taken or not.
Die ==
  /\ ppc # "idle" /\ faults < MaxFaults
  /\ faults' = faults + 1 /\ ppc' = "idle" /\ wait' = 0 /\ taken' = FALSE
  /\ UNCHANGED switch \/ (wait = 0 /\ Effect)
  /\ UNCHANGED <<cmd, said, drops, settled, close, runs>>

Script == SetupPost \/ GlobalPost \/ Flip \/ Revert

PoeNext == Second \/ Start \/ Script \/ Die

PoeSpec == PoeInit /\ [][PoeNext]_poeVars /\ WF_poeVars(Second) /\ WF_poeVars(Script)

-----------------------------------------------------------------------------
(* Properties. *)

\* A cycle that reports success has cut the power: revert_in leaves room for the
\* next ping wherever in its interval the flip comes (lines 115-122), unless the
\* port was first armed moments before.
CycleCuts == said = "reverted" /\ taken /\ settled => drops > 0

\* "Port pings ${GATEWAY} again - no further cycles" (line 123): the port stays on
\* once the commands are over if the last one that logged in went through,
\* whatever their order and timing. Any command that goes through, a second cycle
\* too, mends what a lost or unsent revert has left (lines 98-128).
StaysOn == <>[](off = 0 \/ ~taken)

\* "trigger a single fast cycle" (line 22), "fire one quick power-cycle" (line
\* 109): the port loses its power once.
SingleCycle == drops <= 1

\* What holds instead: a cycle cuts the power a second time only if it comes so
\* close before a ping that the next one falls into the wait too, and never a
\* third time before the revert, whatever is dropped or dies (lines 115-122).
SecondCutOnlyIfClose == drops <= IF close THEN 2 ELSE 1
=============================================================================
