----------------------------- MODULE UbootWatch -----------------------------
(***************************************************************************)
(* smoke/uboot_watch.py: waits for U-Boot's banner on the console, stops   *)
(* the autoboot, types "fastboot 0" and reports each phase in a state      *)
(* file. It reaches the console through HTTP requests: a failed read gives *)
(* nothing (and may have emptied the probe), a failed write ends the       *)
(* program. The console is the set of strings the watcher looks for.       *)
(***************************************************************************)
EXTENDS Naturals

CONSTANTS MaxResets  \* bound: times the panel restarts by itself or by hand

ResetsAssumption == MaxResets \in Nat

VARIABLES
  phase,    \* "open", "wait_uboot", "at_uboot", "fastboot_sent", "idle", "dead"
  wpc,      \* "read", "act", "spam", "cr", "cmd", "cr2"
  wbuf,     \* strings in the watcher's buffer
  over8,    \* more than eight seconds in the phase fastboot_sent
  pend,     \* strings printed and not yet read
  wpanel,   \* "boot", "delay", "prompt", "linux", "fastboot"
  resets,   \* restarts of the panel
  stopped,  \* history: at the prompt when that was reported, and no restart since
  lost      \* history: console output was lost since the last banner

watchVars == <<phase, wpc, wbuf, over8, pend, wpanel, resets, stopped, lost>>

Banner == "Hit any key to stop autoboot"
Echo == "fastboot 0"
Listening == "Listening for"

WatchInit ==
  /\ phase = "open" /\ wpc = "read"
  /\ wbuf = {} /\ over8 = FALSE
  /\ pend = {} /\ wpanel = "boot" /\ resets = 0
  /\ stopped = FALSE /\ lost = FALSE

-----------------------------------------------------------------------------
(* External: the panel and the clock. *)

watcher == <<phase, wpc, wbuf>>

PanelBoot ==
  /\ \/ wpanel = "boot" /\ wpanel' = "delay" /\ pend' = pend \cup {Banner} /\ lost' = FALSE
     \/ wpanel = "delay" /\ wpanel' = "linux" /\ UNCHANGED <<pend, lost>>
     \/ /\ wpanel = "fastboot" /\ Listening \notin pend
        /\ pend' = pend \cup {Listening} /\ UNCHANGED <<wpanel, lost>>
  /\ UNCHANGED <<watcher, over8, resets, stopped>>

Restart ==
  /\ resets < MaxResets
  /\ wpanel' = "boot" /\ resets' = resets + 1
  /\ stopped' = FALSE
  /\ UNCHANGED <<watcher, over8, pend, lost>>

EightSeconds ==
  /\ phase = "fastboot_sent" /\ wpc \in {"read", "act"} /\ ~over8
  /\ over8' = TRUE
  /\ UNCHANGED <<watcher, pend, wpanel, resets, stopped, lost>>

\* A key that reaches the panel stops a running countdown.
Key == wpanel' = IF wpanel = "delay" THEN "prompt" ELSE wpanel

-----------------------------------------------------------------------------
(* The watcher. *)

\* _Ser(): the probe is configured, or does not answer.
Open ==
  /\ phase = "open"
  /\ phase' \in {"wait_uboot", "dead"}
  /\ UNCHANGED <<wpc, wbuf, over8, pend, wpanel, resets, stopped, lost>>

Running == phase \notin {"open", "dead"}

\* Mutant: what was read is not added to the buffer.
Read_cut ==
  /\ Running /\ wpc = "read"
  /\ wbuf' = {} /\ pend' = {}
  /\ wpc' = "act"
  /\ UNCHANGED <<phase, over8, wpanel, resets, stopped, lost>>

\* ser.read and the limit on buf.
Read ==
  /\ Running /\ wpc = "read"
  /\ wbuf' = wbuf \cup pend /\ pend' = {}
  /\ wpc' = "act"
  /\ UNCHANGED <<phase, over8, wpanel, resets, stopped, lost>>

\* The request fails (the probe may have handed out the bytes), or it returns
\* more than 16384 bytes, of which the last 8192 are kept.
ReadLost ==
  /\ Running /\ wpc = "read" /\ pend # {}
  /\ \/ pend' \in {pend, {}} /\ UNCHANGED wbuf
     \/ pend' = {} /\ wbuf' = {}
  /\ lost' = TRUE
  /\ wpc' = "act"
  /\ UNCHANGED <<phase, over8, wpanel, resets, stopped>>

\* A write that raises ends the program, whether it reached the panel or not.
WriteFail ==
  /\ wpc \in {"spam", "cr", "cmd", "cr2"}
  /\ phase' = "dead" /\ wpc' = "read"
  /\ (UNCHANGED wpanel \/ Key)
  /\ UNCHANGED <<wbuf, over8, pend, resets, stopped, lost>>

SeeBanner ==
  /\ phase = "wait_uboot" /\ wpc = "act" /\ Banner \in wbuf
  /\ wpc' = "spam"
  /\ UNCHANGED <<phase, wbuf, over8, pend, wpanel, resets, stopped, lost>>

\* One of the 120 writes, and the 120th.
Spam ==
  /\ wpc = "spam" /\ wpanel = "delay"
  /\ Key
  /\ UNCHANGED <<watcher, over8, pend, resets, stopped, lost>>

\* Mutant: the phase is not set.
SpamEnd_again ==
  /\ wpc = "spam"
  /\ wpc' = "read"
  /\ wbuf' = {} /\ pend' \in {pend, {}}
  /\ stopped' = (wpanel = "prompt")
  /\ UNCHANGED <<phase, over8, wpanel, resets, lost>>

\* Drained, and reported as AT_UBOOT_PROMPT. phase_t is a time before the spam,
\* so the second the next phase waits is already over.
SpamEnd ==
  /\ wpc = "spam"
  /\ phase' = "at_uboot" /\ wpc' = "read"
  /\ wbuf' = {} /\ pend' \in {pend, {}}
  /\ stopped' = (wpanel = "prompt")
  /\ UNCHANGED <<over8, wpanel, resets, lost>>

TypeCr ==
  /\ phase = "at_uboot" /\ wpc \in {"act", "cr"}
  /\ wpc' = IF wpc = "act" THEN "cr" ELSE "cmd"
  /\ IF wpc = "cr" THEN Key ELSE UNCHANGED wpanel
  /\ UNCHANGED <<phase, wbuf, over8, pend, resets, stopped, lost>>

\* Mutant: the command goes out without the return that ends it.
TypeFastboot_open ==
  /\ wpc = "cmd"
  /\ pend' = pend \cup {Echo}
  /\ wpc' = "cr2"
  /\ UNCHANGED <<phase, wbuf, over8, wpanel, resets, stopped, lost>>

\* "fastboot 0": U-Boot runs it; anything else may echo it.
TypeFastboot ==
  /\ wpc = "cmd"
  /\ \/ wpanel = "prompt" /\ wpanel' = "fastboot" /\ pend' = pend \cup {Echo}
     \/ wpanel # "prompt" /\ Key /\ pend' \in {pend, pend \cup {Echo}}
  /\ wpc' = "cr2"
  /\ UNCHANGED <<phase, wbuf, over8, resets, stopped, lost>>

\* The last return, reported as FASTBOOT_CMD_SENT.
TypeEnd ==
  /\ wpc = "cr2"
  /\ Key
  /\ phase' = "fastboot_sent" /\ wpc' = "read"
  /\ wbuf' = {} /\ over8' = FALSE
  /\ UNCHANGED <<pend, resets, stopped, lost>>

\* Reported as IN_FASTBOOT_MODE.
Report ==
  /\ phase = "fastboot_sent" /\ wpc = "act"
  /\ Listening \in wbuf \/ Echo \in wbuf \/ over8
  /\ phase' = "idle" /\ wpc' = "read"
  /\ UNCHANGED <<wbuf, over8, pend, wpanel, resets, stopped, lost>>

\* Nothing to do in this round.
Again ==
  /\ wpc = "act"
  /\ \/ phase = "wait_uboot" /\ Banner \notin wbuf
     \/ phase = "fastboot_sent" /\ Listening \notin wbuf /\ Echo \notin wbuf /\ ~over8
     \/ phase = "idle"
  /\ wpc' = "read"
  /\ UNCHANGED <<phase, wbuf, over8, pend, wpanel, resets, stopped, lost>>

Watcher ==
  \/ Open \/ Read \/ ReadLost \/ WriteFail \/ SeeBanner \/ SpamEnd
  \/ TypeCr \/ TypeFastboot \/ TypeEnd \/ Report \/ Again

Dead == phase = "dead" /\ UNCHANGED watchVars

WatchNext == PanelBoot \/ Restart \/ EightSeconds \/ Spam \/ Watcher \/ Dead

WatchSpec == WatchInit /\ [][WatchNext]_watchVars /\ WF_watchVars(Watcher) /\ WF_watchVars(EightSeconds)

-----------------------------------------------------------------------------
(* Properties. *)

\* Where the reports are true: a panel that was at the prompt when that was
\* reported, and has not restarted since, is in fastboot when that is reported
\* (lines 53-76).
ReportTrueIfStopped == phase = "idle" /\ stopped => wpanel = "fastboot"

\* A panel that the spam has stopped is not left at the prompt: it goes on to
\* fastboot, or it restarts, or the watcher has died of a failed write.
NotLeftAtPrompt ==
  (wpanel = "prompt" /\ phase = "wait_uboot") ~> (wpanel # "prompt" \/ phase = "dead")

\* A banner on the console sets the watcher off, unless output was lost after it
\* or the watcher died: one that was lost does not keep the watcher from noticing
\* the next (lines 46-61).
BannerNoticed ==
  (phase = "wait_uboot" /\ Banner \in pend) ~> (phase \in {"at_uboot", "dead"} \/ lost)
=============================================================================
