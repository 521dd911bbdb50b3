---------------------------- MODULE ConfigStore ----------------------------
(***************************************************************************)
(* What staging a configuration promises, told without partitions, mounts  *)
(* or page caches (CONFIG-PARTITION.md, "Consume-once"). A complete offer  *)
(* is the device's until every setting it carries has reached the base;    *)
(* only then may it be accepted. Before that, only a newer blob that is    *)
(* being staged takes it away. Apart from the offer, nothing but the       *)
(* running system in maintenance changes the base. The configuration the   *)
(* device has is Overlay(offer, base): it takes an offer as a whole when   *)
(* the offer is complete, and no Apply or Accept is visible in it.         *)
(***************************************************************************)
CONSTANTS Keys, Values, Unset

VARIABLES
  base,   \* the settings on the eMMC
  offer,  \* the pending offer; all Unset when there is none
  phase   \* a newer blob is being staged ("staging"), the running system may
          \* write the rootfs ("open"), or neither ("sealed")

vars == <<base, offer, phase>>

Config == [Keys -> Values \cup {Unset}]

NoConfig == [k \in Keys |-> Unset]

\* The keys a configuration sets.
Domain(c) == {k \in Keys : c[k] # Unset}

\* d with the keys that c sets overwritten.
Overlay(c, d) == [k \in Keys |-> IF c[k] = Unset THEN d[k] ELSE c[k]]

Init ==
  /\ base \in [Keys -> Values]
  /\ offer = NoConfig
  /\ phase = "sealed"

\* A newer blob begins to overwrite the pending offer, if there is one.
Withdraw ==
  /\ phase = "sealed" /\ phase' = "staging"
  /\ offer' = NoConfig
  /\ UNCHANGED base

\* The blob being staged is complete.
Offer(c) ==
  /\ phase = "staging" /\ phase' = "sealed"
  /\ offer' = c
  /\ UNCHANGED base

\* Some settings of the offer reach the base.
Apply(K) ==
  /\ phase # "staging"
  /\ base' = [k \in Keys |-> IF k \in K THEN offer[k] ELSE base[k]]
  /\ UNCHANGED <<offer, phase>>

\* The offer is consumed, all of it being in the base.
Accept ==
  /\ Overlay(offer, base) = base
  /\ offer' = NoConfig
  /\ UNCHANGED <<base, phase>>

\* Only the running system, in maintenance, writes settings of its own. The
\* last of them may land as it stops.
Edit ==
  /\ phase = "open" /\ phase' \in {"open", "sealed"}
  /\ base' \in [Keys -> Values]
  /\ UNCHANGED offer

\* The rootfs is opened or sealed, or a transfer breaks off.
Turn ==
  /\ phase' = "sealed" \/ (phase = "sealed" /\ phase' = "open")
  /\ UNCHANGED <<base, offer>>

Next ==
  \/ Withdraw
  \/ \E c \in Config : Offer(c)
  \/ \E K \in SUBSET Domain(offer) : Apply(K)
  \/ Accept
  \/ Edit
  \/ Turn

Spec == Init /\ [][Next]_vars
=============================================================================
