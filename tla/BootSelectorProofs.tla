------------------------- MODULE BootSelectorProofs -------------------------
(***************************************************************************)
(* BootSelector, for every set of settings, every GPT and every number of  *)
(* tries. The inductive invariant says what is mounted at each place of    *)
(* the script, that a dirty page outside the running system belongs to a   *)
(* blob that is still valid, and how far the applier has come.             *)
(***************************************************************************)
EXTENDS BootSelector, TLAPS

Early == {"off", "fastboot", "staging", "poll", "mode", "config"}

\* What is mounted where.
MountInv ==
  /\ pc \in Early \cup {"mount"} =>
        newroot = "none" /\ lower = "none" /\ binds = {} /\ root = "none"
  /\ pc \in {"chroot", "unbind", "umount"} =>
        newroot = "rw" /\ lower = "none" /\ root = "none"
  /\ pc = "overlay" => newroot = "none" /\ lower = "ro" /\ binds = {} /\ root = "none"
  /\ pc = "fallback" => newroot = "none" /\ binds = {} /\ root = "none"
  /\ pc \in {"switch", "run"} =>
        /\ binds = {}
        /\ \/ root \in {"direct", "fallback"} /\ newroot = "rw" /\ lower = "none"
           \/ root = "overlay" /\ newroot = "overlay" /\ lower = "ro"

\* Where the page cache is clean, and what a dirty page is worth elsewhere.
CleanInv ==
  /\ pc \in Early \cup {"mount", "overlay", "fallback", "switch"} => dirty = NoConfig
  /\ pc = "run" /\ root = "overlay" => dirty = NoConfig

DirtyInv ==
  \A k \in Keys :
    dirty[k] # Unset =>
      \/ pc = "run" /\ newroot = "rw"
      \/ blob = "whole" /\ cfg[k] = dirty[k]

\* What the applier wrote is in the page cache or already on the eMMC.
WrittenInv ==
  /\ pc \in Early => written = {}
  /\ pc = "chroot" =>
       \A k \in written :
         dirty[k] = cfg[k] \/ (dirty[k] = Unset /\ disk[k] = cfg[k])

\* While fastboot writes the blob, its digest does not match.
StagingInv == pc = "staging" => blob = "torn"

\* The decision, and the wait before it that makes it right.
ModeInv ==
  /\ pc \in {"poll", "mode"} => mode = override
  /\ pc \in InitSteps \ {"poll"} => nprobed = RootPos
  /\ pc \in InitSteps \ {"poll", "mode"} => (mode = "rw" <=> WantRW)
  /\ pc \in {"overlay", "fallback"} => mode # "rw"
  /\ pc = "switch" => (root = "direct" <=> mode = "rw")

IInv == /\ TypeOK /\ MountInv /\ CleanInv /\ DirtyInv /\ WrittenInv /\ StagingInv
        /\ ModeInv
-----------------------------------------------------------------------------

\* Every action of Next by name, so that each proof can take them one by one.
LEMMA NextCases ==
  ASSUME Next
  PROVE  \/ PollHit \/ PollMiss \/ PollTimeout \/ DecideMode
         \/ ConfigSkip \/ ConfigMountFail \/ ConfigMount
         \/ (\E k \in Keys : ApplyWrite(k)) \/ ApplySync \/ ApplyConsume \/ ApplyExit
         \/ Unbind \/ UmountOk \/ UmountBusy
         \/ MountDirect \/ MountLower \/ MountFail
         \/ OverlayOk \/ OverlayFail \/ FallbackMount \/ FallbackFail
         \/ SwitchRoot \/ SwitchRootFail
         \/ Probe \/ (\E k \in Keys : Writeback(k)) \/ PanicReboot
         \/ (\E k \in Keys, v \in Values : Edit(k, v))
         \/ (\E m \in {"plain", "flagged"} : SetMode(m)) \/ FormatFacres \/ Shutdown
         \/ PowerOn \/ PowerCut \/ RescueExit \/ EnterFastboot
         \/ (\E c \in Config : StageBegin(c)) \/ StageEnd \/ FastbootReboot
BY DEF Next, InitStep, Kernel, System, Operator, Poll, ConfigStep, Apply,
       Umount, Mount, OverlayStep, Fallback, Switch

\* The page cache written out is a rootfs: every setting has a value.
LEMMA FlushedType == TypeOK => Flushed \in [Keys -> Values]
BY UnsetAssumption DEF TypeOK, Flushed, Config

\* Losing everything in RAM leaves a well-typed volatile state.
LEMMA PowerLossType ==
  ASSUME PowerLoss
  PROVE  /\ pc' \in Places /\ override' \in Modes /\ mode' \in Modes
         /\ nprobed' \in 0 .. RootPos /\ tries' \in 0 .. MaxTries
         /\ newroot' \in Newroots /\ lower' \in Lowers /\ root' \in Roots
         /\ binds' \in SUBSET Binds /\ dirty' \in Config
         /\ written' \in SUBSET Keys /\ why' \in Reasons
<1>1. pc' \in Places /\ override' \in Modes /\ mode' \in Modes
  BY DEF PowerLoss, Places, Modes
<1>2. newroot' \in Newroots /\ lower' \in Lowers /\ root' \in Roots /\ why' \in Reasons
  BY DEF PowerLoss, Newroots, Lowers, Roots, Reasons
<1>3. nprobed' \in 0 .. RootPos /\ tries' \in 0 .. MaxTries
  <2>1. nprobed' = 0 /\ tries' = 0
    BY DEF PowerLoss
  <2>. QED  BY <2>1, PositionAssumption, TriesAssumption
<1>4. binds' \in SUBSET Binds
  BY DEF PowerLoss
<1>5. written' \in SUBSET Keys
  BY DEF PowerLoss
<1>6. dirty' \in Config
  BY DEF PowerLoss, Config, NoConfig
<1>. QED  BY <1>1, <1>2, <1>3, <1>4, <1>5, <1>6

\* Each step of the script and of its environment keeps the types.
LEMMA TypeStep == ASSUME TypeOK, [Next]_vars PROVE TypeOK'
<1>. USE DEF TypeOK, durable, mounts, boot
<1>1. CASE PollHit
  BY <1>1 DEF PollHit, Places, InitSteps
<1>2. CASE PollMiss
  BY <1>2, TriesAssumption DEF PollMiss
<1>3. CASE PollTimeout
  BY <1>3 DEF PollTimeout, rescue, Places, InitSteps, Reasons
<1>4. CASE DecideMode
  BY <1>4 DEF DecideMode, Places, InitSteps, Modes
<1>5. CASE ConfigSkip
  BY <1>5 DEF ConfigSkip, Places, InitSteps
<1>6. CASE ConfigMountFail
  BY <1>6 DEF ConfigMountFail, Places, InitSteps
<1>7. CASE ConfigMount
  BY <1>7 DEF ConfigMount, Places, InitSteps, Newroots
<1>8. CASE \E k \in Keys : ApplyWrite(k)
  BY <1>8 DEF ApplyWrite, Applying, Needed, Config
<1>9. CASE ApplySync
  BY <1>9, FlushedType DEF ApplySync, Applying, Flush, Config, NoConfig
<1>10. CASE ApplyConsume
  BY <1>10 DEF ApplyConsume, Applying, Places, InitSteps, BlobStates
<1>11. CASE ApplyExit
  BY <1>11 DEF ApplyExit, Places, InitSteps
<1>12. CASE Unbind
  BY <1>12 DEF Unbind, Places, InitSteps
<1>13. CASE UmountOk
  BY <1>13, FlushedType DEF UmountOk, Flush, Places, InitSteps, Config, NoConfig, Newroots
<1>14. CASE UmountBusy
  BY <1>14 DEF UmountBusy, rescue, Places, InitSteps, Reasons
<1>15. CASE MountDirect
  BY <1>15 DEF MountDirect, Places, InitSteps, Newroots, Roots
<1>16. CASE MountLower
  BY <1>16 DEF MountLower, Places, InitSteps, Lowers
<1>17. CASE MountFail
  BY <1>17 DEF MountFail, rescue, Places, InitSteps, Reasons
<1>18. CASE OverlayOk
  BY <1>18 DEF OverlayOk, Places, InitSteps, Newroots, Roots
<1>19. CASE OverlayFail
  BY <1>19 DEF OverlayFail, Places, InitSteps
<1>20. CASE FallbackMount
  BY <1>20 DEF FallbackMount, Places, InitSteps, Newroots, Roots
<1>21. CASE FallbackFail
  BY <1>21 DEF FallbackFail, rescue, Places, InitSteps, Reasons
<1>22. CASE SwitchRoot
  BY <1>22 DEF SwitchRoot, Places, InitSteps
<1>23. CASE SwitchRootFail
  BY <1>23 DEF SwitchRootFail, Places, InitSteps
<1>24. CASE Probe
  BY <1>24, PositionAssumption DEF Probe
<1>25. CASE \E k \in Keys : Writeback(k)
  BY <1>25 DEF Writeback, Config
<1>26. CASE PanicReboot
  BY <1>26, PowerLossType DEF PanicReboot
<1>27. CASE \E k \in Keys, v \in Values : Edit(k, v)
  BY <1>27 DEF Edit, Config
<1>28. CASE \E m \in {"plain", "flagged"} : SetMode(m)
  BY <1>28 DEF SetMode, FacresStates
<1>29. CASE FormatFacres
  BY <1>29 DEF FormatFacres, FacresStates
<1>30. CASE Shutdown
  BY <1>30, FlushedType, PowerLossType DEF Shutdown
<1>31. CASE PowerOn
  BY <1>31, OverridesAssumption, PositionAssumption DEF PowerOn, Places, InitSteps
<1>32. CASE PowerCut
  BY <1>32, PowerLossType DEF PowerCut
<1>33. CASE RescueExit
  BY <1>33, PowerLossType DEF RescueExit
<1>34. CASE EnterFastboot
  BY <1>34 DEF EnterFastboot, Places, InitSteps
<1>35. CASE \E c \in Config : StageBegin(c)
  BY <1>35 DEF StageBegin, Places, InitSteps, BlobStates
<1>36. CASE StageEnd
  BY <1>36 DEF StageEnd, Places, InitSteps, BlobStates
<1>37. CASE FastbootReboot
  BY <1>37, PowerLossType DEF FastbootReboot
<1>38. CASE UNCHANGED vars
  BY <1>38 DEF vars
<1>. QED
  BY <1>1, <1>2, <1>3, <1>4, <1>5, <1>6, <1>7, <1>8, <1>9, <1>10, <1>11,
     <1>12, <1>13, <1>14, <1>15, <1>16, <1>17, <1>18, <1>19, <1>20, <1>21,
     <1>22, <1>23, <1>24, <1>25, <1>26, <1>27, <1>28, <1>29, <1>30, <1>31,
     <1>32, <1>33, <1>34, <1>35, <1>36, <1>37, <1>38, NextCases

\* Each place of the script finds the mounts that the places before it left.
LEMMA MountStep == ASSUME IInv, TypeOK', [Next]_vars PROVE MountInv'
<1>. USE DEF IInv, MountInv, Early, InitSteps, durable, mounts, boot
<1>1. CASE InitStep
  BY <1>1 DEF InitStep, Poll, PollHit, PollMiss, PollTimeout, DecideMode,
     ConfigStep, ConfigSkip, ConfigMountFail, ConfigMount, Apply, ApplyWrite,
     ApplySync, ApplyConsume, ApplyExit, Applying, Unbind, Umount, UmountOk,
     UmountBusy, Mount, MountDirect, MountLower, MountFail, OverlayStep,
     OverlayOk, OverlayFail, Fallback, FallbackMount, FallbackFail, Switch,
     SwitchRoot, SwitchRootFail, rescue
<1>2. CASE Kernel
  BY <1>2 DEF Kernel, Probe, Writeback, PanicReboot, PowerLoss
<1>3. CASE System
  BY <1>3 DEF System, Edit, SetMode, FormatFacres, Shutdown, PowerLoss
<1>4. CASE Operator
  BY <1>4 DEF Operator, PowerOn, PowerCut, RescueExit, EnterFastboot,
     StageBegin, StageEnd, FastbootReboot, PowerLoss
<1>5. CASE UNCHANGED vars
  BY <1>5 DEF vars
<1>. QED
  BY <1>1, <1>2, <1>3, <1>4, <1>5 DEF Next

\* The umount after the config step, and losing RAM, clean the page cache.
LEMMA CleanStep == ASSUME IInv, TypeOK', [Next]_vars PROVE CleanInv'
<1>. USE DEF IInv, CleanInv, MountInv, Early, NoConfig, durable, mounts, boot
<1>1. CASE InitStep
  BY <1>1 DEF InitStep, Poll, PollHit, PollMiss, PollTimeout, DecideMode,
     ConfigStep, ConfigSkip, ConfigMountFail, ConfigMount, Apply, ApplyWrite,
     ApplySync, ApplyConsume, ApplyExit, Applying, Unbind, Umount, UmountOk,
     UmountBusy, Mount, MountDirect, MountLower, MountFail, OverlayStep,
     OverlayOk, OverlayFail, Fallback, FallbackMount, FallbackFail, Switch,
     SwitchRoot, SwitchRootFail, rescue, Flush
<1>2. CASE Kernel
  BY <1>2 DEF Kernel, Probe, Writeback, PanicReboot, PowerLoss
<1>3. CASE System
  BY <1>3 DEF System, Edit, SetMode, FormatFacres, Shutdown, PowerLoss
<1>4. CASE Operator
  BY <1>4 DEF Operator, PowerOn, PowerCut, RescueExit, EnterFastboot,
     StageBegin, StageEnd, FastbootReboot, PowerLoss
<1>5. CASE UNCHANGED vars
  BY <1>5 DEF vars
<1>. QED
  BY <1>1, <1>2, <1>3, <1>4, <1>5 DEF Next

\* A blob is consumed only over a clean page cache, and staged only over one.
LEMMA DirtyStep == ASSUME IInv, TypeOK', [Next]_vars PROVE DirtyInv'
<1>. USE DEF IInv, DirtyInv, MountInv, CleanInv, TypeOK, Early, Config,
          NoConfig, durable, mounts, boot
<1>1. CASE InitStep
  <2>1. CASE \E k \in Keys : ApplyWrite(k)
    BY <2>1 DEF ApplyWrite, Applying, Needed
  <2>2. CASE ApplySync
    BY <2>2 DEF ApplySync, Applying, Flush, Flushed
  <2>3. CASE ApplyConsume \/ ApplyExit \/ Unbind
    BY <2>3 DEF ApplyConsume, ApplyExit, Applying, Unbind, rescue
  <2>4. CASE Umount
    BY <2>4 DEF Umount, UmountOk, UmountBusy, Flush, Flushed, rescue
  <2>5. CASE Poll \/ DecideMode \/ ConfigStep
    BY <2>5 DEF Poll, PollHit, PollMiss, PollTimeout, DecideMode, ConfigStep,
       ConfigSkip, ConfigMountFail, ConfigMount, rescue
  <2>6. CASE Mount \/ OverlayStep
    BY <2>6 DEF Mount, MountDirect, MountLower, MountFail, OverlayStep, OverlayOk,
       OverlayFail, rescue
  <2>7. CASE Fallback \/ Switch
    BY <2>7 DEF Fallback, FallbackMount, FallbackFail, Switch, SwitchRoot,
       SwitchRootFail, rescue
  <2>. QED  BY <1>1, <2>1, <2>2, <2>3, <2>4, <2>5, <2>6, <2>7 DEF InitStep, Apply
<1>2. CASE Kernel
  <2>1. CASE \E k \in Keys : Writeback(k)
    BY <2>1 DEF Writeback
  <2>2. CASE Probe \/ PanicReboot
    BY <2>2 DEF Probe, PanicReboot, PowerLoss
  <2>. QED  BY <1>2, <2>1, <2>2 DEF Kernel
<1>3. CASE System
  BY <1>3 DEF System, Edit, SetMode, FormatFacres, Shutdown, PowerLoss,
     Flushed
<1>4. CASE Operator
  BY <1>4 DEF Operator, PowerOn, PowerCut, RescueExit, EnterFastboot,
     StageBegin, StageEnd, FastbootReboot, PowerLoss
<1>5. CASE UNCHANGED vars
  BY <1>5 DEF vars
<1>. QED
  BY <1>1, <1>2, <1>3, <1>4, <1>5 DEF Next

\* What the applier wrote moves from the page cache to the eMMC, never away.
LEMMA WrittenStep == ASSUME IInv, TypeOK', [Next]_vars PROVE WrittenInv'
<1>. USE DEF IInv, WrittenInv, MountInv, DirtyInv, TypeOK, Early, Config,
          NoConfig, durable, mounts, boot
<1>1. CASE InitStep
  <2>1. CASE \E k \in Keys : ApplyWrite(k)
    BY <2>1 DEF ApplyWrite, Applying, Needed
  <2>2. CASE ApplySync
    BY <2>2 DEF ApplySync, Applying, Flush, Flushed
  <2>3. CASE ApplyConsume \/ ApplyExit \/ Unbind \/ Umount
    BY <2>3 DEF ApplyConsume, ApplyExit, Unbind, Umount, UmountOk, UmountBusy, rescue
  <2>4. CASE Poll \/ DecideMode \/ ConfigStep
    BY <2>4 DEF Poll, PollHit, PollMiss, PollTimeout, DecideMode, ConfigStep,
       ConfigSkip, ConfigMountFail, ConfigMount, rescue
  <2>5. CASE Mount \/ OverlayStep \/ Fallback \/ Switch
    BY <2>5 DEF Mount, MountDirect, MountLower, MountFail, OverlayStep, OverlayOk,
       OverlayFail, Fallback, FallbackMount, FallbackFail, Switch, SwitchRoot,
       SwitchRootFail, rescue
  <2>. QED  BY <1>1, <2>1, <2>2, <2>3, <2>4, <2>5 DEF InitStep, Apply
<1>2. CASE Kernel
  BY <1>2 DEF Kernel, Probe, Writeback, PanicReboot, PowerLoss
<1>3. CASE System
  BY <1>3 DEF System, Edit, SetMode, FormatFacres, Shutdown, PowerLoss,
     Flushed
<1>4. CASE Operator
  BY <1>4 DEF Operator, PowerOn, PowerCut, RescueExit, EnterFastboot,
     StageBegin, StageEnd, FastbootReboot, PowerLoss
<1>5. CASE UNCHANGED vars
  BY <1>5 DEF vars
<1>. QED
  BY <1>1, <1>2, <1>3, <1>4, <1>5 DEF Next

\* Only the end of the transfer completes the blob it began.
LEMMA StagingStep == ASSUME IInv, TypeOK', [Next]_vars PROVE StagingInv'
<1>. USE DEF IInv, StagingInv, durable, mounts, boot
<1>1. CASE InitStep
  BY <1>1 DEF InitStep, Poll, PollHit, PollMiss, PollTimeout, DecideMode,
     ConfigStep, ConfigSkip, ConfigMountFail, ConfigMount, Apply, ApplyWrite,
     ApplySync, ApplyConsume, ApplyExit, Applying, Unbind, Umount, UmountOk,
     UmountBusy, Mount, MountDirect, MountLower, MountFail, OverlayStep,
     OverlayOk, OverlayFail, Fallback, FallbackMount, FallbackFail, Switch,
     SwitchRoot, SwitchRootFail, rescue
<1>2. CASE Kernel
  BY <1>2 DEF Kernel, Probe, Writeback, PanicReboot, PowerLoss
<1>3. CASE System
  BY <1>3 DEF System, Edit, SetMode, FormatFacres, Shutdown, PowerLoss
<1>4. CASE Operator
  BY <1>4 DEF Operator, PowerOn, PowerCut, RescueExit, EnterFastboot,
     StageBegin, StageEnd, FastbootReboot, PowerLoss
<1>5. CASE UNCHANGED vars
  BY <1>5 DEF vars
<1>. QED
  BY <1>1, <1>2, <1>3, <1>4, <1>5 DEF Next

\* Table order: once the rootfs is visible, so is facres, if there is one.
LEMMA FacresVisible ==
  nprobed = RootPos => (find_partlabel(FacresPos) <=> FacresPos # 0)
BY PositionAssumption DEF find_partlabel

LEMMA StillProbing == nprobed < RootPos /\ nprobed \in 0 .. RootPos => nprobed # RootPos
BY PositionAssumption

\* The decision is taken with facres visible, and nothing it read changes later.
LEMMA ModeStep == ASSUME IInv, TypeOK', [Next]_vars PROVE ModeInv'
<1>. USE DEF IInv, ModeInv, MountInv, Early, InitSteps, WantRW, durable,
          mounts, boot
<1>1. CASE InitStep
  <2>1. CASE PollHit
    <3>1. nprobed = RootPos
      BY <2>1, PositionAssumption DEF PollHit, find_partlabel, TypeOK
    <3>. QED  BY <2>1, <3>1 DEF PollHit
  <2>2. CASE DecideMode
    <3>1. FlagSeen <=> FacresPos # 0 /\ facres = "flagged"
      <4>1. nprobed = RootPos
        BY <2>2 DEF DecideMode
      <4>2. find_partlabel(FacresPos) <=> FacresPos # 0
        BY <4>1, FacresVisible
      <4>. QED  BY <4>2 DEF FlagSeen
    <3>2. mode' = "rw" <=> WantRW'
      BY <2>2, <3>1 DEF DecideMode
    <3>. QED  BY <2>2, <3>2 DEF DecideMode
  <2>3. CASE PollMiss \/ PollTimeout \/ ConfigStep \/ Apply \/ Unbind \/ Umount
    BY <2>3 DEF PollMiss, PollTimeout, ConfigStep, ConfigSkip, ConfigMountFail,
       ConfigMount, Apply, ApplyWrite, ApplySync, ApplyConsume, ApplyExit, Applying,
       Unbind, Umount, UmountOk, UmountBusy, rescue
  <2>4. CASE Mount \/ OverlayStep \/ Fallback \/ Switch
    BY <2>4 DEF Mount, MountDirect, MountLower, MountFail, OverlayStep, OverlayOk,
       OverlayFail, Fallback, FallbackMount, FallbackFail, Switch, SwitchRoot,
       SwitchRootFail, rescue
  <2>. QED  BY <1>1, <2>1, <2>2, <2>3, <2>4 DEF InitStep, Poll
<1>2. CASE Kernel
  <2>1. CASE Probe
    <3>1. nprobed < RootPos /\ nprobed \in 0 .. RootPos
      BY <2>1 DEF Probe, TypeOK
    <3>2. nprobed # RootPos
      BY <3>1, StillProbing
    <3>3. pc \notin InitSteps \ {"poll"}
      BY <3>2
    <3>. QED  BY <2>1, <3>3 DEF Probe
  <2>2. CASE (\E k \in Keys : Writeback(k)) \/ PanicReboot
    BY <2>2 DEF Writeback, PanicReboot, PowerLoss
  <2>. QED  BY <1>2, <2>1, <2>2 DEF Kernel
<1>3. CASE System
  BY <1>3 DEF System, Edit, SetMode, FormatFacres, Shutdown, PowerLoss
<1>4. CASE Operator
  BY <1>4 DEF Operator, PowerOn, PowerCut, RescueExit, EnterFastboot,
     StageBegin, StageEnd, FastbootReboot, PowerLoss
<1>5. CASE UNCHANGED vars
  BY <1>5 DEF vars
<1>. QED
  BY <1>1, <1>2, <1>3, <1>4, <1>5 DEF Next

\* A panel that is off satisfies the invariant.
LEMMA InitInv == Init => IInv
<1>. SUFFICES ASSUME Init PROVE IInv
  OBVIOUS
<1>1. TypeOK
  <2>1. blob \in BlobStates /\ facres \in FacresStates /\ pc \in Places
    BY DEF Init, BlobStates, FacresStates, Places
  <2>2. override \in Modes /\ mode \in Modes /\ why \in Reasons
    BY DEF Init, Modes, Reasons
  <2>3. newroot \in Newroots /\ lower \in Lowers /\ root \in Roots
    BY DEF Init, Newroots, Lowers, Roots
  <2>4. nprobed = 0 /\ tries = 0 /\ binds = {} /\ written = {}
    BY DEF Init
  <2>5. cfg \in Config /\ dirty \in Config /\ disk \in [Keys -> Values]
    BY DEF Init, Config, NoConfig
  <2>. QED
    BY <2>1, <2>2, <2>3, <2>4, <2>5, PositionAssumption, TriesAssumption DEF TypeOK
<1>2. MountInv /\ CleanInv /\ WrittenInv
  BY DEF Init, MountInv, CleanInv, WrittenInv, Early
<1>3. DirtyInv
  BY DEF Init, DirtyInv, NoConfig
<1>4. StagingInv /\ ModeInv
  BY DEF Init, StagingInv, ModeInv, InitSteps
<1>. QED  BY <1>1, <1>2, <1>3, <1>4 DEF IInv

LEMMA InvStep == IInv /\ [Next]_vars => IInv'
<1>. SUFFICES ASSUME IInv, [Next]_vars PROVE IInv'
  OBVIOUS
<1>1. TypeOK'
  BY TypeStep DEF IInv
<1>. QED
  BY <1>1, MountStep, CleanStep, DirtyStep, WrittenStep, StagingStep,
     ModeStep DEF IInv

\* The inductive invariant holds in every state the panel can reach.
THEOREM Invariance == Spec => []IInv
BY InitInv, InvStep, PTL DEF Spec

\* The variables keep their types through every boot.
THEOREM TypeCorrect == Spec => []TypeOK
<1>1. IInv => TypeOK
  BY DEF IInv
<1>. QED  BY <1>1, Invariance, PTL

\* Whatever the GPT, the number of tries and the race with the eMMC, init
\* hands over direct-rw exactly when it was asked to.
THEOREM ModeCorrect == Spec => []ModeMatchesIntent
<1>1. IInv => ModeMatchesIntent
  BY DEF IInv, ModeInv, ModeMatchesIntent, InitSteps
<1>. QED  BY <1>1, Invariance, PTL

\* Whatever the config step went through, the handover is clean.
THEOREM HandoverCorrect == Spec => []CleanHandover
<1>1. IInv => CleanHandover
  BY DEF IInv, MountInv, CleanInv, CleanHandover
<1>. QED  BY <1>1, Invariance, PTL

\* While a sealed system runs, no page is dirty, so none can reach the eMMC.
THEOREM SealedCorrect == Spec => SealedDiskFrozen
<1>1. IInv /\ [Next]_vars => [pc = "run" /\ root = "overlay" => disk' = disk]_vars
  <2>. SUFFICES ASSUME IInv, Next, pc = "run", root = "overlay"
                PROVE  disk' = disk
    BY DEF vars, durable
  <2>1. dirty = NoConfig /\ disk \in [Keys -> Values]
    BY DEF IInv, CleanInv, TypeOK
  <2>2. Flushed = disk
    BY <2>1 DEF Flushed, NoConfig
  <2>3. CASE InitStep
    BY <2>3 DEF InitStep, Poll, PollHit, PollMiss, PollTimeout, DecideMode, ConfigStep,
       ConfigSkip, ConfigMountFail, ConfigMount, Apply, ApplyWrite, ApplySync,
       ApplyConsume, ApplyExit, Applying, Unbind, Umount, UmountOk, UmountBusy, Mount,
       MountDirect, MountLower, MountFail, OverlayStep, OverlayOk, OverlayFail,
       Fallback, FallbackMount, FallbackFail, Switch, SwitchRoot, SwitchRootFail
  <2>4. CASE Kernel
    BY <2>1, <2>4 DEF Kernel, Probe, Writeback, PanicReboot, NoConfig, durable
  <2>5. CASE System
    BY <2>2, <2>5 DEF System, Edit, SetMode, FormatFacres, Shutdown, durable
  <2>6. CASE Operator
    BY <2>6 DEF Operator, PowerOn, PowerCut, RescueExit, EnterFastboot, StageBegin,
       StageEnd, FastbootReboot, durable
  <2>. QED  BY <2>3, <2>4, <2>5, <2>6 DEF Next
<1>. QED  BY <1>1, Invariance, PTL DEF Spec, SealedDiskFrozen

-----------------------------------------------------------------------------
(* The refinement of ConfigStore. *)

\* The abstract state is unchanged by a step that leaves the blob and the eMMC
\* alone and neither opens nor seals the rootfs.
LEMMA Stutter ==
  ASSUME UNCHANGED <<blob, cfg, disk>>, Phase' = Phase
  PROVE  UNCHANGED Store!vars
BY DEF Store!vars, Offered, NoConfig

LEMMA OfferedSame == ASSUME UNCHANGED <<blob, cfg>> PROVE Offered' = Offered
BY DEF Offered, NoConfig

\* Pages written back outside the running system are settings of the offer:
\* they belong to a blob that is still whole.
LEMMA FlushApplies ==
  ASSUME IInv, Phase = "sealed", Phase' = "sealed", UNCHANGED <<blob, cfg>>,
         disk' \in [Keys -> Values],
         \A k \in Keys : disk'[k] = disk[k] \/ (dirty[k] # Unset /\ disk'[k] = dirty[k])
  PROVE  Store!Next
<1>. DEFINE K == {k \in Keys : disk'[k] # disk[k]}
<1>1. \A k \in K : blob = "whole" /\ cfg[k] = dirty[k] /\ disk'[k] = dirty[k] /\ dirty[k] # Unset
  BY DEF IInv, DirtyInv, Phase
<1>2. \A k \in K : Offered[k] = disk'[k] /\ Offered[k] # Unset
  BY <1>1 DEF Offered
<1>3. K \in SUBSET Store!Domain(Offered)
  BY <1>2 DEF Store!Domain
<1>4. disk' = [k \in Keys |-> IF k \in K THEN Offered[k] ELSE disk[k]]
  BY <1>2
<1>5. Store!Apply(K)
  BY <1>4, OfferedSame DEF Store!Apply
<1>. QED  BY <1>3, <1>5 DEF Store!Next

\* In the running system they may hold anything.
LEMMA FlushEdits ==
  ASSUME IInv', Phase = "open", Phase' \in {"open", "sealed"}, UNCHANGED <<blob, cfg>>
  PROVE  Store!Next
<1>1. disk' \in [Keys -> Values]
  BY DEF IInv, TypeOK
<1>2. Store!Edit
  BY <1>1, OfferedSame DEF Store!Edit
<1>. QED  BY <1>2 DEF Store!Next

LEMMA StoreInit == Init => Store!Init
BY DEF Init, Store!Init, Offered, Phase, NoConfig, Store!NoConfig

\* Every step of a boot is a step of ConfigStore or invisible to it.
LEMMA StoreStep == ASSUME IInv, IInv', Next PROVE [Store!Next]_(Store!vars)
<1>1. CASE Poll \/ DecideMode \/ ConfigStep \/ Unbind \/ UmountBusy \/ Mount
           \/ OverlayStep \/ Fallback \/ SwitchRootFail
  <2>1. UNCHANGED <<blob, cfg, disk>> /\ Phase' = Phase
    BY <1>1 DEF Poll, PollHit, PollMiss, PollTimeout, DecideMode, ConfigStep,
       ConfigSkip, ConfigMountFail, ConfigMount, Unbind, UmountBusy, Mount, MountDirect,
       MountLower, MountFail, OverlayStep, OverlayOk, OverlayFail, Fallback,
       FallbackMount, FallbackFail, SwitchRootFail, rescue, durable, Phase
  <2>. QED  BY <2>1, Stutter
<1>2. CASE ApplyExit \/ \E k \in Keys : ApplyWrite(k)
  <2>1. UNCHANGED <<blob, cfg, disk>> /\ Phase' = Phase
    BY <1>2 DEF ApplyExit, ApplyWrite, Applying, durable, mounts, Phase
  <2>. QED  BY <2>1, Stutter
<1>3. CASE Probe \/ PanicReboot \/ PowerOn \/ RescueExit \/ EnterFastboot \/ FastbootReboot
  <2>1. UNCHANGED <<blob, cfg, disk>> /\ Phase' = Phase
    BY <1>3 DEF Probe, PanicReboot, PowerOn, RescueExit, EnterFastboot,
       FastbootReboot, PowerLoss, durable, mounts, Phase
  <2>. QED  BY <2>1, Stutter
<1>4. CASE (\E k \in Keys, v \in Values : Edit(k, v)) \/ FormatFacres
           \/ \E m \in {"plain", "flagged"} : SetMode(m)
  <2>1. UNCHANGED <<blob, cfg, disk>> /\ Phase' = Phase
    BY <1>4 DEF Edit, FormatFacres, SetMode, durable, mounts, Phase
  <2>. QED  BY <2>1, Stutter
<1>5. CASE SwitchRoot \/ PowerCut
  <2>1. UNCHANGED <<blob, cfg, disk>>
    BY <1>5 DEF SwitchRoot, PowerCut, durable
  <2>2. Phase' = "sealed" \/ (Phase = "sealed" /\ Phase' = "open")
    BY <1>5 DEF SwitchRoot, PowerCut, PowerLoss, mounts, Phase
  <2>3. Store!Turn
    BY <2>1, <2>2, OfferedSame DEF Store!Turn
  <2>. QED  BY <2>3 DEF Store!Next
<1>6. CASE ApplySync \/ UmountOk
  <2>1. UNCHANGED <<blob, cfg>> /\ disk' = Flushed /\ Phase = "sealed" /\ Phase' = "sealed"
    BY <1>6 DEF ApplySync, Applying, UmountOk, Flush, Phase
  <2>2. disk' \in [Keys -> Values]
    BY DEF IInv, TypeOK
  <2>3. \A k \in Keys : disk'[k] = disk[k] \/ (dirty[k] # Unset /\ disk'[k] = dirty[k])
    BY <2>1 DEF Flushed
  <2>. QED  BY <2>1, <2>2, <2>3, FlushApplies
<1>7. CASE ApplyConsume
  <2>1. blob = "whole" /\ blob' = "none" /\ UNCHANGED <<cfg, disk>> /\ Phase' = Phase
    BY <1>7 DEF ApplyConsume, Applying, Phase
  <2>2. \A k \in Keys : cfg[k] # Unset => disk[k] = cfg[k]
    BY <1>7 DEF ApplyConsume, Applying, Needed, IInv, WrittenInv, NoConfig
  <2>3. Store!Overlay(Offered, disk) = disk
    BY <2>1, <2>2 DEF Store!Overlay, Offered, IInv, TypeOK
  <2>4. Offered' = Store!NoConfig
    BY <2>1 DEF Offered, NoConfig, Store!NoConfig
  <2>5. Store!Accept
    BY <2>1, <2>3, <2>4 DEF Store!Accept
  <2>. QED  BY <2>5 DEF Store!Next
<1>8. CASE \E k \in Keys : Writeback(k)
  <2>1. PICK k \in Keys : Writeback(k)
    BY <1>8
  <2>2. UNCHANGED <<blob, cfg>> /\ Phase' = Phase
    BY <2>1 DEF Writeback, mounts, Phase
  <2>3. Phase # "staging"
    BY <2>1 DEF Writeback, Phase, IInv, CleanInv, Early, NoConfig
  <2>4. CASE Phase = "open"
    BY <2>2, <2>4, FlushEdits
  <2>5. CASE Phase = "sealed"
    <3>1. disk' \in [Keys -> Values]
      BY DEF IInv, TypeOK
    <3>2. \A j \in Keys : disk'[j] = disk[j] \/ (dirty[j] # Unset /\ disk'[j] = dirty[j])
      BY <2>1 DEF Writeback, IInv, TypeOK
    <3>. QED  BY <2>2, <2>5, <3>1, <3>2, FlushApplies
  <2>. QED  BY <2>3, <2>4, <2>5 DEF Phase
<1>9. CASE Shutdown
  <2>1. UNCHANGED <<blob, cfg>> /\ disk' = Flushed /\ Phase' = "sealed" /\ Phase # "staging"
    BY <1>9 DEF Shutdown, PowerLoss, Phase
  <2>2. CASE Phase = "open"
    BY <2>1, <2>2, FlushEdits
  <2>3. CASE Phase = "sealed"
    <3>1. disk' \in [Keys -> Values]
      BY DEF IInv, TypeOK
    <3>2. \A k \in Keys : disk'[k] = disk[k] \/ (dirty[k] # Unset /\ disk'[k] = dirty[k])
      BY <2>1 DEF Flushed
    <3>. QED  BY <2>1, <2>3, <3>1, <3>2, FlushApplies
  <2>. QED  BY <2>1, <2>2, <2>3 DEF Phase
<1>10. CASE \E c \in Config : StageBegin(c)
  <2>1. blob' = "torn" /\ disk' = disk /\ Phase = "sealed" /\ Phase' = "staging"
    BY <1>10 DEF StageBegin, Phase
  <2>2. Offered' = Store!NoConfig
    BY <2>1 DEF Offered, NoConfig, Store!NoConfig
  <2>3. Store!Withdraw
    BY <2>1, <2>2 DEF Store!Withdraw
  <2>. QED  BY <2>3 DEF Store!Next
<1>11. CASE StageEnd
  <2>1. blob' = "whole" /\ UNCHANGED <<cfg, disk>> /\ Phase = "staging" /\ Phase' = "sealed"
    BY <1>11 DEF StageEnd, Phase
  <2>2. Offered' = cfg /\ cfg \in Store!Config
    BY <2>1 DEF Offered, Store!Config, Config, IInv, TypeOK
  <2>3. Store!Offer(cfg)
    BY <2>1, <2>2 DEF Store!Offer
  <2>. QED  BY <2>2, <2>3 DEF Store!Next
<1>. QED
  BY <1>1, <1>2, <1>3, <1>4, <1>5, <1>6, <1>7, <1>8, <1>9, <1>10, <1>11, NextCases
     DEF Poll, ConfigStep, Mount, OverlayStep, Fallback

\* The initramfs half of the config blob implements the one-shot, all or
\* nothing message that CONFIG-PARTITION.md promises, for any set of
\* settings, under power cuts at every step and any number of retries: a
\* complete blob goes only when all of it is on the eMMC or when the next one
\* is being staged, and the eMMC takes nothing but its settings meanwhile.
THEOREM Refinement == Spec => ConfigAtomic
<1>1. Init => Store!Init
  BY StoreInit
<1>2. IInv /\ IInv' /\ [Next]_vars => [Store!Next]_(Store!vars)
  <2>1. CASE Next
    BY <2>1, StoreStep
  <2>2. CASE UNCHANGED vars
    BY <2>2 DEF vars, durable, mounts, Store!vars, Offered, Phase, NoConfig
  <2>. QED  BY <2>1, <2>2
<1>. QED  BY <1>1, <1>2, Invariance, PTL DEF Spec, ConfigAtomic, Store!Spec

=============================================================================
