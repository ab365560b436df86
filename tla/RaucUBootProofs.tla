--------------------------- MODULE RaucUBootProofs --------------------------
(***************************************************************************)
(* Safety of the Raspberry Pi gadget.                                      *)
(***************************************************************************)
EXTENDS RaucUBoot, RaucSlotsProofs

\* The defaults that boot.cmd saves, and the disk that wic builds.
LEMMA InitIInv == Init => IInv
BY SlotsInitIInv, SlotFacts
   DEF Init, IInv, TypeOK, SlotsIInv, SlotsInit, AlwaysAValidSlot, Valid,
       ATTEMPTS

\* boot.cmd starts a kernel only from a slot with attempts left.
LEMMA BootKeepsIInv == IInv /\ Boot => IInv'
<1> SUFFICES ASSUME IInv, Boot
             PROVE  IInv'
  OBVIOUS
<1>1. bootslot \in Valid /\ bootslot \in Slots
  BY SlotFacts DEF IInv, TypeOK, AlwaysAValidSlot, Valid, bootslot
<1>2. /\ booted' = bootslot /\ machine = "off"
      /\ machine' \in { "kernel", "hung" }
      /\ UNCHANGED << slots, install, first, left >>
  BY <1>1 DEF Boot, ubootenv
<1>3. SlotsIInv'
  BY <1>1, <1>2, BootIInv DEF IInv
<1> QED
  BY <1>1, <1>2, <1>3 DEF IInv, TypeOK, SlotsIInv, AlwaysAValidSlot, Valid

\* RAUC takes the attempts of the slot that is not running, and only while the
\* other one is.
LEMMA MarksKeepIInv == IInv /\ (MarkGood \/ MarkBad \/ SetPrimary) => IInv'
<1> SUFFICES ASSUME IInv, MarkGood \/ MarkBad \/ SetPrimary
             PROVE  IInv'
  OBVIOUS
<1>1. SlotsIInv'
  BY StutterIInv, BookkeepingIInv
     DEF IInv, MarkGood, MarkBad, SetPrimary, slotvars
<1>2. Target \in Slots /\ booted \in Slots /\ Target # booted
  BY OnlyTarget, SlotFacts DEF IInv
<1>3. TypeOK'
  BY <1>1, <1>2
     DEF IInv, TypeOK, SlotsIInv, MarkGood, MarkBad, SetPrimary, ATTEMPTS
<1>4. machine = "up" /\ machine' = "up" /\ booted' = booted /\ booted \in Valid
  BY DEF IInv, MarkGood, MarkBad, SetPrimary, BeginInstall, Activate, slotvars
<1>5. booted \in Valid'
  BY <1>2, <1>4
     DEF IInv, TypeOK, Valid, MarkGood, MarkBad, SetPrimary, ATTEMPTS
<1> QED
  BY <1>1, <1>3, <1>4, <1>5 DEF IInv, AlwaysAValidSlot

\* Every step of the bootloader, of the initramfs, of RAUC and of the power
\* switch preserves the invariant.
LEMMA NextIInv == IInv /\ [Next]_vars => IInv'
<1> SUFFICES ASSUME IInv, [Next]_vars
             PROVE  IInv'
  OBVIOUS
<1>1. ASSUME SlotsIInv', UNCHANGED ubootenv, booted' = booted,
             machine' \in { "kernel", "up" } => machine \in { "kernel", "up" }
      PROVE  IInv'
  BY <1>1 DEF IInv, TypeOK, SlotsIInv, AlwaysAValidSlot, Valid, ubootenv
<1>2. CASE Boot
  BY <1>2, BootKeepsIInv
<1>3. CASE MarkGood \/ MarkBad \/ SetPrimary
  BY <1>3, MarksKeepIInv
<1>4. CASE (BeginWrite \/ EndWrite \/ LabelHandler) /\ UNCHANGED ubootenv
  <2>1. SlotsIInv'
    BY <1>4, BeginWriteIInv, EndWriteIInv, LabelHandlerIInv DEF IInv
  <2> QED
    BY <1>1, <1>4, <2>1 DEF BeginWrite, EndWrite, LabelHandler
<1>5. CASE SwitchRoot /\ UNCHANGED ubootenv
  <2>1. SlotsIInv'
    BY <1>5, SwitchRootIInv DEF IInv
  <2> QED
    BY <1>1, <1>5, <2>1 DEF SwitchRoot
<1>6. CASE PowerCycle /\ UNCHANGED ubootenv
  <2>1. SlotsIInv'
    BY <1>6, PowerCycleIInv DEF IInv
  <2> QED
    BY <1>1, <1>6, <2>1 DEF PowerCycle
<1>7. CASE UNCHANGED vars
  BY <1>1, <1>7, StutterIInv DEF IInv, vars, slotvars, ubootenv
<1> QED
  BY <1>2, <1>3, <1>4, <1>5, <1>6, <1>7 DEF Next, Rauc

\* The invariant of the slots and of the U-Boot environment holds through every
\* sequence of boots, updates and power failures.
THEOREM InductiveInvariant == Spec => []IInv
BY InitIInv, NextIInv, PTL DEF Spec

\* boot.cmd always finds a slot with attempts left.
THEOREM ThereIsAlwaysAValidSlot == Spec => []AlwaysAValidSlot
<1>1. IInv => AlwaysAValidSlot
  BY DEF IInv
<1> QED
  BY <1>1, InductiveInvariant, PTL

\* With U-Boot too, no root file system whose writing was cut short comes up
\* and no slot gets the label of the other one.
THEOREM SlotsAreSafe == Spec => [](HalfWrittenNeverUp /\ NoSlotMislabelled)
<1>1. IInv => HalfWrittenNeverUp /\ NoSlotMislabelled
  BY SlotsIInvImplies DEF IInv
<1> QED
  BY <1>1, InductiveInvariant, PTL

=============================================================================
