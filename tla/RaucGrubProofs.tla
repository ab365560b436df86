--------------------------- MODULE RaucGrubProofs ---------------------------
(***************************************************************************)
(* Safety of the gadgets that boot with GRUB.                              *)
(***************************************************************************)
EXTENDS RaucGrub, RaucSlotsProofs

\* An empty environment block and the disk that wic builds.
LEMMA InitIInv == Init => IInv
BY SlotsInitIInv DEF Init, IInv, TypeOK, SlotsIInv, System0NeverOnTrial, Slots

\* One run of grub.cfg does not record an attempt at a good system0.
LEMMA BootKeepsIInv == IInv /\ Boot => IInv'
<1> SUFFICES ASSUME IInv, Boot
             PROVE  IInv'
  OBVIOUS
<1>1. default \in Slots /\ visited \subseteq Slots
  BY DEF IInv, TypeOK, default, visited, Other, Slots
<1>2. SlotsIInv'
  BY <1>1, BootIInv DEF IInv, Boot
<1>3. /\ first' = first /\ ok' = ok
      /\ try' \subseteq try \cup visited
  BY DEF Boot, ResetBootedFlags
<1>4. TypeOK'
  BY <1>1, <1>2, <1>3 DEF IInv, TypeOK, SlotsIInv
<1>5. System0NeverOnTrial'
  <2>1. CASE default = "system0"
    BY <1>3, <2>1 DEF Boot, ResetBootedFlags, System0NeverOnTrial
  <2>2. CASE default # "system0"
    <3>1. CASE Bootable(first)
      BY <1>3, <2>2, <3>1
         DEF default, visited, IInv, System0NeverOnTrial
    <3>2. CASE ~Bootable(first)
      <4>1. first = "system0" /\ "system0" \notin ok
        BY <2>2, <3>2
           DEF default, Bootable, IInv, TypeOK, System0NeverOnTrial, Slots,
               Other
      <4> QED
        BY <1>3, <4>1 DEF System0NeverOnTrial
    <3> QED
      BY <3>1, <3>2
  <2> QED
    BY <2>1, <2>2
<1> QED
  BY <1>2, <1>4, <1>5 DEF IInv

\* RAUC clears the attempt at every slot it marks.
LEMMA MarksKeepIInv == IInv /\ (MarkGood \/ MarkBad \/ SetPrimary) => IInv'
<1> SUFFICES ASSUME IInv, MarkGood \/ MarkBad \/ SetPrimary
             PROVE  IInv'
  OBVIOUS
<1>1. SlotsIInv'
  BY StutterIInv, BookkeepingIInv
     DEF IInv, MarkGood, MarkBad, SetPrimary, slotvars
<1>2. Target \in Slots /\ booted \in Slots
  BY OnlyTarget, SlotFacts DEF IInv
<1>3. TypeOK'
  BY <1>1, <1>2
     DEF IInv, TypeOK, SlotsIInv, MarkGood, MarkBad, SetPrimary
<1>4. System0NeverOnTrial'
  BY DEF IInv, System0NeverOnTrial, MarkGood, MarkBad, SetPrimary
<1> QED
  BY <1>1, <1>3, <1>4 DEF IInv

\* Every step of the bootloader, of the initramfs, of RAUC and of the power
\* switch preserves the invariant.
LEMMA NextIInv == IInv /\ [Next]_vars => IInv'
<1> SUFFICES ASSUME IInv, [Next]_vars
             PROVE  IInv'
  OBVIOUS
<1>1. ASSUME SlotsIInv', UNCHANGED grubenv
      PROVE  IInv'
  BY <1>1 DEF IInv, TypeOK, SlotsIInv, System0NeverOnTrial, grubenv
<1>2. CASE Boot
  BY <1>2, BootKeepsIInv
<1>3. CASE MarkGood \/ MarkBad \/ SetPrimary
  BY <1>3, MarksKeepIInv
<1>4. CASE (BeginWrite \/ EndWrite \/ LabelHandler) /\ UNCHANGED grubenv
  BY <1>1, <1>4, BeginWriteIInv, EndWriteIInv, LabelHandlerIInv DEF IInv
<1>5. CASE SwitchRoot /\ UNCHANGED grubenv
  BY <1>1, <1>5, SwitchRootIInv DEF IInv
<1>6. CASE PowerCycle /\ UNCHANGED grubenv
  BY <1>1, <1>6, PowerCycleIInv DEF IInv
<1>7. CASE UNCHANGED vars
  BY <1>1, <1>7, StutterIInv DEF IInv, vars, slotvars, grubenv
<1> QED
  BY <1>2, <1>3, <1>4, <1>5, <1>6, <1>7 DEF Next, Rauc

\* The invariant of the slots and of the environment block holds through every
\* sequence of boots, updates and power failures.
THEOREM InductiveInvariant == Spec => []IInv
BY InitIInv, NextIInv, PTL DEF Spec

\* With GRUB, no root file system whose writing was cut short comes up.
THEOREM HalfWrittenNeverComesUp == Spec => []HalfWrittenNeverUp
<1>1. IInv => HalfWrittenNeverUp
  BY SlotsIInvImplies DEF IInv
<1> QED
  BY <1>1, InductiveInvariant, PTL

\* With GRUB, no slot gets the label of the other one.
THEOREM NoSlotEverMislabelled == Spec => []NoSlotMislabelled
<1>1. IInv => NoSlotMislabelled
  BY SlotsIInvImplies DEF IInv
<1> QED
  BY <1>1, InductiveInvariant, PTL

\* A system0 that is marked good is never on record as being tried.
THEOREM System0IsNeverOnTrial == Spec => []System0NeverOnTrial
<1>1. IInv => System0NeverOnTrial
  BY DEF IInv
<1> QED
  BY <1>1, InductiveInvariant, PTL

=============================================================================
