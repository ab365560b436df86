--------------------------- MODULE RaucSlotsProofs --------------------------
(***************************************************************************)
(* What the steps of RaucSlots preserve whichever bootloader they are      *)
(* combined with.                                                          *)
(***************************************************************************)
EXTENDS RaucSlots, TLAPS

\* There are two slots, and each is the other of the other.
LEMMA SlotFacts ==
    /\ "system0" \in Slots /\ "system1" \in Slots
    /\ \A s \in Slots : /\ Other(s) \in Slots /\ Other(s) # s
                        /\ Other(Other(s)) = s
                        /\ \A t \in Slots : t = s \/ t = Other(s)
                        /\ s # "rootfs-bundle"
BY DEF Slots, Other

\* The disk that wic builds satisfies the invariant.
LEMMA SlotsInitIInv == SlotsInit => SlotsIInv
BY SlotFacts DEF SlotsInit, SlotsIInv, SlotsTypeOK, NoSlotMislabelled, Sound,
                 ByLabel, Target

\* While the machine is up, the labels name at most the slot they should: the
\* target of an installation is the slot that is not running.
LEMMA OnlyTarget ==
    ASSUME SlotsIInv, NEW s \in Slots
    PROVE  /\ \A l \in Slots : s \in ByLabel(l) => s = l
           /\ machine = "up" /\ s \in ByLabel("rootfs-bundle") => s = Target
           /\ machine = "up" /\ image[s] = "partial" => s = Target
           /\ booted \in Slots /\ Target \in Slots /\ Target # booted
BY SlotFacts
   DEF SlotsIInv, SlotsTypeOK, NoSlotMislabelled, ByLabel, Sound, Target

\* A boot of the machine changes neither a slot nor, as it was off, anything
\* about an installation.
LEMMA BootIInv ==
    ASSUME SlotsIInv, machine = "off", machine' \in { "kernel", "hung" },
           booted' \in Slots, UNCHANGED << slots, install >>
    PROVE  SlotsIInv'
<1> USE DEF SlotsIInv, slots
<1>1. install = "idle" /\ image' = image /\ label' = label /\ install' = install
  OBVIOUS
<1>2. SlotsTypeOK'
  BY <1>1 DEF SlotsTypeOK
<1>3. NoSlotMislabelled'
  BY <1>1 DEF NoSlotMislabelled
<1> QED
  BY <1>1, <1>2, <1>3

\* The initramfs comes up only on a slot that is sound.
LEMMA SwitchRootIInv == SlotsIInv /\ SwitchRoot => SlotsIInv'
<1> SUFFICES ASSUME SlotsIInv, SwitchRoot
             PROVE  SlotsIInv'
  OBVIOUS
<1>1. /\ machine = "kernel" /\ install = "idle"
      /\ UNCHANGED << booted, image, label, install >>
      /\ machine' \in { "up", "hung" }
  BY DEF SwitchRoot, SlotsIInv, slots
<1>2. machine' = "up" => Sound(booted)
  <2> SUFFICES ASSUME machine' = "up"
               PROVE  Sound(booted)
    OBVIOUS
  <2>1. PICK s \in ByLabel(booted) : image[s] \in { "good", "partial" }
    BY DEF SwitchRoot
  <2>2. s \in Slots /\ label[s] = booted
    BY <2>1 DEF ByLabel
  <2>3. s = booted
    BY <2>1, <2>2, OnlyTarget
  <2>4. image[s] # "partial"
    BY <2>2, SlotFacts DEF SlotsIInv, SlotsTypeOK
  <2> QED
    BY <2>1, <2>3, <2>4 DEF Sound
<1>3. Sound(booted)' <=> Sound(booted)
  BY <1>1 DEF Sound, ByLabel
<1> QED
  BY <1>1, <1>2, <1>3 DEF SlotsIInv, SlotsTypeOK, NoSlotMislabelled

\* A power failure ends an installation wherever it was.
LEMMA PowerCycleIInv == SlotsIInv /\ PowerCycle => SlotsIInv'
BY DEF SlotsIInv, PowerCycle, SlotsTypeOK, NoSlotMislabelled, slots

\* Marking the target and making it the primary slot touch no slot.
LEMMA BookkeepingIInv ==
    SlotsIInv /\ (BeginInstall \/ Activate) => SlotsIInv'
BY DEF SlotsIInv, BeginInstall, Activate, SlotsTypeOK, NoSlotMislabelled,
       slots, Sound, ByLabel, Target

\* The first blocks go to the target, which loses its label with them.
LEMMA BeginWriteIInv == SlotsIInv /\ BeginWrite => SlotsIInv'
<1> SUFFICES ASSUME SlotsIInv, BeginWrite
             PROVE  SlotsIInv'
  OBVIOUS
<1>1. PICK s \in ByLabel(Target) :
          /\ image' = [image EXCEPT ![s] = "partial"]
          /\ label' = [label EXCEPT ![s] = "rootfs-bundle"]
  BY DEF BeginWrite
<1>2. s = Target
  BY <1>1, OnlyTarget DEF ByLabel
<1> QED
  BY <1>1, <1>2, OnlyTarget, SlotFacts
     DEF BeginWrite, SlotsIInv, SlotsTypeOK, NoSlotMislabelled, Sound, ByLabel,
         Target

\* The last blocks complete the target.
LEMMA EndWriteIInv == SlotsIInv /\ EndWrite => SlotsIInv'
<1> SUFFICES ASSUME SlotsIInv, EndWrite
             PROVE  SlotsIInv'
  OBVIOUS
<1>1. PICK s \in Slots, update \in { "good", "bad" } :
          /\ image[s] = "partial"
          /\ image' = [image EXCEPT ![s] = update]
  BY DEF EndWrite
<1>2. s = Target /\ machine = "up"
  BY <1>1, OnlyTarget DEF EndWrite
<1> QED
  BY <1>1, <1>2, OnlyTarget, SlotFacts
     DEF EndWrite, SlotsIInv, SlotsTypeOK, NoSlotMislabelled, Sound, ByLabel,
         Target

\* The handler names the target, which is written by now.
LEMMA LabelHandlerIInv == SlotsIInv /\ LabelHandler => SlotsIInv'
<1> SUFFICES ASSUME SlotsIInv, LabelHandler
             PROVE  SlotsIInv'
  OBVIOUS
<1>1. /\ machine = "up" /\ install = "active" /\ install' = "idle"
      /\ UNCHANGED << machine, booted, image >>
      /\ image[Target] # "partial"
  BY DEF LabelHandler, SlotsIInv
<1>2. CASE UNCHANGED label
  BY <1>1, <1>2 DEF SlotsIInv, SlotsTypeOK, NoSlotMislabelled, Sound, ByLabel
<1>3. CASE \E s \in ByLabel("rootfs-bundle") :
               label' = [label EXCEPT ![s] = Target]
  <2>1. PICK s \in ByLabel("rootfs-bundle") :
            label' = [label EXCEPT ![s] = Target]
    BY <1>3
  <2>2. s = Target
    BY <1>1, <2>1, OnlyTarget DEF ByLabel
  <2> QED
    BY <1>1, <2>1, <2>2, OnlyTarget, SlotFacts
       DEF SlotsIInv, SlotsTypeOK, NoSlotMislabelled, Sound, ByLabel, Target
<1> QED
  BY <1>2, <1>3 DEF LabelHandler

\* The invariant is about the variables of RaucSlots only.
LEMMA StutterIInv ==
    SlotsIInv /\ UNCHANGED << machine, booted, image, label, install >>
        => SlotsIInv'
BY DEF SlotsIInv, SlotsTypeOK, NoSlotMislabelled, Sound, ByLabel, Target

\* What the invariant is for.
LEMMA SlotsIInvImplies == SlotsIInv => HalfWrittenNeverUp /\ NoSlotMislabelled
BY OnlyTarget DEF SlotsIInv, HalfWrittenNeverUp, Sound, ByLabel

=============================================================================
