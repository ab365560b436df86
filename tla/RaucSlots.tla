------------------------------ MODULE RaucSlots -----------------------------
(***************************************************************************)
(* The two root filesystems of an A/B gadget and what happens to them      *)
(* whichever bootloader chooses between them: init.sh of the initramfs     *)
(* mounts the chosen one by its label, RAUC writes an update into the      *)
(* other one, and rauc-label-handler.sh gives it its label back.           *)
(*                                                                         *)
(* The file system image of a bundle carries the label "rootfs-bundle", so *)
(* that writing it takes the label of the slot away.  RAUC is external:    *)
(* its steps are those of an installation with the handlers and slots of   *)
(* rauc/x86-64.conf, rpi.conf and cloud.conf.  The bootloader state that   *)
(* RAUC changes is in the modules that extend this one.                    *)
(***************************************************************************)

Slots == { "system0", "system1" }
Other(s) == IF s = "system0" THEN "system1" ELSE "system0"

VARIABLES
    machine,    \* "off", "kernel", "up", or "hung": at a prompt or crashed
    booted,     \* the slot the bootloader chose last
    image,      \* for each slot: "none", "partial", "good" or "bad"
    label,      \* for each slot: the label of its file system
    install     \* how far RAUC has come with an installation

slots == << image, label >>

Target == Other(booted)

\* /dev/disk/by-label/l: the slots that a mount or a search by label finds.
ByLabel(l) == { s \in Slots : label[s] = l }

SlotsTypeOK ==
    /\ machine \in { "off", "kernel", "up", "hung" }
    /\ booted \in Slots
    /\ image \in [Slots -> { "none", "partial", "good", "bad" }]
    /\ label \in [Slots -> Slots \cup { "rootfs-bundle" }]
    /\ install \in { "idle", "begun", "writing", "written", "active" }

\* The image that wic builds: a root file system in system0, none in system1.
SlotsInit ==
    /\ machine = "off"
    /\ booted = "system0"
    /\ image = [s \in Slots |-> IF s = "system0" THEN "good" ELSE "none"]
    /\ label = [s \in Slots |-> s]
    /\ install = "idle"

\* A slot that the initramfs finds and that then comes up.
Sound(s) == image[s] = "good" /\ s \in ByLabel(s)

-----------------------------------------------------------------------------
\* init.sh: mount the root file system by its label, in one of three tries,
\* and switch to it.  Without such a label there is only a shell; a good root
\* file system comes up, a bad one does not and half of one may.
SwitchRoot ==
    /\ machine = "kernel"
    /\ \/ /\ \E s \in ByLabel(booted) : image[s] \in { "good", "partial" }
          /\ machine' = "up"
       \/ /\ \A s \in ByLabel(booted) : image[s] # "good"
          /\ machine' = "hung"
    /\ UNCHANGED << booted, slots, install >>

\* A power failure, a reboot, or an operator in front of a hung machine.
PowerCycle ==
    /\ machine # "off"
    /\ machine' = "off"
    /\ install' = "idle"
    /\ UNCHANGED << booted, slots >>

(***************************************************************************)
(* rauc install, up to what it does to the bootloader.                     *)
(***************************************************************************)

\* The target is found by its label and marked bad.
BeginInstall ==
    /\ machine = "up"
    /\ install = "idle"
    /\ ByLabel(Target) # {}
    /\ install' = "begun"
    /\ UNCHANGED << machine, booted, slots >>

\* Mutant of BeginWrite: an image without a label of its own.
BeginWriteKeepsLabel ==
    /\ machine = "up"
    /\ install = "begun"
    /\ install' = "writing"
    /\ \E s \in ByLabel(Target) : image' = [image EXCEPT ![s] = "partial"]
    /\ UNCHANGED << machine, booted, label >>

\* The first blocks replace the superblock and with it the label ...
BeginWrite ==
    /\ machine = "up"
    /\ install = "begun"
    /\ install' = "writing"
    /\ \E s \in ByLabel(Target) :
          /\ image' = [image EXCEPT ![s] = "partial"]
          /\ label' = [label EXCEPT ![s] = "rootfs-bundle"]
    /\ UNCHANGED << machine, booted >>

\* ... and the last ones complete an update that works or does not.
EndWrite ==
    /\ machine = "up"
    /\ install = "writing"
    /\ install' = "written"
    /\ \E s \in Slots, update \in { "good", "bad" } :
          /\ image[s] = "partial"
          /\ image' = [image EXCEPT ![s] = update]
    /\ UNCHANGED << machine, booted, label >>

\* The target becomes the primary slot.
Activate ==
    /\ machine = "up"
    /\ install = "written"
    /\ install' = "active"
    /\ UNCHANGED << machine, booted, slots >>

\* Mutant of LabelHandler: the name of the target slot is not set.
LabelHandlerUnset ==
    /\ machine = "up"
    /\ install = "active"
    /\ install' = "idle"
    /\ \E s \in ByLabel("rootfs-bundle") : label' = [label EXCEPT ![s] = ""]
    /\ UNCHANGED << machine, booted, image >>

\* Mutant of LabelHandler: the name of the booted slot.
LabelHandlerBooted ==
    /\ machine = "up"
    /\ install = "active"
    /\ install' = "idle"
    /\ \E s \in ByLabel("rootfs-bundle") : label' = [label EXCEPT ![s] = booted]
    /\ UNCHANGED << machine, booted, image >>

\* rauc-label-handler.sh, the post-install handler: e2label of a file system
\* labelled rootfs-bundle.  On a slow disk that label may not be there yet
\* after the second the script sleeps; e2label then fails.
LabelHandler ==
    /\ machine = "up"
    /\ install = "active"
    /\ install' = "idle"
    /\ \/ \E s \in ByLabel("rootfs-bundle") :
             label' = [label EXCEPT ![s] = Target]
       \/ UNCHANGED label
    /\ UNCHANGED << machine, booted, image >>

-----------------------------------------------------------------------------
\* What comes up is never a slot whose writing was cut short, whatever the
\* bootloader chooses and although it may choose such a slot: the label is
\* gone until the handler of a complete installation has run (init.sh:50,
\* rauc-label-handler.sh:6).
HalfWrittenNeverUp ==
    machine = "up" => \A s \in ByLabel(booted) : image[s] = "good"

\* No slot ever has the label of the other one, although the handler relabels
\* whatever is called rootfs-bundle and an earlier installation may have left
\* a slot with that label (rauc-label-handler.sh:5-6).
NoSlotMislabelled == \A s \in Slots : label[s] # Other(s)

\* Why both hold: an installation touches the slot that is not running, the
\* first block it writes takes the label away, and the handler runs only when
\* the last one is written.
SlotsIInv ==
    /\ SlotsTypeOK
    /\ NoSlotMislabelled
    /\ \A s \in Slots : image[s] = "partial" => label[s] = "rootfs-bundle"
    /\ machine = "up" => Sound(booted)
    /\ install # "idle" => machine = "up"
    /\ install \in { "written", "active" } => image[Target] # "partial"

=============================================================================
