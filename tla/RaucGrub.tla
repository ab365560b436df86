------------------------------ MODULE RaucGrub ------------------------------
(***************************************************************************)
(* The A/B gadgets that boot with GRUB: grub.cfg of rauc-grub-bootconf and *)
(* its environment block, which RAUC's grub backend (external) changes.    *)
(***************************************************************************)
EXTENDS RaucSlots

VARIABLES
    first,      \* the first slot of ORDER
    ok,         \* the slots with <slot>_OK=1
    try         \* the slots with <slot>_TRY=1

grubenv == << first, ok, try >>
slotvars == << machine, booted, image, label, install >>
vars == << slotvars, grubenv >>

TypeOK ==
    /\ SlotsTypeOK
    /\ first \in Slots
    /\ ok \subseteq Slots
    /\ try \subseteq Slots

\* An empty environment block: the assignments at the top of grub.cfg.
Init ==
    /\ SlotsInit
    /\ first = "system0"
    /\ ok = {}
    /\ try = {}

-----------------------------------------------------------------------------
Bootable(s) == s \in ok /\ s \notin try

\* The loop over ORDER: the slot it stops at, if any, and those it passes.
default ==
    IF Bootable(first) THEN first
    ELSE IF Bootable(Other(first)) THEN Other(first)
    ELSE "system0"

\* Mutant of visited: the attempt at the slot the loop stops at is not recorded.
visitedBefore ==
    IF Bootable(first) THEN {}
    ELSE IF Bootable(Other(first)) THEN { first }
    ELSE Slots

visited == IF Bootable(first) THEN { first } ELSE Slots

\* Mutant of ResetBootedFlags: nothing is reset.
ResetBootedFlagsNot(tries) == tries

\* "reset booted flags": whenever entry 0 is the default, which it also is
\* when the loop finds nothing.
ResetBootedFlags(tries) == IF default = "system0" THEN tries \ ok ELSE tries

\* One run of grub.cfg: select a slot, save the environment, find the file
\* system by its label and start its kernel.
Boot ==
    /\ machine = "off"
    /\ booted' = default
    /\ try' = ResetBootedFlags(try \cup visited)
    /\ machine' = IF \E s \in ByLabel(default) : image[s] # "none"
                  THEN "kernel" ELSE "hung"
    /\ UNCHANGED << first, ok, slots, install >>

(***************************************************************************)
(* The grub backend of RAUC                                                *)
(***************************************************************************)

\* rauc status mark-good, after the booted slot has come up.
MarkGood ==
    /\ machine = "up"
    /\ ok' = ok \cup { booted }
    /\ try' = try \ { booted }
    /\ UNCHANGED << first, slotvars >>

MarkBad ==
    /\ BeginInstall
    /\ ok' = ok \ { Target }
    /\ try' = try \ { Target }
    /\ UNCHANGED first

SetPrimary ==
    /\ Activate
    /\ first' = Target
    /\ ok' = ok \cup { Target }
    /\ try' = try \ { Target }

-----------------------------------------------------------------------------
Rauc ==
    \/ MarkGood \/ MarkBad \/ SetPrimary
    \/ (BeginWrite \/ EndWrite \/ LabelHandler) /\ UNCHANGED grubenv

Next ==
    \/ Boot
    \/ SwitchRoot /\ UNCHANGED grubenv
    \/ PowerCycle /\ UNCHANGED grubenv
    \/ Rauc

Spec == Init /\ [][Next]_vars

\* The machine boots when it is switched on, and somebody, or a watchdog,
\* switches it off and on again when it hangs.  The power does not fail in
\* the middle of a boot for ever.  Nobody has to update the machine.
Fairness ==
    /\ WF_vars(Boot)
    /\ WF_vars(SwitchRoot /\ UNCHANGED grubenv)
    /\ WF_vars(machine = "hung" /\ PowerCycle /\ UNCHANGED grubenv)
    /\ <>[][machine = "kernel" => machine' # "off"]_vars

FairSpec == Spec /\ Fairness

-----------------------------------------------------------------------------
\* A system1 that does not come up, because the update is bad or because its
\* label was not restored, is given up for a sound system0 without any help
\* but the power switch (grub.cfg:23, 25-28).
FallsBackToSystem0 ==
    (machine = "hung" /\ booted = "system1" /\ Sound("system0"))
        ~> machine = "up"

\* A power failure while an update is written leaves a machine that comes up
\* again on the other slot, even if that slot had not been marked good yet.
InterruptedWriteComesUp ==
    (machine = "off" /\ \E s \in Slots : image[s] = "partial" /\ Sound(Other(s)))
        ~> machine = "up"

\* The attempt to boot system0 is never on record in the saved environment
\* while the slot counts as good: grub.cfg takes "system0 chosen" for "nothing
\* chosen" and clears it (grub.cfg:32-35).
System0NeverOnTrial == ~("system0" \in ok /\ "system0" \in try)

IInv == TypeOK /\ SlotsIInv /\ System0NeverOnTrial

\* grub.cfg:11, "select bootable slot": when the slot chosen does not come up
\* and the other one would, the other one is selected in the end.
SelectsBootableSlot ==
    (machine = "hung" /\ Sound(Target) /\ Target \in ok) ~> machine = "up"

=============================================================================
