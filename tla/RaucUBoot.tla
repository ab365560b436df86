------------------------------ MODULE RaucUBoot -----------------------------
(***************************************************************************)
(* The Raspberry Pi gadget: boot.cmd of u-boot-rauc-boot and the U-Boot    *)
(* environment, which RAUC's uboot backend (external) changes.             *)
(***************************************************************************)
EXTENDS RaucSlots, Naturals

ATTEMPTS == 3

VARIABLES
    first,      \* the first slot of BOOT_ORDER, in the saved environment
    left        \* BOOT_<slot>_LEFT, in the saved environment

ubootenv == << first, left >>
slotvars == << machine, booted, image, label, install >>
vars == << slotvars, ubootenv >>

TypeOK ==
    /\ SlotsTypeOK
    /\ first \in Slots
    /\ left \in [Slots -> 0 .. ATTEMPTS]

\* boot.cmd sets and saves the defaults of an empty environment before it
\* looks at it.
Init ==
    /\ SlotsInit
    /\ first = "system0"
    /\ left = [s \in Slots |-> ATTEMPTS]

-----------------------------------------------------------------------------
\* The slots that the loop over BOOT_ORDER accepts.
Valid == { s \in Slots : left[s] > 0 }

bootslot == IF first \in Valid THEN first ELSE Other(first)

\* Mutant of Boot: the environment is saved after the loop.
BootSavesLast ==
    /\ machine = "off"
    /\ booted' = IF Valid = {} THEN booted ELSE bootslot
    /\ machine' = IF Valid # {} /\ image[bootslot] # "none"
                  THEN "kernel" ELSE "hung"
    /\ left' = IF Valid = {} THEN left ELSE [left EXCEPT ![bootslot] = @ - 1]
    /\ UNCHANGED << slots, install, first >>

\* One run of boot.cmd.  The environment is saved before the loop takes one
\* from the attempts that are left, so the saved one does not change.  The
\* kernel is loaded from the partition by its number, whatever its label.
\* Without a slot that has attempts left there is nothing to load.
Boot ==
    /\ machine = "off"
    /\ booted' = IF Valid = {} THEN booted ELSE bootslot
    /\ machine' = IF Valid # {} /\ image[bootslot] # "none"
                  THEN "kernel" ELSE "hung"
    /\ UNCHANGED << slots, install, ubootenv >>

(***************************************************************************)
(* The uboot backend of RAUC                                               *)
(***************************************************************************)

\* Mutant of MarkGood: one attempt is given back instead of all.
MarkGoodOneMore ==
    /\ machine = "up"
    /\ left' = [left EXCEPT ![booted] = @ + 1]
    /\ UNCHANGED << first, slotvars >>

MarkGood ==
    /\ machine = "up"
    /\ left' = [left EXCEPT ![booted] = ATTEMPTS]
    /\ UNCHANGED << first, slotvars >>

\* Mutant of MarkBad: the target keeps its attempts.
MarkBadNot ==
    /\ BeginInstall
    /\ UNCHANGED ubootenv

MarkBad ==
    /\ BeginInstall
    /\ left' = [left EXCEPT ![Target] = 0]
    /\ UNCHANGED first

SetPrimary ==
    /\ Activate
    /\ first' = Target
    /\ left' = [left EXCEPT ![Target] = ATTEMPTS]

-----------------------------------------------------------------------------
Rauc ==
    \/ MarkGood \/ MarkBad \/ SetPrimary
    \/ (BeginWrite \/ EndWrite \/ LabelHandler) /\ UNCHANGED ubootenv

Next ==
    \/ Boot
    \/ SwitchRoot /\ UNCHANGED ubootenv
    \/ PowerCycle /\ UNCHANGED ubootenv
    \/ Rauc

Spec == Init /\ [][Next]_vars

\* As for GRUB: a machine that is off boots, one that hangs is switched off,
\* and the power does not fail in the middle of a boot for ever.
Fairness ==
    /\ WF_vars(Boot)
    /\ WF_vars(SwitchRoot /\ UNCHANGED ubootenv)
    /\ WF_vars(machine = "hung" /\ PowerCycle /\ UNCHANGED ubootenv)
    /\ <>[][machine = "kernel" => machine' # "off"]_vars

FairSpec == Spec /\ Fairness

-----------------------------------------------------------------------------
\* A power failure while an update is written leaves a machine that comes up
\* again on the slot it was running.
InterruptedWriteComesUp ==
    (machine = "off" /\ \E s \in Slots : image[s] = "partial" /\ Sound(Other(s)))
        ~> machine = "up"

\* There is always a slot with attempts left, so boot.cmd, which has no branch
\* for the other case, never goes on without a partition (boot.cmd:29).
AlwaysAValidSlot == Valid # {}

\* An installation takes the attempts of the slot that is not running, so the
\* running one has to keep some.
IInv ==
    /\ TypeOK
    /\ SlotsIInv
    /\ AlwaysAValidSlot
    /\ machine \in { "kernel", "up" } => booted \in Valid

\* boot.cmd:14 and 21, "... attempts remaining": the attempts of a slot that
\* does not come up run out, and the other slot is tried.
AttemptsRunOut ==
    (machine = "hung" /\ Target \in Valid /\ Sound(Target)) ~> machine = "up"

=============================================================================
