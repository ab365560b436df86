------------------------------- MODULE MCRauc -------------------------------
(***************************************************************************)
(* Two gadgets side by side, one that boots with GRUB and one that boots   *)
(* with U-Boot.  They have nothing in common but the question of what      *)
(* becomes of a slot that does not come up.                                *)
(***************************************************************************)

VARIABLES
    machine, booted, image, label, install, first, ok, try,     \* with GRUB
    uMachine, uBooted, uImage, uLabel, uInstall, uFirst, left   \* with U-Boot

grubVars == << machine, booted, image, label, install, first, ok, try >>
ubootVars == << uMachine, uBooted, uImage, uLabel, uInstall, uFirst, left >>

Grub == INSTANCE RaucGrub

UBoot == INSTANCE RaucUBoot
    WITH machine <- uMachine, booted <- uBooted, image <- uImage,
         label <- uLabel, install <- uInstall, first <- uFirst

Init == Grub!Init /\ UBoot!Init

Next ==
    \/ Grub!Next /\ UNCHANGED ubootVars
    \/ UBoot!Next /\ UNCHANGED grubVars

\* Each gadget is scheduled as in its own module, whatever the other one does.
FairSpec ==
    /\ Init /\ [][Next]_<< grubVars, ubootVars >>
    /\ WF_grubVars(Grub!Boot)
    /\ WF_grubVars(Grub!SwitchRoot /\ UNCHANGED << first, ok, try >>)
    /\ WF_grubVars(/\ machine = "hung" /\ Grub!PowerCycle
                   /\ UNCHANGED << first, ok, try >>)
    /\ <>[][machine = "kernel" => machine' # "off"]_grubVars
    /\ WF_ubootVars(UBoot!Boot)
    /\ WF_ubootVars(UBoot!SwitchRoot /\ UNCHANGED << uFirst, left >>)
    /\ WF_ubootVars(/\ uMachine = "hung" /\ UBoot!PowerCycle
                    /\ UNCHANGED << uFirst, left >>)
    /\ <>[][uMachine = "kernel" => uMachine' # "off"]_ubootVars

\* grub.cfg:11, "select bootable slot", and boot.cmd:14 and 21, "... attempts
\* remaining": each of the bootloaders says that it leaves a slot that does not
\* come up for one that would.  So at least one of them does.
SomeBootloaderFallsBack == Grub!SelectsBootableSlot \/ UBoot!AttemptsRunOut

=============================================================================
