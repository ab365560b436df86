---------------------------- MODULE SerialRunner ----------------------------
(***************************************************************************)
(* What the backup controller promises, without how: a machine that sleeps *)
(* and wakes, and jobs that run on it one at a time, each for an instant   *)
(* that has come and that is later than the one it ran for before.         *)
(* BackupController implements it.                                         *)
(***************************************************************************)
EXTENDS Naturals

CONSTANTS
    Job,
    None        \* no job, not in Job

VARIABLES
    clock,
    asleep,     \* whether the machine is suspended
    running,    \* the job whose command or report is not finished, or None
    last        \* for each job, the instant it last ran for

vars == << clock, asleep, running, last >>

Init ==
    /\ clock \in Nat
    /\ asleep = FALSE
    /\ running = None
    /\ last = [j \in Job |-> 0]

\* Time passes, in whatever state the machine is.
Pass ==
    /\ clock' \in Nat /\ clock' >= clock
    /\ UNCHANGED << asleep, running, last >>

\* A machine on which a job runs, or the report of one is being sent, is not
\* suspended.
Sleep ==
    /\ running = None
    /\ asleep' = TRUE
    /\ UNCHANGED << clock, running, last >>

\* By the alarm, by something else, or by a reboot.
Wake ==
    /\ clock' \in Nat /\ clock' >= clock
    /\ asleep' = FALSE
    /\ UNCHANGED << running, last >>

Start(j) ==
    /\ running = None /\ ~asleep
    /\ LET due == last'[j] IN
          /\ due \in Nat
          /\ last[j] < due /\ due <= clock
          /\ last' = [last EXCEPT ![j] = due]
    /\ running' = j
    /\ UNCHANGED << clock, asleep >>

\* The job is done and reported, or the program or the machine fails.
End ==
    /\ running # None
    /\ clock' \in Nat /\ clock' >= clock
    /\ running' = None
    /\ UNCHANGED << asleep, last >>

Next == Pass \/ Sleep \/ Wake \/ End \/ \E j \in Job : Start(j)

Spec == Init /\ [][Next]_vars

=============================================================================
