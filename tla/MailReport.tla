----------------------------- MODULE MailReport -----------------------------
(***************************************************************************)
(* The end of Executor::run_job (executor.rs) and all of postfix.rs: the   *)
(* report of a job is handed to the local Postfix, and the controller      *)
(* follows the system log until it believes that the report has left the   *)
(* machine, because the next thing it does is to suspend the machine and   *)
(* Postfix with it.                                                        *)
(*                                                                         *)
(* Postfix and syslogd are external; they are modelled by the log lines    *)
(* that the regular expressions of postfix.rs match.  A log line is a pair *)
(* of a queue id and what is said of it: "from", "to" or "removed".        *)
(***************************************************************************)
EXTENDS Naturals, Sequences, FiniteSets

CONSTANTS
    Reports,        \* the queue ids the reports get, 1 .. n in this order
    Foreign,        \* queue ids of mail from other senders
    Faults,         \* whether the submission and the log may fail
    MaxDeferrals,   \* bound on the deferrals of one message
    MaxUnread,      \* bound on the lines the watcher may be behind the log
    MaxReboots      \* bound on reboots

ASSUME ReportsAssumption ==
    /\ IsFiniteSet(Reports) /\ IsFiniteSet(Foreign)
    /\ Reports \subseteq Nat \ { 0 }
    /\ \A n \in Reports : \A k \in 1 .. n : k \in Reports
    /\ Foreign \cap Reports = {}
    /\ Faults \in BOOLEAN
    /\ { MaxDeferrals, MaxUnread, MaxReboots } \subseteq Nat

Mail == Reports \cup Foreign

VARIABLES
    pc,         \* the controller: "working", "reporting", "suspended", "dead"
    report,     \* the id of the current report, 0 before the first
    smtp,       \* transport.send: "pending", "queued", "accepted", "refused"
    watcher,    \* completed_send: "opening", or the State of struct Send
    watched,    \* the id held by the states From and To
    unread,     \* the log lines written since the watcher opened the log
    mail,       \* Postfix: where each message is
    deferrals,  \* how often each message has been deferred
    aborted     \* the reboots, each of which may cut a report short

controller == << pc, report, smtp, watcher, watched >>
postfix    == << mail, deferrals >>
vars       == << controller, unread, postfix, aborted >>

Line == [id : Mail, says : { "from", "to", "removed" }]

\* A "done" message, delivered or returned to its sender, is still in the queue.
InQueue == { "incoming", "active", "deferred", "done" }

TypeOK ==
    /\ pc \in { "working", "reporting", "suspended", "dead" }
    /\ report \in Reports \cup { 0 }
    /\ smtp \in { "pending", "queued", "accepted", "refused" }
    /\ watcher \in { "opening", "Start", "From", "To", "Removed", "failed" }
    /\ watched \in Mail \cup { 0 }
    /\ unread \in Seq(Line)
    /\ mail \in [Mail -> InQueue \cup { "none", "removed" }]
    /\ deferrals \in [Mail -> 0 .. MaxDeferrals]
    /\ aborted \in 0 .. MaxReboots

Init ==
    /\ pc = "working"
    /\ report = 0
    /\ smtp = "pending"
    /\ watcher = "opening"
    /\ watched = 0
    /\ unread = << >>
    /\ mail \in [Mail -> { "none", "incoming" }]
    /\ \A m \in Reports : mail[m] = "none"
    /\ deferrals = [m \in Mail |-> 0]
    /\ aborted = 0

-----------------------------------------------------------------------------
(***************************************************************************)
(* The controller                                                          *)
(***************************************************************************)

Awake == pc # "suspended"

\* The state of the two futures goes with them.
DropFutures ==
    /\ smtp' = "pending"
    /\ watcher' = "opening"
    /\ watched' = 0
    /\ unread' = << >>

\* run_job, after the command: join! polls completed_send first, which opens
\* the log and then waits for add_file.
StartReport ==
    /\ pc = "working"
    /\ report + 1 \in Reports
    /\ pc' = "reporting"
    /\ report' = report + 1
    /\ smtp' = "pending"
    /\ watcher' = "opening"
    /\ watched' = 0
    /\ unread' = << >>
    /\ UNCHANGED << postfix, aborted >>

\* add_file completes: lines are read from the end of the log as it is now.
Attach ==
    /\ pc = "reporting"
    /\ watcher = "opening"
    /\ watcher' = "Start"
    /\ unread' = << >>
    /\ UNCHANGED << pc, report, smtp, watched, postfix, aborted >>

\* Mutant of Awaits: the removal is expected before the delivery.
AwaitsSwapped == [Start |-> "from", From |-> "removed", To |-> "to"]

\* Send::input_line: which line each state waits for, and the state after it.
Awaits == [Start |-> "from", From |-> "to", To |-> "removed"]
After  == [Start |-> "From", From |-> "To", To |-> "Removed"]

\* Any mail from the controller's address will do at the start; from then on
\* the line must carry the id that was found.
Concerns(line) ==
    IF watcher = "Start" THEN line.id \in Reports ELSE line.id = watched

\* Mutant of InputLine: the id of the line is not compared.
InputLineAnyId(line) ==
    IF line.says = Awaits[watcher]
    THEN /\ watcher' = After[watcher]
         /\ watched' = IF watcher = "Start" THEN line.id ELSE watched
    ELSE UNCHANGED << watcher, watched >>

\* Send::input_line.
InputLine(line) ==
    IF line.says = Awaits[watcher] /\ Concerns(line)
    THEN watcher' = After[watcher] /\ watched' = line.id
    ELSE UNCHANGED << watcher, watched >>

\* completed_send: one turn of the loop over next_line().
ReadLine ==
    /\ pc = "reporting"
    /\ watcher \in DOMAIN Awaits
    /\ unread # << >>
    /\ InputLine(Head(unread))
    /\ unread' = Tail(unread)
    /\ UNCHANGED << pc, report, smtp, postfix, aborted >>

\* MuxedLines::new or add_file fails; completed_send returns the error.
AttachFails ==
    /\ Faults
    /\ pc = "reporting"
    /\ watcher = "opening"
    /\ watcher' = "failed"
    /\ UNCHANGED << pc, report, smtp, watched, unread, postfix, aborted >>

\* next_line() returns an error or the end: unreachable!().
LogEnds ==
    /\ Faults
    /\ pc = "reporting"
    /\ watcher \in DOMAIN Awaits
    /\ pc' = "dead"
    /\ DropFutures
    /\ UNCHANGED << report, postfix, aborted >>

\* transport.send: Postfix takes the report into its queue ...
Submit ==
    /\ pc = "reporting"
    /\ smtp = "pending"
    /\ smtp' = "queued"
    /\ mail' = [mail EXCEPT ![report] = "incoming"]
    /\ UNCHANGED << pc, report, watcher, watched, unread, deferrals, aborted >>

\* ... and confirms it.
Confirm ==
    /\ pc = "reporting"
    /\ smtp = "queued"
    /\ smtp' = "accepted"
    /\ UNCHANGED << pc, report, watcher, watched, unread, postfix, aborted >>

\* The connection is refused, or lost before the confirmation.
Refuse ==
    /\ Faults
    /\ pc = "reporting"
    /\ smtp \in { "pending", "queued" }
    /\ smtp' = "refused"
    /\ UNCHANGED << pc, report, watcher, watched, unread, postfix, aborted >>

\* Mutant of Join: the outcome of the submission is enough.
JoinSubmission ==
    /\ pc = "reporting"
    /\ smtp \in { "accepted", "refused" }
    /\ pc' = IF smtp = "accepted" THEN "working" ELSE "dead"
    /\ DropFutures
    /\ UNCHANGED << report, postfix, aborted >>

\* join! returns when both futures have; an error of either is a panic.
Join ==
    /\ pc = "reporting"
    /\ watcher \in { "Removed", "failed" }
    /\ smtp \in { "accepted", "refused" }
    /\ pc' = IF watcher = "Removed" /\ smtp = "accepted"
             THEN "working" ELSE "dead"
    /\ DropFutures
    /\ UNCHANGED << report, postfix, aborted >>

\* The loop of run goes on to hibernate, and comes back for the next job.
Hibernate ==
    /\ pc = "working"
    /\ pc' = "suspended"
    /\ UNCHANGED << report, smtp, watcher, watched, unread, postfix, aborted >>

Wake ==
    /\ pc = "suspended"
    /\ pc' = "working"
    /\ UNCHANGED << report, smtp, watcher, watched, unread, postfix, aborted >>

\* A reboot: the queue of Postfix survives, the controller starts afresh.
Reboot ==
    /\ aborted < MaxReboots
    /\ aborted' = aborted + 1
    /\ pc' = "working"
    /\ DropFutures
    /\ UNCHANGED << report, postfix >>

Controller ==
    \/ StartReport \/ Attach \/ ReadLine \/ AttachFails \/ LogEnds \/ Submit
    \/ Confirm \/ Refuse \/ Join \/ Hibernate \/ Wake

(***************************************************************************)
(* Postfix, while the machine is awake                                     *)
(***************************************************************************)

\* syslogd appends a line; a watcher that has not opened the log misses it.
Log(id, says) ==
    /\ Len(unread) < MaxUnread
    /\ unread' = IF pc = "reporting" /\ watcher \in DOMAIN Awaits
                 THEN Append(unread, [id |-> id, says |-> says])
                 ELSE unread

\* qmgr moves a message into the active queue.
Activate(m) ==
    /\ Awake
    /\ mail[m] \in { "incoming", "deferred" }
    /\ mail' = [mail EXCEPT ![m] = "active"]
    /\ Log(m, "from")
    /\ UNCHANGED << controller, deferrals, aborted >>

\* A delivery attempt: to=<...>, status=sent or status=bounced; SMTP_RE does not
\* look at the status.
Attempt(m) ==
    /\ Awake
    /\ mail[m] = "active"
    /\ mail' = [mail EXCEPT ![m] = "done"]
    /\ Log(m, "to")
    /\ UNCHANGED << controller, deferrals, aborted >>

\* A delivery attempt: to=<...>, status=deferred.
Defer(m) ==
    /\ Awake
    /\ mail[m] = "active"
    /\ deferrals[m] < MaxDeferrals
    /\ mail' = [mail EXCEPT ![m] = "deferred"]
    /\ deferrals' = [deferrals EXCEPT ![m] = @ + 1]
    /\ Log(m, "to")
    /\ UNCHANGED << controller, aborted >>

\* qmgr removes a message that was delivered or returned.
Remove(m) ==
    /\ Awake
    /\ mail[m] = "done"
    /\ mail' = [mail EXCEPT ![m] = "removed"]
    /\ Log(m, "removed")
    /\ UNCHANGED << controller, deferrals, aborted >>

Postfix(m) == Activate(m) \/ Attempt(m) \/ Defer(m) \/ Remove(m)

Next == Controller \/ Reboot \/ \E m \in Mail : Postfix(m)

Spec == Init /\ [][Next]_vars

\* The two futures are polled until they are done, the machine wakes up for
\* its next job, and Postfix works through its queue (a message is not
\* deferred for ever).  Nothing obliges the log or the submission to fail.
Fairness ==
    /\ WF_vars(Attach) /\ WF_vars(ReadLine) /\ WF_vars(Join)
    /\ WF_vars(Submit) /\ WF_vars(Confirm) /\ WF_vars(Wake)
    /\ \A m \in Mail :
          WF_vars(Activate(m)) /\ WF_vars(Attempt(m) \/ Defer(m))
             /\ WF_vars(Remove(m))

FairSpec == Spec /\ Fairness

-----------------------------------------------------------------------------
(***************************************************************************)
(* What the report owes                                                    *)
(***************************************************************************)

Queued == { m \in Reports : mail[m] \in InQueue }

Watching == watcher \in { "From", "To", "Removed" }

\* The most reports the queue may hold: one for each reboot, and the current one.
MaxQueued == IF smtp = "pending" THEN aborted ELSE aborted + 1

\* The watcher has seen a report leave the queue during this job, or will, in a
\* line that it has not read yet.
SeenToLeave ==
    \/ watcher = "Removed"
    \/ \E i \in DOMAIN unread :
          unread[i].says = "removed" /\ unread[i].id \in Reports

\* Reports are submitted once and in order.
SubmittedInOrder ==
    /\ \A r \in Reports : r > report => mail[r] = "none"
    /\ pc = "reporting" => report \in Reports
    /\ pc = "reporting" /\ smtp = "pending" => mail[report] = "none"

\* What the log says of a removal is so.
LogIsTrue ==
    /\ Watching => watched \in Reports
    /\ watcher = "Removed" => mail[watched] = "removed"
    /\ \A i \in DOMAIN unread :
          unread[i].says = "removed" => mail[unread[i].id] = "removed"

\* While a report is on its way the queue holds one message less for a report
\* that was seen to leave.
QueueIsShort ==
    /\ pc \in { "working", "suspended" } => Cardinality(Queued) <= aborted
    /\ pc = "dead" => Cardinality(Queued) <= aborted + 1
    /\ pc = "reporting" => Cardinality(Queued) <= MaxQueued
    /\ pc = "reporting" /\ SeenToLeave => Cardinality(Queued) < MaxQueued

\* The inductive invariant: why the two properties below hold in any order of
\* the steps of the two futures, of Postfix and of a reboot
\* (executor.rs:91-106, postfix.rs:29-98).
IInv == TypeOK /\ SubmittedInOrder /\ LogIsTrue /\ QueueIsShort

\* completed_send returns only for a message that is out of the queue: the log
\* it follows never runs ahead of Postfix, and the three lines it waits for
\* are those of one message (postfix.rs:61-71).
RemovedIsRemoved == watcher = "Removed" => mail[watched] = "removed"

\* The machine is suspended with at most as many reports still in its queue as
\* there were reboots: a message left behind by an interrupted report may be
\* taken for the current one, but each report that completes has seen one
\* message leave (postfix.rs:38-45 looks at the sender only).
NoReportLeftBehind ==
    pc = "suspended" => Cardinality(Queued) <= aborted

\* Once the log is attached and the report not yet submitted, run_job returns,
\* unless the submission is refused: after deferrals, and with messages from
\* before a reboot in the queue.  The source does not guarantee that order: a
\* report that leaves while the log is being opened is waited for for ever.
ReportReturns ==
    (pc = "reporting" /\ watcher = "Start" /\ smtp = "pending")
        ~> (pc # "reporting" \/ smtp = "refused")

\* executor.rs:33 and 104-105: an error of the submission ("sending email") is
\* returned by run_job and ends the controller (executor.rs:125).
RefusalIsReported == smtp = "refused" ~> (pc = "dead" \/ smtp # "refused")

=============================================================================
