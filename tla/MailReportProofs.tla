-------------------------- MODULE MailReportProofs --------------------------
(***************************************************************************)
(* Proofs about MailReport: a report that completed has seen a message     *)
(* leave, so the machine is suspended with at most one report in its queue *)
(* for each reboot, for any number of reports, of other mail, deferrals    *)
(* and reboots.                                                            *)
(***************************************************************************)
EXTENDS MailReport, FiniteSetTheorems, TLAPS

\* There are finitely many reports, so those of any kind can be counted.
LEMMA SubsetFinite ==
    ASSUME NEW S \in SUBSET Reports
    PROVE  IsFiniteSet(S) /\ Cardinality(S) \in Nat
BY ReportsAssumption, FS_Subset, FS_CardinalityType

\* Only the reports of the controller are counted, not other mail.
LEMMA QueuedInReports == Queued \subseteq Reports /\ Queued' \subseteq Reports
BY DEF Queued

\* The four outcomes for the queue of reports.
LEMMA QueueSame ==
    ASSUME UNCHANGED mail
    PROVE  Queued' = Queued
BY DEF Queued

\* A message that moves on within the queue.
LEMMA QueueStays ==
    ASSUME TypeOK, NEW m \in Mail, NEW s \in InQueue,
           mail[m] \in InQueue, mail' = [mail EXCEPT ![m] = s]
    PROVE  Queued' = Queued
BY DEF Queued, TypeOK, InQueue, Mail

\* A report that is submitted.
LEMMA QueueGrows ==
    ASSUME TypeOK, NEW r \in Reports, mail[r] = "none",
           mail' = [mail EXCEPT ![r] = "incoming"]
    PROVE  Cardinality(Queued') = Cardinality(Queued) + 1
<1>1. Queued' = Queued \cup { r } /\ r \notin Queued
  BY DEF Queued, TypeOK, InQueue, Mail
<1> QED
  BY <1>1, FS_AddElement, SubsetFinite, QueuedInReports

\* A message that Postfix removes, a report or another one.
LEMMA QueueShrinks ==
    ASSUME TypeOK, NEW m \in Mail, mail[m] = "done",
           mail' = [mail EXCEPT ![m] = "removed"]
    PROVE  /\ m \in Reports => Cardinality(Queued') = Cardinality(Queued) - 1
           /\ m \notin Reports => Queued' = Queued
<1>1. m \in Reports => Queued' = Queued \ { m } /\ m \in Queued
  BY DEF Queued, TypeOK, InQueue, Mail
<1>2. m \notin Reports => Queued' = Queued
  BY DEF Queued, TypeOK, InQueue, Mail
<1> QED
  BY <1>1, <1>2, FS_RemoveElement, SubsetFinite, QueuedInReports

-----------------------------------------------------------------------------
\* Nothing is in the queue and nothing is logged at first.
LEMMA InitIInv == Init => IInv
<1> SUFFICES ASSUME Init PROVE IInv
  OBVIOUS
<1>1. TypeOK
  BY ReportsAssumption DEF Init, TypeOK, InQueue, Mail, Line
<1>2. SubmittedInOrder /\ LogIsTrue
  BY DEF Init, SubmittedInOrder, LogIsTrue, Watching
<1>3. QueueIsShort
  <2>1. Queued = {}
    BY DEF Init, Queued, InQueue
  <2> QED
    BY <2>1, FS_EmptySet DEF Init, QueueIsShort, MaxQueued
<1> QED
  BY <1>1, <1>2, <1>3 DEF IInv

\* What a line of the log that is not read yet can say.
LEMMA LogLine ==
    ASSUME TypeOK, NEW i \in DOMAIN unread
    PROVE  /\ unread[i].id \in Mail
           /\ unread[i].says \in { "from", "to", "removed" }
<1>1. unread[i] \in Line
  BY DEF TypeOK
<1> QED
  BY <1>1 DEF Line

\* What the log does when Postfix says something of a message.
LEMMA LogType ==
    ASSUME TypeOK, NEW m \in Mail, NEW says \in { "from", "to", "removed" },
           Log(m, says)
    PROVE  /\ unread' \in Seq(Line)
           /\ \A i \in DOMAIN unread' :
                 \/ i \in DOMAIN unread /\ unread'[i] = unread[i]
                 \/ /\ unread'[i] = [id |-> m, says |-> says]
                    /\ watcher \in DOMAIN Awaits
<1>1. [id |-> m, says |-> says] \in Line
  BY DEF Line
<1> QED
  BY <1>1 DEF TypeOK, Log

\* Every step keeps the state well formed.
LEMMA TypeStep ==
    ASSUME TypeOK, SubmittedInOrder, Next PROVE TypeOK'
<1> USE ReportsAssumption DEF TypeOK, postfix, controller
<1>1. ASSUME StartReport PROVE TypeOK'
  BY <1>1 DEF StartReport
<1>2. ASSUME Attach PROVE TypeOK'
  BY <1>2 DEF Attach
<1>3. ASSUME ReadLine PROVE TypeOK'
  <2>1. Head(unread) \in Line /\ Tail(unread) \in Seq(Line)
    BY <1>3 DEF ReadLine
  <2>2. Head(unread).id \in Mail
    BY <2>1 DEF Line
  <2>3. After[watcher] \in { "From", "To", "Removed" }
    BY <1>3 DEF ReadLine, Awaits, After
  <2> QED
    BY <1>3, <2>1, <2>2, <2>3 DEF ReadLine, InputLine
<1>4. ASSUME AttachFails \/ LogEnds PROVE TypeOK'
  <2>1. CASE AttachFails
    BY <2>1 DEF AttachFails
  <2>2. CASE LogEnds
    BY <2>2 DEF LogEnds, DropFutures
  <2> QED
    BY <1>4, <2>1, <2>2
<1>5. ASSUME Submit PROVE TypeOK'
  BY <1>5 DEF Submit, SubmittedInOrder, InQueue, Mail
<1>6. ASSUME Confirm \/ Refuse PROVE TypeOK'
  BY <1>6 DEF Confirm, Refuse
<1>7. ASSUME Join PROVE TypeOK'
  BY <1>7 DEF Join, DropFutures
<1>8. ASSUME Hibernate \/ Wake PROVE TypeOK'
  BY <1>8 DEF Hibernate, Wake
<1>9. ASSUME Reboot PROVE TypeOK'
  BY <1>9 DEF Reboot, DropFutures
<1>10. ASSUME NEW m \in Mail, Postfix(m) PROVE TypeOK'
  <2>1. unread' \in Seq(Line)
    BY <1>10, LogType DEF Postfix, Activate, Attempt, Defer, Remove
  <2>2. mail' \in [Mail -> InQueue \cup { "none", "removed" }]
    BY <1>10 DEF Postfix, Activate, Attempt, Defer, Remove, InQueue
  <2>3. deferrals' \in [Mail -> 0 .. MaxDeferrals]
    BY <1>10 DEF Postfix, Activate, Attempt, Defer, Remove
  <2> QED
    BY <1>10, <2>1, <2>2, <2>3
       DEF Postfix, Activate, Attempt, Defer, Remove
<1> QED
  BY <1>1, <1>2, <1>3, <1>4, <1>5, <1>6, <1>7, <1>8, <1>9, <1>10
     DEF Next, Controller

\* Reports are submitted one after the other, in the order of their jobs.
LEMMA OrderStep ==
    ASSUME TypeOK, SubmittedInOrder, Next PROVE SubmittedInOrder'
<1> USE ReportsAssumption DEF TypeOK, SubmittedInOrder, postfix, controller
<1>1. ASSUME StartReport PROVE SubmittedInOrder'
  BY <1>1 DEF StartReport
<1>2. ASSUME Attach \/ ReadLine \/ AttachFails \/ LogEnds \/ Confirm \/ Refuse
             \/ Join \/ Hibernate \/ Wake \/ Reboot
      PROVE  SubmittedInOrder'
  BY <1>2 DEF Attach, ReadLine, AttachFails, LogEnds, Confirm, Refuse, Join,
              Hibernate, Wake, Reboot, DropFutures
<1>3. ASSUME Submit PROVE SubmittedInOrder'
  BY <1>3 DEF Submit, Mail
<1>4. ASSUME NEW m \in Mail, Postfix(m) PROVE SubmittedInOrder'
  <2>1. mail[m] # "none" /\ \A r \in Mail \ { m } : mail'[r] = mail[r]
    BY <1>4 DEF Postfix, Activate, Attempt, Defer, Remove
  <2>2. UNCHANGED << pc, report, smtp >>
    BY <1>4 DEF Postfix, Activate, Attempt, Defer, Remove
  <2> QED
    BY <2>1, <2>2 DEF Mail
<1> QED
  BY <1>1, <1>2, <1>3, <1>4 DEF Next, Controller

\* The log stays true: a message that it calls removed does not come back.
LEMMA TruthStep ==
    ASSUME TypeOK, SubmittedInOrder, LogIsTrue, Next PROVE LogIsTrue'
<1> USE ReportsAssumption DEF TypeOK, LogIsTrue, Watching, postfix, controller
<1>1. ASSUME StartReport \/ Attach \/ AttachFails \/ LogEnds \/ Confirm \/ Refuse
             \/ Join \/ Hibernate \/ Wake \/ Reboot
      PROVE  LogIsTrue'
  BY <1>1 DEF StartReport, Attach, AttachFails, LogEnds, Confirm, Refuse, Join,
              Hibernate, Wake, Reboot, DropFutures
<1>2. ASSUME ReadLine PROVE LogIsTrue'
  <2> DEFINE line == Head(unread)
  <2>1. line = unread[1] /\ 1 \in DOMAIN unread /\ line.id \in Mail
    BY <1>2, LogLine DEF ReadLine
  <2>2. \A i \in DOMAIN unread' :
           i + 1 \in DOMAIN unread /\ unread'[i] = unread[i + 1]
    BY <1>2 DEF ReadLine
  <2>3. CASE line.says = Awaits[watcher] /\ Concerns(line)
    <3>1. watched' = line.id /\ watcher' = After[watcher]
      BY <1>2, <2>3 DEF ReadLine, InputLine
    <3>2. watched' \in Reports
      BY <1>2, <2>3, <3>1 DEF ReadLine, Concerns, Awaits
    <3>3. watcher' = "Removed" => line.says = "removed"
      BY <1>2, <2>3, <3>1 DEF ReadLine, Awaits, After
    <3>4. UNCHANGED mail
      BY <1>2 DEF ReadLine
    <3> QED
      BY <2>1, <2>2, <3>1, <3>2, <3>3, <3>4
  <2>4. CASE ~(line.says = Awaits[watcher] /\ Concerns(line))
    <3>1. UNCHANGED << watcher, watched, mail >>
      BY <1>2, <2>4 DEF ReadLine, InputLine
    <3> QED
      BY <2>2, <3>1
  <2> QED
    BY <2>3, <2>4
<1>3. ASSUME Submit PROVE LogIsTrue'
  <2>1. \A m \in Mail : mail[m] = "removed" => mail'[m] = "removed"
    BY <1>3 DEF Submit, SubmittedInOrder
  <2>2. \A i \in DOMAIN unread : unread[i].id \in Mail
    BY LogLine
  <2>3. UNCHANGED << watcher, watched, unread >>
    BY <1>3 DEF Submit
  <2> QED
    BY <2>1, <2>2, <2>3 DEF Mail
<1>4. ASSUME NEW m \in Mail, Postfix(m) PROVE LogIsTrue'
  <2>1. \A n \in Mail : mail[n] = "removed" => mail'[n] = "removed"
    BY <1>4 DEF Postfix, Activate, Attempt, Defer, Remove
  <2>2. PICK says \in { "from", "to", "removed" } :
           Log(m, says) /\ (says = "removed" => mail'[m] = "removed")
    BY <1>4 DEF Postfix, Activate, Attempt, Defer, Remove
  <2>3. \A i \in DOMAIN unread' :
           \/ i \in DOMAIN unread /\ unread'[i] = unread[i]
           \/ unread'[i] = [id |-> m, says |-> says]
    BY <2>2, LogType
  <2>4. \A i \in DOMAIN unread' :
           unread'[i].says = "removed" => mail'[unread'[i].id] = "removed"
    BY <2>1, <2>2, <2>3, LogLine
  <2>5. UNCHANGED << watcher, watched >>
    BY <1>4 DEF Postfix, Activate, Attempt, Defer, Remove
  <2> QED
    BY <2>1, <2>4, <2>5 DEF Mail
<1> QED
  BY <1>1, <1>2, <1>3, <1>4 DEF Next, Controller

\* A line about anything but the removal of a report shows nothing to leave.
LEMMA NothingSeen ==
    ASSUME TypeOK, NEW m \in Mail, NEW says \in { "from", "to", "removed" },
           Log(m, says), says # "removed" \/ m \notin Reports,
           UNCHANGED watcher, SeenToLeave'
    PROVE  SeenToLeave
BY LogType DEF SeenToLeave

\* The count of the reports in the queue, action by action.
LEMMA QueueStep ==
    ASSUME TypeOK, SubmittedInOrder, LogIsTrue, QueueIsShort, Next
    PROVE  QueueIsShort'
<1> DEFINE size == Cardinality(Queued)
<1>0. size \in Nat /\ aborted \in Nat
  BY SubsetFinite, QueuedInReports, ReportsAssumption DEF TypeOK
<1> USE <1>0 DEF QueueIsShort, MaxQueued
<1>1. ASSUME StartReport PROVE QueueIsShort'
  <2>1. Queued' = Queued
    BY <1>1, QueueSame DEF StartReport, postfix
  <2>2. ~SeenToLeave'
    BY <1>1 DEF StartReport, SeenToLeave
  <2> QED
    BY <1>1, <2>1, <2>2 DEF StartReport
<1>2. ASSUME Attach \/ AttachFails PROVE QueueIsShort'
  <2>1. Queued' = Queued
    BY <1>2, QueueSame DEF Attach, AttachFails, postfix
  <2>2. SeenToLeave' => SeenToLeave
    BY <1>2 DEF Attach, AttachFails, SeenToLeave
  <2> QED
    BY <1>2, <2>1, <2>2 DEF Attach, AttachFails
<1>3. ASSUME ReadLine PROVE QueueIsShort'
  <2> DEFINE line == Head(unread)
  <2>1. Queued' = Queued
    BY <1>3, QueueSame DEF ReadLine, postfix
  <2>2. line = unread[1] /\ 1 \in DOMAIN unread
    BY <1>3 DEF ReadLine, TypeOK
  <2>3. \A i \in DOMAIN unread' :
           i + 1 \in DOMAIN unread /\ unread'[i] = unread[i + 1]
    BY <1>3 DEF ReadLine, TypeOK
  <2>4. watcher' = "Removed" => line.says = "removed" /\ line.id \in Reports
    <3>1. watcher # "Removed"
      BY <1>3 DEF ReadLine, Awaits
    <3>2. watcher' # watcher =>
             /\ line.says = Awaits[watcher] /\ watcher' = After[watcher]
             /\ Concerns(line)
      BY <1>3 DEF ReadLine, InputLine
    <3>3. watcher' = "Removed" => watcher = "To"
      BY <1>3, <3>1, <3>2 DEF ReadLine, Awaits, After
    <3> QED
      BY <3>1, <3>2, <3>3 DEF Awaits, Concerns, LogIsTrue, Watching
  <2>5. SeenToLeave' => SeenToLeave
    BY <2>2, <2>3, <2>4 DEF SeenToLeave
  <2> QED
    BY <1>3, <2>1, <2>5 DEF ReadLine
<1>4. ASSUME LogEnds \/ Reboot PROVE QueueIsShort'
  <2>1. Queued' = Queued
    BY <1>4, QueueSame DEF LogEnds, Reboot, postfix
  <2>2. size <= aborted + 1
    BY DEF TypeOK
  <2>3. CASE LogEnds
    BY <2>1, <2>2, <2>3 DEF LogEnds
  <2>4. CASE Reboot
    BY <2>1, <2>2, <2>4 DEF Reboot
  <2> QED
    BY <1>4, <2>3, <2>4
<1>5. ASSUME Submit PROVE QueueIsShort'
  <2>1. Cardinality(Queued') = size + 1
    BY <1>5, QueueGrows DEF Submit, SubmittedInOrder
  <2>2. SeenToLeave' => SeenToLeave
    BY <1>5 DEF Submit, SeenToLeave
  <2> QED
    BY <1>5, <2>1, <2>2 DEF Submit
<1>6. ASSUME Confirm \/ Refuse PROVE QueueIsShort'
  <2>1. Queued' = Queued
    BY <1>6, QueueSame DEF Confirm, Refuse, postfix
  <2>2. SeenToLeave' => SeenToLeave
    BY <1>6 DEF Confirm, Refuse, SeenToLeave
  <2> QED
    BY <1>6, <2>1, <2>2 DEF Confirm, Refuse
\* The step that counts: the report is over, and a message was seen to leave.
<1>7. ASSUME Join PROVE QueueIsShort'
  <2>1. Queued' = Queued
    BY <1>7, QueueSame DEF Join, postfix
  <2>2. watcher = "Removed" => size < MaxQueued
    BY <1>7 DEF Join, SeenToLeave
  <2> QED
    BY <1>7, <2>1, <2>2 DEF Join
<1>8. ASSUME Hibernate \/ Wake PROVE QueueIsShort'
  <2>1. Queued' = Queued
    BY <1>8, QueueSame DEF Hibernate, Wake, postfix
  <2> QED
    BY <1>8, <2>1 DEF Hibernate, Wake
<1>9. ASSUME NEW m \in Mail, Activate(m) \/ Attempt(m) \/ Defer(m)
      PROVE  QueueIsShort'
  <2>1. PICK s \in InQueue : mail' = [mail EXCEPT ![m] = s]
    BY <1>9 DEF Activate, Attempt, Defer, InQueue
  <2>2. mail[m] \in InQueue
    BY <1>9 DEF Activate, Attempt, Defer, InQueue
  <2>3. Queued' = Queued
    BY <2>1, <2>2, QueueStays
  <2>4. Log(m, "from") \/ Log(m, "to")
    BY <1>9 DEF Activate, Attempt, Defer
  <2>5. UNCHANGED << controller, aborted >>
    BY <1>9 DEF Activate, Attempt, Defer
  <2>6. SeenToLeave' => SeenToLeave
    BY <2>4, <2>5, NothingSeen DEF controller
  <2> QED
    BY <2>3, <2>5, <2>6 DEF controller
<1>10. ASSUME NEW m \in Mail, Remove(m) PROVE QueueIsShort'
  <2>1. UNCHANGED << controller, aborted >> /\ Log(m, "removed")
    BY <1>10 DEF Remove
  <2>2. CASE m \in Reports
    <3>1. Cardinality(Queued') = size - 1
      BY <1>10, <2>2, QueueShrinks DEF Remove
    <3> QED
      BY <2>1, <3>1 DEF controller
  <2>3. CASE m \notin Reports
    <3>1. Queued' = Queued
      BY <1>10, <2>3, QueueShrinks DEF Remove
    <3>2. SeenToLeave' => SeenToLeave
      BY <2>1, <2>3, NothingSeen DEF controller
    <3> QED
      BY <2>1, <3>1, <3>2 DEF controller
  <2> QED
    BY <2>2, <2>3
<1> QED
  BY <1>1, <1>2, <1>3, <1>4, <1>5, <1>6, <1>7, <1>8, <1>9, <1>10
     DEF Next, Controller, Postfix

\* The four parts of the invariant are kept together.
LEMMA NextIInv == IInv /\ [Next]_vars => IInv'
<1> SUFFICES ASSUME IInv, [Next]_vars PROVE IInv'
  OBVIOUS
<1>1. CASE Next
  BY <1>1, TypeStep, OrderStep, TruthStep, QueueStep DEF IInv
<1>2. CASE UNCHANGED vars
  BY <1>2 DEF vars, controller, postfix, IInv, TypeOK, SubmittedInOrder,
     LogIsTrue, Watching, QueueIsShort, Queued, MaxQueued, SeenToLeave
<1> QED
  BY <1>1, <1>2

\* The two futures, Postfix and reboots keep the invariant in any order of their
\* steps (executor.rs:91-106, postfix.rs:29-98).
THEOREM InductiveInvariant == Spec => []IInv
BY InitIInv, NextIInv, PTL DEF Spec

\* The watcher is done only with a message that is out of the queue
\* (postfix.rs:61-71), for any number of reports and of other messages.
THEOREM RemovedIsAlwaysRemoved == Spec => []RemovedIsRemoved
<1>1. IInv => RemovedIsRemoved
  BY DEF IInv, LogIsTrue, RemovedIsRemoved
<1> QED
  BY <1>1, InductiveInvariant, PTL

\* The machine is suspended with at most one report in the queue for each
\* reboot (executor.rs:99-106, 121), and so with none when there was no reboot.
THEOREM NoReportIsLeftBehind == Spec => []NoReportLeftBehind
<1>1. IInv => NoReportLeftBehind
  BY DEF IInv, QueueIsShort, NoReportLeftBehind
<1> QED
  BY <1>1, InductiveInvariant, PTL

=============================================================================
