----------------------------- MODULE EmailGadget ----------------------------
(***************************************************************************)
(* The email gadget from a boot to its daily report: postfix-makeconf.sh   *)
(* makes the configuration, Postfix starts after it and hands its mail to  *)
(* Dovecot, the user sorts it, and cron.daily runs spam-statistics, which  *)
(* mails its report through the same Postfix.  The power may fail at any   *)
(* time; files, and what rspamd has been taught, survive.                  *)
(***************************************************************************)
EXTENDS PostfixMakeconf, SpamScan

CONSTANTS
    Openings        \* what to begin with: main.cf.local, today, for each
                    \*   message its place and date, and the bounds on
                    \*   clientSteps, reboots and midnights

ASSUME OpeningsAssumption ==
    \A o \in Openings :
        /\ o.localConf \in LocalConfs
        /\ o.place \in [Messages -> { "none", "out", "gone" } \cup InSpam]
        /\ o.received \in [Messages -> Nat]
        /\ \A m \in Messages : o.received[m] <= o.today
        /\ { o.today, o.clientSteps, o.reboots, o.midnights } \subseteq Nat

VARIABLES
    postfix,        \* postfix.service is up
    reboots,        \* power failures and
    midnights       \* midnights left (bounds)

gadgetVars == << postfix, reboots, midnights >>
vars == << makeconfVars, folderVars, today, scanVars, touched, gadgetVars >>

TypeOK ==
    /\ MakeconfTypeOK
    /\ FolderTypeOK
    /\ ScanTypeOK
    /\ postfix \in BOOLEAN
    /\ reboots \in Nat
    /\ midnights \in Nat

Init ==
    /\ ScanInit
    /\ \E o \in Openings :
          /\ MakeconfInit(o.localConf)
          /\ today = o.today
          /\ place = o.place
          /\ received = o.received
          /\ clientSteps = o.clientSteps
          /\ reboots = o.reboots
          /\ midnights = o.midnights
    /\ copy = [m \in Messages |-> 0]
    \* What is where spam.sieve does not put it has been moved there.
    /\ taught = [m \in Messages |->
                    IF place[m] \in InSpam /\ ~ContainsYes(m) THEN "spam"
                    ELSE IF place[m] = "out" /\ ContainsYes(m) THEN "ham"
                    ELSE "none"]
    /\ postfix = FALSE

-----------------------------------------------------------------------------
MakeConfiguration ==
    /\ MakeconfStep
    /\ UNCHANGED << folderVars, today, scanVars, touched, gadgetVars >>

\* Mutant of StartPostfix: postfix.service starts along with the oneshot.
StartPostfixAtOnce ==
    /\ ~postfix
    /\ makeconf # "inactive"
    /\ postfix' = TRUE
    /\ UNCHANGED << makeconfVars, folderVars, today, scanVars, touched,
                    reboots, midnights >>

\* Before=postfix.service, RequiredBy=postfix.service, Type=oneshot
StartPostfix ==
    /\ ~postfix
    /\ makeconf = "done"
    /\ postfix' = TRUE
    /\ UNCHANGED << makeconfVars, folderVars, today, scanVars, touched,
                    reboots, midnights >>

\* The renewal of the certificate stops and starts Postfix (README.md:58); the
\* oneshot has run and remains active.
StopPostfix ==
    /\ postfix
    /\ postfix' = FALSE
    /\ UNCHANGED << makeconfVars, folderVars, today, scanVars, touched,
                    reboots, midnights >>

\* virtual_transport = lmtp:unix:private/dovecot-lmtp
Delivery ==
    /\ postfix
    /\ \E m \in Messages : Deliver(m, today) /\ Touch(m)
    /\ UNCHANGED << makeconfVars, gadgetVars >>

UseMail ==
    /\ \E m \in Messages : Client(m) /\ Touch(m)
    /\ UNCHANGED << makeconfVars, gadgetVars >>

\* crond starts its jobs when the boot is over.
Scan ==
    /\ \/ makeconf = "done" /\ Cron
       \/ ScanStep
       \/ Send(postfix)
    /\ UNCHANGED << makeconfVars, gadgetVars >>

Midnight ==
    /\ midnights > 0
    /\ midnights' = midnights - 1
    /\ today' = today + 1
    /\ UNCHANGED << makeconfVars, folderVars, scanVars, touched, postfix,
                    reboots >>

\* A power failure, and the boot after it.
Reboot ==
    /\ reboots > 0
    /\ reboots' = reboots - 1
    /\ MakeconfReboot
    /\ postfix' = FALSE
    /\ scan' = "idle"
    /\ listed' = {} /\ emails' = << >>
    /\ charts' = NoCharts /\ domains' = {}
    /\ touched' = {}
    /\ UNCHANGED << folderVars, today, lastRun, midnights >>

Next ==
    \/ MakeConfiguration \/ StartPostfix \/ StopPostfix \/ Delivery \/ UseMail \/ Scan
    \/ Midnight \/ Reboot

Spec == Init /\ [][Next]_vars

-----------------------------------------------------------------------------
SetIn(conf) == { l.key : l \in { x \in ToSet(conf) : x.kind = "set" } }

\* The keys whose settings are replaced: those that are set, and those that a
\* line within a setting looks like setting.
ReplacedBy(conf) ==
    { l.key : l \in { x \in ToSet(conf) : x.kind \in { "set", "more" } } } \ { "" }

\* Postfix never runs on a main.cf in which a setting of the machine does not
\* count, wherever between the two writes of main.cf the power fails
\* (postfix-makeconf.sh:36-39): a boot makes the file again before Postfix
\* starts, and in it the settings of the machine come last.
LocalSettingsWin ==
    postfix =>
        \A key \in SetIn(localConf) : Value(mainCf, key) = Value(localConf, key)

\* What else main.cf loses: the settings of the image keep their values, except
\* those that stand next to a replaced one in the file.  Of a replaced setting
\* exactly two lines go (postfix-makeconf.sh:23-31): when it has one, the line
\* after it goes with it; when it has more, the rest becomes part of the setting
\* before.  When sed fails all of them are lost and Postfix starts all the same
\* (postfix-makeconf.sh:36, the exit status is that of the last command).
OtherSettingsSurvive ==
    postfix =>
        \/ mainCf = localConf
        \/ \A key \in SetIn(BaseConf) \ ReplacedBy(localConf) :
              \/ Value(mainCf, key) = Value(BaseConf, key)
              \/ NextToReplaced(BaseConf, key, ReplacedBy(localConf))

\* How message m, which the report takes for ham, came into Spam: its user moved
\* it, or spam.sieve found in an X-Spam what spam.rs does not.
MovedOrMarked(m) == taught[m] # "none" \/ ContainsYes(m)

\* The senders in the report on misclassified mail have all sent a message whose
\* X-Spam does not equal "Yes" and that the user moved into Spam by hand, unless
\* spam.sieve, which only looks for a "yes" in the headers, put it there
\* (spam.sieve:3, spam.rs:45-53, 130).
MisclassifiedWereMovedOrMarked ==
    \A record \in domains :
        /\ record.recent <= record.total
        /\ \A sender \in record.senders :
              \E m \in Messages :
                 /\ Mail[m].address = sender
                 /\ Mail[m].xSpamRead # "Yes"
                 /\ MovedOrMarked(m)

\* The last lesson rspamd got about a message agrees with where the message is,
\* unless rspamc failed: what was put into Spam without a mark was taught as
\* spam, and what is in another folder, be it the Trash, was not taught as spam
\* last (dovecot.conf:89-103).
LessonsMatchFolders ==
    \A m \in Messages :
        /\ place[m] \in InSpam =>
              \/ taught[m] \in { "spam", "missed" }
              \/ ContainsYes(m) /\ taught[m] = "none"
        /\ place[m] = "out" => taught[m] # "spam"

-----------------------------------------------------------------------------
(***************************************************************************)
(* What comments and texts of the source say, and the code does not do.    *)
(***************************************************************************)

\* spam.rs:180, "Domains that have sent mail misclassified as ham": whoever is in
\* the table has sent a message that was delivered as ham.
MisclassifiedAsHam ==
    \A record \in domains : \A sender \in record.senders :
        \E m \in Messages : Mail[m].address = sender /\ Filed(m) = "out"

\* postfix-makeconf.sh:20, "Create a sed script to remove blocks from base_conf":
\* when sed does not fail, no other setting of the image changes its value.
OnlyBlocksAreRemoved ==
    postfix =>
        \A key \in SetIn(BaseConf) \ ReplacedBy(localConf) :
            Value(mainCf, key) = Value(BaseConf, key)

\* Each of these five statements is made of every report and every main.cf.  So
\* there is always one of them that holds (statistics.rs:72, 99, main.rs:26,
\* spam.rs:180, postfix-makeconf.sh:20).
SomeCommentHolds ==
    \/ WeeksBeginOnSunday
    \/ RateIsOfTheCorrect
    \/ DailyChartWithinWindow
    \/ MisclassifiedAsHam
    \/ OnlyBlocksAreRemoved

-----------------------------------------------------------------------------
\* Postfix is up only while the oneshot has run; what it has made by then is the
\* configuration of the image without the blocks of the machine's settings,
\* unless sed failed, and behind it the settings of the machine.
ConfigurationIsMade ==
    LET left == { << >>, Stripped(BaseConf, Keys(localConf)) }
    IN  /\ postfix => makeconf = "done"
        /\ makeconf = "stripped" => mainCf \in left
        /\ makeconf = "done" => \E conf \in left : mainCf = conf \o localConf

\* Nothing is taught about a message that was not delivered.
TaughtAfterDelivery ==
    \A m \in Messages : place[m] = "none" => taught[m] = "none"

\* What was listed has been in the folder, once under each copy: cur is listed
\* before new, and the file of one copy never goes back to new.
ListedOnce ==
    /\ \A p \in listed : place[p.msg] # "none" /\ p.copy <= copy[p.msg]
    /\ \A p, q \in listed : p.msg = q.msg /\ p.copy = q.copy => p = q
    /\ scan = "listNew" =>
          \A p \in listed : p.copy = copy[p.msg] => place[p.msg] # "new"
    /\ scan \in { "idle", "rspamc", "listCur" } => listed = {}

\* What was read has been in the folder, and is not read under another name.
ReadOnce ==
    /\ CountedOnce
    /\ \A i \in DOMAIN emails : place[emails[i].msg] # "none"
    /\ \A i \in DOMAIN emails, p \in listed :
          p.msg = emails[i].msg => p.copy < copy[p.msg]
    /\ scan \in { "idle", "rspamc", "listCur", "listNew" } => emails = << >>

\* A message that nobody touched is on its way into the list.
StandingMailIsOnItsWay ==
    \A m \in Messages :
        place[m] \in InSpam /\ m \notin touched =>
            /\ scan = "listNew" /\ place[m] # "new" => Path(m) \in listed
            /\ scan = "open" /\ Mail[m].scored =>
                  \/ Path(m) \in listed
                  \/ \E i \in DOMAIN emails : emails[i].msg = m

\* What was read and taken for ham has been moved, or marked otherwise.
ReadAreMovedOrMarked ==
    \A i \in DOMAIN emails : emails[i].isSpam \/ MovedOrMarked(emails[i].msg)

\* The inductive invariant: why, in any order of the steps of the boot, of
\* Postfix, of the user and of the scan, the configuration is that of the
\* machine and the report is about what was in the folder
\* (postfix-makeconf.sh:36-39, spam.rs:83-112, 207-238).
IInv ==
    /\ TypeOK
    /\ ConfigurationIsMade
    /\ TaughtAfterDelivery
    /\ LessonsMatchFolders
    /\ ListedOnce
    /\ ReadOnce
    /\ StandingMailIsOnItsWay
    /\ StandingMailIsCounted
    /\ ReadAreMovedOrMarked
    /\ MisclassifiedWereMovedOrMarked
    /\ DatesArePast
    /\ ChartsAreOfTheList

=============================================================================
