------------------------------ MODULE SpamScan ------------------------------
(***************************************************************************)
(* A run of spam-statistics: main.rs and the reading of the maildirs of    *)
(* spam.rs, over a Spam folder that is not locked.  It asks rspamc, lists  *)
(* cur and then new, opens the files one by one, and reads the clock once  *)
(* for each chart that needs it.                                           *)
(*                                                                         *)
(* The folder is that of one user; the loops over domains and users repeat *)
(* the listing for folders that have nothing to do with each other.        *)
(***************************************************************************)
EXTENDS SpamFolder, SpamStatistics

CONSTANTS
    ScanFaults      \* whether rspamc and reading a directory may fail

VARIABLES
    today,          \* the date that Local::now() gives
    scan,           \* where spam_statistics is
    listed,         \* the paths found and not opened yet
    emails,         \* spam_results
    charts,         \* the data of the charts
    domains,        \* the rows of the report on domains
    lastRun,        \* the date on which cron last started it
    touched         \* messages renamed or moved since it started (a history)

scanVars == << scan, listed, emails, charts, domains, lastRun >>

ScanPC == { "idle", "rspamc", "listCur", "listNew", "open", "sort", "rate",
            "daily", "weekly", "domains", "send", "sent", "unsent", "panicked",
            "failed" }

\* is_spam: the X-Spam that is read equals "Yes".
Email(m) ==
    [msg |-> m, date |-> received[m], score |-> Mail[m].score,
     isSpam |-> Mail[m].xSpamRead = "Yes", address |-> Mail[m].address,
     domain |-> Mail[m].domain]

NoCharts == [scores |-> {}, rate |-> {}, daily |-> << >>, weekly |-> {}]

ScanTypeOK ==
    /\ today \in Nat
    /\ scan \in ScanPC
    /\ listed \subseteq [msg : Messages, copy : Nat, place : InSpam]
    /\ emails \in Seq({ Email(m) : m \in Messages })
    /\ DOMAIN charts = DOMAIN NoCharts
    /\ lastRun \in Nat
    /\ touched \subseteq Messages

ScanInit ==
    /\ scan = "idle"
    /\ listed = {}
    /\ emails = << >>
    /\ charts = NoCharts
    /\ domains = {}
    /\ lastRun = 0
    /\ touched = {}

\* crond runs cron.daily once a day.
Cron ==
    /\ scan \in { "idle", "sent", "unsent", "panicked", "failed" }
    /\ lastRun < today
    /\ lastRun' = today
    /\ scan' = "rspamc"
    /\ listed' = {} /\ emails' = << >>
    /\ charts' = NoCharts /\ domains' = {}
    /\ touched' = {}
    /\ UNCHANGED << folderVars, today >>

\* load_rspamd_statistics: an error of rspamc ends the program.
AskRspamc ==
    /\ scan = "rspamc"
    /\ \/ scan' = "listCur"
       \/ ScanFaults /\ scan' = "failed"
    /\ UNCHANGED << folderVars, today, listed, emails, charts, domains,
                    lastRun, touched >>

Files(places) == { Path(m) : m \in { x \in Messages : place[x] \in places } }

\* Mutant of ListCur: the flags are taken for part of another directory.
ListCurUnread ==
    /\ scan = "listCur"
    /\ \/ scan' = "listNew" /\ listed' = Files({ "cur" })
       \/ ScanFaults /\ scan' = "failed" /\ UNCHANGED listed
    /\ UNCHANGED << folderVars, today, emails, charts, domains, lastRun,
                    touched >>

\* list_spam_maildir, .Spam/cur
ListCur ==
    /\ scan = "listCur"
    /\ \/ scan' = "listNew" /\ listed' = Files({ "cur", "seen" })
       \/ ScanFaults /\ scan' = "failed" /\ UNCHANGED listed
    /\ UNCHANGED << folderVars, today, emails, charts, domains, lastRun,
                    touched >>

\* list_spam_maildir, .Spam/new
ListNew ==
    /\ scan = "listNew"
    /\ \/ scan' = "open" /\ listed' = listed \cup Files({ "new" })
       \/ ScanFaults /\ scan' = "failed" /\ UNCHANGED listed
    /\ UNCHANGED << folderVars, today, emails, charts, domains, lastRun,
                    touched >>

\* The files of cur come before those of new, in the order of the directory.
NextFile(p) ==
    /\ p \in listed
    /\ p.place = "new" => \A q \in listed : q.place = "new"

\* Mutant of OpenFile: a message is looked up again when its file is gone.
OpenFileAgain ==
    /\ scan = "open"
    /\ \E p \in listed :
          /\ NextFile(p)
          /\ listed' = listed \ { p }
          /\ emails' = IF place[p.msg] \in InSpam /\ Mail[p.msg].scored
                       THEN Append(emails, Email(p.msg)) ELSE emails
    /\ UNCHANGED << folderVars, today, scan, charts, domains, lastRun,
                    touched >>

\* load_spam: a file that is gone, or has another name by now, and a message
\* whose headers make_spam_email cannot read, are left out.
OpenFile ==
    /\ scan = "open"
    /\ \E p \in listed :
          /\ NextFile(p)
          /\ listed' = listed \ { p }
          /\ emails' = IF p = Path(p.msg) /\ Mail[p.msg].scored
                       THEN Append(emails, Email(p.msg)) ELSE emails
    /\ UNCHANGED << folderVars, today, scan, charts, domains, lastRun,
                    touched >>

AllOpened ==
    /\ scan = "open"
    /\ listed = {}
    /\ scan' = "sort"
    /\ UNCHANGED << folderVars, today, listed, emails, charts, domains,
                    lastRun, touched >>

\* Mutant of SortAndCount: the list stays in the order of the directory.
SortAndCountUnsorted ==
    /\ scan = "sort"
    /\ charts' = [charts EXCEPT !.scores =
          IntoBins([i \in DOMAIN emails |-> quantize(emails[i].score)])]
    /\ scan' = IF emails = << >> THEN "domains" ELSE "rate"
    /\ UNCHANGED << folderVars, today, listed, emails, domains, lastRun,
                    touched >>

\* The list is sorted; without messages there are no charts ("No spam."), with
\* messages the first one is the histogram of their scores.
SortAndCount ==
    /\ scan = "sort"
    /\ emails' = Sorted(emails)
    /\ charts' = [charts EXCEPT !.scores =
          IntoBins([i \in DOMAIN emails |-> quantize(emails[i].score)])]
    /\ scan' = IF emails = << >> THEN "domains" ELSE "rate"
    /\ UNCHANGED << folderVars, today, listed, domains, lastRun, touched >>

\* The misclassification rate.  A line chart without points is a panic.
DrawRate ==
    /\ scan = "rate"
    /\ LET rate == misclassification_rate(
                     take_weeks(WeeklyBins(emails), WEEKLY_CHART_WINDOW, today))
       IN  /\ charts' = [charts EXCEPT !.rate = rate]
           /\ scan' = IF HasAxes(rate) THEN "daily" ELSE "panicked"
    /\ UNCHANGED << folderVars, today, listed, emails, domains, lastRun,
                    touched >>

\* The box plot of the last days.  What the plotting library does without any
\* is left open.
DrawDaily ==
    /\ scan = "daily"
    /\ LET daily == last_n_days(emails, DAILY_CHART_WINDOW, today)
       IN  /\ charts' = [charts EXCEPT !.daily = daily]
           /\ \/ scan' = "weekly"
              \/ daily = << >> /\ scan' = "panicked"
    /\ UNCHANGED << folderVars, today, listed, emails, domains, lastRun,
                    touched >>

\* The histogram of messages per week.
DrawWeekly ==
    /\ scan = "weekly"
    /\ LET binned == take_weeks(WeeklyBins(emails), WEEKLY_CHART_WINDOW, today)
           weekly == IntoBins([i \in DOMAIN binned |-> binned[i].date])
       IN  /\ charts' = [charts EXCEPT !.weekly = weekly]
           /\ scan' = IF HasAxes(weekly) THEN "domains" ELSE "panicked"
    /\ UNCHANGED << folderVars, today, listed, emails, domains, lastRun,
                    touched >>

\* domain_report
ReportDomains ==
    /\ scan = "domains"
    /\ domains' = recent_misclassified(emails, today)
    /\ scan' = "send"
    /\ UNCHANGED << folderVars, today, listed, emails, charts, lastRun,
                    touched >>

\* mailer.send: a refusal is printed, and the program ends well.
Send(accepted) ==
    /\ scan = "send"
    /\ scan' = IF accepted THEN "sent" ELSE "unsent"
    /\ UNCHANGED << folderVars, today, listed, emails, charts, domains,
                    lastRun, touched >>

ScanStep ==
    \/ AskRspamc \/ ListCur \/ ListNew \/ OpenFile \/ AllOpened
    \/ SortAndCount \/ DrawRate \/ DrawDaily \/ DrawWeekly \/ ReportDomains

\* A step of somebody else renames or moves a message, or brings one.
Touch(m) ==
    /\ touched' = touched \cup { m }
    /\ UNCHANGED << today, scanVars >>

-----------------------------------------------------------------------------
(***************************************************************************)
(* What a report says.  The clock is read for each chart, so that midnight *)
(* may have passed in between, and since.                                  *)
(***************************************************************************)

Reported == scan \in { "send", "sent", "unsent" }

\* The days on which a run that was started on lastRun may have read the clock.
ReadingDays == lastRun .. today

\* No message is counted twice, however it is read, moved out of the folder and
\* back into it while the folder is listed and its files are opened
\* (spam.rs:91-109, 230-235).
CountedOnce ==
    \A i, j \in DOMAIN emails : emails[i].msg = emails[j].msg => i = j

\* A message is only missed when somebody renamed or moved it in the meantime,
\* or when its headers cannot be read (spam.rs:91-109, 230-235): cur is listed
\* before new, and a file is opened long after it was listed.
StandingMailIsCounted ==
    scan \in { "sort", "rate", "daily", "weekly", "domains" } =>
        \A m \in Messages :
            place[m] \in InSpam /\ m \notin touched /\ Mail[m].scored =>
                \E i \in DOMAIN emails : emails[i].msg = m

\* The first day of the week of a date; day 3 is a Monday.
MondayOf(date) == CHOOSE d \in date - 6 .. date : d % 7 = 3

LastWeeks(day) ==
    { MondayOf(day) - 7 * k : k \in 0 .. WEEKLY_CHART_WINDOW - 2 }

ReceivedIn(week) ==
    { i \in DOMAIN emails : MondayOf(emails[i].date) = week }

\* The weeks up to the one of a day that have a point or a bar in a chart.
WeeksWithSpam(day) == { w \in LastWeeks(day) : ReceivedIn(w) # {} }

RateIsByWeek(day) ==
    charts.rate =
        { [date |-> w,
           part |-> Cardinality({ i \in ReceivedIn(w) : ~emails[i].isSpam }),
           of   |-> Cardinality(ReceivedIn(w))] :
             w \in WeeksWithSpam(day) }

HistogramIsByWeek(day) ==
    charts.weekly = { [of |-> w, count |-> Cardinality(ReceivedIn(w))] :
                         w \in WeeksWithSpam(day) }

\* Both weekly charts are about the calendar weeks, from Monday to Sunday, of
\* the last 29 weeks, this one included: each message of those weeks is counted
\* under the Monday of its week, no other message is, and the share of ham is of
\* the messages without X-Spam (statistics.rs:73-83, 99-138; main.rs:123-160).
WeeklyChartsAreCalendarWeeks ==
    Reported /\ emails # << >> =>
        /\ \E day \in ReadingDays : RateIsByWeek(day)
        /\ \E day \in ReadingDays : HistogramIsByWeek(day)

DailyIsOfDates(dates) ==
    LET inWindow == { i \in DOMAIN emails : emails[i].date \in dates }
    IN  /\ Len(charts.daily) = Cardinality(inWindow)
        /\ ToSet(charts.daily) = { emails[i] : i \in inWindow }

\* The chart of the last 14 days is about 15 dates, a day and the 14 before it,
\* and about all messages of them; it relies on the order that spam_statistics
\* gave the list before (statistics.rs:85-97, main.rs:101-110).
DailyChartIsFifteenDates ==
    Reported /\ emails # << >> =>
        \E day \in ReadingDays : DailyIsOfDates(day - 14 .. day)

InBin(score, b) ==
    IF b = 0 THEN -10 < score /\ score < 10
    ELSE IF b > 0 THEN 10 * b <= score /\ score < 10 * b + 10
    ELSE 10 * b - 10 < score /\ score <= 10 * b

ScoresAreBinned ==
    /\ \A i \in DOMAIN emails :
          \E bin \in charts.scores : InBin(emails[i].score, bin.of)
    /\ \A bin \in charts.scores :
          bin.count = Count(emails, LAMBDA m : InBin(m.score, bin.of))

\* The bins of the scores are one point wide, except that all scores between -1
\* and 1 are in bin 0, and every message is in one of them
\* (statistics.rs:31-43, 165-181).
ScoreBins == Reported => ScoresAreBinned

HasSpamOfTheWeeks ==
    \E i \in DOMAIN emails :
        emails[i].date >= lastRun - 7 * (WEEKLY_CHART_WINDOW - 1)

\* Old spam alone silences the report: make_linechart and make_histogram unwrap
\* the axes of an empty chart (line.rs:34, hist.rs:34).  The program panics only
\* when it has found spam and none of it is of the last 14 days, and it gets to
\* its mail only when it has found no spam or some of the last 29 weeks.
PanicsWithoutRecentSpam ==
    /\ scan = "panicked" =>
          /\ emails # << >>
          /\ \A i \in DOMAIN emails :
                emails[i].date < today - DAILY_CHART_WINDOW
    /\ Reported /\ emails # << >> => HasSpamOfTheWeeks

-----------------------------------------------------------------------------
(***************************************************************************)
(* What comments of the source say, and the charts do not do.              *)
(***************************************************************************)

\* statistics.rs:99, "Get the date of the previous Sunday given a date": the weeks
\* of the charts begin on Sundays; day 2 is one.
WeeksBeginOnSunday == \A bar \in charts.weekly : bar.of % 7 = 2

\* statistics.rs:72, "The percentage of correctly classified spam": the share that
\* is drawn is that of the messages with X-Spam.
RateIsOfTheCorrect ==
    \A point \in charts.rate :
        point.part =
            Cardinality({ i \in ReceivedIn(point.date) : emails[i].isSpam })

\* main.rs:26, "Max number of days to include in daily charts", which is 14.
DailyChartWithinWindow ==
    Cardinality({ m.date : m \in ToSet(charts.daily) }) <= DAILY_CHART_WINDOW

-----------------------------------------------------------------------------
\* The list of messages stays as SortAndCount left it while the charts are drawn
\* one after the other, each from the clock of its own moment, and none of them
\* is drawn again.
AfterWeekly == { "domains", "send", "sent", "unsent" }
AfterDaily  == AfterWeekly \cup { "weekly" }
AfterRate   == AfterDaily \cup { "daily" }
AfterSort   == AfterRate \cup { "rate", "panicked" }

OldestFirst ==
    \A i, j \in DOMAIN emails : i <= j => emails[i].date <= emails[j].date

\* Nothing is dated in the future, and no run was started there.
DatesArePast ==
    /\ lastRun <= today
    /\ \A m \in Messages : received[m] <= today

ChartsAreOfTheList ==
    /\ scan \in { "rate", "daily", "weekly" } => emails # << >>
    /\ scan \in AfterSort => OldestFirst /\ ScoresAreBinned
    /\ scan \in AfterRate /\ emails # << >> =>
          \E day \in ReadingDays : RateIsByWeek(day)
    /\ scan \in AfterDaily /\ emails # << >> =>
          \E day \in ReadingDays : DailyIsOfDates(day - 14 .. day)
    /\ scan \in AfterWeekly /\ emails # << >> =>
          /\ \E day \in ReadingDays : HistogramIsByWeek(day)
          /\ HasSpamOfTheWeeks
    /\ PanicsWithoutRecentSpam

=============================================================================
