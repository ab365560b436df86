--------------------------- MODULE SpamStatistics ---------------------------
(***************************************************************************)
(* statistics.rs of spam-statistics, and the part of spam.rs that computes *)
(* the report on domains: functions of the messages found in the Spam      *)
(* folders and of today's date.                                            *)
(*                                                                         *)
(* A date is a number of days since 1 March 2024, a Friday.  A message is  *)
(* a record of the date it was received, the score of rspamd in tenths, is *)
(* it marked as spam, and the address and domain of its sender (the domain *)
(* is "" when the address does not parse).                                 *)
(***************************************************************************)
EXTENDS Integers, FiniteSets, Sequences, SequencesExt

WEEKLY_CHART_WINDOW == 30
DAILY_CHART_WINDOW  == 14
CUTOFF              == 7

\* The number of elements with a property, in a sequence.
Count(seq, Test(_)) == Cardinality({ i \in DOMAIN seq : Test(seq[i]) })

\* chrono's enum Weekday counts from Monday.
WeekdayNumber(date) == (date + 4) % 7

\* previous_sunday: the date less its weekday number, which is a Monday.
previous_sunday(date) == date - WeekdayNumber(date)

\* Mutant of quantize: rounding down instead of cutting off.
quantize_floor(score) == score \div 10

\* quantize_spam_results: "as i32" cuts off towards zero.
quantize(score) == IF score >= 0 THEN score \div 10 ELSE -((-score) \div 10)

\* The place of message i in the sorted list: how many messages are older, or
\* as old and not behind it.
Rank(emails, i) ==
    Cardinality({ j \in DOMAIN emails :
                    \/ emails[j].date < emails[i].date
                    \/ emails[j].date = emails[i].date /\ j <= i })

\* sort_by(date_received), which is stable.
Sorted(emails) ==
    [n \in DOMAIN emails |->
        emails[CHOOSE i \in DOMAIN emails : Rank(emails, i) = n]]

\* into_bins: how often each value occurs.
IntoBins(values) ==
    { [of |-> v, count |-> Count(values, LAMBDA w : w = v)] :
        v \in ToSet(values) }

\* weekly_bins and its iterator: from the last message back, each dated with
\* its week.
WeeklyBins(emails) ==
    LET sorted == Reverse(Sorted(emails))
    IN  [i \in DOMAIN sorted |->
            [sorted[i] EXCEPT !.date = previous_sunday(@)]]

\* Mutant of take_weeks: the week at the edge is taken.
take_weeks_inclusive(binned, num, today) ==
    LET earliest == previous_sunday(today) - (num - 1) * 7
        taken == { n \in 0 .. Len(binned) :
                     \A i \in 1 .. n : binned[i].date >= earliest }
    IN  SubSeq(binned, 1, CHOOSE n \in taken : \A k \in taken : k <= n)

\* take_weeks: take_while stops at the first message that is too old.
take_weeks(binned, num, today) ==
    LET earliest == previous_sunday(today) - (num - 1) * 7
        taken == { n \in 0 .. Len(binned) :
                     \A i \in 1 .. n : binned[i].date > earliest }
    IN  SubSeq(binned, 1, CHOOSE n \in taken : \A k \in taken : k <= n)

spam_counts(emails) ==
    { [date |-> d,
       spam |-> Count(emails, LAMBDA m : m.date = d /\ m.isSpam),
       ham  |-> Count(emails, LAMBDA m : m.date = d /\ ~m.isSpam)] :
        d \in { m.date : m \in ToSet(emails) } }

\* misclassification_rate: for each date the share of ham, as a quotient.
misclassification_rate(emails) ==
    { [date |-> c.date, part |-> c.ham, of |-> c.spam + c.ham] :
        c \in spam_counts(emails) }

\* last_n_days, with its shortcuts and partition_point; it relies on the order.
last_n_days(emails, n, today) ==
    LET earliest == today - n
        before == Count(emails, LAMBDA m : m.date < earliest)
    IN  IF emails = << >> \/ emails[1].date > earliest THEN emails
        ELSE IF Last(emails).date < earliest THEN << >>
        ELSE SubSeq(emails, before + 1, Len(emails))

\* recent_misclassified: a record for each domain of which a message without
\* X-Spam was received in the last days; the order of the table is left out.
recent_misclassified(emails, today) ==
    LET misclassified == { i \in DOMAIN emails :
                             ~emails[i].isSpam /\ emails[i].domain # "" }
        Of(d) == { i \in misclassified : emails[i].domain = d }
        record(d) ==
            [senders |-> { emails[i].address : i \in Of(d) },
             recent  |-> Cardinality({ i \in Of(d) :
                                         emails[i].date > today - CUTOFF }),
             total   |-> Cardinality(Of(d))]
    IN  { r \in { record(emails[i].domain) : i \in misclassified } :
            r.recent > 0 }

\* Mutant of HasAxes: a chart without data is drawn.
HasAxesAlways(data) == TRUE

\* try_into_cartesian_range: the axes of a chart, of which there are none
\* without data; make_histogram and make_linechart unwrap them.
HasAxes(data) == data # {}

=============================================================================
