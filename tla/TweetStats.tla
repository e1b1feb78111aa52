------------------------------ MODULE TweetStats ------------------------------
(***************************************************************************)
(* The views on tweets of src/database/schema.sql that the website serves  *)
(* through src/lib/database.go: the tweets of the past day by ward with    *)
(* the change from the day before, and by hour with the average of the     *)
(* past week.  A view is the set of its rows at the time now.  A day has a *)
(* fixed number of hours here: the two days a year when the clocks change, *)
(* of 23 and 25 hours, are left out.                                       *)
(***************************************************************************)
EXTENDS TweetStore, FiniteSetsExt

CONSTANT DaysPerWeek    \* 7 in the code

ASSUME WeekAssumption == DaysPerWeek \in Nat \ {0}

(* Only tweets are inserted here: the views see no hashtag.                *)
StatsNext == Tick \/ \E s \in Session : Tweeting(s)
StatsSpec == Init /\ [][StatsNext]_vars

Between(low, high) == {w \in tweets : low < w.added /\ w.added < high}
InWard(rows, ward) == Cardinality({w \in rows : w.ward = ward})

-----------------------------------------------------------------------------
(* The tweets of each ward that has one.                                   *)

\* Mutant: the day is closed at both ends.
Past24HrsClosed == {w \in tweets : w.added >= now - Day}

Past24Hrs == {w \in tweets : w.added > now - Day}

(* V_tweetsByWardPast24Hrs: GROUP BY gives a row to a ward with tweets.    *)
TweetsByWardPast24Hrs ==
    {[wardId |-> w.ward, count |-> InWard(Past24Hrs, w.ward)] : w \in Past24Hrs}

OneDayAgo == {w \in tweets : now - 2 * Day <= w.added /\ w.added <= now - Day}

(* V_tweetsByWard1DayAgo: the LEFT JOIN gives one to every ward, with 0    *)
(* for none, the UNION one to the tweets outside of all.                   *)
TweetsByWard1DayAgo ==
    {[wardId |-> v, count |-> InWard(OneDayAgo, v)] : v \in Ward}
        \cup {[wardId |-> 0, count |-> InWard(OneDayAgo, 0)]}

(* V_tweetsByWardDailyChange.                                              *)
TweetsByWardDailyChange ==
    {[wardId |-> p[1].wardId, past24Hrs |-> p[1].count,
      dayChange |-> p[1].count - p[2].count] :
        p \in {p \in TweetsByWardPast24Hrs \X TweetsByWard1DayAgo :
                  p[1].wardId = p[2].wardId}}

-----------------------------------------------------------------------------
(* date_trunc('hour', time), as a number of hours, and the first and the   *)
(* last hour of a period that ends with the last full hour.                *)
Hour(time) == time \div TicksPerHour
HourStart(hour) == hour * TicksPerHour

\* Mutant: the current hour is part of the period.
FullHoursAndNow(period) == Between(HourStart(Hour(now - period)), now + 1)

FullHours(period) == Between(HourStart(Hour(now - period)), HourStart(Hour(now)))

CountIn(rows, hour) == Cardinality({w \in rows : Hour(w.added) = hour})

\* Mutant: the past day is not part of the average.
PastWeekBeforeDay ==
    {w \in FullHours(DaysPerWeek * Day) : w.added < HourStart(Hour(now - Day))}

PastWeek == FullHours(DaysPerWeek * Day)

(* round(avg(count)), over the hours of the week that have a tweet at this *)
(* hour of the day.                                                        *)
Rounded(sum, n) == (2 * sum + n) \div (2 * n)

(* V_avgTweetsPastWeek.                                                    *)
AvgTweetsPastWeek ==
    {[hour |-> d, round |->
        LET rows == {w \in PastWeek : Hour(w.added) % HoursPerDay = d}
        IN  Rounded(Cardinality(rows), Cardinality({Hour(w.added) : w \in rows}))] :
            d \in {Hour(w.added) % HoursPerDay : w \in PastWeek}}

(* V_tweetsPast24Hrs: the LEFT JOIN has None where there is no average.    *)
TweetsPast24Hrs ==
    LET day == FullHours(Day)
        Average(h) == {a \in AvgTweetsPastWeek : a.hour = h % HoursPerDay}
    IN  UNION {{[hour |-> h, count |-> CountIn(day, h), average |-> v] :
                    v \in IF Average(h) = {} THEN {None} ELSE {a.round : a \in Average(h)}} :
                    h \in {Hour(w.added) : w \in day}}

-----------------------------------------------------------------------------
(* The table of wards has one row for each ward with a tweet in the past   *)
(* day, 0 standing for no ward, and the rows add up to all these tweets.   *)
OneRowPerWard ==
    /\ {r.wardId : r \in TweetsByWardDailyChange} = {w.ward : w \in Past24Hrs}
    /\ Cardinality(TweetsByWardDailyChange) = Cardinality({w.ward : w \in Past24Hrs})
    /\ MapThenSumSet(LAMBDA r : r.past24Hrs, TweetsByWardDailyChange) = Cardinality(Past24Hrs)

(* A tweet on the border of the two days counts in one of them: today's    *)
(* count and yesterday's, which the change gives back, make up two days.   *)
TwoDaysAddUp ==
    \A r \in TweetsByWardDailyChange :
        2 * r.past24Hrs - r.dayChange =
            Cardinality({w \in tweets : w.ward = r.wardId /\ w.added >= now - 2 * Day})

(* No tweet is lost or counted twice on the way into the table of wards,   *)
(* at the border of the days or at that of the wards.                      *)
WardRowsAddUp == OneRowPerWard /\ TwoDaysAddUp

(* There is one bar for an hour and no more bars than hours in a day, so   *)
(* that no two bars are of the same hour of the day, and each bar has the  *)
(* average beside it: what counts in the past day counts in the past week. *)
OneBarPerHour ==
    \A r \in TweetsPast24Hrs :
        /\ r.average # None /\ r.average >= 1
        /\ \A q \in TweetsPast24Hrs :
              r # q => r.hour % HoursPerDay # q.hour % HoursPerDay

(* What the chart shows for an hour, nothing being 0, and the calls begun  *)
(* in the hour that are still under way.                                   *)
Drawn(hour) ==
    LET bar == {r \in TweetsPast24Hrs : r.hour = hour}
    IN  IF bar = {} THEN 0 ELSE (CHOOSE r \in bar : TRUE).count
Late(hour) ==
    Cardinality({s \in Session : adding[s] # None /\ Hour(adding[s].start) = hour})

(* An hour that is over or has a bar, and is not the oldest, which the     *)
(* open lower bound can cut.                                               *)
Begun(hour) == hour < Hour(now) \/ Drawn(hour) > 0
Settled(hour) == hour > Hour(now - Day)

(* A bar is not final when it is drawn: a call of insertTweet that began   *)
(* in its hour and commits later still adds to it.  Nothing else does: the *)
(* bar never shrinks, it grows by no more than the calls under way that    *)
(* end, and once there are none it stays as it is.                         *)
BarsSettle ==
    [][\A h \in 0..Hour(now) : Begun(h) /\ Settled(h)' =>
          /\ Drawn(h) <= Drawn(h)'
          /\ Drawn(h)' + Late(h)' <= Drawn(h) + Late(h)]_vars
=============================================================================
