------------------------------ MODULE Metrics -------------------------------
(***************************************************************************)
(* The figures of the dashboard (usage/metrics.ts): one scan of the usage  *)
(* log, cut into one bucket per day, from which every window is folded.    *)
(* The scan, the latest rows and the clock are read at different moments,  *)
(* and days are told by the server's calendar, in which a day of the       *)
(* window may be an hour short or long.  A request stands for its tokens,  *)
(* its cost and its latency; the quota and the runway are left out.        *)
(***************************************************************************)
EXTENDS FiniteSetsExt, SequencesExt, Integers, Absent

CONSTANTS
  Calendars,   \* bound: the midnights of the days, in ticks, starting at 0
  Day,         \* 86_400_000, in ticks: the length of most days
  MonthStarts, \* the days that begin a month
  Windows,     \* TREND_WINDOWS
  Latest,      \* rows of the list of recent requests, 8 in the code
  Served,      \* the models of the rows
  MaxRows      \* bound: rows ever logged

VARIABLES
  calendar,    \* the midnights of this behaviour; never changes
  clock,       \* in ticks
  usage,       \* usage_logs of the account, in the order of createdAt
  overview     \* the locals of collect, and its answer while it is shown;
               \* rows that were read keep their places in the log

metricsVars == <<calendar, clock, usage, overview>>

Days == DOMAIN calendar

(* dayKey.                                                                 *)
DayOf(t) == Max({d \in Days : calendar[d] <= t})

(* The clock stops where the bound on the calendar does.                   *)
LastTick == calendar[Len(calendar)] + Day - 1

Idle == [at |-> "idle"]

-----------------------------------------------------------------------------
(* collect: the bounds of the scan, after the subscription was read.       *)

MaxWindow == Max(Windows)

(* Fault: the window starts a day late.                                    *)
WindowStartLate == calendar[DayOf(clock)] - (MaxWindow - 2) * Day

WindowStart == calendar[DayOf(clock)] - (MaxWindow - 1) * Day

MonthStart == calendar[Max({d \in MonthStarts : d <= DayOf(clock)})]

(* Fault: the scan covers this month only.                                 *)
EarliestOfMonth(window, month) == month

Earliest(window, month) == IF window < month THEN window ELSE month

Open ==
  /\ overview.at = "idle" /\ WindowStart >= 0
  /\ overview' = [at |-> "reading", opened |-> DayOf(clock), window |-> WindowStart,
                  month |-> MonthStart, scan |-> Null, recent |-> Null]
  /\ UNCHANGED <<calendar, clock, usage>>

(* The three queries of Promise.all end in any order; the count of keys is *)
(* left out.                                                               *)
ReadLogs ==
  /\ overview.at = "reading" /\ overview.scan = Null
  /\ overview' = [overview EXCEPT !.scan =
       Restrict(usage, {i \in DOMAIN usage :
                          usage[i].at >= Earliest(overview.window, overview.month)})]
  /\ UNCHANGED <<calendar, clock, usage>>

ReadRecent ==
  /\ overview.at = "reading" /\ overview.recent = Null
  /\ overview' = [overview EXCEPT !.recent =
       Reverse(SubSeq(usage, Max({1, Len(usage) - Latest + 1}), Len(usage)))]
  /\ UNCHANGED <<calendar, clock, usage>>

-----------------------------------------------------------------------------
(* The buckets, the cards and the windows.                                 *)

Of(logs, date) == {i \in DOMAIN logs : DayOf(logs[i].at) = date}

(* allDays: every step along the window is 24 hours long.                  *)
DateOf(window, k) == DayOf(window + (k - 1) * Day)

(* byDate: the last bucket of a date gets its rows.                        *)
Home(window, k, date) == \A j \in k + 1 .. MaxWindow : DateOf(window, j) # date

Bucket(window, k, logs) ==
  LET date == DateOf(window, k)
      mine == {i \in Of(logs, date) : Home(window, k, date)}
  IN [date |-> date, requests |-> Cardinality(mine),
      errors |-> Cardinality({i \in mine : ~logs[i].ok}),
      models |-> [m \in Served |-> Cardinality({i \in mine : logs[i].model = m})]]

AllDays(window, logs) == [k \in 1 .. MaxWindow |-> Bucket(window, k, logs)]

(* Fault: a window one day wider than the figures it heads.                *)
SliceWider(days, w) == SubSeq(days, Max({1, Len(days) - w}), Len(days))

(* slice(-w).                                                              *)
Slice(days, w) == SubSeq(days, Len(days) - w + 1, Len(days))

(* A loop of +=.                                                           *)
Total(figures) ==
  LET sum[k \in 0 .. Len(figures)] == IF k = 0 THEN 0 ELSE sum[k - 1] + figures[k]
  IN sum[Len(figures)]

(* foldWindow: successRate is null where there were no requests; of the    *)
(* models the page lists the six with most tokens.                         *)
FoldWindow(days, w) ==
  LET slice == Slice(days, w) IN
  [trend     |-> slice,
   requests  |-> Total([k \in 1 .. w |-> slice[k].requests]),
   successes |-> Total([k \in 1 .. w |-> slice[k].requests - slice[k].errors]),
   models    |-> [m \in Served |-> Total([k \in 1 .. w |-> slice[k].models[m]])]]

(* getDashboardOverview: every window at once; getOverview answers one.    *)
Answer ==
  /\ overview.at = "reading" /\ overview.scan # Null /\ overview.recent # Null
  /\ LET days == AllDays(overview.window, overview.scan)
         today == DayOf(clock)
     IN overview' =
          [at |-> "shown", opened |-> overview.opened, answered |-> today,
           window |-> overview.window, scan |-> overview.scan,
           requestsToday |-> Cardinality(Of(overview.scan, today)),
           requestsThisMonth |-> Cardinality({i \in DOMAIN overview.scan :
                                               overview.scan[i].at >= overview.month}),
           hasAnyUsage |-> overview.recent # <<>>,
           windows |-> [w \in Windows |-> FoldWindow(days, w)]]
  /\ UNCHANGED <<calendar, clock, usage>>

Leave ==
  /\ overview.at = "shown"
  /\ overview' = Idle
  /\ UNCHANGED <<calendar, clock, usage>>

-----------------------------------------------------------------------------
(* recordUsage of a call, and time.                                        *)
Log(m, ok) ==
  /\ Len(usage) < MaxRows
  /\ usage' = Append(usage, [at |-> clock, model |-> m, ok |-> ok])
  /\ UNCHANGED <<calendar, clock, overview>>

Tick ==
  /\ clock < LastTick
  /\ clock' = clock + 1
  /\ UNCHANGED <<calendar, usage, overview>>

MetricsInit ==
  /\ calendar \in Calendars
  /\ clock = 0 /\ usage = <<>> /\ overview = Idle

MetricsNext ==
  \/ Open \/ ReadLogs \/ ReadRecent \/ Answer \/ Leave
  \/ (\E m \in Served, ok \in BOOLEAN : Log(m, ok))
  \/ Tick

-----------------------------------------------------------------------------
(* What the figures of one page have to do with each other and with the    *)
(* rows that were read.                                                    *)

InWindow(d, w) == overview.opened - w < d /\ d <= overview.opened

Uneven(d) == d < Len(calendar) /\ calendar[d + 1] - calendar[d] # Day

(* "Day buckets follow the server's local calendar": the trend of a window *)
(* has one bucket for each of its days, and the past ones hold every       *)
(* request of theirs, unless a day of the widest was not 24 hours long.    *)
TrendFollowsTheCalendar ==
  (\A d \in Days : InWindow(d, MaxWindow) => ~Uneven(d)) =>
    \A w \in Windows :
      LET trend == overview.windows[w].trend IN
      /\ [k \in 1 .. w |-> trend[k].date] = [k \in 1 .. w |-> overview.opened - w + k]
      /\ \A k \in 1 .. w - 1 :
           trend[k].requests = Cardinality(Of(usage, trend[k].date))

(* The range switcher swaps figures that agree: a window's requests, its   *)
(* successes and each model's share are those of the rows read of its      *)
(* dates, each counted once, and a narrower window is the end of a wider   *)
(* one, whatever the calendar.                                             *)
WindowsAgree ==
  \A w \in Windows :
    LET folded == overview.windows[w]
        within == {i \in DOMAIN overview.scan :
                     \E k \in 1 .. w : folded.trend[k].date = DayOf(overview.scan[i].at)}
    IN /\ Len(folded.trend) = w
       /\ folded.requests = Cardinality(within)
       /\ folded.successes = Cardinality({i \in within : overview.scan[i].ok})
       /\ \A m \in Served :
            folded.models[m] = Cardinality({i \in within : overview.scan[i].model = m})
       /\ \A v \in Windows :
            v <= w => overview.windows[v].trend = SubSeq(folded.trend, w - v + 1, w)

(* The cards stand beside the trend: today's requests are its last bucket, *)
(* unless midnight passed under the request.                               *)
CardsAgree ==
  overview.answered = overview.opened =>
    overview.requestsToday = overview.windows[MaxWindow].trend[MaxWindow].requests

DashboardAddsUp ==
  overview.at = "shown" => TrendFollowsTheCalendar /\ WindowsAgree /\ CardsAgree
=============================================================================
