----------------------------- MODULE Reminders -----------------------------
(***************************************************************************)
(* The reminders of the notifications worker: the cron schedules, the loop *)
(* that sends each reminder once (dispatchReminder over the table          *)
(* reminder_sent_log), and the mail queue of pg-boss behind it.            *)
(*                                                                         *)
(* Time goes by half months, counted from 1 January of FirstYear: a        *)
(* reminder sent J-30 leaves 2 before its deadline, J-15 and J-10 leave 1  *)
(* before it.  The declarations are the environment: each may owe a step   *)
(* or not, and what the eligibility queries select is modelled in module   *)
(* DemarcheReaders.  A schedule may fire again on the same day, while its  *)
(* first run is still going on: pg-boss expires a job that is too slow.    *)
(***************************************************************************)
EXTENDS Integers, FiniteSets

CONSTANTS
  Sirens,        (* the companies                                          *)
  FirstYear, LastYear,  (* the campaigns of the instance                   *)
  Kinds,         (* the reminders of the instance                          *)
  NewDeadlines,  (* the dates an administrator may move a deadline to      *)
  Horizon,       (* the last day of the instance                           *)
  Workers,       (* the runs of a schedule that may go on at the same time *)
  Nothing,
  RetryLimit,    (* the attempts pg-boss makes again at a job              *)
  MaxFires,      (* bound on the firings of a schedule on one day          *)
  MaxFaults      (* bound on the crashes and the failures of a run          *)

Daily  == { "declaration", "path_1", "path_2", "second_declaration",
            "evaluation_1", "evaluation_2" }
Opinion == { "compliance", "justify_oct", "justify_dec", "corrective", "joint_eval" }
Fixed  == Opinion \union { "opening", "handover" }
Years  == FirstYear .. LastYear

ASSUME RemindersAssumption ==
  /\ FirstYear \in Nat /\ LastYear \in Nat /\ FirstYear <= LastYear
  /\ FirstYear >= 2027  (* the kick-off of EgaPro V2: no campaign before it *)
  /\ Kinds \subseteq Daily \union Fixed
  /\ Nothing \notin Sirens \union Fixed \union {"daily"}
  /\ Horizon \in Nat /\ NewDeadlines \subseteq Nat
  /\ RetryLimit \in Nat /\ MaxFires \in Nat /\ MaxFaults \in Nat

VARIABLES
  today,
  deadline,   (* table campaign_deadline, with its defaults                *)
  owing,      (* the steps the declarations owe: what the queries select   *)
  run,        (* the runs of schedules under way                           *)
  sentLog,    (* table reminder_sent_log                                   *)
  queue,      (* the jobs of the queue email-notification                  *)
  jobs,       (* history: how many jobs were queued for each reminder      *)
  mails,      (* how many mails left for each reminder                     *)
  dropped,    (* the reminders of which a job failed for good              *)
  repeats,    (* history: the reasons there may be to send one again       *)
  fired,      (* how often each schedule fired today                       *)
  served,     (* history: the schedules that ran without an error today    *)
  obliged,    (* history: the reminders due today                          *)
  faults

calendar == << today, deadline, owing, obliged >>
post     == << queue, mails, dropped >>
vars     == << calendar, run, sentLog, post, jobs, repeats, fired, served, faults >>

-----------------------------------------------------------------------------
(* The calendar                                                            *)

On(year, month) == 24 * (year - FirstYear) + 2 * (month - 1)
YearOf(day)     == FirstYear + day \div 24

(* getDefaultReminderDeadlines *)
DefaultDeadline(kind, year) ==
  CASE kind = "declaration"  -> On(year, 6)
    [] kind = "path_1"       -> On(year, 7)
    [] kind = "evaluation_1" -> On(year, 9)
    [] OTHER                 -> On(year + 1, 1)

Movable      == Daily \ {"path_1", "path_2"}
Offsets(kind) == IF kind \in {"path_1", "path_2"} THEN {1} ELSE {1, 2}

(* The month, on the first of which the cron of a fixed schedule fires. *)
Month(kind) ==
  CASE kind \in {"compliance", "corrective"}  -> 2
    [] kind \in {"opening", "handover"}       -> 3
    [] kind = "justify_oct"                   -> 9
    [] kind \in {"justify_dec", "joint_eval"} -> 12

Tick(kind) == IF kind \in Daily THEN "daily" ELSE kind
Ticks      == { Tick(k) : k \in Kinds }

OffsetsOf(kind) == IF kind \in Daily THEN Offsets(kind) ELSE {0}

(* What a declaration may owe, and the rows of the log: a reminder is      *)
(* known by (type, siren, year, variant).                                  *)
Step == [kind : Kinds, siren : Sirens, year : Years]
Rows == { r \in [ kind : Kinds, siren : Sirens, year : FirstYear .. (LastYear + 1),
                  offset : {0, 1, 2} ] :
            /\ r.offset \in OffsetsOf(r.kind)
            /\ r.year > LastYear => r.kind = "opening" }

(* One eligibility query of a run: the campaign it asks about, and the     *)
(* year and variant of the rows it will log.                               *)
Query(kind, asks, year, offset) ==
  [kind |-> kind, asks |-> asks, year |-> year, offset |-> offset]

DailyYearsCurrent(day) == {YearOf(day)}

(* handleDailyDeadlineReminders: this year's campaign and the last one's. *)
DailyYears(day) == {YearOf(day), YearOf(day) - 1}

DailyQueries(day) ==
  { q \in { Query(k, y, y, o) : k \in Kinds \intersect Daily,
                                y \in DailyYears(day) \intersect Years, o \in {1, 2} } :
      q.offset \in Offsets(q.kind) /\ deadline[<< q.kind, q.year >>] - q.offset = day }

(* handleCseOpinionReminder, handleCycleOpeningInfo, handleNextCycleHandover *)
MinOpeningYear == 2028

FixedQueries(kind, day) ==
  LET year == YearOf(day)
  IN  CASE kind \in Opinion   -> {Query(kind, year, year, 0)}
        [] kind = "handover"  -> {Query(kind, year - 1, year - 1, 0)}
        [] kind = "opening"   ->
             IF year < MinOpeningYear THEN {} ELSE {Query(kind, year - 1, year, 0)}

Queries(tick, day) ==
  IF tick = "daily" THEN DailyQueries(day) ELSE FixedQueries(tick, day)

FiresOn(tick, day) ==
  tick # "daily" => \E year \in Years \union {LastYear + 1} : day = On(year, Month(tick))

Recipients(q) == { s \in Sirens : [kind |-> q.kind, siren |-> s, year |-> q.asks] \in owing }

-----------------------------------------------------------------------------
(* What the documentation promises: docs/mails and the comments            *)

(* The day on which the step of a campaign is to be recalled. *)
SendingDay(kind, year, offset) ==
  CASE kind \in Daily                              -> deadline[<< kind, year >>] - offset
    [] kind \in {"compliance", "corrective"}       -> On(year + 1, Month(kind))
    [] kind \in {"justify_oct", "justify_dec", "joint_eval"} -> On(year, Month(kind))
    [] kind \in {"opening", "handover"}            -> On(year + 1, Month(kind))

(* The year under which it is logged: the opening tells of the next one. *)
LoggedYear(kind, year) == IF kind = "opening" THEN year + 1 ELSE year

Obligations(some, day) ==
  { r \in { [kind |-> s.kind, siren |-> s.siren, year |-> s.year, offset |-> o] :
              s \in some, o \in {0, 1, 2} } :
      r.offset \in OffsetsOf(r.kind) /\ SendingDay(r.kind, r.year, r.offset) = day }

Row(r) == [r EXCEPT !.year = LoggedYear(r.kind, @)]

-----------------------------------------------------------------------------
Rest == [ tick |-> Nothing, queries |-> {}, query |-> Nothing, todo |-> {},
          siren |-> Nothing, at |-> "idle", clean |-> TRUE ]

AnyQuery == [ kind : Kinds, asks : (FirstYear - 1) .. (LastYear + 1),
              year : (FirstYear - 1) .. (LastYear + 1), offset : {0, 1, 2} ]

TypeOK ==
  /\ today    \in 0 .. Horizon
  /\ deadline \in [(Kinds \intersect Daily) \X Years -> Int]
  /\ owing    \subseteq Step
  /\ \A w \in Workers :
       /\ run[w].tick \in Ticks \union {Nothing}
       /\ run[w].query = Nothing \/ run[w].query \in AnyQuery
       /\ run[w].todo \subseteq Sirens
       /\ run[w].at = "idle" <=> run[w].tick = Nothing
       /\ run[w].at \in {"enqueue", "mark"} <=> run[w].siren # Nothing
  /\ sentLog  \subseteq Rows
  /\ \A j \in queue : j.reminder \in Rows /\ j.tries \in 0 .. RetryLimit
  /\ DOMAIN jobs = Rows /\ DOMAIN mails = Rows
  /\ dropped  \subseteq Rows
  /\ faults   \in 0 .. MaxFaults

Init ==
  /\ today    = 0
  /\ deadline = [ky \in (Kinds \intersect Daily) \X Years |-> DefaultDeadline(ky[1], ky[2])]
  /\ owing    = {}
  /\ run      = [w \in Workers |-> Rest]
  /\ sentLog  = {}
  /\ queue    = {}
  /\ jobs     = [r \in Rows |-> 0]
  /\ mails    = [r \in Rows |-> 0]
  /\ dropped  = {}
  /\ repeats  = [r \in Rows |-> 0]
  /\ fired    = [t \in Ticks |-> 0]
  /\ served   = {}
  /\ obliged  = {}
  /\ faults   = 0

-----------------------------------------------------------------------------
(* The environment                                                         *)

(* The declarant takes the step, perhaps while a run is reminding him of it. *)
Settle(s) ==
  /\ owing' = owing \ {s}
  /\ obliged' = { r \in obliged : ~(r.kind = s.kind /\ r.siren = s.siren /\ r.year = s.year) }
  /\ UNCHANGED << today, deadline, run, sentLog, post, jobs, repeats, fired, served, faults >>

(* upsertRemunerationDeadlines *)
MoveDeadline(kind, year, day) ==
  /\ kind \in Movable
  /\ day # deadline[<< kind, year >>]
  /\ deadline' = [deadline EXCEPT ![<< kind, year >>] = day]
  /\ obliged' = { r \in obliged : ~(r.kind = kind /\ r.year = year) }
  /\ UNCHANGED << today, owing, run, sentLog, post, jobs, repeats, fired, served, faults >>

(* The steps that matter on a day: those a query asks about, or that are   *)
(* to be recalled.  On another day no reminder leaves, and it is passed    *)
(* over.                                                                   *)
StepsOf(day) ==
  { s \in Step :
      \/ \E t \in Ticks : /\ FiresOn(t, day)
                         /\ \E q \in Queries(t, day) : q.kind = s.kind /\ q.asks = s.year
      \/ \E o \in OffsetsOf(s.kind) : SendingDay(s.kind, s.year, o) = day }

NextBusyDay == { day \in (today + 1) .. Horizon :
                   /\ StepsOf(day) # {} \/ day = Horizon
                   /\ \A d \in (today + 1) .. (day - 1) : StepsOf(d) = {} }

(* Between two such days the declarations may have moved in any way, and   *)
(* the jobs, whose retries last an hour, are over.                         *)
NextDay ==
  /\ \A w \in Workers : run[w] = Rest
  /\ queue = {}
  /\ \E day \in NextBusyDay :
       /\ today'   = day
       /\ \E some \in SUBSET StepsOf(day) :
            /\ owing'   = some
            /\ obliged' = Obligations(some, day)
  /\ fired'   = [t \in Ticks |-> 0]
  /\ served'  = {}
  /\ UNCHANGED << deadline, run, sentLog, post, jobs, repeats, faults >>

-----------------------------------------------------------------------------
(* A run of a schedule                                                     *)

ResumeKeepingSiren(w) ==
  run' = [run EXCEPT ![w].at = IF run[w].todo = {} THEN "next" ELSE "check"]

Resume(w) == run' = [run EXCEPT ![w].at = IF run[w].todo = {} THEN "next" ELSE "check",
                                ![w].siren = Nothing]

RowOf(w, s) == [ kind |-> run[w].query.kind, siren |-> s,
                 year |-> run[w].query.year, offset |-> run[w].query.offset ]

Fire(w, t) ==
  /\ run[w] = Rest
  /\ FiresOn(t, today)
  /\ fired[t] < MaxFires
  /\ run' = [run EXCEPT ![w] = [Rest EXCEPT !.tick = t, !.at = "next",
                                            !.queries = Queries(t, today)]]
  /\ fired' = [fired EXCEPT ![t] = @ + 1]
  /\ UNCHANGED << calendar, sentLog, post, jobs, repeats, served, faults >>

(* The next eligibility query, in runDeadlineReminder or in its handler. *)
Select(w) ==
  /\ run[w].at = "next"
  /\ \E q \in run[w].queries :
       run' = [run EXCEPT ![w].queries = @ \ {q}, ![w].query = q, ![w].todo = Recipients(q),
                          ![w].at = IF Recipients(q) = {} THEN "next" ELSE "check"]
  /\ UNCHANGED << calendar, sentLog, post, jobs, repeats, fired, served, faults >>

Finish(w) ==
  /\ run[w].at = "next"
  /\ run[w].queries = {}
  /\ run' = [run EXCEPT ![w] = Rest]
  /\ served' = IF run[w].clean THEN served \union {run[w].tick} ELSE served
  /\ UNCHANGED << calendar, sentLog, post, jobs, repeats, fired, faults >>

(* wasSent.  Two runs that read it before either has logged the reminder   *)
(* will both queue it.                                                     *)
WasSentLastYear(r) == [r EXCEPT !.year = @ - 1] \in sentLog
WasSent(r) == r \in sentLog

Elsewhere(w, r) ==
  \E v \in Workers \ {w} : run[v].at \in {"enqueue", "mark"} /\ RowOf(v, run[v].siren) = r

Check(w) ==
  /\ run[w].at = "check"
  /\ \E s \in run[w].todo :
       LET r == RowOf(w, s)
           rest == run[w].todo \ {s}
       IN  IF WasSent(r)
           THEN /\ run' = [run EXCEPT ![w].todo = rest,
                                      ![w].at = IF rest = {} THEN "next" ELSE "check"]
                /\ UNCHANGED repeats
           ELSE /\ run' = [run EXCEPT ![w].todo = rest, ![w].siren = s, ![w].at = "enqueue"]
                /\ repeats' = [repeats EXCEPT ![r] = IF Elsewhere(w, r) THEN @ + 1 ELSE @]
  /\ UNCHANGED << calendar, sentLog, post, jobs, fired, served, faults >>

(* enqueueNotification answers "enqueued" *)
Enqueue(w) ==
  /\ run[w].at = "enqueue"
  /\ LET r == RowOf(w, run[w].siren)
     IN  /\ queue' = queue \union {[reminder |-> r, number |-> jobs[r] + 1, tries |-> 0]}
         /\ jobs' = [jobs EXCEPT ![r] = @ + 1]
  /\ run' = [run EXCEPT ![w].at = "mark"]
  /\ UNCHANGED << calendar, sentLog, mails, dropped, repeats, fired, served, faults >>

(* It answers "queue_unavailable" or "error": counted, and not logged. *)
Refuse(w) ==
  /\ run[w].at = "enqueue"
  /\ faults < MaxFaults
  /\ faults' = faults + 1
  /\ run' = [run EXCEPT ![w].at = IF run[w].todo = {} THEN "next" ELSE "check",
                        ![w].siren = Nothing, ![w].clean = FALSE]
  /\ UNCHANGED << calendar, sentLog, post, jobs, repeats, fired, served >>

(* markSent *)
Mark(w) ==
  /\ run[w].at = "mark"
  /\ sentLog' = sentLog \union {RowOf(w, run[w].siren)}
  /\ Resume(w)
  /\ UNCHANGED << calendar, post, jobs, repeats, fired, served, faults >>

(* What a run that stops between the job and the log leaves behind. *)
Torn(w) ==
  repeats' = IF run[w].at = "mark"
             THEN [repeats EXCEPT ![RowOf(w, run[w].siren)] = @ + 1] ELSE repeats

(* A query on the application's database rejects: the daily tick goes on   *)
(* with its next reminder, any other run fails.                            *)
DatabaseFails(w) ==
  /\ run[w].at \in {"next", "check", "mark"}
  /\ run[w].at = "next" => run[w].queries # {}
  /\ faults < MaxFaults
  /\ faults' = faults + 1
  /\ Torn(w)
  /\ IF run[w].tick # "daily" THEN run' = [run EXCEPT ![w] = Rest]
     ELSE IF run[w].at = "next"
     THEN \E q \in run[w].queries :
            run' = [run EXCEPT ![w].queries = @ \ {q}, ![w].clean = FALSE]
     ELSE run' = [run EXCEPT ![w].todo = {}, ![w].siren = Nothing,
                             ![w].at = "next", ![w].clean = FALSE]
  /\ UNCHANGED << calendar, sentLog, post, jobs, fired, served >>

Crash(w) ==
  /\ run[w] # Rest
  /\ faults < MaxFaults
  /\ faults' = faults + 1
  /\ Torn(w)
  /\ run' = [run EXCEPT ![w] = Rest]
  /\ UNCHANGED << calendar, sentLog, post, jobs, fired, served >>

-----------------------------------------------------------------------------
(* The mail worker: makeJobHandler                                         *)

RetryNever(j) ==
  /\ queue' = queue \ {j}
  /\ UNCHANGED dropped

(* A job that throws goes back to the queue until its retries are spent.   *)
Retry(j) ==
  IF j.tries < RetryLimit
  THEN /\ queue' = (queue \ {j}) \union {[j EXCEPT !.tries = @ + 1]}
       /\ UNCHANGED dropped
  ELSE /\ queue' = queue \ {j}
       /\ dropped' = dropped \union {j.reminder}

Send(j) ==
  /\ mails' = [mails EXCEPT ![j.reminder] = @ + 1]
  /\ queue' = queue \ {j}
  /\ UNCHANGED << calendar, run, sentLog, dropped, jobs, repeats, fired, served, faults >>

(* A poison pill, whose address does not pass the validation: audited as a *)
(* failure, and completed without a mail.                                  *)
Discard(j) ==
  /\ j.tries = 0
  /\ queue' = queue \ {j}
  /\ dropped' = dropped \union {j.reminder}
  /\ UNCHANGED << calendar, run, sentLog, mails, jobs, repeats, fired, served, faults >>

TransportFails(j) ==
  /\ Retry(j)
  /\ UNCHANGED << calendar, run, sentLog, mails, jobs, repeats, fired, served, faults >>

(* The worker dies once the SMTP server has the mail and before pg-boss    *)
(* has completed the job: the job expires, and is tried again.             *)
CrashAfterSend(j) ==
  /\ faults < MaxFaults
  /\ faults' = faults + 1
  /\ mails' = [mails EXCEPT ![j.reminder] = @ + 1]
  /\ repeats' = [repeats EXCEPT ![j.reminder] = @ + 1]
  /\ Retry(j)
  /\ UNCHANGED << calendar, run, sentLog, jobs, fired, served >>

Deliver(j) == Send(j) \/ Discard(j) \/ TransportFails(j) \/ CrashAfterSend(j)

-----------------------------------------------------------------------------
Environment ==
  \/ \E s \in owing : Settle(s)
  \/ \E ky \in DOMAIN deadline, d \in NewDeadlines : MoveDeadline(ky[1], ky[2], d)
  \/ NextDay

Schedule(w) ==
  \/ \E t \in Ticks : Fire(w, t)
  \/ Select(w) \/ Finish(w) \/ Check(w) \/ Enqueue(w) \/ Refuse(w) \/ Mark(w)
  \/ DatabaseFails(w) \/ Crash(w)

Next ==
  \/ Environment
  \/ \E w \in Workers : Schedule(w)
  \/ \E j \in queue : Deliver(j)

Spec == Init /\ [][Next]_vars

-----------------------------------------------------------------------------
(* Properties                                                              *)

(* A company gets a reminder once, but for the three windows of the code:  *)
(* two overlapping runs, a run that stopped between the job and the log,   *)
(* and a mail worker that died after the SMTP server took the mail.        *)
DuplicatesExplained == \A r \in Rows : mails[r] <= 1 + repeats[r]

(* A schedule that ran without an error on its day has reminded every      *)
(* declaration that owed the step all day long, whichever campaign it is   *)
(* of and wherever the administrator has moved the deadline, as long as    *)
(* the day is in the year of the campaign or in the next: the form of the  *)
(* administrator takes any date, the daily tick looks at two campaigns.    *)
InReach(r) == YearOf(today) \in {r.year, r.year + 1}

RemindedOnItsDay ==
  [][today' # today =>
       \A r \in obliged : /\ Tick(r.kind) \in served
                          /\ r.kind \notin {"compliance", "corrective"}
                          /\ InReach(r)
                          => Row(r) \in sentLog]_vars

(* docs/mails/cse-opinion-reminder.md: the reminder of 1 February N+1 is   *)
(* the one of campaign N, whose opinion is due on 1 March N+1.             *)
ClosingOpinionReminded ==
  [][today' # today =>
       \A r \in obliged : /\ Tick(r.kind) \in served
                          /\ r.kind \in {"compliance", "corrective"}
                          => Row(r) \in sentLog]_vars

(* A reminder on the log has reached its recipient, or its job ended in    *)
(* failure for somebody to see, or it is still under way: none vanishes.   *)
NoneVanishes ==
  \A r \in sentLog : \/ mails[r] >= 1
                     \/ r \in dropped
                     \/ \E j \in queue : j.reminder = r
=============================================================================
