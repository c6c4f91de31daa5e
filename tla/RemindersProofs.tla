-------------------------- MODULE RemindersProofs --------------------------
(***************************************************************************)
(* What holds of the reminders for any number of companies, campaigns and  *)
(* runs of schedules at a time, any dates the deadlines are moved to, and  *)
(* any bounds on the firings, the faults and the retries.                  *)
(***************************************************************************)
EXTENDS Reminders, FiniteSetTheorems, TLAPS

(***************************************************************************)
(* Types.                                                                  *)
(***************************************************************************)
(* A query whose rows the log knows, as soon as it asks about a campaign.  *)
Askable ==
  { q \in AnyQuery :
      q.offset \in OffsetsOf(q.kind) /\ q.year = LoggedYear(q.kind, q.asks) }

Run ==
  [ tick : Ticks \union {Nothing}, queries : SUBSET Askable,
    query : Askable \union {Nothing}, todo : SUBSET Sirens,
    siren : Sirens \union {Nothing},
    at : {"idle", "next", "check", "enqueue", "mark"}, clean : BOOLEAN ]

Job == [reminder : Rows, number : Nat, tries : 0 .. RetryLimit]

(* A run that is at a recipient has asked about a campaign of the instance. *)
Proper(x) ==
  /\ x.at = "idle" <=> x.tick = Nothing
  /\ x.at \in {"enqueue", "mark"} <=> x.siren # Nothing
  /\ x.at \in {"check", "enqueue", "mark"} =>
       x.query \in Askable /\ x.query.asks \in Years

Typed ==
  /\ today    \in 0 .. Horizon
  /\ deadline \in [(Kinds \intersect Daily) \X Years -> Int]
  /\ owing    \subseteq Step
  /\ run      \in [Workers -> Run]
  /\ \A w \in Workers : Proper(run[w])
  /\ sentLog  \subseteq Rows
  /\ queue    \subseteq Job
  /\ jobs     \in [Rows -> Nat]
  /\ mails    \in [Rows -> Nat]
  /\ repeats  \in [Rows -> Nat]
  /\ dropped  \subseteq Rows
  /\ faults   \in 0 .. MaxFaults

LEMMA TypedIs == Typed => TypeOK
<1> SUFFICES ASSUME Typed  PROVE TypeOK
  OBVIOUS
<1>1. ASSUME NEW w \in Workers
      PROVE  /\ run[w].tick \in Ticks \union {Nothing}
             /\ run[w].query = Nothing \/ run[w].query \in AnyQuery
             /\ run[w].todo \subseteq Sirens
             /\ run[w].at = "idle" <=> run[w].tick = Nothing
             /\ run[w].at \in {"enqueue", "mark"} <=> run[w].siren # Nothing
  BY DEF Typed, Run, Proper, Askable
<1>2. \A j \in queue : j.reminder \in Rows /\ j.tries \in 0 .. RetryLimit
  BY DEF Typed, Job
<1>3. DOMAIN jobs = Rows /\ DOMAIN mails = Rows
  BY DEF Typed
<1>4. QED
  BY <1>1, <1>2, <1>3 DEF Typed, TypeOK

(* Every day of the calendar belongs to the year it was written for.       *)
LEMMA DaysOfYear ==
  ASSUME NEW year \in Nat, FirstYear <= year + 1, NEW month \in 1 .. 12
  PROVE  YearOf(On(year, month)) = year
<1>1. FirstYear \in Nat
  BY RemindersAssumption DEF RemindersAssumption
<1>2. QED
  BY <1>1 DEF YearOf, On

LEMMA SchedulesFireInTheirYear ==
  ASSUME NEW t \in Ticks \ {"daily"}, NEW day, FiresOn(t, day)
  PROVE  YearOf(day) \in FirstYear .. (LastYear + 1)
<1>1. /\ FirstYear \in Nat /\ LastYear \in Nat
      /\ FirstYear <= LastYear
  BY RemindersAssumption DEF RemindersAssumption
<1>2. PICK year \in Years \union {LastYear + 1} : day = On(year, Month(t))
  BY DEF FiresOn
<1>3. t \in Fixed
  BY RemindersAssumption DEF Ticks, Tick, RemindersAssumption
<1>4. Month(t) \in {2, 3, 9, 12}
  BY <1>3 DEF Month, Fixed, Opinion
<1>5. year \in FirstYear .. (LastYear + 1)
  BY <1>1, <1>2 DEF Years
<1>6. QED
  BY <1>1, <1>2, <1>4, <1>5, DaysOfYear

LEMMA QueriesTyped ==
  ASSUME NEW t \in Ticks, NEW day, FiresOn(t, day)
  PROVE  Queries(t, day) \subseteq Askable
<1>1. /\ FirstYear \in Nat /\ LastYear \in Nat /\ FirstYear <= LastYear
      /\ Kinds \subseteq Daily \union Fixed
  BY RemindersAssumption DEF RemindersAssumption
<1>2. CASE t = "daily"
  <2>1. ASSUME NEW q \in DailyQueries(day)  PROVE q \in Askable
    <3>1. PICK k \in Kinds \intersect Daily, y \in Years, o \in {1, 2} :
            q = Query(k, y, y, o) /\ q.offset \in Offsets(q.kind)
      BY <2>1 DEF DailyQueries
    <3>2. /\ k # "opening" /\ q.kind = k /\ q.asks = y /\ q.year = y
          /\ q.offset = o
      BY <3>1 DEF Query, Daily
    <3>3. q \in AnyQuery
      BY <1>1, <3>1 DEF Query, AnyQuery, Years
    <3>4. QED
      BY <3>1, <3>2, <3>3 DEF Askable, OffsetsOf, LoggedYear
  <2>2. QED
    BY <1>2, <2>1 DEF Queries
<1>3. CASE t # "daily"
  <2> DEFINE y == YearOf(day)
  <2>1. y \in FirstYear .. (LastYear + 1)
    BY <1>3, SchedulesFireInTheirYear
  <2>2. t \in Kinds /\ t \in Fixed /\ t \notin Daily
    <3>1. t \in Kinds /\ t \notin Daily
      BY <1>3 DEF Ticks, Tick
    <3>2. QED
      BY <1>1, <3>1
  <2> HIDE DEF y
  <2>3. ASSUME NEW q \in FixedQueries(t, day)
        PROVE  \/ t \in Opinion /\ q = Query(t, y, y, 0)
               \/ t = "handover" /\ q = Query(t, y - 1, y - 1, 0)
               \/ t = "opening" /\ q = Query(t, y - 1, y, 0)
    BY <2>2, <2>3 DEF FixedQueries, y, Fixed, Opinion
  <2>4. ASSUME NEW q \in FixedQueries(t, day)  PROVE q \in Askable
    <3>1. "opening" \notin Opinion /\ 0 \in OffsetsOf(t)
      BY <2>2 DEF Opinion, OffsetsOf
    <3>2. q.kind = t /\ q.offset = 0 /\ q \in AnyQuery
      BY <1>1, <2>1, <2>2, <2>3, <2>4 DEF Query, AnyQuery
    <3>3. q.year = LoggedYear(q.kind, q.asks)
      BY <2>1, <2>3, <2>4, <3>1 DEF Query, LoggedYear
    <3>4. QED
      BY <3>1, <3>2, <3>3 DEF Askable
  <2>5. QED
    BY <1>3, <2>4 DEF Queries
<1>4. QED
  BY <1>2, <1>3

(* The row that a run logs for a recipient.                                *)
LEMMA RowTyped ==
  ASSUME NEW q \in Askable, q.asks \in Years, NEW s \in Sirens
  PROVE  [kind |-> q.kind, siren |-> s, year |-> q.year, offset |-> q.offset]
           \in Rows
<1>1. /\ FirstYear \in Nat /\ LastYear \in Nat /\ FirstYear <= LastYear
  BY RemindersAssumption DEF RemindersAssumption
<1>2. /\ q.kind \in Kinds /\ q.offset \in {0, 1, 2}
      /\ q.offset \in OffsetsOf(q.kind)
      /\ q.year = IF q.kind = "opening" THEN q.asks + 1 ELSE q.asks
  BY DEF Askable, AnyQuery, LoggedYear
<1>3. /\ q.year \in FirstYear .. (LastYear + 1)
      /\ q.year > LastYear => q.kind = "opening"
  BY <1>1, <1>2 DEF Years
<1>4. QED
  BY <1>2, <1>3 DEF Rows

(* A step of one run leaves the others alone.                              *)
Alone(w, x) ==
  run'[w] = x /\ \A v \in Workers \ {w} : run'[v] = run[v]

LEMMA AloneTyped ==
  ASSUME Typed, NEW w \in Workers, NEW x \in Run, Proper(x),
         run' = [run EXCEPT ![w] = x]
  PROVE  /\ run' \in [Workers -> Run] /\ \A v \in Workers : Proper(run'[v])
         /\ Alone(w, x)
BY DEF Typed, Alone

LEMMA RestTyped == Rest \in Run /\ Proper(Rest)
<1>1. Nothing \notin Ticks
  BY RemindersAssumption DEF RemindersAssumption, Ticks, Tick
<1>2. QED
  BY <1>1 DEF Rest, Run, Proper

(* What each step of a run makes of it.                                    *)
LEMMA FireIs ==
  ASSUME Typed, NEW w \in Workers, NEW t \in Ticks, Fire(w, t)
  PROVE  LET x == [Rest EXCEPT !.tick = t, !.at = "next",
                               !.queries = Queries(t, today)]
         IN  x \in Run /\ Proper(x) /\ run' = [run EXCEPT ![w] = x]
<1>1. Queries(t, today) \subseteq Askable
  BY QueriesTyped DEF Fire
<1>2. Nothing \notin Ticks
  BY RemindersAssumption DEF RemindersAssumption, Ticks, Tick
<1>3. QED
  BY <1>1, <1>2 DEF Fire, Rest, Run, Proper

LEMMA SelectIs ==
  ASSUME Typed, NEW w \in Workers, Select(w)
  PROVE  \E q \in run[w].queries :
           LET x == [run[w] EXCEPT !.queries = @ \ {q}, !.query = q,
                       !.todo = Recipients(q),
                       !.at = IF Recipients(q) = {} THEN "next" ELSE "check"]
           IN  x \in Run /\ Proper(x) /\ run' = [run EXCEPT ![w] = x]
<1>1. PICK q \in run[w].queries :
        run' = [run EXCEPT ![w].queries = @ \ {q}, ![w].query = q,
                  ![w].todo = Recipients(q),
                  ![w].at = IF Recipients(q) = {} THEN "next" ELSE "check"]
  BY DEF Select
<1> DEFINE c == Recipients(q)
           x == [run[w] EXCEPT !.queries = @ \ {q}, !.query = q, !.todo = c,
                   !.at = IF c = {} THEN "next" ELSE "check"]
<1>2. run[w] \in Run /\ Proper(run[w]) /\ run[w].at = "next" /\ q \in Askable
  BY <1>1 DEF Typed, Select, Run
<1>3. c \subseteq Sirens /\ (c # {} => q.asks \in Years)
  BY DEF Recipients, Typed, Step
<1>4. run' = [run EXCEPT ![w] = x]
  BY <1>1 DEF Typed
<1> HIDE DEF c
<1>5. x \in Run /\ Proper(x)
  BY <1>1, <1>2, <1>3 DEF Run, Proper
<1>6. QED
  BY <1>1, <1>4, <1>5 DEF c

LEMMA CheckIs ==
  ASSUME Typed, NEW w \in Workers, Check(w)
  PROVE  \E s \in run[w].todo :
           LET r == RowOf(w, s)
               rest == run[w].todo \ {s}
               x == IF WasSent(r)
                    THEN [run[w] EXCEPT !.todo = rest,
                            !.at = IF rest = {} THEN "next" ELSE "check"]
                    ELSE [run[w] EXCEPT !.todo = rest, !.siren = s,
                            !.at = "enqueue"]
           IN  /\ r \in Rows /\ s \in Sirens
               /\ x \in Run /\ Proper(x) /\ run' = [run EXCEPT ![w] = x]
               /\ repeats' = IF ~WasSent(r) /\ Elsewhere(w, r)
                             THEN [repeats EXCEPT ![r] = @ + 1] ELSE repeats
<1>1. PICK s \in run[w].todo :
        LET r == RowOf(w, s)
            rest == run[w].todo \ {s}
        IN  IF WasSent(r)
            THEN /\ run' = [run EXCEPT ![w].todo = rest,
                              ![w].at = IF rest = {} THEN "next" ELSE "check"]
                 /\ UNCHANGED repeats
            ELSE /\ run' = [run EXCEPT ![w].todo = rest, ![w].siren = s,
                              ![w].at = "enqueue"]
                 /\ repeats' = [repeats EXCEPT
                                  ![r] = IF Elsewhere(w, r) THEN @ + 1 ELSE @]
  BY DEF Check
<1> DEFINE r == RowOf(w, s)
           rest == run[w].todo \ {s}
           x == IF WasSent(r)
                THEN [run[w] EXCEPT !.todo = rest,
                        !.at = IF rest = {} THEN "next" ELSE "check"]
                ELSE [run[w] EXCEPT !.todo = rest, !.siren = s, !.at = "enqueue"]
<1>2. /\ run[w] \in Run /\ Proper(run[w]) /\ run[w].at = "check"
      /\ s \in Sirens /\ rest \subseteq Sirens /\ Nothing \notin Sirens
  BY <1>1, RemindersAssumption DEF Typed, Check, Run, RemindersAssumption
<1>3. r \in Rows
  BY <1>2, RowTyped DEF Proper, RowOf
<1>4. run' = [run EXCEPT ![w] = x]
  BY <1>1 DEF Typed
<1>5. repeats' = IF ~WasSent(r) /\ Elsewhere(w, r)
                 THEN [repeats EXCEPT ![r] = @ + 1] ELSE repeats
  BY <1>1, <1>3 DEF Typed
<1>6. x \in Run /\ Proper(x)
  <2> HIDE DEF rest, r
  <2>1. QED
    BY <1>1, <1>2 DEF Run, Proper
<1>7. QED
  BY <1>1, <1>2, <1>3, <1>4, <1>5, <1>6

(* The three ways on from a recipient: to the log, to the next one, away.  *)
Moved(w) == [run[w] EXCEPT !.at = "mark"]

Resumed(w) ==
  [run[w] EXCEPT !.at = IF run[w].todo = {} THEN "next" ELSE "check",
                 !.siren = Nothing]

LEMMA EnqueueIs ==
  ASSUME Typed, NEW w \in Workers, Enqueue(w)
  PROVE  /\ RowOf(w, run[w].siren) \in Rows
         /\ Moved(w) \in Run /\ Proper(Moved(w))
         /\ run' = [run EXCEPT ![w] = Moved(w)]
<1>1. run[w] \in Run /\ Proper(run[w]) /\ run[w].at = "enqueue"
  BY DEF Typed, Enqueue
<1>2. RowOf(w, run[w].siren) \in Rows
  BY <1>1, RowTyped DEF Proper, RowOf, Run
<1>3. Moved(w) \in Run /\ Proper(Moved(w))
  BY <1>1 DEF Run, Proper, Moved
<1>4. run' = [run EXCEPT ![w] = Moved(w)]
  BY DEF Enqueue, Typed, Moved
<1>5. QED
  BY <1>2, <1>3, <1>4

LEMMA ResumedTyped ==
  ASSUME Typed, NEW w \in Workers, run[w].at \in {"enqueue", "mark"}
  PROVE  /\ RowOf(w, run[w].siren) \in Rows
         /\ Resumed(w) \in Run /\ Proper(Resumed(w))
         /\ [Resumed(w) EXCEPT !.clean = FALSE] \in Run
         /\ Proper([Resumed(w) EXCEPT !.clean = FALSE])
<1>1. run[w] \in Run /\ Proper(run[w])
  BY DEF Typed
<1>2. RowOf(w, run[w].siren) \in Rows
  BY <1>1, RowTyped DEF Proper, RowOf, Run
<1>3. Resumed(w) \in Run /\ Proper(Resumed(w))
  BY <1>1 DEF Run, Proper, Resumed
<1>4. /\ [Resumed(w) EXCEPT !.clean = FALSE] \in Run
      /\ Proper([Resumed(w) EXCEPT !.clean = FALSE])
  BY <1>3 DEF Run, Proper
<1>5. QED
  BY <1>2, <1>3, <1>4

LEMMA MarkIs ==
  ASSUME Typed, NEW w \in Workers, Mark(w)
  PROVE  run' = [run EXCEPT ![w] = Resumed(w)]
BY DEF Mark, Resume, Resumed, Typed

LEMMA RefuseIs ==
  ASSUME Typed, NEW w \in Workers, Refuse(w)
  PROVE  run' = [run EXCEPT ![w] = [Resumed(w) EXCEPT !.clean = FALSE]]
<1>1. /\ run[w] \in Run /\ run \in [Workers -> Run]
      /\ run' = [run EXCEPT ![w].at = IF run[w].todo = {} THEN "next" ELSE "check",
                            ![w].siren = Nothing, ![w].clean = FALSE]
  BY DEF Refuse, Typed
<1>2. QED
  BY <1>1 DEF Resumed, Run

LEMMA DatabaseFailsIs ==
  ASSUME Typed, NEW w \in Workers, DatabaseFails(w)
  PROVE  \E x \in Run :
           /\ Proper(x) /\ x.at \in {"idle", "next"}
           /\ run' = [run EXCEPT ![w] = x]
           /\ x = Rest \/ ~x.clean
<1>1. run[w] \in Run /\ Proper(run[w]) /\ run \in [Workers -> Run]
  BY DEF Typed
<1>2. run[w].at \in {"next", "check", "mark"}
  BY DEF DatabaseFails
<1>3. CASE run' = [run EXCEPT ![w] = Rest]
  BY <1>3, RestTyped DEF Rest
<1>4. ASSUME NEW q \in run[w].queries, run[w].at = "next",
             run' = [run EXCEPT ![w].queries = @ \ {q}, ![w].clean = FALSE]
      PROVE  \E x \in Run :
               /\ Proper(x) /\ x.at \in {"idle", "next"}
               /\ run' = [run EXCEPT ![w] = x]
               /\ x = Rest \/ ~x.clean
  <2> DEFINE x == [run[w] EXCEPT !.queries = @ \ {q}, !.clean = FALSE]
  <2>1. run' = [run EXCEPT ![w] = x]
    BY <1>1, <1>4
  <2>2. x \in Run /\ Proper(x) /\ x.at = "next" /\ ~x.clean
    BY <1>1, <1>4 DEF Run, Proper
  <2>3. QED
    BY <2>1, <2>2
<1>5. CASE run' = [run EXCEPT ![w].todo = {}, ![w].siren = Nothing,
                              ![w].at = "next", ![w].clean = FALSE]
  <2> DEFINE x == [run[w] EXCEPT !.todo = {}, !.siren = Nothing, !.at = "next",
                                 !.clean = FALSE]
  <2>1. run' = [run EXCEPT ![w] = x]
    BY <1>1, <1>5
  <2>2. x \in Run /\ Proper(x) /\ x.at = "next" /\ ~x.clean
    BY <1>1, <1>2 DEF Run, Proper
  <2>3. QED
    BY <2>1, <2>2
<1>6. QED
  BY <1>3, <1>4, <1>5 DEF DatabaseFails

LEMMA TornTyped ==
  ASSUME Typed, NEW w \in Workers, Torn(w)
  PROVE  /\ repeats' \in [Rows -> Nat]
         /\ run[w].at = "mark" => RowOf(w, run[w].siren) \in Rows
<1>1. run[w].at = "mark" => RowOf(w, run[w].siren) \in Rows
  BY ResumedTyped
<1>2. repeats' \in [Rows -> Nat]
  BY <1>1 DEF Torn, Typed
<1>3. QED
  BY <1>1, <1>2

LEMMA RetryTyped ==
  ASSUME Typed, NEW j \in queue, Retry(j)
  PROVE  queue' \subseteq Job /\ dropped' \subseteq Rows
<1>1. j \in Job /\ queue \subseteq Job
  BY DEF Typed
<1>2. CASE j.tries < RetryLimit
  <2>1. [j EXCEPT !.tries = @ + 1] \in Job
    BY <1>1, <1>2, RemindersAssumption DEF Job, RemindersAssumption
  <2>2. QED
    BY <1>1, <1>2, <2>1 DEF Retry, Typed
<1>3. CASE ~(j.tries < RetryLimit)
  BY <1>1, <1>3 DEF Retry, Typed, Job
<1>4. QED
  BY <1>2, <1>3

LEMMA SettleTyped ==
  ASSUME Typed, NEW s, Settle(s)
  PROVE  Typed'
BY DEF Typed, Settle, post

LEMMA MoveDeadlineTyped ==
  ASSUME Typed, NEW ky \in DOMAIN deadline, NEW d \in NewDeadlines,
         MoveDeadline(ky[1], ky[2], d)
  PROVE  Typed'
<1>1. d \in Int
  BY RemindersAssumption DEF RemindersAssumption
<1>2. PICK k \in Kinds \intersect Daily, y \in Years : ky = << k, y >>
  BY DEF Typed
<1>3. deadline' = [deadline EXCEPT ![<< k, y >>] = d]
  BY <1>2 DEF MoveDeadline
<1>4. deadline' \in [(Kinds \intersect Daily) \X Years -> Int]
  BY <1>1, <1>2, <1>3 DEF Typed
<1>5. QED
  BY <1>4 DEF Typed, MoveDeadline, post

LEMMA NextDayTyped ==
  ASSUME Typed, NextDay
  PROVE  Typed'
<1>1. Horizon \in Nat /\ today \in 0 .. Horizon
  BY RemindersAssumption DEF RemindersAssumption, Typed
<1>2. today' \in 0 .. Horizon /\ owing' \subseteq Step
  BY <1>1 DEF NextDay, NextBusyDay, StepsOf
<1>3. QED
  BY <1>2 DEF Typed, NextDay, post

LEMMA ScheduleTyped ==
  ASSUME Typed, NEW w \in Workers, Schedule(w)
  PROVE  Typed'
<1>1. ASSUME NEW x \in Run, Proper(x), run' = [run EXCEPT ![w] = x],
             repeats' \in [Rows -> Nat], sentLog' \subseteq Rows,
             queue' \subseteq Job, jobs' \in [Rows -> Nat],
             UNCHANGED << calendar, mails, dropped >>,
             faults' \in 0 .. MaxFaults
      PROVE  Typed'
  <2>1. run' \in [Workers -> Run] /\ \A v \in Workers : Proper(run'[v])
    BY <1>1, AloneTyped
  <2>2. QED
    BY <1>1, <2>1 DEF Typed, calendar
<1>2. /\ faults \in 0 .. MaxFaults
      /\ faults < MaxFaults => faults + 1 \in 0 .. MaxFaults
  BY RemindersAssumption DEF RemindersAssumption, Typed
<1>3. CASE \E t \in Ticks : Fire(w, t)
  BY <1>1, <1>3, FireIs DEF Fire, Typed, post
<1>4. CASE Select(w)
  <2>1. PICK x \in Run : Proper(x) /\ run' = [run EXCEPT ![w] = x]
    BY <1>4, SelectIs
  <2>2. QED
    BY <1>1, <1>4, <2>1 DEF Select, Typed, post
<1>5. CASE Finish(w)
  BY <1>1, <1>5, RestTyped DEF Finish, Typed, post
<1>6. CASE Check(w)
  <2>1. PICK x \in Run, r \in Rows :
          /\ Proper(x) /\ run' = [run EXCEPT ![w] = x]
          /\ \/ repeats' = [repeats EXCEPT ![r] = @ + 1]
             \/ repeats' = repeats
    BY <1>6, CheckIs
  <2>2. repeats' \in [Rows -> Nat]
    BY <2>1 DEF Typed
  <2>3. QED
    BY <1>1, <1>6, <2>1, <2>2 DEF Check, Typed, post
<1>7. CASE Enqueue(w)
  <2> DEFINE r == RowOf(w, run[w].siren)
  <2>1. /\ r \in Rows /\ Moved(w) \in Run /\ Proper(Moved(w))
        /\ run' = [run EXCEPT ![w] = Moved(w)]
    BY <1>7, EnqueueIs
  <2>2. /\ queue' = queue \union {[reminder |-> r, number |-> jobs[r] + 1, tries |-> 0]}
        /\ jobs' = [jobs EXCEPT ![r] = @ + 1]
        /\ UNCHANGED << calendar, sentLog, mails, dropped, repeats, faults >>
    BY <1>7 DEF Enqueue
  <2> HIDE DEF r
  <2>3. jobs \in [Rows -> Nat] /\ RetryLimit \in Nat
    BY RemindersAssumption DEF Typed, RemindersAssumption
  <2>4. /\ jobs' \in [Rows -> Nat]
        /\ [reminder |-> r, number |-> jobs[r] + 1, tries |-> 0] \in Job
    BY <2>1, <2>2, <2>3 DEF Job
  <2>5. QED
    BY <1>1, <1>2, <2>1, <2>2, <2>4 DEF Typed
<1>8. CASE Refuse(w)
  <2> DEFINE x == [Resumed(w) EXCEPT !.clean = FALSE]
  <2>1. run' = [run EXCEPT ![w] = x] /\ x \in Run /\ Proper(x)
    BY <1>8, RefuseIs, ResumedTyped DEF Refuse
  <2> HIDE DEF x
  <2>2. /\ faults' \in 0 .. MaxFaults
        /\ UNCHANGED << calendar, sentLog, post, jobs, repeats >>
    BY <1>2, <1>8 DEF Refuse
  <2>3. QED
    BY <1>1, <2>1, <2>2 DEF Typed, post
<1>9. CASE Mark(w)
  <2>1. sentLog' \subseteq Rows
    BY <1>9, ResumedTyped DEF Mark, Typed
  <2>2. Resumed(w) \in Run /\ Proper(Resumed(w))
    BY <1>9, ResumedTyped DEF Mark
  <2>3. run' = [run EXCEPT ![w] = Resumed(w)]
    BY <1>9, MarkIs
  <2>4. QED
    BY <1>1, <1>9, <2>1, <2>2, <2>3 DEF Mark, Typed, post
<1>10. CASE DatabaseFails(w)
  <2>1. PICK x \in Run : Proper(x) /\ run' = [run EXCEPT ![w] = x]
    BY <1>10, DatabaseFailsIs
  <2>2. repeats' \in [Rows -> Nat]
    BY <1>10, TornTyped DEF DatabaseFails
  <2>3. /\ faults' \in 0 .. MaxFaults
        /\ UNCHANGED << calendar, sentLog, post, jobs >>
    BY <1>2, <1>10 DEF DatabaseFails
  <2>4. QED
    BY <1>1, <2>1, <2>2, <2>3 DEF Typed, post
<1>11. CASE Crash(w)
  <2>1. repeats' \in [Rows -> Nat] /\ run' = [run EXCEPT ![w] = Rest]
    BY <1>11, TornTyped DEF Crash
  <2>2. /\ faults' \in 0 .. MaxFaults
        /\ UNCHANGED << calendar, sentLog, post, jobs >>
    BY <1>2, <1>11 DEF Crash
  <2>3. QED
    BY <1>1, <2>1, <2>2, RestTyped DEF Typed, post
<1>12. QED
  BY <1>3, <1>4, <1>5, <1>6, <1>7, <1>8, <1>9, <1>10, <1>11 DEF Schedule

LEMMA DeliverTyped ==
  ASSUME Typed, NEW j \in queue, Deliver(j)
  PROVE  Typed'
<1>1. j.reminder \in Rows /\ queue \subseteq Job
  BY DEF Typed, Job
<1>2. CASE Send(j)
  BY <1>1, <1>2 DEF Send, Typed, calendar
<1>3. CASE Discard(j)
  BY <1>1, <1>3 DEF Discard, Typed, calendar
<1>4. CASE TransportFails(j)
  BY <1>1, <1>4, RetryTyped DEF TransportFails, Typed, calendar
<1>5. CASE CrashAfterSend(j)
  <2>1. MaxFaults \in Nat
    BY RemindersAssumption DEF RemindersAssumption
  <2>2. QED
    BY <1>1, <1>5, <2>1, RetryTyped DEF CrashAfterSend, Typed, calendar
<1>6. QED
  BY <1>2, <1>3, <1>4, <1>5 DEF Deliver

LEMMA TypedInit == Init => Typed
<1> SUFFICES ASSUME Init  PROVE Typed
  OBVIOUS
<1>1. /\ FirstYear \in Nat /\ LastYear \in Nat /\ Horizon \in Nat
      /\ MaxFaults \in Nat
  BY RemindersAssumption DEF RemindersAssumption
<1>2. deadline \in [(Kinds \intersect Daily) \X Years -> Int]
  <2>1. ASSUME NEW ky \in (Kinds \intersect Daily) \X Years
        PROVE  DefaultDeadline(ky[1], ky[2]) \in Int
    <3>1. ky[2] \in Nat
      BY <1>1, <2>1 DEF Years
    <3>2. \A y \in Nat, m \in Nat : On(y, m) \in Int
      BY <1>1 DEF On
    <3>3. /\ On(ky[2], 6) \in Int /\ On(ky[2], 7) \in Int
          /\ On(ky[2], 9) \in Int /\ On(ky[2] + 1, 1) \in Int
      BY <3>1, <3>2
    <3>4. QED
      BY <3>3 DEF DefaultDeadline
  <2>2. QED
    BY <2>1 DEF Init
<1>3. run \in [Workers -> Run] /\ \A w \in Workers : Proper(run[w])
  BY RestTyped DEF Init
<1>4. QED
  BY <1>1, <1>2, <1>3 DEF Init, Typed

LEMMA TypedStep == Typed /\ [Next]_vars => Typed'
<1> SUFFICES ASSUME Typed, [Next]_vars  PROVE Typed'
  OBVIOUS
<1>1. CASE UNCHANGED vars
  BY <1>1 DEF vars, calendar, post, Typed
<1>2. CASE Next
  BY <1>2, SettleTyped, MoveDeadlineTyped, NextDayTyped, ScheduleTyped,
     DeliverTyped DEF Next, Environment
<1>3. QED
  BY <1>1, <1>2

(* The tables, the runs and the queue keep their types; the rows that are  *)
(* logged are rows of campaigns that exist, which the queries promise only *)
(* because nobody owes a step of another one.                              *)
THEOREM Typing == Spec => []TypeOK
<1>1. Spec => []Typed
  BY TypedInit, TypedStep, PTL DEF Spec
<1>2. QED
  BY <1>1, TypedIs, PTL

(***************************************************************************)
(* What a step of a run does to the reminder it holds.                     *)
(***************************************************************************)
Held(w) == RowOf(w, run[w].siren)

(* The run holds no reminder after the step; the one it was about to log,  *)
(* if any, is left unlogged.                                               *)
Leaves(w) ==
  /\ run'[w].at \notin {"enqueue", "mark"}
  /\ Torn(w) /\ UNCHANGED << sentLog, queue >>

TakesUp(w) ==
  /\ run[w].at = "check" /\ run'[w].at = "enqueue"
  /\ Held(w)' \in Rows \ sentLog
  /\ repeats' = IF Elsewhere(w, Held(w)')
                THEN [repeats EXCEPT ![Held(w)'] = @ + 1] ELSE repeats
  /\ UNCHANGED << sentLog, queue >>

Queues(w) ==
  /\ run[w].at = "enqueue" /\ run'[w].at = "mark"
  /\ Held(w) \in Rows /\ Held(w)' = Held(w)
  /\ queue' = queue \union
       {[reminder |-> Held(w), number |-> jobs[Held(w)] + 1, tries |-> 0]}
  /\ UNCHANGED << sentLog, repeats >>

Logs(w) ==
  /\ run[w].at = "mark" /\ run'[w].at \notin {"enqueue", "mark"}
  /\ sentLog' = sentLog \union {Held(w)}
  /\ UNCHANGED << queue, repeats >>

RunDeed(w) ==
  /\ \A v \in Workers \ {w} : run'[v] = run[v]
  /\ UNCHANGED << mails, dropped >>
  /\ Leaves(w) \/ TakesUp(w) \/ Queues(w) \/ Logs(w)

LEMMA RunDeeds ==
  ASSUME Typed, NEW w \in Workers, Schedule(w)
  PROVE  RunDeed(w)
<1> DEFINE Others == \A v \in Workers \ {w} : run'[v] = run[v]
<1>1. ASSUME NEW x \in Run, run' = [run EXCEPT ![w] = x]
      PROVE  run'[w] = x /\ Others
  BY <1>1 DEF Typed
<1>2. run[w].at # "mark" /\ UNCHANGED repeats => Torn(w)
  BY DEF Torn
<1>3. CASE \E t \in Ticks : Fire(w, t)
  <2>1. PICK t \in Ticks : Fire(w, t)
    BY <1>3
  <2>2. /\ run[w].at = "idle"
        /\ UNCHANGED << repeats, sentLog, queue, mails, dropped >>
    BY <2>1 DEF Fire, Rest, post
  <2>3. PICK x \in Run : x.at = "next" /\ run' = [run EXCEPT ![w] = x]
    BY <2>1, FireIs DEF Rest
  <2>4. QED
    BY <1>1, <1>2, <2>2, <2>3 DEF RunDeed, Leaves
<1>4. CASE Select(w)
  <2>1. \E x \in Run : /\ run' = [run EXCEPT ![w] = x]
                       /\ x.at \in {"next", "check"}
    <3>1. PICK q \in run[w].queries :
            LET x == [run[w] EXCEPT !.queries = @ \ {q}, !.query = q,
                        !.todo = Recipients(q),
                        !.at = IF Recipients(q) = {} THEN "next" ELSE "check"]
            IN  x \in Run /\ Proper(x) /\ run' = [run EXCEPT ![w] = x]
      BY <1>4, SelectIs
    <3> DEFINE at == IF Recipients(q) = {} THEN "next" ELSE "check"
               x == [run[w] EXCEPT !.queries = @ \ {q}, !.query = q,
                       !.todo = Recipients(q), !.at = at]
    <3>2. x.at = at
      BY DEF Typed, Run
    <3> HIDE DEF at
    <3>3. at \in {"next", "check"}
      BY DEF at
    <3>4. x \in Run /\ run' = [run EXCEPT ![w] = x]
      BY <3>1 DEF at
    <3> HIDE DEF x
    <3>5. QED
      BY <3>2, <3>3, <3>4
  <2>2. /\ run[w].at = "next"
        /\ UNCHANGED << repeats, sentLog, queue, mails, dropped >>
    BY <1>4 DEF Select, post
  <2>3. QED
    BY <1>1, <1>2, <2>1, <2>2 DEF RunDeed, Leaves
<1>5. CASE Finish(w)
  <2>1. /\ run[w].at = "next" /\ run' = [run EXCEPT ![w] = Rest]
        /\ UNCHANGED << repeats, sentLog, queue, mails, dropped >>
    BY <1>5 DEF Finish, post
  <2>2. Rest \in Run /\ Rest.at = "idle"
    BY RestTyped DEF Rest
  <2>3. QED
    BY <1>1, <1>2, <2>1, <2>2 DEF RunDeed, Leaves
<1>6. CASE Check(w)
  <2>1. PICK s \in run[w].todo :
          LET r == RowOf(w, s)
              rest == run[w].todo \ {s}
              x == IF WasSent(r)
                   THEN [run[w] EXCEPT !.todo = rest,
                           !.at = IF rest = {} THEN "next" ELSE "check"]
                   ELSE [run[w] EXCEPT !.todo = rest, !.siren = s,
                           !.at = "enqueue"]
          IN  /\ r \in Rows /\ s \in Sirens
              /\ x \in Run /\ Proper(x) /\ run' = [run EXCEPT ![w] = x]
              /\ repeats' = IF ~WasSent(r) /\ Elsewhere(w, r)
                            THEN [repeats EXCEPT ![r] = @ + 1] ELSE repeats
    BY <1>6, CheckIs
  <2>2. /\ run[w].at = "check" /\ run[w] \in Run
        /\ UNCHANGED << sentLog, queue, mails, dropped >>
    BY <1>6 DEF Check, Typed, post
  <2> DEFINE r == RowOf(w, s)
             rest == run[w].todo \ {s}
             skip == [run[w] EXCEPT !.todo = rest,
                        !.at = IF rest = {} THEN "next" ELSE "check"]
             take == [run[w] EXCEPT !.todo = rest, !.siren = s, !.at = "enqueue"]
  <2>3. /\ skip.at \in {"next", "check"}
        /\ take.at = "enqueue" /\ take.siren = s /\ take.query = run[w].query
    BY <2>2 DEF Run
  <2>4. CASE WasSent(r)
    <3>1. run'[w] = skip /\ Others
      BY <1>1, <2>1, <2>4
    <3>2. UNCHANGED repeats
      BY <2>1, <2>4
    <3> HIDE DEF skip
    <3>3. QED
      BY <1>2, <2>2, <2>3, <3>1, <3>2 DEF RunDeed, Leaves
  <2>5. CASE ~WasSent(r)
    <3>1. run'[w] = take /\ Others
      BY <1>1, <2>1, <2>5
    <3>2. r \in Rows /\ repeats' = IF Elsewhere(w, r)
                                   THEN [repeats EXCEPT ![r] = @ + 1] ELSE repeats
      BY <2>1, <2>5
    <3>3. Held(w)' = r
      <4> HIDE DEF take
      <4>1. QED
        BY <2>3, <3>1 DEF Held, RowOf
    <3> HIDE DEF take, r
    <3>4. r \notin sentLog
      BY <2>5 DEF WasSent
    <3>5. QED
      BY <2>2, <2>3, <3>1, <3>2, <3>3, <3>4 DEF RunDeed, TakesUp
  <2>6. QED
    BY <2>4, <2>5
<1>7. CASE Enqueue(w)
  <2>1. /\ run[w].at = "enqueue" /\ run[w] \in Run
        /\ queue' = queue \union
             {[reminder |-> Held(w), number |-> jobs[Held(w)] + 1, tries |-> 0]}
        /\ UNCHANGED << sentLog, repeats, mails, dropped >>
    BY <1>7 DEF Enqueue, Typed, Held
  <2>2. /\ Held(w) \in Rows /\ run'[w] = Moved(w) /\ Others
    BY <1>1, <1>7, EnqueueIs DEF Held
  <2>3. /\ Moved(w).at = "mark" /\ Moved(w).siren = run[w].siren
        /\ Moved(w).query = run[w].query
    BY <2>1 DEF Moved, Run
  <2>4. Held(w)' = Held(w)
    BY <2>2, <2>3 DEF Held, RowOf
  <2>5. QED
    BY <2>1, <2>2, <2>3, <2>4 DEF RunDeed, Queues
<1>8. CASE Refuse(w)
  <2> DEFINE x == [Resumed(w) EXCEPT !.clean = FALSE]
  <2>1. /\ run[w].at = "enqueue" /\ run[w] \in Run
        /\ UNCHANGED << repeats, sentLog, queue, mails, dropped >>
    BY <1>8 DEF Refuse, Typed, post
  <2>2. run' = [run EXCEPT ![w] = x] /\ x \in Run
    BY <1>8, <2>1, RefuseIs, ResumedTyped
  <2>3. x.at \in {"next", "check"}
    BY <2>1 DEF Resumed, Run
  <2> HIDE DEF x
  <2>4. QED
    BY <1>1, <1>2, <2>1, <2>2, <2>3 DEF RunDeed, Leaves
<1>9. CASE Mark(w)
  <2>1. /\ run[w].at = "mark" /\ run[w] \in Run
        /\ sentLog' = sentLog \union {Held(w)}
        /\ UNCHANGED << repeats, queue, mails, dropped >>
    BY <1>9 DEF Mark, Typed, post, Held
  <2>2. run' = [run EXCEPT ![w] = Resumed(w)] /\ Resumed(w) \in Run
    BY <1>9, <2>1, MarkIs, ResumedTyped
  <2>3. Resumed(w).at \in {"next", "check"}
    BY <2>1 DEF Resumed, Run
  <2>4. QED
    BY <1>1, <2>1, <2>2, <2>3 DEF RunDeed, Logs
<1>10. CASE DatabaseFails(w)
  <2>1. PICK x \in Run :
          x.at \in {"idle", "next"} /\ run' = [run EXCEPT ![w] = x]
    BY <1>10, DatabaseFailsIs
  <2>2. Torn(w) /\ UNCHANGED << sentLog, queue, mails, dropped >>
    BY <1>10 DEF DatabaseFails, post
  <2>3. QED
    BY <1>1, <2>1, <2>2 DEF RunDeed, Leaves
<1>11. CASE Crash(w)
  <2>1. /\ Torn(w) /\ run' = [run EXCEPT ![w] = Rest]
        /\ UNCHANGED << sentLog, queue, mails, dropped >>
    BY <1>11 DEF Crash, post
  <2>2. Rest \in Run /\ Rest.at = "idle"
    BY RestTyped DEF Rest
  <2>3. QED
    BY <1>1, <2>1, <2>2 DEF RunDeed, Leaves
<1>12. QED
  BY <1>3, <1>4, <1>5, <1>6, <1>7, <1>8, <1>9, <1>10, <1>11 DEF Schedule

(***************************************************************************)
(* None vanishes.                                                          *)
(***************************************************************************)
(* A mail left, a job failed for somebody to see, or a job is on its way.  *)
Accounted(r) ==
  \/ mails[r] >= 1
  \/ r \in dropped
  \/ \E j \in queue : j.reminder = r

(* Also of the reminders that a run is about to log.                       *)
AllAccounted ==
  /\ \A r \in sentLog : Accounted(r)
  /\ \A w \in Workers : run[w].at = "mark" => Accounted(Held(w))

(* What the mail worker does to a job leaves its reminder accounted for,   *)
(* and the jobs of the others alone.                                       *)
LEMMA DeliverAccounts ==
  ASSUME Typed, NEW j \in queue, Deliver(j), NEW r \in Rows, Accounted(r)
  PROVE  Accounted(r)'
<1>1. /\ j \in Job /\ j.reminder \in Rows /\ mails[r] \in Nat
      /\ mails[j.reminder] \in Nat
  BY DEF Typed, Job
<1>2. CASE Send(j)
  BY <1>1, <1>2 DEF Send, Accounted, Typed
<1>3. CASE Discard(j)
  BY <1>1, <1>3 DEF Discard, Accounted
<1>4. ASSUME Retry(j), mails' = mails  PROVE Accounted(r)'
  <2>1. CASE j.tries < RetryLimit
    <3> DEFINE k == [j EXCEPT !.tries = @ + 1]
    <3>1. k.reminder = j.reminder
      BY <1>1 DEF Job
    <3>2. queue' = (queue \ {j}) \union {k} /\ dropped' = dropped
      BY <1>4, <2>1 DEF Retry
    <3> HIDE DEF k
    <3>3. QED
      BY <1>4, <3>1, <3>2 DEF Accounted
  <2>2. CASE ~(j.tries < RetryLimit)
    BY <1>4, <2>2 DEF Retry, Accounted
  <2>3. QED
    BY <2>1, <2>2
<1>5. CASE TransportFails(j)
  BY <1>4, <1>5 DEF TransportFails
<1>6. CASE CrashAfterSend(j)
  <2>1. mails' = [mails EXCEPT ![j.reminder] = @ + 1] /\ Retry(j)
    BY <1>6 DEF CrashAfterSend
  <2>2. CASE r = j.reminder
    BY <1>1, <2>1, <2>2 DEF Accounted, Typed
  <2>3. CASE r # j.reminder
    <3>1. mails'[r] = mails[r]
      BY <1>1, <2>1, <2>3 DEF Typed
    <3>2. (\E i \in queue : i.reminder = r) => \E i \in queue' : i.reminder = r
      BY <2>1, <2>3 DEF Retry
    <3>3. dropped \subseteq dropped'
      BY <2>1 DEF Retry
    <3>4. QED
      BY <3>1, <3>2, <3>3 DEF Accounted
  <2>4. QED
    BY <2>2, <2>3
<1>7. QED
  BY <1>2, <1>3, <1>5, <1>6 DEF Deliver

LEMMA DeliverLeavesRuns ==
  ASSUME NEW j, Deliver(j)
  PROVE  UNCHANGED << calendar, run, sentLog, served >>
BY DEF Deliver, Send, Discard, TransportFails, CrashAfterSend

LEMMA EnvironmentLeavesRuns ==
  ASSUME Environment
  PROVE  UNCHANGED << run, sentLog, post, repeats >>
BY DEF Environment, Settle, MoveDeadline, NextDay

LEMMA AllAccountedStep ==
  ASSUME Typed, AllAccounted, [Next]_vars
  PROVE  AllAccounted'
<1>1. ASSUME UNCHANGED << run, sentLog >>,
             \A r \in Rows : Accounted(r) => Accounted(r)'
      PROVE  AllAccounted'
  <2>1. ASSUME NEW w \in Workers, run[w].at = "mark"
        PROVE  Held(w) \in Rows
    BY <2>1, ResumedTyped DEF Held
  <2>2. \A w \in Workers : Held(w)' = Held(w)
    BY <1>1 DEF Held, RowOf
  <2>3. QED
    BY <1>1, <2>1, <2>2 DEF AllAccounted, Typed
<1>2. CASE UNCHANGED vars \/ Environment
  <2>1. UNCHANGED << run, sentLog, post >>
    BY <1>2, EnvironmentLeavesRuns DEF vars
  <2>2. QED
    BY <1>1, <2>1 DEF post, Accounted
<1>3. CASE \E j \in queue : Deliver(j)
  BY <1>1, <1>3, DeliverAccounts, DeliverLeavesRuns
<1>4. ASSUME NEW w \in Workers, Schedule(w)  PROVE AllAccounted'
  <2>1. RunDeed(w)
    BY <1>4, RunDeeds
  <2>2. \A r : Accounted(r) => Accounted(r)'
    BY <2>1 DEF RunDeed, Leaves, TakesUp, Queues, Logs, Accounted
  <2>3. ASSUME NEW v \in Workers, run'[v].at = "mark"
        PROVE  Accounted(Held(v))'
    <3>1. CASE v # w
      <4>1. run'[v] = run[v] /\ Held(v)' = Held(v)
        BY <2>1, <3>1 DEF RunDeed, Held, RowOf
      <4>2. QED
        BY <2>2, <2>3, <4>1 DEF AllAccounted
    <3>2. CASE v = w
      <4>1. Queues(w)
        BY <2>1, <2>3, <3>2 DEF RunDeed, Leaves, TakesUp, Logs
      <4> DEFINE j == [reminder |-> Held(w), number |-> jobs[Held(w)] + 1,
                       tries |-> 0]
      <4>2. j \in queue' /\ j.reminder = Held(w)'
        BY <4>1 DEF Queues
      <4> HIDE DEF j
      <4>3. QED
        BY <3>2, <4>2 DEF Accounted
    <3>3. QED
      BY <3>1, <3>2
  <2>4. ASSUME NEW r \in sentLog'  PROVE Accounted(r)'
    <3>1. r \in sentLog \/ (run[w].at = "mark" /\ r = Held(w))
      BY <2>1, <2>4 DEF RunDeed, Leaves, TakesUp, Queues, Logs
    <3>2. QED
      BY <2>2, <3>1 DEF AllAccounted
  <2>5. QED
    BY <2>3, <2>4 DEF AllAccounted
<1>5. QED
  BY <1>2, <1>3, <1>4 DEF Next

(* A reminder on the log has reached its recipient, or its job ended in    *)
(* failure, or it is still under way: it is logged only after its job was  *)
(* queued, and a job leaves the queue with a mail or for all to see.       *)
THEOREM NothingVanishes == Spec => []NoneVanishes
<1>1. Init => Typed /\ AllAccounted
  <2>1. Init => AllAccounted
    BY DEF Init, AllAccounted, Rest
  <2>2. QED
    BY <2>1, TypedInit
<1>2. Typed /\ AllAccounted /\ [Next]_vars => (Typed /\ AllAccounted)'
  BY TypedStep, AllAccountedStep
<1>3. AllAccounted => NoneVanishes
  BY DEF AllAccounted, Accounted, NoneVanishes
<1>4. QED
  BY <1>1, <1>2, <1>3, PTL DEF Spec

(***************************************************************************)
(* Duplicates are explained.                                               *)
(***************************************************************************)
Pending(r) == { j \in queue : j.reminder = r }
Asking(r)  == { w \in Workers : run[w].at = "enqueue" /\ Held(w) = r }
Logging(r) == { w \in Workers : run[w].at = "mark" /\ Held(w) = r }

(* The mails that left, the jobs on their way and the runs about to queue  *)
(* one more exceed by one at most the reasons there may be to repeat; and  *)
(* by none when nothing would stop a run from starting again.              *)
Tally(r) ==
  /\ IsFiniteSet(Pending(r)) /\ IsFiniteSet(Asking(r))
  /\ mails[r] + Cardinality(Pending(r)) + Cardinality(Asking(r))
       <= 1 + repeats[r]
  /\ Asking(r) = {} /\ Logging(r) = {} /\ r \notin sentLog =>
       mails[r] + Cardinality(Pending(r)) <= repeats[r]

LEMMA RunTally ==
  ASSUME Typed, Typed', NEW w \in Workers, RunDeed(w),
         NEW r \in Rows, Tally(r)
  PROVE  Tally(r)'
<1> DEFINE P == Cardinality(Pending(r))
           A == Cardinality(Asking(r))
           m == mails[r]
           b == repeats[r]
           P1 == Cardinality(Pending(r)')
           A1 == Cardinality(Asking(r)')
           b1 == repeats'[r]
<1>1. m \in Nat /\ b \in Nat /\ b1 \in Nat /\ mails'[r] = m
  BY DEF Typed, RunDeed
<1>2. /\ IsFiniteSet(Pending(r)) /\ IsFiniteSet(Asking(r))
      /\ P \in Nat /\ A \in Nat /\ m + P + A <= 1 + b
      /\ Asking(r) = {} /\ Logging(r) = {} /\ r \notin sentLog => m + P <= b
      /\ Asking(r) = {} => A = 0
  BY FS_CardinalityType, FS_EmptySet DEF Tally
<1>3. ASSUME IsFiniteSet(Pending(r)'), IsFiniteSet(Asking(r)'),
             m + P1 + A1 <= 1 + b1,
             Asking(r)' = {} /\ Logging(r)' = {} /\ r \notin sentLog' =>
               m + P1 <= b1
      PROVE  Tally(r)'
  BY <1>1, <1>3 DEF Tally
<1>4. \A v \in Workers \ {w} : /\ v \in Asking(r)' <=> v \in Asking(r)
                               /\ v \in Logging(r)' <=> v \in Logging(r)
  BY DEF RunDeed, Asking, Logging, Held, RowOf
<1>5. w \in Asking(r)' <=> run'[w].at = "enqueue" /\ Held(w)' = r
  BY DEF Asking
<1>6. w \in Logging(r)' <=> run'[w].at = "mark" /\ Held(w)' = r
  BY DEF Logging
<1>7. /\ Asking(r) \subseteq Workers /\ Asking(r)' \subseteq Workers
      /\ Logging(r) \subseteq Workers /\ Logging(r)' \subseteq Workers
  BY DEF Asking, Logging
<1>8. /\ IsFiniteSet(Asking(r) \ {w}) /\ IsFiniteSet(Asking(r) \union {w})
      /\ Cardinality(Asking(r) \ {w}) = IF w \in Asking(r) THEN A - 1 ELSE A
      /\ Cardinality(Asking(r) \union {w}) =
           IF w \in Asking(r) THEN A ELSE A + 1
  BY <1>2, FS_AddElement, FS_RemoveElement
<1>9. queue' = queue => Pending(r)' = Pending(r)
  BY DEF Pending
<1>10. CASE Leaves(w)
  <2>1. Asking(r)' = Asking(r) \ {w} /\ Logging(r)' = Logging(r) \ {w}
    BY <1>4, <1>5, <1>6, <1>7, <1>10 DEF Leaves
  <2>2. b1 = IF w \in Logging(r) THEN b + 1 ELSE b
    <3>1. run[w].at = "mark" => Held(w) \in Rows
      BY ResumedTyped DEF Held
    <3>2. repeats' = IF run[w].at = "mark"
                     THEN [repeats EXCEPT ![Held(w)] = @ + 1] ELSE repeats
      BY <1>10 DEF Leaves, Torn, Held
    <3>3. QED
      BY <3>1, <3>2 DEF Typed, Logging
  <2>3. Pending(r)' = Pending(r) /\ sentLog' = sentLog
    BY <1>9, <1>10 DEF Leaves
  <2>4. w \in Asking(r) => A >= 1
    BY <1>2, FS_EmptySet
  <2>5. A1 = IF w \in Asking(r) THEN A - 1 ELSE A
    BY <1>8, <2>1
  <2>6. P1 = P
    BY <2>3
  <2>7. IsFiniteSet(Pending(r)') /\ IsFiniteSet(Asking(r)')
    BY <1>2, <1>8, <2>1, <2>3
  <2>8. Asking(r)' = {} /\ Logging(r)' = {} =>
          \/ w \in Asking(r) \/ w \in Logging(r)
          \/ Asking(r) = {} /\ Logging(r) = {}
    BY <2>1
  <2> HIDE DEF P, A, m, b, P1, A1, b1
  <2>9. m + P1 + A1 <= 1 + b1
    BY <1>1, <1>2, <2>2, <2>5, <2>6
  <2>10. Asking(r)' = {} /\ Logging(r)' = {} /\ r \notin sentLog' =>
           m + P1 <= b1
    BY <1>1, <1>2, <2>2, <2>3, <2>4, <2>6, <2>8
  <2>11. QED
    BY <1>3, <2>7, <2>9, <2>10 DEF P, A, m, b, P1, A1, b1
<1>11. ASSUME Asking(r)' = Asking(r), Logging(r)' = Logging(r),
              Pending(r)' = Pending(r), b1 = b,
              r \notin sentLog' => r \notin sentLog
       PROVE  Tally(r)'
  <2>1. P1 = P /\ A1 = A
    BY <1>11
  <2>2. m + P1 + A1 <= 1 + b1
    BY <1>2, <1>11, <2>1
  <2>3. Asking(r)' = {} /\ Logging(r)' = {} /\ r \notin sentLog' =>
          m + P1 <= b1
    BY <1>2, <1>11, <2>1
  <2>4. QED
    BY <1>2, <1>3, <1>11, <2>2, <2>3
<1>12. CASE TakesUp(w)
  <2>1. w \notin Asking(r) /\ w \notin Logging(r) /\ w \notin Logging(r)'
    BY <1>6, <1>12 DEF TakesUp, Asking, Logging
  <2>2. Pending(r)' = Pending(r) /\ sentLog' = sentLog
    BY <1>9, <1>12 DEF TakesUp
  <2>3. CASE Held(w)' # r
    <3>1. b1 = b
      BY <1>12, <2>3 DEF TakesUp, Typed
    <3>2. Asking(r)' = Asking(r) /\ Logging(r)' = Logging(r)
      BY <1>4, <1>5, <1>7, <2>1, <2>3
    <3>3. QED
      BY <1>11, <2>2, <3>1, <3>2
  <2>4. CASE Held(w)' = r
    <3>1. /\ Asking(r)' = Asking(r) \union {w} /\ w \in Asking(r)'
          /\ r \notin sentLog
      BY <1>4, <1>5, <1>7, <1>12, <2>4 DEF TakesUp
    <3>2. Elsewhere(w, r) <=> Asking(r) # {} \/ Logging(r) # {}
      BY <2>1 DEF Elsewhere, Asking, Logging, Held
    <3>3. b1 = IF Asking(r) = {} /\ Logging(r) = {} THEN b ELSE b + 1
      BY <1>12, <2>4, <3>2 DEF TakesUp, Typed
    <3>4. P1 = P /\ A1 = A + 1
      BY <1>8, <2>1, <2>2, <3>1
    <3>5. m + P1 + A1 <= 1 + b1
      <4> HIDE DEF P, A, m, b, P1, A1, b1
      <4>1. QED
        BY <1>1, <1>2, <3>1, <3>3, <3>4
    <3>6. IsFiniteSet(Pending(r)') /\ IsFiniteSet(Asking(r)')
      BY <1>2, <1>8, <2>2, <3>1
    <3>7. QED
      BY <1>3, <3>1, <3>5, <3>6
  <2>5. QED
    BY <2>3, <2>4
<1>13. CASE Queues(w)
  <2> DEFINE j == [reminder |-> Held(w), number |-> jobs[Held(w)] + 1, tries |-> 0]
  <2>1. /\ queue' = queue \union {j} /\ j.reminder = Held(w)
        /\ sentLog' = sentLog /\ b1 = b
    BY <1>13 DEF Queues
  <2> HIDE DEF j
  <2>2. CASE Held(w) # r
    <3>1. Pending(r)' = Pending(r)
      BY <2>1, <2>2 DEF Pending
    <3>2. Asking(r)' = Asking(r) /\ Logging(r)' = Logging(r)
      <4>1. Held(w)' # r
        BY <1>13, <2>2 DEF Queues
      <4>2. w \notin Asking(r) /\ w \notin Logging(r)
        BY <2>2 DEF Asking, Logging
      <4>3. QED
        BY <1>4, <1>5, <1>6, <1>7, <4>1, <4>2
    <3>3. QED
      BY <1>11, <2>1, <3>1, <3>2
  <2>3. CASE Held(w) = r
    <3>1. Pending(r)' = Pending(r) \union {j}
      BY <2>1, <2>3 DEF Pending
    <3>2. w \in Asking(r) /\ w \notin Asking(r)' /\ w \in Logging(r)'
      BY <1>5, <1>6, <1>13, <2>3 DEF Queues, Asking
    <3>3. Asking(r)' = Asking(r) \ {w}
      BY <1>4, <1>7, <3>2
    <3>4. A1 = A - 1
      BY <1>8, <3>2, <3>3
    <3>5. IsFiniteSet(Pending(r)') /\ P1 \in {P, P + 1}
      BY <1>2, <3>1, FS_AddElement
    <3>6. m + P1 + A1 <= 1 + b1
      <4> HIDE DEF P, A, m, b, P1, A1, b1
      <4>1. QED
        BY <1>1, <1>2, <2>1, <3>4, <3>5
    <3>7. QED
      BY <1>3, <1>8, <3>2, <3>3, <3>5, <3>6
  <2>4. QED
    BY <2>2, <2>3
<1>14. CASE Logs(w)
  <2>1. Pending(r)' = Pending(r) /\ b1 = b /\ w \notin Asking(r)
    BY <1>9, <1>14 DEF Logs, Asking
  <2>2. Asking(r)' = Asking(r)
    BY <1>4, <1>5, <1>7, <1>14, <2>1 DEF Logs
  <2>3. CASE Held(w) # r
    <3>1. Logging(r)' = Logging(r)
      <4>1. w \notin Logging(r) /\ w \notin Logging(r)'
        BY <1>6, <1>14, <2>3 DEF Logs, Logging
      <4>2. QED
        BY <1>4, <1>7, <4>1
    <3>2. QED
      BY <1>11, <1>14, <2>1, <2>2, <2>3, <3>1 DEF Logs
  <2>4. CASE Held(w) = r
    <3>1. r \in sentLog'
      BY <1>14, <2>4 DEF Logs
    <3>2. P1 = P /\ A1 = A
      BY <2>1, <2>2
    <3>3. m + P1 + A1 <= 1 + b1
      BY <1>2, <2>1, <3>2
    <3>4. QED
      BY <1>2, <1>3, <2>1, <2>2, <3>1, <3>3
  <2>5. QED
    BY <2>3, <2>4
<1>15. QED
  BY <1>10, <1>12, <1>13, <1>14 DEF RunDeed

(* What the mail worker does to a job adds to the mails and to the jobs of *)
(* its reminder together at most the repetition it stands for.             *)
LEMMA DeliverTally ==
  ASSUME Typed, Typed', NEW j \in queue, Deliver(j), NEW r \in Rows, Tally(r)
  PROVE  Tally(r)'
<1> DEFINE P == Cardinality(Pending(r))
           A == Cardinality(Asking(r))
           m == mails[r]
           b == repeats[r]
           P1 == Cardinality(Pending(r)')
           m1 == mails'[r]
           b1 == repeats'[r]
<1>1. m \in Nat /\ b \in Nat /\ m1 \in Nat /\ b1 \in Nat
  BY DEF Typed
<1>2. /\ IsFiniteSet(Pending(r)) /\ IsFiniteSet(Asking(r))
      /\ P \in Nat /\ A \in Nat /\ m + P + A <= 1 + b
      /\ Asking(r) = {} /\ Logging(r) = {} /\ r \notin sentLog => m + P <= b
  BY FS_CardinalityType DEF Tally
<1>3. /\ Asking(r)' = Asking(r) /\ Logging(r)' = Logging(r)
      /\ sentLog' = sentLog
  BY DeliverLeavesRuns DEF Asking, Logging, Held, RowOf
<1>4. ASSUME IsFiniteSet(Pending(r)'), m1 + P1 + b <= m + P + b1
      PROVE  Tally(r)'
  <2>1. P1 \in Nat /\ Cardinality(Asking(r)') = A
    BY <1>3, <1>4, FS_CardinalityType
  <2> HIDE DEF P, A, m, b, P1, m1, b1
  <2>2. /\ m1 + P1 + A <= 1 + b1
        /\ Asking(r) = {} /\ Logging(r) = {} /\ r \notin sentLog =>
             m1 + P1 <= b1
    BY <1>1, <1>2, <1>4, <2>1
  <2>3. /\ m1 + P1 + Cardinality(Asking(r)') <= 1 + b1
        /\ Asking(r)' = {} /\ Logging(r)' = {} /\ r \notin sentLog' =>
             m1 + P1 <= b1
    BY <1>3, <2>1, <2>2
  <2>4. IsFiniteSet(Pending(r)') /\ IsFiniteSet(Asking(r)')
    BY <1>2, <1>3, <1>4
  <2>5. QED
    BY <2>3, <2>4 DEF Tally, P1, m1, b1
<1>5. j \in Job /\ mails \in [Rows -> Nat] /\ repeats \in [Rows -> Nat]
  BY DEF Typed
<1>6. ASSUME queue' = queue \ {j}
      PROVE  /\ IsFiniteSet(Pending(r)')
             /\ P1 = IF j.reminder = r THEN P - 1 ELSE P
  <2>1. Pending(r)' = Pending(r) \ {j}
    BY <1>6 DEF Pending
  <2>2. j \in Pending(r) <=> j.reminder = r
    BY DEF Pending
  <2>3. QED
    BY <1>2, <2>1, <2>2, FS_RemoveElement
<1>7. ASSUME Retry(j)
      PROVE  IsFiniteSet(Pending(r)') /\ P1 \in Nat /\ P1 <= P
  <2>1. CASE j.tries < RetryLimit
    <3> DEFINE k == [j EXCEPT !.tries = @ + 1]
    <3>1. k.reminder = j.reminder
      BY <1>5 DEF Job
    <3>2. queue' = (queue \ {j}) \union {k}
      BY <1>7, <2>1 DEF Retry
    <3> HIDE DEF k
    <3>3. CASE j.reminder = r
      <4> DEFINE Q == Pending(r) \ {j}
      <4>1. Pending(r)' = Q \union {k} /\ j \in Pending(r)
        BY <3>1, <3>2, <3>3 DEF Pending
      <4>2. IsFiniteSet(Q) /\ Cardinality(Q) = P - 1
        BY <1>2, <4>1, FS_RemoveElement
      <4> HIDE DEF Q
      <4> HIDE DEF P
      <4>3. /\ IsFiniteSet(Q \union {k})
            /\ Cardinality(Q \union {k}) \in {P - 1, P}
        <5>1. /\ IsFiniteSet(Q \union {k})
              /\ \/ Cardinality(Q \union {k}) = Cardinality(Q)
                 \/ Cardinality(Q \union {k}) = Cardinality(Q) + 1
          BY <4>2, FS_AddElement
        <5>2. QED
          BY <1>2, <4>2, <5>1
      <4>4. Cardinality(Q \union {k}) \in Nat
        BY <4>3, FS_CardinalityType
      <4>5. QED
        BY <1>2, <4>1, <4>3, <4>4
    <3>4. CASE j.reminder # r
      <4>1. Pending(r)' = Pending(r)
        BY <3>1, <3>2, <3>4 DEF Pending
      <4>2. QED
        BY <1>2, <4>1
    <3>5. QED
      BY <3>3, <3>4
  <2>2. CASE ~(j.tries < RetryLimit)
    <3>1. queue' = queue \ {j}
      BY <1>7, <2>2 DEF Retry
    <3>2. IsFiniteSet(Pending(r)') /\ P1 \in {P - 1, P}
      BY <1>6, <3>1
    <3>3. P1 \in Nat
      BY <3>2, FS_CardinalityType
    <3>4. QED
      BY <1>2, <3>2, <3>3
  <2>3. QED
    BY <2>1, <2>2
<1>8. CASE Send(j)
  <2>1. /\ m1 = IF j.reminder = r THEN m + 1 ELSE m
        /\ b1 = b /\ queue' = queue \ {j}
    BY <1>5, <1>8 DEF Send
  <2>2. /\ IsFiniteSet(Pending(r)')
        /\ P1 = IF j.reminder = r THEN P - 1 ELSE P
    BY <1>6, <2>1
  <2>3. m1 + P1 + b <= m + P + b1
    BY <1>1, <1>2, <2>1, <2>2
  <2>4. QED
    BY <1>4, <2>2, <2>3
<1>9. CASE Discard(j)
  <2>1. m1 = m /\ b1 = b /\ queue' = queue \ {j}
    BY <1>9 DEF Discard
  <2>2. /\ IsFiniteSet(Pending(r)')
        /\ P1 = IF j.reminder = r THEN P - 1 ELSE P
    BY <1>6, <2>1
  <2>3. m1 + P1 + b <= m + P + b1
    BY <1>1, <1>2, <2>1, <2>2
  <2>4. QED
    BY <1>4, <2>2, <2>3
<1>10. CASE TransportFails(j)
  <2>1. m1 = m /\ b1 = b /\ Retry(j)
    BY <1>10 DEF TransportFails
  <2>2. IsFiniteSet(Pending(r)') /\ P1 \in Nat /\ P1 <= P
    BY <1>7, <2>1
  <2>3. m1 + P1 + b <= m + P + b1
    BY <1>1, <1>2, <2>1, <2>2
  <2>4. QED
    BY <1>4, <2>2, <2>3
<1>11. CASE CrashAfterSend(j)
  <2>1. /\ m1 = IF j.reminder = r THEN m + 1 ELSE m
        /\ b1 = IF j.reminder = r THEN b + 1 ELSE b
        /\ Retry(j)
    BY <1>5, <1>11 DEF CrashAfterSend
  <2>2. IsFiniteSet(Pending(r)') /\ P1 \in Nat /\ P1 <= P
    BY <1>7, <2>1
  <2>3. m1 + P1 + b <= m + P + b1
    BY <1>1, <1>2, <2>1, <2>2
  <2>4. QED
    BY <1>4, <2>2, <2>3
<1>12. QED
  BY <1>8, <1>9, <1>10, <1>11 DEF Deliver

LEMMA TallyStep ==
  ASSUME Typed, [Next]_vars, \A r \in Rows : Tally(r)
  PROVE  \A r \in Rows : Tally(r)'
<1> SUFFICES ASSUME NEW r \in Rows  PROVE Tally(r)'
  OBVIOUS
<1>1. Typed' /\ Tally(r)
  BY TypedStep
<1>2. CASE UNCHANGED vars \/ Environment
  <2>1. UNCHANGED << run, sentLog, post, repeats >>
    BY <1>2, EnvironmentLeavesRuns DEF vars
  <2>2. /\ Pending(r)' = Pending(r) /\ Asking(r)' = Asking(r)
        /\ Logging(r)' = Logging(r)
    BY <2>1 DEF post, Pending, Asking, Logging, Held, RowOf
  <2>3. QED
    BY <1>1, <2>1, <2>2 DEF Tally, post
<1>3. CASE \E j \in queue : Deliver(j)
  BY <1>1, <1>3, DeliverTally
<1>4. CASE \E w \in Workers : Schedule(w)
  BY <1>1, <1>4, RunDeeds, RunTally
<1>5. QED
  BY <1>2, <1>3, <1>4 DEF Next

(* However many runs overlap, and however often the worker dies and a job  *)
(* is tried again, a reminder leaves at most once more than the windows of *)
(* the code let it be repeated: the log, read before a job is queued and   *)
(* written after, stops every other run.                                   *)
THEOREM Duplicates == Spec => []DuplicatesExplained
<1> DEFINE Inv == Typed /\ \A r \in Rows : Tally(r)
<1>1. Init => Inv
  <2>1. ASSUME Init, NEW r \in Rows  PROVE Tally(r)
    <3>1. Pending(r) = {} /\ Asking(r) = {}
      BY <2>1 DEF Init, Pending, Asking, Rest
    <3>2. mails[r] = 0 /\ repeats[r] = 0
      BY <2>1 DEF Init
    <3>3. QED
      BY <3>1, <3>2, FS_EmptySet DEF Tally
  <2>2. QED
    BY <2>1, TypedInit
<1>2. Inv /\ [Next]_vars => Inv'
  BY TypedStep, TallyStep
<1>3. Inv => DuplicatesExplained
  <2>1. ASSUME Typed, NEW r \in Rows, Tally(r)
        PROVE  mails[r] <= 1 + repeats[r]
    <3>1. mails[r] \in Nat /\ repeats[r] \in Nat
      BY <2>1 DEF Typed
    <3>2. /\ Cardinality(Pending(r)) \in Nat /\ Cardinality(Asking(r)) \in Nat
          /\ mails[r] + Cardinality(Pending(r)) + Cardinality(Asking(r))
               <= 1 + repeats[r]
      BY <2>1, FS_CardinalityType DEF Tally
    <3>3. QED
      BY <3>1, <3>2
  <2>2. QED
    BY <2>1 DEF DuplicatesExplained
<1>4. QED
  BY <1>1, <1>2, <1>3, PTL DEF Spec

(***************************************************************************)
(* Everybody is reminded on the day.                                       *)
(***************************************************************************)
Claim == [ kind : Kinds, siren : Sirens, year : Years, offset : {0, 1, 2} ]

StepOf(r) == [kind |-> r.kind, siren |-> r.siren, year |-> r.year]

(* Those to be reminded today owe the step at this very moment.            *)
Due(r) ==
  /\ r \in Claim /\ r.offset \in OffsetsOf(r.kind)
  /\ StepOf(r) \in owing
  /\ SendingDay(r.kind, r.year, r.offset) = today

(* The query that selects it, and the run that has it before it.           *)
Asked(r) == Query(r.kind, r.year, LoggedYear(r.kind, r.year), r.offset)

Ahead(w, r) ==
  \/ Asked(r) \in run[w].queries
  \/ /\ run[w].query = Asked(r)
     /\ \/ /\ run[w].at \in {"check", "enqueue", "mark"}
           /\ r.siren \in run[w].todo
        \/ /\ run[w].at \in {"enqueue", "mark"}
           /\ run[w].siren = r.siren

(* A run that has not failed has logged the reminder or has it before it.  *)
Keeps(w, r) ==
  run[w].tick = Tick(r.kind) /\ run[w].clean =>
    Row(r) \in sentLog \/ Ahead(w, r)

Kept(r) ==
  /\ Tick(r.kind) \in served => Row(r) \in sentLog
  /\ \A w \in Workers : Keeps(w, r)

Recalled(r) == r.kind \notin {"compliance", "corrective"} /\ InReach(r)

OnItsDay == \A r \in obliged : Due(r) /\ (Recalled(r) => Kept(r))

(* The queries of a day select whatever is to be recalled on it, but for   *)
(* the two reminders of 1 February; the opening is asked about because no  *)
(* campaign comes before the kick-off.                                     *)
LEMMA DueIsAsked ==
  ASSUME Typed, NEW r, Due(r), Recalled(r)
  PROVE  Asked(r) \in Queries(Tick(r.kind), today)
<1>1. /\ FirstYear \in Nat /\ LastYear \in Nat /\ FirstYear >= 2027
      /\ Kinds \subseteq Daily \union Fixed
  BY RemindersAssumption DEF RemindersAssumption
<1>2. /\ r.kind \in Kinds /\ r.year \in Years /\ r.offset \in {0, 1, 2}
      /\ r.offset \in OffsetsOf(r.kind)
      /\ SendingDay(r.kind, r.year, r.offset) = today
      /\ r.kind \notin {"compliance", "corrective"}
      /\ YearOf(today) \in {r.year, r.year + 1}
  BY DEF Due, Recalled, InReach, Claim
<1>3. r.year \in Nat /\ r.year >= 2027 /\ FirstYear <= r.year
  BY <1>1, <1>2 DEF Years
<1>4. YearOf(today) \in Int
  BY <1>2, <1>3
<1>5. CASE r.kind \in Daily
  <2>1. deadline[<< r.kind, r.year >>] - r.offset = today
    <3>1. /\ r.kind \notin {"compliance", "corrective"}
          /\ r.kind \notin {"justify_oct", "justify_dec", "joint_eval"}
          /\ r.kind \notin {"opening", "handover"}
      BY <1>5 DEF Daily
    <3>2. QED
      BY <1>2, <1>5, <3>1, Zenon DEF SendingDay
  <2>2. /\ r.offset \in Offsets(r.kind) /\ r.offset \in {1, 2}
        /\ r.kind # "opening" /\ "daily" = Tick(r.kind)
    BY <1>2, <1>5 DEF OffsetsOf, Offsets, Daily, Tick
  <2>3. r.year \in DailyYears(today) \intersect Years
    BY <1>2, <1>3, <1>4 DEF DailyYears
  <2>4. Asked(r) = Query(r.kind, r.year, r.year, r.offset)
    BY <2>2 DEF Asked, LoggedYear
  <2>5. /\ Asked(r).kind = r.kind /\ Asked(r).year = r.year
        /\ Asked(r).offset = r.offset
    BY <2>4 DEF Query
  <2>6. Asked(r) \in DailyQueries(today)
    <3> HIDE DEF Asked
    <3>1. QED
      BY <1>2, <1>5, <2>1, <2>2, <2>3, <2>4, <2>5 DEF DailyQueries
  <2>7. QED
    BY <2>2, <2>6 DEF Queries
<1>6. CASE r.kind \notin Daily
  <2>1. /\ r.kind \in Fixed /\ Tick(r.kind) = r.kind /\ r.offset = 0
        /\ r.kind # "daily"
    BY <1>1, <1>2, <1>6 DEF Tick, OffsetsOf, Fixed, Opinion
  <2>2. CASE r.kind \in {"justify_oct", "justify_dec", "joint_eval"}
    <3>1. today = On(r.year, Month(r.kind)) /\ Month(r.kind) \in {9, 12}
      <4>1. today = On(r.year, Month(r.kind))
        BY <1>2, <1>6, <2>2, Zenon DEF SendingDay
      <4>2. Month(r.kind) \in {9, 12}
        BY <2>2 DEF Month
      <4>3. QED
        BY <4>1, <4>2
    <3>2. YearOf(today) = r.year
      <4>1. FirstYear <= r.year + 1 /\ Month(r.kind) \in 1 .. 12
        BY <1>1, <1>3, <3>1
      <4>2. QED
        BY <1>3, <3>1, <4>1, DaysOfYear
    <3>3. r.kind \in Opinion /\ r.kind # "opening"
      BY <2>2 DEF Opinion
    <3>4. FixedQueries(r.kind, today) = {Query(r.kind, r.year, r.year, 0)}
      BY <3>2, <3>3, Zenon DEF FixedQueries, Opinion
    <3>5. QED
      BY <2>1, <3>3, <3>4 DEF Queries, Asked, LoggedYear
  <2>3. CASE r.kind \in {"opening", "handover"}
    <3>1. today = On(r.year + 1, Month(r.kind)) /\ Month(r.kind) = 3
      <4>1. today = On(r.year + 1, Month(r.kind))
        BY <1>2, <1>6, <2>3, Zenon DEF SendingDay
      <4>2. Month(r.kind) = 3
        BY <2>3 DEF Month
      <4>3. QED
        BY <4>1, <4>2
    <3>2. YearOf(today) = r.year + 1
      <4>1. /\ r.year + 1 \in Nat /\ FirstYear <= (r.year + 1) + 1
            /\ Month(r.kind) \in 1 .. 12
        BY <1>1, <1>3, <3>1
      <4>2. QED
        BY <3>1, <4>1, DaysOfYear
    <3>3. ~(r.year + 1 < MinOpeningYear) /\ (r.year + 1) - 1 = r.year
      BY <1>3 DEF MinOpeningYear
    <3>4. CASE r.kind = "handover"
      <4>1. FixedQueries(r.kind, today) =
              {Query(r.kind, (r.year + 1) - 1, (r.year + 1) - 1, 0)}
        BY <3>2, <3>4, Zenon DEF FixedQueries, Opinion
      <4>2. QED
        BY <2>1, <3>3, <3>4, <4>1 DEF Queries, Asked, LoggedYear
    <3>5. CASE r.kind = "opening"
      <4>1. FixedQueries(r.kind, today) =
              {Query(r.kind, (r.year + 1) - 1, r.year + 1, 0)}
        BY <3>2, <3>3, <3>5, Zenon DEF FixedQueries, Opinion
      <4>2. QED
        BY <2>1, <3>3, <3>5, <4>1 DEF Queries, Asked, LoggedYear
    <3>6. QED
      BY <2>3, <3>4, <3>5
  <2>4. QED
    BY <1>2, <2>1, <2>2, <2>3 DEF Fixed, Opinion
<1>7. QED
  BY <1>5, <1>6

LEMMA ClaimedRow ==
  ASSUME NEW r \in Claim, NEW w \in Workers, run[w].query = Asked(r)
  PROVE  RowOf(w, r.siren) = Row(r)
<1>1. /\ run[w].query.kind = r.kind /\ run[w].query.offset = r.offset
      /\ run[w].query.year = LoggedYear(r.kind, r.year)
  BY DEF Asked, Query
<1>2. Row(r) = [ kind |-> r.kind, siren |-> r.siren,
                 year |-> LoggedYear(r.kind, r.year), offset |-> r.offset ]
  BY DEF Row, Claim
<1>3. QED
  BY <1>1, <1>2 DEF RowOf

(* A run that fires asks for it; one that asks finds the declaration, for  *)
(* it owes the step; one that is at it queues it and logs it; and one that *)
(* drops it on the way is not clean.                                       *)
LEMMA RunKeeps ==
  ASSUME Typed, NEW w \in Workers, Schedule(w), ~Finish(w),
         NEW r, Due(r), Recalled(r), Keeps(w, r)
  PROVE  Keeps(w, r)'
<1>1. /\ run[w] \in Run /\ Proper(run[w]) /\ r \in Claim /\ r.siren \in Sirens
      /\ Nothing \notin Ticks /\ Tick(r.kind) \in Ticks
  BY RemindersAssumption
     DEF Typed, Due, Claim, RemindersAssumption, Ticks, Tick
<1>2. ASSUME NEW x \in Run, run' = [run EXCEPT ![w] = x]
      PROVE  run'[w] = x
  BY <1>2 DEF Typed
<1>3. ASSUME run'[w].tick = Nothing \/ ~run'[w].clean
      PROVE  Keeps(w, r)'
  BY <1>1, <1>3 DEF Keeps
<1>4. ASSUME run'[w].tick = run[w].tick, run'[w].clean = run[w].clean,
             sentLog \subseteq sentLog',
             Ahead(w, r) => Ahead(w, r)' \/ Row(r) \in sentLog'
      PROVE  Keeps(w, r)'
  BY <1>4 DEF Keeps
<1>5. CASE \E t \in Ticks : Fire(w, t)
  <2>1. PICK t \in Ticks : Fire(w, t)
    BY <1>5
  <2> DEFINE x == [Rest EXCEPT !.tick = t, !.at = "next",
                               !.queries = Queries(t, today)]
  <2>2. run'[w] = x
    BY <1>2, <2>1, FireIs
  <2>3. x.tick = t /\ x.queries = Queries(t, today)
    BY DEF Rest
  <2> HIDE DEF x
  <2>4. CASE t = Tick(r.kind)
    BY <2>2, <2>3, <2>4, DueIsAsked DEF Keeps, Ahead
  <2>5. CASE t # Tick(r.kind)
    BY <2>2, <2>3, <2>5 DEF Keeps
  <2>6. QED
    BY <2>4, <2>5
<1>6. CASE Select(w)
  <2>1. PICK q \in run[w].queries :
          LET x == [run[w] EXCEPT !.queries = @ \ {q}, !.query = q,
                      !.todo = Recipients(q),
                      !.at = IF Recipients(q) = {} THEN "next" ELSE "check"]
          IN  x \in Run /\ Proper(x) /\ run' = [run EXCEPT ![w] = x]
    BY <1>6, SelectIs
  <2> DEFINE c == Recipients(q)
             at == IF c = {} THEN "next" ELSE "check"
             x == [run[w] EXCEPT !.queries = @ \ {q}, !.query = q, !.todo = c,
                     !.at = at]
  <2>2. run'[w] = x
    BY <1>2, <2>1
  <2>3. /\ x.tick = run[w].tick /\ x.clean = run[w].clean
        /\ x.queries = run[w].queries \ {q} /\ x.query = q
        /\ x.todo = c /\ x.at = at
    BY <1>1 DEF Run
  <2>4. run[w].at = "next" /\ sentLog' = sentLog
    BY <1>6 DEF Select
  <2>5. q = Asked(r) => r.siren \in c
    <3>1. q = Asked(r) => q.kind = r.kind /\ q.asks = r.year
      BY DEF Asked, Query
    <3>2. StepOf(r) \in owing
      BY DEF Due
    <3>3. QED
      BY <1>1, <3>1, <3>2 DEF StepOf, Recipients
  <2>6. Ahead(w, r) => Asked(r) \in run[w].queries
    BY <2>4 DEF Ahead
  <2>7. Ahead(w, r) => Ahead(w, r)'
    <3>1. c # {} => at = "check"
      OBVIOUS
    <3> HIDE DEF x, c, at
    <3>2. ASSUME Asked(r) \in run[w].queries, q # Asked(r)
          PROVE  Ahead(w, r)'
      BY <2>2, <2>3, <3>2 DEF Ahead
    <3>3. ASSUME q = Asked(r)
          PROVE  Ahead(w, r)'
      BY <2>2, <2>3, <2>5, <3>1, <3>3 DEF Ahead
    <3>4. QED
      BY <2>6, <3>2, <3>3
  <2> HIDE DEF x
  <2>8. QED
    BY <1>4, <2>2, <2>3, <2>4, <2>7
<1>7. CASE Check(w)
  <2>1. PICK s \in run[w].todo :
          LET i == RowOf(w, s)
              rest == run[w].todo \ {s}
              x == IF WasSent(i)
                   THEN [run[w] EXCEPT !.todo = rest,
                           !.at = IF rest = {} THEN "next" ELSE "check"]
                   ELSE [run[w] EXCEPT !.todo = rest, !.siren = s,
                           !.at = "enqueue"]
          IN  x \in Run /\ run' = [run EXCEPT ![w] = x]
    BY <1>7, CheckIs
  <2> DEFINE i == RowOf(w, s)
             rest == run[w].todo \ {s}
             at == IF rest = {} THEN "next" ELSE "check"
             skip == [run[w] EXCEPT !.todo = rest, !.at = at]
             take == [run[w] EXCEPT !.todo = rest, !.siren = s, !.at = "enqueue"]
  <2>2. /\ skip.tick = run[w].tick /\ skip.clean = run[w].clean
        /\ skip.queries = run[w].queries /\ skip.query = run[w].query
        /\ skip.todo = rest /\ skip.at = at
    BY <1>1 DEF Run
  <2>3. /\ take.tick = run[w].tick /\ take.clean = run[w].clean
        /\ take.queries = run[w].queries /\ take.query = run[w].query
        /\ take.todo = rest /\ take.siren = s /\ take.at = "enqueue"
    BY <1>1 DEF Run
  <2>4. run[w].at = "check" /\ sentLog' = sentLog
    BY <1>7 DEF Check
  <2>5. ASSUME Ahead(w, r), Asked(r) \notin run[w].queries
        PROVE  run[w].query = Asked(r) /\ r.siren \in run[w].todo
    BY <2>4, <2>5 DEF Ahead
  <2>6. rest # {} => at = "check"
    OBVIOUS
  <2>7. CASE WasSent(i)
    <3>1. run'[w] = skip
      BY <1>2, <2>1, <2>7
    <3>2. ASSUME Ahead(w, r)  PROVE Ahead(w, r)' \/ Row(r) \in sentLog
      <4> HIDE DEF skip, at
      <4>1. CASE Asked(r) \in run[w].queries
        BY <2>2, <3>1, <4>1 DEF Ahead
      <4>2. CASE Asked(r) \notin run[w].queries /\ s = r.siren
        BY <1>1, <2>5, <2>7, <3>2, <4>2, ClaimedRow DEF WasSent
      <4>3. CASE Asked(r) \notin run[w].queries /\ s # r.siren
        <5>1. run[w].query = Asked(r) /\ r.siren \in rest
          BY <2>5, <3>2, <4>3
        <5> HIDE DEF rest
        <5>2. QED
          BY <2>2, <2>6, <3>1, <5>1 DEF Ahead
      <4>4. QED
        BY <4>1, <4>2, <4>3
    <3> HIDE DEF skip
    <3>3. QED
      BY <1>4, <2>2, <2>4, <3>1, <3>2
  <2>8. CASE ~WasSent(i)
    <3>1. run'[w] = take
      BY <1>2, <2>1, <2>8
    <3>2. ASSUME Ahead(w, r)  PROVE Ahead(w, r)'
      <4> HIDE DEF take
      <4>1. CASE Asked(r) \in run[w].queries
        BY <2>3, <3>1, <4>1 DEF Ahead
      <4>2. CASE Asked(r) \notin run[w].queries
        <5>1. /\ run[w].query = Asked(r)
              /\ r.siren \in rest \/ r.siren = s
          BY <2>5, <3>2, <4>2
        <5> HIDE DEF rest
        <5>2. QED
          BY <2>3, <3>1, <5>1 DEF Ahead
      <4>3. QED
        BY <4>1, <4>2
    <3> HIDE DEF take
    <3>3. QED
      BY <1>4, <2>3, <2>4, <3>1, <3>2
  <2>9. QED
    BY <2>7, <2>8
<1>8. CASE Enqueue(w)
  <2>1. run'[w] = Moved(w) /\ run[w].at = "enqueue" /\ sentLog' = sentLog
    BY <1>2, <1>8, EnqueueIs DEF Enqueue
  <2>2. /\ Moved(w).tick = run[w].tick /\ Moved(w).clean = run[w].clean
        /\ Moved(w).queries = run[w].queries /\ Moved(w).query = run[w].query
        /\ Moved(w).todo = run[w].todo /\ Moved(w).siren = run[w].siren
        /\ Moved(w).at = "mark"
    BY <1>1 DEF Moved, Run
  <2>3. Ahead(w, r) => Ahead(w, r)'
    BY <2>1, <2>2 DEF Ahead
  <2>4. QED
    BY <1>4, <2>1, <2>2, <2>3
<1>9. CASE Refuse(w)
  <2> DEFINE x == [Resumed(w) EXCEPT !.clean = FALSE]
  <2>1. run'[w] = x
    BY <1>2, <1>9, RefuseIs, ResumedTyped DEF Refuse
  <2>2. ~x.clean
    BY <1>1 DEF Resumed, Run
  <2> HIDE DEF x
  <2>3. QED
    BY <1>3, <2>1, <2>2
<1>10. CASE Mark(w)
  <2>1. run[w].at = "mark" /\ sentLog' = sentLog \union {RowOf(w, run[w].siren)}
    BY <1>10 DEF Mark
  <2>2. run'[w] = Resumed(w)
    BY <1>2, <1>10, <2>1, MarkIs, ResumedTyped
  <2> DEFINE at == IF run[w].todo = {} THEN "next" ELSE "check"
  <2>3. /\ Resumed(w).tick = run[w].tick /\ Resumed(w).clean = run[w].clean
        /\ Resumed(w).queries = run[w].queries
        /\ Resumed(w).query = run[w].query
        /\ Resumed(w).todo = run[w].todo /\ Resumed(w).at = at
    BY <1>1 DEF Resumed, Run
  <2>4. run[w].todo # {} => at = "check"
    OBVIOUS
  <2> HIDE DEF at
  <2>5. ASSUME Ahead(w, r)  PROVE Ahead(w, r)' \/ Row(r) \in sentLog'
    <3>1. CASE Asked(r) \in run[w].queries
      BY <2>2, <2>3, <3>1 DEF Ahead
    <3>2. CASE run[w].query = Asked(r) /\ r.siren \in run[w].todo
      BY <2>2, <2>3, <2>4, <3>2 DEF Ahead
    <3>3. CASE run[w].query = Asked(r) /\ run[w].siren = r.siren
      BY <1>1, <2>1, <3>3, ClaimedRow
    <3>4. QED
      BY <2>5, <3>1, <3>2, <3>3 DEF Ahead
  <2>6. QED
    BY <1>4, <2>1, <2>2, <2>3, <2>5
<1>11. CASE DatabaseFails(w)
  <2>1. PICK x \in Run : /\ run' = [run EXCEPT ![w] = x]
                         /\ x = Rest \/ ~x.clean
    BY <1>11, DatabaseFailsIs
  <2>2. x.tick = Nothing \/ ~x.clean
    BY <2>1 DEF Rest
  <2>3. QED
    BY <1>2, <1>3, <2>1, <2>2
<1>12. CASE Crash(w)
  <2>1. run'[w] = Rest
    BY <1>2, <1>12, RestTyped DEF Crash
  <2>2. QED
    BY <1>3, <2>1 DEF Rest
<1>13. QED
  BY <1>5, <1>6, <1>7, <1>8, <1>9, <1>10, <1>11, <1>12 DEF Schedule

LEMMA ScheduleKeeps ==
  ASSUME Typed, NEW w \in Workers, Schedule(w),
         NEW r, Due(r), Recalled(r), Kept(r)
  PROVE  Kept(r)'
<1>1. sentLog \subseteq sentLog' /\ \A v \in Workers \ {w} : run'[v] = run[v]
  BY RunDeeds DEF RunDeed, Leaves, TakesUp, Queues, Logs
<1>2. ASSUME NEW v \in Workers \ {w}  PROVE Keeps(v, r)'
  BY <1>1 DEF Kept, Keeps, Ahead
<1>3. CASE Finish(w)
  <2>1. /\ run[w].at = "next" /\ run[w].queries = {} /\ run'[w] = Rest
        /\ served' = IF run[w].clean THEN served \union {run[w].tick} ELSE served
    BY <1>3, RestTyped DEF Finish, Typed
  <2>2. ~Ahead(w, r)
    BY <2>1 DEF Ahead
  <2>3. run[w].tick = Tick(r.kind) /\ run[w].clean => Row(r) \in sentLog
    BY <2>2 DEF Kept, Keeps
  <2>4. Tick(r.kind) \in served' => Row(r) \in sentLog'
    BY <1>1, <2>1, <2>3 DEF Kept
  <2>5. Keeps(w, r)'
    <3>1. Rest.tick # Tick(r.kind)
      BY RemindersAssumption
         DEF Due, Claim, Rest, RemindersAssumption, Tick
    <3>2. QED
      BY <2>1, <3>1 DEF Keeps
  <2>6. QED
    BY <1>2, <2>4, <2>5 DEF Kept
<1>4. CASE ~Finish(w)
  <2>1. served' = served
    BY <1>4 DEF Schedule, Fire, Select, Check, Enqueue, Refuse, Mark,
                DatabaseFails, Crash
  <2>2. Keeps(w, r)'
    BY <1>4, RunKeeps DEF Kept
  <2>3. QED
    BY <1>1, <1>2, <2>1, <2>2 DEF Kept
<1>5. QED
  BY <1>3, <1>4

(* Only the deadline of its own campaign moves the day of a reminder.      *)
LEMMA SendingDayKept ==
  ASSUME NEW kind, NEW year, NEW offset,
         kind \in Daily \union Fixed,
         kind \in Daily =>
           deadline'[<< kind, year >>] = deadline[<< kind, year >>]
  PROVE  SendingDay(kind, year, offset)' = SendingDay(kind, year, offset)
<1>1. CASE kind \in Daily
  <2>1. /\ kind \notin {"compliance", "corrective"}
        /\ kind \notin {"justify_oct", "justify_dec", "joint_eval"}
        /\ kind \notin {"opening", "handover"}
    BY <1>1 DEF Daily
  <2>2. /\ SendingDay(kind, year, offset)' = deadline'[<< kind, year >>] - offset
        /\ SendingDay(kind, year, offset) = deadline[<< kind, year >>] - offset
    BY <1>1, <2>1, Zenon DEF SendingDay
  <2>3. QED
    BY <1>1, <2>2
<1>2. CASE kind \in {"compliance", "corrective"}
  <2>1. /\ kind \notin Daily
        /\ kind \notin {"justify_oct", "justify_dec", "joint_eval"}
        /\ kind \notin {"opening", "handover"}
    BY <1>2 DEF Daily
  <2>2. QED
    BY <1>2, <2>1, Zenon DEF SendingDay
<1>3. CASE kind \in {"justify_oct", "justify_dec", "joint_eval"}
  <2>1. /\ kind \notin Daily
        /\ kind \notin {"compliance", "corrective"}
        /\ kind \notin {"opening", "handover"}
    BY <1>3 DEF Daily
  <2>2. QED
    BY <1>3, <2>1, Zenon DEF SendingDay
<1>4. CASE kind \in {"opening", "handover"}
  <2>1. /\ kind \notin Daily
        /\ kind \notin {"compliance", "corrective"}
        /\ kind \notin {"justify_oct", "justify_dec", "joint_eval"}
    BY <1>4 DEF Daily
  <2>2. QED
    BY <1>4, <2>1, Zenon DEF SendingDay
<1>5. QED
  BY <1>1, <1>2, <1>3, <1>4 DEF Fixed, Opinion

LEMMA OnItsDayStep ==
  ASSUME Typed, OnItsDay, [Next]_vars
  PROVE  OnItsDay'
<1>1. Kinds \subseteq Daily \union Fixed
  BY RemindersAssumption DEF RemindersAssumption
<1>2. ASSUME NEW r \in obliged, today' = today, StepOf(r) \in owing',
             r.kind \in Daily =>
               deadline'[<< r.kind, r.year >>] = deadline[<< r.kind, r.year >>]
      PROVE  Due(r)' /\ (Recalled(r)' => Recalled(r))
  <2>1. Due(r)
    BY DEF OnItsDay
  <2>2. SendingDay(r.kind, r.year, r.offset)' = SendingDay(r.kind, r.year, r.offset)
    <3>1. r.kind \in Daily \union Fixed
      BY <1>1, <2>1 DEF Due, Claim
    <3>2. QED
      BY <1>2, <3>1, SendingDayKept
  <2>3. Due(r)'
    BY <1>2, <2>1, <2>2 DEF Due
  <2>4. Recalled(r)' => Recalled(r)
    BY <1>2 DEF Recalled, InReach
  <2>5. QED
    BY <2>3, <2>4
<1>3. ASSUME UNCHANGED << run, sentLog, served >>, NEW r, Kept(r)
      PROVE  Kept(r)'
  BY <1>3 DEF Kept, Keeps, Ahead
<1>4. CASE UNCHANGED vars \/ \E j \in queue : Deliver(j)
  <2>1. UNCHANGED << calendar, run, sentLog, served >>
    BY <1>4, DeliverLeavesRuns DEF vars
  <2>2. ASSUME NEW r \in obliged'
        PROVE  Due(r)' /\ (Recalled(r)' => Kept(r)')
    <3>1. r \in obliged /\ StepOf(r) \in owing'
      BY <2>1 DEF OnItsDay, Due, calendar
    <3>2. Due(r)' /\ (Recalled(r)' => Recalled(r))
      BY <1>2, <2>1, <3>1 DEF calendar
    <3>3. QED
      BY <1>3, <2>1, <3>1, <3>2 DEF OnItsDay
  <2>3. QED
    BY <2>2 DEF OnItsDay
<1>5. ASSUME NEW s \in owing, Settle(s)  PROVE OnItsDay'
  <2>1. /\ owing' = owing \ {s} /\ today' = today /\ deadline' = deadline
        /\ UNCHANGED << run, sentLog, served >>
        /\ obliged' = { r \in obliged : ~( /\ r.kind = s.kind
                                           /\ r.siren = s.siren
                                           /\ r.year = s.year ) }
    BY <1>5 DEF Settle
  <2>2. ASSUME NEW r \in obliged'
        PROVE  Due(r)' /\ (Recalled(r)' => Kept(r)')
    <3>1. /\ r \in obliged
          /\ ~(r.kind = s.kind /\ r.siren = s.siren /\ r.year = s.year)
      BY <2>1
    <3>2. StepOf(r) \in owing'
      BY <2>1, <3>1 DEF StepOf, OnItsDay, Due
    <3>3. Due(r)' /\ (Recalled(r)' => Recalled(r))
      BY <1>2, <2>1, <3>1, <3>2
    <3>4. QED
      BY <1>3, <2>1, <3>1, <3>3 DEF OnItsDay
  <2>3. QED
    BY <2>2 DEF OnItsDay
<1>6. ASSUME NEW ky \in DOMAIN deadline, NEW d \in NewDeadlines,
             MoveDeadline(ky[1], ky[2], d)
      PROVE  OnItsDay'
  <2>1. PICK k \in Kinds \intersect Daily, y \in Years : ky = << k, y >>
    BY DEF Typed
  <2>2. /\ deadline' = [deadline EXCEPT ![<< k, y >>] = d]
        /\ obliged' = { r \in obliged : ~(r.kind = k /\ r.year = y) }
        /\ today' = today /\ owing' = owing
        /\ UNCHANGED << run, sentLog, served >>
    BY <1>6, <2>1 DEF MoveDeadline
  <2>3. ASSUME NEW r \in obliged'
        PROVE  Due(r)' /\ (Recalled(r)' => Kept(r)')
    <3>1. r \in obliged /\ ~(r.kind = k /\ r.year = y)
      BY <2>2
    <3>2. StepOf(r) \in owing' /\ r.kind \in Kinds /\ r.year \in Years
      BY <2>2, <3>1 DEF OnItsDay, Due, Claim
    <3>3. r.kind \in Daily =>
            deadline'[<< r.kind, r.year >>] = deadline[<< r.kind, r.year >>]
      <4>1. << r.kind, r.year >> # << k, y >>
        BY <3>1
      <4>2. QED
        BY <2>2, <3>2, <4>1 DEF Typed
    <3>4. Due(r)' /\ (Recalled(r)' => Recalled(r))
      BY <1>2, <2>2, <3>1, <3>2, <3>3
    <3>5. QED
      BY <1>3, <2>2, <3>1, <3>4 DEF OnItsDay
  <2>4. QED
    BY <2>3 DEF OnItsDay
<1>7. CASE NextDay
  <2>1. PICK day, some :
          /\ some \subseteq StepsOf(day) /\ today' = day
          /\ owing' = some /\ obliged' = Obligations(some, day)
    BY <1>7 DEF NextDay
  <2>2. /\ deadline' = deadline /\ served' = {} /\ run' = run
        /\ \A w \in Workers : run[w] = Rest
    BY <1>7 DEF NextDay
  <2>3. ASSUME NEW r \in obliged'
        PROVE  Due(r)' /\ Kept(r)'
    <3>1. PICK s \in some, o \in {0, 1, 2} :
            r = [kind |-> s.kind, siren |-> s.siren, year |-> s.year, offset |-> o]
      BY <2>1 DEF Obligations
    <3>2. /\ r.offset \in OffsetsOf(r.kind)
          /\ SendingDay(r.kind, r.year, r.offset) = day
      BY <2>1 DEF Obligations
    <3>3. s \in Step
      BY <2>1 DEF StepsOf
    <3>4. r \in Claim /\ StepOf(r) = s
      BY <3>1, <3>3 DEF Claim, Step, StepOf
    <3>5. SendingDay(r.kind, r.year, r.offset)' = day
      <4>1. r.kind \in Daily \union Fixed
        BY <1>1, <3>4 DEF Claim
      <4>2. QED
        BY <2>2, <3>2, <4>1, SendingDayKept
    <3>6. Due(r)'
      BY <2>1, <3>2, <3>4, <3>5 DEF Due
    <3>7. Kept(r)'
      <4>1. Rest.tick # Tick(r.kind)
        BY <3>4, RemindersAssumption
           DEF Claim, Rest, RemindersAssumption, Tick
      <4>2. QED
        BY <2>2, <4>1 DEF Kept, Keeps
    <3>8. QED
      BY <3>6, <3>7
  <2>4. QED
    BY <2>3 DEF OnItsDay
<1>8. ASSUME NEW w \in Workers, Schedule(w)  PROVE OnItsDay'
  <2>1. UNCHANGED calendar
    BY <1>8 DEF Schedule, Fire, Select, Finish, Check, Enqueue, Refuse, Mark,
                DatabaseFails, Crash
  <2>2. ASSUME NEW r \in obliged'
        PROVE  Due(r)' /\ (Recalled(r)' => Kept(r)')
    <3>1. r \in obliged /\ StepOf(r) \in owing'
      BY <2>1 DEF OnItsDay, Due, calendar
    <3>2. Due(r)' /\ (Recalled(r)' => Recalled(r))
      BY <1>2, <2>1, <3>1 DEF calendar
    <3>3. Recalled(r) => Kept(r)'
      BY <1>8, <3>1, ScheduleKeeps DEF OnItsDay
    <3>4. QED
      BY <3>2, <3>3
  <2>3. QED
    BY <2>2 DEF OnItsDay
<1>9. QED
  BY <1>4, <1>5, <1>6, <1>7, <1>8 DEF Next, Environment

(* Whatever the declarants settle, an administrator moves and a worker     *)
(* loses in the day, a schedule that ended without an error has logged the *)
(* reminder of everybody who still owes the step when the day is over.     *)
THEOREM Reminded == Spec => RemindedOnItsDay
<1>1. Init => Typed /\ OnItsDay
  <2>1. Init => OnItsDay
    BY DEF Init, OnItsDay
  <2>2. QED
    BY <2>1, TypedInit
<1>2. Typed /\ OnItsDay /\ [Next]_vars => (Typed /\ OnItsDay)'
  BY TypedStep, OnItsDayStep
<1>3. Typed /\ OnItsDay =>
        \A r \in obliged : /\ Tick(r.kind) \in served
                           /\ r.kind \notin {"compliance", "corrective"}
                           /\ InReach(r)
                           => Row(r) \in sentLog
  BY DEF OnItsDay, Recalled, Kept
<1>4. Typed /\ OnItsDay /\ [Next]_vars =>
        [today' # today =>
           \A r \in obliged : /\ Tick(r.kind) \in served
                              /\ r.kind \notin {"compliance", "corrective"}
                              /\ InReach(r)
                              => Row(r) \in sentLog]_vars
  BY <1>3
<1>5. QED
  BY <1>1, <1>2, <1>4, PTL DEF Spec, RemindedOnItsDay
=============================================================================
