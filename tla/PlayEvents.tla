----------------------------- MODULE PlayEvents -----------------------------
(***************************************************************************)
(* How often a submission was rendered. A TV keeps each play until it is   *)
(* acknowledged and sends it again after a restart; the server stores the  *)
(* plays; a job every ten minutes counts, per day, those that came in      *)
(* since its last run, and deletes what is older than the retention        *)
(* period. The counts stay, and are what requesters see. One TV and one    *)
(* submission: counts of different TVs and submissions never meet.         *)
(***************************************************************************)
EXTENDS Integers, FiniteSets, FiniteSetsExt

CONSTANTS
  Events,     \* plays, by the id the TV gives each
  Wall,       \* those in placement WALL
  DayLength,  \* in units of time
  Retention,  \* PLAY_EVENT_RETENTION_DAYS
  Overlap,    \* WATERMARK_OVERLAP_MS
  Latency,    \* how long an INSERT may take to commit
  BatchSize,  \* RETENTION_BATCH
  Null,
  MaxTime,    \* BOUND on the time
  MaxRequests,\* BOUND on the requests under way
  MaxLate     \* BOUND on the runs that wait with a time they took before

ASSUME PlayEventsConstantsOK ==
  /\ Wall \subseteq Events
  /\ {DayLength, BatchSize} \subseteq Nat \ {0}
  /\ {Retention, Overlap, Latency, MaxTime, MaxRequests, MaxLate} \subseteq Nat
  /\ Latency < Overlap
  /\ Null \notin Nat

VARIABLES
  now,
  started,    \* per play: when the TV began it, by its clock
  acked,      \* plays the TV knows to be stored
  requests,   \* batches the server received and is inserting
  rows,       \* play_events
  daily,      \* play_event_daily, per day
  watermark,  \* job_watermarks
  waiting,    \* the times of the runs that wait for a connection
  run,        \* the run that holds the job lock, or Null
  accepted,   \* history: plays that were ever stored
  horizon     \* history: the first day that no run has found expired

feedVars == <<started, acked, requests, accepted>>
jobVars  == <<daily, watermark, waiting, run, horizon>>
playVars == <<now, rows, feedVars, jobVars>>

-----------------------------------------------------------------------------
Day(t) == t \div DayLength
Days   == 0..Day(MaxTime)
DayOf(event) == Day(started[event])

Count == [plays : Nat, wall : Nat]

(* The TV renders the submission; its clock is the server's.               *)
Render(e) ==
  /\ started[e] = Null
  /\ started' = [started EXCEPT ![e] = now]
  /\ UNCHANGED <<now, acked, requests, accepted, rows, jobVars>>

(* recordPlayEvents, up to its await: receivedAt is taken before the INSERT*)
Receive(E) ==
  /\ Cardinality(requests) < MaxRequests
  /\ requests' = requests \cup {[at |-> now, events |-> E]}
  /\ UNCHANGED <<now, started, acked, accepted, rows, jobVars>>

IsDuplicate_SameTime(row) == row \in rows
IsDuplicate(row) == \E r \in rows : r.event = row.event

(* The INSERT commits; the answer may be lost on its way to the TV.        *)
Store(request) ==
  LET new == {row \in [event : request.events, at : {request.at}] : ~IsDuplicate(row)} IN
  /\ requests' = requests \ {request}
  /\ rows' = rows \cup new
  /\ accepted' = accepted \cup {row.event : row \in new}
  /\ acked' \in {acked, acked \cup request.events}
  /\ UNCHANGED <<now, started, jobVars>>

-----------------------------------------------------------------------------
(* The aggregation job.                                                    *)

RetentionStart(t) == Day(t) - Retention

Since_NoOverlap == IF watermark = Null THEN -1 ELSE watermark
Since == IF watermark = Null THEN -1 ELSE watermark - Overlap

DaysToCount_All(t) == {DayOf(r.event) : r \in {r \in rows : r.at > Since}}
DaysToCount(t) ==
  {d \in {DayOf(r.event) : r \in {r \in rows : r.at > Since}} : d >= RetentionStart(t)}

(* run takes the time and then waits for a connection, perhaps for long,   *)
(* while runs of other pods come and go.                                   *)
ComeLate ==
  /\ Cardinality(waiting) < MaxLate
  /\ waiting' = waiting \cup {now}
  /\ UNCHANGED <<now, rows, feedVars, daily, watermark, run, horizon>>

(* run, from the lock it gets to the read of the days touched since the    *)
(* watermark, at a time t it took just now or long ago.                    *)
Begin(t) ==
  /\ run = Null
  /\ run' = [step |-> "begun", at |-> t, days |-> DaysToCount(t),
             looked |-> rows, daily |-> daily]
  /\ waiting' = waiting \ {t}
  /\ UNCHANGED <<now, rows, feedVars, daily, watermark, horizon>>

(* It finds the lock taken, or its pod dies.                               *)
Skip(t) ==
  /\ waiting' = waiting \ {t}
  /\ UNCHANGED <<now, rows, feedVars, daily, watermark, run, horizon>>

NotWall(e) == e \notin Wall

CountOf(d) ==
  LET of == {r \in rows : DayOf(r.event) = d} IN
  [plays |-> Cardinality({r \in of : NotWall(r.event)}),
   wall  |-> Cardinality({r \in of : r.event \in Wall})]

(* The days are counted anew from what is stored by then.                  *)
Recompute ==
  /\ run # Null
  /\ run.step = "begun"
  /\ run' = [run EXCEPT !.step = "counted",
               !.daily = [d \in Days |-> IF d \in run.days THEN CountOf(d) ELSE daily[d]]]
  /\ UNCHANGED <<now, rows, feedVars, daily, watermark, waiting, horizon>>

Expired(t) == {r \in rows : DayOf(r.event) < RetentionStart(t)}

Smaller(a, b) == IF a < b THEN a ELSE b

(* deleteExpired takes one batch; the watermark is the time the run took.  *)
Commit ==
  /\ run # Null
  /\ run.step = "counted"
  /\ daily' = run.daily
  /\ \E D \in kSubset(Smaller(BatchSize, Cardinality(Expired(run.at))), Expired(run.at)) :
       rows' = rows \ D
  /\ watermark' = run.at
  /\ run' = Null
  /\ horizon' = IF horizon < RetentionStart(run.at) THEN RetentionStart(run.at)
                                                   ELSE horizon
  /\ UNCHANGED <<now, waiting, feedVars>>

(* The pod dies, or a statement fails: all of the run is undone.           *)
RollBack ==
  /\ run # Null
  /\ run' = Null
  /\ UNCHANGED <<now, rows, feedVars, daily, watermark, waiting, horizon>>

-----------------------------------------------------------------------------
(* StatsService.impressions: the sum over the days asked for.              *)
Impressions(from, to, placement) ==
  MapThenSumSet(LAMBDA d : daily[d][placement], from..to)

(* Time passes, but not while an INSERT has taken as long as it may.       *)
Tick ==
  /\ now < MaxTime
  /\ \A request \in requests : now < request.at + Latency
  /\ now' = now + 1
  /\ UNCHANGED <<rows, feedVars, jobVars>>

PlayInit ==
  /\ now = 0
  /\ started = [e \in Events |-> Null]
  /\ acked = {} /\ requests = {} /\ rows = {} /\ accepted = {}
  /\ daily = [d \in Days |-> [plays |-> 0, wall |-> 0]]
  /\ watermark = Null /\ waiting = {} /\ run = Null
  /\ horizon = RetentionStart(0)

Kept == {e \in Events : started[e] # Null} \ acked

PlayNext ==
  \/ \E e \in Events : Render(e)
  \/ \E E \in SUBSET Kept \ {{}} : Receive(E)
  \/ \E request \in requests : Store(request)
  \/ ComeLate
  \/ \E t \in waiting \cup {now} : Begin(t)
  \/ \E t \in waiting : Skip(t)
  \/ Recompute \/ Commit \/ RollBack
  \/ Tick

PlaySpec == PlayInit /\ [][PlayNext]_playVars

-----------------------------------------------------------------------------
(* Properties.                                                             *)

Row == [event : Events, at : 0..MaxTime]
Job == [step : {"begun", "counted"}, at : 0..MaxTime, days : SUBSET Days,
        looked : SUBSET Row, daily : [Days -> Count]]

(* The types.                                                              *)
PlayTypesOK ==
  /\ now \in 0..MaxTime
  /\ started \in [Events -> (0..MaxTime) \cup {Null}]
  /\ acked \subseteq Events
  /\ requests \subseteq [at : 0..now, events : SUBSET Events]
  /\ rows \subseteq Row
  /\ daily \in [Days -> Count]
  /\ watermark \in (0..now) \cup {Null}
  /\ waiting \subseteq 0..now
  /\ run # Null => run \in Job
  /\ horizon \in Int
  /\ accepted \subseteq Events

(* No play is missed: when a run commits, what was stored when it looked   *)
(* is in the counts, for each day that no run has found expired, although  *)
(* rows become visible later than their receivedAt says                    *)
(* (WATERMARK_OVERLAP_MS) and runs may overtake one another.               *)
NothingMissed ==
  [][watermark' # watermark =>
       \A d \in Days : d >= horizon' =>
         LET of == {r.event : r \in {r \in run.looked : DayOf(r.event) = d}} IN
         /\ Cardinality(of \ Wall) <= daily'[d].plays
         /\ Cardinality(of \cap Wall) <= daily'[d].wall]_playVars

(* No play is counted twice, however often a TV sends it and however often *)
(* its day is counted again, nor under another placement than its own      *)
(* (recordPlayEvents, PlayEventAggregationJob.recompute).                  *)
CountedOnce ==
  /\ PlayTypesOK
  /\ \A d \in Days :
       LET of == {e \in accepted : DayOf(e) = d} IN
       /\ daily[d].plays <= Cardinality(of \ Wall)
       /\ daily[d].wall <= Cardinality(of \cap Wall)

(* A run that waited while another of a later day began to delete what its *)
(* own time still retains (PlayEventAggregationJob.run, `now`).            *)
Overtaken == run # Null /\ RetentionStart(run.at) < horizon

(* What a requester is shown for given days never shrinks while no run has *)
(* found them expired, nor when their rows have been deleted, wholly or in *)
(* part, and a late play of one of the days comes in. Only a run that was  *)
(* overtaken may count such a day again (PlayEventAggregationJob.run).     *)
NeverShrinks ==
  [][\A from, to \in Days : \A placement \in {"plays", "wall"} :
       from >= horizon \/ ~Overtaken =>
         Impressions(from, to, placement)
           <= Impressions(from, to, placement)']_playVars

=============================================================================
