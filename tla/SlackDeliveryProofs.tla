------------------------ MODULE SlackDeliveryProofs ------------------------
(***************************************************************************)
(* Safety of SlackDelivery for any devices, pods and numbers of attempts,  *)
(* and that it implements Outages.                                         *)
(*                                                                         *)
(* What the channel reads depends on what every dispatcher is about to     *)
(* post, the ones that lost their lease included.  IInv relates them: the  *)
(* holder of the lease is past all the others, and what a dispatcher may   *)
(* post of a recovery was announced, a result that no step takes back.     *)
(***************************************************************************)
EXTENDS SlackDelivery, FiniteSetTheorems, TLAPS

Known(n) == notices[n] # "NONE"

(* Incidents are numbered without gaps, the open one is the latest, and a  *)
(* recovery is of a closed one. *)
IncidentsInRow ==
  /\ \A d \in Device, i, j \in Incident :
       Known(Off(d, i)) /\ j < i => Known(Off(d, j))
  /\ \A d \in Device, i \in Incident :
       incident[d] = i => /\ Known(Off(d, i))
                          /\ \A j \in Incident : Known(Off(d, j)) => j <= i
  /\ \A d \in Device, i \in Incident :
       Known(Rec(d, i)) => Known(Off(d, i)) /\ incident[d] # i

Busy(p) == dispatchers[p].at # "idle"

(* While the lease names a dispatcher, nobody else touches its notice. *)
ClaimsAreKnown ==
  \A p \in Dispatchers : Busy(p) =>
    /\ dispatchers[p].note \in Notice
    /\ Known(dispatchers[p].note)
    /\ lease.by = p => notices[dispatchers[p].note] = "SENDING"

MayTell(p) ==
  \/ dispatchers[p].at = "send"
  \/ dispatchers[p].at = "finish" /\ dispatchers[p].outcome = "SENT"

(* A recovery is posted, or recorded as posted, only of a sent outage. *)
ToldOfSentOnly ==
  \A p \in Dispatchers, d \in Device, i \in Incident :
    dispatchers[p].note = Rec(d, i) /\ MayTell(p) => notices[Off(d, i)] = "SENT"

ChannelIsTrue ==
  \A d \in Device :
    \/ channel[d] = 0
    \/ \E i \in Incident : channel[d] = 2 * i /\ Known(Off(d, i))
    \/ \E i \in Incident : /\ channel[d] = 2 * i + 1 /\ Known(Rec(d, i))
                           /\ notices[Off(d, i)] = "SENT"

(* Neither the channel nor any dispatcher is past level v of device d.     *)
UpTo(d, v) ==
  /\ channel[d] <= v
  /\ \A q \in Dispatchers, j \in Incident : Busy(q) =>
       /\ dispatchers[q].note = Off(d, j) => 2 * j <= v
       /\ dispatchers[q].note = Rec(d, j) => 2 * j + 1 <= v

HolderIsAhead ==
  \A p \in Dispatchers, d \in Device, i \in Incident :
    lease.by = p /\ dispatchers[p].at = "send" =>
      /\ dispatchers[p].note = Off(d, i) => UpTo(d, 2 * i)
      /\ dispatchers[p].note = Rec(d, i) => UpTo(d, 2 * i + 1)

IInv ==
  /\ TypeOK
  /\ IncidentsInRow
  /\ ClaimsAreKnown
  /\ ToldOfSentOnly
  /\ ChannelIsTrue
  /\ HolderIsAhead

-----------------------------------------------------------------------------
(* Notices and their numbers.                                              *)

(* A set of numbers without gaps holds those up to its size. *)
LEMMA NoGaps ==
  ASSUME NEW N \in Nat, NEW S \in SUBSET (1..N),
         \A i, j \in 1..N : i \in S /\ j < i => j \in S
  PROVE  /\ Cardinality(S) \in Nat
         /\ \A i \in 1..N : i \in S <=> i <= Cardinality(S)
  <1>f. IsFiniteSet(1..N) BY FS_Interval
  <1>1. IsFiniteSet(S) BY <1>f, FS_Subset
  <1>2. Cardinality(S) \in Nat BY <1>1, FS_CardinalityType
  <1>3. ASSUME NEW i \in S PROVE i <= Cardinality(S)
    <2>1. \A j \in 1..i : j \in 1..N /\ (j = i \/ j < i) BY <1>3
    <2>s. 1..i \subseteq S BY <1>3, <2>1
    <2>2. Cardinality(1..i) <= Cardinality(S) BY <1>1, <2>s, FS_Subset
    <2>3. Cardinality(1..i) = i BY <1>3, FS_Interval
    <2> QED BY <2>2, <2>3
  <1>4. ASSUME NEW i \in 1..N, i \notin S PROVE Cardinality(S) < i
    <2>1. S \subseteq 1..(i - 1) BY <1>4
    <2>2. /\ IsFiniteSet(1..(i - 1))
          /\ Cardinality(1..(i - 1)) = i - 1
      BY FS_Interval
    <2>3. Cardinality(S) <= Cardinality(1..(i - 1)) BY <2>1, <2>2, FS_Subset
    <2> QED BY <1>2, <2>2, <2>3
  <1> QED BY <1>2, <1>3, <1>4

LEMMA NoticeShapes ==
  /\ \A d \in Device, i \in Incident : Off(d, i) \in Notice /\ Rec(d, i) \in Notice
  /\ \A s \in Slots : Review(s) \in Notice
  /\ \A d, e, i, j : /\ Off(d, i) = Off(e, j) => d = e /\ i = j
                     /\ Rec(d, i) = Rec(e, j) => d = e /\ i = j
                     /\ Off(d, i) # Rec(e, j)
                     /\ Review(d) # Off(e, j) /\ Review(d) # Rec(e, j)
  /\ \A d, i : /\ Off(d, i)[1] = "OFFLINE" /\ Off(d, i)[2] = d /\ Off(d, i)[3] = i
               /\ Rec(d, i)[1] = "RECOVERED" /\ Rec(d, i)[2] = d /\ Rec(d, i)[3] = i
               /\ Review(d)[1] = "REVIEW"
  /\ \A n \in Notice : \/ \E d \in Device, i \in Incident : n = Off(d, i)
                       \/ \E d \in Device, i \in Incident : n = Rec(d, i)
                       \/ \E s \in Slots : n = Review(s)
  BY DEF Off, Rec, Review, Notice

(* A fresh incident is the first that has no notice yet. *)
LEMMA NextIsFresh ==
  ASSUME NoticesConstantsOK, NEW table, NEW d \in Device,
         \A i, j \in Incident :
           table[Off(d, i)] # "NONE" /\ j < i => table[Off(d, j)] # "NONE"
  PROVE  /\ NextIncident(table, d) \in Nat \ {0}
         /\ \A j \in Incident :
              table[Off(d, j)] # "NONE" <=> j < NextIncident(table, d)
  <1> DEFINE S == {i \in Incident : table[Off(d, i)] # "NONE"}
  <1>1. S \in SUBSET (1..MaxIncidents) BY DEF Incident
  <1>2. \A i, j \in 1..MaxIncidents : i \in S /\ j < i => j \in S BY DEF Incident
  <1>3. MaxIncidents \in Nat BY DEF NoticesConstantsOK
  <1> HIDE DEF S
  <1>4. /\ Cardinality(S) \in Nat
        /\ \A i \in 1..MaxIncidents : i \in S <=> i <= Cardinality(S)
    BY <1>1, <1>2, <1>3, NoGaps
  <1>5. NextIncident(table, d) = Cardinality(S) + 1 BY DEF NextIncident, S
  <1>6. \A j \in Incident : j \in S <=> j < NextIncident(table, d)
    BY <1>3, <1>4, <1>5 DEF Incident
  <1>7. \A j \in Incident : j \in S <=> table[Off(d, j)] # "NONE" BY DEF S
  <1> QED BY <1>4, <1>5, <1>6, <1>7

-----------------------------------------------------------------------------
(* Types. *)

LEMMA InitTypes == ASSUME NoticesConstantsOK, SlackDeliveryConstantsOK PROVE Init => TypeOK
  <1>1. Incident \subseteq Nat /\ 2 * MaxIncidents + 1 \in Nat
    BY DEF Incident, NoticesConstantsOK
  <1> QED BY <1>1
          DEF Init, TypeOK, Status, Live, Settled, Free, Idle, Dispatcher,
              SlackDeliveryConstantsOK, NoticesConstantsOK

LEMMA JobTypes ==
  ASSUME TypeOK, NoticesConstantsOK,
         \/ \E d \in Device : Opens(d) \/ \E told \in BOOLEAN : Closes(d, told)
         \/ \E s \in Slots : Remind(s)
  PROVE  TypeOK'
  <1>1. ASSUME NEW d \in Device, Opens(d) PROVE TypeOK'
    <2> DEFINE i == NextIncident(notices, d)
    <2>1. i \in Incident BY <1>1 DEF Opens
    <2>2. Off(d, i) \in Notice BY <2>1, NoticeShapes
    <2> HIDE DEF i
    <2>3. /\ incident' = [incident EXCEPT ![d] = i]
          /\ notices' = [notices EXCEPT ![Off(d, i)] = "PENDING"]
          /\ UNCHANGED delivery
      BY <1>1 DEF Opens, i
    <2> QED BY <2>1, <2>2, <2>3 DEF TypeOK, delivery, Status, Live
  <1>2. ASSUME NEW d \in Device, NEW told \in BOOLEAN, Closes(d, told) PROVE TypeOK'
    <2>1. notices' \in [Notice -> Status]
      BY <1>2 DEF Closes, TypeOK, Status, Live
    <2>2. incident' \in [Device -> Incident \cup {None}]
      BY <1>2 DEF Closes, TypeOK
    <2> QED BY <1>2, <2>1, <2>2 DEF Closes, TypeOK, delivery
  <1>3. ASSUME NEW s \in Slots, Remind(s) PROVE TypeOK'
    BY <1>3 DEF Remind, TypeOK, delivery, Status, Live
  <1> QED BY <1>1, <1>2, <1>3

LEMMA TakenIsLive ==
  ASSUME TypeOK, NEW expired \in SUBSET Waiting(notices),
         NEW n \in Takable(Expire(expired))
  PROVE  n \in Notice /\ notices[n] \in Live /\ n \notin expired
  BY DEF Takable, Waiting, Expire, Live

LEMMA ExpireTypes ==
  ASSUME TypeOK, NEW expired \in SUBSET Waiting(notices)
  PROVE  Expire(expired) \in [Notice -> Status]
  BY DEF Expire, TypeOK, Status, Settled

LEMMA ClaimTypes ==
  ASSUME TypeOK, SlackDeliveryConstantsOK, NEW p \in Dispatchers,
         NEW expired \in SUBSET Waiting(notices),
         \/ \E n \in Notice : Claim(p, n, expired) \/ ClaimExhausted(p, n, expired)
         \/ ClaimNothing(p, expired)
  PROVE  TypeOK'
  <1>1. ASSUME NEW n \in Notice, Claim(p, n, expired) PROVE TypeOK'
    <2>1. notices' \in [Notice -> Status]
      BY <1>1, ExpireTypes DEF Claim, Status, Live
    <2>2. attempts' \in [Notice -> 0..MaxAttempts]
      BY <1>1 DEF Claim, Exhausted, TypeOK, SlackDeliveryConstantsOK
    <2>3. dispatchers' \in [Dispatchers -> Dispatcher]
      BY <1>1 DEF Claim, TypeOK, Dispatcher, Settled
    <2> QED BY <1>1, <2>1, <2>2, <2>3 DEF Claim, TypeOK
  <1>2. ASSUME NEW n \in Notice, ClaimExhausted(p, n, expired) PROVE TypeOK'
    <2>1. notices' \in [Notice -> Status]
      BY <1>2, ExpireTypes DEF ClaimExhausted, Status, Settled
    <2> QED BY <1>2, <2>1 DEF ClaimExhausted, TypeOK, Free
  <1>3. ASSUME ClaimNothing(p, expired) PROVE TypeOK'
    BY <1>3, ExpireTypes DEF ClaimNothing, TypeOK, Free
  <1> QED BY <1>1, <1>2, <1>3

LEMMA GoesTypes ==
  ASSUME TypeOK, NEW p \in Dispatchers, NEW at \in {"send", "finish"},
         NEW outcome \in {"SENT", "FAILED", "CANCELED", Retry(p)}, Goes(p, at, outcome)
  PROVE  dispatchers' \in [Dispatchers -> Dispatcher]
  <1>1. outcome \in Settled \cup {"PENDING"} BY DEF Settled, Retry
  <1>2. dispatchers[p] \in Dispatcher BY DEF TypeOK
  <1>3. [dispatchers[p] EXCEPT !.at = at, !.outcome = outcome] \in Dispatcher
    BY <1>1, <1>2 DEF Dispatcher
  <1>4. dispatchers' = [dispatchers EXCEPT ![p] =
                          [dispatchers[p] EXCEPT !.at = at, !.outcome = outcome]]
    BY DEF Goes, TypeOK
  <1> QED BY <1>3, <1>4 DEF TypeOK

(* What a post adds to the channel, by the notice it is of. *)
LEMMA PostSays ==
  ASSUME NEW p \in Dispatchers, Posts(p)
  PROVE  /\ \A d \in Device, i \in Incident : dispatchers[p].note = Off(d, i) =>
              channel' = [channel EXCEPT ![d] = 2 * i]
         /\ \A d \in Device, i \in Incident : dispatchers[p].note = Rec(d, i) =>
              channel' = [channel EXCEPT ![d] = 2 * i + 1]
         /\ \A s \in Slots : dispatchers[p].note = Review(s) => channel' = channel
  <1> DEFINE n == dispatchers[p].note
  <1>1. channel' = CASE n[1] = "OFFLINE"   -> [channel EXCEPT ![n[2]] = 2 * n[3]]
                     [] n[1] = "RECOVERED" -> [channel EXCEPT ![n[2]] = 2 * n[3] + 1]
                     [] n[1] = "REVIEW"    -> channel
    BY DEF Posts
  <1> HIDE DEF n
  <1>2. ASSUME NEW d \in Device, NEW i \in Incident, n = Off(d, i)
        PROVE  channel' = [channel EXCEPT ![d] = 2 * i]
    <2>1. n[1] = "OFFLINE" /\ n[2] = d /\ n[3] = i BY <1>2 DEF Off
    <2> QED BY <1>1, <2>1
  <1>3. ASSUME NEW d \in Device, NEW i \in Incident, n = Rec(d, i)
        PROVE  channel' = [channel EXCEPT ![d] = 2 * i + 1]
    <2>1. n[1] = "RECOVERED" /\ n[2] = d /\ n[3] = i BY <1>3 DEF Rec
    <2> QED BY <1>1, <2>1
  <1>4. ASSUME NEW s \in Slots, n = Review(s) PROVE channel' = channel
    <2>1. n[1] = "REVIEW" BY <1>4 DEF Review
    <2> QED BY <1>1, <2>1
  <1> QED BY <1>2, <1>3, <1>4 DEF n

LEMMA WorkTypes ==
  ASSUME TypeOK, ClaimsAreKnown, NoticesConstantsOK, NEW p \in Dispatchers,
         Works(p) \/ Dies(p)
  PROVE  TypeOK'
  <1>1. CASE Check(p)
    <2>1. dispatchers' \in [Dispatchers -> Dispatcher]
      BY <1>1, GoesTypes DEF Check
    <2> QED BY <1>1, <2>1 DEF Check, TypeOK
  <1>2. CASE Posts(p)
    <2>1. dispatchers' \in [Dispatchers -> Dispatcher]
      BY <1>2, GoesTypes DEF Posts
    <2>2. channel' \in [Device -> 0..(2 * MaxIncidents + 1)]
      <3>1. dispatchers[p].note \in Notice
        BY <1>2 DEF ClaimsAreKnown, Busy, Posts
      <3>2. \A i \in Incident : 2 * i + 1 \in 0..(2 * MaxIncidents + 1)
                                /\ 2 * i \in 0..(2 * MaxIncidents + 1)
        BY DEF Incident, NoticesConstantsOK
      <3> QED BY <1>2, <3>1, <3>2, NoticeShapes, PostSays DEF TypeOK
    <2> QED BY <1>2, <2>1, <2>2 DEF Posts, TypeOK
  <1>3. CASE PostFails(p)
    <2>1. dispatchers' \in [Dispatchers -> Dispatcher]
      BY <1>3, GoesTypes DEF PostFails
    <2> QED BY <1>3, <2>1 DEF PostFails, TypeOK
  <1>4. CASE Finish(p)
    <2>1. dispatchers[p].outcome \in Status
      BY DEF TypeOK, Dispatcher, Status, Live
    <2>2. notices' \in [Notice -> Status]
      BY <1>4, <2>1 DEF Finish, TypeOK
    <2>3. dispatchers' \in [Dispatchers -> Dispatcher]
      BY <1>4 DEF Finish, TypeOK, Idle, Dispatcher, Settled
    <2> QED BY <1>4, <2>2, <2>3 DEF Finish, TypeOK, Free
  <1>5. CASE Dies(p)
    BY <1>5 DEF Dies, TypeOK, Idle, Dispatcher, Settled
  <1> QED BY <1>1, <1>2, <1>3, <1>4, <1>5 DEF Works

LEMMA LeaseTypes == ASSUME TypeOK, LeaseRunsOut PROVE TypeOK'
  BY DEF LeaseRunsOut, TypeOK

-----------------------------------------------------------------------------
(* What a step does to the table of notices, and to the dispatchers.       *)

JobStep ==
  \/ \E d \in Device : Opens(d) \/ \E told \in BOOLEAN : Closes(d, told)
  \/ \E s \in Slots : Remind(s)

TakeStep(p) ==
  \E expired \in SUBSET Waiting(notices) :
    \/ \E n \in Notice : Claim(p, n, expired) \/ ClaimExhausted(p, n, expired)
    \/ ClaimNothing(p, expired)

WorkStep(p) == Works(p) \/ Dies(p)

LEMMA StepKinds ==
  ASSUME Next
  PROVE  \/ JobStep
         \/ \E p \in Dispatchers : TakeStep(p) \/ WorkStep(p)
         \/ LeaseRunsOut
  BY DEF Next, JobStep, TakeStep, WorkStep, Takes

(* The jobs insert notices and change none. *)
Inserts ==
  \A n \in Notice : notices'[n] # notices[n] =>
    notices[n] = "NONE" /\ notices'[n] = "PENDING"

(* Delivery inserts none, and touches none that has a result. *)
Delivers ==
  \A n \in Notice : notices'[n] # notices[n] =>
    notices[n] \in Live /\ notices'[n] \in Live \cup Settled

LEMMA JobsInsert ==
  ASSUME IInv, NoticesConstantsOK, JobStep
  PROVE  Inserts
  <1> USE DEF IInv
  <1>1. ASSUME NEW d \in Device, Opens(d) PROVE Inserts
    <2> DEFINE i == NextIncident(notices, d)
    <2>1. i \in Incident /\ notices' = [notices EXCEPT ![Off(d, i)] = "PENDING"]
      BY <1>1 DEF Opens
    <2>2. i < i <=> notices[Off(d, i)] # "NONE"
      BY <2>1, NextIsFresh DEF IncidentsInRow, Known
    <2>3. i \in Nat BY <2>1, NoticesConstantsOK DEF Incident
    <2> HIDE DEF i
    <2>4. notices[Off(d, i)] = "NONE" BY <2>2, <2>3
    <2> QED BY <2>1, <2>4, NoticeShapes DEF TypeOK, Inserts
  <1>2. ASSUME NEW d \in Device, NEW told \in BOOLEAN, Closes(d, told) PROVE Inserts
    <2> DEFINE i == incident[d]
    <2>1. i \in Incident BY <1>2 DEF Closes, TypeOK
    <2>2. \/ UNCHANGED notices
          \/ notices' = [notices EXCEPT ![Rec(d, i)] = "PENDING"]
      BY <1>2 DEF Closes
    <2>3. notices[Rec(d, i)] = "NONE" BY <2>1 DEF IncidentsInRow, Known
    <2> HIDE DEF i
    <2> QED BY <2>1, <2>2, <2>3, NoticeShapes DEF TypeOK, Inserts
  <1>3. ASSUME NEW s \in Slots, Remind(s) PROVE Inserts
    BY <1>3, NoticeShapes DEF Remind, TypeOK, Inserts
  <1> QED BY <1>1, <1>2, <1>3 DEF JobStep

LEMMA TakesDeliver ==
  ASSUME TypeOK, NEW p \in Dispatchers, TakeStep(p)
  PROVE  Delivers
  <1> PICK expired \in SUBSET Waiting(notices) :
        \/ \E n \in Notice : Claim(p, n, expired) \/ ClaimExhausted(p, n, expired)
        \/ ClaimNothing(p, expired)
    BY DEF TakeStep
  <1>1. \A n \in Notice : Expire(expired)[n] # notices[n] =>
                           notices[n] \in Live /\ Expire(expired)[n] = "CANCELED"
    BY DEF Expire, Waiting
  <1>2. Expire(expired) \in [Notice -> Status] BY ExpireTypes
  <1>3. ASSUME NEW n \in Notice, Claim(p, n, expired) \/ ClaimExhausted(p, n, expired)
        PROVE  Delivers
    <2>1. notices[n] \in Live BY <1>3, TakenIsLive DEF Claim, ClaimExhausted
    <2>2. PICK what \in {"SENDING", "FAILED"} :
            notices' = [Expire(expired) EXCEPT ![n] = what]
      BY <1>3 DEF Claim, ClaimExhausted
    <2> QED BY <1>1, <1>2, <2>1, <2>2 DEF Delivers, Live, Settled
  <1>4. ASSUME ClaimNothing(p, expired) PROVE Delivers
    BY <1>1, <1>4 DEF ClaimNothing, Delivers, Settled
  <1> QED BY <1>3, <1>4

(* Only a result of the holder's reaches the table, and of its own notice. *)
LEMMA WorksDeliver ==
  ASSUME TypeOK, ClaimsAreKnown, NEW p \in Dispatchers, WorkStep(p)
  PROVE  /\ Delivers
         /\ UNCHANGED notices \/ (lease.by = p /\ lease'.by = NoOne)
  <1>1. CASE Finish(p) /\ Mine(p)
    <2> DEFINE n == dispatchers[p].note
    <2>1. n \in Notice /\ notices[n] = "SENDING"
      BY <1>1 DEF Finish, Mine, ClaimsAreKnown, Busy
    <2>2. notices' = [notices EXCEPT ![n] = dispatchers[p].outcome]
      BY <1>1 DEF Finish
    <2>3. dispatchers[p].outcome \in Live \cup Settled
      BY DEF TypeOK, Dispatcher, Live
    <2>4. lease.by = p /\ lease' = Free BY <1>1 DEF Finish, Mine
    <2> HIDE DEF n
    <2> QED BY <2>1, <2>2, <2>3, <2>4 DEF Delivers, TypeOK, Free, Live
  <1>2. CASE UNCHANGED notices BY <1>2 DEF Delivers
  <1> QED BY <1>1, <1>2 DEF WorkStep, Works, Check, Posts, PostFails, Finish, Dies

LEMMA TableMoves ==
  ASSUME IInv, NoticesConstantsOK, Next
  PROVE  /\ Inserts \/ Delivers
         /\ \A n \in Notice : Known(n) => Known(n)'
         /\ \A n \in Notice : notices[n] \in Settled => notices'[n] = notices[n]
  <1>1. CASE JobStep
    <2>1. Inserts BY <1>1, JobsInsert
    <2> QED BY <2>1 DEF Inserts, Known, Settled
  <1>2. CASE \E p \in Dispatchers : TakeStep(p) \/ WorkStep(p)
    <2>1. Delivers BY <1>2, TakesDeliver, WorksDeliver DEF IInv
    <2> QED BY <2>1 DEF Delivers, Known, Live, Settled
  <1>3. CASE LeaseRunsOut
    BY <1>3 DEF LeaseRunsOut, Inserts, Known
  <1> QED BY <1>1, <1>2, <1>3, StepKinds

(* Outside the jobs the incidents stay, and which notices there are.       *)
LEMMA DeliveryKeeps ==
  ASSUME IInv, NoticesConstantsOK, Next, ~JobStep
  PROVE  UNCHANGED incident /\ \A n \in Notice : Known(n)' <=> Known(n)
  <1>1. UNCHANGED incident
    BY StepKinds DEF TakeStep, WorkStep, Works, Claim, ClaimExhausted, ClaimNothing, Check,
                     Posts, PostFails, Finish, Dies, LeaseRunsOut
  <1>2. CASE LeaseRunsOut BY <1>1, <1>2 DEF LeaseRunsOut, Known
  <1>3. CASE Delivers BY <1>1, <1>3 DEF Delivers, Known, Live, Settled
  <1> QED BY <1>2, <1>3, StepKinds, TakesDeliver, WorksDeliver DEF IInv

-----------------------------------------------------------------------------
(* The invariant, conjunct by conjunct.                                    *)

LEMMA IncidentsStep ==
  ASSUME IInv, NoticesConstantsOK, Next, TypeOK' PROVE IncidentsInRow'
  <1> USE DEF IInv
  <1>0. Incident \subseteq Nat BY NoticesConstantsOK DEF Incident
  <1>1. ASSUME NEW d \in Device, Opens(d) PROVE IncidentsInRow'
    <2> DEFINE i == NextIncident(notices, d)
    <2>1. /\ i \in Incident /\ incident' = [incident EXCEPT ![d] = i]
          /\ notices' = [notices EXCEPT ![Off(d, i)] = "PENDING"]
      BY <1>1 DEF Opens
    <2>2. \A j \in Incident : Known(Off(d, j)) <=> j < i
      BY NextIsFresh DEF IncidentsInRow, Known
    <2> HIDE DEF i
    <2>3. \A e \in Device, j \in Incident :
            /\ Known(Off(e, j))' <=> Known(Off(e, j)) \/ (e = d /\ j = i)
            /\ Known(Rec(e, j))' <=> Known(Rec(e, j))
      BY <2>1, NoticeShapes DEF Known, TypeOK
    <2>4. \A e \in Device : e # d => incident'[e] = incident[e]
      BY <2>1 DEF TypeOK
    <2>5. incident'[d] = i BY <2>1 DEF TypeOK
    <2>6. \A e \in Device, j, k \in Incident :
            Known(Off(e, j))' /\ k < j => Known(Off(e, k))'
      BY <1>0, <2>1, <2>2, <2>3 DEF IncidentsInRow
    <2>7. \A e \in Device, j \in Incident : incident'[e] = j =>
            Known(Off(e, j))' /\ \A k \in Incident : Known(Off(e, k))' => k <= j
      BY <1>0, <2>1, <2>2, <2>3, <2>4, <2>5 DEF IncidentsInRow
    <2>8. \A e \in Device, j \in Incident : Known(Rec(e, j))' =>
            Known(Off(e, j))' /\ incident'[e] # j
      BY <1>0, <2>1, <2>2, <2>3, <2>4, <2>5 DEF IncidentsInRow
    <2> QED BY <2>6, <2>7, <2>8 DEF IncidentsInRow
  <1>2. ASSUME NEW d \in Device, NEW told \in BOOLEAN, Closes(d, told)
        PROVE  IncidentsInRow'
    <2> DEFINE i == incident[d]
    <2>1. i \in Incident BY <1>2 DEF Closes, TypeOK
    <2>2. \/ UNCHANGED notices
          \/ notices' = [notices EXCEPT ![Rec(d, i)] = "PENDING"]
      BY <1>2 DEF Closes
    <2>3. incident' = [incident EXCEPT ![d] = None] BY <1>2 DEF Closes
    <2>4. Known(Off(d, i)) BY <2>1 DEF IncidentsInRow
    <2> HIDE DEF i
    <2>5. \A e \in Device, j \in Incident :
            /\ Known(Off(e, j))' <=> Known(Off(e, j))
            /\ Known(Rec(e, j))' => Known(Rec(e, j)) \/ (e = d /\ j = i)
      BY <2>1, <2>2, NoticeShapes DEF Known, TypeOK
    <2>6. None \notin Incident BY DEF None, Incident
    <2>7. /\ incident'[d] = None
          /\ \A e \in Device : e # d => incident'[e] = incident[e]
      BY <2>3 DEF TypeOK
    <2> QED BY <2>4, <2>5, <2>6, <2>7 DEF IncidentsInRow
  <1>3. ASSUME NEW s \in Slots, Remind(s) PROVE IncidentsInRow'
    <2>1. \A e \in Device, j \in Incident :
            /\ notices'[Off(e, j)] = notices[Off(e, j)]
            /\ notices'[Rec(e, j)] = notices[Rec(e, j)]
      BY <1>3, NoticeShapes DEF Remind, TypeOK
    <2> QED BY <1>3, <2>1 DEF Remind, IncidentsInRow, Known
  <1>4. CASE ~JobStep
    BY <1>4, DeliveryKeeps, NoticeShapes DEF IncidentsInRow
  <1> QED BY <1>1, <1>2, <1>3, <1>4 DEF JobStep

(* The moves of one dispatcher. *)
DispatcherMove(x, y) ==
  \/ y = x
  \/ y.at = "idle"
  \/ /\ y.at = "send" /\ x.at = "check" /\ y.note = x.note
     /\ MayBeRelevant(x.note)
  \/ /\ y.at = "finish" /\ x.at = "check" /\ y.note = x.note
     /\ y.outcome # "SENT"
  \/ y.at = "finish" /\ x.at = "send" /\ y.note = x.note

LEMMA WorkersMove ==
  ASSUME TypeOK, NEW p \in Dispatchers, WorkStep(p)
  PROVE  /\ DispatcherMove(dispatchers[p], dispatchers'[p])
         /\ \A q \in Dispatchers \ {p} : dispatchers'[q] = dispatchers[q]
         /\ lease'.by = lease.by \/ (lease.by = p /\ lease'.by = NoOne)
  <1>t. dispatchers[p] \in Dispatcher BY DEF TypeOK
  <1>r. Retry(p) \in {"PENDING", "FAILED"} BY DEF Retry
  <1>1. CASE Check(p)
    BY <1>1, <1>r DEF Check, Goes, TypeOK, DispatcherMove, Dispatcher
  <1>2. CASE Posts(p)
    BY <1>2 DEF Posts, Goes, TypeOK, DispatcherMove, Dispatcher
  <1>3. CASE PostFails(p)
    BY <1>3 DEF PostFails, Goes, TypeOK, DispatcherMove, Dispatcher
  <1>4. CASE Finish(p)
    BY <1>4 DEF Finish, Mine, TypeOK, DispatcherMove, Idle, Free
  <1>5. CASE Dies(p)
    BY <1>5 DEF Dies, TypeOK, DispatcherMove, Idle
  <1> QED BY <1>1, <1>2, <1>3, <1>4, <1>5 DEF WorkStep, Works

LEMMA TakersMove ==
  ASSUME TypeOK, NEW p \in Dispatchers, TakeStep(p)
  PROVE  /\ dispatchers[p].at = "idle" /\ UNCHANGED channel
         /\ \A q \in Dispatchers \ {p} : dispatchers'[q] = dispatchers[q]
         /\ \/ UNCHANGED dispatchers /\ lease'.by = NoOne
            \/ /\ lease'.by = p /\ dispatchers'[p].at = "check"
               /\ dispatchers'[p].note \in Notice
               /\ Known(dispatchers'[p].note)
               /\ notices'[dispatchers'[p].note] = "SENDING"
  <1> PICK expired \in SUBSET Waiting(notices) :
        \/ \E n \in Notice : Claim(p, n, expired) \/ ClaimExhausted(p, n, expired)
        \/ ClaimNothing(p, expired)
    BY DEF TakeStep
  <1>1. ASSUME NEW n \in Notice, Claim(p, n, expired)
        PROVE  /\ lease'.by = p /\ dispatchers'[p].at = "check"
               /\ dispatchers'[p].note = n /\ Known(n) /\ notices'[n] = "SENDING"
               /\ \A q \in Dispatchers \ {p} : dispatchers'[q] = dispatchers[q]
    <2>1. Known(n) BY <1>1, TakenIsLive DEF Claim, Known, Live
    <2>2. notices'[n] = "SENDING" BY <1>1, ExpireTypes DEF Claim
    <2> QED BY <1>1, <2>1, <2>2 DEF Claim, TypeOK
  <1> QED BY <1>1 DEF Claim, ClaimExhausted, ClaimNothing, CanClaim, Free

LEMMA ClaimsStep ==
  ASSUME IInv, NoticesConstantsOK, SlackDeliveryConstantsOK, Next, TypeOK'
  PROVE  ClaimsAreKnown'
  <1> USE DEF IInv
  <1>k. \A n \in Notice : Known(n) => Known(n)' BY TableMoves
  <1>1. CASE JobStep
    <2>1. Inserts BY <1>1, JobsInsert
    <2>2. UNCHANGED delivery BY <1>1 DEF JobStep, Opens, Closes, Remind
    <2>3. \A n \in Notice : notices[n] = "SENDING" => notices'[n] = "SENDING"
      BY <2>1 DEF Inserts
    <2> QED BY <1>k, <2>2, <2>3 DEF delivery, ClaimsAreKnown, Busy
  <1>2. ASSUME NEW p \in Dispatchers, TakeStep(p) PROVE ClaimsAreKnown'
    <2> SUFFICES ASSUME NEW q \in Dispatchers, Busy(q)'
                 PROVE  /\ dispatchers'[q].note \in Notice
                        /\ Known(dispatchers[q].note)'
                        /\ lease'.by = q => notices'[dispatchers'[q].note] = "SENDING"
      BY DEF ClaimsAreKnown, Known
    <2>1. CASE q = p
      BY <1>2, <2>1, <1>k, TakersMove DEF Busy, Known, SlackDeliveryConstantsOK
    <2>2. CASE q # p
      <3>1. dispatchers'[q] = dispatchers[q] /\ lease'.by # q
        BY <1>2, <2>2, TakersMove DEF SlackDeliveryConstantsOK
      <3>2. Busy(q) BY <3>1 DEF Busy
      <3> QED BY <3>1, <3>2, <1>k DEF ClaimsAreKnown, Known
    <2> QED BY <2>1, <2>2
  <1>3. ASSUME NEW p \in Dispatchers, WorkStep(p) PROVE ClaimsAreKnown'
    <2> SUFFICES ASSUME NEW q \in Dispatchers, Busy(q)'
                 PROVE  /\ dispatchers'[q].note \in Notice
                        /\ Known(dispatchers[q].note)'
                        /\ lease'.by = q => notices'[dispatchers'[q].note] = "SENDING"
      BY DEF ClaimsAreKnown, Known
    <2>1. Busy(q) /\ dispatchers'[q].note = dispatchers[q].note
      BY <1>3, WorkersMove DEF DispatcherMove, Busy
    <2>2. lease'.by = q => lease.by = q /\ UNCHANGED notices
      BY <1>3, WorkersMove, WorksDeliver DEF SlackDeliveryConstantsOK
    <2> QED BY <2>1, <2>2, <1>k DEF ClaimsAreKnown, Known
  <1>4. CASE LeaseRunsOut
    BY <1>4 DEF LeaseRunsOut, ClaimsAreKnown, Busy, Known, TypeOK
  <1> QED BY <1>1, <1>2, <1>3, <1>4, StepKinds

LEMMA ToldStep ==
  ASSUME IInv, NoticesConstantsOK, Next PROVE ToldOfSentOnly'
  <1> USE DEF IInv
  <1>s. \A d \in Device, i \in Incident :
          notices[Off(d, i)] = "SENT" => notices'[Off(d, i)] = "SENT"
    BY TableMoves, NoticeShapes DEF Settled
  <1> SUFFICES ASSUME NEW q \in Dispatchers, NEW d \in Device, NEW i \in Incident,
                      dispatchers'[q].note = Rec(d, i), MayTell(q)'
               PROVE  notices'[Off(d, i)] = "SENT"
    BY DEF ToldOfSentOnly
  <1>1. CASE dispatchers'[q] = dispatchers[q]
    BY <1>1, <1>s DEF ToldOfSentOnly, MayTell
  <1>2. CASE DispatcherMove(dispatchers[q], dispatchers'[q])
    <2>1. CASE dispatchers[q].at = "check"
      <3>1. dispatchers[q].note = Rec(d, i) /\ MayBeRelevant(Rec(d, i))
        BY <1>1, <1>2, <2>1 DEF DispatcherMove, MayTell
      <3>2. Rec(d, i)[1] = "RECOVERED" /\ Rec(d, i)[2] = d /\ Rec(d, i)[3] = i
        BY DEF Rec
      <3>3. Announced(d, i) BY <3>1, <3>2 DEF MayBeRelevant
      <3> QED BY <3>3, <1>s DEF Announced
    <2>2. CASE dispatchers[q].at = "send"
      <3>1. dispatchers[q].note = Rec(d, i)
        BY <1>1, <1>2, <2>2 DEF DispatcherMove, MayTell
      <3> QED BY <2>2, <3>1, <1>s DEF ToldOfSentOnly, MayTell
    <2> QED BY <1>1, <1>2, <2>1, <2>2 DEF DispatcherMove, MayTell
  <1>3. CASE dispatchers'[q].at = "check"
    BY <1>3 DEF MayTell
  <1>4. CASE UNCHANGED dispatchers
    BY <1>1, <1>4
  <1>5. JobStep \/ LeaseRunsOut => UNCHANGED dispatchers
    BY DEF JobStep, Opens, Closes, Remind, delivery, LeaseRunsOut
  <1>6. ASSUME NEW p \in Dispatchers, TakeStep(p)
        PROVE  dispatchers'[q] = dispatchers[q] \/ dispatchers'[q].at = "check"
    BY <1>6, TakersMove
  <1>7. ASSUME NEW p \in Dispatchers, WorkStep(p)
        PROVE  dispatchers'[q] = dispatchers[q]
               \/ DispatcherMove(dispatchers[q], dispatchers'[q])
    BY <1>7, WorkersMove
  <1> QED BY <1>1, <1>2, <1>3, <1>4, <1>5, <1>6, <1>7, StepKinds

LEMMA OnlyPostsWrite ==
  ASSUME TypeOK, Next
  PROVE  UNCHANGED channel \/ \E p \in Dispatchers : Posts(p)
  BY StepKinds, TakersMove
     DEF JobStep, Opens, Closes, Remind, delivery, WorkStep, Works, Check, PostFails,
         Finish, Dies, LeaseRunsOut

LEMMA ChannelStep ==
  ASSUME IInv, NoticesConstantsOK, Next PROVE ChannelIsTrue'
  <1> USE DEF IInv
  <1>1. \A d \in Device, i \in Incident :
          /\ Known(Off(d, i)) => Known(Off(d, i))'
          /\ Known(Rec(d, i)) => Known(Rec(d, i))'
          /\ notices[Off(d, i)] = "SENT" => notices'[Off(d, i)] = "SENT"
    BY TableMoves, NoticeShapes DEF Settled
  <1>2. CASE UNCHANGED channel BY <1>1, <1>2 DEF ChannelIsTrue
  <1>3. ASSUME NEW p \in Dispatchers, Posts(p) PROVE ChannelIsTrue'
    <2>1. /\ dispatchers[p].at = "send" /\ dispatchers[p].note \in Notice
          /\ Known(dispatchers[p].note)
      BY <1>3 DEF Posts, ClaimsAreKnown, Busy
    <2>2. CASE \E d \in Device, i \in Incident : dispatchers[p].note = Off(d, i)
      <3>1. PICK d \in Device, i \in Incident : dispatchers[p].note = Off(d, i)
        BY <2>2
      <3>2. channel' = [channel EXCEPT ![d] = 2 * i] BY <1>3, <3>1, PostSays
      <3>3. Known(Off(d, i))' BY <2>1, <3>1, <1>1
      <3> QED BY <3>2, <3>3, <1>1 DEF ChannelIsTrue, TypeOK
    <2>3. CASE \E d \in Device, i \in Incident : dispatchers[p].note = Rec(d, i)
      <3>1. PICK d \in Device, i \in Incident : dispatchers[p].note = Rec(d, i)
        BY <2>3
      <3>2. channel' = [channel EXCEPT ![d] = 2 * i + 1] BY <1>3, <3>1, PostSays
      <3>3. Known(Rec(d, i))' BY <2>1, <3>1, <1>1
      <3>4. notices'[Off(d, i)] = "SENT"
        BY <2>1, <3>1, <1>1 DEF ToldOfSentOnly, MayTell
      <3> QED BY <3>2, <3>3, <3>4, <1>1 DEF ChannelIsTrue, TypeOK
    <2>4. CASE \E s \in Slots : dispatchers[p].note = Review(s)
      BY <1>3, <2>4, <1>2, PostSays
    <2> QED BY <2>1, <2>2, <2>3, <2>4, NoticeShapes
  <1> QED BY <1>2, <1>3, OnlyPostsWrite

(* No dispatcher and no post is past the notices that exist. *)
LEMMA KnownIsUpTo ==
  ASSUME IInv, NEW d \in Device, NEW v \in Nat,
         \A j \in Incident : /\ Known(Off(d, j)) => 2 * j <= v
                             /\ Known(Rec(d, j)) => 2 * j + 1 <= v
  PROVE  UpTo(d, v)
  <1>1. channel[d] <= v
    BY DEF IInv, ChannelIsTrue
  <1>2. ASSUME NEW q \in Dispatchers, NEW j \in Incident, Busy(q)
        PROVE  /\ dispatchers[q].note = Off(d, j) => 2 * j <= v
               /\ dispatchers[q].note = Rec(d, j) => 2 * j + 1 <= v
    <2>1. Known(dispatchers[q].note) BY <1>2 DEF IInv, ClaimsAreKnown
    <2> QED BY <2>1
  <1> QED BY <1>1, <1>2 DEF UpTo

(* A notice that passes the check is the last there is of its device.      *)
LEMMA RelevantIsLast ==
  ASSUME IInv, NoticesConstantsOK, NEW d \in Device, NEW i \in Incident
  PROVE  /\ MayBeRelevant(Off(d, i)) => UpTo(d, 2 * i)
         /\ MayBeRelevant(Rec(d, i)) => UpTo(d, 2 * i + 1)
  <1> USE DEF IInv
  <1>0. Incident \subseteq Nat BY NoticesConstantsOK DEF Incident
  <1>1. ASSUME MayBeRelevant(Off(d, i)) PROVE UpTo(d, 2 * i)
    <2>1. Off(d, i)[1] = "OFFLINE" /\ Off(d, i)[2] = d /\ Off(d, i)[3] = i
      BY DEF Off
    <2>2. incident[d] = i BY <1>1, <2>1 DEF MayBeRelevant
    <2>3. \A j \in Incident : /\ Known(Off(d, j)) => j <= i
                              /\ Known(Rec(d, j)) => j <= i /\ j # i
      BY <2>2 DEF IncidentsInRow
    <2>4. \A j \in Incident : /\ Known(Off(d, j)) => 2 * j <= 2 * i
                              /\ Known(Rec(d, j)) => 2 * j + 1 <= 2 * i
      BY <1>0, <2>3
    <2> QED BY <1>0, <2>4, KnownIsUpTo
  <1>2. ASSUME MayBeRelevant(Rec(d, i)) PROVE UpTo(d, 2 * i + 1)
    <2>1. Rec(d, i)[1] = "RECOVERED" /\ Rec(d, i)[2] = d /\ Rec(d, i)[3] = i
      BY DEF Rec
    <2>2. Announced(d, i) BY <1>2, <2>1 DEF MayBeRelevant
    <2>3. \A j \in Incident : /\ Known(Off(d, j)) => j <= i
                              /\ Known(Rec(d, j)) => j <= i
      BY <2>2 DEF IncidentsInRow, Announced, Known
    <2>4. \A j \in Incident : /\ Known(Off(d, j)) => 2 * j <= 2 * i + 1
                              /\ Known(Rec(d, j)) => 2 * j + 1 <= 2 * i + 1
      BY <1>0, <2>3
    <2> QED BY <1>0, <2>4, KnownIsUpTo
  <1> QED BY <1>1, <1>2

(* A post writes no more than what its dispatcher was up to. *)
LEMMA PostsKeepLevel ==
  ASSUME IInv, NoticesConstantsOK, NEW r \in Dispatchers, Posts(r),
         NEW d \in Device, NEW v, UpTo(d, v)
  PROVE  channel'[d] <= v
  <1>1. /\ dispatchers[r].at = "send" /\ Busy(r) /\ dispatchers[r].note \in Notice
    BY DEF IInv, Posts, ClaimsAreKnown, Busy
  <1>2. CASE \E e \in Device, i \in Incident : dispatchers[r].note = Off(e, i)
    BY <1>1, <1>2, PostSays DEF IInv, TypeOK, UpTo
  <1>3. CASE \E e \in Device, i \in Incident : dispatchers[r].note = Rec(e, i)
    BY <1>1, <1>3, PostSays DEF IInv, TypeOK, UpTo
  <1>4. CASE \E s \in Slots : dispatchers[r].note = Review(s)
    BY <1>1, <1>4, PostSays DEF UpTo
  <1> QED BY <1>1, <1>2, <1>3, <1>4, NoticeShapes

LEMMA HolderStep ==
  ASSUME IInv, NoticesConstantsOK, SlackDeliveryConstantsOK, Next
  PROVE  HolderIsAhead'
  <1> USE DEF IInv
  <1>1. CASE JobStep \/ LeaseRunsOut
    <2>1. UNCHANGED <<dispatchers, channel>> /\ lease'.by = lease.by
      BY <1>1 DEF JobStep, Opens, Closes, Remind, delivery, LeaseRunsOut, TypeOK
    <2> QED BY <2>1 DEF HolderIsAhead, UpTo, Busy
  <1>2. ASSUME NEW p \in Dispatchers, TakeStep(p) PROVE HolderIsAhead'
    <2>1. \A q \in Dispatchers : lease'.by = q => dispatchers'[q].at = "check"
      BY <1>2, TakersMove DEF SlackDeliveryConstantsOK
    <2> QED BY <2>1 DEF HolderIsAhead
  <1>3. ASSUME NEW r \in Dispatchers, WorkStep(r) PROVE HolderIsAhead'
    <2>1. \A q \in Dispatchers : Busy(q)' =>
            Busy(q) /\ dispatchers'[q].note = dispatchers[q].note
      BY <1>3, WorkersMove DEF DispatcherMove, Busy
    <2>2. UNCHANGED channel \/ Posts(r)
      BY <1>3 DEF WorkStep, Works, Check, PostFails, Finish, Dies
    <2>3. ASSUME NEW d \in Device, NEW v, UpTo(d, v) PROVE UpTo(d, v)'
      <3>1. channel'[d] <= v BY <2>2, <2>3, PostsKeepLevel DEF UpTo
      <3> QED BY <3>1, <2>1, <2>3 DEF UpTo
    <2>4. SUFFICES ASSUME NEW p \in Dispatchers, NEW d \in Device, NEW i \in Incident,
                          lease'.by = p, dispatchers'[p].at = "send"
                   PROVE  /\ dispatchers[p].note = Off(d, i) => UpTo(d, 2 * i)
                          /\ dispatchers[p].note = Rec(d, i) => UpTo(d, 2 * i + 1)
      <3>1. \A p \in Dispatchers : dispatchers'[p].at = "send" =>
              dispatchers'[p].note = dispatchers[p].note
        BY <2>1 DEF Busy
      <3> QED BY <2>3, <3>1 DEF HolderIsAhead
    <2>5. lease.by = p
      BY <1>3, <2>4, WorkersMove DEF SlackDeliveryConstantsOK
    <2>6. CASE dispatchers[p].at = "send"
      BY <2>5, <2>6 DEF HolderIsAhead
    <2>7. CASE dispatchers[p].at # "send"
      <3>1. MayBeRelevant(dispatchers[p].note)
        BY <1>3, <2>4, <2>7, WorkersMove DEF DispatcherMove
      <3> QED BY <3>1, RelevantIsLast
    <2> QED BY <2>6, <2>7
  <1> QED BY <1>1, <1>2, <1>3, StepKinds

LEMMA StepTypes ==
  ASSUME IInv, NoticesConstantsOK, SlackDeliveryConstantsOK, Next PROVE TypeOK'
  <1>1. CASE JobStep BY <1>1, JobTypes DEF IInv, JobStep
  <1>2. ASSUME NEW p \in Dispatchers, TakeStep(p) PROVE TypeOK'
    BY <1>2, ClaimTypes DEF IInv, TakeStep
  <1>3. ASSUME NEW p \in Dispatchers, WorkStep(p) PROVE TypeOK'
    BY <1>3, WorkTypes DEF IInv, WorkStep
  <1>4. CASE LeaseRunsOut BY <1>4, LeaseTypes DEF IInv
  <1> QED BY <1>1, <1>2, <1>3, <1>4, StepKinds

LEMMA Invariant ==
  ASSUME NoticesConstantsOK, SlackDeliveryConstantsOK PROVE Spec => []IInv
  <1>1. Init => IInv
    <2> SUFFICES ASSUME Init PROVE IInv OBVIOUS
    <2>1. TypeOK BY InitTypes
    <2>2. \A n \in Notice : ~Known(n) BY DEF Init, Known
    <2>3. \A p \in Dispatchers : ~Busy(p) /\ ~MayTell(p) /\ dispatchers[p].at # "send"
      BY DEF Init, Busy, MayTell, Idle
    <2>4. \A d \in Device : incident[d] \notin Incident /\ channel[d] = 0
      BY DEF Init, None, Incident
    <2> QED BY <2>1, <2>2, <2>3, <2>4, NoticeShapes
            DEF IInv, IncidentsInRow, ClaimsAreKnown, ToldOfSentOnly, ChannelIsTrue,
                HolderIsAhead
  <1>2. ASSUME IInv, [Next]_vars PROVE IInv'
    <2>1. CASE Next
      <3>1. TypeOK' BY <1>2, <2>1, StepTypes
      <3> QED BY <1>2, <2>1, <3>1, IncidentsStep, ClaimsStep, ToldStep, ChannelStep,
                 HolderStep DEF IInv
    <2>2. CASE UNCHANGED vars
      BY <1>2, <2>2
         DEF vars, IInv, TypeOK, IncidentsInRow, ClaimsAreKnown, ToldOfSentOnly,
             ChannelIsTrue, HolderIsAhead, UpTo, Known, Busy, MayTell
    <2> QED BY <1>2, <2>1, <2>2
  <1> QED BY <1>1, <1>2, PTL DEF Spec

-----------------------------------------------------------------------------
(* The theorems. *)

(* A recovery reaches the channel only if the notice of that very outage   *)
(* was sent and is recorded as sent, whichever pods died or were late.     *)
THEOREM RecoveriesFollowOutages ==
  ASSUME NoticesConstantsOK, SlackDeliveryConstantsOK
  PROVE  Spec => []RecoveryFollowsOutage
  <1>1. IInv => RecoveryFollowsOutage
    <2> SUFFICES ASSUME IInv, NEW d \in Device, NEW i \in Incident,
                        channel[d] = 2 * i + 1
                 PROVE  notices[Off(d, i)] = "SENT"
      BY DEF IInv, RecoveryFollowsOutage
    <2>1. Incident \subseteq Nat BY NoticesConstantsOK DEF Incident
    <2>2. channel[d] # 0 /\ \A j \in Incident : channel[d] # 2 * j BY <2>1
    <2>3. PICK j \in Incident : channel[d] = 2 * j + 1 /\ notices[Off(d, j)] = "SENT"
      BY <2>2 DEF IInv, ChannelIsTrue
    <2>4. i = j BY <2>1, <2>3
    <2> QED BY <2>3, <2>4
  <1> QED BY <1>1, Invariant, PTL

(* Whoever posts under the lease never takes the channel back: outage,     *)
(* recovery, next outage, for any number of pods that died, retried or     *)
(* still work on notices they lost.                                        *)
THEOREM ChannelKeepsOrder ==
  ASSUME NoticesConstantsOK, SlackDeliveryConstantsOK
  PROVE  Spec => ChannelInOrder
  <1> DEFINE Ordered ==
        \A p \in Dispatchers :
          Posts(p) /\ lease = [by |-> p, held |-> TRUE] =>
            \A d \in Device : channel'[d] >= channel[d]
  <1>1. ASSUME IInv, NEW p \in Dispatchers, Posts(p), lease = [by |-> p, held |-> TRUE],
               NEW e \in Device
        PROVE  channel'[e] >= channel[e]
    <2> USE DEF IInv
    <2>0. Incident \subseteq Nat /\ \A d \in Device : channel[d] \in Nat
      BY <1>1, NoticesConstantsOK DEF Incident, TypeOK
    <2>1. /\ dispatchers[p].at = "send" /\ dispatchers[p].note \in Notice
          /\ lease.by = p
      BY <1>1 DEF Posts, ClaimsAreKnown, Busy
    <2>2. ASSUME NEW d \in Device, NEW i \in Incident, dispatchers[p].note = Off(d, i)
          PROVE  channel'[e] >= channel[e]
      <3>1. channel[d] <= 2 * i BY <1>1, <2>1, <2>2 DEF HolderIsAhead, UpTo
      <3>2. channel' = [channel EXCEPT ![d] = 2 * i] BY <1>1, <2>2, PostSays
      <3> QED BY <1>1, <2>0, <3>1, <3>2 DEF TypeOK
    <2>3. ASSUME NEW d \in Device, NEW i \in Incident, dispatchers[p].note = Rec(d, i)
          PROVE  channel'[e] >= channel[e]
      <3>1. channel[d] <= 2 * i + 1 BY <1>1, <2>1, <2>3 DEF HolderIsAhead, UpTo
      <3>2. channel' = [channel EXCEPT ![d] = 2 * i + 1] BY <1>1, <2>3, PostSays
      <3> QED BY <1>1, <2>0, <3>1, <3>2 DEF TypeOK
    <2>4. ASSUME NEW s \in Slots, dispatchers[p].note = Review(s)
          PROVE  channel'[e] >= channel[e]
      <3>1. channel' = channel BY <1>1, <2>4, PostSays
      <3> QED BY <1>1, <2>0, <3>1
    <2> QED BY <2>1, <2>2, <2>3, <2>4, NoticeShapes
  <1>2. IInv /\ [Next]_vars => [Ordered]_vars BY <1>1
  <1> QED BY <1>2, Invariant, PTL DEF Spec, ChannelInOrder

-----------------------------------------------------------------------------
(* Refinement of Outages: the jobs detect, the dispatchers deliver.        *)

(* Both sides speak of the same notices. *)
LEMMA SameWords ==
  /\ O!Notice = Notice /\ O!Incident = Incident /\ O!None = None
  /\ O!Live = Live /\ O!Settled = Settled /\ O!Status = Status
  /\ \A d, i : O!Off(d, i) = Off(d, i) /\ O!Rec(d, i) = Rec(d, i)
  /\ \A s : O!Review(s) = Review(s)
  /\ \A table, d : O!NextIncident(table, d) = NextIncident(table, d)
  <1>1. /\ O!Incident = Incident /\ O!None = None
        /\ \A d, i : O!Off(d, i) = Off(d, i) /\ O!Rec(d, i) = Rec(d, i)
        /\ \A s : O!Review(s) = Review(s)
    BY DEF O!Incident, Incident, O!None, None, O!Off, Off, O!Rec, Rec, O!Review, Review
  <1>2. O!Notice = Notice BY <1>1 DEF O!Notice, Notice
  <1>3. O!Live = Live /\ O!Settled = Settled BY DEF O!Live, Live, O!Settled, Settled
  <1>4. O!Status = Status BY <1>3 DEF O!Status, Status
  <1>5. \A table, d : O!NextIncident(table, d) = NextIncident(table, d)
    <2>1. \A S : O!Cardinality(S) = Cardinality(S)
      BY DEF O!Cardinality, Cardinality
    <2> QED
      BY <2>1 DEF O!NextIncident, NextIncident, O!Incident, Incident, O!Off, Off
  <1> QED BY <1>1, <1>2, <1>3, <1>4, <1>5

LEMMA OpensDetects ==
  ASSUME IInv, NoticesConstantsOK, NEW d \in Device, Opens(d), TypeOK'
  PROVE  O!Detect
  <1> USE DEF IInv
  <1> DEFINE i == NextIncident(notices, d)
             closed == {e \in Device : incident[e] # None /\ incident'[e] # incident[e]}
             opened == {e \in Device : incident'[e] = NextIncident(notices, e)}
             new == {Off(e, incident'[e]) : e \in opened}
  <1>0. Incident \subseteq Nat /\ None \notin Incident
    BY NoticesConstantsOK DEF Incident, None
  <1>1. /\ i \in Incident /\ incident' = [incident EXCEPT ![d] = i]
        /\ notices' = [notices EXCEPT ![Off(d, i)] = "PENDING"]
    BY DEF Opens
  <1>2. \A e \in Device : /\ NextIncident(notices, e) \in Nat \ {0}
                          /\ \A j \in Incident :
                               Known(Off(e, j)) <=> j < NextIncident(notices, e)
    BY NextIsFresh DEF IncidentsInRow, Known
  <1>3. \A e \in Device : incident[e] # NextIncident(notices, e)
    <2> SUFFICES ASSUME NEW e \in Device, incident[e] = NextIncident(notices, e)
                 PROVE  FALSE
      OBVIOUS
    <2>1. incident[e] \in Incident BY <1>2 DEF TypeOK, None
    <2>2. Known(Off(e, incident[e])) BY <2>1 DEF IncidentsInRow
    <2> QED BY <1>0, <1>2, <2>1, <2>2
  <1>4. incident'[d] = i /\ \A e \in Device \ {d} : incident'[e] = incident[e]
    BY <1>1 DEF TypeOK
  <1>5. opened = {d} BY <1>3, <1>4
  <1>6. new = {Off(d, i)} BY <1>4, <1>5
  <1>7. notices[Off(d, i)] = "NONE" BY <1>0, <1>1, <1>2 DEF Known
  <1>8. notices' = [n \in Notice |-> IF n \in new \cup {} /\ notices[n] = "NONE"
                                     THEN "PENDING" ELSE notices[n]]
    <2> HIDE DEF new, i
    <2> QED BY <1>1, <1>6, <1>7, NoticeShapes DEF TypeOK
  <1>9. incident' \in [Device -> Incident \cup {None}] BY DEF TypeOK
  <1>10. \A e \in Device : incident'[e] \in {None, incident[e], NextIncident(notices, e)}
    BY <1>4
  <1>11. {} \in SUBSET {Rec(e, incident[e]) : e \in closed}
    OBVIOUS
  <1>12. \E T \in SUBSET {Rec(e, incident[e]) : e \in closed} :
           notices' = [n \in Notice |-> IF n \in new \cup T /\ notices[n] = "NONE"
                                        THEN "PENDING" ELSE notices[n]]
    <2> HIDE DEF new, closed
    <2> QED BY <1>8, <1>11
  <1> HIDE DEF i
  <1> QED BY <1>9, <1>10, <1>12, SameWords DEF O!Detect

LEMMA ClosesDetects ==
  ASSUME IInv, NoticesConstantsOK, NEW d \in Device, NEW t \in BOOLEAN, Closes(d, t),
         TypeOK'
  PROVE  O!Detect
  <1> USE DEF IInv
  <1> DEFINE i == incident[d]
             closed == {e \in Device : incident[e] # None /\ incident'[e] # incident[e]}
             opened == {e \in Device : incident'[e] = NextIncident(notices, e)}
             new == {Off(e, incident'[e]) : e \in opened}
             ended == {Rec(e, incident[e]) : e \in closed}
             told == IF t THEN {Rec(d, i)} ELSE {}
  <1>0. Incident \subseteq Nat /\ None \notin Incident
    BY NoticesConstantsOK DEF Incident, None
  <1>1. /\ i \in Incident /\ incident' = [incident EXCEPT ![d] = None]
        /\ notices' = IF t THEN [notices EXCEPT ![Rec(d, i)] = "PENDING"] ELSE notices
    BY DEF Closes, TypeOK
  <1>2. \A e \in Device : /\ NextIncident(notices, e) \in Nat \ {0}
                          /\ \A j \in Incident :
                               Known(Off(e, j)) <=> j < NextIncident(notices, e)
    BY NextIsFresh DEF IncidentsInRow, Known
  <1>3. \A e \in Device : incident[e] # NextIncident(notices, e)
    <2> SUFFICES ASSUME NEW e \in Device, incident[e] = NextIncident(notices, e)
                 PROVE  FALSE
      OBVIOUS
    <2>1. incident[e] \in Incident BY <1>2 DEF TypeOK, None
    <2>2. Known(Off(e, incident[e])) BY <2>1 DEF IncidentsInRow
    <2> QED BY <1>0, <1>2, <2>1, <2>2
  <1>4. incident'[d] = None /\ \A e \in Device \ {d} : incident'[e] = incident[e]
    BY <1>1 DEF TypeOK
  <1>5. opened = {} BY <1>2, <1>3, <1>4 DEF None
  <1>6. new = {} BY <1>5
  <1>7. d \in closed BY <1>0, <1>1, <1>4
  <1>8. told \in SUBSET ended BY <1>1, <1>7
  <1>9. notices[Rec(d, i)] = "NONE" BY <1>1 DEF IncidentsInRow, Known
  <1>10. notices' = [n \in Notice |-> IF n \in new \cup told /\ notices[n] = "NONE"
                                      THEN "PENDING" ELSE notices[n]]
    <2> HIDE DEF new, i
    <2> QED BY <1>1, <1>6, <1>9, NoticeShapes DEF TypeOK
  <1>11. incident' \in [Device -> Incident \cup {None}] BY DEF TypeOK
  <1>12. \A e \in Device : incident'[e] \in {None, incident[e], NextIncident(notices, e)}
    BY <1>4
  <1> HIDE DEF told
  <1> QED BY <1>8, <1>10, <1>11, <1>12, SameWords DEF O!Detect

(* A step that delivers, when it makes a recovery SENT, does so after its  *)
(* outage. *)
LEMMA WorkDelivers ==
  ASSUME IInv, NoticesConstantsOK, Next, TypeOK', Delivers, ~JobStep
  PROVE  O!Deliver
  <1> USE DEF IInv
  <1>1. UNCHANGED incident BY DeliveryKeeps
  <1>2. notices' \in [Notice -> Status] BY DEF TypeOK
  <1>3. ASSUME NEW d \in Device, NEW i \in Incident,
               notices[Rec(d, i)] # "SENT", notices'[Rec(d, i)] = "SENT"
        PROVE  notices[Off(d, i)] = "SENT"
    <2>1. Rec(d, i) \in Notice BY NoticeShapes
    <2>2. ASSUME NEW p \in Dispatchers, TakeStep(p) PROVE FALSE
      <3> PICK expired \in SUBSET Waiting(notices) :
            \/ \E n \in Notice : Claim(p, n, expired) \/ ClaimExhausted(p, n, expired)
            \/ ClaimNothing(p, expired)
        BY <2>2 DEF TakeStep
      <3>1. Expire(expired)[Rec(d, i)] # "SENT" BY <1>3, <2>1 DEF Expire
      <3> QED BY <1>3, <2>1, <3>1, ExpireTypes DEF Claim, ClaimExhausted, ClaimNothing
    <2>3. ASSUME NEW p \in Dispatchers, WorkStep(p) PROVE notices[Off(d, i)] = "SENT"
      <3>1. Finish(p) /\ notices' = [notices EXCEPT ![dispatchers[p].note] =
                                       dispatchers[p].outcome]
        BY <1>3, <2>3 DEF WorkStep, Works, Check, Posts, PostFails, Finish, Dies
      <3>2. dispatchers[p].note = Rec(d, i) /\ dispatchers[p].outcome = "SENT"
        BY <1>3, <2>1, <3>1 DEF TypeOK
      <3>3. dispatchers[p].at = "finish" BY <3>1 DEF Finish
      <3> QED BY <3>2, <3>3 DEF ToldOfSentOnly, MayTell
    <2>4. ~LeaseRunsOut BY <1>3 DEF LeaseRunsOut
    <2> QED BY <2>2, <2>3, <2>4, StepKinds
  <1> QED BY <1>1, <1>2, <1>3, SameWords DEF O!Deliver, Delivers

(* Detection and delivery keep what Outages promises, whatever dispatchers *)
(* that lost their lease still do: results are final, a recovery is sent   *)
(* only after its outage, and every incident has its one notice.           *)
THEOREM DeliveryImplementsOutages ==
  ASSUME NoticesConstantsOK, SlackDeliveryConstantsOK
  PROVE  Spec => ImplementsOutages
  <1>1. Init => O!Init BY SameWords DEF Init, O!Init
  <1>2. ASSUME IInv, IInv', [Next]_vars PROVE [O!Next]_(O!vars)
    <2>1. CASE JobStep
      <3>1. ASSUME NEW d \in Device, Opens(d) PROVE O!Next
        BY <1>2, <3>1, OpensDetects DEF IInv, O!Next
      <3>2. ASSUME NEW d \in Device, NEW told \in BOOLEAN, Closes(d, told) PROVE O!Next
        BY <1>2, <3>2, ClosesDetects DEF IInv, O!Next
      <3>3. ASSUME NEW s \in Slots, Remind(s) PROVE O!Next
        BY <3>3, SameWords DEF Remind, O!Remind, O!Next
      <3> QED BY <2>1, <3>1, <3>2, <3>3 DEF JobStep
    <2>2. CASE Next /\ ~JobStep
      <3>1. CASE \E p \in Dispatchers : TakeStep(p) \/ WorkStep(p)
        <4>1. Delivers BY <1>2, <3>1, TakesDeliver, WorksDeliver DEF IInv
        <4> QED BY <1>2, <2>2, <4>1, WorkDelivers DEF IInv, O!Next
      <3>2. CASE LeaseRunsOut
        BY <3>2 DEF LeaseRunsOut, O!vars
      <3> QED BY <2>2, <3>1, <3>2, StepKinds
    <2>3. CASE UNCHANGED vars BY <2>3 DEF vars, O!vars
    <2> QED BY <1>2, <2>1, <2>2, <2>3
  <1> QED BY <1>1, <1>2, Invariant, PTL DEF Spec, ImplementsOutages, O!Spec

=============================================================================
