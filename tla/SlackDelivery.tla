---------------------------- MODULE SlackDelivery ----------------------------
(***************************************************************************)
(* From the notices to what the Slack channel reads.  The dispatchers of   *)
(* the pods take the notices one at a time under a lease, ask whether the  *)
(* notice still holds, post it and record the result.  The lease is a row  *)
(* and no lock: it runs out while its holder is dead, or late.             *)
(*                                                                         *)
(* Time is abstract: a lease may run out, a retry may become due and an    *)
(* hour may pass before any claim.                                         *)
(***************************************************************************)
EXTENDS Notices

CONSTANTS
  Dispatchers,   \* one on each pod
  NoOne,         \* no claim token
  MaxAttempts    \* MAX_ATTEMPTS

ASSUME SlackDeliveryConstantsOK ==
  /\ NoOne \notin Dispatchers
  /\ MaxAttempts \in Nat \ {0}

VARIABLES
  incident,      \* device_alert_states: the open incident of each device
  notices,       \* slack_notifications: the status of each,
  attempts,      \*   and how often it was taken
  lease,         \* slack_delivery_state
  dispatchers,   \* what each dispatcher is doing
  channel        \* the last the channel read of a device: 2i for the outage
                 \*   of incident i, 2i+1 for its recovery

vars == <<incident, notices, attempts, lease, dispatchers, channel>>

Dispatcher == [at : {"idle", "check", "send", "finish"},
               note : Notice \cup {NoOne},
               outcome : Settled \cup {"PENDING"}]

Idle == [at |-> "idle", note |-> NoOne, outcome |-> "SENT"]
Free == [by |-> NoOne, held |-> FALSE]

TypeOK ==
  /\ incident \in [Device -> Incident \cup {None}]
  /\ notices \in [Notice -> Status]
  /\ attempts \in [Notice -> 0..MaxAttempts]
  /\ lease \in [by : Dispatchers \cup {NoOne}, held : BOOLEAN]
  /\ dispatchers \in [Dispatchers -> Dispatcher]
  /\ channel \in [Device -> 0..(2 * MaxIncidents + 1)]

Init ==
  /\ incident = [d \in Device |-> None]
  /\ notices = [n \in Notice |-> "NONE"]
  /\ attempts = [n \in Notice |-> 0]
  /\ lease = Free
  /\ dispatchers = [p \in Dispatchers |-> Idle]
  /\ channel = [d \in Device |-> 0]

-----------------------------------------------------------------------------
(* What the jobs write: see DeviceAlerts for when.                         *)

delivery == <<attempts, lease, dispatchers, channel>>

Opens(d) ==
  LET i == NextIncident(notices, d)
  IN /\ i \in Incident
     /\ incident' = [incident EXCEPT ![d] = i]
     /\ notices' = [notices EXCEPT ![Off(d, i)] = "PENDING"]
     /\ UNCHANGED delivery

(* A recovery is told of as the status of the outage's notice was some     *)
(* time before: a result may have come in between.                         *)
Closes(d, told) ==
  LET i == incident[d]
  IN /\ i # None
     /\ incident' = [incident EXCEPT ![d] = None]
     /\ notices' = IF told
                   THEN [notices EXCEPT ![Rec(d, i)] = "PENDING"]
                   ELSE notices
     /\ UNCHANGED delivery

Remind(s) ==
  /\ notices[Review(s)] = "NONE"
  /\ notices' = [notices EXCEPT ![Review(s)] = "PENDING"]
  /\ UNCHANGED <<incident, delivery>>

-----------------------------------------------------------------------------
(* NotificationDispatcher.claim: one transaction, and its UPDATE of the    *)
(* lease row lets no two of them overlap.                                  *)

Waiting(table) == {n \in Notice : table[n] \in Live}

(* A recovery is not taken while the result of its outage is open. *)
Takable(table) ==
  {n \in Waiting(table) : n[1] = "RECOVERED" =>
                            table[Off(n[2], n[3])] \notin Live}

(* Any of those that wait may be over an hour old by now. *)
Expire(expired) ==
  [n \in Notice |-> IF n \in expired THEN "CANCELED" ELSE notices[n]]

CanClaim(p) == dispatchers[p].at = "idle" /\ ~lease.held

Exhausted(n) == attempts[n] = MaxAttempts

(* Which of the notices that are due is the oldest is left open. *)
Claim(p, n, expired) ==
  /\ CanClaim(p)
  /\ n \in Takable(Expire(expired)) /\ ~Exhausted(n)
  /\ notices' = [Expire(expired) EXCEPT ![n] = "SENDING"]
  /\ attempts' = [attempts EXCEPT ![n] = @ + 1]
  /\ lease' = [by |-> p, held |-> TRUE]
  /\ dispatchers' = [dispatchers EXCEPT ![p] =
                       [at |-> "check", note |-> n, outcome |-> "SENT"]]
  /\ UNCHANGED <<incident, channel>>

(* The oldest has no attempt left: it fails, and the lease is given back.  *)
ClaimExhausted(p, n, expired) ==
  /\ CanClaim(p)
  /\ n \in Takable(Expire(expired)) /\ Exhausted(n)
  /\ notices' = [Expire(expired) EXCEPT ![n] = "FAILED"]
  /\ lease' = Free
  /\ UNCHANGED <<incident, attempts, dispatchers, channel>>

(* Nothing is there, or only retries that are not due. *)
ClaimNothing(p, expired) ==
  /\ CanClaim(p)
  /\ \A n \in Takable(Expire(expired)) :
       notices[n] = "PENDING" /\ attempts[n] > 0
  /\ notices' = Expire(expired)
  /\ lease' = Free
  /\ UNCHANGED <<incident, attempts, dispatchers, channel>>

-----------------------------------------------------------------------------
(* NotificationDispatcher.run: the claimed notice.                         *)

Announced_Latest(d, i) ==
  \A j \in Incident : notices[Off(d, j)] # "NONE" => j <= i

Announced_Sent(d, i) == notices[Off(d, i)] = "SENT"

(* The latest outage notice is that of incident i, and was sent. *)
Announced(d, i) ==
  /\ notices[Off(d, i)] = "SENT"
  /\ \A j \in Incident : notices[Off(d, j)] # "NONE" => j <= i

(* Whether the device is dark, or back, is left open. *)
MayBeRelevant(n) ==
  CASE n[1] = "REVIEW"    -> TRUE
    [] n[1] = "RECOVERED" -> incident[n[2]] = None /\ Announced(n[2], n[3])
    [] n[1] = "OFFLINE"   -> incident[n[2]] = n[3]

Goes(p, at, outcome) ==
  dispatchers' = [dispatchers EXCEPT ![p].at = at, ![p].outcome = outcome]

(* A retryable failure leaves the notice waiting, or was the last attempt. *)
Retry(p) ==
  IF attempts[dispatchers[p].note] < MaxAttempts THEN "PENDING"
                                                         ELSE "FAILED"

Check(p) ==
  LET n == dispatchers[p].note
  IN /\ dispatchers[p].at = "check"
     /\ \/ MayBeRelevant(n) /\ Goes(p, "send", "SENT")
        \/ n[1] # "REVIEW" /\ Goes(p, "finish", "CANCELED")
        \/ Goes(p, "finish", Retry(p))            \* a query fails
     /\ UNCHANGED <<incident, notices, attempts, lease, channel>>

(* The webhook takes the message, whatever the dispatcher learns of it: an *)
(* answer may be lost, or be none that it understands.                     *)
Posts(p) ==
  LET n == dispatchers[p].note
  IN /\ dispatchers[p].at = "send"
     /\ channel' = CASE n[1] = "OFFLINE"   -> [channel EXCEPT ![n[2]] = 2 * n[3]]
                     [] n[1] = "RECOVERED" -> [channel EXCEPT ![n[2]] = 2 * n[3] + 1]
                     [] n[1] = "REVIEW"    -> channel
     /\ \E outcome \in {"SENT", "FAILED", Retry(p)} : Goes(p, "finish", outcome)
     /\ UNCHANGED <<incident, notices, attempts, lease>>

(* The network, a 429 or a 5xx is tried again, any other refusal is final. *)
PostFails(p) ==
  /\ dispatchers[p].at = "send"
  /\ \E outcome \in {"FAILED", Retry(p)} : Goes(p, "finish", outcome)
  /\ UNCHANGED <<incident, notices, attempts, lease, channel>>

Mine_Unchecked(p) == TRUE

(* No other claim has put its token there since, or taken this one off.    *)
(* The token on the notice is of the same claim and says no more.          *)
Mine(p) == lease.by = p

Finish(p) ==
  LET n == dispatchers[p].note
  IN /\ dispatchers[p].at = "finish"
     /\ lease' = IF Mine(p) THEN Free ELSE lease
     /\ IF Mine(p)
        THEN notices' = [notices EXCEPT ![n] = dispatchers[p].outcome]
        ELSE UNCHANGED notices
     /\ dispatchers' = [dispatchers EXCEPT ![p] = Idle]
     /\ UNCHANGED <<incident, attempts, channel>>

(* The pod dies, or its last transaction fails. *)
Dies(p) ==
  /\ dispatchers[p].at # "idle"
  /\ dispatchers' = [dispatchers EXCEPT ![p] = Idle]
  /\ UNCHANGED <<incident, notices, attempts, lease, channel>>

(* locked_until passes; the token stays until somebody claims. *)
LeaseRunsOut ==
  /\ lease.held
  /\ lease' = [lease EXCEPT !.held = FALSE]
  /\ UNCHANGED <<incident, notices, attempts, dispatchers, channel>>

-----------------------------------------------------------------------------
Takes(p) ==
  \E expired \in SUBSET Waiting(notices), n \in Notice :
    Claim(p, n, expired) \/ ClaimExhausted(p, n, expired)

Works(p) == Check(p) \/ Posts(p) \/ PostFails(p) \/ Finish(p)

Next ==
  \/ \E d \in Device :
       Opens(d) \/ \E told \in BOOLEAN : Closes(d, told)
  \/ \E s \in Slots : Remind(s)
  \/ \E p \in Dispatchers :
       \/ Takes(p) \/ Works(p) \/ Dies(p)
       \/ \E expired \in SUBSET Waiting(notices) : ClaimNothing(p, expired)
  \/ LeaseRunsOut

Spec == Init /\ [][Next]_vars

-----------------------------------------------------------------------------
(* Properties.                                                             *)

(* A recovery reaches the channel only if the notice of that very outage   *)
(* was sent, and is known to have been, whichever pods died or were late.  *)
RecoveryFollowsOutage ==
  /\ TypeOK
  /\ \A d \in Device, i \in Incident :
       channel[d] = 2 * i + 1 => notices[Off(d, i)] = "SENT"

(* What the channel reads of a device never goes back: outage, recovery,   *)
(* next outage, with repetitions of one notice at most, through crashes    *)
(* and retries, but for the post of a dispatcher that lost its lease.      *)
ChannelInOrder ==
  [][\A p \in Dispatchers :
       Posts(p) /\ lease = [by |-> p, held |-> TRUE] =>
         \A d \in Device : channel'[d] >= channel[d]]_vars

(* Results are final and recoveries follow outages as Outages promises,    *)
(* for all that a dispatcher which lost its lease still does.              *)
O == INSTANCE Outages

ImplementsOutages == O!Spec

=============================================================================
