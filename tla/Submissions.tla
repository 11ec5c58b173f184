---------------------------- MODULE Submissions ----------------------------
(***************************************************************************)
(* The life of a submission: requests of its requester, decisions of the   *)
(* reviewers, and the job that follows the clock, all writing one row under*)
(* optimistic locking.                                                     *)
(*                                                                         *)
(* A request is served in several steps.  The handler takes the time, reads*)
(* the row, checks it against what its client last saw and against the     *)
(* rules of the row's status, and only then, in a transaction, writes the  *)
(* row if its version is still the one read.  The three moments (the GET   *)
(* behind the form, the handler's read, the transaction) are separate steps*)
(* here, so other clients and the job may act between any two of them.     *)
(***************************************************************************)
EXTENDS Integers, FiniteSets

CONSTANTS
  Submission,   \* the ids a row may be given
  Content,      \* what a submission shows: columns, details, target groups
  Owners,       \* browser tabs of the requester
  Reviewers,    \* sessions of users with the reviewer role
  Kinds,        \* the submission types that can be created
  Periods,      \* the <<startAt, endAt>> pairs a requester may send
  StoryDays,    \* how long an ON_APPROVAL submission is displayed
  MaxTime,      \* BOUND on the clock
  MaxVersion    \* BOUND on the version up to which clients still write

None == "NONE"  \* stands for content nobody has read
Null == -1      \* the SQL null of startAt and endAt

AllKinds == {"POSTER", "STORY", "EVENT_BANNER"}

ASSUME ConstantsOK ==
  /\ Submission # {}
  /\ None \notin Content
  /\ Kinds \subseteq AllKinds
  /\ Periods \subseteq Nat \X Nat
  /\ StoryDays \in Nat \ {0}
  /\ MaxTime \in Nat
  /\ MaxVersion \in Nat

Clients == Owners \cup Reviewers

VARIABLES
  now,       \* the clock every process reads
  rows,      \* the submissions table
  reviews,   \* the reviews table, never updated or deleted from
  requests   \* per client: the form it has open, or its request in flight

vars == <<now, rows, reviews, requests>>

-----------------------------------------------------------------------------
(* Statuses.  ABSENT marks an id that has not been inserted yet.  A name   *)
(* with an underscore, here and below, is a wrong variant of the definition*)
(* it precedes, for showing that a property notices the difference.        *)

Statuses == {"DRAFT", "PENDING_REVIEW", "REJECTED", "APPROVED", "SCHEDULED",
             "PUBLISHED", "ENDED", "CANCELED", "SUSPENDED", "ARCHIVED"}

Reapproval_ScheduledForgotten == {"APPROVED"}

Editable    == {"DRAFT", "PENDING_REVIEW", "REJECTED", "APPROVED",
                "SCHEDULED", "SUSPENDED"}
Reapproval  == {"APPROVED", "SCHEDULED"}
Returned    == {"REJECTED", "SUSPENDED"}
Submittable == {"DRAFT", "REJECTED", "SUSPENDED"}
Publishable == {"APPROVED", "SCHEDULED", "PUBLISHED"}
Suspendable == {"APPROVED", "SCHEDULED", "PUBLISHED"}

OnApproval(kind)    == kind = "STORY"    \* the period is set on approval
Resubmittable(kind) == kind # "STORY"
OwnerSuspends(kind) == kind \in {"STORY", "EVENT_BANNER"}

Instant == Nat \cup {Null}

Row == [kind : AllKinds, content : Content \cup {None}, startAt : Instant,
        endAt : Instant, status : Statuses \cup {"ABSENT"}, version : Nat]

NoRow == [kind |-> "POSTER", content |-> None, startAt |-> Null,
          endAt |-> Null, status |-> "ABSENT", version |-> 0]

(* A decision as it is recorded, with what its reviewer had on screen (the *)
(* table pins the media's checksum and the revision) and for how long.     *)
Review == [submission : Submission, revision : Nat,
           decision : {"APPROVED", "REJECTED", "SUSPENDED"},
           reviewer : Clients, content : Content \cup {None},
           startAt : Instant, endAt : Instant]

OwnerOps    == {"update", "submit", "cancel"}
ReviewOps   == {"approve", "reject", "suspend"}

(* viewing: the client read snap and shows it.  writing: the handler read  *)
(* snap, passed every check and is about to write next.                    *)
Request == [phase : {"idle", "viewing", "writing"},
            op : OwnerOps \cup ReviewOps \cup {None},
            submission : Submission, seen : Content \cup {None},
            snap : Row, next : Row]

Idle == [phase |-> "idle", op |-> None,
         submission |-> CHOOSE s \in Submission : TRUE,
         seen |-> None, snap |-> NoRow, next |-> NoRow]

TypeOK ==
  /\ now \in Nat
  /\ rows \in [Submission -> Row]
  /\ reviews \subseteq Review
  /\ requests \in [Clients -> Request]

Init ==
  /\ now = 0
  /\ rows = [s \in Submission |-> NoRow]
  /\ reviews = {}
  /\ requests = [c \in Clients |-> Idle]

-----------------------------------------------------------------------------
(* The rules a handler applies to a row, with the time t it took on entry. *)

HasStartedPublishing(row, t) ==
  \/ row.status = "PUBLISHED"
  \/ row.status \in Reapproval /\ row.startAt # Null /\ row.startAt <= t

CanCancel(row, t) ==
  \/ row.status \in {"DRAFT", "PENDING_REVIEW", "REJECTED"}
  \/ row.status \in Reapproval /\ row.startAt # Null /\ t < row.startAt

(* validateSchedule: only kinds whose requester asks for a period have a   *)
(* rule.  Membership in Periods stands for the rules on its length.        *)
ValidSchedule(row, t) ==
  OnApproval(row.kind) \/ (row.startAt < row.endAt /\ t < row.endAt)

(* What approval makes of the period. *)
ApprovedPeriod(row, t) ==
  IF OnApproval(row.kind) THEN <<t, t + StoryDays>>
                          ELSE <<row.startAt, row.endAt>>

(* The playlist query: this row is on the screens at time t. *)
OnAir(row, t) ==
  row.status \in Publishable /\ row.startAt <= t /\ t < row.endAt

Moved(row, status) == [row EXCEPT !.status = status, !.version = @ + 1]

-----------------------------------------------------------------------------
(* Opening a request: create inserts at once, the others start from a form.*)

(* A handler reads the clock once, first; by the time it reads the row the *)
(* clock may have moved, so t is any time not after now.                   *)
Taken == 0..now

Create(s, kind, t) ==
  /\ rows[s].status = "ABSENT"
  /\ \E content \in Content,
        period \in IF OnApproval(kind) THEN {<<Null, Null>>} ELSE Periods :
       LET row == [kind |-> kind, content |-> content, startAt |-> period[1],
                   endAt |-> period[2], status |-> "PENDING_REVIEW",
                   version |-> 1]
       IN  /\ ValidSchedule(row, t)
           /\ rows' = [rows EXCEPT ![s] = row]
  /\ UNCHANGED <<now, reviews, requests>>

View(c, s) ==
  /\ requests[c].phase = "idle"
  /\ rows[s].status # "ABSENT"
  /\ requests' = [requests EXCEPT ![c] =
       [Idle EXCEPT !.phase = "viewing", !.submission = s,
                    !.seen = rows[s].content, !.snap = rows[s]]]
  /\ UNCHANGED <<now, rows, reviews>>

(* The client sends the version of the row it shows; the handler read the  *)
(* row with that same version, or answers 409.                             *)
ViewIsCurrent(c) ==
  /\ requests[c].phase = "viewing"
  /\ requests[c].snap.version = rows[requests[c].submission].version

RowOf(c) == rows[requests[c].submission]

Prepare(c, op, next) ==
  /\ requests' = [requests EXCEPT ![c] =
       [@ EXCEPT !.phase = "writing", !.op = op,
                 !.snap = RowOf(c), !.next = next]]
  /\ UNCHANGED <<now, rows, reviews>>

-----------------------------------------------------------------------------
(* The requester's handlers, up to their transaction.                      *)

(* A request that changes nothing is answered without a write.             *)
Update(c, t) ==
  /\ ViewIsCurrent(c)
  /\ RowOf(c).version < MaxVersion
  /\ RowOf(c).status \in Editable
  /\ ~HasStartedPublishing(RowOf(c), t)
  /\ Resubmittable(RowOf(c).kind) \/ RowOf(c).status \notin Returned
  /\ \E content \in Content,
        period \in IF OnApproval(RowOf(c).kind)
                   THEN {<<RowOf(c).startAt, RowOf(c).endAt>>}
                   ELSE Periods \cup {<<RowOf(c).startAt, RowOf(c).endAt>>} :
       LET again  == RowOf(c).status \in Reapproval
           edited == [RowOf(c) EXCEPT !.content = content,
                                      !.startAt = period[1],
                                      !.endAt   = period[2]]
       IN  /\ edited # RowOf(c)
           /\ period # <<RowOf(c).startAt, RowOf(c).endAt>> \/ again
                => ValidSchedule(edited, t)
           /\ Prepare(c, "update",
                Moved(edited, IF again THEN "PENDING_REVIEW" ELSE edited.status))

Submit(c, t) ==
  /\ ViewIsCurrent(c)
  /\ RowOf(c).version < MaxVersion
  /\ RowOf(c).status \in Submittable
  /\ Resubmittable(RowOf(c).kind)
  /\ ValidSchedule(RowOf(c), t)
  /\ Prepare(c, "submit", Moved(RowOf(c), "PENDING_REVIEW"))

Cancel(c, t) ==
  /\ ViewIsCurrent(c)
  /\ RowOf(c).version < MaxVersion
  /\ CanCancel(RowOf(c), t)
  /\ Prepare(c, "cancel", Moved(RowOf(c), "CANCELED"))

-----------------------------------------------------------------------------
(* The reviewer's handlers, up to their transaction.                       *)

Approve(c, t) ==
  LET period == ApprovedPeriod(RowOf(c), t)
  IN  /\ ViewIsCurrent(c)
      /\ RowOf(c).version < MaxVersion
      /\ RowOf(c).status = "PENDING_REVIEW"
      /\ t < period[2]
      /\ Prepare(c, "approve",
           [Moved(RowOf(c), IF period[1] <= t THEN "PUBLISHED" ELSE "SCHEDULED")
              EXCEPT !.startAt = period[1], !.endAt = period[2]])

Reject(c) ==
  /\ ViewIsCurrent(c)
  /\ RowOf(c).version < MaxVersion
  /\ RowOf(c).status = "PENDING_REVIEW"
  /\ Prepare(c, "reject", Moved(RowOf(c), "REJECTED"))

(* Taking a submission down asks for no version: the form may be stale.    *)
Suspend(c, t) ==
  /\ requests[c].phase = "viewing"
  /\ RowOf(c).version < MaxVersion
  /\ c \in Reviewers \/ OwnerSuspends(RowOf(c).kind)
  /\ RowOf(c).status \in Suspendable
  /\ t < RowOf(c).endAt
  /\ Prepare(c, "suspend", Moved(RowOf(c), "SUSPENDED"))

-----------------------------------------------------------------------------
(* The transaction: UPDATE ... WHERE version = the version read, and, for a*)
(* decision, the review, in one commit.                                    *)

DecisionOf(op) == CASE op = "approve" -> "APPROVED"
                    [] op = "reject"  -> "REJECTED"
                    [] OTHER          -> "SUSPENDED"

ReviewOf(c) ==
  IF requests[c].op \notin ReviewOps THEN {}
  ELSE {[submission |-> requests[c].submission,
         revision   |-> requests[c].snap.version,
         decision   |-> DecisionOf(requests[c].op),
         reviewer   |-> c,
         content    |-> requests[c].seen,
         startAt    |-> requests[c].next.startAt,
         endAt      |-> requests[c].next.endAt]}

VersionHolds_Unchecked(c) == TRUE

VersionHolds(c) == RowOf(c).version = requests[c].snap.version

Commit(c) ==
  /\ requests[c].phase = "writing"
  /\ VersionHolds(c)
  /\ rows' = [rows EXCEPT ![requests[c].submission] = requests[c].next]
  /\ reviews' = reviews \cup ReviewOf(c)
  /\ requests' = [requests EXCEPT ![c] = Idle]
  /\ UNCHANGED now

(* The request ends without a write: the client leaves the form, a check   *)
(* answers with an error, the version has moved (409), the transaction     *)
(* fails, or the process dies.                                             *)
GiveUp(c) ==
  /\ requests[c].phase # "idle"
  /\ requests' = [requests EXCEPT ![c] = Idle]
  /\ UNCHANGED <<now, rows, reviews>>

-----------------------------------------------------------------------------
(* The status job.  Its three statements run in one transaction, with the  *)
(* time t taken when the cron fired; each row meets at most one of them.   *)

Ends_OnlyPublished(row, t) == row.status = "PUBLISHED" /\ row.endAt <= t

Ends(row, t) == row.status \in Publishable /\ row.endAt <= t

Starts_TooSoon(row, t) ==
  row.status \in {"APPROVED", "SCHEDULED"} /\ t < row.endAt

Starts(row, t) ==
  /\ row.status \in {"APPROVED", "SCHEDULED"}
  /\ row.startAt <= t
  /\ t < row.endAt

Waits(row, t) == row.status = "APPROVED" /\ t < row.startAt

Synced(row, t) ==
  IF Ends(row, t)   THEN Moved(row, "ENDED") ELSE
  IF Starts(row, t) THEN Moved(row, "PUBLISHED") ELSE
  IF Waits(row, t)  THEN Moved(row, "SCHEDULED") ELSE row

(* missed: rows another transaction wrote after the job's statement passed *)
(* over them and before the job committed.                                 *)
StatusJob(t, missed) ==
  /\ rows' = [s \in Submission |->
                IF s \in missed THEN rows[s] ELSE Synced(rows[s], t)]
  /\ UNCHANGED <<now, reviews, requests>>

Tick ==
  /\ now < MaxTime
  /\ now' = now + 1
  /\ UNCHANGED <<rows, reviews, requests>>

-----------------------------------------------------------------------------

OwnerStep(c) ==
  \E t \in Taken : Update(c, t) \/ Submit(c, t) \/ Cancel(c, t) \/ Suspend(c, t)

ReviewerStep(c) ==
  \/ \E t \in Taken : Approve(c, t) \/ Suspend(c, t)
  \/ Reject(c)

Next ==
  \/ \E s \in Submission, kind \in Kinds, t \in Taken : Create(s, kind, t)
  \/ \E c \in Clients, s \in Submission : View(c, s)
  \/ \E c \in Owners : OwnerStep(c)
  \/ \E c \in Reviewers : ReviewerStep(c)
  \/ \E c \in Clients : Commit(c) \/ GiveUp(c)
  \/ \E t \in Taken, missed \in SUBSET Submission : StatusJob(t, missed)
  \/ Tick

(* The cron fires every minute for as long as one process lives, so a run  *)
(* that has work to do is not put off for ever; time passes.  Nothing is   *)
(* assumed of clients.                                                     *)
Fairness == WF_vars(StatusJob(now, {})) /\ WF_vars(Tick)

Spec == Init /\ [][Next]_vars /\ Fairness

-----------------------------------------------------------------------------
(* Properties.                                                             *)

(* Optimistic locking is sound: a version names one state of the row, so a *)
(* handler whose version still holds when it commits writes over exactly   *)
(* what it read and checked, never over a later edit (no ABA).             *)
VersionNamesRow ==
  \A c \in Clients : requests[c].phase # "idle" =>
    /\ requests[c].snap.version <= RowOf(c).version
    /\ VersionHolds(c) => requests[c].snap = RowOf(c)

(* What the screens may show is what a reviewer approved: for every        *)
(* submission in a status the playlist serves, the latest decision is an   *)
(* approval, and the content and period it was given on, as its reviewer   *)
(* saw them, are those of the row.                                         *)
LiveAsApproved ==
  \A s \in Submission : rows[s].status \in Publishable =>
    \E r \in reviews :
      /\ r.submission = s
      /\ r.decision = "APPROVED"
      /\ r.content = rows[s].content
      /\ r.startAt = rows[s].startAt /\ r.endAt = rows[s].endAt
      /\ \A q \in reviews : q.submission = s => q.revision <= r.revision

(* However many reviewers act at once, a revision is decided at most once. *)
OneDecisionPerRevision ==
  \A q, r \in reviews :
    q.submission = r.submission /\ q.revision = r.revision => q = r

(* A canceled or ended submission never comes back, whatever requests were *)
(* in flight: the partial unique index on notices counts on it.            *)
ClosedForever ==
  [][\A s \in Submission :
       rows[s].status \in {"CANCELED", "ENDED"} => rows'[s] = rows[s]]_rows

(* Once PUBLISHED a submission can only be suspended or end; no edit that  *)
(* was in flight when it became so changes what is on the screens.  While  *)
(* the status lags behind the start, an edit may still commit.             *)
PublishedIsFrozen ==
  [][\A s \in Submission : rows[s].status = "PUBLISHED" =>
       /\ rows'[s].content = rows[s].content
       /\ rows'[s].startAt = rows[s].startAt /\ rows'[s].endAt = rows[s].endAt
       /\ rows'[s].status \in {"PUBLISHED", "SUSPENDED", "ENDED"}]_rows

(* The statuses that claim a point in time are true: a published row has   *)
(* started, an ended one is over, and no late job or approval says either  *)
(* too early.                                                              *)
StatusTellsTime ==
  \A s \in Submission :
    /\ rows[s].status = "PUBLISHED" => rows[s].startAt <= now
    /\ rows[s].status = "ENDED" => rows[s].endAt <= now

(* The job catches up with the clock: a period that begins is published    *)
(* and one that is over is taken down, unless someone decides otherwise.   *)
StatusCatchesUp ==
  \A s \in Submission :
    LET waiting == rows[s].status \in {"APPROVED", "SCHEDULED"}
                     /\ rows[s].startAt <= now
        over    == rows[s].status \in Publishable /\ rows[s].endAt <= now
    IN  (waiting \/ over) ~> ~(waiting \/ over)

-----------------------------------------------------------------------------
(* Submissions implements Publication.                                     *)

PhaseOf(status) ==
  CASE status = "ABSENT" -> "none"
    [] status \in {"DRAFT", "PENDING_REVIEW"} -> "waiting"
    [] status \in Publishable -> "cleared"
    [] status \in Returned -> "returned"
    [] OTHER -> "closed"

Board == INSTANCE Publication WITH
  phase   <- [s \in Submission |-> PhaseOf(rows[s].status)],
  content <- [s \in Submission |-> rows[s].content]

(* Whatever the interleaving, each operation takes effect at one instant,  *)
(* its commit, and no content reaches or changes on the screens without a  *)
(* review of it.                                                           *)
ImplementsPublication == Board!Spec

=============================================================================
