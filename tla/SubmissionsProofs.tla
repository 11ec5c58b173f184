------------------------- MODULE SubmissionsProofs -------------------------
(***************************************************************************)
(* Safety of Submissions for any set of ids, contents, clients and periods,*)
(* and without its two bounds' help.                                       *)
(*                                                                         *)
(* The properties are not inductive alone: that the screens show what was  *)
(* approved depends on what a request in flight is about to write, and that*)
(* on what it read still being the row when its version is.  IInv says so. *)
(***************************************************************************)
EXTENDS Submissions, TLAPS

(* The moves of Publication on one submission, seen on its row.            *)
BoardMove(old, new) ==
  LET move == <<PhaseOf(old.status), PhaseOf(new.status)>>
  IN  \/ /\ new.content = old.content
         /\ move \in {<<"waiting", "waiting">>, <<"returned", "waiting">>,
                     <<"waiting", "cleared">>, <<"waiting", "returned">>,
                     <<"cleared", "returned">>, <<"waiting", "closed">>,
                     <<"cleared", "closed">>, <<"returned", "closed">>}
      \/ /\ new.content \in Content
         /\ move \in {<<"waiting", "waiting">>, <<"cleared", "waiting">>,
                     <<"returned", "returned">>}

(* What a handler that passed its checks may be about to write. *)
Prepared(q) ==
  /\ q.next.version = q.snap.version + 1
  /\ q.next.status \in Publishable => q.op = "approve" /\ q.seen = q.next.content
  /\ q.next.status = "PUBLISHED" => q.next.startAt <= now
  /\ q.next.status \notin {"ABSENT", "ENDED"}
  /\ BoardMove(q.snap, q.next)
  /\ q.snap.status \notin {"ABSENT", "CANCELED", "ENDED"}
  /\ q.snap.status = "PUBLISHED" =>
       /\ q.next.status = "SUSPENDED"
       /\ q.next.content = q.snap.content
       /\ q.next.startAt = q.snap.startAt /\ q.next.endAt = q.snap.endAt

RequestsOK ==
  \A c \in Clients :
    /\ requests[c].phase = "viewing" => requests[c].seen = requests[c].snap.content
    /\ requests[c].phase = "writing" => Prepared(requests[c])

(* Every decision was made on an earlier version than the present one. *)
DecisionsArePast ==
  \A r \in reviews : r.revision < rows[r.submission].version

(* An id without a row is at version 0, and only that.                     *)
InsertedOnce ==
  \A s \in Submission : rows[s].status = "ABSENT" <=> rows[s].version = 0

IInv ==
  /\ TypeOK
  /\ VersionNamesRow
  /\ RequestsOK
  /\ DecisionsArePast
  /\ InsertedOnce

-----------------------------------------------------------------------------
(* Operators on rows.                                                      *)

LEMMA MovedRow ==
  ASSUME NEW row \in Row, NEW status \in Statuses
  PROVE  /\ Moved(row, status) \in Row
         /\ Moved(row, status).status = status
         /\ Moved(row, status).version = row.version + 1
         /\ Moved(row, status).content = row.content
         /\ Moved(row, status).startAt = row.startAt
         /\ Moved(row, status).endAt = row.endAt
<1>1. row.version + 1 \in Nat
  BY DEF Row
<1>2. Moved(row, status) \in Row
  BY <1>1, ZenonT(30) DEF Moved, Row
<1>. QED
  BY <1>2 DEF Moved, Row

(* The job leaves a row alone or moves it to the next version.             *)
LEMMA SyncedRow ==
  ASSUME NEW row \in Row, NEW t \in Nat
  PROVE  /\ Synced(row, t) \in Row
         /\ \/ Synced(row, t) = row
            \/ /\ Synced(row, t).version = row.version + 1
               /\ row.status \in Publishable
               /\ Synced(row, t).status \in {"ENDED", "PUBLISHED", "SCHEDULED"}
               /\ Synced(row, t).status = "PUBLISHED" => row.startAt <= t
               /\ Synced(row, t).status = "ENDED" => row.endAt <= t
               /\ row.status = "PUBLISHED" => Synced(row, t).status = "ENDED"
         /\ Synced(row, t).content = row.content
         /\ Synced(row, t).startAt = row.startAt
         /\ Synced(row, t).endAt = row.endAt
  BY MovedRow DEF Synced, Ends, Starts, Waits, Publishable, Statuses

LEMMA IdleRequest == Idle \in Request /\ Idle.phase = "idle"
  BY ConstantsOK DEF Idle, Request, NoRow, Row, AllKinds, Instant

-----------------------------------------------------------------------------
(* One lemma per way of changing the state; the handlers share the first.  *)

(* A handler that read the row and passed its checks now holds a request   *)
(* to write; nothing else has changed.                                     *)
LEMMA PrepareKeepsIInv ==
  ASSUME IInv, NEW c \in Clients, NEW op \in OwnerOps \cup ReviewOps,
         NEW next \in Row, Prepare(c, op, next),
         Prepared([requests[c] EXCEPT !.phase = "writing", !.op = op,
                                      !.snap = RowOf(c), !.next = next])
  PROVE  IInv'
<1> DEFINE q == [requests[c] EXCEPT !.phase = "writing", !.op = op,
                                    !.snap = RowOf(c), !.next = next]
<1>1. /\ requests' = [requests EXCEPT ![c] = q]
      /\ UNCHANGED <<now, rows, reviews>>
  BY DEF Prepare
<1>2. requests[c] \in Request /\ RowOf(c) \in Row
  BY DEF IInv, TypeOK, RowOf, Request
<1>3. q \in Request
  BY <1>2, ZenonT(30) DEF Request
<1>4. q.phase = "writing" /\ q.submission = requests[c].submission
        /\ q.snap = RowOf(c)
  BY <1>2 DEF Request
<1> HIDE DEF q
<1>5. TypeOK'
  BY <1>1, <1>3 DEF IInv, TypeOK
<1>6. VersionNamesRow'
  <2>. SUFFICES ASSUME NEW d \in Clients, requests'[d].phase # "idle"
                PROVE  /\ requests'[d].snap.version <= RowOf(d)'.version
                       /\ VersionHolds(d)' => requests'[d].snap = RowOf(d)'
    BY DEF VersionNamesRow
  <2>1. CASE d = c
    <3>1. requests'[c] = q
      BY <1>1 DEF IInv, TypeOK
    <3>2. RowOf(c)' = RowOf(c)
      BY <1>1, <1>4, <3>1 DEF RowOf
    <3>3. RowOf(c).version \in Nat
      BY <1>2 DEF Row
    <3>. QED
      BY <2>1, <3>1, <3>2, <3>3, <1>4
  <2>2. CASE d # c
    BY <2>2, <1>1 DEF IInv, TypeOK, VersionNamesRow, VersionHolds, RowOf
  <2>. QED
    BY <2>1, <2>2
<1>7. RequestsOK'
  <2>. SUFFICES ASSUME NEW d \in Clients
                PROVE  /\ requests'[d].phase = "viewing" =>
                             requests'[d].seen = requests'[d].snap.content
                       /\ requests'[d].phase = "writing" => Prepared(requests[d])'
    BY DEF RequestsOK
  <2>1. CASE d = c
    <3>1. requests'[c] = q
      BY <1>1 DEF IInv, TypeOK
    <3>2. Prepared(q)
      BY DEF q
    <3>. QED
      BY <2>1, <3>1, <3>2, <1>1, <1>4 DEF Prepared
  <2>2. CASE d # c
    BY <2>2, <1>1 DEF IInv, TypeOK, RequestsOK, Prepared
  <2>. QED
    BY <2>1, <2>2
<1>8. DecisionsArePast' /\ InsertedOnce'
  BY <1>1 DEF IInv, DecisionsArePast, InsertedOnce
<1>. QED
  BY <1>5, <1>6, <1>7, <1>8 DEF IInv

LEMMA RequestRow ==
  ASSUME IInv, NEW c \in Clients
  PROVE  RowOf(c) \in Row /\ requests[c] \in Request /\ requests[c].snap \in Row
  BY DEF IInv, TypeOK, RowOf, Request

(* What the form shows is the row when its version is the row's.           *)
LEMMA SeenIsCurrent ==
  ASSUME IInv, NEW c \in Clients, ViewIsCurrent(c)
  PROVE  requests[c].seen = RowOf(c).content
  BY DEF IInv, ViewIsCurrent, VersionNamesRow, VersionHolds, RequestsOK, RowOf

(* All handlers but approve: what they would write is not for the screens. *)
LEMMA OffScreenKeepsIInv ==
  ASSUME IInv, NEW c \in Clients, NEW op \in OwnerOps \cup ReviewOps,
         NEW next \in Row, Prepare(c, op, next),
         next.version = RowOf(c).version + 1,
         next.status \notin Publishable \cup {"ABSENT", "ENDED"},
         RowOf(c).status \notin {"ABSENT", "CANCELED", "ENDED"},
         BoardMove(RowOf(c), next),
         RowOf(c).status = "PUBLISHED" =>
           /\ next.status = "SUSPENDED"
           /\ next.content = RowOf(c).content
           /\ next.startAt = RowOf(c).startAt /\ next.endAt = RowOf(c).endAt
  PROVE  IInv'
<1> DEFINE q == [requests[c] EXCEPT !.phase = "writing", !.op = op,
                                    !.snap = RowOf(c), !.next = next]
<1>1. q.next = next /\ q.snap = RowOf(c)
  BY RequestRow DEF Request
<1>2. Prepared(q)
  BY <1>1 DEF Prepared, Publishable
<1>. QED
  BY <1>2, PrepareKeepsIInv

LEMMA UpdateKeepsIInv ==
  ASSUME IInv, NEW c \in Owners, NEW t \in Taken, Update(c, t)
  PROVE  IInv'
<1>1. c \in Clients /\ RowOf(c) \in Row
  BY RequestRow DEF Clients
<1>2. PICK content \in Content, period \in (Nat \X Nat) \cup {<<RowOf(c).startAt, RowOf(c).endAt>>} :
        LET again  == RowOf(c).status \in Reapproval
            edited == [RowOf(c) EXCEPT !.content = content,
                                       !.startAt = period[1],
                                       !.endAt   = period[2]]
        IN  Prepare(c, "update",
              Moved(edited, IF again THEN "PENDING_REVIEW" ELSE edited.status))
  BY ConstantsOK DEF Update
<1> DEFINE edited == [RowOf(c) EXCEPT !.content = content,
                                      !.startAt = period[1],
                                      !.endAt   = period[2]]
           status == IF RowOf(c).status \in Reapproval THEN "PENDING_REVIEW"
                                                       ELSE edited.status
<1>3. period[1] \in Instant /\ period[2] \in Instant
  BY <1>1 DEF Instant, Row
<1>4. edited \in Row
  BY <1>1, <1>3, ZenonT(30) DEF Row
<1>5. /\ edited.status = RowOf(c).status /\ edited.version = RowOf(c).version
      /\ edited.content = content
  BY <1>1 DEF Row
<1>6. /\ status \in {"DRAFT", "PENDING_REVIEW", "REJECTED", "SUSPENDED"}
      /\ <<PhaseOf(RowOf(c).status), PhaseOf(status)>> \in
           {<<"waiting", "waiting">>, <<"cleared", "waiting">>,
            <<"returned", "returned">>}
  BY <1>5 DEF Update, Editable, Reapproval, PhaseOf, Publishable, Returned
<1> HIDE DEF edited, status
<1>7. Moved(edited, status) \in Row
      /\ Moved(edited, status).status = status
      /\ Moved(edited, status).version = RowOf(c).version + 1
      /\ Moved(edited, status).content = content
  BY <1>4, <1>5, <1>6, MovedRow DEF Statuses
<1>8. Prepare(c, "update", Moved(edited, status))
  BY <1>2 DEF edited, status
<1>9. RowOf(c).status \notin {"ABSENT", "CANCELED", "ENDED", "PUBLISHED"}
  BY DEF Update, Editable
<1>10. BoardMove(RowOf(c), Moved(edited, status))
  BY <1>6, <1>7 DEF BoardMove
<1>. QED
  BY <1>1, <1>6, <1>7, <1>8, <1>9, <1>10, OffScreenKeepsIInv
  DEF Publishable, OwnerOps

LEMMA SubmitKeepsIInv ==
  ASSUME IInv, NEW c \in Owners, NEW t \in Taken, Submit(c, t)
  PROVE  IInv'
<1>1. c \in Clients /\ RowOf(c) \in Row
  BY RequestRow DEF Clients
<1>2. RowOf(c).status \in Submittable
      /\ Prepare(c, "submit", Moved(RowOf(c), "PENDING_REVIEW"))
  BY DEF Submit
<1>3. BoardMove(RowOf(c), Moved(RowOf(c), "PENDING_REVIEW"))
  BY <1>1, <1>2, MovedRow
  DEF BoardMove, PhaseOf, Statuses, Submittable, Publishable, Returned
<1>. QED
  BY <1>1, <1>2, <1>3, MovedRow, OffScreenKeepsIInv
  DEF Submittable, Publishable, Statuses, OwnerOps

LEMMA CancelKeepsIInv ==
  ASSUME IInv, NEW c \in Owners, NEW t \in Taken, Cancel(c, t)
  PROVE  IInv'
<1>1. c \in Clients /\ RowOf(c) \in Row
  BY RequestRow DEF Clients
<1>2. RowOf(c).status \in {"DRAFT", "PENDING_REVIEW", "REJECTED"} \cup Reapproval
      /\ Prepare(c, "cancel", Moved(RowOf(c), "CANCELED"))
  BY DEF Cancel, CanCancel
<1>3. BoardMove(RowOf(c), Moved(RowOf(c), "CANCELED"))
  BY <1>1, <1>2, MovedRow
  DEF BoardMove, PhaseOf, Statuses, Reapproval, Publishable, Returned
<1>. QED
  BY <1>1, <1>2, <1>3, MovedRow, OffScreenKeepsIInv
  DEF Reapproval, Publishable, Statuses, OwnerOps

LEMMA RejectKeepsIInv ==
  ASSUME IInv, NEW c \in Reviewers, Reject(c)
  PROVE  IInv'
<1>1. c \in Clients /\ RowOf(c) \in Row
  BY RequestRow DEF Clients
<1>2. RowOf(c).status = "PENDING_REVIEW"
      /\ Prepare(c, "reject", Moved(RowOf(c), "REJECTED"))
  BY DEF Reject
<1>3. BoardMove(RowOf(c), Moved(RowOf(c), "REJECTED"))
  BY <1>1, <1>2, MovedRow
  DEF BoardMove, PhaseOf, Statuses, Publishable, Returned
<1>. QED
  BY <1>1, <1>2, <1>3, MovedRow, OffScreenKeepsIInv
  DEF Publishable, Statuses, ReviewOps

LEMMA SuspendKeepsIInv ==
  ASSUME IInv, NEW c \in Clients, NEW t \in Taken, Suspend(c, t)
  PROVE  IInv'
<1>1. RowOf(c) \in Row
  BY RequestRow
<1>2. RowOf(c).status \in Suspendable
      /\ Prepare(c, "suspend", Moved(RowOf(c), "SUSPENDED"))
  BY DEF Suspend
<1>3. BoardMove(RowOf(c), Moved(RowOf(c), "SUSPENDED"))
  BY <1>1, <1>2, MovedRow
  DEF BoardMove, PhaseOf, Statuses, Suspendable, Publishable, Returned
<1>. QED
  BY <1>1, <1>2, <1>3, MovedRow, OffScreenKeepsIInv
  DEF Suspendable, Publishable, Statuses, ReviewOps

(* Approval is the one way to the screens; it is given on what the form    *)
(* shows, which is the row because the version still is.                   *)
LEMMA ApproveKeepsIInv ==
  ASSUME IInv, NEW c \in Reviewers, NEW t \in Taken, Approve(c, t)
  PROVE  IInv'
<1> DEFINE period == ApprovedPeriod(RowOf(c), t)
           status == IF period[1] <= t THEN "PUBLISHED" ELSE "SCHEDULED"
           moved  == Moved(RowOf(c), status)
           next   == [moved EXCEPT !.startAt = period[1], !.endAt = period[2]]
           q      == [requests[c] EXCEPT !.phase = "writing", !.op = "approve",
                                         !.snap = RowOf(c), !.next = next]
<1>1. c \in Clients /\ RowOf(c) \in Row
  BY RequestRow DEF Clients
<1>2. t \in Nat /\ t <= now
  BY DEF IInv, TypeOK, Taken
<1>3. period[1] \in Instant /\ period[2] \in Instant
  BY <1>1, <1>2, ConstantsOK DEF ApprovedPeriod, Instant, Row
<1>4. status \in {"PUBLISHED", "SCHEDULED"} /\ (status = "PUBLISHED" => period[1] <= t)
  OBVIOUS
<1> HIDE DEF period, status
<1>5. /\ moved \in Row
      /\ moved.status = status
      /\ moved.version = RowOf(c).version + 1
      /\ moved.content = RowOf(c).content
  BY <1>1, <1>4, MovedRow DEF Statuses
<1> HIDE DEF moved
<1>6. next \in Row
  BY <1>3, <1>5, ZenonT(30) DEF Row
<1>7. /\ next.status = status
      /\ next.version = RowOf(c).version + 1
      /\ next.content = RowOf(c).content
      /\ next.startAt = period[1]
  BY <1>5 DEF Row
<1>8. Prepare(c, "approve", next)
  BY DEF Approve, period, status, moved
<1> HIDE DEF next
<1>9. requests[c].seen = RowOf(c).content
  BY <1>1, SeenIsCurrent DEF Approve
<1>10. q.next = next /\ q.snap = RowOf(c) /\ q.op = "approve"
       /\ q.seen = requests[c].seen
  BY <1>1, RequestRow DEF Request
<1>11. RowOf(c).status = "PENDING_REVIEW"
  BY DEF Approve
<1>12. status = "PUBLISHED" => period[1] <= now
  BY <1>2, <1>3, <1>4 DEF Instant, Null, IInv, TypeOK
<1>13. BoardMove(RowOf(c), next)
  BY <1>4, <1>7, <1>11 DEF BoardMove, PhaseOf, Publishable, Returned
<1>14. Prepared(q)
  BY <1>4, <1>7, <1>9, <1>10, <1>11, <1>12, <1>13 DEF Prepared
<1>. QED
  BY <1>1, <1>6, <1>8, <1>14, PrepareKeepsIInv DEF ReviewOps

-----------------------------------------------------------------------------
(* The other steps.                                                        *)

(* A client that holds nothing constrains nothing.                         *)
LEMMA ViewKeepsIInv ==
  ASSUME IInv, NEW c \in Clients, NEW s \in Submission, View(c, s)
  PROVE  IInv'
<1> DEFINE q == [Idle EXCEPT !.phase = "viewing", !.submission = s,
                             !.seen = rows[s].content, !.snap = rows[s]]
<1>1. rows[s] \in Row
  BY DEF IInv, TypeOK
<1>2. q \in Request
  BY <1>1, IdleRequest, ZenonT(30) DEF Request, Row
<1>3. q.phase = "viewing" /\ q.submission = s /\ q.snap = rows[s]
        /\ q.seen = rows[s].content
  BY IdleRequest DEF Request
<1>4. requests' = [requests EXCEPT ![c] = q] /\ UNCHANGED <<now, rows, reviews>>
  BY DEF View
<1> HIDE DEF q
<1>5. TypeOK'
  BY <1>2, <1>4 DEF IInv, TypeOK
<1>6. VersionNamesRow'
  BY <1>1, <1>3, <1>4 DEF IInv, TypeOK, VersionNamesRow, VersionHolds, RowOf, Row
<1>7. RequestsOK'
  BY <1>3, <1>4 DEF IInv, TypeOK, RequestsOK, Prepared
<1>8. DecisionsArePast' /\ InsertedOnce'
  BY <1>4 DEF IInv, DecisionsArePast, InsertedOnce
<1>. QED
  BY <1>5, <1>6, <1>7, <1>8 DEF IInv

LEMMA GiveUpKeepsIInv ==
  ASSUME IInv, NEW c \in Clients, GiveUp(c)
  PROVE  IInv'
<1>1. requests' = [requests EXCEPT ![c] = Idle] /\ UNCHANGED <<now, rows, reviews>>
  BY DEF GiveUp
<1>2. TypeOK'
  BY <1>1, IdleRequest DEF IInv, TypeOK
<1>3. VersionNamesRow'
  BY <1>1, IdleRequest DEF IInv, TypeOK, VersionNamesRow, VersionHolds, RowOf
<1>4. RequestsOK'
  BY <1>1, IdleRequest DEF IInv, TypeOK, RequestsOK, Prepared
<1>5. DecisionsArePast' /\ InsertedOnce'
  BY <1>1 DEF IInv, DecisionsArePast, InsertedOnce
<1>. QED
  BY <1>2, <1>3, <1>4, <1>5 DEF IInv

(* Whatever gives some rows a next version and leaves the other rows, the  *)
(* requests and the reviews alone leaves every request either still right  *)
(* about its row or with a version that no longer holds.                   *)
LEMMA NewVersionsKeepIInv ==
  ASSUME IInv, rows' \in [Submission -> Row], UNCHANGED <<now, reviews, requests>>,
         \A s \in Submission :
           rows'[s] = rows[s] \/ (/\ rows'[s].version = rows[s].version + 1
                                 /\ rows'[s].status # "ABSENT")
  PROVE  IInv'
<1>1. \A s \in Submission : rows[s].version \in Nat /\ rows'[s].version \in Nat
  BY DEF IInv, TypeOK, Row
<1>2. \A c \in Clients : requests[c].snap.version \in Nat
                        /\ requests[c].submission \in Submission
  BY RequestRow DEF Row, Request
<1>3. TypeOK'
  BY DEF IInv, TypeOK
<1>4. VersionNamesRow'
  <2>. SUFFICES ASSUME NEW c \in Clients, requests[c].phase # "idle"
                PROVE  /\ requests[c].snap.version <= rows'[requests[c].submission].version
                       /\ rows'[requests[c].submission].version = requests[c].snap.version
                            => requests[c].snap = rows'[requests[c].submission]
    BY DEF VersionNamesRow, VersionHolds, RowOf
  <2>1. /\ requests[c].snap.version <= rows[requests[c].submission].version
        /\ rows[requests[c].submission].version = requests[c].snap.version
              => requests[c].snap = rows[requests[c].submission]
    BY DEF IInv, VersionNamesRow, VersionHolds, RowOf
  <2>. QED
    BY <1>1, <1>2, <2>1
<1>5. RequestsOK'
  BY DEF IInv, RequestsOK, Prepared
<1>6. DecisionsArePast'
  <2>. SUFFICES ASSUME NEW r \in reviews
                PROVE  r.revision < rows'[r.submission].version
    BY DEF DecisionsArePast
  <2>1. r.submission \in Submission /\ r.revision \in Nat
    BY DEF IInv, TypeOK, Review
  <2>2. r.revision < rows[r.submission].version
    BY DEF IInv, DecisionsArePast
  <2>. QED
    BY <1>1, <2>1, <2>2
<1>7. InsertedOnce'
  BY <1>1 DEF IInv, InsertedOnce
<1>. QED
  BY <1>3, <1>4, <1>5, <1>6, <1>7 DEF IInv

LEMMA CreateKeepsIInv ==
  ASSUME IInv, NEW s \in Submission, NEW kind \in Kinds, NEW t \in Taken,
         Create(s, kind, t)
  PROVE  IInv'
<1>1. PICK content \in Content, period \in (Nat \X Nat) \cup {<<Null, Null>>} :
        rows' = [rows EXCEPT ![s] =
          [kind |-> kind, content |-> content, startAt |-> period[1],
           endAt |-> period[2], status |-> "PENDING_REVIEW", version |-> 1]]
  BY ConstantsOK DEF Create
<1> DEFINE row == [kind |-> kind, content |-> content, startAt |-> period[1],
                   endAt |-> period[2], status |-> "PENDING_REVIEW", version |-> 1]
<1>2. row \in Row /\ row.version = 1 /\ row.status = "PENDING_REVIEW"
  BY ConstantsOK DEF Row, Instant, Statuses
<1> HIDE DEF row
<1>3. rows' = [rows EXCEPT ![s] = row]
  BY <1>1 DEF row
<1>4. rows \in [Submission -> Row]
  BY DEF IInv, TypeOK
<1>5. rows' \in [Submission -> Row]
  BY <1>2, <1>3, <1>4
<1>6. rows[s].version = 0
  BY DEF Create, IInv, InsertedOnce
<1>7. \A u \in Submission :
        rows'[u] = rows[u] \/ (/\ rows'[u].version = rows[u].version + 1
                              /\ rows'[u].status # "ABSENT")
  BY <1>2, <1>3, <1>4, <1>6
<1>. QED
  BY <1>5, <1>7, NewVersionsKeepIInv DEF Create

LEMMA StatusJobKeepsIInv ==
  ASSUME IInv, NEW t \in Taken, NEW missed \in SUBSET Submission,
         StatusJob(t, missed)
  PROVE  IInv'
<1>1. t \in Nat
  BY DEF IInv, TypeOK, Taken
<1>2. \A s \in Submission : rows[s] \in Row
  BY DEF IInv, TypeOK
<1>3. \A s \in Submission : rows'[s] = rows[s] \/ rows'[s] = Synced(rows[s], t)
  BY DEF StatusJob
<1>4. rows' \in [Submission -> Row]
  BY <1>1, <1>2, SyncedRow DEF StatusJob
<1>5. \A s \in Submission :
        rows'[s] = rows[s] \/ (/\ rows'[s].version = rows[s].version + 1
                              /\ rows'[s].status # "ABSENT")
  BY <1>1, <1>2, <1>3, SyncedRow
<1>. QED
  BY <1>4, <1>5, NewVersionsKeepIInv DEF StatusJob

LEMMA TickKeepsIInv == ASSUME IInv, Tick PROVE IInv'
<1>1. TypeOK'
  BY DEF IInv, TypeOK, Tick
<1>2. VersionNamesRow' /\ DecisionsArePast' /\ InsertedOnce'
  BY DEF IInv, VersionNamesRow, VersionHolds, RowOf, DecisionsArePast,
         InsertedOnce, Tick
<1>3. RequestsOK'
  <2>. SUFFICES ASSUME NEW c \in Clients, requests[c].phase = "writing"
                PROVE  requests[c].next.status = "PUBLISHED"
                         => requests[c].next.startAt <= now'
    BY DEF IInv, RequestsOK, Prepared, Tick
  <2>1. requests[c].next.startAt \in Instant
    BY RequestRow DEF Request, Row
  <2>. QED
    BY <2>1 DEF IInv, TypeOK, RequestsOK, Prepared, Tick, Instant, Null
<1>. QED
  BY <1>1, <1>2, <1>3 DEF IInv

(* The transaction: the row gets its next version, whose decision, if one  *)
(* is recorded, is of the version before.                                  *)
LEMMA CommitKeepsIInv ==
  ASSUME IInv, NEW c \in Clients, Commit(c)
  PROVE  IInv'
<1> DEFINE s == requests[c].submission
           next == requests[c].next
<1>1. /\ s \in Submission /\ next \in Row /\ requests[c] \in Request
      /\ rows \in [Submission -> Row] /\ requests \in [Clients -> Request]
  BY RequestRow DEF Request, IInv, TypeOK
<1>2. /\ next.version = rows[s].version + 1
      /\ next.status # "ABSENT"
      /\ requests[c].snap.version = rows[s].version
  BY DEF Commit, VersionHolds, RowOf, IInv, RequestsOK, Prepared
<1>3. /\ rows' = [rows EXCEPT ![s] = next]
      /\ reviews' = reviews \cup ReviewOf(c)
      /\ requests' = [requests EXCEPT ![c] = Idle]
      /\ now' = now
  BY DEF Commit
<1>4. ReviewOf(c) \subseteq Review
  <2>1. requests[c].snap.version \in Nat /\ requests[c].seen \in Content \cup {None}
        /\ next.startAt \in Instant /\ next.endAt \in Instant
    BY <1>1, RequestRow DEF Request, Row
  <2>2. DecisionOf(requests[c].op) \in {"APPROVED", "REJECTED", "SUSPENDED"}
    BY DEF DecisionOf
  <2>. QED
    BY <1>1, <2>1, <2>2 DEF ReviewOf, Review
<1>5. \A r \in ReviewOf(c) : r.submission = s /\ r.revision = rows[s].version
  BY <1>2 DEF ReviewOf
<1> HIDE DEF s, next
<1>6. TypeOK'
  BY <1>1, <1>3, <1>4, IdleRequest DEF IInv, TypeOK
<1>7. \A u \in Submission : rows[u].version \in Nat
        /\ (rows'[u] = rows[u] \/ (u = s /\ rows'[u].version = rows[u].version + 1))
  BY <1>1, <1>2, <1>3 DEF Row
<1>8. VersionNamesRow'
  <2>. SUFFICES ASSUME NEW d \in Clients, requests'[d].phase # "idle"
                PROVE  /\ requests'[d].snap.version <= RowOf(d)'.version
                       /\ VersionHolds(d)' => requests'[d].snap = RowOf(d)'
    BY DEF VersionNamesRow
  <2>1. d # c /\ requests'[d] = requests[d]
    BY <1>1, <1>3, IdleRequest
  <2>2. /\ requests[d].snap.version <= rows[requests[d].submission].version
        /\ rows[requests[d].submission].version = requests[d].snap.version
              => requests[d].snap = rows[requests[d].submission]
    BY <2>1 DEF IInv, VersionNamesRow, VersionHolds, RowOf
  <2>3. requests[d].submission \in Submission /\ requests[d].snap.version \in Nat
    BY RequestRow DEF Request, Row
  <2>. QED
    BY <1>7, <2>1, <2>2, <2>3 DEF VersionHolds, RowOf
<1>9. RequestsOK'
  BY <1>1, <1>3, IdleRequest DEF IInv, RequestsOK, Prepared
<1>10. DecisionsArePast'
  <2>. SUFFICES ASSUME NEW r \in reviews'
                PROVE  r.revision < rows'[r.submission].version
    BY DEF DecisionsArePast
  <2>1. CASE r \in ReviewOf(c)
    BY <1>1, <1>2, <1>3, <1>5, <1>7, <2>1
  <2>2. CASE r \in reviews
    <3>1. r.submission \in Submission /\ r.revision \in Nat
      BY <2>2 DEF IInv, TypeOK, Review
    <3>2. r.revision < rows[r.submission].version
      BY <2>2 DEF IInv, DecisionsArePast
    <3>. QED
      BY <1>7, <3>1, <3>2
  <2>. QED
    BY <1>3, <2>1, <2>2
<1>11. InsertedOnce'
  BY <1>1, <1>2, <1>3, <1>7 DEF IInv, InsertedOnce
<1>. QED
  BY <1>6, <1>8, <1>9, <1>10, <1>11 DEF IInv

-----------------------------------------------------------------------------
(* The invariant.                                                          *)

LEMMA InitIInv == Init => IInv
<1> SUFFICES ASSUME Init PROVE IInv
  OBVIOUS
<1>1. NoRow \in Row
  BY DEF NoRow, Row, AllKinds, Instant
<1>2. TypeOK
  BY <1>1, IdleRequest DEF Init, TypeOK
<1>3. VersionNamesRow /\ RequestsOK
  BY IdleRequest DEF Init, VersionNamesRow, RequestsOK
<1>4. DecisionsArePast /\ InsertedOnce
  BY DEF Init, DecisionsArePast, InsertedOnce, NoRow
<1>. QED
  BY <1>2, <1>3, <1>4 DEF IInv

LEMMA NextKeepsIInv == IInv /\ [Next]_vars => IInv'
<1> SUFFICES ASSUME IInv, [Next]_vars PROVE IInv'
  OBVIOUS
<1>1. ASSUME NEW s \in Submission, NEW kind \in Kinds, NEW t \in Taken,
             Create(s, kind, t)
      PROVE  IInv'
  BY <1>1, CreateKeepsIInv
<1>2. ASSUME NEW c \in Clients, NEW s \in Submission, View(c, s)
      PROVE  IInv'
  BY <1>2, ViewKeepsIInv
<1>3. ASSUME NEW c \in Owners, OwnerStep(c) PROVE IInv'
  BY <1>3, UpdateKeepsIInv, SubmitKeepsIInv, CancelKeepsIInv, SuspendKeepsIInv
  DEF OwnerStep, Clients
<1>4. ASSUME NEW c \in Reviewers, ReviewerStep(c) PROVE IInv'
  BY <1>4, ApproveKeepsIInv, RejectKeepsIInv, SuspendKeepsIInv
  DEF ReviewerStep, Clients
<1>5. ASSUME NEW c \in Clients, Commit(c) \/ GiveUp(c) PROVE IInv'
  BY <1>5, CommitKeepsIInv, GiveUpKeepsIInv
<1>6. ASSUME NEW t \in Taken, NEW missed \in SUBSET Submission, StatusJob(t, missed)
      PROVE  IInv'
  BY <1>6, StatusJobKeepsIInv
<1>7. CASE Tick
  BY <1>7, TickKeepsIInv
<1>8. CASE UNCHANGED vars
  BY <1>8 DEF IInv, TypeOK, VersionNamesRow, VersionHolds, RowOf, RequestsOK,
              Prepared, DecisionsArePast, InsertedOnce, vars
<1>. QED
  BY <1>1, <1>2, <1>3, <1>4, <1>5, <1>6, <1>7, <1>8 DEF Next

LEMMA SpecIInv == Spec => []IInv
  BY InitIInv, NextKeepsIInv, PTL DEF Spec

(* Every variable keeps its type, whatever the constants.                  *)
THEOREM TypeCorrect == Spec => []TypeOK
<1>1. IInv => TypeOK
  BY DEF IInv
<1>. QED
  BY SpecIInv, <1>1, PTL

(* A version names one state of a row: optimistic locking has no ABA.      *)
THEOREM OptimisticLocking == Spec => []VersionNamesRow
<1>1. IInv => VersionNamesRow
  BY DEF IInv
<1>. QED
  BY SpecIInv, <1>1, PTL

-----------------------------------------------------------------------------
(* The decisions.                                                          *)

(* Handlers change nothing shared before their transaction.                *)
LEMMA StepKinds ==
  ASSUME [Next]_vars
  PROVE  \/ \E s \in Submission, kind \in Kinds, t \in Taken : Create(s, kind, t)
         \/ \E c \in Clients : Commit(c)
         \/ \E t \in Taken, missed \in SUBSET Submission : StatusJob(t, missed)
         \/ Tick
         \/ UNCHANGED <<now, rows, reviews>>
<1>1. ASSUME NEW c, NEW t, Update(c, t) PROVE UNCHANGED <<now, rows, reviews>>
  BY <1>1 DEF Update, Prepare
<1>2. ASSUME NEW c, NEW t, Submit(c, t) \/ Cancel(c, t) \/ Suspend(c, t)
      PROVE  UNCHANGED <<now, rows, reviews>>
  BY <1>2 DEF Submit, Cancel, Suspend, Prepare
<1>3. ASSUME NEW c, NEW t, Approve(c, t) PROVE UNCHANGED <<now, rows, reviews>>
  BY <1>3 DEF Approve, Prepare
<1>4. ASSUME NEW c, Reject(c) \/ GiveUp(c) PROVE UNCHANGED <<now, rows, reviews>>
  BY <1>4 DEF Reject, GiveUp, Prepare
<1>5. ASSUME NEW c, NEW s, View(c, s) PROVE UNCHANGED <<now, rows, reviews>>
  BY <1>5 DEF View
<1>6. CASE UNCHANGED vars
  BY <1>6 DEF vars
<1>. QED
  BY <1>1, <1>2, <1>3, <1>4, <1>5, <1>6 DEF Next, OwnerStep, ReviewerStep

(* Only a commit decides, on the version the row has just then.            *)
LEMMA OnlyCommitsDecide ==
  ASSUME [Next]_vars
  PROVE  reviews' = reviews \/ \E c \in Clients : Commit(c)
  BY StepKinds DEF Create, StatusJob, Tick

LEMMA DecisionsKeep ==
  IInv /\ OneDecisionPerRevision /\ [Next]_vars => OneDecisionPerRevision'
<1> SUFFICES ASSUME IInv, OneDecisionPerRevision, [Next]_vars
             PROVE  OneDecisionPerRevision'
  OBVIOUS
<1>1. CASE reviews' = reviews
  BY <1>1 DEF OneDecisionPerRevision
<1>2. ASSUME NEW c \in Clients, Commit(c)
      PROVE  OneDecisionPerRevision'
  <2> DEFINE s == requests[c].submission
  <2>1. reviews' = reviews \cup ReviewOf(c)
    BY <1>2 DEF Commit
  <2>2. \A r \in ReviewOf(c) : r.submission = s /\ r.revision = rows[s].version
    BY <1>2 DEF ReviewOf, Commit, VersionHolds, RowOf
  <2>3. \A q, r \in ReviewOf(c) : q = r
    BY DEF ReviewOf
  <2>4. \A r \in reviews : r.revision < rows[r.submission].version
                          /\ r.revision \in Nat /\ rows[r.submission].version \in Nat
    BY DEF IInv, DecisionsArePast, TypeOK, Review, Row
  <2>. QED
    BY <2>1, <2>2, <2>3, <2>4 DEF OneDecisionPerRevision
<1>. QED
  BY <1>1, <1>2, OnlyCommitsDecide

(* However many reviewers race, each revision gets at most one decision.   *)
THEOREM AtMostOneDecision == Spec => []OneDecisionPerRevision
<1>1. Init => OneDecisionPerRevision
  BY DEF Init, OneDecisionPerRevision
<1>. QED
  BY SpecIInv, <1>1, DecisionsKeep, PTL DEF Spec

-----------------------------------------------------------------------------
(* What a step does to one row.                                            *)

LEMMA RowStep ==
  ASSUME IInv, [Next]_vars, NEW s \in Submission
  PROVE  \/ rows'[s] = rows[s]
         \/ rows[s].status = "ABSENT" /\ rows'[s].status = "PENDING_REVIEW"
         \/ \E t \in Taken : rows'[s] = Synced(rows[s], t) /\ reviews' = reviews
         \/ \E c \in Clients : /\ Commit(c)
                               /\ requests[c].submission = s
                               /\ rows'[s] = requests[c].next
                               /\ requests[c].snap = rows[s]
                               /\ Prepared(requests[c])
<1>1. ASSUME NEW u \in Submission, NEW kind \in Kinds, NEW t \in Taken,
             Create(u, kind, t)
      PROVE  \/ rows'[s] = rows[s]
             \/ rows[s].status = "ABSENT" /\ rows'[s].status = "PENDING_REVIEW"
  BY <1>1 DEF Create, IInv, TypeOK
<1>2. ASSUME NEW c \in Clients, Commit(c)
      PROVE  \/ rows'[s] = rows[s]
             \/ /\ requests[c].submission = s
                /\ rows'[s] = requests[c].next
                /\ requests[c].snap = rows[s]
                /\ Prepared(requests[c])
  BY <1>2 DEF Commit, IInv, TypeOK, RequestsOK, VersionNamesRow, VersionHolds, RowOf
<1>3. ASSUME NEW t \in Taken, NEW missed \in SUBSET Submission, StatusJob(t, missed)
      PROVE  rows'[s] = rows[s] \/ (rows'[s] = Synced(rows[s], t) /\ reviews' = reviews)
  BY <1>3 DEF StatusJob
<1>4. CASE UNCHANGED rows
  BY <1>4
<1>. QED
  BY <1>1, <1>2, <1>3, <1>4, StepKinds DEF Tick

LEMMA SyncedInv ==
  ASSUME IInv, NEW s \in Submission, NEW t \in Taken
  PROVE  /\ rows[s] \in Row /\ t \in Nat /\ t <= now
         /\ Synced(rows[s], t) \in Row
         /\ \/ Synced(rows[s], t) = rows[s]
            \/ /\ rows[s].status \in Publishable
               /\ Synced(rows[s], t).status \in {"ENDED", "PUBLISHED", "SCHEDULED"}
               /\ Synced(rows[s], t).status = "PUBLISHED" => rows[s].startAt <= t
               /\ Synced(rows[s], t).status = "ENDED" => rows[s].endAt <= t
               /\ rows[s].status = "PUBLISHED" => Synced(rows[s], t).status = "ENDED"
         /\ Synced(rows[s], t).content = rows[s].content
         /\ Synced(rows[s], t).startAt = rows[s].startAt
         /\ Synced(rows[s], t).endAt = rows[s].endAt
<1>1. rows[s] \in Row /\ t \in Nat /\ t <= now
  BY DEF IInv, TypeOK, Taken
<1>. QED
  BY <1>1, SyncedRow

(* A canceled or ended submission stays as it is.                          *)
THEOREM ClosedStaysClosed == Spec => ClosedForever
<1>1. ASSUME IInv, [Next]_vars, NEW s \in Submission,
             rows[s].status \in {"CANCELED", "ENDED"}
      PROVE  rows'[s] = rows[s]
  BY <1>1, RowStep, SyncedInv DEF Prepared, Publishable
<1>2. IInv /\ [Next]_vars =>
        [\A s \in Submission :
           rows[s].status \in {"CANCELED", "ENDED"} => rows'[s] = rows[s]]_rows
  BY <1>1
<1>. QED
  BY SpecIInv, <1>2, PTL DEF Spec, ClosedForever

(* What is published changes only by being suspended or by ending.         *)
THEOREM PublishedStaysFrozen == Spec => PublishedIsFrozen
<1> DEFINE Frozen(s) ==
       /\ rows'[s].content = rows[s].content
       /\ rows'[s].startAt = rows[s].startAt /\ rows'[s].endAt = rows[s].endAt
       /\ rows'[s].status \in {"PUBLISHED", "SUSPENDED", "ENDED"}
<1>1. ASSUME IInv, [Next]_vars, NEW s \in Submission,
             rows[s].status = "PUBLISHED"
      PROVE  Frozen(s)
  BY <1>1, RowStep, SyncedInv DEF Prepared
<1>2. IInv /\ [Next]_vars =>
        [\A s \in Submission : rows[s].status = "PUBLISHED" => Frozen(s)]_rows
  BY <1>1
<1>. QED
  BY SpecIInv, <1>2, PTL DEF Spec, PublishedIsFrozen

(* A published row has started and an ended one is over.                   *)
THEOREM StatusIsTimely == Spec => []StatusTellsTime
<1>1. Init => StatusTellsTime
  BY DEF Init, StatusTellsTime, NoRow
<1>2. IInv /\ StatusTellsTime /\ [Next]_vars => StatusTellsTime'
  <2> SUFFICES ASSUME IInv, StatusTellsTime, [Next]_vars, NEW s \in Submission
               PROVE  /\ rows'[s].status = "PUBLISHED" => rows'[s].startAt <= now'
                      /\ rows'[s].status = "ENDED" => rows'[s].endAt <= now'
    BY DEF StatusTellsTime
  <2>1. now \in Nat /\ (now' = now \/ now' = now + 1)
    BY StepKinds DEF Create, Commit, StatusJob, Tick, IInv, TypeOK
  <2>2. rows[s].startAt \in Instant /\ rows[s].endAt \in Instant
    BY DEF IInv, TypeOK, Row
  <2>3. CASE rows'[s] = rows[s]
    BY <2>1, <2>2, <2>3 DEF StatusTellsTime, Instant, Null
  <2>4. CASE rows'[s].status = "PENDING_REVIEW"
    BY <2>4
  <2>5. ASSUME NEW t \in Taken, rows'[s] = Synced(rows[s], t)
        PROVE  /\ rows'[s].status = "PUBLISHED" => rows'[s].startAt <= now'
               /\ rows'[s].status = "ENDED" => rows'[s].endAt <= now'
    BY <2>1, <2>2, <2>3, <2>5, SyncedInv DEF Instant, Null
  <2>6. ASSUME NEW c \in Clients, rows'[s] = requests[c].next, Prepared(requests[c])
        PROVE  /\ rows'[s].status = "PUBLISHED" => rows'[s].startAt <= now'
               /\ rows'[s].status = "ENDED" => rows'[s].endAt <= now'
    <3>1. requests[c].next.startAt \in Instant
      BY RequestRow DEF Request, Row
    <3>. QED
      BY <2>1, <2>6, <3>1 DEF Prepared, Instant, Null
  <2>. QED
    BY <2>3, <2>4, <2>5, <2>6, RowStep
<1>. QED
  BY SpecIInv, <1>1, <1>2, PTL DEF Spec

(* What the screens may show is what its reviewer saw and approved.        *)
THEOREM ScreensShowWhatWasApproved == Spec => []LiveAsApproved
<1> DEFINE Approved(s) ==
      \E r \in reviews :
        /\ r.submission = s
        /\ r.decision = "APPROVED"
        /\ r.content = rows[s].content
        /\ r.startAt = rows[s].startAt /\ r.endAt = rows[s].endAt
        /\ \A q \in reviews : q.submission = s => q.revision <= r.revision
<1>1. Init => LiveAsApproved
  BY DEF Init, LiveAsApproved, NoRow, Publishable
<1>2. IInv /\ LiveAsApproved /\ [Next]_vars => LiveAsApproved'
  <2> SUFFICES ASSUME IInv, LiveAsApproved, [Next]_vars, NEW s \in Submission,
                      rows'[s].status \in Publishable
               PROVE  Approved(s)'
    BY DEF LiveAsApproved
  <2>1. rows[s].status \in Publishable => Approved(s)
    BY DEF LiveAsApproved
  <2>2. ASSUME \/ rows'[s] = rows[s]
               \/ \E t \in Taken : rows'[s] = Synced(rows[s], t)
        PROVE  /\ rows'[s].content = rows[s].content
               /\ rows'[s].startAt = rows[s].startAt
               /\ rows'[s].endAt = rows[s].endAt
               /\ rows[s].status \in Publishable
    BY <2>2, SyncedInv
  <2>3. CASE /\ reviews' = reviews
             /\ \/ rows'[s] = rows[s]
                \/ \E t \in Taken : rows'[s] = Synced(rows[s], t)
    BY <2>1, <2>2, <2>3
  <2>4. ASSUME NEW c \in Clients, Commit(c), requests[c].submission # s
        PROVE  Approved(s)'
    <3>1. rows'[s] = rows[s]
      BY <2>4 DEF Commit, IInv, TypeOK
    <3>2. reviews' = reviews \cup ReviewOf(c)
      BY <2>4 DEF Commit
    <3>3. \A r \in ReviewOf(c) : r.submission # s
      BY <2>4 DEF ReviewOf
    <3>. QED
      BY <2>1, <3>1, <3>2, <3>3
  <2>5. ASSUME NEW c \in Clients, Commit(c), requests[c].submission = s,
               rows'[s] = requests[c].next, requests[c].snap = rows[s],
               Prepared(requests[c])
        PROVE  Approved(s)'
    <3>1. requests[c].op = "approve" /\ requests[c].seen = requests[c].next.content
      BY <2>5 DEF Prepared
    <3>2. PICK r \in ReviewOf(c) :
            /\ r.submission = s
            /\ r.decision = "APPROVED"
            /\ r.content = rows'[s].content
            /\ r.startAt = rows'[s].startAt /\ r.endAt = rows'[s].endAt
            /\ r.revision = rows[s].version
      BY <2>5, <3>1 DEF ReviewOf, ReviewOps, DecisionOf
    <3>3. reviews' = reviews \cup ReviewOf(c)
      BY <2>5 DEF Commit
    <3>4. \A q \in ReviewOf(c) : q = r
      BY DEF ReviewOf
    <3>5. \A q \in reviews : q.submission = s => q.revision <= rows[s].version
      BY DEF IInv, DecisionsArePast, TypeOK, Review, Row
    <3>6. rows[s].version \in Nat
      BY DEF IInv, TypeOK, Row
    <3>. QED
      BY <3>2, <3>3, <3>4, <3>5, <3>6
  <2>6. ASSUME NEW c \in Clients, Commit(c)
        PROVE  Approved(s)'
    BY <2>4, <2>5, <2>6 DEF Commit, VersionHolds, RowOf, IInv, TypeOK,
                            VersionNamesRow, RequestsOK
  <2>. QED
    BY <2>3, <2>6, RowStep, OnlyCommitsDecide DEF Publishable
<1>. QED
  BY SpecIInv, <1>1, <1>2, PTL DEF Spec

-----------------------------------------------------------------------------
(* Submissions implements Publication.                                     *)

LEMMA OneRowChanges ==
  ASSUME IInv, NEW s \in Submission, NEW row \in Row,
         rows' = [rows EXCEPT ![s] = row]
  PROVE  /\ [u \in Submission |-> PhaseOf(rows[u].status)]' =
              [[u \in Submission |-> PhaseOf(rows[u].status)]
                 EXCEPT ![s] = PhaseOf(row.status)]
         /\ [u \in Submission |-> rows[u].content]' =
              [[u \in Submission |-> rows[u].content] EXCEPT ![s] = row.content]
  BY DEF IInv, TypeOK

LEMMA CreateOffers ==
  ASSUME IInv, NEW s \in Submission, NEW kind \in Kinds, NEW t \in Taken,
         Create(s, kind, t)
  PROVE  Board!Offer(s)
<1>1. PICK content \in Content, period \in (Nat \X Nat) \cup {<<Null, Null>>} :
        rows' = [rows EXCEPT ![s] =
          [kind |-> kind, content |-> content, startAt |-> period[1],
           endAt |-> period[2], status |-> "PENDING_REVIEW", version |-> 1]]
  BY ConstantsOK DEF Create
<1> DEFINE row == [kind |-> kind, content |-> content, startAt |-> period[1],
                   endAt |-> period[2], status |-> "PENDING_REVIEW", version |-> 1]
<1>2. row \in Row /\ row.status = "PENDING_REVIEW" /\ row.content = content
  BY ConstantsOK DEF Row, Instant, Statuses
<1> HIDE DEF row
<1>3. rows' = [rows EXCEPT ![s] = row]
  BY <1>1 DEF row
<1>4. rows[s].status = "ABSENT"
  BY DEF Create
<1>5. PhaseOf(rows[s].status) = "none" /\ PhaseOf(row.status) = "waiting"
  BY <1>2, <1>4 DEF PhaseOf, Publishable, Returned
<1>. QED
  BY <1>2, <1>3, <1>5, OneRowChanges
  DEF Board!Offer, Board!Goes, Board!NewContent

LEMMA CommitMoves ==
  ASSUME IInv, NEW c \in Clients, Commit(c)
  PROVE  Board!Next \/ UNCHANGED Board!vars
<1> DEFINE row == requests[c].next
<1>1. requests[c].submission \in Submission /\ row \in Row
  BY RequestRow DEF Request
<1> PICK s \in Submission : s = requests[c].submission
  BY <1>1
<1>2. rows' = [rows EXCEPT ![s] = row]
  BY DEF Commit
<1>3. BoardMove(rows[s], row)
  BY DEF Commit, IInv, RequestsOK, Prepared, VersionNamesRow, VersionHolds, RowOf
<1> HIDE DEF row
<1> DEFINE phase == [u \in Submission |-> PhaseOf(rows[u].status)]
           content == [u \in Submission |-> rows[u].content]
<1>4. /\ phase' = [phase EXCEPT ![s] = PhaseOf(row.status)]
      /\ content' = [content EXCEPT ![s] = row.content]
  BY <1>1, <1>2, OneRowChanges
<1>5. phase[s] = PhaseOf(rows[s].status) /\ content[s] = rows[s].content
  BY <1>1
<1>6. row.content = rows[s].content => content' = content
  BY <1>4, <1>5
<1> DEFINE Move(from, to) == phase[s] \in from /\ PhaseOf(row.status) = to
<1>7. ASSUME row.content = rows[s].content, Move({"waiting"}, "waiting")
      PROVE  UNCHANGED Board!vars
  BY <1>4, <1>5, <1>6, <1>7 DEF Board!vars
<1>8. ASSUME row.content = rows[s].content, Move({"returned"}, "waiting")
      PROVE  Board!Resubmit(s)
  BY <1>4, <1>6, <1>8 DEF Board!Resubmit, Board!Goes
<1>9. ASSUME row.content = rows[s].content, Move({"waiting"}, "cleared")
      PROVE  Board!Clear(s)
  BY <1>4, <1>6, <1>9 DEF Board!Clear, Board!Goes
<1>10. ASSUME row.content = rows[s].content, Move({"waiting", "cleared"}, "returned")
      PROVE  Board!Return(s)
  BY <1>4, <1>6, <1>10 DEF Board!Return, Board!Goes
<1>11. ASSUME row.content = rows[s].content,
              Move({"waiting", "cleared", "returned"}, "closed")
      PROVE  Board!Withdraw(s)
  BY <1>4, <1>6, <1>11 DEF Board!Withdraw, Board!Goes
<1>12. ASSUME row.content \in Content,
              Move({"waiting", "cleared"}, "waiting") \/ Move({"returned"}, "returned")
      PROVE  Board!Revise(s)
  BY <1>4, <1>12 DEF Board!Revise, Board!Goes, Board!NewContent
<1>13. \/ /\ row.content = rows[s].content
          /\ \/ Move({"waiting"}, "waiting") \/ Move({"returned"}, "waiting")
             \/ Move({"waiting"}, "cleared")
             \/ Move({"waiting", "cleared"}, "returned")
             \/ Move({"waiting", "cleared", "returned"}, "closed")
       \/ /\ row.content \in Content
          /\ Move({"waiting", "cleared"}, "waiting") \/ Move({"returned"}, "returned")
  BY <1>3, <1>5 DEF BoardMove
<1> HIDE DEF Move
<1>14. \/ UNCHANGED Board!vars
       \/ Board!Resubmit(s) \/ Board!Clear(s) \/ Board!Return(s)
       \/ Board!Withdraw(s) \/ Board!Revise(s)
  BY <1>7, <1>8, <1>9, <1>10, <1>11, <1>12, <1>13
<1>. QED
  BY <1>1, <1>14 DEF Board!Next

LEMMA StatusJobExpires ==
  ASSUME IInv, NEW t \in Taken, NEW missed \in SUBSET Submission,
         StatusJob(t, missed)
  PROVE  \E over \in SUBSET Submission : Board!Expire(over)
<1> DEFINE over == {s \in Submission : rows'[s] # rows[s] /\ rows'[s].status = "ENDED"}
           phase == [u \in Submission |-> PhaseOf(rows[u].status)]
<1>1. \A s \in Submission : \/ rows'[s] = rows[s]
                           \/ rows'[s] = Synced(rows[s], t)
  BY DEF StatusJob
<1>2. ASSUME NEW s \in Submission
      PROVE  /\ rows'[s].content = rows[s].content
             /\ s \in over => PhaseOf(rows[s].status) = "cleared"
             /\ PhaseOf(rows'[s].status) =
                  IF s \in over THEN "closed" ELSE PhaseOf(rows[s].status)
  BY <1>1, SyncedInv DEF PhaseOf, Publishable, Returned
<1>3. [u \in Submission |-> rows[u].content]' = [u \in Submission |-> rows[u].content]
  BY <1>2
<1>4. phase' = [s \in Submission |-> IF s \in over THEN "closed" ELSE phase[s]]
  BY <1>2
<1>5. \A s \in over : phase[s] = "cleared"
  BY <1>2
<1>6. Board!Expire(over)
  BY <1>3, <1>4, <1>5 DEF Board!Expire
<1>. QED
  BY <1>6

(* Every behaviour of the handlers, interleaved in any way, is one in which*)
(* each operation takes effect at one instant, and nothing reaches the     *)
(* screens or changes there but by a review.                               *)
THEOREM Refinement == Spec => ImplementsPublication
<1>1. Init => Board!Init
  BY DEF Init, NoRow, PhaseOf, Publishable, Returned, Board!Init
<1>2. IInv /\ [Next]_vars => [Board!Next]_(Board!vars)
  <2> SUFFICES ASSUME IInv, [Next]_vars
               PROVE  Board!Next \/ UNCHANGED Board!vars
    OBVIOUS
  <2>1. ASSUME NEW s \in Submission, NEW kind \in Kinds, NEW t \in Taken,
               Create(s, kind, t)
        PROVE  Board!Next
    BY <2>1, CreateOffers DEF Board!Next
  <2>2. ASSUME NEW t \in Taken, NEW missed \in SUBSET Submission,
               StatusJob(t, missed)
        PROVE  Board!Next
    BY <2>2, StatusJobExpires DEF Board!Next
  <2>3. CASE rows' = rows
    BY <2>3 DEF Board!vars
  <2>. QED
    BY <2>1, <2>2, <2>3, CommitMoves, StepKinds DEF Tick
<1>. QED
  BY SpecIInv, <1>1, <1>2, PTL DEF Spec, ImplementsPublication, Board!Spec

=============================================================================
