---------------------------- MODULE IntakeProofs ----------------------------
(***************************************************************************)
(* The daily limit, the index, the Idempotency-Keys and the paged list of  *)
(* Intake, for any requests, keys, kinds' limit, length of the day, faults *)
(* and items of a page.                                                    *)
(*                                                                         *)
(* WithinLimit is not inductive alone: that there is room for the row to be*)
(* inserted rests on a count made two steps before.  The advisory lock is  *)
(* what keeps the count true (LockHeld, CountIsCurrent), and it is enough  *)
(* although the time was taken before the lock: what is counted is all of  *)
(* the day of that time, and what came after it.                           *)
(*                                                                         *)
(* That a key makes one submission is a matter of accounts: a free key, a  *)
(* request that has claimed it and may still insert or give it back, and a *)
(* submission made each use up one claim, and there is one, plus one for   *)
(* each time the key was renewed (KeyBudget).  That all get one answer     *)
(* follows for keys never renewed, because then the key still holds the    *)
(* request it serves and the row it made (KeyRemembers).                   *)
(*                                                                         *)
(* What a reader of the list has yet to see comes after its cursor         *)
(* (StillToCome), as rows are neither removed nor moved within the list.   *)
(***************************************************************************)
EXTENDS Intake, TLAPS, FiniteSetTheorems

(* What a request that was sent carries.                                   *)
Engaged ==
  \A r \in Requests :
    /\ requests[r].at # "new" => /\ requests[r].key \in Keys
                                 /\ requests[r].draft \in Draft
    /\ requests[r].at = "complete" => requests[r].answer \in Id

(* Between its count and its insert a request holds the advisory lock.     *)
Counting(r) ==
  \/ requests[r].at = "count"
  \/ requests[r].at = "insert" /\ requests[r].draft.limited

LockHeld == \A r \in Requests : Counting(r) => lock = r

(* What it counted is still so.                                            *)
CountIsCurrent ==
  \A r \in Requests :
    requests[r].at = "insert" /\ requests[r].draft.limited =>
      Cardinality(CountedToday(requests[r].now)) < DailyLimit

(* The inductive invariant of the limit.                                   *)
IInv ==
  /\ TypeOK
  /\ Engaged
  /\ LockHeld
  /\ IsFiniteSet(rows)
  /\ CountIsCurrent
  /\ WithinLimit

-----------------------------------------------------------------------------
(* Types.                                                                  *)

(* A time lies in the day that starts before it.                           *)
LEMMA DayStarts ==
  ASSUME NEW t \in Nat
  PROVE  StartOfDay(t) \in Nat /\ StartOfDay(t) <= t
<1>1. DayLength \in Nat \ {0}
  BY IntakeConstantsOK
<1>2. t \div DayLength \in Nat /\ t = DayLength * (t \div DayLength) + (t % DayLength)
  BY <1>1
<1>3. t % DayLength \in Nat
  BY <1>1
<1>4. DayLength * (t \div DayLength) \in Nat /\ DayLength * (t \div DayLength) = StartOfDay(t)
  BY <1>1, <1>2 DEF StartOfDay
<1> DEFINE s == DayLength * (t \div DayLength)
           m == t % DayLength
<1>5. s \in Nat /\ m \in Nat /\ t = s + m
  BY <1>2, <1>3, <1>4
<1> HIDE DEF s, m
<1>6. s <= t
  BY <1>5
<1> QED
  BY <1>4, <1>6 DEF s

LEMMA InitTypes == Init => TypeOK /\ Engaged
<1>1. NoRequest \in Request /\ NoRequest.at = "new"
  BY IntakeConstantsOK DEF NoRequest, Request, Stages
<1>2. NoKey \in Key
  BY DEF Key
<1> QED
  BY <1>1, <1>2, IntakeConstantsOK DEF Init, TypeOK, Engaged

(* A request that moves on stays well formed.                              *)
LEMMA RequestMoves ==
  ASSUME TypeOK, Engaged, NEW r \in Requests, requests[r].at # "new",
         NEW q \in Request, requests' = [requests EXCEPT ![r] = q],
         q.key = requests[r].key, q.draft = requests[r].draft,
         q.at = "complete" => q.answer \in Id
  PROVE  requests' \in [Requests -> Request] /\ Engaged'
  BY DEF TypeOK, Engaged

LEMMA KeyIsKnown ==
  ASSUME Engaged, NEW r \in Requests, requests[r].at # "new"
  PROVE  requests[r].key \in Keys /\ requests[r].draft \in Draft
  BY DEF Engaged

LEMMA GoesMoves ==
  ASSUME TypeOK, Engaged, NEW r \in Requests, requests[r].at # "new",
         NEW stage \in Stages \ {"complete"}, Goes(r, stage)
  PROVE  requests' \in [Requests -> Request] /\ Engaged'
<1> DEFINE q == [requests[r] EXCEPT !.at = stage]
<1>1. requests[r] \in Request
  BY DEF TypeOK
<1>2. q \in Request /\ q.key = requests[r].key /\ q.draft = requests[r].draft /\ q.at # "complete"
  BY <1>1 DEF Request
<1>3. requests' = [requests EXCEPT ![r] = q]
  BY DEF Goes, TypeOK
<1> QED
  BY <1>2, <1>3, RequestMoves

LEMMA EndsMoves ==
  ASSUME TypeOK, Engaged, NEW r \in Requests, requests[r].at # "new",
         NEW answer \in Id \cup {None}, Ends(r, answer)
  PROVE  requests' \in [Requests -> Request] /\ Engaged'
<1> DEFINE q == [requests[r] EXCEPT !.at = "done", !.answer = answer]
<1>1. requests[r] \in Request
  BY DEF TypeOK
<1>2. q \in Request /\ q.key = requests[r].key /\ q.draft = requests[r].draft /\ q.at # "complete"
  BY <1>1 DEF Request, Stages
<1>3. requests' = [requests EXCEPT ![r] = q]
  BY DEF Ends, TypeOK
<1> QED
  BY <1>2, <1>3, RequestMoves

LEMMA FaultCounts ==
  ASSUME TypeOK, Fault
  PROVE  faults' \in 0..MaxFaults
  BY IntakeConstantsOK DEF TypeOK, Fault

LEMMA CompletedBody ==
  ASSUME TypeOK, NEW k \in Keys, keys[k].status = "COMPLETED"
  PROVE  keys[k].body \in Id
  BY DEF TypeOK, Key, NoKey

(* A key that is not free.                                                 *)
Held == [status : {"IN_PROGRESS", "COMPLETED"}, draft : Draft, body : Id \cup {None},
         stale : BOOLEAN, at : 0..MaxTime]

LEMMA KeyIsHeld ==
  ASSUME TypeOK, NEW k \in Keys, keys[k].status # "NONE"
  PROVE  keys[k] \in Held
  BY DEF TypeOK, Key, NoKey, Held

LEMMA SendTypes ==
  ASSUME TypeOK, Engaged, NEW r \in Requests, NEW k \in Keys, NEW draft \in Draft,
         Send(r, k, draft)
  PROVE  TypeOK' /\ Engaged'
<1> DEFINE q == [requests[r] EXCEPT !.at = "claim", !.key = k, !.draft = draft]
<1>1. requests[r] \in Request
  BY DEF TypeOK
<1>2. q \in Request /\ q.at = "claim" /\ q.key = k /\ q.draft = draft
  BY <1>1 DEF Request, Stages
<1>3. requests' = [requests EXCEPT ![r] = q] /\ UNCHANGED <<keys, faults, renewals, Others>>
  BY DEF Send, TypeOK
<1> HIDE DEF q
<1>4. requests' \in [Requests -> Request] /\ Engaged'
  BY <1>2, <1>3 DEF TypeOK, Engaged
<1> QED  BY <1>3, <1>4 DEF TypeOK, Others

LEMMA ClaimTypes ==
  ASSUME TypeOK, Engaged, NEW r \in Requests, Claim(r)
  PROVE  TypeOK' /\ Engaged'
<1> DEFINE k == requests[r].key
<1>1. k \in Keys /\ requests[r].draft \in Draft
  BY KeyIsKnown DEF Claim
<1>2. requests' \in [Requests -> Request] /\ Engaged'
  BY GoesMoves DEF Claim, Stages
<1>3. Claimed(keys[k], requests[r].draft) \in Key
  BY <1>1 DEF Claimed, Key, TypeOK
<1>4. keys' \in [Keys -> Key]
  BY <1>1, <1>3 DEF Claim, TypeOK
<1>5. renewals' \in [Keys -> Nat]
  BY <1>1 DEF Claim, TypeOK
<1> QED
  BY <1>2, <1>4, <1>5 DEF Claim, TypeOK, Others

LEMMA LookTypes ==
  ASSUME TypeOK, Engaged, NEW r \in Requests, Look(r)
  PROVE  TypeOK' /\ Engaged'
<1>1. requests[r].key \in Keys
  BY KeyIsKnown DEF Look
<1>2. requests' \in [Requests -> Request] /\ Engaged'
  BY <1>1, GoesMoves, EndsMoves, CompletedBody DEF Look, Stages
<1> QED
  BY <1>2 DEF Look, TypeOK, Others

LEMMA CompleteTypes ==
  ASSUME TypeOK, Engaged, NEW r \in Requests, Complete(r)
  PROVE  TypeOK' /\ Engaged'
<1> DEFINE k == requests[r].key
<1>1. k \in Keys /\ requests[r].answer \in Id
  BY DEF Complete, Engaged
<1>2. requests' \in [Requests -> Request] /\ Engaged'
  BY GoesMoves DEF Complete, Stages
<1>3. ASSUME keys[k].status # "NONE"
      PROVE  [keys[k] EXCEPT !.status = "COMPLETED", !.body = requests[r].answer] \in Key
  <2>1. keys[k] \in Held
    BY <1>1, <1>3, KeyIsHeld
  <2> QED
    BY <1>1, <2>1 DEF Key, Held
<1>4. keys' \in [Keys -> Key]
  BY <1>1, <1>3 DEF Complete, TypeOK
<1> QED
  BY <1>2, <1>4, FaultCounts DEF Complete, TypeOK, Others

LEMMA ReleaseTypes ==
  ASSUME TypeOK, Engaged, NEW r \in Requests, Release(r)
  PROVE  TypeOK' /\ Engaged'
<1>1. requests' \in [Requests -> Request] /\ Engaged'
  BY GoesMoves DEF Release, Stages
<1>2. keys' \in [Keys -> Key]
  BY DEF Release, TypeOK, Key
<1>3. renewals' \in [Keys -> Nat]
  BY DEF Release, TypeOK
<1> QED
  BY <1>1, <1>2, <1>3, FaultCounts DEF Release, TypeOK, Others

LEMMA DetailTypes ==
  ASSUME TypeOK, Engaged, NEW r \in Requests, DetailFails(r)
  PROVE  TypeOK' /\ Engaged'
<1> DEFINE q == [requests[r] EXCEPT !.at = "unread", !.answer = None]
<1>1. requests[r] \in Request
  BY DEF TypeOK
<1>2. q \in Request /\ q.key = requests[r].key /\ q.draft = requests[r].draft /\ q.at # "complete"
  BY <1>1 DEF Request, Stages
<1>3. requests' = [requests EXCEPT ![r] = q] /\ requests[r].at # "new"
  BY DEF DetailFails, TypeOK
<1>4. requests' \in [Requests -> Request] /\ Engaged'
  BY <1>2, <1>3, RequestMoves
<1> QED
  BY <1>4, FaultCounts DEF DetailFails, TypeOK, KeyVars, Others

LEMMA KeysAgeTypes ==
  ASSUME TypeOK, Engaged, (\E k \in Keys : Stall(k)) \/ DeleteExpired
  PROVE  TypeOK' /\ Engaged'
<1>1. keys' \in [Keys -> Key]
  <2>1. CASE \E k \in Keys : Stall(k)
    <3>1. PICK k \in Keys : Stall(k)
      BY <2>1
    <3>2. keys[k] \in Held /\ keys[k].status = "IN_PROGRESS"
      BY <3>1, KeyIsHeld DEF Stall
    <3>3. keys[k].body = None
      BY <3>2 DEF TypeOK, Key, NoKey
    <3>4. [keys[k] EXCEPT !.stale = TRUE] \in Key
      BY <3>2, <3>3 DEF Key, Held
    <3> QED
      BY <3>1, <3>4 DEF TypeOK, Stall
  <2>2. CASE DeleteExpired
    BY <2>2 DEF DeleteExpired, TypeOK, Key
  <2> QED
    BY <2>1, <2>2
<1>2. renewals' \in [Keys -> Nat]
  BY DEF Stall, DeleteExpired, TypeOK
<1>3. UNCHANGED <<now, faults, requests, rows, lock>>
  BY DEF Stall, DeleteExpired, Others
<1> QED
  BY <1>1, <1>2, <1>3 DEF TypeOK, Engaged

LEMMA EnterTypes ==
  ASSUME TypeOK, Engaged, NEW r \in Requests, Enter(r)
  PROVE  TypeOK' /\ Engaged'
<1>1. requests' \in [Requests -> Request] /\ Engaged'
  <2>1. CASE Goes(r, "release")
    BY <2>1, GoesMoves DEF Enter, Stages
  <2>2. ASSUME NEW stage \in {"lock", "insert"},
               requests' = [requests EXCEPT ![r].now = now, ![r].at = stage]
        PROVE  requests' \in [Requests -> Request] /\ Engaged'
    <3> DEFINE q == [requests[r] EXCEPT !.now = now, !.at = stage]
    <3>1. q \in Request
      BY DEF TypeOK, Request, Stages
    <3>2. q.key = requests[r].key /\ q.draft = requests[r].draft /\ q.at # "complete"
      BY DEF TypeOK, Request
    <3>3. requests' = [requests EXCEPT ![r] = q]
      BY <2>2 DEF TypeOK, Request
    <3> QED
      BY <3>1, <3>2, <3>3, RequestMoves DEF Enter
  <2> QED
    BY <2>1, <2>2 DEF Enter
<1> QED
  BY <1>1 DEF Enter, TypeOK, Others, KeyVars

LEMMA LockTypes ==
  ASSUME TypeOK, Engaged, NEW r \in Requests, Lock(r) \/ CountRows(r)
  PROVE  TypeOK' /\ Engaged'
<1>1. requests' \in [Requests -> Request] /\ Engaged'
  BY GoesMoves DEF Lock, CountRows, Stages
<1>2. lock' \in Requests \cup {None}
  BY DEF Lock, CountRows, Freed, TypeOK
<1> QED
  BY <1>1, <1>2 DEF Lock, CountRows, TypeOK, KeyVars

(* The row that a request inserts.                                         *)
NewRow(r, id) ==
  [id |-> id, key |-> requests[r].key, draft |-> requests[r].draft,
   at |-> requests[r].now, status |-> "OPEN"]

(* An insert adds that row, or none.                                       *)
LEMMA InsertTypes ==
  ASSUME TypeOK, Engaged, NEW r \in Requests, Insert(r)
  PROVE  /\ TypeOK' /\ Engaged'
         /\ \/ rows' = rows
            \/ \E id \in Id : rows' = rows \cup {NewRow(r, id)}
<1>1. requests[r].key \in Keys /\ requests[r].draft \in Draft
  BY KeyIsKnown DEF Insert
<1>2. lock' \in Requests \cup {None}
  BY DEF Insert, Freed, TypeOK
<1>3. CASE Goes(r, "release") /\ UNCHANGED rows /\ (Fault \/ UNCHANGED faults)
  <2>1. requests' \in [Requests -> Request] /\ Engaged'
    BY <1>3, GoesMoves DEF Insert, Stages
  <2> QED
    BY <1>2, <1>3, <2>1, FaultCounts DEF Insert, TypeOK, KeyVars
<1>4. ASSUME NEW id \in Id, rows' = rows \cup {NewRow(r, id)},
             requests' = [requests EXCEPT ![r].at = "complete", ![r].answer = id],
             UNCHANGED faults
      PROVE  TypeOK' /\ Engaged'
  <2> DEFINE q == [requests[r] EXCEPT !.at = "complete", !.answer = id]
  <2>1. q \in Request
    BY DEF TypeOK, Request, Stages
  <2>2. q.key = requests[r].key /\ q.draft = requests[r].draft /\ q.answer \in Id
    BY DEF TypeOK, Request
  <2>3. requests' = [requests EXCEPT ![r] = q]
    BY <1>4 DEF TypeOK, Request
  <2>4. requests' \in [Requests -> Request] /\ Engaged'
    BY <2>1, <2>2, <2>3, RequestMoves DEF Insert
  <2>5. NewRow(r, id) \in Row
    BY <1>1 DEF NewRow, Row, Status, TypeOK, Request
  <2> QED
    BY <1>2, <1>4, <2>4, <2>5 DEF Insert, TypeOK, KeyVars
<1>5. \/ Goes(r, "release") /\ UNCHANGED rows /\ (Fault \/ UNCHANGED faults)
      \/ \E id \in Id : /\ rows' = rows \cup {NewRow(r, id)}
                        /\ requests' = [requests EXCEPT ![r].at = "complete", ![r].answer = id]
                        /\ UNCHANGED faults
  BY DEF Insert, NewRow
<1> QED
  BY <1>3, <1>4, <1>5

LEMMA DiesTypes ==
  ASSUME TypeOK, Engaged, NEW r \in Requests, Dies(r)
  PROVE  TypeOK' /\ Engaged'
<1>1. Ends(r, None)
  BY DEF Dies, Ends
<1>2. requests' \in [Requests -> Request] /\ Engaged'
  BY <1>1, EndsMoves DEF Dies
<1> QED
  BY <1>2, FaultCounts DEF Dies, Freed, TypeOK, KeyVars

(* A row that moves keeps what the limit counts, and has none to count.    *)
LEMMA MoveTypes ==
  ASSUME TypeOK, Engaged, NEW row \in rows, Moves(row) \/ Renotice(row)
  PROVE  /\ TypeOK' /\ Engaged'
         /\ \E new \in Row : /\ rows' = (rows \ {row}) \cup {new}
                             /\ ~row.draft.limited /\ ~new.draft.limited
                             /\ new.id = row.id /\ new.key = row.key
<1>1. row \in Row /\ row.draft \in Draft
  BY DEF TypeOK, Row
<1>2. ~row.draft.limited
  BY <1>1 DEF Moves, Renotice, Draft
<1>3. \E new \in Row : /\ ~new.draft.limited /\ Becomes(row, new)
                       /\ new.id = row.id /\ new.key = row.key
  <2>1. CASE Moves(row)
    <3>1. PICK status \in Status : Becomes(row, [row EXCEPT !.status = status])
      BY <2>1 DEF Moves
    <3> DEFINE new == [row EXCEPT !.status = status]
    <3>2. new \in Row /\ new.draft = row.draft /\ new.id = row.id /\ new.key = row.key
      BY <1>1 DEF Row
    <3> QED
      BY <1>2, <3>1, <3>2
  <2>2. CASE Renotice(row)
    <3>1. PICK notice \in Notices : Becomes(row, [row EXCEPT !.draft.notice = notice])
      BY <2>2 DEF Renotice
    <3> DEFINE draft == [row.draft EXCEPT !.notice = notice]
           new == [row EXCEPT !.draft = draft]
    <3>2. draft \in Draft /\ ~draft.limited
      BY <1>1, <1>2 DEF Draft
    <3>3. [row EXCEPT !.draft.notice = notice] = new
      BY <1>1 DEF Row
    <3>4. new \in Row /\ new.draft = draft /\ new.id = row.id /\ new.key = row.key
      BY <1>1, <3>2 DEF Row
    <3> QED
      BY <3>1, <3>2, <3>3, <3>4
  <2> QED
    BY <2>1, <2>2
<1>4. PICK new \in Row : /\ ~new.draft.limited /\ Becomes(row, new)
                         /\ new.id = row.id /\ new.key = row.key
  BY <1>3
<1> QED
  BY <1>2, <1>4 DEF Becomes, TypeOK, Engaged, KeyVars

LEMMA OtherTypes ==
  ASSUME TypeOK, Engaged, ReadPage \/ Tick \/ UNCHANGED vars
  PROVE  TypeOK' /\ Engaged'
  BY IntakeConstantsOK DEF ReadPage, Tick, vars, TypeOK, Engaged, KeyVars

LEMMA TypesStep == TypeOK /\ Engaged /\ [Next]_vars => TypeOK' /\ Engaged'
  BY SendTypes, ClaimTypes, LookTypes, CompleteTypes, ReleaseTypes, DetailTypes, KeysAgeTypes,
     EnterTypes, LockTypes, InsertTypes, DiesTypes, MoveTypes, OtherTypes
  DEF Next, Step

(* Every state is well typed, and a request carries what it was sent with  *)
(* (SubmissionsService.create under IdempotencyService).                   *)
THEOREM IntakeTypeCorrect == Spec => []TypeOK
<1>1. Init => TypeOK /\ Engaged
  BY InitTypes
<1>2. TypeOK /\ Engaged /\ [Next]_vars => (TypeOK /\ Engaged)'
  BY TypesStep
<1> QED
  BY <1>1, <1>2, PTL DEF Spec

-----------------------------------------------------------------------------
(* The lock.                                                               *)

(* Who does not count after its step may keep or give back the lock.       *)
LEMMA LeavesLock ==
  ASSUME TypeOK, LockHeld, NEW r \in Requests, NEW q,
         requests' = [requests EXCEPT ![r] = q],
         q.at # "count", q.at = "insert" => ~q.draft.limited,
         lock' = lock \/ Freed(r)
  PROVE  LockHeld'
<1> SUFFICES ASSUME NEW s \in Requests, Counting(s)'
             PROVE  lock' = s
  BY DEF LockHeld
<1>1. s # r
  BY DEF Counting, TypeOK
<1>2. requests'[s] = requests[s]
  BY <1>1 DEF TypeOK
<1>3. Counting(s)
  BY <1>2 DEF Counting
<1>4. lock = s
  BY <1>3 DEF LockHeld
<1> QED
  BY <1>1, <1>4 DEF Freed

LEMMA LeavesByGoing ==
  ASSUME TypeOK, LockHeld, NEW r \in Requests, NEW stage \in Stages \ {"count", "insert"},
         Goes(r, stage), lock' = lock \/ Freed(r)
  PROVE  LockHeld'
<1> DEFINE q == [requests[r] EXCEPT !.at = stage]
<1>1. requests' = [requests EXCEPT ![r] = q] /\ q.at = stage
  BY DEF Goes, TypeOK, Request
<1> QED
  BY <1>1, LeavesLock

LEMMA LeavesByEnding ==
  ASSUME TypeOK, LockHeld, NEW r \in Requests, NEW stage \in {"done", "complete", "unread"},
         NEW answer,
         requests' = [requests EXCEPT ![r].at = stage, ![r].answer = answer],
         lock' = lock \/ Freed(r)
  PROVE  LockHeld'
<1> DEFINE q == [requests[r] EXCEPT !.at = stage, !.answer = answer]
<1>1. requests' = [requests EXCEPT ![r] = q] /\ q.at = stage
  BY DEF TypeOK, Request
<1> QED
  BY <1>1, LeavesLock

(* The lock is had by who counts, whatever step is taken.                  *)
LEMMA LockStep ==
  ASSUME TypeOK, Engaged, LockHeld, [Next]_vars
  PROVE  LockHeld'
<1>1. ASSUME UNCHANGED <<requests, lock>>
      PROVE  LockHeld'
  BY <1>1 DEF LockHeld, Counting
<1>2. ASSUME NEW r \in Requests, NEW k \in Keys, NEW draft \in Draft, Send(r, k, draft)
      PROVE  LockHeld'
  <2> DEFINE q == [requests[r] EXCEPT !.at = "claim", !.key = k, !.draft = draft]
  <2>1. requests' = [requests EXCEPT ![r] = q] /\ q.at = "claim" /\ lock' = lock
    BY <1>2 DEF Send, TypeOK, Request, Others
  <2> QED
    BY <2>1, LeavesLock
<1>3. ASSUME NEW r \in Requests, Claim(r) \/ Look(r) \/ Complete(r) \/ Release(r)
      PROVE  LockHeld'
  <2>1. lock' = lock
    BY <1>3 DEF Claim, Look, Complete, Release, Others
  <2>2. \/ \E stage \in Stages \ {"count", "insert"} : Goes(r, stage)
        \/ \E answer : Ends(r, answer)
    BY <1>3 DEF Claim, Look, Complete, Release, Stages
  <2> QED
    BY <2>1, <2>2, LeavesByGoing, LeavesByEnding DEF Ends
<1>4. ASSUME NEW r \in Requests, Enter(r)
      PROVE  LockHeld'
  <2>1. lock' = lock
    BY <1>4 DEF Enter, Others
  <2>2. CASE Goes(r, "release")
    BY <2>1, <2>2, LeavesByGoing DEF Stages
  <2>3. CASE ~Goes(r, "release")
    <3> DEFINE q == [requests[r] EXCEPT !.now = now,
                       !.at = IF requests[r].draft.limited THEN "lock" ELSE "insert"]
    <3>1. requests' = [requests EXCEPT ![r] = q]
      BY <1>4, <2>3 DEF Enter, TypeOK, Request
    <3>2. q.at # "count" /\ (q.at = "insert" => ~q.draft.limited)
      BY DEF TypeOK, Request
    <3> QED
      BY <2>1, <3>1, <3>2, LeavesLock
  <2> QED
    BY <2>2, <2>3
<1>5. ASSUME NEW r \in Requests, Lock(r)
      PROVE  LockHeld'
  <2>1. \A s \in Requests : ~Counting(s)
    BY <1>5, IntakeConstantsOK DEF Lock, LockFree, LockHeld
  <2>2. \A s \in Requests : s # r => requests'[s] = requests[s]
    BY <1>5 DEF Lock, Goes, TypeOK
  <2>3. lock' = r
    BY <1>5 DEF Lock
  <2> QED
    BY <2>1, <2>2, <2>3 DEF LockHeld, Counting
<1>6. ASSUME NEW r \in Requests, CountRows(r)
      PROVE  LockHeld'
  <2>1. CASE Goes(r, "release") /\ Freed(r)
    BY <2>1, LeavesByGoing DEF Stages
  <2>2. CASE Goes(r, "insert") /\ UNCHANGED lock
    <3>1. lock = r
      BY <1>6 DEF CountRows, LockHeld, Counting
    <3>2. \A s \in Requests : s # r => requests'[s] = requests[s]
      BY <2>2 DEF Goes, TypeOK
    <3> QED
      BY <2>2, <3>1, <3>2 DEF LockHeld, Counting
  <2> QED
    BY <1>6, <2>1, <2>2 DEF CountRows
<1>7. ASSUME NEW r \in Requests, Insert(r)
      PROVE  LockHeld'
  <2>1. \/ Goes(r, "release")
        \/ \E id \in Id : requests' = [requests EXCEPT ![r].at = "complete", ![r].answer = id]
    BY <1>7 DEF Insert
  <2>2. Freed(r)
    BY <1>7 DEF Insert
  <2> QED
    BY <2>1, <2>2, LeavesByGoing, LeavesByEnding DEF Stages
<1>8. ASSUME NEW r \in Requests, Dies(r)
      PROVE  LockHeld'
  BY <1>8, LeavesByEnding DEF Dies
<1>10. ASSUME NEW r \in Requests, DetailFails(r)
       PROVE  LockHeld'
  BY <1>10, LeavesByEnding DEF DetailFails, Others
<1>9. ASSUME \/ \E k \in Keys : Stall(k)
             \/ DeleteExpired
             \/ \E row \in rows : Moves(row) \/ Renotice(row)
             \/ ReadPage \/ Tick \/ UNCHANGED vars
      PROVE  UNCHANGED <<requests, lock>>
  BY <1>9 DEF Stall, DeleteExpired, Moves, Renotice, Becomes, ReadPage, Tick, Others, vars
<1> QED
  BY <1>1, <1>2, <1>3, <1>4, <1>5, <1>6, <1>7, <1>8, <1>9, <1>10 DEF Next, Step

-----------------------------------------------------------------------------
(* The limit.                                                              *)

(* What the limit counts.                                                  *)
Limited == {row \in rows : row.draft.limited}

(* The steps that leave the submissions alone.                             *)
RowsUntouched ==
  \/ \E r \in Requests :
       \/ \E k \in Keys, draft \in Draft : Send(r, k, draft)
       \/ Claim(r) \/ Look(r) \/ Enter(r) \/ Lock(r) \/ CountRows(r)
       \/ Complete(r) \/ Release(r) \/ DetailFails(r) \/ Dies(r)
  \/ \E k \in Keys : Stall(k)
  \/ DeleteExpired \/ ReadPage \/ Tick \/ UNCHANGED vars

LEMMA UntouchedRows == RowsUntouched => UNCHANGED rows
  BY DEF RowsUntouched, Send, Claim, Look, Enter, Lock, CountRows, Complete, Release, DetailFails,
     Dies, Stall, DeleteExpired, ReadPage, Tick, Others, vars

(* What it counts changes by the insert of one who holds the lock only.    *)
LEMMA LimitedStep ==
  ASSUME TypeOK, Engaged, LockHeld, [Next]_vars
  PROVE  \/ Limited' = Limited
         \/ \E r \in Requests, id \in Id :
              /\ Insert(r) /\ requests[r].draft.limited /\ lock = r
              /\ Limited' = Limited \cup {NewRow(r, id)}
<1>1. ASSUME UNCHANGED rows
      PROVE  Limited' = Limited
  BY <1>1 DEF Limited
<1>2. ASSUME NEW r \in Requests, NEW id \in Id, Insert(r), rows' = rows \cup {NewRow(r, id)}
      PROVE  IF requests[r].draft.limited
             THEN lock = r /\ Limited' = Limited \cup {NewRow(r, id)}
             ELSE Limited' = Limited
  <2>1. NewRow(r, id).draft = requests[r].draft
    BY DEF NewRow
  <2>2. requests[r].draft.limited => lock = r
    BY <1>2 DEF Insert, LockHeld, Counting
  <2> QED
    BY <1>2, <2>1, <2>2 DEF Limited
<1>3. ASSUME NEW row \in rows, Moves(row) \/ Renotice(row)
      PROVE  Limited' = Limited
  <2>1. PICK new \in Row : /\ rows' = (rows \ {row}) \cup {new}
                           /\ ~row.draft.limited /\ ~new.draft.limited
    BY <1>3, MoveTypes
  <2> QED
    BY <2>1 DEF Limited
<1>4. ASSUME NEW r \in Requests, Insert(r)
      PROVE  rows' = rows \/ \E id \in Id : rows' = rows \cup {NewRow(r, id)}
  BY <1>4, InsertTypes
<1>5. ASSUME RowsUntouched
      PROVE  UNCHANGED rows
  BY <1>5, UntouchedRows
<1> QED
  BY <1>1, <1>2, <1>3, <1>4, <1>5 DEF Next, Step, RowsUntouched

(* The rows stay finitely many.                                            *)
LEMMA FiniteStep ==
  ASSUME TypeOK, Engaged, IsFiniteSet(rows), [Next]_vars
  PROVE  IsFiniteSet(rows)'
<1>1. \/ rows' = rows
      \/ \E r \in Requests, id \in Id : rows' = rows \cup {NewRow(r, id)}
      \/ \E row \in rows, new \in Row : rows' = (rows \ {row}) \cup {new}
  BY InsertTypes, MoveTypes, UntouchedRows DEF Next, Step, RowsUntouched
<1>2. \A S, x : IsFiniteSet(S) => IsFiniteSet(S \cup {x})
  BY FS_AddElement
<1>3. \A row : IsFiniteSet(rows \ {row})
  BY FS_Subset
<1>4. ASSUME NEW row \in rows, NEW new \in Row, rows' = (rows \ {row}) \cup {new}
      PROVE  IsFiniteSet(rows')
  BY <1>2, <1>3, <1>4
<1>5. ASSUME NEW r \in Requests, NEW id \in Id, rows' = rows \cup {NewRow(r, id)}
      PROVE  IsFiniteSet(rows')
  BY <1>2, <1>5
<1> QED
  BY <1>1, <1>4, <1>5

(* The request whose insert is next is the one that counted, or comes from *)
(* its count: its time is still the one it counted with.                   *)
LEMMA CountedOrCounts ==
  ASSUME TypeOK, Engaged, [Next]_vars, NEW s \in Requests,
         requests'[s].at = "insert", requests'[s].draft.limited
  PROVE  /\ requests'[s].now = requests[s].now
         /\ \/ requests[s].at = "insert" /\ requests[s].draft.limited /\ ~Insert(s)
            \/ CountRows(s) /\ Cardinality(CountedToday(requests[s].now)) < DailyLimit
<1>1. requests[s] \in Request
  BY DEF TypeOK
<1>2. ASSUME UNCHANGED requests
      PROVE  requests'[s] = requests[s]
  BY <1>2
<1>3. ASSUME Insert(s)
      PROVE  FALSE
  <2>1. requests'[s].at = "release" \/ requests'[s].at = "complete"
    BY <1>1, <1>3 DEF Insert, Goes, TypeOK, Request
  <2> QED
    BY <2>1
<1>4. ASSUME NEW r \in Requests,
             \/ \E k \in Keys, draft \in Draft : Send(r, k, draft)
             \/ Step(r) \/ Dies(r)
      PROVE  \/ requests'[s] = requests[s]
             \/ r = s /\ CountRows(s) /\ Goes(s, "insert")
  <2>1. CASE r # s
    <3>1. requests'[s] = requests[s]
      BY <1>4, <2>1 DEF Send, Step, Claim, Look, Enter, Lock, CountRows, Insert, Complete,
         Release, DetailFails, Dies, Goes, Ends, TypeOK
    <3> QED
      BY <3>1
  <2>2. CASE r = s
    <3>1. CASE (\E k \in Keys, draft \in Draft : Send(r, k, draft)) \/ Dies(r)
      <4>1. ASSUME NEW k, NEW draft, Send(s, k, draft)
            PROVE  requests'[s].at = "claim"
        BY <1>1, <4>1 DEF Send, TypeOK, Request
      <4>2. ASSUME Dies(s)
            PROVE  requests'[s].at = "done"
        BY <1>1, <4>2 DEF Dies, TypeOK, Request
      <4> QED
        BY <2>2, <3>1, <4>1, <4>2
    <3>2. CASE \/ Claim(r) \/ Look(r) \/ Lock(r) \/ Complete(r) \/ Release(r)
               \/ DetailFails(r)
      <4>1. requests'[s].at # "insert"
        BY <1>1, <2>2, <3>2 DEF Claim, Look, Lock, Complete, Release, DetailFails, Goes, Ends,
           TypeOK, Request
      <4> QED
        BY <4>1
    <3>3. CASE Enter(r)
      <4>1. requests'[s].draft = requests[s].draft
        BY <1>1, <2>2, <3>3 DEF Enter, Goes, TypeOK, Request
      <4>2. requests'[s].at \in {"release", "lock"}
        BY <1>1, <2>2, <3>3, <4>1 DEF Enter, Goes, TypeOK, Request
      <4> QED
        BY <4>2
    <3>4. CASE CountRows(r)
      <4>1. Goes(s, "insert") \/ Goes(s, "release")
        BY <2>2, <3>4 DEF CountRows
      <4>2. ~Goes(s, "release")
        BY <1>1 DEF Goes, TypeOK, Request
      <4> QED
        BY <2>2, <3>4, <4>1, <4>2
    <3> QED
      BY <1>3, <1>4, <2>2, <3>1, <3>2, <3>3, <3>4 DEF Step
  <2> QED
    BY <2>1, <2>2
<1>5. \/ requests'[s] = requests[s]
      \/ CountRows(s) /\ Goes(s, "insert")
  <2>1. ASSUME \/ \E k \in Keys : Stall(k)
               \/ DeleteExpired
               \/ \E row \in rows : Moves(row) \/ Renotice(row)
               \/ ReadPage \/ Tick \/ UNCHANGED vars
        PROVE  UNCHANGED requests
    BY <2>1 DEF Stall, DeleteExpired, Moves, Renotice, Becomes, ReadPage, Tick, Others, vars
  <2> QED
    BY <1>2, <1>4, <2>1 DEF Next
<1>6. CASE requests'[s] = requests[s]
  BY <1>3, <1>6
<1>7. CASE CountRows(s) /\ Goes(s, "insert")
  <2>1. requests'[s].now = requests[s].now
    BY <1>1, <1>7 DEF Goes, TypeOK, Request
  <2>2. ~Goes(s, "release")
    BY <1>1, <1>7 DEF Goes, TypeOK, Request
  <2> QED
    BY <1>7, <2>1, <2>2 DEF CountRows
<1> QED
  BY <1>5, <1>6, <1>7

(* What was counted stays as it is while somebody counts: another insert of*)
(* the limited kind would need the lock.                                   *)
LEMMA CountStep ==
  ASSUME IInv, [Next]_vars
  PROVE  CountIsCurrent'
<1> SUFFICES ASSUME NEW s \in Requests,
                    requests'[s].at = "insert", requests'[s].draft.limited
             PROVE  Cardinality({row \in Limited' : row.at >= StartOfDay(requests'[s].now)})
                      < DailyLimit
  <2>1. ASSUME NEW s \in Requests
        PROVE  CountedToday(requests[s].now)'
                 = {row \in Limited' : row.at >= StartOfDay(requests'[s].now)}
    BY DEF CountedToday, Limited, StartOfDay
  <2> QED
    BY <2>1 DEF CountIsCurrent
<1> DEFINE t == requests[s].now
<1>1. requests'[s].now = t
  BY CountedOrCounts DEF IInv
<1>2. CountedToday(t) = {row \in Limited : row.at >= StartOfDay(t)}
  BY DEF CountedToday, Limited
<1>3. Cardinality(CountedToday(t)) < DailyLimit
  BY CountedOrCounts DEF IInv, CountIsCurrent
<1>4. Limited' = Limited
  <2>1. CASE CountRows(s)
    BY <2>1 DEF CountRows, Limited
  <2>2. CASE requests[s].at = "insert" /\ requests[s].draft.limited /\ ~Insert(s)
    <3>1. lock = s
      BY <2>2 DEF IInv, LockHeld, Counting
    <3> QED
      BY <2>2, <3>1, LimitedStep DEF IInv
  <2> QED
    BY <2>1, <2>2, CountedOrCounts DEF IInv
<1> QED
  BY <1>1, <1>2, <1>3, <1>4

(* A set grows by one at most when one is added.                           *)
LEMMA OneMore ==
  ASSUME NEW S, NEW x, IsFiniteSet(S)
  PROVE  IsFiniteSet(S \cup {x}) /\ Cardinality(S \cup {x}) <= Cardinality(S) + 1
<1>1. Cardinality(S) \in Nat
  BY FS_CardinalityType
<1>2. /\ IsFiniteSet(S \cup {x})
      /\ Cardinality(S \cup {x}) = IF x \in S THEN Cardinality(S) ELSE Cardinality(S) + 1
  BY FS_AddElement
<1> QED
  BY <1>1, <1>2

(* The insert that follows a count adds one to a day that has room for it: *)
(* what is of that day is among what was counted.                          *)
LEMMA WithinStep ==
  ASSUME IInv, [Next]_vars
  PROVE  WithinLimit'
<1> DEFINE Day(set, t) == {row \in set : StartOfDay(row.at) = StartOfDay(t)}
<1>1. MaxTime \in Nat /\ DailyLimit \in Nat
  BY IntakeConstantsOK
<1>2. \A t \in 0..MaxTime : Cardinality(Day(Limited, t)) <= DailyLimit
  <2>1. \A t \in 0..MaxTime :
          Day(Limited, t)
            = {row \in rows : row.draft.limited /\ StartOfDay(row.at) = StartOfDay(t)}
    BY DEF Limited
  <2> QED
    BY <2>1 DEF IInv, WithinLimit
<1> SUFFICES ASSUME NEW t \in 0..MaxTime
             PROVE  Cardinality(Day(Limited', t)) <= DailyLimit
  <2>1. \A t \in 0..MaxTime :
          Day(Limited', t)
            = {row \in rows' : row.draft.limited /\ StartOfDay(row.at) = StartOfDay(t)}
    BY DEF Limited
  <2> QED
    BY <2>1 DEF WithinLimit, StartOfDay
<1>3. CASE Limited' = Limited
  BY <1>2, <1>3
<1>4. ASSUME NEW r \in Requests, NEW id \in Id, Insert(r), requests[r].draft.limited,
             Limited' = Limited \cup {NewRow(r, id)}
      PROVE  Cardinality(Day(Limited', t)) <= DailyLimit
  <2> DEFINE n == requests[r].now
             new == NewRow(r, id)
  <2>1. n \in Nat /\ new.at = n
    BY DEF IInv, TypeOK, Request, NewRow
  <2>2. Cardinality(CountedToday(n)) < DailyLimit
    BY <1>4 DEF Insert, IInv, CountIsCurrent
  <2>3. CASE StartOfDay(n) # StartOfDay(t)
    <3>1. Day(Limited', t) = Day(Limited, t)
      BY <1>4, <2>1, <2>3
    <3> QED
      BY <1>2, <3>1
  <2>4. CASE StartOfDay(n) = StartOfDay(t)
    <3>1. Day(Limited, t) \subseteq CountedToday(n)
      <4>1. ASSUME NEW row \in Day(Limited, t)
            PROVE  row \in CountedToday(n)
        <5>1. row \in rows /\ row.draft.limited /\ StartOfDay(row.at) = StartOfDay(n)
          BY <2>4 DEF Limited
        <5>2. row.at \in Nat
          BY <5>1 DEF IInv, TypeOK, Row
        <5>3. row.at >= StartOfDay(row.at)
          BY <5>2, DayStarts
        <5> QED
          BY <5>1, <5>3 DEF CountedToday
      <4> QED
        BY <4>1
    <3>2. Day(Limited', t) \subseteq CountedToday(n) \cup {new}
      BY <1>4, <3>1
    <3>3. IsFiniteSet(CountedToday(n))
      BY FS_Subset DEF IInv, CountedToday
    <3>4. /\ IsFiniteSet(CountedToday(n) \cup {new})
          /\ Cardinality(CountedToday(n) \cup {new}) <= Cardinality(CountedToday(n)) + 1
      BY <3>3, OneMore
    <3>5. Cardinality(Day(Limited', t)) <= Cardinality(CountedToday(n) \cup {new})
      BY <3>2, <3>4, FS_Subset
    <3> QED
      <4>1. /\ Cardinality(CountedToday(n)) \in Nat
            /\ Cardinality(CountedToday(n) \cup {new}) \in Nat
            /\ Cardinality(Day(Limited', t)) \in Nat
        BY <3>2, <3>3, <3>4, FS_Subset, FS_CardinalityType
      <4> HIDE DEF Day
      <4> QED
        BY <1>1, <2>2, <3>4, <3>5, <4>1
  <2> QED
    BY <2>3, <2>4
<1> QED
  BY <1>3, <1>4, LimitedStep DEF IInv

(* No day has more submissions of the limited kind than it may, for any    *)
(* number of requests, limit, length of the day and interleaving with the  *)
(* clock (assertDailyLimit).                                               *)
THEOREM DailyLimitHolds == Spec => []WithinLimit
<1>1. Init => IInv
  <2> SUFFICES ASSUME Init
               PROVE  IInv
    OBVIOUS
  <2>1. TypeOK /\ Engaged
    BY InitTypes
  <2>2. rows = {} /\ \A r \in Requests : requests[r].at = "new"
    BY DEF Init, NoRequest
  <2>3. IsFiniteSet(rows)
    BY <2>2, FS_EmptySet
  <2>4. LockHeld /\ CountIsCurrent
    BY <2>2 DEF LockHeld, Counting, CountIsCurrent
  <2>5. WithinLimit
    <3>1. \A t \in 0..MaxTime :
            {row \in rows : row.draft.limited /\ StartOfDay(row.at) = StartOfDay(t)} = {}
      BY <2>2
    <3>2. Cardinality({}) = 0 /\ DailyLimit \in Nat
      BY FS_EmptySet, IntakeConstantsOK
    <3> QED
      BY <3>1, <3>2 DEF WithinLimit
  <2> QED
    BY <2>1, <2>3, <2>4, <2>5 DEF IInv
<1>2. IInv /\ [Next]_vars => IInv'
  BY TypesStep, LockStep, FiniteStep, CountStep, WithinStep DEF IInv
<1>3. IInv => WithinLimit
  BY DEF IInv
<1> QED
  BY <1>1, <1>2, <1>3, PTL DEF Spec

-----------------------------------------------------------------------------
(* The unique index.                                                       *)

(* Rows that come or change are not taken: the index alone keeps a notice  *)
(* to one submission, whoever writes and in whatever order.                *)
LEMMA IndexStep ==
  ASSUME TypeOK, Engaged, OneOpenPerNotice, [Next]_vars
  PROVE  OneOpenPerNotice'
<1>1. ASSUME UNCHANGED rows
      PROVE  OneOpenPerNotice'
  BY <1>1 DEF OneOpenPerNotice
<1>2. ASSUME NEW set \in SUBSET rows, NEW new, rows' = set \cup {new},
             InIndex(new) => ~Taken(new.draft.notice, set)
      PROVE  OneOpenPerNotice'
  BY <1>2 DEF OneOpenPerNotice, InIndex, Taken
<1>3. ASSUME NEW r \in Requests, Insert(r)
      PROVE  OneOpenPerNotice'
  <2>1. CASE UNCHANGED rows
    BY <1>1, <2>1
  <2>2. ASSUME ~Taken(requests[r].draft.notice, rows), NEW id, rows' = rows \cup {NewRow(r, id)}
        PROVE  OneOpenPerNotice'
    <3>1. NewRow(r, id).draft = requests[r].draft
      BY DEF NewRow
    <3> QED
      BY <1>2, <2>2, <3>1
  <2> QED
    BY <1>3, <2>1, <2>2 DEF Insert, NewRow
<1>4. ASSUME NEW row \in rows, Moves(row) \/ Renotice(row)
      PROVE  OneOpenPerNotice'
  <2>1. PICK new : Becomes(row, new)
    BY <1>4 DEF Moves, Renotice
  <2> QED
    BY <1>2, <2>1 DEF Becomes
<1>5. ASSUME RowsUntouched
      PROVE  UNCHANGED rows
  BY <1>5, UntouchedRows
<1> QED
  BY <1>1, <1>3, <1>4, <1>5 DEF Next, Step, RowsUntouched

(* A notice never has two submissions on their way to the screen, for any  *)
(* number of requests and notices (submissions_ziggle_notice_id_active_uq).*)
THEOREM NoticeHasOneOpen == Spec => []OneOpenPerNotice
<1>1. Init => TypeOK /\ Engaged /\ OneOpenPerNotice
  BY InitTypes DEF Init, OneOpenPerNotice
<1>2. TypeOK /\ Engaged /\ OneOpenPerNotice /\ [Next]_vars
        => (TypeOK /\ Engaged /\ OneOpenPerNotice)'
  BY TypesStep, IndexStep
<1> QED
  BY <1>1, <1>2, PTL DEF Spec

-----------------------------------------------------------------------------
(* The keys.                                                               *)

(* What a key made.                                                        *)
RowsOf(k) == {row \in rows : row.key = k}

(* Who has claimed a key and may still insert, or give it back.            *)
Working  == {"enter", "lock", "count", "insert", "release"}
Users(k) == {r \in Requests : requests[r].key = k /\ requests[r].at \in Working}

(* A key that may be claimed without being taken over.                     *)
Free(k) == IF keys[k].status = "NONE" THEN 1 ELSE 0

(* A row, a request at work and a key that is free each stand for one claim*)
(* that the key allows, or allowed.                                        *)
KeyBudget ==
  \A k \in Keys : Cardinality(RowsOf(k)) + Cardinality(Users(k)) + Free(k) <= 1 + renewals[k]

-----------------------------------------------------------------------------
(* Who uses a key.                                                         *)

LEMMA UsersFinite ==
  ASSUME NEW k
  PROVE  IsFiniteSet(Users(k)) /\ Cardinality(Users(k)) \in Nat
         /\ IsFiniteSet(Users(k)') /\ Cardinality(Users(k)') \in Nat
<1>1. Users(k) \subseteq Requests /\ Users(k)' \subseteq Requests
  BY DEF Users
<1> QED
  BY <1>1, IntakeConstantsOK, FS_Subset, FS_CardinalityType

LEMMA RowsFinite ==
  ASSUME IsFiniteSet(rows), NEW k
  PROVE  IsFiniteSet(RowsOf(k)) /\ Cardinality(RowsOf(k)) \in Nat
  BY FS_Subset, FS_CardinalityType DEF RowsOf

(* What a step of one request does to who uses a key.                      *)
LEMMA UsersStep ==
  ASSUME TypeOK, NEW r \in Requests, NEW q \in Request,
         requests' = [requests EXCEPT ![r] = q], NEW k
  PROVE  Users(k)' = IF q.key = k /\ q.at \in Working THEN Users(k) \cup {r} ELSE Users(k) \ {r}
  BY DEF TypeOK, Users

LEMMA StayingUser ==
  ASSUME TypeOK, NEW r \in Requests, NEW q \in Request,
         requests' = [requests EXCEPT ![r] = q], NEW k,
         (q.key = k /\ q.at \in Working) <=> (requests[r].key = k /\ requests[r].at \in Working)
  PROVE  Users(k)' = Users(k)
<1>1. CASE q.key = k /\ q.at \in Working
  BY <1>1, UsersStep DEF Users
<1>2. CASE ~(q.key = k /\ q.at \in Working)
  BY <1>2, UsersStep DEF Users
<1> QED
  BY <1>1, <1>2

LEMMA LeavingUser ==
  ASSUME TypeOK, NEW r \in Requests, NEW q \in Request,
         requests' = [requests EXCEPT ![r] = q], NEW k, q.at \notin Working
  PROVE  /\ Cardinality(Users(k)') <= Cardinality(Users(k))
         /\ r \in Users(k) => Cardinality(Users(k)') = Cardinality(Users(k)) - 1
<1>1. Users(k)' = Users(k) \ {r}
  BY UsersStep
<1>2. Cardinality(Users(k) \ {r})
        = IF r \in Users(k) THEN Cardinality(Users(k)) - 1 ELSE Cardinality(Users(k))
  BY UsersFinite, FS_RemoveElement
<1> QED
  BY <1>1, <1>2, UsersFinite

LEMMA JoiningUser ==
  ASSUME TypeOK, NEW r \in Requests, NEW q \in Request,
         requests' = [requests EXCEPT ![r] = q], NEW k,
         q.key = k, q.at \in Working
  PROVE  Cardinality(Users(k)') <= Cardinality(Users(k)) + 1
<1>1. Users(k)' = Users(k) \cup {r}
  BY UsersStep
<1> QED
  BY <1>1, UsersFinite, OneMore

-----------------------------------------------------------------------------
(* The budget.                                                             *)

LEMMA SendBudget ==
  ASSUME TypeOK, KeyBudget, NEW r \in Requests, NEW k0 \in Keys, NEW draft \in Draft,
         Send(r, k0, draft)
  PROVE  KeyBudget'
<1> DEFINE q == [requests[r] EXCEPT !.at = "claim", !.key = k0, !.draft = draft]
<1>1. q \in Request /\ q.at = "claim"
  BY DEF TypeOK, Request, Stages
<1>2. requests' = [requests EXCEPT ![r] = q]
  BY DEF Send, TypeOK, Request
<1>3. requests[r].at = "new"
  BY DEF Send
<1>4. \A k \in Keys : Users(k)' = Users(k)
  BY <1>1, <1>2, <1>3, StayingUser DEF Working
<1>5. UNCHANGED <<keys, renewals, rows>>
  BY DEF Send, Others
<1> QED
  BY <1>4, <1>5 DEF KeyBudget, RowsOf, Free

(* A request whose stage alone changes.                                    *)
LEMMA GoesAs ==
  ASSUME TypeOK, NEW r \in Requests, NEW stage \in Stages, Goes(r, stage)
  PROVE  \E q \in Request : /\ requests' = [requests EXCEPT ![r] = q]
                            /\ q.at = stage /\ q.key = requests[r].key
                            /\ q.draft = requests[r].draft /\ q.answer = requests[r].answer
<1> DEFINE q == [requests[r] EXCEPT !.at = stage]
<1>1. q \in Request
  BY DEF TypeOK, Request
<1>2. /\ requests' = [requests EXCEPT ![r] = q]
      /\ q.at = stage /\ q.key = requests[r].key
      /\ q.draft = requests[r].draft /\ q.answer = requests[r].answer
  BY DEF Goes, TypeOK, Request
<1> QED
  BY <1>1, <1>2

(* A request that has its answer.                                          *)
Concludes(r, stage, answer) ==
  requests' = [requests EXCEPT ![r].at = stage, ![r].answer = answer]

LEMMA EndsAs ==
  ASSUME TypeOK, NEW r \in Requests, NEW stage \in Stages,
         NEW answer \in Id \cup {None}, Concludes(r, stage, answer)
  PROVE  \E q \in Request : /\ requests' = [requests EXCEPT ![r] = q]
                            /\ q.at = stage /\ q.key = requests[r].key
                            /\ q.draft = requests[r].draft /\ q.answer = answer
<1> DEFINE q == [requests[r] EXCEPT !.at = stage, !.answer = answer]
<1>1. q \in Request
  BY DEF TypeOK, Request, Stages
<1>2. /\ requests' = [requests EXCEPT ![r] = q]
      /\ q.at = stage /\ q.key = requests[r].key
      /\ q.draft = requests[r].draft /\ q.answer = answer
  BY DEF Concludes, TypeOK, Request
<1> QED
  BY <1>1, <1>2

(* Which key a request at work uses.                                       *)
LEMMA UserOfKey ==
  ASSUME Engaged, NEW r \in Requests, requests[r].at \in Working
  PROVE  requests[r].key \in Keys /\ r \in Users(requests[r].key)
  BY DEF Engaged, Working, Users

(* Who waits for a key, or has done with it, does not use it.              *)
LEMMA WaitingBudget ==
  ASSUME TypeOK, Engaged, KeyBudget, NEW r \in Requests,
         \/ Claim(r) /\ Goes(r, "look")
         \/ Look(r)
         \/ Complete(r)
  PROVE  KeyBudget'
<1>1. PICK q \in Request : /\ requests' = [requests EXCEPT ![r] = q]
                           /\ q.at \in {"look", "claim", "done"}
  <2>1. \/ \E stage \in {"look", "claim", "done"} : Goes(r, stage)
        \/ \E answer \in Id \cup {None} : Ends(r, answer)
    <3>1. ASSUME Look(r)
          PROVE  requests[r].key \in Keys
      BY <3>1, KeyIsKnown DEF Look
    <3> QED
      BY <3>1, CompletedBody DEF Claim, Look, Complete
  <2>2. {"look", "claim", "done"} \subseteq Stages
    BY DEF Stages
  <2>3. CASE \E stage \in {"look", "claim", "done"} : Goes(r, stage)
    BY <2>2, <2>3, GoesAs
  <2>4. ASSUME NEW answer \in Id \cup {None}, Ends(r, answer)
        PROVE  \E q \in Request : requests' = [requests EXCEPT ![r] = q] /\ q.at = "done"
    <3>1. Concludes(r, "done", answer)
      BY <2>4 DEF Ends, Concludes
    <3> QED
      BY <3>1, EndsAs DEF Stages
  <2> QED
    BY <2>1, <2>3, <2>4
<1>2. requests[r].at \in {"claim", "look", "complete"}
  BY DEF Claim, Look, Complete
<1>3. \A k \in Keys : Users(k)' = Users(k)
  BY <1>1, <1>2, StayingUser DEF Working
<1>4. UNCHANGED <<renewals, rows>>
  <2>1. CASE Claim(r) /\ Goes(r, "look")
    <3>1. requests'[r].at = "look"
      BY <2>1, GoesAs DEF Stages, TypeOK
    <3>2. ~Goes(r, "enter")
      BY <3>1 DEF Goes, TypeOK, Request
    <3> QED
      BY <2>1, <3>2 DEF Claim, Others
  <2>2. CASE Look(r) \/ Complete(r)
    BY <2>2 DEF Look, Complete, Others
  <2> QED
    BY <2>1, <2>2
<1>5. \A k \in Keys : Free(k)' = Free(k)
  <2>1. CASE Claim(r) /\ Goes(r, "look")
    <3>1. ~Goes(r, "enter")
      BY <2>1 DEF Goes, TypeOK, Request
    <3> QED
      BY <2>1, <3>1 DEF Claim, Free
  <2>2. CASE Look(r)
    BY <2>2 DEF Look, Free
  <2>3. CASE Complete(r)
    <3>1. requests[r].key \in Keys
      BY <2>3, KeyIsKnown DEF Complete
    <3>2. \A k \in Keys : (keys'[k].status = "NONE") <=> (keys[k].status = "NONE")
      <4>1. ASSUME NEW k \in Keys, keys[k].status # "NONE"
            PROVE  [keys[k] EXCEPT !.status = "COMPLETED",
                                   !.body = requests[r].answer].status = "COMPLETED"
        BY <4>1, KeyIsHeld DEF Held
      <4> QED
        BY <2>3, <3>1, <4>1 DEF Complete, TypeOK
    <3> QED
      BY <3>2 DEF Free
  <2> QED
    BY <2>1, <2>2, <2>3
<1> QED
  BY <1>3, <1>4, <1>5 DEF KeyBudget, RowsOf

(* A claim takes the free key, or is one renewal more.                     *)
LEMMA ClaimBudget ==
  ASSUME TypeOK, Engaged, IsFiniteSet(rows), KeyBudget, NEW r \in Requests,
         Claim(r), ~Goes(r, "look")
  PROVE  KeyBudget'
<1>1. PICK k0 \in Keys : k0 = requests[r].key
  BY KeyIsKnown DEF Claim
<1>2. /\ MayClaim(keys[k0], requests[r].draft)
      /\ keys' = [keys EXCEPT ![k0] = Claimed(@, requests[r].draft)]
      /\ renewals' = [renewals EXCEPT ![k0] = @ +
           (IF keys[k0].status # "NONE" /\ (keys[k0].stale \/ Expired(keys[k0])) THEN 1 ELSE 0)]
      /\ Goes(r, "enter") /\ rows' = rows
  BY <1>1 DEF Claim, Others
<1>3. PICK q \in Request : /\ requests' = [requests EXCEPT ![r] = q]
                           /\ q.at = "enter" /\ q.key = k0
  BY <1>1, <1>2, GoesAs DEF Stages
<1>4. ASSUME NEW k \in Keys, k # k0
      PROVE  Users(k)' = Users(k) /\ Free(k)' = Free(k) /\ renewals'[k] = renewals[k]
  <2>1. Users(k)' = Users(k)
    BY <1>1, <1>3, <1>4, StayingUser
  <2> QED
    BY <1>2, <1>4, <2>1 DEF Free, TypeOK
<1>5. /\ Cardinality(Users(k0)') <= Cardinality(Users(k0)) + 1
      /\ Free(k0)' = 0
      /\ renewals'[k0] = renewals[k0] + 1 - Free(k0)
  <2>1. Cardinality(Users(k0)') <= Cardinality(Users(k0)) + 1
    BY <1>3, JoiningUser DEF Working
  <2>2. keys'[k0].status = "IN_PROGRESS"
    BY <1>1, <1>2 DEF Claimed, TypeOK
  <2>3. keys[k0].status # "NONE" => keys[k0].stale \/ Expired(keys[k0])
    BY <1>2 DEF MayClaim, Abandoned
  <2>4. renewals[k0] \in Nat
    BY <1>1 DEF TypeOK
  <2> QED
    BY <1>1, <1>2, <2>1, <2>2, <2>3, <2>4 DEF Free, TypeOK
<1>6. ASSUME NEW k \in Keys
      PROVE  Cardinality(RowsOf(k)') + Cardinality(Users(k)') + Free(k)' <= 1 + renewals'[k]
  <2>1. RowsOf(k)' = RowsOf(k)
    BY <1>2 DEF RowsOf
  <2>2. /\ Cardinality(RowsOf(k)) \in Nat /\ Cardinality(Users(k)) \in Nat
        /\ Cardinality(Users(k)') \in Nat /\ renewals[k] \in Nat /\ Free(k) \in Nat
    BY RowsFinite, UsersFinite DEF TypeOK, Free
  <2>3. Cardinality(RowsOf(k)) + Cardinality(Users(k)) + Free(k) <= 1 + renewals[k]
    BY DEF KeyBudget
  <2>4. CASE k = k0
    BY <1>5, <2>1, <2>2, <2>3, <2>4
  <2>5. CASE k # k0
    BY <1>4, <2>1, <2>3, <2>5
  <2> QED
    BY <2>4, <2>5
<1> QED
  BY <1>6 DEF KeyBudget

LEMMA WorkBudget ==
  ASSUME TypeOK, Engaged, KeyBudget, NEW r \in Requests,
         Enter(r) \/ Lock(r) \/ CountRows(r)
  PROVE  KeyBudget'
<1>1. \E q \in Request : /\ requests' = [requests EXCEPT ![r] = q]
                         /\ q.at \in Working /\ q.key = requests[r].key
  <2>1. CASE \E stage \in {"count", "insert", "release"} : Goes(r, stage)
    <3>1. {"count", "insert", "release"} \subseteq Stages \cap Working
      BY DEF Stages, Working
    <3> QED
      BY <2>1, <3>1, GoesAs
  <2>2. CASE requests' = [requests EXCEPT ![r].now = now,
                            ![r].at = IF requests[r].draft.limited THEN "lock" ELSE "insert"]
    <3> DEFINE q == [requests[r] EXCEPT !.now = now,
                       !.at = IF requests[r].draft.limited THEN "lock" ELSE "insert"]
    <3>1. q \in Request /\ q.at \in Working /\ q.key = requests[r].key
      BY DEF TypeOK, Request, Stages, Working
    <3>2. requests' = [requests EXCEPT ![r] = q]
      BY <2>2 DEF TypeOK, Request
    <3> QED
      BY <3>1, <3>2
  <2> QED
    BY <2>1, <2>2 DEF Enter, Lock, CountRows
<1>2. requests[r].at \in Working
  BY DEF Enter, Lock, CountRows, Working
<1>3. \A k \in Keys : Users(k)' = Users(k)
  BY <1>1, <1>2, StayingUser
<1>4. UNCHANGED <<keys, renewals, rows>>
  BY DEF Enter, Lock, CountRows, Others, KeyVars
<1> QED
  BY <1>3, <1>4 DEF KeyBudget, RowsOf, Free

(* Who inserts is replaced by its row.                                     *)
LEMMA InsertBudget ==
  ASSUME TypeOK, Engaged, IsFiniteSet(rows), KeyBudget, NEW r \in Requests, Insert(r)
  PROVE  KeyBudget'
<1>1. PICK k0 \in Keys : k0 = requests[r].key /\ r \in Users(k0)
  BY UserOfKey DEF Insert, Working
<1>2. UNCHANGED <<keys, renewals>>
  BY DEF Insert, KeyVars
<1>3. CASE Goes(r, "release") /\ UNCHANGED rows
  <2>1. PICK q \in Request : /\ requests' = [requests EXCEPT ![r] = q]
                             /\ q.at = "release" /\ q.key = requests[r].key
    BY <1>3, GoesAs DEF Stages
  <2>2. q.at \in Working /\ requests[r].at \in Working
    BY <2>1 DEF Insert, Working
  <2>3. \A k \in Keys : Users(k)' = Users(k)
    BY <2>1, <2>2, StayingUser
  <2> QED
    BY <1>2, <1>3, <2>3 DEF KeyBudget, RowsOf, Free
<1>4. ASSUME NEW id \in Id, rows' = rows \cup {NewRow(r, id)},
             requests' = [requests EXCEPT ![r].at = "complete", ![r].answer = id]
      PROVE  KeyBudget'
  <2>1. PICK q \in Request : requests' = [requests EXCEPT ![r] = q] /\ q.at = "complete"
    <3>1. Concludes(r, "complete", id)
      BY <1>4 DEF Concludes
    <3> QED
      BY <3>1, EndsAs DEF Stages
  <2>2. \A k : /\ Cardinality(Users(k)') <= Cardinality(Users(k))
               /\ r \in Users(k) => Cardinality(Users(k)') = Cardinality(Users(k)) - 1
    BY <2>1, LeavingUser DEF Working
  <2>3. NewRow(r, id).key = k0
    BY <1>1 DEF NewRow
  <2> SUFFICES ASSUME NEW k \in Keys
               PROVE  Cardinality(RowsOf(k)') + Cardinality(Users(k)') + Free(k)'
                        <= 1 + renewals'[k]
    BY DEF KeyBudget
  <2>4. /\ Cardinality(RowsOf(k)) \in Nat /\ Cardinality(Users(k)) \in Nat
        /\ Cardinality(Users(k)') \in Nat /\ renewals[k] \in Nat
        /\ Free(k) \in Nat /\ Free(k)' = Free(k)
    BY <1>2, RowsFinite, UsersFinite DEF TypeOK, Free
  <2>5. Cardinality(RowsOf(k)) + Cardinality(Users(k)) + Free(k) <= 1 + renewals[k]
    BY DEF KeyBudget
  <2>6. CASE k = k0
    <3>1. RowsOf(k)' = RowsOf(k) \cup {NewRow(r, id)}
      BY <1>4, <2>3, <2>6 DEF RowsOf
    <3>2. /\ Cardinality(RowsOf(k)') <= Cardinality(RowsOf(k)) + 1
          /\ Cardinality(RowsOf(k)') \in Nat
      BY <3>1, RowsFinite, OneMore, FS_CardinalityType
    <3>3. Cardinality(Users(k)') = Cardinality(Users(k)) - 1
      BY <1>1, <2>2, <2>6
    <3> QED
      BY <1>2, <2>4, <2>5, <3>2, <3>3
  <2>7. CASE k # k0
    <3>1. RowsOf(k)' = RowsOf(k)
      BY <1>4, <2>3, <2>7 DEF RowsOf
    <3> QED
      BY <1>2, <2>2, <2>4, <2>5, <3>1
  <2> QED
    BY <2>6, <2>7
<1> QED
  BY <1>3, <1>4 DEF Insert, NewRow

(* Who gives the key back, whoever holds it now, is replaced by a free key.*)
LEMMA ReleaseBudget ==
  ASSUME TypeOK, Engaged, IsFiniteSet(rows), KeyBudget, NEW r \in Requests,
         Release(r) \/ DetailFails(r) \/ Dies(r)
  PROVE  KeyBudget'
<1>1. PICK q \in Request : requests' = [requests EXCEPT ![r] = q] /\ q.at \in {"done", "unread"}
  <2>1. CASE Release(r)
    BY <2>1, GoesAs DEF Release, Stages
  <2>2. CASE Dies(r)
    <3>1. Concludes(r, "done", None)
      BY <2>2 DEF Dies, Concludes
    <3> QED
      BY <3>1, EndsAs DEF Stages
  <2>3. CASE DetailFails(r)
    <3>1. Concludes(r, "unread", None)
      BY <2>3 DEF DetailFails, Concludes
    <3> QED
      BY <3>1, EndsAs DEF Stages
  <2> QED
    BY <2>1, <2>2, <2>3
<1>2. UNCHANGED rows
  BY DEF Release, DetailFails, Dies, Others
<1>3. \A k : /\ Cardinality(Users(k)') <= Cardinality(Users(k))
             /\ r \in Users(k) => Cardinality(Users(k)') = Cardinality(Users(k)) - 1
  BY <1>1, LeavingUser DEF Working
<1> SUFFICES ASSUME NEW k \in Keys
             PROVE  Cardinality(RowsOf(k)') + Cardinality(Users(k)') + Free(k)' <= 1 + renewals'[k]
  BY DEF KeyBudget
<1>4. RowsOf(k)' = RowsOf(k)
  BY <1>2 DEF RowsOf
<1>5. /\ Cardinality(RowsOf(k)) \in Nat /\ Cardinality(Users(k)) \in Nat
      /\ Cardinality(Users(k)') \in Nat /\ renewals[k] \in Nat
      /\ Free(k) \in {0, 1} /\ Free(k)' \in {0, 1}
      /\ renewals'[k] \in Nat /\ renewals'[k] >= renewals[k]
  BY RowsFinite, UsersFinite DEF TypeOK, Free, Release, DetailFails, Dies, KeyVars
<1>6. Cardinality(RowsOf(k)) + Cardinality(Users(k)) + Free(k) <= 1 + renewals[k]
  BY DEF KeyBudget
<1>7. CASE r \in Users(k)
  BY <1>2, <1>3, <1>4, <1>5, <1>6, <1>7
<1>8. CASE r \notin Users(k)
  <2>1. Free(k)' + renewals[k] <= Free(k) + renewals'[k]
    <3>1. CASE Release(r) /\ requests[r].key = k
      <4>1. requests[r].at = "unread"
        BY <1>8, <3>1 DEF Release, Users, Working
      <4> QED
        BY <3>1, <4>1 DEF Release, TypeOK, Free
    <3>2. CASE Release(r) /\ requests[r].key # k
      <4>1. keys'[k] = keys[k]
        BY <3>2 DEF Release, TypeOK
      <4> QED
        BY <1>5, <4>1 DEF Free
    <3>3. CASE DetailFails(r) \/ Dies(r)
      <4>1. UNCHANGED <<keys, renewals>>
        BY <3>3 DEF DetailFails, Dies, KeyVars
      <4> QED
        BY <1>5, <4>1 DEF Free
    <3> QED
      BY <3>1, <3>2, <3>3
  <2> QED
    BY <1>3, <1>4, <1>5, <1>6, <2>1
<1> QED
  BY <1>7, <1>8

(* A key that is forgotten is free, and one renewal more.                  *)
LEMMA AgeingBudget ==
  ASSUME TypeOK, IsFiniteSet(rows), KeyBudget, (\E k \in Keys : Stall(k)) \/ DeleteExpired
  PROVE  KeyBudget'
<1>1. UNCHANGED <<requests, rows>>
  BY DEF Stall, DeleteExpired, Others
<1> SUFFICES ASSUME NEW k \in Keys
             PROVE  Cardinality(RowsOf(k)) + Cardinality(Users(k)) + Free(k)' <= 1 + renewals'[k]
  BY <1>1 DEF KeyBudget, RowsOf, Users
<1>2. Free(k)' + renewals[k] <= Free(k) + renewals'[k]
  <2>1. CASE \E c \in Keys : Stall(c)
    BY <2>1 DEF Stall, Free, TypeOK
  <2>2. CASE DeleteExpired
    BY <2>2 DEF DeleteExpired, Free, TypeOK
  <2> QED
    BY <2>1, <2>2
<1>3. /\ Cardinality(RowsOf(k)) \in Nat /\ Cardinality(Users(k)) \in Nat
      /\ renewals[k] \in Nat /\ renewals'[k] \in Nat /\ Free(k) \in Nat /\ Free(k)' \in Nat
  BY RowsFinite, UsersFinite DEF TypeOK, Free, Stall, DeleteExpired
<1>4. Cardinality(RowsOf(k)) + Cardinality(Users(k)) + Free(k) <= 1 + renewals[k]
  BY DEF KeyBudget
<1> QED
  BY <1>2, <1>3, <1>4

LEMMA MoveBudget ==
  ASSUME TypeOK, Engaged, IsFiniteSet(rows), KeyBudget, NEW row \in rows,
         Moves(row) \/ Renotice(row)
  PROVE  KeyBudget'
<1>1. PICK new \in Row : rows' = (rows \ {row}) \cup {new} /\ new.key = row.key
  BY MoveTypes
<1>2. UNCHANGED <<requests, keys, renewals>>
  BY DEF Moves, Renotice, Becomes, KeyVars
<1> SUFFICES ASSUME NEW k \in Keys
             PROVE  Cardinality(RowsOf(k)') + Cardinality(Users(k)) + Free(k) <= 1 + renewals[k]
  BY <1>2 DEF KeyBudget, Users, Free
<1>3. Cardinality(RowsOf(k)') \in Nat /\ Cardinality(RowsOf(k)') <= Cardinality(RowsOf(k))
  <2>1. CASE row.key = k
    <3>1. RowsOf(k)' = (RowsOf(k) \ {row}) \cup {new} /\ row \in RowsOf(k)
      BY <1>1, <2>1 DEF RowsOf
    <3>2. /\ IsFiniteSet(RowsOf(k) \ {row})
          /\ Cardinality(RowsOf(k) \ {row}) = Cardinality(RowsOf(k)) - 1
      BY <3>1, RowsFinite, FS_RemoveElement
    <3>3. /\ IsFiniteSet(RowsOf(k)')
          /\ Cardinality(RowsOf(k)') <= Cardinality(RowsOf(k) \ {row}) + 1
      BY <3>1, <3>2, OneMore
    <3>4. Cardinality(RowsOf(k)) \in Nat /\ Cardinality(RowsOf(k)') \in Nat
      BY <3>3, RowsFinite, FS_CardinalityType
    <3> QED
      BY <3>2, <3>3, <3>4
  <2>2. CASE row.key # k
    <3>1. RowsOf(k)' = RowsOf(k)
      BY <1>1, <2>2 DEF RowsOf
    <3> QED
      BY <3>1, RowsFinite
  <2> QED
    BY <2>1, <2>2
<1>4. /\ Cardinality(RowsOf(k)) \in Nat /\ Cardinality(Users(k)) \in Nat
      /\ renewals[k] \in Nat /\ Free(k) \in Nat
  BY RowsFinite, UsersFinite DEF TypeOK, Free
<1>5. Cardinality(RowsOf(k)) + Cardinality(Users(k)) + Free(k) <= 1 + renewals[k]
  BY DEF KeyBudget
<1> QED
  BY <1>3, <1>4, <1>5

LEMMA BudgetStep ==
  ASSUME TypeOK, Engaged, IsFiniteSet(rows), KeyBudget, [Next]_vars
  PROVE  KeyBudget'
<1>1. CASE ReadPage \/ Tick \/ UNCHANGED vars
  <2>1. UNCHANGED <<keys, requests, rows, renewals>>
    BY <1>1 DEF ReadPage, Tick, vars, KeyVars
  <2> QED
    BY <2>1 DEF KeyBudget, RowsOf, Users, Free
<1> QED
  BY <1>1, SendBudget, WaitingBudget, ClaimBudget, WorkBudget, InsertBudget, ReleaseBudget,
     AgeingBudget, MoveBudget
  DEF Next, Step

-----------------------------------------------------------------------------
(* The answers.                                                            *)

(* Who has not finished has no answer.                                     *)
NoAnswerYet ==
  \A r \in Requests :
    requests[r].at \notin {"complete", "done"} => requests[r].answer = None

(* Who works or has worked under a key that was never taken over.          *)
Served(q) ==
  \/ q.at \in Working \cup {"complete"}
  \/ q.at = "done" /\ q.answer \in Id

(* The answer is a submission made with the key ...                        *)
Answered(k, id) == \E row \in RowsOf(k) : row.id = id

(* ... and the key was claimed for what was sent.                          *)
Fits(k, q) ==
  /\ keys[k].status # "NONE"
  /\ keys[k].draft = q.draft
  /\ q.answer \in Id => Answered(k, q.answer)

(* What a key knows of those it served.                                    *)
Memory(k) ==
  /\ \A r \in Requests :
       requests[r].key = k /\ Served(requests[r]) => Fits(k, requests[r])
  /\ keys[k].status = "COMPLETED" => Answered(k, keys[k].body)

(* A key that was never taken over or forgotten remembers the one request  *)
(* that it serves, and answers with the one submission there is.           *)
KeyRemembers == \A k \in Keys : renewals[k] = 0 => Memory(k)

(* The inductive invariant of the keys.                                    *)
KInv ==
  /\ TypeOK
  /\ Engaged
  /\ IsFiniteSet(rows)
  /\ KeyBudget
  /\ NoAnswerYet
  /\ KeyRemembers

(* One row at most: what the budget says of a key never renewed.           *)
LEMMA OneRow ==
  ASSUME TypeOK, IsFiniteSet(rows), KeyBudget, NEW k \in Keys, renewals[k] = 0,
         NEW a \in RowsOf(k), NEW b \in RowsOf(k)
  PROVE  a = b /\ keys[k].status # "NONE" /\ Users(k) = {}
<1>1. /\ Cardinality(RowsOf(k)) \in Nat /\ Cardinality(Users(k)) \in Nat
      /\ Free(k) \in {0, 1}
  BY RowsFinite, UsersFinite DEF Free
<1>2. Cardinality(RowsOf(k)) + Cardinality(Users(k)) + Free(k) <= 1
  BY DEF KeyBudget
<1>3. Cardinality(RowsOf(k)) # 0
  BY RowsFinite, FS_EmptySet
<1>4. Cardinality(RowsOf(k)) = 1 /\ Cardinality(Users(k)) = 0 /\ Free(k) = 0
  BY <1>1, <1>2, <1>3
<1>5. Users(k) = {}
  BY <1>4, UsersFinite, FS_EmptySet
<1>6. PICK x : RowsOf(k) = {x}
  BY <1>4, RowsFinite, FS_Singleton
<1> QED
  BY <1>4, <1>5, <1>6 DEF Free

LEMMA NoneIsNoId == None \notin Id
<1>1. Cardinality(Requests) \in Nat
  BY IntakeConstantsOK, FS_CardinalityType
<1> QED
  BY <1>1, IntakeConstantsOK DEF Id

(* What a step must leave for a key to remember.                           *)
LEMMA MemoryKept ==
  ASSUME KeyRemembers, NEW k \in Keys, renewals[k] = 0,
         keys[k].status # "NONE" => keys'[k].status # "NONE" /\ keys'[k].draft = keys[k].draft,
         keys'[k].status = "COMPLETED" => Answered(k, keys[k].body)',
         \A row \in RowsOf(k) : \E new \in RowsOf(k)' : new.id = row.id,
         \A s \in Requests : requests'[s].key = k /\ Served(requests[s])'
           => requests'[s] = requests[s] \/ Fits(k, requests[s])'
  PROVE  Memory(k)'
<1>1. Memory(k)
  BY DEF KeyRemembers
<1>2. \A id : Answered(k, id) => Answered(k, id)'
  BY DEF Answered
<1>3. ASSUME NEW s \in Requests, requests'[s].key = k, Served(requests[s])'
      PROVE  Fits(k, requests[s])'
  <2>1. CASE requests'[s] = requests[s]
    <3>1. Served(requests[s])
      BY <1>3, <2>1 DEF Served
    <3>2. Fits(k, requests[s])
      BY <1>1, <1>3, <2>1, <3>1 DEF Memory
    <3>3. requests[s].answer \in Id => Answered(k, requests[s].answer)'
      BY <1>2, <2>1, <3>2 DEF Fits, Answered
    <3> QED
      BY <2>1, <3>2, <3>3 DEF Fits, Answered
  <2> QED
    BY <1>3, <2>1
<1> QED
  BY <1>3 DEF Memory

(* A step of one request that leaves the keys alone.                       *)
LEMMA MemoryOfStep ==
  ASSUME TypeOK, KeyRemembers, NEW r \in Requests, NEW q \in Request,
         requests' = [requests EXCEPT ![r] = q],
         UNCHANGED <<keys, renewals>>,
         \A k \in Keys : \A row \in RowsOf(k) : \E new \in RowsOf(k)' : new.id = row.id,
         \A k \in Keys : renewals[k] = 0 /\ q.key = k /\ Served(q) => Fits(k, requests[r])'
  PROVE  KeyRemembers'
<1> SUFFICES ASSUME NEW k \in Keys, renewals[k] = 0
             PROVE  Memory(k)'
  BY DEF KeyRemembers
<1>1. keys'[k].status = "COMPLETED" => Answered(k, keys[k].body)'
  BY DEF KeyRemembers, Memory, Answered
<1>2. ASSUME NEW s \in Requests, requests'[s].key = k, Served(requests[s])'
      PROVE  requests'[s] = requests[s] \/ Fits(k, requests[s])'
  <2>1. CASE s = r
    <3>1. requests'[s] = q
      BY <2>1 DEF TypeOK
    <3>2. Served(q)
      BY <1>2, <3>1 DEF Served
    <3> QED
      BY <1>2, <2>1, <3>1, <3>2
  <2>2. CASE s # r
    BY <2>2 DEF TypeOK
  <2> QED
    BY <2>1, <2>2
<1> QED
  BY <1>1, <1>2, MemoryKept

LEMMA NoAnswerStep ==
  ASSUME TypeOK, NoAnswerYet, NEW r \in Requests, NEW q \in Request,
         requests' = [requests EXCEPT ![r] = q],
         q.at \notin {"complete", "done"} => q.answer = None
  PROVE  NoAnswerYet'
  BY DEF NoAnswerYet, TypeOK

LEMMA SendRemembers ==
  ASSUME KInv, NEW r \in Requests, NEW k0 \in Keys, NEW draft \in Draft, Send(r, k0, draft)
  PROVE  NoAnswerYet' /\ KeyRemembers'
<1> DEFINE q == [requests[r] EXCEPT !.at = "claim", !.key = k0, !.draft = draft]
<1>1. q \in Request /\ q.at = "claim" /\ q.answer = requests[r].answer
  BY DEF KInv, TypeOK, Request, Stages
<1>2. requests' = [requests EXCEPT ![r] = q]
  BY DEF Send, KInv, TypeOK, Request
<1>3. q.answer = None
  BY <1>1 DEF Send, KInv, NoAnswerYet
<1>4. ~Served(q)
  BY <1>1 DEF Served, Working
<1>5. UNCHANGED <<keys, renewals, rows>>
  BY DEF Send, Others
<1> HIDE DEF q
<1> QED
  BY <1>1, <1>2, <1>3, <1>4, <1>5, MemoryOfStep, NoAnswerStep DEF KInv, RowsOf

LEMMA LookRemembers ==
  ASSUME KInv, NEW r \in Requests, Look(r)
  PROVE  NoAnswerYet' /\ KeyRemembers'
<1>1. PICK k0 \in Keys : k0 = requests[r].key
  BY KeyIsKnown DEF Look, KInv
<1>2. UNCHANGED <<keys, renewals, rows>>
  BY DEF Look, Others
<1>3. requests[r].answer = None
  BY DEF Look, KInv, NoAnswerYet
<1>4. CASE Goes(r, "claim")
  <2>1. PICK q \in Request : /\ requests' = [requests EXCEPT ![r] = q]
                             /\ q.at = "claim" /\ q.answer = None
    BY <1>3, <1>4, GoesAs DEF KInv, Stages
  <2>2. ~Served(q)
    BY <2>1 DEF Served, Working
  <2> QED
    BY <1>2, <2>1, <2>2, MemoryOfStep, NoAnswerStep DEF KInv, RowsOf
<1>5. ASSUME NEW answer \in Id \cup {None}, Ends(r, answer),
             \/ answer = None
             \/ /\ keys[k0].status = "COMPLETED" /\ keys[k0].draft = requests[r].draft
                /\ answer = keys[k0].body
      PROVE  NoAnswerYet' /\ KeyRemembers'
  <2>1. Concludes(r, "done", answer)
    BY <1>5 DEF Ends, Concludes
  <2>2. PICK q \in Request : /\ requests' = [requests EXCEPT ![r] = q]
                             /\ q.at = "done" /\ q.key = k0
                             /\ q.draft = requests[r].draft /\ q.answer = answer
    BY <1>1, <2>1, EndsAs DEF KInv, Stages
  <2>3. requests'[r] = q
    BY <2>2 DEF KInv, TypeOK
  <2>4. ASSUME NEW k \in Keys, renewals[k] = 0, q.key = k, Served(q)
        PROVE  Fits(k, requests[r])'
    <3>1. answer \in Id
      BY <2>2, <2>4 DEF Served, Working
    <3>2. /\ keys[k].status = "COMPLETED" /\ keys[k].draft = q.draft
          /\ q.answer = keys[k].body /\ k = k0
      BY <1>5, <2>2, <2>4, <3>1, NoneIsNoId
    <3>3. Answered(k, keys[k].body)
      BY <2>4, <3>2 DEF KInv, KeyRemembers, Memory
    <3>4. Answered(k, q.answer)'
      BY <1>2, <3>2, <3>3, <2>3 DEF Answered, RowsOf
    <3> QED
      BY <1>2, <2>3, <3>2, <3>3 DEF Fits, Answered, RowsOf
  <2> QED
    BY <1>2, <2>2, <2>4, MemoryOfStep, NoAnswerStep DEF KInv, RowsOf
<1>6. keys[k0].status = "COMPLETED" => keys[k0].body \in Id
  BY CompletedBody DEF KInv
<1> QED
  BY <1>1, <1>4, <1>5, <1>6 DEF Look, SameRequest

LEMMA WorkRemembers ==
  ASSUME KInv, NEW r \in Requests, Enter(r) \/ Lock(r) \/ CountRows(r)
  PROVE  NoAnswerYet' /\ KeyRemembers'
<1>1. PICK q \in Request : /\ requests' = [requests EXCEPT ![r] = q]
                           /\ q.at \in Working /\ q.key = requests[r].key
                           /\ q.draft = requests[r].draft /\ q.answer = requests[r].answer
  <2>1. CASE \E stage \in {"count", "insert", "release"} : Goes(r, stage)
    <3>1. {"count", "insert", "release"} \subseteq Stages \cap Working
      BY DEF Stages, Working
    <3> QED
      BY <2>1, <3>1, GoesAs DEF KInv
  <2>2. CASE requests' = [requests EXCEPT ![r].now = now,
                            ![r].at = IF requests[r].draft.limited THEN "lock" ELSE "insert"]
    <3> DEFINE q == [requests[r] EXCEPT !.now = now,
                       !.at = IF requests[r].draft.limited THEN "lock" ELSE "insert"]
    <3>1. /\ q \in Request /\ q.at \in Working /\ q.key = requests[r].key
          /\ q.draft = requests[r].draft /\ q.answer = requests[r].answer
      BY DEF KInv, TypeOK, Request, Stages, Working
    <3>2. requests' = [requests EXCEPT ![r] = q]
      BY <2>2 DEF KInv, TypeOK, Request
    <3> QED
      BY <3>1, <3>2
  <2> QED
    BY <2>1, <2>2 DEF Enter, Lock, CountRows
<1>2. requests[r].at \in Working /\ requests[r].at \notin {"complete", "done"}
  BY DEF Enter, Lock, CountRows, Working
<1>3. UNCHANGED <<keys, renewals, rows>>
  BY DEF Enter, Lock, CountRows, Others, KeyVars
<1>4. q.answer = None
  BY <1>1, <1>2 DEF KInv, NoAnswerYet
<1>5. ASSUME NEW k \in Keys, renewals[k] = 0, q.key = k, Served(q)
      PROVE  Fits(k, requests[r])'
  <2>1. Fits(k, requests[r])
    BY <1>1, <1>2, <1>5 DEF KInv, KeyRemembers, Memory, Served
  <2>2. requests'[r] = q
    BY <1>1 DEF KInv, TypeOK
  <2> QED
    BY <1>1, <1>3, <1>4, <2>1, <2>2, NoneIsNoId DEF Fits
<1> QED
  BY <1>1, <1>3, <1>4, <1>5, MemoryOfStep, NoAnswerStep DEF KInv, RowsOf

LEMMA InsertRemembers ==
  ASSUME KInv, NEW r \in Requests, Insert(r)
  PROVE  NoAnswerYet' /\ KeyRemembers'
<1>1. requests[r].at = "insert" /\ requests[r].at \in Working /\ requests[r].answer = None
  BY DEF Insert, Working, KInv, NoAnswerYet
<1>2. UNCHANGED <<keys, renewals>>
  BY DEF Insert, KeyVars
<1>3. \A k \in Keys : renewals[k] = 0 /\ requests[r].key = k => Fits(k, requests[r])
  BY <1>1 DEF KInv, KeyRemembers, Memory, Served
<1>4. CASE Goes(r, "release") /\ UNCHANGED rows
  <2>1. PICK q \in Request : /\ requests' = [requests EXCEPT ![r] = q]
                             /\ q.at = "release" /\ q.key = requests[r].key
                             /\ q.draft = requests[r].draft /\ q.answer = None
    BY <1>1, <1>4, GoesAs DEF KInv, Stages
  <2>2. requests'[r] = q
    BY <2>1 DEF KInv, TypeOK
  <2>3. \A k \in Keys : renewals[k] = 0 /\ q.key = k => Fits(k, requests[r])'
    BY <1>2, <1>3, <2>1, <2>2, NoneIsNoId DEF Fits
  <2> QED
    BY <1>2, <1>4, <2>1, <2>3, MemoryOfStep, NoAnswerStep DEF KInv, RowsOf
<1>5. ASSUME NEW id \in Id, rows' = rows \cup {NewRow(r, id)},
             requests' = [requests EXCEPT ![r].at = "complete", ![r].answer = id]
      PROVE  NoAnswerYet' /\ KeyRemembers'
  <2>1. Concludes(r, "complete", id)
    BY <1>5 DEF Concludes
  <2>2. PICK q \in Request : /\ requests' = [requests EXCEPT ![r] = q]
                             /\ q.at = "complete" /\ q.key = requests[r].key
                             /\ q.draft = requests[r].draft /\ q.answer = id
    BY <2>1, EndsAs DEF KInv, Stages
  <2>3. requests'[r] = q
    BY <2>2 DEF KInv, TypeOK
  <2>4. NewRow(r, id).key = q.key /\ NewRow(r, id).id = id
    BY <2>2 DEF NewRow
  <2>5. \A k \in Keys : renewals[k] = 0 /\ q.key = k => Fits(k, requests[r])'
    <3>1. ASSUME NEW k \in Keys, renewals[k] = 0, q.key = k
          PROVE  NewRow(r, id) \in RowsOf(k)'
      BY <1>5, <2>4, <3>1 DEF RowsOf
    <3> QED
      BY <1>2, <1>3, <2>2, <2>3, <2>4, <3>1 DEF Fits, Answered
  <2>6. \A k \in Keys : \A row \in RowsOf(k) : row \in RowsOf(k)'
    BY <1>5 DEF RowsOf
  <2> QED
    BY <1>2, <2>2, <2>5, <2>6, MemoryOfStep, NoAnswerStep DEF KInv
<1> QED
  BY <1>4, <1>5 DEF Insert, NewRow

LEMMA DiesRemembers ==
  ASSUME KInv, NEW r \in Requests, DetailFails(r) \/ Dies(r)
  PROVE  NoAnswerYet' /\ KeyRemembers'
<1>1. Concludes(r, "done", None) \/ Concludes(r, "unread", None)
  BY DEF DetailFails, Dies, Concludes
<1>2. PICK q \in Request : /\ requests' = [requests EXCEPT ![r] = q]
                           /\ q.at \in {"done", "unread"} /\ q.answer = None
  BY <1>1, EndsAs DEF KInv, Stages
<1>3. ~Served(q)
  BY <1>2, NoneIsNoId DEF Served, Working
<1>4. UNCHANGED <<keys, renewals, rows>>
  BY DEF DetailFails, Dies, KeyVars, Others
<1> QED
  BY <1>2, <1>3, <1>4, MemoryOfStep, NoAnswerStep DEF KInv, RowsOf

(* A key that is claimed without being taken over was free: by the budget  *)
(* nobody works under it, and nothing was made.                            *)
LEMMA ClaimRemembers ==
  ASSUME KInv, NEW r \in Requests, Claim(r)
  PROVE  NoAnswerYet' /\ KeyRemembers'
<1>1. PICK k0 \in Keys : k0 = requests[r].key
  BY KeyIsKnown DEF Claim, KInv
<1>2. requests[r].answer = None /\ rows' = rows
  BY DEF Claim, KInv, NoAnswerYet, Others
<1>3. CASE Goes(r, "look") /\ UNCHANGED <<keys, renewals>>
  <2>1. PICK q \in Request : /\ requests' = [requests EXCEPT ![r] = q]
                             /\ q.at = "look" /\ q.answer = None
    BY <1>2, <1>3, GoesAs DEF KInv, Stages
  <2>2. ~Served(q)
    BY <2>1 DEF Served, Working
  <2> QED
    BY <1>2, <1>3, <2>1, <2>2, MemoryOfStep, NoAnswerStep DEF KInv, RowsOf
<1>4. CASE /\ MayClaim(keys[k0], requests[r].draft)
           /\ keys' = [keys EXCEPT ![k0] = Claimed(@, requests[r].draft)]
           /\ renewals' = [renewals EXCEPT ![k0] = @ +
                (IF keys[k0].status # "NONE" /\ (keys[k0].stale \/ Expired(keys[k0]))
                 THEN 1 ELSE 0)]
           /\ Goes(r, "enter")
  <2>1. PICK q \in Request : /\ requests' = [requests EXCEPT ![r] = q]
                             /\ q.at = "enter" /\ q.key = k0
                             /\ q.draft = requests[r].draft /\ q.answer = None
    BY <1>1, <1>2, <1>4, GoesAs DEF KInv, Stages
  <2>2. requests'[r] = q /\ \A s \in Requests : s # r => requests'[s] = requests[s]
    BY <2>1 DEF KInv, TypeOK
  <2>3. NoAnswerYet'
    BY <2>1, NoAnswerStep DEF KInv
  <2> SUFFICES ASSUME NEW k \in Keys, renewals'[k] = 0
               PROVE  Memory(k)'
    BY <2>3 DEF KeyRemembers
  <2>4. CASE k # k0
    <3>1. keys'[k] = keys[k] /\ renewals[k] = 0
      BY <1>4, <2>4 DEF KInv, TypeOK
    <3>2. RowsOf(k)' = RowsOf(k)
      BY <1>2 DEF RowsOf
    <3>3. keys'[k].status = "COMPLETED" => Answered(k, keys[k].body)'
      BY <3>1, <3>2 DEF KInv, KeyRemembers, Memory, Answered
    <3> QED
      BY <2>1, <2>2, <2>4, <3>1, <3>2, <3>3, MemoryKept DEF KInv
  <2>5. CASE k = k0
    <3>1. renewals[k] \in Nat
      BY DEF KInv, TypeOK
    <3>2. keys[k].status = "NONE" /\ renewals[k] = 0
      BY <1>4, <2>5, <3>1 DEF KInv, TypeOK, MayClaim, Abandoned
    <3>3. keys'[k].status = "IN_PROGRESS" /\ keys'[k].draft = q.draft
      BY <1>4, <2>1, <2>5 DEF Claimed, KInv, TypeOK
    <3>4. ASSUME NEW s \in Requests, requests'[s].key = k, Served(requests[s])'
          PROVE  s = r
      <4>1. ASSUME s # r
            PROVE  requests[s].key = k /\ Served(requests[s])
        BY <2>2, <3>4, <4>1 DEF Served
      <4> QED
        BY <3>2, <4>1 DEF KInv, KeyRemembers, Memory, Fits
    <3>5. Fits(k, requests[r])'
      BY <2>1, <2>2, <3>3, NoneIsNoId DEF Fits
    <3> QED
      BY <3>3, <3>4, <3>5 DEF Memory
  <2> QED
    BY <2>4, <2>5
<1> QED
  BY <1>1, <1>3, <1>4 DEF Claim

LEMMA CompleteRemembers ==
  ASSUME KInv, NEW r \in Requests, Complete(r)
  PROVE  NoAnswerYet' /\ KeyRemembers'
<1>1. PICK k0 \in Keys : k0 = requests[r].key
  BY DEF Complete, KInv, Engaged
<1>2. UNCHANGED <<renewals, rows>> /\ requests[r].at = "complete"
  BY DEF Complete, Others
<1>3. PICK q \in Request : /\ requests' = [requests EXCEPT ![r] = q]
                           /\ q.at = "done" /\ q.key = k0
                           /\ q.draft = requests[r].draft /\ q.answer = requests[r].answer
  BY <1>1, GoesAs DEF Complete, KInv, Stages
<1>4. requests'[r] = q /\ \A s \in Requests : s # r => requests'[s] = requests[s]
  BY <1>3 DEF KInv, TypeOK
<1>5. NoAnswerYet'
  BY <1>3, NoAnswerStep DEF KInv
<1>6. requests[r].answer \in Id
  BY <1>2 DEF KInv, Engaged
<1> SUFFICES ASSUME NEW k \in Keys, renewals[k] = 0
             PROVE  Memory(k)'
  BY <1>2, <1>5 DEF KeyRemembers
<1>7. RowsOf(k)' = RowsOf(k)
  BY <1>2 DEF RowsOf
<1>8. k = k0 => Fits(k, requests[r])
  BY <1>1, <1>2 DEF KInv, KeyRemembers, Memory, Served
<1>9. \/ keys'[k] = keys[k]
      \/ /\ k = k0
         /\ keys'[k] = [keys[k] EXCEPT !.status = "COMPLETED", !.body = requests[r].answer]
         /\ keys[k].status # "NONE"
  BY <1>1, <1>8 DEF Complete, KInv, TypeOK, Fits
<1>10. /\ keys[k].status # "NONE" =>
            keys'[k].status # "NONE" /\ keys'[k].draft = keys[k].draft
       /\ keys'[k].status = "COMPLETED" => Answered(k, keys[k].body)'
  <2>1. CASE keys'[k] = keys[k]
    BY <1>7, <2>1 DEF KInv, KeyRemembers, Memory, Answered
  <2>2. CASE /\ k = k0
             /\ keys'[k] = [keys[k] EXCEPT !.status = "COMPLETED", !.body = requests[r].answer]
             /\ keys[k].status # "NONE"
    <3>1. keys[k] \in Held
      BY <2>2, KeyIsHeld DEF KInv
    <3>2. /\ keys'[k].status = "COMPLETED" /\ keys'[k].body = requests[r].answer
          /\ keys'[k].draft = keys[k].draft
      BY <2>2, <3>1 DEF Held
    <3>3. Answered(k, requests[r].answer)
      BY <1>6, <1>8, <2>2 DEF Fits
    <3> QED
      BY <1>7, <3>2, <3>3 DEF Answered
  <2> QED
    BY <1>9, <2>1, <2>2
<1>11. k = k0 => Fits(k, requests[r])'
  BY <1>3, <1>4, <1>7, <1>8, <1>10 DEF Fits, Answered
<1> QED
  BY <1>3, <1>4, <1>7, <1>10, <1>11, MemoryKept DEF KInv

(* A request that gives the key back was alone with it.                    *)
LEMMA ReleaseRemembers ==
  ASSUME KInv, NEW r \in Requests, Release(r)
  PROVE  NoAnswerYet' /\ KeyRemembers'
<1>1. /\ UNCHANGED rows /\ requests[r].at \in {"release", "unread"}
      /\ requests[r].answer = None
  BY DEF Release, Others, KInv, NoAnswerYet
<1>2. PICK k0 \in Keys : /\ k0 = requests[r].key
                         /\ requests[r].at = "release" => r \in Users(k0)
  BY <1>1, UserOfKey DEF KInv, Engaged, Working
<1>3. PICK q \in Request : /\ requests' = [requests EXCEPT ![r] = q]
                           /\ q.at = "done" /\ q.key = k0 /\ q.answer = None
  BY <1>1, <1>2, GoesAs DEF Release, KInv, Stages
<1>4. requests'[r] = q /\ \A s \in Requests : s # r => requests'[s] = requests[s]
  BY <1>3 DEF KInv, TypeOK
<1>5. NoAnswerYet'
  BY <1>3, NoAnswerStep DEF KInv
<1>6. ~Served(q)
  BY <1>3, NoneIsNoId DEF Served, Working
<1> SUFFICES ASSUME NEW k \in Keys, renewals'[k] = 0
             PROVE  Memory(k)'
  BY <1>5 DEF KeyRemembers
<1>9. /\ renewals[k] = 0
      /\ keys'[k] = keys[k] \/ (k = k0 /\ keys'[k] = NoKey /\ requests[r].at = "release")
  BY <1>1, <1>2 DEF Release, KInv, TypeOK
<1>7. CASE keys'[k] = keys[k]
  <2>1. RowsOf(k)' = RowsOf(k)
    BY <1>1 DEF RowsOf
  <2>2. keys'[k].status = "COMPLETED" => Answered(k, keys[k].body)'
    BY <1>7, <1>9, <2>1 DEF KInv, KeyRemembers, Memory, Answered
  <2> QED
    BY <1>3, <1>4, <1>6, <1>7, <1>9, <2>1, <2>2, MemoryKept DEF KInv
<1>8. CASE k = k0 /\ keys'[k] = NoKey /\ requests[r].at = "release"
  <2>1. RowsOf(k) = {}
    BY <1>2, <1>8, <1>9, OneRow DEF KInv
  <2>2. Users(k) = {r}
    <3>1. /\ Cardinality(RowsOf(k)) \in Nat /\ Cardinality(Users(k)) \in Nat /\ Free(k) \in Nat
      BY RowsFinite, UsersFinite DEF KInv, Free
    <3>2. Cardinality(RowsOf(k)) + Cardinality(Users(k)) + Free(k) <= 1
      BY <1>9 DEF KInv, KeyBudget
    <3>3. Cardinality(Users(k)) # 0
      BY <1>2, <1>8, UsersFinite, FS_EmptySet
    <3>4. Cardinality(Users(k)) = 1
      BY <3>1, <3>2, <3>3
    <3> QED
      BY <1>2, <1>8, <3>4, UsersFinite, FS_Singleton
  <2>3. ASSUME NEW s \in Requests, requests'[s].key = k, Served(requests[s])'
        PROVE  FALSE
    <3>1. s # r
      BY <1>4, <1>6, <2>3 DEF Served
    <3>2. requests[s].key = k /\ Served(requests[s])
      BY <1>4, <2>3, <3>1 DEF Served
    <3>3. requests[s].at \notin Working
      BY <2>2, <3>1, <3>2 DEF Users
    <3>4. requests[s].answer \in Id
      BY <3>2, <3>3 DEF Served, KInv, Engaged
    <3>5. Answered(k, requests[s].answer)
      BY <1>9, <3>2, <3>4 DEF KInv, KeyRemembers, Memory, Fits
    <3> QED
      BY <2>1, <3>5 DEF Answered
  <2> QED
    BY <1>8, <2>3 DEF Memory, NoKey
<1> QED
  BY <1>7, <1>8, <1>9

LEMMA AgeingRemembers ==
  ASSUME KInv, (\E k \in Keys : Stall(k)) \/ DeleteExpired
  PROVE  NoAnswerYet' /\ KeyRemembers'
<1>1. UNCHANGED <<requests, rows>>
  BY DEF Stall, DeleteExpired, Others
<1>2. NoAnswerYet'
  BY <1>1 DEF KInv, NoAnswerYet
<1> SUFFICES ASSUME NEW k \in Keys, renewals'[k] = 0
             PROVE  Memory(k)'
  BY <1>2 DEF KeyRemembers
<1>3. /\ renewals[k] = 0 /\ keys'[k].status = keys[k].status
      /\ keys'[k].draft = keys[k].draft /\ keys'[k].body = keys[k].body
  <2>1. CASE \E c \in Keys : Stall(c)
    <3>1. PICK c \in Keys : Stall(c)
      BY <2>1
    <3>2. keys[c] \in Held
      BY <3>1, KeyIsHeld DEF Stall, KInv
    <3>3. keys'[k] = keys[k] \/ (k = c /\ keys'[k] = [keys[c] EXCEPT !.stale = TRUE])
      BY <3>1 DEF Stall, KInv, TypeOK
    <3> QED
      BY <3>1, <3>2, <3>3 DEF Stall, Held
  <2>2. CASE DeleteExpired
    <3>1. renewals[k] \in Nat
      BY DEF KInv, TypeOK
    <3>2. keys'[k] = keys[k] /\ renewals[k] = 0
      BY <2>2, <3>1 DEF DeleteExpired
    <3> QED
      BY <3>2
  <2> QED
    BY <2>1, <2>2
<1>4. RowsOf(k)' = RowsOf(k)
  BY <1>1 DEF RowsOf
<1>5. keys'[k].status = "COMPLETED" => Answered(k, keys[k].body)'
  BY <1>3, <1>4 DEF KInv, KeyRemembers, Memory, Answered
<1> QED
  BY <1>1, <1>3, <1>4, <1>5, MemoryKept DEF KInv

LEMMA MoveRemembers ==
  ASSUME KInv, NEW row \in rows, Moves(row) \/ Renotice(row)
  PROVE  NoAnswerYet' /\ KeyRemembers'
<1>1. UNCHANGED <<requests, keys, renewals>>
  BY DEF Moves, Renotice, Becomes, KeyVars
<1>2. NoAnswerYet'
  BY <1>1 DEF KInv, NoAnswerYet
<1>3. PICK new \in Row : /\ rows' = (rows \ {row}) \cup {new}
                         /\ new.id = row.id /\ new.key = row.key
  BY MoveTypes DEF KInv
<1> SUFFICES ASSUME NEW k \in Keys, renewals[k] = 0
             PROVE  Memory(k)'
  BY <1>1, <1>2 DEF KeyRemembers
<1>4. \A old \in RowsOf(k) : \E x \in RowsOf(k)' : x.id = old.id
  <2>1. ASSUME NEW old \in RowsOf(k)
        PROVE  \E x \in RowsOf(k)' : x.id = old.id
    <3>1. CASE old = row
      BY <1>3, <2>1, <3>1 DEF RowsOf
    <3>2. CASE old # row
      BY <1>3, <2>1, <3>2 DEF RowsOf
    <3> QED
      BY <3>1, <3>2
  <2> QED
    BY <2>1
<1>5. keys'[k].status = "COMPLETED" => Answered(k, keys[k].body)'
  BY <1>1, <1>4 DEF KInv, KeyRemembers, Memory, Answered
<1> QED
  BY <1>1, <1>4, <1>5, MemoryKept DEF KInv

-----------------------------------------------------------------------------
(* The theorem.                                                            *)

LEMMA KInvInit == Init => KInv
<1> SUFFICES ASSUME Init
             PROVE  KInv
  OBVIOUS
<1>1. TypeOK /\ Engaged
  BY InitTypes
<1>2. /\ rows = {} /\ \A k \in Keys : keys[k].status = "NONE" /\ renewals[k] = 0
      /\ \A r \in Requests : requests[r].at = "new" /\ requests[r].answer = None
  BY DEF Init, NoRequest, NoKey
<1>3. IsFiniteSet(rows)
  BY <1>2, FS_EmptySet
<1>4. KeyBudget
  <2>1. \A k \in Keys : RowsOf(k) = {} /\ Users(k) = {} /\ Free(k) = 1
    BY <1>2 DEF RowsOf, Users, Working, Free
  <2> QED
    BY <1>2, <2>1, FS_EmptySet DEF KeyBudget
<1>5. NoAnswerYet /\ KeyRemembers
  BY <1>2 DEF NoAnswerYet, KeyRemembers, Memory, Served, Working
<1> QED
  BY <1>1, <1>3, <1>4, <1>5 DEF KInv

LEMMA KInvStep == KInv /\ [Next]_vars => KInv'
<1> SUFFICES ASSUME KInv, [Next]_vars
             PROVE  KInv'
  OBVIOUS
<1>1. TypeOK' /\ Engaged'
  BY TypesStep DEF KInv
<1>2. IsFiniteSet(rows)'
  BY FiniteStep DEF KInv
<1>3. KeyBudget'
  BY BudgetStep DEF KInv
<1>4. NoAnswerYet' /\ KeyRemembers'
  <2>1. CASE ReadPage \/ Tick \/ UNCHANGED vars
    <3>1. UNCHANGED <<keys, requests, rows, renewals>>
      BY <2>1 DEF ReadPage, Tick, vars, KeyVars
    <3> QED
      BY <3>1 DEF KInv, NoAnswerYet, KeyRemembers, Memory, Served, Fits, Answered, RowsOf
  <2> QED
    BY <2>1, SendRemembers, ClaimRemembers, LookRemembers, CompleteRemembers, ReleaseRemembers,
       AgeingRemembers, WorkRemembers, InsertRemembers, DiesRemembers, MoveRemembers
    DEF Next, Step
<1> QED
  BY <1>1, <1>2, <1>3, <1>4 DEF KInv

LEMMA KeysHonoured == KInv => KeysAreHonoured
<1> SUFFICES ASSUME KInv
             PROVE  OneEffectPerKey /\ OneAnswerPerKey
  BY DEF KInv, KeysAreHonoured
<1>1. ASSUME NEW k \in Keys
      PROVE  Cardinality(RowsOf(k)) <= 1 + renewals[k]
  <2>1. Cardinality(RowsOf(k)) + Cardinality(Users(k)) + Free(k) <= 1 + renewals[k]
    BY DEF KInv, KeyBudget
  <2>2. /\ Cardinality(RowsOf(k)) \in Nat /\ Cardinality(Users(k)) \in Nat
        /\ Free(k) \in Nat /\ renewals[k] \in Nat
    BY RowsFinite, UsersFinite DEF KInv, TypeOK, Free
  <2> QED
    BY <2>1, <2>2
<1>2. ASSUME NEW r \in Requests, NEW s \in Requests,
             requests[r].at = "done", requests[r].answer \in Id,
             requests[s].at = "done", requests[s].answer \in Id,
             requests[r].key = requests[s].key, renewals[requests[r].key] = 0
      PROVE  /\ requests[r].answer = requests[s].answer
             /\ requests[r].draft = requests[s].draft
  <2>1. PICK k \in Keys : k = requests[r].key
    BY <1>2 DEF KInv, Engaged
  <2>2. Fits(k, requests[r]) /\ Fits(k, requests[s])
    BY <1>2, <2>1 DEF KInv, KeyRemembers, Memory, Served
  <2>3. PICK a \in RowsOf(k), b \in RowsOf(k) :
          a.id = requests[r].answer /\ b.id = requests[s].answer
    BY <1>2, <2>2 DEF Fits, Answered
  <2>4. a = b
    BY <1>2, <2>1, OneRow DEF KInv
  <2> QED
    BY <2>2, <2>3, <2>4 DEF Fits
<1>3. OneEffectPerKey
  BY <1>1 DEF OneEffectPerKey, RowsOf
<1>4. OneAnswerPerKey
  BY <1>2 DEF OneAnswerPerKey
<1> QED
  BY <1>3, <1>4

(* A key makes one submission, and one more for each time it was taken     *)
(* over, forgotten, or given back by a request that had made its submission*)
(* and could not read it for the answer; until then all who sent it get one*)
(* answer to one request: for any number of requests, keys and faults      *)
(* (IdempotencyService, SubmissionsService.detail).                        *)
THEOREM KeysHold == Spec => []KeysAreHonoured
<1> QED
  BY KInvInit, KInvStep, KeysHonoured, PTL DEF Spec

-----------------------------------------------------------------------------
(* The list.                                                               *)

(* A finite set in which all are in order has one that is last.            *)
LEMMA LastOf ==
  ASSUME NEW S, IsFiniteSet(S), S # {}, NEW R,
         \A a, b \in S : a = b \/ <<a, b>> \in R \/ <<b, a>> \in R,
         \A a, b, c \in S : <<a, b>> \in R /\ <<b, c>> \in R => <<a, c>> \in R
  PROVE  \E x \in S : \A y \in S : y = x \/ <<y, x>> \in R
<1> DEFINE Less == StrictSubsetOrdering(S)
           HasLast(T) == \E x \in T : \A y \in T : y = x \/ <<y, x>> \in R
           B == {T \in SUBSET S : T # {} /\ ~HasLast(T)}
<1>1. SUFFICES ASSUME B # {} PROVE FALSE
  <2>1. S \in SUBSET S OBVIOUS
  <2> QED BY <2>1
<1>2. IsWellFoundedOn(Less, FiniteSubsetsOf(S)) BY FS_StrictSubsetOrderingWellFounded
<1>3. B \subseteq FiniteSubsetsOf(S) BY FS_Subset DEF FiniteSubsetsOf
<1> HIDE DEF Less
<1>4. PICK U \in B : \A V \in B : ~ (<<V, U>> \in Less)
  <2> HIDE DEF B
  <2> QED BY <1>1, <1>2, <1>3, WFMin, Zenon
<1>5. U \in SUBSET S /\ U # {} /\ ~HasLast(U) BY <1>4
<1>6. PICK a \in U : TRUE BY <1>5
<1> DEFINE V == U \ {a}
<1>7. V \in SUBSET S /\ V \subseteq U /\ V # U BY <1>5, <1>6
<1>8. <<V, U>> \in Less BY <1>5, <1>7 DEF Less, StrictSubsetOrdering
<1>9. V = {} \/ HasLast(V) BY <1>4, <1>7, <1>8
<1>10. CASE V = {} BY <1>5, <1>6, <1>10
<1>11. CASE HasLast(V)
  <2>1. PICK x \in V : \A y \in V : y = x \/ <<y, x>> \in R BY <1>11
  <2>2. x \in S /\ a \in S /\ x # a BY <2>1, <1>5, <1>6
  <2>3. CASE <<a, x>> \in R BY <2>1, <2>3, <1>5, <1>6
  <2>4. CASE <<x, a>> \in R
    <3>1. ASSUME NEW y \in U PROVE y = a \/ <<y, a>> \in R
      <4>1. y = a \/ y = x \/ <<y, x>> \in R BY <2>1, <3>1
      <4> QED BY <4>1, <2>2, <2>4, <3>1, <1>5
    <3> QED BY <3>1, <1>5, <1>6
  <2> QED BY <2>2, <2>3, <2>4
<1> QED BY <1>9, <1>10, <1>11

(* What is sorted by [createdAt, id] is in order.                          *)
IdsDiffer == \A a, b \in rows : a.id = b.id => a = b

LEMMA IdsAreNumbers == Id \subseteq Nat
<1>1. Cardinality(Requests) \in Nat BY IntakeConstantsOK, FS_CardinalityType
<1> QED BY <1>1 DEF Id

LEMMA RowsInOrder ==
  ASSUME TypeOK, IdsDiffer
  PROVE  /\ \A a, b \in rows : a = b \/ Newer(a, b) \/ Newer(b, a)
         /\ \A a, b, c \in rows : Newer(a, b) /\ Newer(b, c) => Newer(a, c)
         /\ \A a \in rows : ~Newer(a, a)
<1>1. \A a \in rows : a.at \in Nat /\ a.id \in Nat
  <2>1. MaxTime \in Nat BY IntakeConstantsOK
  <2>2. \A a \in rows : a.at \in 0..MaxTime /\ a.id \in Id BY DEF TypeOK, Row
  <2>3. \A a \in rows : a.id \in Nat BY <2>2, IdsAreNumbers
  <2>4. 0..MaxTime \subseteq Nat BY <2>1
  <2> QED BY <2>2, <2>3, <2>4
<1>2. \A a, b \in rows : a = b \/ Newer(a, b) \/ Newer(b, a)
  <2> SUFFICES ASSUME NEW a \in rows, NEW b \in rows, a # b
               PROVE  Newer(a, b) \/ Newer(b, a)
    OBVIOUS
  <2>1. a.id # b.id BY DEF IdsDiffer
  <2> QED BY <1>1, <2>1 DEF Newer
<1>3. \A a, b, c \in rows : Newer(a, b) /\ Newer(b, c) => Newer(a, c)
  BY <1>1 DEF Newer
<1>4. \A a \in rows : ~Newer(a, a) BY <1>1 DEF Newer
<1> QED BY <1>2, <1>3, <1>4

(* A page that is not all there is ends with a row that comes before all   *)
(* that is left.                                                           *)
LEMMA PageComesFirst ==
  ASSUME TypeOK, IdsDiffer, IsFiniteSet(rows), NEW rest \in SUBSET rows,
         TopOf(rest) # rest
  PROVE  \E last \in TopOf(rest) :
           /\ \A r \in TopOf(rest) : r = last \/ Newer(r, last)
           /\ \A row \in rest \ TopOf(rest) : Newer(last, row)
<1> DEFINE page == TopOf(rest)
           Before(x) == {r \in rest : Newer(r, x)}
           R == {p \in rest \X rest : Newer(p[1], p[2])}
           Q == {p \in rest \X rest : Newer(p[2], p[1])}
<1>1. IsFiniteSet(rest) BY FS_Subset
<1>2. page \subseteq rest /\ rest # {} BY DEF TopOf
<1>3. /\ \A a, b \in rest : a = b \/ Newer(a, b) \/ Newer(b, a)
      /\ \A a, b, c \in rest : Newer(a, b) /\ Newer(b, c) => Newer(a, c)
      /\ \A a \in rest : ~Newer(a, a)
  BY RowsInOrder
<1>4. PageLimit \in Nat \ {0} BY IntakeConstantsOK
<1>5. \A a, b \in rest : /\ <<a, b>> \in R <=> Newer(a, b)
                         /\ <<a, b>> \in Q <=> Newer(b, a)
  OBVIOUS
<1>6. \A x \in rest : IsFiniteSet(Before(x)) /\ Cardinality(Before(x)) \in Nat
  BY <1>1, FS_Subset, FS_CardinalityType
<1>7. \A x \in rest : x \in page <=> Cardinality(Before(x)) < PageLimit BY DEF TopOf
<1> HIDE DEF page, R, Q
<1>8. page # {}
  <2>1. \E x \in rest : \A y \in rest : y = x \/ <<y, x>> \in Q
    <3>1. \A a, b \in rest : a = b \/ <<a, b>> \in Q \/ <<b, a>> \in Q BY <1>3, <1>5
    <3>2. \A a, b, c \in rest : <<a, b>> \in Q /\ <<b, c>> \in Q => <<a, c>> \in Q
      BY <1>3, <1>5
    <3> QED BY <1>1, <1>2, <3>1, <3>2, LastOf
  <2>2. PICK x \in rest : \A y \in rest : y = x \/ <<y, x>> \in Q BY <2>1
  <2>3. ASSUME NEW y \in rest, Newer(y, x) PROVE FALSE
    <3>1. y = x \/ Newer(x, y) BY <2>2, <1>5
    <3> QED BY <3>1, <2>3, <1>3
  <2>4. Before(x) = {} BY <2>3
  <2>5. Cardinality({}) = 0 BY FS_EmptySet
  <2>6. Cardinality(Before(x)) < PageLimit BY <2>4, <2>5, <1>4
  <2> QED BY <2>6, <1>7
<1>9. PICK last \in page : \A y \in page : y = last \/ <<y, last>> \in R
  <2>1. \A a, b \in page : a = b \/ <<a, b>> \in R \/ <<b, a>> \in R BY <1>2, <1>3, <1>5
  <2>2. \A a, b, c \in page : <<a, b>> \in R /\ <<b, c>> \in R => <<a, c>> \in R
    BY <1>2, <1>3, <1>5
  <2>3. IsFiniteSet(page) BY <1>1, <1>2, FS_Subset
  <2> QED BY <1>8, <2>1, <2>2, <2>3, LastOf
<1>10. \A r \in page : r = last \/ Newer(r, last) BY <1>2, <1>5, <1>9
<1>11. ASSUME NEW row \in rest, row \notin page, ~Newer(last, row) PROVE FALSE
  <2>1. last \in rest /\ row # last BY <1>2, <1>11
  <2>2. Newer(row, last) BY <2>1, <1>3, <1>11
  <2>3. Before(row) \subseteq Before(last) BY <2>1, <2>2, <1>3, <1>11
  <2>4. Cardinality(Before(row)) <= Cardinality(Before(last))
    BY <2>1, <2>3, <1>6, FS_Subset
  <2>5. Cardinality(Before(last)) < PageLimit BY <2>1, <1>7
  <2>6. ~(Cardinality(Before(row)) < PageLimit) BY <1>7, <1>11
  <2>7. Cardinality(Before(row)) \in Nat /\ Cardinality(Before(last)) \in Nat
    BY <2>1, <1>6, <1>11
  <2> HIDE DEF Before
  <2> QED BY <2>4, <2>5, <2>6, <2>7, <1>4
<1> QED BY <1>10, <1>11 DEF page

(* Rows do not leave the list, nor their places in it.                     *)
LEMMA RowsStayInPlace ==
  ASSUME TypeOK, Engaged, IdsDiffer, [Next]_vars
  PROVE  /\ IdsDiffer'
         /\ \A a \in rows : \E b \in rows' : b.id = a.id /\ b.at = a.at
<1>1. CASE UNCHANGED rows BY <1>1 DEF IdsDiffer
<1>2. ASSUME NEW r \in Requests, Insert(r), rows' # rows
      PROVE  /\ IdsDiffer'
             /\ \A a \in rows : \E b \in rows' : b.id = a.id /\ b.at = a.at
  <2>1. PICK id \in Id \ {row.id : row \in rows} : rows' = rows \cup {NewRow(r, id)}
    BY <1>2 DEF Insert, NewRow
  <2> DEFINE new == NewRow(r, id)
  <2>2. new.id = id BY DEF NewRow
  <2>3. \A a \in rows : a.id # new.id BY <2>1, <2>2
  <2> HIDE DEF new
  <2>4. rows' = rows \cup {new} BY <2>1 DEF new
  <2> QED BY <2>3, <2>4 DEF IdsDiffer
<1>3. ASSUME NEW row \in rows, NEW new, rows' = (rows \ {row}) \cup {new},
             new.id = row.id, new.at = row.at
      PROVE  /\ IdsDiffer'
             /\ \A a \in rows : \E b \in rows' : b.id = a.id /\ b.at = a.at
  BY <1>3 DEF IdsDiffer
<1>4. ASSUME NEW row \in rows, Moves(row) \/ Renotice(row)
      PROVE  \E new : /\ rows' = (rows \ {row}) \cup {new}
                      /\ new.id = row.id /\ new.at = row.at
  <2>1. row \in Row BY DEF TypeOK
  <2>2. ASSUME NEW status, Becomes(row, [row EXCEPT !.status = status])
        PROVE  \E new : /\ rows' = (rows \ {row}) \cup {new}
                        /\ new.id = row.id /\ new.at = row.at
    <3>1. /\ [row EXCEPT !.status = status].id = row.id
          /\ [row EXCEPT !.status = status].at = row.at
      BY <2>1 DEF Row
    <3> QED BY <2>2, <3>1 DEF Becomes
  <2>3. ASSUME NEW notice, Becomes(row, [row EXCEPT !.draft.notice = notice])
        PROVE  \E new : /\ rows' = (rows \ {row}) \cup {new}
                        /\ new.id = row.id /\ new.at = row.at
    <3>1. /\ [row EXCEPT !.draft.notice = notice].id = row.id
          /\ [row EXCEPT !.draft.notice = notice].at = row.at
      BY <2>1 DEF Row
    <3> QED BY <2>3, <3>1 DEF Becomes
  <2> QED BY <1>4, <2>2, <2>3 DEF Moves, Renotice
<1>5. ASSUME RowsUntouched PROVE UNCHANGED rows BY <1>5, UntouchedRows
<1> QED BY <1>1, <1>2, <1>3, <1>4, <1>5 DEF Next, Step, RowsUntouched

(* What the reader has yet to see comes after its cursor.                  *)
StillToCome ==
  IF reader.finished THEN reader.missing = {}
  ELSE reader.cursor # None =>
         \A id \in reader.missing : \E row \in rows : row.id = id /\ Newer(reader.cursor, row)

LEMMA ReaderStep ==
  ASSUME TypeOK, Engaged, IdsDiffer, IsFiniteSet(rows), StillToCome, [Next]_vars
  PROVE  StillToCome'
<1>1. CASE ReadPage
  <2> DEFINE rest == IF reader.cursor = None THEN rows
                     ELSE {row \in rows : AfterCursor(row)}
             page == TopOf(rest)
             last == CHOOSE row \in page : \A r \in page : r = row \/ Newer(r, row)
             due  == IF reader.cursor = None THEN {row.id : row \in rows}
                     ELSE reader.missing
  <2>1. /\ ~reader.finished /\ rows' = rows
        /\ reader' = [finished |-> page = rest,
                      cursor   |-> IF page = rest THEN None
                                   ELSE [at |-> last.at, id |-> last.id],
                      missing  |-> due \ {row.id : row \in page}]
    BY <1>1 DEF ReadPage
  <2>2. /\ reader'.finished <=> page = rest
        /\ page # rest => reader'.cursor = [at |-> last.at, id |-> last.id]
        /\ reader'.missing = due \ {row.id : row \in page}
    BY <2>1
  <2>3. \A id \in due : \E row \in rest : row.id = id
    BY <2>1 DEF StillToCome, AfterCursor
  <2>4. rest \in SUBSET rows OBVIOUS
  <2> HIDE DEF rest, due
  <2>5. CASE page = rest
    BY <2>2, <2>3, <2>5 DEF StillToCome
  <2>6. CASE page # rest
    <3>1. \E x \in page : /\ \A r \in page : r = x \/ Newer(r, x)
                          /\ \A row \in rest \ page : Newer(x, row)
      BY <2>4, <2>6, PageComesFirst
    <3>2. /\ last \in page /\ \A r \in page : r = last \/ Newer(r, last) BY <3>1
    <3>3. PICK x \in page : /\ \A r \in page : r = x \/ Newer(r, x)
                            /\ \A row \in rest \ page : Newer(x, row)
      BY <3>1
    <3>4. page \subseteq rows BY <2>4 DEF TopOf
    <3>5. last = x
      <4>1. last \in rows /\ x \in rows BY <3>2, <3>3, <3>4
      <4>2. last # x => Newer(last, x) /\ Newer(x, last) BY <3>2, <3>3
      <4> HIDE DEF last, page
      <4> QED BY <4>1, <4>2, RowsInOrder
    <3> HIDE DEF last, page
    <3>6. ASSUME NEW id \in reader'.missing
          PROVE  \E row \in rows : row.id = id /\ Newer(reader'.cursor, row)
      <4>1. PICK row \in rest : row.id = id BY <2>2, <2>3, <3>6
      <4>2. row \notin page BY <2>2, <3>6, <4>1
      <4>3. Newer(last, row) BY <3>3, <3>5, <4>1, <4>2
      <4> QED BY <2>2, <2>4, <2>6, <4>1, <4>3 DEF Newer
    <3> QED BY <2>1, <2>2, <2>6, <3>6 DEF StillToCome
  <2> QED BY <2>5, <2>6
<1>2. CASE ~ReadPage
  <2>1. UNCHANGED reader
    BY <1>2 DEF Next, Step, Send, Claim, Look, Enter, Lock, CountRows, Insert, Complete,
                Release, DetailFails, Dies, Stall, DeleteExpired, Moves, Renotice,
                Becomes, Tick, Others, vars
  <2>2. \A a \in rows : \E b \in rows' : b.id = a.id /\ b.at = a.at BY RowsStayInPlace
  <2>3. \A a \in rows, b \in rows' : b.id = a.id /\ b.at = a.at
          => (Newer(reader.cursor, a) => Newer(reader.cursor, b))
    BY DEF Newer
  <2> QED BY <2>1, <2>2, <2>3 DEF StillToCome
<1> QED BY <1>1, <1>2

(* Who pages to the end has seen every submission that was there at the    *)
(* first page, for any number of submissions and items of a page, and      *)
(* whatever comes in or moves between the pages (cursor).                  *)
THEOREM ListsAreComplete == Spec => []ListIsComplete
<1> DEFINE LInv == TypeOK /\ Engaged /\ IdsDiffer /\ IsFiniteSet(rows) /\ StillToCome
<1>1. Init => LInv
  BY InitTypes, FS_EmptySet DEF Init, IdsDiffer, StillToCome
<1>2. LInv /\ [Next]_vars => LInv'
  BY TypesStep, RowsStayInPlace, FiniteStep, ReaderStep
<1>3. LInv => ListIsComplete BY DEF StillToCome, ListIsComplete
<1> QED BY <1>1, <1>2, <1>3, PTL DEF Spec

=============================================================================
