------------------------------- MODULE Intake -------------------------------
(***************************************************************************)
(* How submissions come in and are listed.  A request to create one has an *)
(* Idempotency-Key, so that a user can send it again when no answer comes; *)
(* kinds may have a limit per user and day; a notice may have one open     *)
(* submission.  Meanwhile somebody pages through the list.  One user: keys *)
(* and limits of different users never meet.                               *)
(***************************************************************************)
EXTENDS Integers, FiniteSets

CONSTANTS
  Requests,   \* requests to create a submission
  Keys,       \* Idempotency-Keys
  Notices,    \* Ziggle notices
  DailyLimit, \* of the kind that has one
  DayLength,  \* in units of time
  RetainedFor,\* RETENTION of a key
  PageLimit,  \* items of a page
  None,
  MaxTime,    \* BOUND on the time
  MaxFaults   \* BOUND on pods that die, and on reads and writes that fail

ASSUME IntakeConstantsOK ==
  /\ {DayLength, PageLimit} \subseteq Nat \ {0}
  /\ {DailyLimit, RetainedFor, MaxTime, MaxFaults} \subseteq Nat
  /\ None \notin Requests \cup Notices \cup Nat
  /\ IsFiniteSet(Requests)

VARIABLES
  now,
  keys,       \* idempotency_keys
  requests,
  rows,       \* submissions
  lock,       \* the request that holds the advisory lock of the limit, or None
  reader,     \* somebody who reads page after page
  faults,
  renewals    \* history: how often a key was taken over or forgotten, or given
              \* back after its submission was made

vars == <<now, keys, requests, rows, lock, reader, faults, renewals>>

-----------------------------------------------------------------------------
(* What is sent, and kept.                                                 *)

Draft  == [limited : {FALSE}, notice : Notices \cup {None}]
            \cup [limited : {TRUE}, notice : {None}]
Id     == 1..Cardinality(Requests)
Status == {"OPEN", "RETURNED", "CLOSED"}

(* OPEN stands for the statuses that lead to the screen, RETURNED for those*)
(* that go back to the requester, CLOSED for CANCELED, ENDED and ARCHIVED. *)
Row == [id : Id, key : Keys, draft : Draft, at : 0..MaxTime, status : Status]

NoKey == [status |-> "NONE", draft |-> None, body |-> None, stale |-> FALSE, at |-> 0]
Key == [status : {"IN_PROGRESS"}, draft : Draft, body : {None}, stale : BOOLEAN, at : 0..MaxTime]
         \cup [status : {"COMPLETED"}, draft : Draft, body : Id, stale : BOOLEAN, at : 0..MaxTime]
         \cup {NoKey}

Stages == {"new", "claim", "look", "enter", "lock", "count", "insert",
           "complete", "release", "unread", "done"}
Request == [at : Stages, key : Keys \cup {None}, draft : Draft \cup {None},
            now : 0..MaxTime, answer : Id \cup {None}]
NoRequest == [at |-> "new", key |-> None, draft |-> None, now |-> 0, answer |-> None]

(* The answer is the submission made; a refusal of any kind is None.       *)
Goes(r, stage)  == requests' = [requests EXCEPT ![r].at = stage]
Ends(r, answer) == requests' = [requests EXCEPT ![r].at = "done", ![r].answer = answer]

Fault == faults < MaxFaults /\ faults' = faults + 1

Others == <<now, rows, lock, reader>>

-----------------------------------------------------------------------------
(* IdempotencyInterceptor and IdempotencyService.                          *)

Send(r, k, draft) ==
  /\ requests[r].at = "new"
  /\ requests' = [requests EXCEPT ![r].at = "claim", ![r].key = k, ![r].draft = draft]
  /\ UNCHANGED <<keys, faults, renewals, Others>>

Expired(key) == now > key.at + RetainedFor

Abandoned_LockIgnored(key, draft) == key.draft = draft
Abandoned(key, draft) == key.stale /\ key.draft = draft

MayClaim(key, draft) ==
  \/ key.status = "NONE"
  \/ Expired(key)
  \/ key.status = "IN_PROGRESS" /\ Abandoned(key, draft)

Claimed(key, draft) ==
  [status |-> "IN_PROGRESS", draft |-> draft, body |-> None, stale |-> FALSE, at |-> now]

Claim(r) ==
  LET k == requests[r].key IN
  /\ requests[r].at = "claim"
  /\ IF MayClaim(keys[k], requests[r].draft)
     THEN /\ keys' = [keys EXCEPT ![k] = Claimed(@, requests[r].draft)]
          /\ renewals' = [renewals EXCEPT ![k] = @ +
               (IF keys[k].status # "NONE" /\ (keys[k].stale \/ Expired(keys[k])) THEN 1 ELSE 0)]
          /\ Goes(r, "enter")
     ELSE Goes(r, "look") /\ UNCHANGED <<keys, renewals>>
  /\ UNCHANGED <<faults, Others>>

SameRequest(key, draft) == key.draft = draft

(* The key is read by a second statement: what it says may be newer.  While*)
(* it is IN_PROGRESS the request tries again, for up to waitTimeoutMs.     *)
Look(r) ==
  LET key == keys[requests[r].key]
      waits == \/ key.status = "NONE"
               \/ key.status = "IN_PROGRESS" /\ SameRequest(key, requests[r].draft)
  IN /\ requests[r].at = "look"
     /\ \/ waits /\ (Goes(r, "claim") \/ Ends(r, None))
        \/ key.status # "NONE" /\ ~SameRequest(key, requests[r].draft) /\ Ends(r, None)
        \/ key.status = "COMPLETED" /\ SameRequest(key, requests[r].draft) /\ Ends(r, key.body)
     /\ UNCHANGED <<keys, faults, renewals, Others>>

(* complete and release name the key only: whoever holds it now.  What was *)
(* made has been read back for the answer by then.                         *)
Complete(r) ==
  LET k == requests[r].key IN
  /\ requests[r].at = "complete"
  /\ \/ /\ keys' = IF keys[k].status = "NONE" THEN keys
                   ELSE [keys EXCEPT ![k].status = "COMPLETED", ![k].body = requests[r].answer]
        /\ UNCHANGED faults
     \/ Fault /\ UNCHANGED keys
  /\ Goes(r, "done")
  /\ UNCHANGED <<renewals, Others>>

Release(r) ==
  LET k == requests[r].key IN
  /\ requests[r].at \in {"release", "unread"}
  /\ \/ /\ keys[k].status = "IN_PROGRESS"
        /\ keys' = [keys EXCEPT ![k] = NoKey]
        /\ renewals' = [renewals EXCEPT ![k] =
             @ + (IF requests[r].at = "unread" THEN 1 ELSE 0)]
        /\ UNCHANGED faults
     \/ keys[k].status # "IN_PROGRESS" /\ UNCHANGED <<keys, renewals, faults>>
     \/ Fault /\ UNCHANGED <<keys, renewals>>
  /\ Goes(r, "done")
  /\ UNCHANGED Others

(* LOCK_TTL passes while the key is held.                                  *)
Stall(k) ==
  /\ keys[k].status = "IN_PROGRESS" /\ ~keys[k].stale
  /\ keys' = [keys EXCEPT ![k].stale = TRUE]
  /\ UNCHANGED <<requests, faults, renewals, Others>>

DeleteExpired ==
  LET gone == {k \in Keys : keys[k].status # "NONE" /\ Expired(keys[k])} IN
  /\ gone # {}
  /\ keys' = [k \in Keys |-> IF k \in gone THEN NoKey ELSE keys[k]]
  /\ renewals' = [k \in Keys |-> renewals[k] + (IF k \in gone THEN 1 ELSE 0)]
  /\ UNCHANGED <<requests, faults, Others>>

-----------------------------------------------------------------------------
(* SubmissionsService.create.                                              *)

KeyVars == <<keys, renewals>>

(* now is captured, the fields are checked; what they name may be refused. *)
(* A kind without a limit is not counted.                                  *)
Enter(r) ==
  /\ requests[r].at = "enter"
  /\ \/ requests' = [requests EXCEPT ![r].now = now,
                       ![r].at = IF requests[r].draft.limited THEN "lock" ELSE "insert"]
     \/ Goes(r, "release")
  /\ UNCHANGED <<faults, KeyVars, Others>>

LockFree_Always(r) == TRUE
LockFree(r) == lock = None

(* assertDailyLimit waits for the lock of the user and the kind ...        *)
Lock(r) ==
  /\ requests[r].at = "lock"
  /\ LockFree(r)
  /\ lock' = r
  /\ Goes(r, "count")
  /\ UNCHANGED <<now, rows, reader, faults, KeyVars>>

Freed(r) == lock' = IF lock = r THEN None ELSE lock

StartOfDay(t) == (t \div DayLength) * DayLength

CountedToday(t) == {row \in rows : row.draft.limited /\ row.at >= StartOfDay(t)}

(* ... and counts what is committed by then, refused and closed ones too.  *)
CountRows(r) ==
  /\ requests[r].at = "count"
  /\ IF Cardinality(CountedToday(requests[r].now)) < DailyLimit
     THEN Goes(r, "insert") /\ UNCHANGED lock
     ELSE Goes(r, "release") /\ Freed(r)
  /\ UNCHANGED <<now, rows, reader, faults, KeyVars>>

InIndex_OpenOnly(row) == row.status = "OPEN"
InIndex(row) == row.status # "CLOSED"

(* The unique index: an INSERT of the same notice waits for the first.     *)
Taken(notice, others) ==
  notice # None /\ \E row \in others : InIndex(row) /\ row.draft.notice = notice

Insert(r) ==
  LET draft == requests[r].draft IN
  /\ requests[r].at = "insert"
  /\ \/ /\ ~Taken(draft.notice, rows)
        /\ \E id \in Id \ {row.id : row \in rows} :
             /\ rows' = rows \cup {[id |-> id, key |-> requests[r].key, draft |-> draft,
                                    at |-> requests[r].now, status |-> "OPEN"]}
             /\ requests' = [requests EXCEPT ![r].at = "complete", ![r].answer = id]
        /\ UNCHANGED faults
     \/ /\ Taken(draft.notice, rows) /\ Goes(r, "release")
        /\ UNCHANGED <<rows, faults>>
     \/ Fault /\ Goes(r, "release") /\ UNCHANGED rows
  /\ Freed(r)
  /\ UNCHANGED <<now, reader, KeyVars>>

(* The submission is made, but to read it back for the answer fails.       *)
DetailFails(r) ==
  /\ requests[r].at = "complete"
  /\ Fault
  /\ requests' = [requests EXCEPT ![r].at = "unread", ![r].answer = None]
  /\ UNCHANGED <<KeyVars, Others>>

(* The pod dies: its transaction is undone, its key stays.                 *)
Dies(r) ==
  /\ requests[r].at \notin {"new", "done"}
  /\ Fault
  /\ requests' = [requests EXCEPT ![r].at = "done", ![r].answer = None]
  /\ Freed(r)
  /\ UNCHANGED <<now, rows, reader, KeyVars>>

(* What Submissions says of a row, as far as the index is concerned: the   *)
(* status of a row with a notice moves, an update may put in a notice.     *)
Becomes(row, new) ==
  /\ InIndex(new) => ~Taken(new.draft.notice, rows \ {row})
  /\ rows' = (rows \ {row}) \cup {new}
  /\ UNCHANGED <<now, requests, lock, reader, faults, KeyVars>>

Moves(row) ==
  /\ row.draft.notice # None /\ row.status # "CLOSED"
  /\ \E status \in Status \ {row.status} : Becomes(row, [row EXCEPT !.status = status])

Renotice(row) ==
  /\ ~row.draft.limited /\ row.status # "CLOSED"
  /\ \E notice \in Notices \ {row.draft.notice} :
       Becomes(row, [row EXCEPT !.draft.notice = notice])

-----------------------------------------------------------------------------
(* SubmissionsService.list, page after page.                               *)

(* [createdAt, id] is the sort key; the newest come first.                 *)
Newer(a, b) == a.at > b.at \/ (a.at = b.at /\ a.id > b.id)

AfterCursor_TimeOnly(row) == row.at < reader.cursor.at
AfterCursor(row) == Newer(reader.cursor, row)

TopOf(set) == {row \in set : Cardinality({r \in set : Newer(r, row)}) < PageLimit}

ReadPage ==
  LET rest == IF reader.cursor = None THEN rows
              ELSE {row \in rows : AfterCursor(row)}
      page == TopOf(rest)
      last == CHOOSE row \in page : \A r \in page : r = row \/ Newer(r, row)
  IN /\ ~reader.finished
     /\ reader' = [finished |-> page = rest,
                   cursor   |-> IF page = rest THEN None ELSE [at |-> last.at, id |-> last.id],
                   missing  |-> (IF reader.cursor = None THEN {row.id : row \in rows}
                                                         ELSE reader.missing)
                                  \ {row.id : row \in page}]
     /\ UNCHANGED <<now, requests, rows, lock, faults, KeyVars>>

Tick ==
  /\ now < MaxTime
  /\ now' = now + 1
  /\ UNCHANGED <<keys, requests, rows, lock, reader, faults, renewals>>

-----------------------------------------------------------------------------
Init ==
  /\ now = 0 /\ faults = 0 /\ lock = None /\ rows = {}
  /\ keys = [k \in Keys |-> NoKey]
  /\ renewals = [k \in Keys |-> 0]
  /\ requests = [r \in Requests |-> NoRequest]
  /\ reader = [finished |-> FALSE, cursor |-> None, missing |-> {}]

Step(r) ==
  \/ Claim(r) \/ Look(r) \/ Enter(r) \/ Lock(r) \/ CountRows(r)
  \/ Insert(r) \/ DetailFails(r) \/ Complete(r) \/ Release(r)

Next ==
  \/ \E r \in Requests :
       \/ \E k \in Keys, draft \in Draft : Send(r, k, draft)
       \/ Step(r)
       \/ Dies(r)
  \/ \E k \in Keys : Stall(k)
  \/ DeleteExpired
  \/ \E row \in rows : Moves(row) \/ Renotice(row)
  \/ ReadPage
  \/ Tick

Spec == Init /\ [][Next]_vars

-----------------------------------------------------------------------------
(* Properties.                                                             *)

(* The types.                                                              *)
TypeOK ==
  /\ now \in 0..MaxTime /\ faults \in 0..MaxFaults
  /\ keys \in [Keys -> Key]
  /\ requests \in [Requests -> Request]
  /\ rows \subseteq Row
  /\ lock \in Requests \cup {None}
  /\ renewals \in [Keys -> Nat]

OneEffectPerKey ==
  \A k \in Keys : Cardinality({row \in rows : row.key = k}) <= 1 + renewals[k]

OneAnswerPerKey ==
  \A r, s \in Requests :
    LET q == requests[r] p == requests[s] IN
    /\ q.at = "done" /\ q.answer \in Id /\ p.at = "done" /\ p.answer \in Id
    /\ q.key = p.key /\ renewals[q.key] = 0
    => q.answer = p.answer /\ q.draft = p.draft

(* A key makes one submission, and one more for each time it was taken over*)
(* from a request that seemed dead, was forgotten, or was given back by a  *)
(* request that had made its submission and failed to read it for the      *)
(* answer: however requests with it overlap, fail, stall and release one   *)
(* another's claim.  Without any of the three, those who sent the key got  *)
(* one answer, to one request (IdempotencyInterceptor, fingerprint,        *)
(* IDEMPOTENCY_KEY_REUSED).                                                *)
KeysAreHonoured == TypeOK /\ OneEffectPerKey /\ OneAnswerPerKey

(* No day has more submissions of a limited kind than it may, although the *)
(* time is taken before the lock is waited for, across midnight too        *)
(* (assertDailyLimit).                                                     *)
WithinLimit ==
  \A t \in 0..MaxTime :
    Cardinality({row \in rows : row.draft.limited /\ StartOfDay(row.at) = StartOfDay(t)})
      <= DailyLimit

(* A notice never has two submissions that are on their way to the screen  *)
(* or may be sent in again (submissions_ziggle_notice_id_active_uq).       *)
OneOpenPerNotice ==
  \A a, b \in rows :
    a.draft.notice # None /\ a.draft.notice = b.draft.notice
      /\ a.status # "CLOSED" /\ b.status # "CLOSED" => a.id = b.id

(* Who pages to the end has seen every submission that was there at the    *)
(* first page, while others come in with earlier and later times (cursor). *)
ListIsComplete == reader.finished => reader.missing = {}

=============================================================================
