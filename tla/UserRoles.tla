----------------------------- MODULE UserRoles -----------------------------
(***************************************************************************)
(* Granting and revoking roles.  The guards look at the roles of the       *)
(* requester when a request arrives; the service takes a transaction-scoped*)
(* advisory lock, looks again, changes the table and the audit log, and    *)
(* commits.  Requests of several administrators overlap anywhere outside   *)
(* the lock, and a request may die anywhere.                               *)
(***************************************************************************)
EXTENDS Integers

CONSTANTS
  User,          \* everybody who may ever log in
  Founders,      \* who holds SUPER_ADMIN by hand in the database at first
  Requests,      \* PUT and DELETE /users/{id}/roles/{role} in flight
  Nobody,        \* holds the lock when no request does
  MaxChanges     \* BOUND: a grant recorded that often changes no more

ASSUME UserRolesConstantsOK ==
  /\ Founders \subseteq User /\ Founders # {}
  /\ Nobody \notin Requests
  /\ MaxChanges \in Nat

Roles == {"REVIEWER", "SUPER_ADMIN"}
Grant == User \X Roles               \* a row of user_roles

VARIABLES
  users,     \* the users table: who has logged in
  granted,   \* the user_roles table
  audit,     \* how often each grant is in the audit log, and each revocation
  lock,      \* who holds ROLE_LOCK
  requests   \* what each request is doing

vars == <<users, granted, audit, lock, requests>>

Admin(u) == <<u, "SUPER_ADMIN">>

-----------------------------------------------------------------------------
(* removed: a DELETE that found its row, seen only by its transaction yet. *)
Request == [at : {"idle", "waiting", "locked", "changing", "committing"},
            by : User, op : {"grant", "revoke"}, target : Grant,
            effect : BOOLEAN,
            answer : {"NONE", "OK", "FORBIDDEN", "NOT_FOUND", "CONFLICT"}]

Blank(answer) ==
  LET u == CHOOSE u \in Founders : TRUE
  IN [at |-> "idle", by |-> u, op |-> "grant", target |-> Admin(u),
      effect |-> FALSE, answer |-> answer]

TypeOK ==
  /\ users \subseteq User
  /\ granted \subseteq Grant
  /\ audit \in [Grant -> [granted : Nat, revoked : Nat]]
  /\ lock \in Requests \cup {Nobody}
  /\ requests \in [Requests -> Request]

Init ==
  /\ users = Founders
  /\ granted = {Admin(u) : u \in Founders}
  /\ audit = [g \in Grant |-> [granted |-> 0, revoked |-> 0]]
  /\ lock = Nobody
  /\ requests = [q \in Requests |-> Blank("NONE")]

-----------------------------------------------------------------------------
(* The row of users that a first login inserts. *)
Login(u) ==
  /\ users' = users \cup {u}
  /\ u \notin users
  /\ UNCHANGED <<granted, audit, lock, requests>>

RoleParam == Roles                   \* rolePipe

(* BOUND on how often a grant changes. *)
MayChange(g) == \A h \in Grant :
  h = g => audit[h].granted + audit[h].revoked < MaxChanges

(* JwtAuthGuard reads the requester's roles and RolesGuard lets it pass;   *)
(* revoke refuses to touch the requester's own roles before anything else. *)
Arrive(q, u, op, g) ==
  /\ requests[q].at = "idle"
  /\ u \in users /\ Admin(u) \in granted
  /\ MayChange(g)
  /\ requests' = [requests EXCEPT ![q] =
       IF op = "revoke" /\ g[1] = u
       THEN Blank("FORBIDDEN")
       ELSE [at |-> "waiting", by |-> u, op |-> op, target |-> g,
             effect |-> FALSE, answer |-> "NONE"]]
  /\ UNCHANGED <<users, granted, audit, lock>>

LockFree_Shared == TRUE

LockFree == lock = Nobody

(* pg_advisory_xact_lock waits until the holder's transaction ends. *)
Lock(q) ==
  /\ requests[q].at = "waiting" /\ LockFree
  /\ lock' = q
  /\ requests' = [requests EXCEPT ![q].at = "locked"]
  /\ UNCHANGED <<users, granted, audit>>

Ends_LockKept(q, answer) ==
  /\ requests' = [requests EXCEPT ![q] = Blank(answer)]
  /\ lock' = IF answer = "OK" THEN Nobody ELSE lock

(* Every way out ends the transaction, which frees the lock. *)
Ends(q, answer) ==
  /\ requests' = [requests EXCEPT ![q] = Blank(answer)]
  /\ lock' = Nobody

StillAdmin_GuardOnly(q) == TRUE

StillAdmin(q) == Admin(requests[q].by) \in granted

Recheck(q) ==
  /\ requests[q].at = "locked"
  /\ IF StillAdmin(q)
     THEN /\ requests' = [requests EXCEPT ![q].at = "changing"]
          /\ UNCHANGED lock
     ELSE Ends(q, "FORBIDDEN")
  /\ UNCHANGED <<users, granted, audit>>

Effect_AlwaysLogged(op, g) == TRUE

(* ON CONFLICT DO NOTHING, or the rows DELETE ... RETURNING finds. *)
Effect(op, g) == IF op = "grant" THEN g \notin granted ELSE g \in granted

(* hasSuperAdmin: the transaction sees its own DELETE. *)
LastAdmin(q) ==
  LET g == requests[q].target
  IN /\ requests[q].op = "revoke" /\ g[2] = "SUPER_ADMIN"
     /\ Effect("revoke", g)
     /\ \A u \in User : Admin(u) \in granted => u = g[1]

Change(q) ==
  LET g == requests[q].target
  IN /\ requests[q].at = "changing"
     /\ IF g[1] \notin users THEN Ends(q, "NOT_FOUND")
        ELSE IF LastAdmin(q) THEN Ends(q, "CONFLICT")
        ELSE /\ requests' = [requests EXCEPT ![q].at = "committing",
                               ![q].effect = Effect(requests[q].op, g)]
             /\ UNCHANGED lock
     /\ UNCHANGED <<users, granted, audit>>

(* The table and the audit log change in one transaction, or neither does. *)
Commit(q) ==
  LET g == requests[q].target
  IN /\ requests[q].at = "committing"
     /\ CASE ~requests[q].effect -> UNCHANGED <<granted, audit>>
          [] requests[q].effect /\ requests[q].op = "grant" ->
               /\ granted' = granted \cup {g}
               /\ audit' = [audit EXCEPT ![g].granted = @ + 1]
          [] OTHER ->
               /\ granted' = granted \ {g}
               /\ audit' = [audit EXCEPT ![g].revoked = @ + 1]
     /\ Ends(q, "OK")
     /\ UNCHANGED users

(* The pod or its connection dies: the database rolls back. *)
Dies(q) ==
  /\ requests[q].at # "idle"
  /\ requests' = [requests EXCEPT ![q] = Blank("NONE")]
  /\ lock' = IF lock = q THEN Nobody ELSE lock
  /\ UNCHANGED <<users, granted, audit>>

Next ==
  \/ \E u \in User : Login(u)
  \/ \E q \in Requests :
       \/ \E u \in User, v \in User, role \in RoleParam :
            \E op \in {"grant", "revoke"} : Arrive(q, u, op, <<v, role>>)
       \/ Lock(q) \/ Recheck(q) \/ Change(q) \/ Commit(q) \/ Dies(q)

(* The lock's waiters are served in turn, and the statements return.       *)
Fairness ==
  \A q \in Requests : /\ SF_vars(Lock(q))
                      /\ WF_vars(Recheck(q) \/ Change(q) \/ Commit(q))

Spec == Init /\ [][Next]_vars /\ Fairness

-----------------------------------------------------------------------------
(* Properties.                                                             *)

(* Administrators cannot remove each other until none is left: whatever    *)
(* requests overlap, somebody still holds SUPER_ADMIN.                     *)
SomebodyAdministers == \E u \in users : Admin(u) \in granted

(* user-roles.service.ts:147: since a requester is SUPER_ADMIN and cannot  *)
(* revoke itself, the last check inside the transaction never fires.       *)
LastCheckNeverFires == \A q \in Requests : requests[q].answer # "CONFLICT"

(* The audit log tells the roles: who held a role at first, plus the       *)
(* recorded grants, less the recorded revocations; a request that changed  *)
(* nothing left no entry and no change is without one.                     *)
AuditTellsRoles ==
  \A g \in Grant :
    audit[g].granted - audit[g].revoked =
      (IF g \in granted THEN 1 ELSE 0)
        - (IF g \in {Admin(u) : u \in Founders} THEN 1 ELSE 0)

(* Only somebody who is SUPER_ADMIN at that moment changes a role, however *)
(* long ago the guards let the request in; nobody revokes their own.  So   *)
(* of two administrators revoking each other only the first succeeds.      *)
ChangedByAdmins ==
  [][granted' # granted =>
       \E q \in Requests :
         /\ requests[q].at = "committing" /\ requests'[q].at = "idle"
         /\ Admin(requests[q].by) \in granted \cap granted'
         /\ {requests[q].target} = (granted \ granted') \cup (granted' \ granted)
    ]_vars

(* Nobody waits for ever on the lock of a request that died or was refused.*)
RequestsEnd == \A q \in Requests : requests[q].at # "idle" ~> requests[q].at = "idle"
=============================================================================
