\* An administrator and a user who may log in and be promoted; two requests
\* at once, and each grant changes twice.  No symmetry: one property is temporal.
SPECIFICATION Spec
CONSTANTS
  User = {u1, u2}
  Founders = {u1}
  Requests = {q1, q2}
  Nobody = nobody
  MaxChanges = 2
INVARIANTS
  SomebodyAdministers
  LastCheckNeverFires
  AuditTellsRoles
PROPERTIES
  ChangedByAdmins
  RequestsEnd
\* Clients may have nothing left to ask, and MaxChanges stops them.
CHECK_DEADLOCK FALSE
