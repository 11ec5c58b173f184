------------------------------- MODULE Notices -------------------------------
(***************************************************************************)
(* The table slack_notifications as its writers and its reader share it:   *)
(* which notices there may be, and the statuses of one.                    *)
(***************************************************************************)
EXTENDS Naturals, FiniteSets

CONSTANTS
  Device,
  Slots,          \* the times of day at which reviews are called to mind
  MaxIncidents    \* BOUND on the incidents of a device

ASSUME NoticesConstantsOK ==
  /\ Device # {}
  /\ MaxIncidents \in Nat

Incident == 1..MaxIncidents
None     == 0                             \* a null incident_id

Off(d, i) == <<"OFFLINE", d, i>>          \* dedupe key device:d:i
Rec(d, i) == <<"RECOVERED", d, i>>        \* dedupe key device-recovered:d:i
Review(s) == <<"REVIEW", s, None>>        \* dedupe key review:s

Notice == {Off(d, i) : d \in Device, i \in Incident}
            \cup {Rec(d, i) : d \in Device, i \in Incident}
            \cup {Review(s) : s \in Slots}

Live    == {"PENDING", "SENDING"}
Settled == {"SENT", "FAILED", "CANCELED"}
Status  == Live \cup Settled \cup {"NONE"}        \* NONE: not inserted

(* A fresh UUID is the device's next number. *)
NextIncident(table, d) ==
  Cardinality({i \in Incident : table[Off(d, i)] # "NONE"}) + 1

(* A recovery is worth a notice if the outage was announced or may yet be. *)
WorthTelling(table, d, i) ==
  i # None /\ table[Off(d, i)] \in Live \cup {"SENT"}

=============================================================================
