------------------------------- MODULE Outages -------------------------------
(***************************************************************************)
(* What detection and delivery promise one another about the outages of    *)
(* TVs: at most one incident is open per device, every incident has its    *)
(* one notice, a recovery is noted of an incident that ends and sent only  *)
(* if the outage was announced, and the result of a notice is final.       *)
(***************************************************************************)
EXTENDS Notices

VARIABLES
  incident,   \* the open incident of each device
  notices     \* the status of each notice

vars == <<incident, notices>>

Init ==
  /\ incident = [d \in Device |-> None]
  /\ notices = [n \in Notice |-> "NONE"]

(* Incidents open and close together with the notices of it. *)
Detect ==
  LET closed == {d \in Device : incident[d] # None
                                  /\ incident'[d] # incident[d]}
      opened == {d \in Device : incident'[d] = NextIncident(notices, d)}
      new    == {Off(d, incident'[d]) : d \in opened}
  IN /\ incident' \in [Device -> Incident \cup {None}]
     /\ \A d \in Device :
          incident'[d] \in {None, incident[d], NextIncident(notices, d)}
     /\ \E told \in SUBSET {Rec(d, incident[d]) : d \in closed} :
          notices' = [n \in Notice |->
            IF n \in new \cup told /\ notices[n] = "NONE" THEN "PENDING"
                                                          ELSE notices[n]]

(* Any number of notices that have no result move on, or get theirs. *)
Deliver ==
  /\ notices' \in [Notice -> Status]
  /\ \A n \in Notice :
       notices'[n] # notices[n] =>
         notices[n] \in Live /\ notices'[n] \in Live \cup Settled
  /\ \A d \in Device, i \in Incident :
       notices[Rec(d, i)] # "SENT" /\ notices'[Rec(d, i)] = "SENT" =>
         notices[Off(d, i)] = "SENT"
  /\ UNCHANGED incident

Remind(s) ==
  /\ notices[Review(s)] = "NONE"
  /\ notices' = [notices EXCEPT ![Review(s)] = "PENDING"]
  /\ UNCHANGED incident

Next == Detect \/ Deliver \/ \E s \in Slots : Remind(s)

Spec == Init /\ [][Next]_vars

=============================================================================
