---------------------------- MODULE DeviceAlerts ----------------------------
(***************************************************************************)
(* Which silences of a TV become notices.  A job compares each device with *)
(* the state it left in device_alert_states; devices report, fall silent   *)
(* and sleep, and administrators edit them, at any moment, also between    *)
(* the reads of a run and its writes.                                      *)
(*                                                                         *)
(* Time is abstract: what lasts 90 seconds from some event is a flag that  *)
(* may drop at any moment.                                                 *)
(*                                                                         *)
(* ASSUMED: runs come in the order of the times they took.  A run takes    *)
(* its time before it has a connection and the lock; one that waits there  *)
(* while another begins and ends would see older devices than that one.    *)
(***************************************************************************)
EXTENDS Notices

CONSTANTS
  MaxBeats,      \* BOUND on the heartbeats of a device
  MaxSpells      \* BOUND on how often a device is activated again

ASSUME DeviceAlertsConstantsOK == MaxBeats \in Nat /\ MaxSpells \in Nat

VARIABLES
  devices,       \* the devices table, and its clocks
  alerts,        \* device_alert_states
  job,           \* the run of the detection job under its lock
  notices,       \* the status of each notice
  about          \* the heartbeat and spell that an outage notice is about

vars == <<devices, alerts, job, notices, about>>

-----------------------------------------------------------------------------
(* seen: which heartbeat last_seen_at is of, 0 for null.  recent: it is at *)
(* most 90 seconds old.  shield: less than 90 seconds passed since grace   *)
(* was given, since a quiet moment or since updated_at.  edited:           *)
(* updated_at is later than checked_at.  spell: how often the device was   *)
(* activated again.                                                        *)
DeviceRow == [active : BOOLEAN, seen : 0..MaxBeats, recent : BOOLEAN,
              quiet : BOOLEAN, shield : BOOLEAN, edited : BOOLEAN,
              spell : 0..MaxSpells]

DeviceStatus == {"ONLINE", "OFFLINE", "SLEEPING", "DISABLED"}

(* The status of a missing row is NONE. *)
AlertState == [status : DeviceStatus \cup {"NONE"}, seen : 0..MaxBeats,
               incident : Incident \cup {None}]

(* What a run of the job has found out about a device. *)
Finding == [state : AlertState, alert : BOOLEAN, grace : BOOLEAN,
            edited : BOOLEAN, recovered : Incident \cup {None},
            looks : BOOLEAN, spell : 0..MaxSpells]

Nothing == [state |-> [status |-> "NONE", seen |-> 0, incident |-> None],
            alert |-> FALSE, grace |-> FALSE, edited |-> FALSE,
            recovered |-> None, looks |-> FALSE, spell |-> 0]

Idle == [at |-> "idle", findings |-> [d \in Device |-> Nothing]]

TypeOK ==
  /\ devices \in [Device -> DeviceRow]
  /\ alerts \in [Device -> AlertState]
  /\ job \in [at : {"idle", "read"}, findings : [Device -> Finding]]
  /\ notices \in [Notice -> Status]
  /\ about \in [Device -> [Incident -> (0..MaxBeats) \X (0..MaxSpells)]]

(* Devices that were just registered. *)
Init ==
  /\ devices = [d \in Device |->
       [active |-> TRUE, seen |-> 0, recent |-> FALSE, quiet |-> FALSE,
        shield |-> TRUE, edited |-> FALSE, spell |-> 0]]
  /\ alerts = [d \in Device |-> Nothing.state]
  /\ job = Idle
  /\ notices = [n \in Notice |-> "NONE"]
  /\ about = [d \in Device |-> [i \in Incident |-> <<0, 0>>]]

-----------------------------------------------------------------------------
(* The devices and those who administer them.                              *)

Becomes(d, row) ==
  /\ devices' = [devices EXCEPT ![d] = row]
  /\ UNCHANGED <<alerts, job, notices, about>>

Heartbeat(d) ==
  /\ devices[d].active /\ devices[d].seen < MaxBeats
  /\ Becomes(d, [devices[d] EXCEPT !.seen = @ + 1, !.recent = TRUE])

GoesSilent(d) ==
  /\ devices[d].recent
  /\ Becomes(d, [devices[d] EXCEPT !.recent = FALSE])

ShieldEnds(d) ==
  /\ devices[d].shield /\ ~devices[d].quiet
  /\ Becomes(d, [devices[d] EXCEPT !.shield = FALSE])

(* The quiet hours of the lineup begin or end, or are set anew. *)
TurnsQuiet(d) ==
  Becomes(d, [devices[d] EXCEPT !.quiet = ~@, !.shield = TRUE])

(* DevicesService.update, which may switch the device off or on. *)
Edit(d, active) ==
  LET again == active /\ ~devices[d].active
  IN /\ again => devices[d].spell < MaxSpells
     /\ Becomes(d, [devices[d] EXCEPT
          !.active = active, !.shield = TRUE, !.edited = TRUE,
          !.spell = IF again THEN @ + 1 ELSE @])

-----------------------------------------------------------------------------
(* DeviceOfflineAlertJob, one run at a time under its job lock.            *)

StatusOf(row) ==                              \* deviceStatusOf
  CASE ~row.active                              -> "DISABLED"
    [] row.active /\ row.quiet                  -> "SLEEPING"
    [] row.active /\ ~row.quiet /\ row.recent   -> "ONLINE"
    [] OTHER                                    -> "OFFLINE"

StillOpen_UnlessAsleep(status) == status = "OFFLINE"

(* A status in which an incident that no heartbeat ended goes on. *)
StillOpen(status) == status \in {"OFFLINE", "SLEEPING"}

Heard_IfConnected(row, prev) == row.seen > prev.seen /\ row.recent

(* A heartbeat came since the last run. *)
Heard(row, prev) == row.seen > prev.seen

Grace(row, prev) ==
  \/ row.seen = 0
  \/ StatusOf(row) \in {"DISABLED", "SLEEPING"}
  \/ prev.status \in {"DISABLED", "SLEEPING"}
  \/ prev.status # "NONE" /\ row.edited

Recovered_NotOffline(row, prev) ==
  IF StatusOf(row) # "OFFLINE" THEN prev.incident ELSE None

(* A new heartbeat ends an incident; falling asleep does not. *)
Recovered(row, prev) ==
  IF Heard(row, prev) /\ row.active /\ row.recent THEN prev.incident
                                                  ELSE None

(* evaluateDeviceAlert *)
Evaluate(row, prev) ==
  LET status   == StatusOf(row)
      incident == IF Heard(row, prev) \/ ~StillOpen(status)
                  THEN None ELSE prev.incident
  IN [state     |-> [status |-> status, seen |-> row.seen,
                     incident |-> incident],
      alert     |-> /\ status = "OFFLINE" /\ row.seen # 0
                    /\ incident = None
                    /\ ~Grace(row, prev) /\ ~row.shield,
      grace     |-> Grace(row, prev),
      edited    |-> row.edited,
      recovered |-> Recovered(row, prev),
      looks     |-> Recovered(row, prev) # None,
      spell     |-> row.spell]

(* An edit may be of a moment after the run took its time: it is there for *)
(* the next run too.                                                       *)
JobReads ==
  /\ job.at = "idle"
  /\ job' = [at |-> "read", findings |->
               [d \in Device |-> Evaluate(devices[d], alerts[d])]]
  /\ \E late \in SUBSET {d \in Device : devices[d].edited} :
       devices' = [d \in Device |-> [devices[d] EXCEPT !.edited = d \in late]]
  /\ UNCHANGED <<alerts, notices, about>>

(* The run reads what became of the notice of an outage that is over; a    *)
(* delivery may commit after it.                                           *)
JobLooks(d) ==
  LET i == job.findings[d].recovered
  IN /\ job.at = "read" /\ job.findings[d].looks
     /\ job' = [job EXCEPT !.findings[d].looks = FALSE,
          !.findings[d].recovered = IF WorthTelling(notices, d, i) THEN i
                                                                  ELSE None]
     /\ UNCHANGED <<devices, alerts, notices, about>>

(* ON CONFLICT DO NOTHING, for a recovery. *)
JobWrites ==
  LET f        == job.findings
      id(d)    == NextIncident(notices, d)
      opens(d) == f[d].alert /\ id(d) \in Incident
      new == {Off(d, id(d)) : d \in {e \in Device : opens(e)}}
               \cup {Rec(d, f[d].recovered) :
                       d \in {e \in Device : f[e].recovered # None}}
  IN /\ job.at = "read" /\ \A d \in Device : ~f[d].looks
     /\ notices' = [n \in Notice |->
          IF n \in new /\ notices[n] = "NONE" THEN "PENDING" ELSE notices[n]]
     /\ about' = [d \in Device |-> [i \in Incident |->
          IF opens(d) /\ i = id(d) THEN <<f[d].state.seen, f[d].spell>>
                                   ELSE about[d][i]]]
     /\ alerts' = [d \in Device |->
          IF opens(d) THEN [f[d].state EXCEPT !.incident = id(d)]
                      ELSE f[d].state]
     /\ devices' = [d \in Device |->
          [devices[d] EXCEPT !.shield = @ \/ f[d].grace]]
     /\ job' = Idle

(* Rolled back: checked_at stays as it was. *)
JobDies ==
  /\ job.at # "idle"
  /\ job' = Idle
  /\ devices' = [d \in Device |->
       [devices[d] EXCEPT !.edited = @ \/ job.findings[d].edited]]
  /\ UNCHANGED <<alerts, notices, about>>

(* What delivery makes of a notice meanwhile, as Outages allows it. *)
Delivered(n, status) ==
  /\ notices[n] \in Live
  /\ n[1] = "RECOVERED" /\ status = "SENT" =>
       notices[Off(n[2], n[3])] = "SENT"
  /\ notices' = [notices EXCEPT ![n] = status]
  /\ UNCHANGED <<devices, alerts, job, about>>

-----------------------------------------------------------------------------
Next ==
  \/ \E d \in Device :
       \/ Heartbeat(d) \/ GoesSilent(d) \/ ShieldEnds(d) \/ TurnsQuiet(d)
       \/ \E active \in BOOLEAN : Edit(d, active)
       \/ JobLooks(d)
  \/ JobReads \/ JobWrites \/ JobDies
  \/ \E n \in Notice, status \in Live \cup Settled : Delivered(n, status)

(* The cron fires every minute for ever and not every run dies, so that    *)
(* again and again one commits; time passes.                               *)
Fairness ==
  /\ []<><<JobWrites>>_vars
  /\ \A d \in Device : WF_vars(ShieldEnds(d))

Spec == Init /\ [][Next]_vars /\ Fairness

-----------------------------------------------------------------------------
(* Properties.                                                             *)

(* One outage, from its last heartbeat on, is one notice: restarts of the  *)
(* job, sleep and silence do not make another, as long as no run overtakes *)
(* an older one.  Activation does.                                         *)
OneNoticePerOutage ==
  /\ TypeOK
  /\ \A d \in Device, i, j \in Incident :
       /\ i # j
       /\ notices[Off(d, i)] # "NONE" /\ notices[Off(d, j)] # "NONE"
       => about[d][i] # about[d][j]

(* A TV that stays dark in its hours, and that nobody edits, has in the    *)
(* end an open incident of this very silence, whatever incidents it had    *)
(* before, short of the bound on incidents.                                *)
Dark(d) ==
  /\ devices[d].active /\ ~devices[d].quiet
  /\ devices[d].seen # 0 /\ ~devices[d].recent /\ ~devices[d].edited

Reported(d) ==
  /\ alerts[d].incident # None
  /\ about[d][alerts[d].incident][1] = devices[d].seen

OutageIsNoticed ==
  \A d \in Device :
    <>[]Dark(d) => <>[](Reported(d) \/ NextIncident(notices, d) \notin Incident)

(* Incidents open and close as Outages promises: each with its one notice, *)
(* and a recovery only of the incident that just ended.                    *)
O == INSTANCE Outages WITH incident <- [d \in Device |-> alerts[d].incident]

ImplementsOutages == O!Spec

=============================================================================
