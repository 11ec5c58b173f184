------------------------------ MODULE Realtime ------------------------------
(***************************************************************************)
(* The WebSockets of one server process: connections and their limits, the *)
(* rooms of the game relay, and the notices that tell connected TVs to     *)
(* fetch their playlist again.  A room is a device; its host is the TV's   *)
(* control channel.                                                        *)
(*                                                                         *)
(* JavaScript runs one callback at a time: a step here is what happens     *)
(* between two awaits or two socket events.  close() only begins to close  *)
(* a socket; what it held is freed by its 'close' event, later.            *)
(***************************************************************************)
EXTENDS Integers, Sequences, FiniteSets, Functions

CONSTANTS
  Sockets,          \* connections, each made once
  Rooms,            \* devices
  Ips,
  Groups,           \* target groups
  None,
  MaxConnections, MaxPerIp, MaxPerIpPerRoom, MaxPlayers,   \* RELAY_LIMITS
  MaxChanges        \* BOUND on the changes administrators make

ASSUME RealtimeConstantsOK ==
  /\ None \notin Sockets \cup Rooms
  /\ Groups # {}
  /\ {MaxConnections, MaxPerIp, MaxPerIpPerRoom, MaxPlayers} \subseteq Nat \ {0}
  /\ MaxChanges \in Nat

VARIABLES
  sock,         \* per socket: how far it is, and what it asked for
  count,        \* ConnectionCounter: per IP, and per IP and room
  known,        \* knownRooms: whether a room exists, as far as remembered
  rooms,        \* GameRelay.rooms: those that are open
  told,         \* per socket: what a player was last told of its host
  device,       \* devices: what this component reads of a row
  disconnects,  \* devices whose token was replaced, or that were turned off,
                \* and whose channel the request has yet to close
  unsent,       \* changes committed and not yet emitted
  edited,       \* per changed program whose users are yet to be looked up: the
                \* groups and devices that show it
  pending, timer,  \* DeviceControlService.pending, .timer
  batches,      \* flushes that are choosing their targets
  fresh,        \* history: whether the TV has what is configured, was told of
                \* a change, or missed one because what to tell was not read
  changes

socketVars == <<sock, count, known, rooms, told>>
noticeVars == <<unsent, edited, pending, timer, batches, fresh, changes>>
vars == <<socketVars, device, disconnects, noticeVars>>

-----------------------------------------------------------------------------
(* Connections.  "in": in a room, with its socket open.                    *)

Out  == [step |-> "out", role |-> None, ip |-> None, room |-> None, in |-> None]
Live == {"unauthenticated", "reading", "verified", "in"}
Steps == {"out", "checking", "found", "refused", "closing", "gone"} \cup Live

Clients == {s \in Sockets : sock[s].step \in Live \cup {"closing"}}
Open(s) == sock[s].step \in Live

Keys_IpOnly(ip, room) == {<<ip>>}
Keys(ip, room) == {<<ip>>} \cup (IF room = None THEN {} ELSE {<<ip, room>>})

Limit(key) == IF Len(key) = 1 THEN MaxPerIp ELSE MaxPerIpPerRoom

CountKeys == UNION {Keys(ip, room) : ip \in Ips, room \in Rooms \cup {None}}

Counted(keys, n) == [k \in DOMAIN count |-> IF k \in keys THEN count[k] + n ELSE count[k]]
Release(s) == count' = Counted(Keys(sock[s].ip, sock[s].room), -1)

Goes(s, step) == sock' = [sock EXCEPT ![s].step = step]

(* handleUpgrade: the connection is counted before the room is looked up.  *)
Upgrade(s, role, ip, room) ==
  /\ sock[s] = Out
  /\ role = "player" => room # None
  /\ Cardinality(Clients) < MaxConnections
  /\ \A key \in Keys(ip, room) : count[key] < Limit(key)
  /\ count' = Counted(Keys(ip, room), 1)
  /\ sock' = [sock EXCEPT ![s] = [step |-> IF role = "player" THEN "checking" ELSE "found",
                                  role |-> role, ip |-> ip, room |-> room, in |-> None]]
  /\ UNCHANGED <<known, rooms, told, device, disconnects, noticeVars>>

(* roomExists: remembered, or read; a read that fails counts as missing.   *)
LookUp(s) ==
  LET room == sock[s].room IN
  /\ sock[s].step = "checking"
  /\ \E answer \in {known[room]} \cup
                   (IF known[room] # "unknown" THEN {}
                    ELSE {IF device[room].active THEN "active" ELSE "inactive"}) :
       /\ known' = [known EXCEPT ![room] = answer]
       /\ Goes(s, IF answer = "active" THEN "found" ELSE "refused")
  /\ UNCHANGED <<count, rooms, told, device, disconnects, noticeVars>>

Forget(room) ==
  /\ known[room] # "unknown"
  /\ known' = [known EXCEPT ![room] = "unknown"]
  /\ UNCHANGED <<sock, count, rooms, told, device, disconnects, noticeVars>>

(* The requester goes while its room is being looked up.                   *)
LeaveEarly(s) ==
  /\ sock[s].step = "checking"
  /\ Goes(s, "refused")
  /\ UNCHANGED <<count, known, rooms, told, device, disconnects, noticeVars>>

NotAccepted(s) ==
  /\ sock[s].step = "refused"
  /\ Goes(s, "gone")
  /\ Release(s)
  /\ UNCHANGED <<known, rooms, told, device, disconnects, noticeVars>>

(* ws refuses the handshake and never calls back: nothing is released.     *)
HandshakeFails(s) ==
  /\ sock[s].step = "found"
  /\ Goes(s, "gone")
  /\ UNCHANGED <<count, known, rooms, told, device, disconnects, noticeVars>>

-----------------------------------------------------------------------------
(* GameRelay.                                                              *)

Room(d) == IF d \in DOMAIN rooms THEN rooms[d] ELSE [host |-> None, players |-> {}]

HostOf(d) == Room(d).host

DropIfEmpty(rs) ==
  Restrict(rs, {d \in DOMAIN rs : rs[d].host # None \/ rs[d].players # {}})

Opened(d, room) == [e \in DOMAIN rooms \cup {d} |-> IF e = d THEN room ELSE rooms[e]]

(* What the players of a room whose sockets are open are told.             *)
Tell(d, online) ==
  told' = [s \in Sockets |-> IF s \in Room(d).players /\ Open(s)
                             THEN online ELSE told[s]]

IsFull(d) == Cardinality(Room(d).players) >= MaxPlayers

AcceptPlayer(s) ==
  LET d == sock[s].room IN
  /\ sock[s].step = "found" /\ sock[s].role = "player"
  /\ IF IsFull(d)
     THEN Goes(s, "closing") /\ UNCHANGED <<rooms, told>>
     ELSE /\ rooms' = Opened(d, [Room(d) EXCEPT !.players = @ \cup {s}])
          /\ told' = [told EXCEPT ![s] = IF HostOf(d) = None THEN "offline" ELSE "online"]
          /\ sock' = [sock EXCEPT ![s].step = "in", ![s].in = d]
  /\ UNCHANGED <<count, known, device, disconnects, noticeVars>>

AcceptHost(s) ==
  /\ sock[s].step = "found" /\ sock[s].role = "host"
  /\ Goes(s, "unauthenticated")
  /\ UNCHANGED <<count, known, rooms, told, device, disconnects, noticeVars>>

FirstMessage(s) ==
  /\ sock[s].step = "unauthenticated"
  /\ Goes(s, "reading")
  /\ UNCHANGED <<count, known, rooms, told, device, disconnects, noticeVars>>

(* authenticateHost: the token is that of an active device; the answer     *)
(* comes later.                                                            *)
ReadToken(s) ==
  /\ sock[s].step = "reading"
  /\ \E d \in Rooms : /\ device[d].active
                      /\ sock' = [sock EXCEPT ![s].step = "verified", ![s].in = d]
  /\ UNCHANGED <<count, known, rooms, told, device, disconnects, noticeVars>>

(* The token does not count, is for another room, or did not come in time. *)
TurnAway(s) ==
  /\ \/ sock[s].step \in {"reading", "unauthenticated"}
     \/ sock[s].step = "verified" /\ sock[s].room \notin {None, sock[s].in}
  /\ sock' = [sock EXCEPT ![s].step = "closing", ![s].in = None]
  /\ UNCHANGED <<count, known, rooms, told, device, disconnects, noticeVars>>

(* addHost: the host before is closed; it stays in no room.  The TV fetches*)
(* its playlist when it is told that it is ready.                          *)
Admit(s) ==
  LET d == sock[s].in
      previous == HostOf(d)
  IN /\ sock[s].step = "verified" /\ sock[s].room \in {None, d}
     /\ rooms' = Opened(d, [Room(d) EXCEPT !.host = s])
     /\ sock' = [t \in Sockets |->
          IF t = s THEN [sock[t] EXCEPT !.step = "in"]
          ELSE IF t = previous THEN [sock[t] EXCEPT !.step = "closing"] ELSE sock[t]]
     /\ Tell(d, "online")
     /\ fresh' = [fresh EXCEPT ![d] = "fresh"]
     /\ UNCHANGED <<count, known, device, disconnects, unsent, edited, pending,
                    timer, batches, changes>>

(* The peer closes, the line breaks, or heartbeats went unanswered.        *)
BeginClose(s) ==
  /\ Open(s)
  /\ sock' = [sock EXCEPT ![s].step = "closing",
                          ![s].in = IF sock[s].step = "in" THEN @ ELSE None]
  /\ UNCHANGED <<count, known, rooms, told, device, disconnects, noticeVars>>

IsHost_Any(d, s) == sock[s].role = "host"
IsHost(d, s) == HostOf(d) = s

(* The 'close' event: counted no more, and removed from its room.          *)
Closed(s) ==
  LET d == sock[s].in IN
  /\ sock[s].step = "closing"
  /\ Goes(s, "gone")
  /\ Release(s)
  /\ IF d = None \/ d \notin DOMAIN rooms THEN UNCHANGED <<rooms, told>>
     ELSE IF IsHost(d, s)
     THEN /\ rooms' = DropIfEmpty([rooms EXCEPT ![d].host = None])
          /\ Tell(d, "offline")
     ELSE /\ rooms' = DropIfEmpty([rooms EXCEPT ![d].players = @ \ {s}])
          /\ UNCHANGED told
  /\ UNCHANGED <<known, device, disconnects, noticeVars>>

-----------------------------------------------------------------------------
(* Administrators.  A change is committed, and emitted after that.         *)

Users  == Groups \cup Rooms
Scopes == {"ALL"} \cup Users
Affects(scope, d) == scope \in {"ALL", d, device[d].follows} \cup device[d].groups

(* What changed may have shown a program until now.                        *)
Commit(scope) ==
  /\ changes < MaxChanges
  /\ changes' = changes + 1
  /\ unsent' = unsent \cup {scope}
  /\ \E dropped \in SUBSET {scope} : edited' = {users \ dropped : users \in edited}
  /\ UNCHANGED <<socketVars, disconnects, pending, timer, batches>>

Stale(affected) == fresh' = [d \in Rooms |-> IF d \in affected THEN "stale" ELSE fresh[d]]

ChangeContent(scope) ==
  /\ Commit(scope)
  /\ Stale({d \in Rooms : Affects(scope, d)})
  /\ UNCHANGED device

EditDevice(d) ==
  /\ Commit(d)
  /\ Stale({d})
  /\ \E G \in SUBSET Groups : \E g \in G :
       device' = [device EXCEPT ![d].groups = G, ![d].follows = g, ![d].active = TRUE]

(* programs.service, update: who shows the program is looked up after the  *)
(* commit, and only then told of.                                          *)
ChangeProgram(users) ==
  /\ changes < MaxChanges
  /\ changes' = changes + 1
  /\ edited' = edited \cup {users}
  /\ Stale({d \in Rooms : \E scope \in users : Affects(scope, d)})
  /\ UNCHANGED <<socketVars, device, disconnects, unsent, pending, timer, batches>>

(* The token is replaced, or the device is turned off.                     *)
Revoke(d, active) ==
  /\ changes < MaxChanges
  /\ changes' = changes + 1
  /\ device' = [device EXCEPT ![d].active = @ /\ active]
  /\ disconnects' = disconnects \cup {d}
  /\ UNCHANGED <<socketVars, unsent, edited, pending, timer, batches, fresh>>

Disconnect(d) ==
  /\ d \in disconnects
  /\ disconnects' = disconnects \ {d}
  /\ sock' = [s \in Sockets |-> IF s = HostOf(d) THEN [sock[s] EXCEPT !.step = "closing"]
                                ELSE sock[s]]
  /\ UNCHANGED <<count, known, rooms, told, device, noticeVars>>

-----------------------------------------------------------------------------
(* DeviceControlService.                                                   *)

Emit(scope) ==
  /\ scope \in unsent
  /\ unsent' = unsent \ {scope}
  /\ pending' = pending \cup {scope}
  /\ timer' = TRUE
  /\ UNCHANGED <<socketVars, device, disconnects, edited, batches, fresh, changes>>

FindUsers(users) ==
  /\ users \in edited
  /\ edited' = edited \ {users}
  /\ pending' = pending \cup users
  /\ timer' = (timer \/ users # {})
  /\ UNCHANGED <<socketVars, device, disconnects, unsent, batches, fresh, changes>>

(* The query fails: the program is changed, and nobody is told.            *)
FindUsersFails(users) ==
  /\ users \in edited
  /\ edited' = edited \ {users}
  /\ fresh' = [d \in Rooms |->
       IF fresh[d] = "stale" /\ \E scope \in users : Affects(scope, d)
       THEN "missed" ELSE fresh[d]]
  /\ UNCHANGED <<socketVars, device, disconnects, unsent, pending, timer, batches,
                 changes>>

(* The timer fires: what was collected becomes a batch, for the TVs that   *)
(* are connected now.  Batches may overlap.                                *)
Flush ==
  /\ timer
  /\ timer' = FALSE
  /\ pending' = {}
  /\ batches' = batches \cup
       {[changes |-> pending, connected |-> {d \in Rooms : HostOf(d) # None}]}
  /\ UNCHANGED <<socketVars, device, disconnects, unsent, edited, fresh, changes>>

(* targetsOf, with the memberships as they are when they are read.         *)
Targets_FollowersOnly(batch) ==
  {d \in batch.connected : batch.changes \cap {"ALL", d, device[d].follows} # {}}
Targets(batch) ==
  {d \in batch.connected :
     batch.changes \cap ({"ALL", d, device[d].follows} \cup device[d].groups) # {}}

Reached(d) == HostOf(d) # None /\ Open(HostOf(d))

Notify(batch) ==
  /\ batch \in batches
  /\ batches' = batches \ {batch}
  /\ fresh' = [d \in Rooms |-> IF d \in Targets(batch) /\ Reached(d)
                               THEN "fresh" ELSE fresh[d]]
  /\ UNCHANGED <<socketVars, device, disconnects, unsent, edited, pending, timer, changes>>

(* The read fails: it is logged, and the TVs find out when they next poll. *)
NotifyFails(batch) ==
  /\ batch \in batches
  /\ \E scope \in batch.changes : scope \in Groups
  /\ batches' = batches \ {batch}
  /\ fresh' = [d \in Rooms |-> IF fresh[d] = "stale" THEN "missed" ELSE fresh[d]]
  /\ UNCHANGED <<socketVars, device, disconnects, unsent, edited, pending, timer, changes>>

-----------------------------------------------------------------------------
Init ==
  /\ sock = [s \in Sockets |-> Out]
  /\ count = [k \in CountKeys |-> 0]
  /\ known = [d \in Rooms |-> "unknown"]
  /\ rooms = <<>>
  /\ told = [s \in Sockets |-> "nothing"]
  /\ device = [d \in Rooms |-> [active |-> TRUE, groups |-> Groups,
                                follows |-> CHOOSE g \in Groups : TRUE]]
  /\ disconnects = {}
  /\ unsent = {} /\ edited = {} /\ pending = {} /\ timer = FALSE /\ batches = {}
  /\ fresh = [d \in Rooms |-> "fresh"]
  /\ changes = 0

Next ==
  \/ \E s \in Sockets :
       \/ \E role \in {"host", "player"}, ip \in Ips, room \in Rooms \cup {None} :
            Upgrade(s, role, ip, room)
       \/ LookUp(s) \/ LeaveEarly(s) \/ NotAccepted(s) \/ HandshakeFails(s)
       \/ AcceptPlayer(s) \/ AcceptHost(s) \/ FirstMessage(s) \/ ReadToken(s)
       \/ TurnAway(s) \/ Admit(s) \/ BeginClose(s) \/ Closed(s)
  \/ \E d \in Rooms : \/ Forget(d) \/ EditDevice(d) \/ Disconnect(d)
                      \/ \E active \in BOOLEAN : Revoke(d, active)
  \/ \E scope \in {"ALL"} \cup Groups : ChangeContent(scope)
  \/ \E users \in SUBSET Users \ {{}} : ChangeProgram(users)
  \/ \E scope \in unsent : Emit(scope)
  \/ \E users \in edited : FindUsers(users) \/ FindUsersFails(users)
  \/ Flush
  \/ \E batch \in batches : Notify(batch) \/ NotifyFails(batch)

Spec == Init /\ [][Next]_vars

-----------------------------------------------------------------------------
(* Properties.                                                             *)

Batch == [changes : SUBSET Scopes, connected : SUBSET Rooms]

(* The types, with the sizes that rooms and counters may have              *)
(* (GameRelay.addPlayer, ConnectionCounter).                               *)
TypeOK ==
  /\ sock \in [Sockets -> [step : Steps, role : {"host", "player", None},
                           ip : Ips \cup {None}, room : Rooms \cup {None},
                           in : Rooms \cup {None}]]
  /\ \A k \in DOMAIN count : count[k] \in 0..Limit(k)
  /\ known \in [Rooms -> {"unknown", "active", "inactive"}]
  /\ DOMAIN rooms \subseteq Rooms
  /\ \A d \in DOMAIN rooms : /\ rooms[d].host \in Sockets \cup {None}
                             /\ rooms[d].players \subseteq Sockets
                             /\ Cardinality(rooms[d].players) \in 0..MaxPlayers
  /\ told \in [Sockets -> {"nothing", "online", "offline"}]
  /\ device \in [Rooms -> [active : BOOLEAN, follows : Groups, groups : SUBSET Groups]]
  /\ disconnects \subseteq Rooms
  /\ unsent \subseteq Scopes /\ edited \subseteq SUBSET Users
  /\ pending \subseteq Scopes
  /\ timer \in BOOLEAN
  /\ batches \subseteq Batch
  /\ fresh \in [Rooms -> {"fresh", "stale", "missed"}]
  /\ changes \in 0..MaxChanges

AdmittedIsHost ==
  \A s \in Sockets :
    (sock[s].step = "in" /\ sock[s].role = "host")
      => sock[s].in \in DOMAIN rooms /\ rooms[sock[s].in].host = s

PlayersKnowHost ==
  \A s \in Sockets :
    (sock[s].step = "in" /\ sock[s].role = "player")
      => (told[s] = "online") = (rooms[sock[s].in].host # None)

NoGhosts ==
  \A d \in DOMAIN rooms :
    LET there == rooms[d].players \cup ({rooms[d].host} \ {None}) IN
    there # {} /\ \A s \in there : sock[s].step \in {"in", "closing"}

(* The rooms and those who are in them agree, through replacements and     *)
(* close events that come late.  A TV whose token was accepted and whose   *)
(* socket was not closed since is the host of its room: the end of a       *)
(* connection it replaced does not put it out (GameRelay.addHost, remove). *)
(* A player is told whether its room has a host, whenever that changes     *)
(* (addPlayer, toPlayers).  A room is open exactly as long as somebody is  *)
(* in it, and nobody is in it whose connection has ended (dropIfEmpty).    *)
RoomsAgree == TypeOK /\ AdmittedIsHost /\ PlayersKnowHost /\ NoGhosts

(* One address never has more connections, to all rooms or to one, than it *)
(* is allowed, however many were being looked up at the same time          *)
(* (RealtimeSocketService.handleUpgrade).                                  *)
AddressLimits ==
  \A ip \in Ips :
    LET of == {s \in Clients : sock[s].ip = ip} IN
    /\ Cardinality(of) <= MaxPerIp
    /\ \A d \in Rooms : Cardinality({s \in of : sock[s].room = d}) <= MaxPerIpPerRoom

(* When no change is on its way, no connected TV still shows what was      *)
(* configured before one, unless the users of a changed program could not  *)
(* be looked up or a flush failed: not for a change made while a batch was *)
(* being sent, nor for a device that changed groups, or stopped showing    *)
(* the program, in between (DeviceControlService.queue, flush, targetsOf,  *)
(* ProgramsService.notifyUsers).                                           *)
QuietMeansTold ==
  (unsent = {} /\ edited = {} /\ ~timer /\ batches = {})
    => \A d \in Rooms : Reached(d) => fresh[d] # "stale"

=============================================================================
