--------------------------- MODULE RealtimeProofs ---------------------------
(***************************************************************************)
(* Rooms, counters and notices of Realtime, for any number of connections, *)
(* devices, groups and changes.                                            *)
(*                                                                         *)
(* The three properties rest on separate parts of IInv, and each action    *)
(* moves few of them: what leaves a part alone is one lemma per part       *)
(* (CountsStay, RoomsStay, NoticesStay).  The counters are never below the *)
(* connections that hold their key, whether accepted or not; they may be   *)
(* above, since a failed handshake gives nothing back.  The rooms need     *)
(* that a socket in a room knows it is in that one (MembersFit), so that   *)
(* the end of one socket disturbs one room.  A TV that shows something old *)
(* is due a notice by a scope that affects it now, which is not yet sent,  *)
(* pending, or in a batch that counts the TV among the connected.          *)
(***************************************************************************)
EXTENDS Realtime, FiniteSetTheorems, TLAPS

USE RealtimeConstantsOK

-----------------------------------------------------------------------------
(* The inductive invariant.                                                *)

(* Who ever connected.                                                     *)
Arrived == {s \in Sockets : sock[s].step # "out"}

FinitelyMany == IsFiniteSet(Arrived)

Ended == {"out", "gone"}

(* What a connection asked for fits how far it is.                         *)
RequestsFit ==
  \A s \in Sockets :
    /\ sock[s].step # "out" => sock[s].ip \in Ips /\ sock[s].role \in {"host", "player"}
    /\ sock[s].step = "checking" => sock[s].role = "player"
    /\ sock[s].step # "out" /\ sock[s].role = "player" => sock[s].room \in Rooms
    /\ sock[s].step \in {"unauthenticated", "reading", "verified"} => sock[s].role = "host"
    /\ sock[s].step \in {"verified", "in"} => sock[s].in \in Rooms

(* Connections that were counted under a key and are not gone.             *)
Holders(k) == {s \in Sockets : /\ sock[s].step \notin Ended
                               /\ k \in Keys(sock[s].ip, sock[s].room)}

HoldersAreCounted ==
  /\ count \in [CountKeys -> Nat]
  /\ \A k \in CountKeys : Cardinality(Holders(k)) <= count[k]

RoomRecord == [host : Sockets \cup {None}, players : SUBSET Sockets]

RoomRecords == rooms \in [DOMAIN rooms -> RoomRecord]

(* Who is in a room has it for its own, and is host or player as it asked. *)
MembersFit ==
  \A d \in DOMAIN rooms :
    /\ rooms[d].host # None =>
         sock[rooms[d].host].in = d /\ sock[rooms[d].host].role = "host"
    /\ \A s \in rooms[d].players : sock[s].in = d /\ sock[s].role = "player"

(* A player that was accepted is in its room until its connection ends.    *)
PlayersAreIn ==
  \A s \in Sockets :
    (sock[s].step = "in" /\ sock[s].role = "player")
      => sock[s].in \in DOMAIN rooms /\ s \in rooms[sock[s].in].players

(* What is collected will be flushed.                                      *)
TimerIsSet == pending # {} => timer

(* A change that affects the device now is on its way to it.               *)
Due(d) ==
  \E scope \in Scopes :
    /\ Affects(scope, d)
    /\ \/ scope \in unsent \cup (UNION edited) \cup pending
       \/ \E batch \in batches : d \in batch.connected /\ scope \in batch.changes

StaleIsDue == \A d \in Rooms : Reached(d) /\ fresh[d] = "stale" => Due(d)

IInv ==
  /\ TypeOK
  /\ FinitelyMany
  /\ RequestsFit
  /\ HoldersAreCounted
  /\ RoomRecords
  /\ MembersFit
  /\ PlayersAreIn
  /\ AdmittedIsHost
  /\ PlayersKnowHost
  /\ NoGhosts
  /\ TimerIsSet
  /\ StaleIsDue

-----------------------------------------------------------------------------
(* TypeOK in the parts that move separately.                               *)

SockRow == [step : Steps, role : {"host", "player", None}, ip : Ips \cup {None},
            room : Rooms \cup {None}, in : Rooms \cup {None}]

SockOK == sock \in [Sockets -> SockRow]

CountOK == \A k \in DOMAIN count : count[k] \in 0..Limit(k)

RoomsOK ==
  /\ DOMAIN rooms \subseteq Rooms
  /\ \A d \in DOMAIN rooms : /\ rooms[d].host \in Sockets \cup {None}
                             /\ rooms[d].players \subseteq Sockets
                             /\ Cardinality(rooms[d].players) \in 0..MaxPlayers

NoticesOK ==
  /\ unsent \subseteq Scopes /\ edited \subseteq SUBSET Users
  /\ pending \subseteq Scopes
  /\ timer \in BOOLEAN
  /\ batches \subseteq Batch
  /\ fresh \in [Rooms -> {"fresh", "stale", "missed"}]
  /\ changes \in 0..MaxChanges

DevicesOK ==
  /\ device \in [Rooms -> [active : BOOLEAN, follows : Groups, groups : SUBSET Groups]]
  /\ disconnects \subseteq Rooms

SocketsOK ==
  /\ known \in [Rooms -> {"unknown", "active", "inactive"}]
  /\ told \in [Sockets -> {"nothing", "online", "offline"}]

LEMMA TypeParts ==
  TypeOK <=> /\ SockOK /\ CountOK /\ RoomsOK /\ NoticesOK /\ DevicesOK /\ SocketsOK
  BY DEF TypeOK, SockOK, SockRow, CountOK, RoomsOK, NoticesOK, DevicesOK, SocketsOK

LEMMA TypePartsNext ==
  TypeOK' <=> SockOK' /\ CountOK' /\ RoomsOK' /\ NoticesOK' /\ DevicesOK' /\ SocketsOK'
  BY DEF TypeOK, SockOK, SockRow, CountOK, RoomsOK, NoticesOK, DevicesOK, SocketsOK

(* What Goes leaves behind.                                                *)
LEMMA GoesTo ==
  ASSUME SockOK, NEW s \in Sockets, NEW step \in Steps, Goes(s, step)
  PROVE  /\ SockOK'
         /\ sock'[s].step = step /\ sock'[s].role = sock[s].role
         /\ sock'[s].ip = sock[s].ip /\ sock'[s].room = sock[s].room
         /\ sock'[s].in = sock[s].in
         /\ \A t \in Sockets : t # s => sock'[t] = sock[t]
<1> DEFINE row == [sock[s] EXCEPT !.step = step]
<1>1. sock[s] \in SockRow
  BY DEF SockOK
<1>2. /\ row \in SockRow /\ row.step = step /\ row.role = sock[s].role
      /\ row.ip = sock[s].ip /\ row.room = sock[s].room /\ row.in = sock[s].in
  BY <1>1 DEF SockRow
<1>3. sock' = [sock EXCEPT ![s] = row]
  BY DEF Goes
<1> HIDE DEF row
<1> QED  BY <1>2, <1>3 DEF SockOK

-----------------------------------------------------------------------------
(* The three parts of the invariant, and what leaves each alone.           *)

LEMMA HoldersFinite ==
  ASSUME FinitelyMany, NEW k
  PROVE  IsFiniteSet(Holders(k)) /\ Cardinality(Holders(k)) \in Nat
<1>1. Holders(k) \subseteq Arrived
  BY DEF Holders, Arrived, Ended
<1> QED  BY <1>1, FS_Subset, FS_CardinalityType DEF FinitelyMany

(* No connection is made, and none that was counted is uncounted.          *)
LEMMA CountsStay ==
  ASSUME IInv, UNCHANGED count,
         \A t \in Sockets :
           /\ sock'[t].ip = sock[t].ip /\ sock'[t].room = sock[t].room
           /\ sock'[t].step = "out" <=> sock[t].step = "out"
           /\ sock[t].step = "gone" => sock'[t].step = "gone"
  PROVE  CountOK' /\ FinitelyMany' /\ HoldersAreCounted'
<1>1. CountOK'
  BY TypeParts DEF IInv, CountOK
<1>2. FinitelyMany'
  <2>1. Arrived' = Arrived
    BY DEF Arrived
  <2> QED  BY <2>1 DEF IInv, FinitelyMany
<1>3. ASSUME NEW k \in CountKeys
      PROVE  Cardinality(Holders(k))' <= count[k]
  <2>1. Holders(k)' \subseteq Holders(k)
    BY DEF Holders, Ended
  <2>2. Cardinality(Holders(k)') <= Cardinality(Holders(k)) /\ Cardinality(Holders(k)') \in Nat
    BY <2>1, HoldersFinite, FS_Subset, FS_CardinalityType DEF IInv
  <2>3. Cardinality(Holders(k)) <= count[k] /\ count[k] \in Nat
    BY DEF IInv, HoldersAreCounted
  <2> QED  BY <2>2, <2>3, HoldersFinite DEF IInv
<1>4. HoldersAreCounted'
  BY <1>3 DEF IInv, HoldersAreCounted
<1> QED  BY <1>1, <1>2, <1>4

AboutRooms ==
  RoomRecords /\ MembersFit /\ PlayersAreIn /\ AdmittedIsHost /\ PlayersKnowHost /\ NoGhosts

(* Nobody enters a room, and who is in one stays, if only closing.         *)
LEMMA RoomsStay ==
  ASSUME IInv, UNCHANGED <<rooms, told>>,
         \A t \in Sockets :
           /\ sock'[t].step = "in" => sock[t].step = "in"
           /\ sock[t].step \in {"in", "closing"} =>
                \/ sock[t].step = "closing" /\ \A d \in DOMAIN rooms :
                     t # rooms[d].host /\ t \notin rooms[d].players
                \/ /\ sock'[t].step \in {"in", "closing"}
                   /\ sock'[t].in = sock[t].in
                   /\ sock'[t].role = sock[t].role
  PROVE  RoomsOK' /\ AboutRooms'
<1>1. RoomsOK' /\ RoomRecords'
  BY TypeParts DEF IInv, RoomsOK, RoomRecords
<1>2. ASSUME NEW d \in DOMAIN rooms
      PROVE  /\ rooms[d].host \in Sockets \cup {None} /\ rooms[d].players \subseteq Sockets
             /\ \A t \in rooms[d].players \cup ({rooms[d].host} \ {None}) :
                  sock[t].step \in {"in", "closing"}
             /\ rooms[d].players \cup ({rooms[d].host} \ {None}) # {}
  BY TypeParts DEF IInv, RoomsOK, NoGhosts
<1>3. ASSUME NEW d \in DOMAIN rooms,
             NEW t \in rooms[d].players \cup ({rooms[d].host} \ {None})
      PROVE  /\ t \in Sockets
             /\ sock'[t].step \in {"in", "closing"}
             /\ sock'[t].in = sock[t].in
             /\ sock'[t].role = sock[t].role
  BY <1>2
<1>4. MembersFit'
  <2> SUFFICES ASSUME NEW d \in DOMAIN rooms
               PROVE  /\ rooms[d].host # None =>
                           /\ sock'[rooms[d].host].in = d
                           /\ sock'[rooms[d].host].role = "host"
                      /\ \A s \in rooms[d].players :
                           sock'[s].in = d /\ sock'[s].role = "player"
    BY DEF MembersFit
  <2> QED  BY <1>3 DEF IInv, MembersFit
<1>5. PlayersAreIn'
  BY DEF IInv, PlayersAreIn
<1>6. AdmittedIsHost'
  BY DEF IInv, AdmittedIsHost
<1>7. PlayersKnowHost'
  BY DEF IInv, PlayersKnowHost
<1>8. NoGhosts'
  BY <1>2, <1>3 DEF NoGhosts
<1> QED  BY <1>1, <1>4, <1>5, <1>6, <1>7, <1>8 DEF AboutRooms

(* No notice moves, no device changes, and no TV becomes connected.        *)
LEMMA NoticesStay ==
  ASSUME IInv, UNCHANGED noticeVars,
         \A d \in Rooms : /\ device'[d].follows = device[d].follows
                          /\ device'[d].groups = device[d].groups
                          /\ Reached(d)' => Reached(d)
  PROVE  NoticesOK' /\ TimerIsSet' /\ StaleIsDue'
<1>1. NoticesOK' /\ TimerIsSet'
  BY TypeParts DEF IInv, NoticesOK, TimerIsSet, noticeVars
<1>2. ASSUME NEW d \in Rooms, Due(d)
      PROVE  Due(d)'
  BY <1>2 DEF Due, Affects, noticeVars
<1>3. StaleIsDue'
  BY <1>2 DEF IInv, StaleIsDue, noticeVars
<1> QED  BY <1>1, <1>3

(* A TV is not reached anew by sockets that only close.                    *)
LEMMA NotReachedNow ==
  ASSUME IInv, UNCHANGED rooms, NEW d \in Rooms,
         \A t \in Sockets : sock[t].step \in {"in", "closing"} =>
           sock'[t].step \in {"in", "closing"} /\ (sock'[t].step = "in" => sock[t].step = "in")
  PROVE  Reached(d)' => Reached(d)
<1>1. CASE HostOf(d) = None
  BY <1>1 DEF Reached, HostOf, Room
<1>2. CASE HostOf(d) # None
  <2>1. d \in DOMAIN rooms /\ HostOf(d) = rooms[d].host
    BY <1>2 DEF HostOf, Room
  <2>2. rooms[d].host \in Sockets /\ sock[rooms[d].host].step \in {"in", "closing"}
    BY <1>2, <2>1, TypeParts DEF IInv, RoomsOK, NoGhosts
  <2>3. HostOf(d)' = HostOf(d)
    BY DEF HostOf, Room
  <2> QED  BY <1>2, <2>1, <2>2, <2>3 DEF Reached, Open, Live
<1> QED  BY <1>1, <1>2

(* A step of one connection that is in no room, and does not enter one.    *)
LEMMA OneConnectionMoves ==
  ASSUME IInv, NEW s \in Sockets, NEW row \in SockRow, sock' = [sock EXCEPT ![s] = row],
         UNCHANGED <<count, rooms, told, device, disconnects, noticeVars>>,
         known' \in [Rooms -> {"unknown", "active", "inactive"}],
         sock[s].step # "out", row.step # "out", sock[s].step # "gone",
         row.ip = sock[s].ip, row.room = sock[s].room, row.role = sock[s].role,
         \/ sock[s].step \notin {"in", "closing"} /\ row.step # "in"
         \/ sock[s].step = "in" /\ row.step = "closing" /\ row.in = sock[s].in,
         row.step = "checking" => row.role = "player",
         row.step \in {"unauthenticated", "reading", "verified"} => row.role = "host",
         row.step = "verified" => row.in \in Rooms
  PROVE  IInv'
<1>1. SockOK
  BY TypeParts DEF IInv
<1>2. sock'[s] = row /\ \A t \in Sockets : t # s => sock'[t] = sock[t]
  BY <1>1 DEF SockOK
<1>3. SockOK' /\ SocketsOK' /\ DevicesOK'
  BY <1>1, TypeParts DEF IInv, SockOK, SocketsOK, DevicesOK
<1>4. CountOK' /\ FinitelyMany' /\ HoldersAreCounted'
  BY <1>2, CountsStay
<1>5. RoomsOK' /\ AboutRooms'
  BY <1>2, RoomsStay
<1>6. \A d \in Rooms : Reached(d)' => Reached(d)
  BY <1>2, NotReachedNow
<1>7. NoticesOK' /\ TimerIsSet' /\ StaleIsDue'
  BY <1>6, NoticesStay
<1>8. RequestsFit'
  BY <1>2 DEF IInv, RequestsFit
<1> QED  BY <1>3, <1>4, <1>5, <1>7, <1>8, TypePartsNext DEF IInv, AboutRooms

(* Goes writes one row.                                                    *)
LEMMA GoesIsRow ==
  ASSUME IInv, NEW s \in Sockets, NEW step \in Steps, Goes(s, step)
  PROVE  \E row \in SockRow :
           /\ sock' = [sock EXCEPT ![s] = row]
           /\ row.step = step /\ row.role = sock[s].role /\ row.ip = sock[s].ip
           /\ row.room = sock[s].room /\ row.in = sock[s].in
<1> DEFINE row == [sock[s] EXCEPT !.step = step]
<1>1. sock[s] \in SockRow
  BY TypeParts DEF IInv, SockOK
<1>2. /\ row \in SockRow /\ row.step = step /\ row.role = sock[s].role
      /\ row.ip = sock[s].ip /\ row.room = sock[s].room /\ row.in = sock[s].in
  BY <1>1 DEF SockRow
<1>3. sock' = [sock EXCEPT ![s] = row]
  BY DEF Goes
<1> HIDE DEF row
<1> QED  BY <1>2, <1>3

LEMMA LookUpStep ==
  ASSUME IInv, NEW s \in Sockets, LookUp(s)
  PROVE  IInv'
<1>1. /\ sock[s].step = "checking" /\ sock[s].room \in Rooms
      /\ UNCHANGED <<count, rooms, told, device, disconnects, noticeVars>>
  BY DEF LookUp, IInv, RequestsFit
<1>2. \E step \in {"found", "refused"} : Goes(s, step)
  BY DEF LookUp
<1>3. known' \in [Rooms -> {"unknown", "active", "inactive"}]
  BY <1>1, TypeParts DEF LookUp, IInv, SocketsOK
<1>4. PICK step \in {"found", "refused"} : Goes(s, step)
  BY <1>2
<1>5. PICK row \in SockRow :
        /\ sock' = [sock EXCEPT ![s] = row]
        /\ row.step = step /\ row.role = sock[s].role /\ row.ip = sock[s].ip
        /\ row.room = sock[s].room /\ row.in = sock[s].in
  BY <1>4, GoesIsRow DEF Steps
<1> QED  BY <1>1, <1>3, <1>5, OneConnectionMoves

LEMMA PlainSteps ==
  ASSUME IInv, NEW s \in Sockets,
         \/ LeaveEarly(s) \/ HandshakeFails(s) \/ AcceptHost(s) \/ FirstMessage(s)
  PROVE  IInv'
<1>1. PICK step \in {"refused", "gone", "unauthenticated", "reading"} :
        /\ Goes(s, step)
        /\ step \in {"unauthenticated", "reading"} => sock[s].role = "host"
  BY DEF LeaveEarly, HandshakeFails, AcceptHost, FirstMessage, IInv, RequestsFit
<1>2. /\ sock[s].step \in {"checking", "found", "unauthenticated"}
      /\ UNCHANGED <<count, known, rooms, told, device, disconnects, noticeVars>>
  BY DEF LeaveEarly, HandshakeFails, AcceptHost, FirstMessage
<1>3. PICK row \in SockRow :
        /\ sock' = [sock EXCEPT ![s] = row]
        /\ row.step = step /\ row.role = sock[s].role /\ row.ip = sock[s].ip
        /\ row.room = sock[s].room /\ row.in = sock[s].in
  BY <1>1, GoesIsRow DEF Steps, Live
<1>4. row.step \in {"unauthenticated", "reading"} => row.role = "host"
  BY <1>1, <1>3
<1>5. known' \in [Rooms -> {"unknown", "active", "inactive"}]
  BY <1>2, TypeParts DEF IInv, SocketsOK
<1> QED  BY <1>1, <1>2, <1>3, <1>4, <1>5, OneConnectionMoves

LEMMA ReadTokenStep ==
  ASSUME IInv, NEW s \in Sockets, ReadToken(s)
  PROVE  IInv'
<1>1. PICK d \in Rooms : sock' = [sock EXCEPT ![s].step = "verified", ![s].in = d]
  BY DEF ReadToken
<1> DEFINE row == [sock[s] EXCEPT !.step = "verified", !.in = d]
<1>2. /\ sock[s].step = "reading"
      /\ UNCHANGED <<count, known, rooms, told, device, disconnects, noticeVars>>
  BY DEF ReadToken
<1>3. sock[s] \in SockRow /\ sock[s].role = "host"
  BY <1>2, TypeParts DEF IInv, SockOK, RequestsFit
<1>4. /\ row \in SockRow /\ row.step = "verified" /\ row.role = sock[s].role
      /\ row.ip = sock[s].ip /\ row.room = sock[s].room /\ row.in = d
  BY <1>3 DEF SockRow, Steps, Live
<1>5. sock' = [sock EXCEPT ![s] = row]
  BY <1>1, TypeParts DEF IInv, SockOK
<1>6. known' \in [Rooms -> {"unknown", "active", "inactive"}]
  BY <1>2, TypeParts DEF IInv, SocketsOK
<1> HIDE DEF row
<1> QED  BY <1>2, <1>3, <1>4, <1>5, <1>6, OneConnectionMoves

LEMMA TurnAwayStep ==
  ASSUME IInv, NEW s \in Sockets, TurnAway(s)
  PROVE  IInv'
<1> DEFINE row == [sock[s] EXCEPT !.step = "closing", !.in = None]
<1>1. /\ sock[s].step \in {"reading", "unauthenticated", "verified"}
      /\ UNCHANGED <<count, known, rooms, told, device, disconnects, noticeVars>>
  BY DEF TurnAway
<1>2. sock[s] \in SockRow
  BY TypeParts DEF IInv, SockOK
<1>3. /\ row \in SockRow /\ row.step = "closing" /\ row.role = sock[s].role
      /\ row.ip = sock[s].ip /\ row.room = sock[s].room /\ row.in = None
  BY <1>2 DEF SockRow, Steps
<1>4. sock' = [sock EXCEPT ![s] = row]
  BY TypeParts DEF TurnAway, IInv, SockOK
<1>5. known' \in [Rooms -> {"unknown", "active", "inactive"}]
  BY <1>1, TypeParts DEF IInv, SocketsOK
<1> HIDE DEF row
<1> QED  BY <1>1, <1>3, <1>4, <1>5, OneConnectionMoves

LEMMA BeginCloseStep ==
  ASSUME IInv, NEW s \in Sockets, BeginClose(s)
  PROVE  IInv'
<1> DEFINE in == IF sock[s].step = "in" THEN sock[s].in ELSE None
           row == [sock[s] EXCEPT !.step = "closing", !.in = in]
<1>1. /\ sock[s].step \in Live
      /\ UNCHANGED <<count, known, rooms, told, device, disconnects, noticeVars>>
  BY DEF BeginClose, Open
<1>2. sock[s] \in SockRow
  BY TypeParts DEF IInv, SockOK
<1>3. in \in Rooms \cup {None} /\ (sock[s].step = "in" => in = sock[s].in)
  BY <1>2 DEF SockRow
<1>4. sock' = [sock EXCEPT ![s] = row]
  BY TypeParts DEF BeginClose, IInv, SockOK
<1> HIDE DEF in
<1>5. /\ row \in SockRow /\ row.step = "closing" /\ row.role = sock[s].role
      /\ row.ip = sock[s].ip /\ row.room = sock[s].room /\ row.in = in
  BY <1>2, <1>3 DEF SockRow, Steps
<1>6. known' \in [Rooms -> {"unknown", "active", "inactive"}]
  BY <1>1, TypeParts DEF IInv, SocketsOK
<1> HIDE DEF row
<1> QED  BY <1>1, <1>3, <1>4, <1>5, <1>6, OneConnectionMoves DEF Live

(* The counters.                                                           *)
LEMMA UpgradeStep ==
  ASSUME IInv, NEW s \in Sockets, NEW role \in {"host", "player"}, NEW ip \in Ips,
         NEW room \in Rooms \cup {None}, Upgrade(s, role, ip, room)
  PROVE  IInv'
<1> DEFINE row == [step |-> IF role = "player" THEN "checking" ELSE "found",
                   role |-> role, ip |-> ip, room |-> room, in |-> None]
           keys == Keys(ip, room)
<1>1. /\ sock[s].step = "out" /\ sock' = [sock EXCEPT ![s] = row]
      /\ role = "player" => room \in Rooms
      /\ \A k \in keys : count[k] < Limit(k)
      /\ count' = [k \in DOMAIN count |-> IF k \in keys THEN count[k] + 1 ELSE count[k]]
      /\ UNCHANGED <<known, rooms, told, device, disconnects, noticeVars>>
  BY DEF Upgrade, Counted, Out
<1>2. /\ row \in SockRow /\ row.step \in {"checking", "found"} /\ row.role = role
      /\ row.ip = ip /\ row.room = room /\ (row.step = "checking" => role = "player")
  BY DEF SockRow, Steps
<1> HIDE DEF row, keys
<1>3. sock'[s] = row /\ \A t \in Sockets : t # s => sock'[t] = sock[t]
  BY <1>1, TypeParts DEF IInv, SockOK
<1>4. SockOK' /\ SocketsOK' /\ DevicesOK'
  BY <1>1, <1>2, TypeParts DEF IInv, SockOK, SocketsOK, DevicesOK
<1>5. count \in [CountKeys -> Nat] /\ \A k \in CountKeys : count[k] \in 0..Limit(k)
  BY TypeParts DEF IInv, CountOK, HoldersAreCounted
<1>6. keys \subseteq CountKeys
  BY DEF CountKeys, keys
<1>7. \A k \in CountKeys : Limit(k) \in Nat
  BY DEF Limit
<1>8. /\ count' \in [CountKeys -> Nat]
      /\ \A k \in CountKeys : count'[k] = IF k \in keys THEN count[k] + 1 ELSE count[k]
      /\ \A k \in CountKeys : count'[k] \in 0..Limit(k)
  BY <1>1, <1>5, <1>7
<1>9. FinitelyMany'
  <2>1. Arrived' = Arrived \cup {s}
    BY <1>2, <1>3 DEF Arrived
  <2> QED  BY <2>1, FS_AddElement DEF IInv, FinitelyMany
<1>10. ASSUME NEW k \in CountKeys
       PROVE  Cardinality(Holders(k)') <= count'[k]
  <2>1. IsFiniteSet(Holders(k)) /\ Cardinality(Holders(k)) \in Nat
        /\ Cardinality(Holders(k)) <= count[k]
    BY HoldersFinite DEF IInv, HoldersAreCounted
  <2>2. CASE k \in keys
    <3>1. Holders(k)' = Holders(k) \cup {s}
      BY <1>2, <1>3, <2>2 DEF Holders, Ended, keys
    <3>2. s \notin Holders(k)
      BY <1>1 DEF Holders, Ended
    <3>3. Cardinality(Holders(k) \cup {s}) = Cardinality(Holders(k)) + 1
      BY <2>1, <3>2, FS_AddElement
    <3> QED  BY <1>5, <1>8, <2>1, <2>2, <3>1, <3>3
  <2>3. CASE k \notin keys
    <3>1. Holders(k)' = Holders(k)
      BY <1>1, <1>2, <1>3, <2>3 DEF Holders, Ended, keys
    <3> QED  BY <1>5, <1>8, <2>1, <2>3, <3>1
  <2> QED  BY <2>2, <2>3
<1>11. CountOK' /\ HoldersAreCounted'
  BY <1>8, <1>10 DEF CountOK, HoldersAreCounted
<1>12. RoomsOK' /\ AboutRooms'
  BY <1>1, <1>2, <1>3, RoomsStay
<1>13. \A d \in Rooms : Reached(d)' => Reached(d)
  BY <1>1, <1>3, NotReachedNow
<1>14. NoticesOK' /\ TimerIsSet' /\ StaleIsDue'
  BY <1>1, <1>13, NoticesStay
<1>15. RequestsFit'
  BY <1>1, <1>2, <1>3 DEF IInv, RequestsFit
<1> QED  BY <1>4, <1>9, <1>11, <1>12, <1>14, <1>15, TypePartsNext DEF IInv, AboutRooms

(* A connection that held its keys until now gives them back.              *)
LEMMA ReleaseStep ==
  ASSUME IInv, NEW s \in Sockets, sock[s].step \notin Ended, Goes(s, "gone"), Release(s)
  PROVE  CountOK' /\ FinitelyMany' /\ HoldersAreCounted'
<1> DEFINE keys == Keys(sock[s].ip, sock[s].room)
<1>1. /\ sock'[s].step = "gone" /\ sock'[s].ip = sock[s].ip /\ sock'[s].room = sock[s].room
      /\ \A t \in Sockets : t # s => sock'[t] = sock[t]
  BY GoesTo, TypeParts DEF IInv, Steps
<1>2. count' = [k \in DOMAIN count |-> IF k \in keys THEN count[k] + (-1) ELSE count[k]]
  BY DEF Release, Counted
<1>3. count \in [CountKeys -> Nat] /\ \A k \in CountKeys : count[k] \in 0..Limit(k)
  BY TypeParts DEF IInv, CountOK, HoldersAreCounted
<1>4. FinitelyMany'
  <2>1. Arrived' = Arrived
    BY <1>1 DEF Arrived, Ended
  <2> QED  BY <2>1 DEF IInv, FinitelyMany
<1>5. ASSUME NEW k \in CountKeys
      PROVE  Cardinality(Holders(k)') <= count'[k] /\ count'[k] \in 0..Limit(k)
  <2>1. IsFiniteSet(Holders(k)) /\ Cardinality(Holders(k)) \in Nat
        /\ Cardinality(Holders(k)) <= count[k]
    BY HoldersFinite DEF IInv, HoldersAreCounted
  <2>2. CASE k \in keys
    <3>1. Holders(k)' = Holders(k) \ {s} /\ s \in Holders(k)
      BY <1>1, <2>2 DEF Holders, Ended
    <3>2. Cardinality(Holders(k) \ {s}) = Cardinality(Holders(k)) - 1
      BY <2>1, <3>1, FS_RemoveElement
    <3>3. Cardinality(Holders(k)') \in Nat
      BY <2>1, <3>1, FS_RemoveElement, FS_CardinalityType
    <3>4. count'[k] = count[k] - 1
      BY <1>2, <1>3, <2>2
    <3>5. Limit(k) \in Nat
      BY DEF Limit
    <3> QED  BY <1>3, <2>1, <3>1, <3>2, <3>3, <3>4, <3>5
  <2>3. CASE k \notin keys
    <3>1. Holders(k)' = Holders(k)
      BY <1>1, <2>3 DEF Holders, Ended
    <3>2. count'[k] = count[k]
      BY <1>2, <1>3, <2>3
    <3> QED  BY <1>3, <2>1, <3>1, <3>2
  <2> QED  BY <2>2, <2>3
<1>6. count' \in [CountKeys -> Nat]
  <2>1. DOMAIN count = CountKeys /\ count' = [k \in CountKeys |-> count'[k]]
    BY <1>2, <1>3
  <2>2. \A k \in CountKeys : Limit(k) \in Nat
    BY DEF Limit
  <2>3. \A k \in CountKeys : count'[k] \in Nat
    BY <1>5, <2>2
  <2> QED  BY <2>1, <2>3
<1>7. CountOK' /\ HoldersAreCounted'
  BY <1>5, <1>6 DEF CountOK, HoldersAreCounted
<1> QED  BY <1>4, <1>7

LEMMA NotAcceptedStep ==
  ASSUME IInv, NEW s \in Sockets, NotAccepted(s)
  PROVE  IInv'
<1>1. /\ sock[s].step = "refused" /\ Goes(s, "gone") /\ Release(s)
      /\ UNCHANGED <<known, rooms, told, device, disconnects, noticeVars>>
  BY DEF NotAccepted
<1>2. /\ SockOK' /\ sock'[s].step = "gone" /\ sock'[s].role = sock[s].role
      /\ sock'[s].ip = sock[s].ip /\ sock'[s].room = sock[s].room
      /\ \A t \in Sockets : t # s => sock'[t] = sock[t]
  BY <1>1, GoesTo, TypeParts DEF IInv, Steps
<1>3. CountOK' /\ FinitelyMany' /\ HoldersAreCounted'
  BY <1>1, ReleaseStep DEF Ended
<1>4. SocketsOK' /\ DevicesOK'
  BY <1>1, TypeParts DEF IInv, SocketsOK, DevicesOK
<1>5. RoomsOK' /\ AboutRooms'
  BY <1>1, <1>2, RoomsStay
<1>6. \A d \in Rooms : Reached(d)' => Reached(d)
  BY <1>1, <1>2, NotReachedNow
<1>7. NoticesOK' /\ TimerIsSet' /\ StaleIsDue'
  BY <1>1, <1>6, NoticesStay
<1>8. RequestsFit'
  BY <1>1, <1>2 DEF IInv, RequestsFit
<1> QED  BY <1>2, <1>3, <1>4, <1>5, <1>7, <1>8, TypePartsNext DEF IInv, AboutRooms

-----------------------------------------------------------------------------
(* Rooms.                                                                  *)

(* What the invariant says of a room, open or not.                         *)
LEMMA RoomFacts ==
  ASSUME IInv, NEW d \in Rooms
  PROVE  /\ Room(d) \in RoomRecord
         /\ IsFiniteSet(Room(d).players) /\ Cardinality(Room(d).players) \in 0..MaxPlayers
         /\ \A t \in Room(d).players : /\ t \in Sockets
                                       /\ sock[t].step \in {"in", "closing"}
                                       /\ sock[t].in = d /\ sock[t].role = "player"
         /\ Room(d).host # None => /\ Room(d).host \in Sockets
                                   /\ sock[Room(d).host].step \in {"in", "closing"}
                                   /\ sock[Room(d).host].in = d
                                   /\ sock[Room(d).host].role = "host"
<1>1. CASE d \in DOMAIN rooms
  <2>1. Room(d) = rooms[d] /\ rooms[d] \in RoomRecord
    BY <1>1 DEF Room, IInv, RoomRecords
  <2>2. /\ rooms[d].host \in Sockets \cup {None} /\ rooms[d].players \subseteq Sockets
        /\ Cardinality(rooms[d].players) \in 0..MaxPlayers
    BY <1>1, TypeParts DEF IInv, RoomsOK
  <2>3. \A t \in rooms[d].players : sock[t].step \in {"in", "closing"}
                                   /\ sock[t].in = d /\ sock[t].role = "player"
    BY <1>1 DEF IInv, NoGhosts, MembersFit
  <2>4. rooms[d].host # None => /\ sock[rooms[d].host].step \in {"in", "closing"}
                                /\ sock[rooms[d].host].in = d
                                /\ sock[rooms[d].host].role = "host"
    BY <1>1 DEF IInv, NoGhosts, MembersFit
  <2>5. rooms[d].players \subseteq Arrived
    BY <2>2, <2>3 DEF Arrived
  <2>6. IsFiniteSet(rooms[d].players)
    BY <2>5, FS_Subset DEF IInv, FinitelyMany
  <2> QED  BY <2>1, <2>2, <2>3, <2>4, <2>6
<1>2. CASE d \notin DOMAIN rooms
  <2>1. Room(d) = [host |-> None, players |-> {}]
    BY <1>2 DEF Room
  <2>2. Room(d).host = None /\ Room(d).players = {} /\ Room(d) \in RoomRecord
    BY <2>1 DEF RoomRecord
  <2>3. MaxPlayers \in Nat
    OBVIOUS
  <2> QED  BY <2>2, <2>3, FS_EmptySet
<1> QED  BY <1>1, <1>2

(* Opening a room, or writing one that is open, changes that room only.    *)
LEMMA OpenedRoom ==
  ASSUME IInv, NEW d \in Rooms, NEW room \in RoomRecord, rooms' = Opened(d, room)
  PROVE  /\ DOMAIN rooms' = DOMAIN rooms \cup {d} /\ rooms'[d] = room
         /\ DOMAIN rooms' \subseteq Rooms
         /\ \A e \in DOMAIN rooms : e # d => rooms'[e] = rooms[e]
         /\ RoomRecords'
  BY TypeParts DEF Opened, IInv, RoomRecords, RoomsOK

LEMMA AcceptPlayerStep ==
  ASSUME IInv, NEW s \in Sockets, AcceptPlayer(s)
  PROVE  IInv'
<1>1. /\ sock[s].step = "found" /\ sock[s].role = "player"
      /\ UNCHANGED <<count, known, device, disconnects, noticeVars>>
  BY DEF AcceptPlayer
<1> PICK d \in Rooms : d = sock[s].room
  BY <1>1 DEF IInv, RequestsFit
<1>2. CASE IsFull(d)
  <2>1. Goes(s, "closing") /\ UNCHANGED <<rooms, told>>
    BY <1>2 DEF AcceptPlayer
  <2>2. PICK row \in SockRow :
          /\ sock' = [sock EXCEPT ![s] = row]
          /\ row.step = "closing" /\ row.role = sock[s].role /\ row.ip = sock[s].ip
          /\ row.room = sock[s].room /\ row.in = sock[s].in
    BY <2>1, GoesIsRow DEF Steps
  <2>3. known' \in [Rooms -> {"unknown", "active", "inactive"}]
    BY <1>1, TypeParts DEF IInv, SocketsOK
  <2> QED  BY <1>1, <2>1, <2>2, <2>3, OneConnectionMoves
<1>3. CASE ~IsFull(d)
  <2> DEFINE room == [Room(d) EXCEPT !.players = @ \cup {s}]
             row == [sock[s] EXCEPT !.step = "in", !.in = d]
  <2>1. /\ rooms' = Opened(d, room)
        /\ told' = [told EXCEPT ![s] = IF HostOf(d) = None THEN "offline" ELSE "online"]
        /\ sock' = [sock EXCEPT ![s].step = "in", ![s].in = d]
    BY <1>3 DEF AcceptPlayer
  <2>2. sock[s] \in SockRow
    BY TypeParts DEF IInv, SockOK
  <2>3. /\ row \in SockRow /\ row.step = "in" /\ row.role = "player" /\ row.ip = sock[s].ip
        /\ row.room = sock[s].room /\ row.in = d
    BY <1>1, <2>2 DEF SockRow, Steps, Live
  <2>4. sock' = [sock EXCEPT ![s] = row]
    BY <2>1, TypeParts DEF IInv, SockOK
  <2>5. /\ room \in RoomRecord /\ room.host = HostOf(d)
        /\ room.players = Room(d).players \cup {s}
    BY RoomFacts, <1>1 DEF RoomRecord, HostOf
  <2> HIDE DEF room, row
  <2>6. sock'[s] = row /\ \A t \in Sockets : t # s => sock'[t] = sock[t]
    BY <2>4, TypeParts DEF IInv, SockOK
  <2>7. /\ DOMAIN rooms' = DOMAIN rooms \cup {d} /\ rooms'[d] = room
        /\ DOMAIN rooms' \subseteq Rooms
        /\ \A e \in DOMAIN rooms : e # d => rooms'[e] = rooms[e]
        /\ RoomRecords'
    BY <1>1, <2>1, <2>5, OpenedRoom
  <2>8. s \notin Room(d).players
    BY <1>1, RoomFacts
  <2>9. IsFiniteSet(room.players) /\ Cardinality(room.players) \in 0..MaxPlayers
    <3>1. /\ IsFiniteSet(Room(d).players) /\ Cardinality(Room(d).players) \in 0..MaxPlayers
          /\ ~(Cardinality(Room(d).players) >= MaxPlayers)
      BY <1>1, <1>3, RoomFacts DEF IsFull
    <3>2. Cardinality(room.players) = Cardinality(Room(d).players) + 1
          /\ IsFiniteSet(room.players)
      BY <2>5, <2>8, <3>1, FS_AddElement
    <3>3. MaxPlayers \in Nat
      OBVIOUS
    <3> QED  BY <3>1, <3>2, <3>3
  <2>10. RoomsOK'
    <3>1. room.host \in Sockets \cup {None} /\ room.players \subseteq Sockets
      BY <2>5 DEF RoomRecord
    <3> QED  BY <2>7, <2>9, <3>1, TypeParts DEF IInv, RoomsOK
  <2>11. /\ told' \in [Sockets -> {"nothing", "online", "offline"}]
         /\ told'[s] = (IF HostOf(d) = None THEN "offline" ELSE "online")
         /\ \A t \in Sockets : t # s => told'[t] = told[t]
    BY <2>1, TypeParts DEF IInv, SocketsOK
  <2>12. SockOK' /\ SocketsOK' /\ DevicesOK'
    BY <1>1, <2>3, <2>4, <2>11, TypeParts DEF IInv, SockOK, SocketsOK, DevicesOK
  <2>13. CountOK' /\ FinitelyMany' /\ HoldersAreCounted'
    BY <1>1, <2>3, <2>6, CountsStay
  <2>14. \A e \in DOMAIN rooms' :
           /\ e \in Rooms /\ rooms'[e].host = HostOf(e)
           /\ rooms'[e].players = IF e = d THEN Room(e).players \cup {s}
                                  ELSE Room(e).players
    BY <2>5, <2>7 DEF HostOf, Room
  <2>15. MembersFit'
    <3> SUFFICES ASSUME NEW e \in DOMAIN rooms'
                 PROVE  /\ rooms'[e].host # None =>
                             /\ sock'[rooms'[e].host].in = e
                             /\ sock'[rooms'[e].host].role = "host"
                        /\ \A t \in rooms'[e].players :
                             sock'[t].in = e /\ sock'[t].role = "player"
      BY DEF MembersFit
    <3>1. e \in Rooms
      BY <2>14
    <3>2. ASSUME HostOf(e) # None
          PROVE  sock'[HostOf(e)].in = e /\ sock'[HostOf(e)].role = "host"
      BY <1>1, <2>6, <3>1, <3>2, RoomFacts DEF HostOf
    <3>3. ASSUME NEW t \in Room(e).players
          PROVE  sock'[t].in = e /\ sock'[t].role = "player"
      BY <1>1, <2>6, <3>1, <3>3, RoomFacts
    <3> QED  BY <2>3, <2>6, <2>14, <3>2, <3>3
  <2>16. PlayersAreIn'
    <3> SUFFICES ASSUME NEW t \in Sockets, sock'[t].step = "in", sock'[t].role = "player"
                 PROVE  sock'[t].in \in DOMAIN rooms' /\ t \in rooms'[sock'[t].in].players
      BY DEF PlayersAreIn
    <3>1. CASE t = s
      BY <2>3, <2>5, <2>6, <2>7, <3>1
    <3>2. CASE t # s
      <4>1. sock'[t] = sock[t] /\ sock[t].in \in DOMAIN rooms
            /\ t \in Room(sock[t].in).players
        BY <2>6, <3>2 DEF IInv, PlayersAreIn, Room
      <4> QED  BY <2>7, <2>14, <4>1
    <3> QED  BY <3>1, <3>2
  <2>17. AdmittedIsHost'
    <3> SUFFICES ASSUME NEW t \in Sockets, sock'[t].step = "in", sock'[t].role = "host"
                 PROVE  sock'[t].in \in DOMAIN rooms' /\ rooms'[sock'[t].in].host = t
      BY DEF AdmittedIsHost
    <3>1. t # s
      BY <2>3, <2>6
    <3>2. sock'[t] = sock[t] /\ sock[t].in \in DOMAIN rooms /\ HostOf(sock[t].in) = t
      BY <2>6, <3>1 DEF IInv, AdmittedIsHost, HostOf, Room
    <3> QED  BY <2>7, <2>14, <3>2
  <2>18. PlayersKnowHost'
    <3> SUFFICES ASSUME NEW t \in Sockets, sock'[t].step = "in", sock'[t].role = "player"
                 PROVE  (told'[t] = "online") = (rooms'[sock'[t].in].host # None)
      BY DEF PlayersKnowHost
    <3>1. CASE t = s
      <4>1. sock'[t].in = d /\ rooms'[d].host = HostOf(d)
        BY <2>3, <2>5, <2>6, <2>7, <3>1
      <4> QED  BY <2>11, <3>1, <4>1
    <3>2. CASE t # s
      <4>1. sock'[t] = sock[t] /\ told'[t] = told[t] /\ sock[t].in \in DOMAIN rooms
        BY <2>6, <2>11, <3>2 DEF IInv, PlayersAreIn
      <4>2. rooms'[sock[t].in].host = rooms[sock[t].in].host
        BY <2>7, <2>14, <4>1 DEF HostOf, Room
      <4> QED  BY <4>1, <4>2 DEF IInv, PlayersKnowHost
    <3> QED  BY <3>1, <3>2
  <2>19. NoGhosts'
    <3> SUFFICES ASSUME NEW e \in DOMAIN rooms'
                 PROVE  LET there == rooms'[e].players \cup ({rooms'[e].host} \ {None})
                        IN  there # {} /\ \A t \in there : sock'[t].step \in {"in", "closing"}
      BY DEF NoGhosts
    <3>1. e \in Rooms
      BY <2>14
    <3>2. \A t \in rooms'[e].players \cup ({rooms'[e].host} \ {None}) :
            sock'[t].step \in {"in", "closing"}
      <4>1. \A t \in Room(e).players \cup ({HostOf(e)} \ {None}) :
              sock'[t].step \in {"in", "closing"}
        BY <1>1, <2>6, <3>1, RoomFacts DEF HostOf
      <4>2. sock'[s].step = "in"
        BY <2>3, <2>6
      <4>3. ASSUME NEW t \in rooms'[e].players \cup ({rooms'[e].host} \ {None}), t # s
            PROVE  t \in Room(e).players \cup ({HostOf(e)} \ {None})
        <5>1. /\ rooms'[e].host = HostOf(e)
              /\ rooms'[e].players \subseteq Room(e).players \cup {s}
          BY <2>14
        <5> QED  BY <4>3, <5>1
      <4>4. \A t \in rooms'[e].players \cup ({rooms'[e].host} \ {None}) :
              t = s \/ sock'[t].step \in {"in", "closing"}
        BY <4>1, <4>3
      <4> QED  BY <4>2, <4>4
    <3>3. rooms'[e].players \cup ({rooms'[e].host} \ {None}) # {}
      <4>1. CASE e = d
        BY <2>5, <2>7, <4>1
      <4>2. CASE e # d
        BY <2>7, <4>2 DEF IInv, NoGhosts
      <4> QED  BY <4>1, <4>2
    <3> QED  BY <3>2, <3>3
  <2>20. ASSUME NEW e \in Rooms, Reached(e)'
         PROVE  Reached(e)
    <3>1. HostOf(e)' = HostOf(e)
      BY <2>5, <2>7 DEF HostOf, Room
    <3>2. HostOf(e) # None
      BY <2>20, <3>1 DEF Reached
    <3>3. HostOf(e) \in Sockets /\ HostOf(e) # s
      BY <1>1, <3>2, RoomFacts DEF HostOf
    <3> QED  BY <2>6, <2>20, <3>1, <3>3 DEF Reached, Open
  <2>21. NoticesOK' /\ TimerIsSet' /\ StaleIsDue'
    BY <1>1, <2>20, NoticesStay
  <2>22. RequestsFit'
    BY <1>1, <2>3, <2>6 DEF IInv, RequestsFit
  <2> QED  BY <2>7, <2>10, <2>12, <2>13, <2>15, <2>16, <2>17, <2>18, <2>19, <2>21, <2>22,
              TypePartsNext DEF IInv
<1> QED  BY <1>2, <1>3

(* The notices do not move, and a TV that has something new had it before, *)
(* unless it has fetched it now.                                           *)
LEMMA NoticesHold ==
  ASSUME IInv, UNCHANGED <<device, unsent, edited, pending, timer, batches, changes>>,
         fresh' \in [Rooms -> {"fresh", "stale", "missed"}],
         \A d \in Rooms :
           Reached(d)' /\ fresh'[d] = "stale" => Reached(d) /\ fresh[d] = "stale"
  PROVE  NoticesOK' /\ TimerIsSet' /\ StaleIsDue'
<1>1. NoticesOK' /\ TimerIsSet'
  BY TypeParts DEF IInv, NoticesOK, TimerIsSet
<1>2. ASSUME NEW d \in Rooms, Due(d)
      PROVE  Due(d)'
  BY <1>2 DEF Due, Affects
<1>3. StaleIsDue'
  BY <1>2 DEF IInv, StaleIsDue
<1> QED  BY <1>1, <1>3

LEMMA AdmitStep ==
  ASSUME IInv, NEW s \in Sockets, Admit(s)
  PROVE  IInv'
<1>1. /\ sock[s].step = "verified" /\ sock[s].role = "host"
      /\ UNCHANGED <<count, known, device, disconnects, unsent, edited, pending, timer,
                     batches, changes>>
  BY DEF Admit, IInv, RequestsFit
<1> PICK d \in Rooms : d = sock[s].in
  BY <1>1 DEF IInv, RequestsFit
<1> DEFINE room == [Room(d) EXCEPT !.host = s]
<1>2. /\ rooms' = Opened(d, room)
      /\ sock' = [t \in Sockets |->
           IF t = s THEN [sock[t] EXCEPT !.step = "in"]
           ELSE IF t = HostOf(d) THEN [sock[t] EXCEPT !.step = "closing"] ELSE sock[t]]
      /\ Tell(d, "online")
      /\ fresh' = [fresh EXCEPT ![d] = "fresh"]
  BY DEF Admit
<1>3. /\ room \in RoomRecord /\ room.host = s /\ room.players = Room(d).players
  BY RoomFacts DEF RoomRecord
<1> HIDE DEF room
<1>4. /\ DOMAIN rooms' = DOMAIN rooms \cup {d} /\ rooms'[d] = room
      /\ DOMAIN rooms' \subseteq Rooms
      /\ \A e \in DOMAIN rooms : e # d => rooms'[e] = rooms[e]
      /\ RoomRecords'
  BY <1>2, <1>3, OpenedRoom
<1>5. ASSUME NEW t \in Sockets, NEW step \in Steps
      PROVE  LET row == [sock[t] EXCEPT !.step = step] IN
             /\ row \in SockRow /\ row.step = step /\ row.role = sock[t].role
             /\ row.ip = sock[t].ip /\ row.room = sock[t].room /\ row.in = sock[t].in
  BY TypeParts DEF IInv, SockOK, SockRow
<1>6. /\ HostOf(d) # s
      /\ HostOf(d) # None => /\ HostOf(d) \in Sockets
                             /\ sock[HostOf(d)].step \in {"in", "closing"}
                             /\ sock[HostOf(d)].in = d /\ sock[HostOf(d)].role = "host"
  BY <1>1, RoomFacts DEF HostOf
<1>7. /\ sock' \in [Sockets -> SockRow] /\ sock'[s].step = "in"
      /\ \A t \in Sockets :
           /\ t = HostOf(d) => sock'[t].step = "closing"
           /\ t \notin {s, HostOf(d)} => sock'[t] = sock[t]
           /\ sock'[t].role = sock[t].role /\ sock'[t].ip = sock[t].ip
           /\ sock'[t].room = sock[t].room /\ sock'[t].in = sock[t].in
  <2>1. sock \in [Sockets -> SockRow]
    BY TypeParts DEF IInv, SockOK
  <2>2. ASSUME NEW t \in Sockets
        PROVE  /\ sock'[t] \in SockRow
               /\ t = s => sock'[t].step = "in"
               /\ t = HostOf(d) => sock'[t].step = "closing"
               /\ t \notin {s, HostOf(d)} => sock'[t] = sock[t]
               /\ sock'[t].role = sock[t].role /\ sock'[t].ip = sock[t].ip
               /\ sock'[t].room = sock[t].room /\ sock'[t].in = sock[t].in
    <3>1. CASE t = s
      <4>1. sock'[t] = [sock[t] EXCEPT !.step = "in"]
        BY <1>2, <3>1
      <4>2. "in" \in Steps
        BY DEF Steps, Live
      <4>3. /\ sock'[t] \in SockRow /\ sock'[t].step = "in" /\ sock'[t].role = sock[t].role
            /\ sock'[t].ip = sock[t].ip /\ sock'[t].room = sock[t].room
            /\ sock'[t].in = sock[t].in
        BY <1>5, <4>1, <4>2
      <4> QED  BY <1>6, <3>1, <4>3
    <3>2. CASE t = HostOf(d)
      <4>1. sock'[t] = [sock[t] EXCEPT !.step = "closing"]
        BY <1>2, <1>6, <3>2
      <4> QED  BY <1>5, <1>6, <3>2, <4>1 DEF Steps
    <3>3. CASE t \notin {s, HostOf(d)}
      BY <1>2, <2>1, <3>3
    <3> QED  BY <3>1, <3>2, <3>3
  <2>3. sock' = [t \in Sockets |-> sock'[t]]
    BY <1>2
  <2> QED  BY <2>2, <2>3
<1>8. /\ told' \in [Sockets -> {"nothing", "online", "offline"}]
      /\ \A t \in Sockets : told'[t] = IF t \in Room(d).players /\ Open(t)
                                       THEN "online" ELSE told[t]
  BY <1>2, TypeParts DEF Tell, IInv, SocketsOK
<1>9. SockOK' /\ SocketsOK' /\ DevicesOK'
  BY <1>1, <1>7, <1>8, TypeParts DEF IInv, SockOK, SocketsOK, DevicesOK
<1>10. CountOK' /\ FinitelyMany' /\ HoldersAreCounted'
  BY <1>1, <1>6, <1>7, CountsStay
<1>11. \A e \in DOMAIN rooms' : /\ e \in Rooms /\ rooms'[e].players = Room(e).players
                                /\ rooms'[e].host = IF e = d THEN s ELSE HostOf(e)
  BY <1>3, <1>4 DEF HostOf, Room
<1>12. RoomsOK'
  <2>1. /\ room.host \in Sockets \cup {None} /\ room.players \subseteq Sockets
        /\ Cardinality(room.players) \in 0..MaxPlayers
    BY <1>3, RoomFacts DEF RoomRecord
  <2> QED  BY <1>4, <2>1, TypeParts DEF IInv, RoomsOK
<1>13. MembersFit'
  <2> SUFFICES ASSUME NEW e \in DOMAIN rooms'
               PROVE  /\ rooms'[e].host # None =>
                           /\ sock'[rooms'[e].host].in = e
                           /\ sock'[rooms'[e].host].role = "host"
                      /\ \A t \in rooms'[e].players :
                           sock'[t].in = e /\ sock'[t].role = "player"
    BY DEF MembersFit
  <2>1. e \in Rooms
    BY <1>11
  <2>2. ASSUME HostOf(e) # None
        PROVE  sock'[HostOf(e)].in = e /\ sock'[HostOf(e)].role = "host"
    BY <1>7, <2>1, <2>2, RoomFacts DEF HostOf
  <2>3. ASSUME NEW t \in Room(e).players
        PROVE  sock'[t].in = e /\ sock'[t].role = "player"
    BY <1>7, <2>1, <2>3, RoomFacts
  <2>4. sock'[s].in = d /\ sock'[s].role = "host"
    BY <1>1, <1>7
  <2> QED  BY <1>11, <2>2, <2>3, <2>4
<1>14. ASSUME NEW t \in Sockets, sock'[t].step = "in", sock'[t].role = "player"
       PROVE  /\ sock'[t] = sock[t] /\ sock[t].in \in DOMAIN rooms
              /\ t \in Room(sock[t].in).players
  <2>1. t # s
    BY <1>1, <1>7, <1>14
  <2>2. sock'[t] = sock[t]
    BY <1>6, <1>7, <1>14, <2>1
  <2> QED  BY <1>14, <2>2 DEF IInv, PlayersAreIn, Room
<1>15. PlayersAreIn'
  <2> SUFFICES ASSUME NEW t \in Sockets, sock'[t].step = "in", sock'[t].role = "player"
               PROVE  sock'[t].in \in DOMAIN rooms' /\ t \in rooms'[sock'[t].in].players
    BY DEF PlayersAreIn
  <2> QED  BY <1>4, <1>11, <1>14
<1>16. AdmittedIsHost'
  <2> SUFFICES ASSUME NEW t \in Sockets, sock'[t].step = "in", sock'[t].role = "host"
               PROVE  sock'[t].in \in DOMAIN rooms' /\ rooms'[sock'[t].in].host = t
    BY DEF AdmittedIsHost
  <2>1. CASE t = s
    BY <1>4, <1>7, <1>11, <2>1
  <2>2. CASE t # s
    <3>1. t # HostOf(d) /\ sock'[t] = sock[t]
      BY <1>7, <2>2
    <3>2. sock[t].in \in DOMAIN rooms /\ HostOf(sock[t].in) = t
      BY <3>1 DEF IInv, AdmittedIsHost, HostOf, Room
    <3> QED  BY <1>4, <1>11, <3>1, <3>2
  <2> QED  BY <2>1, <2>2
<1>17. PlayersKnowHost'
  <2> SUFFICES ASSUME NEW t \in Sockets, sock'[t].step = "in", sock'[t].role = "player"
               PROVE  (told'[t] = "online") = (rooms'[sock'[t].in].host # None)
    BY DEF PlayersKnowHost
  <2>1. CASE sock[t].in = d
    <3>1. Open(t) /\ t \in Room(d).players
      BY <1>14, <2>1 DEF Open, Live
    <3> QED  BY <1>4, <1>8, <1>11, <1>14, <2>1, <3>1
  <2>2. CASE sock[t].in # d
    <3>1. t \notin Room(d).players
      BY <2>2, RoomFacts
    <3>2. rooms'[sock[t].in] = rooms[sock[t].in]
      BY <1>4, <1>14, <2>2
    <3> QED  BY <1>8, <1>14, <3>1, <3>2 DEF IInv, PlayersKnowHost
  <2> QED  BY <2>1, <2>2
<1>18. NoGhosts'
  <2> SUFFICES ASSUME NEW e \in DOMAIN rooms'
               PROVE  LET there == rooms'[e].players \cup ({rooms'[e].host} \ {None})
                      IN  there # {} /\ \A t \in there : sock'[t].step \in {"in", "closing"}
    BY DEF NoGhosts
  <2>1. e \in Rooms
    BY <1>11
  <2>2. \A t \in Room(e).players \cup ({HostOf(e)} \ {None}) :
          sock'[t].step \in {"in", "closing"}
    BY <1>1, <1>7, <2>1, RoomFacts DEF HostOf
  <2>3. \A t \in rooms'[e].players \cup ({rooms'[e].host} \ {None}) :
          sock'[t].step \in {"in", "closing"}
    BY <1>7, <1>11, <2>2
  <2>4. rooms'[e].players \cup ({rooms'[e].host} \ {None}) # {}
    BY <1>3, <1>4 DEF IInv, NoGhosts
  <2> QED  BY <2>3, <2>4
<1>19. /\ fresh' \in [Rooms -> {"fresh", "stale", "missed"}]
       /\ fresh'[d] = "fresh" /\ \A e \in Rooms : e # d => fresh'[e] = fresh[e]
  BY <1>2, TypeParts DEF IInv, NoticesOK
<1>20. ASSUME NEW e \in Rooms, Reached(e)', e # d
       PROVE  Reached(e)
  <2>1. HostOf(e)' = HostOf(e)
    BY <1>4, <1>20 DEF HostOf, Room
  <2>2. HostOf(e) # None
    BY <1>20, <2>1 DEF Reached
  <2>3. HostOf(e) \in Sockets /\ HostOf(e) # s /\ HostOf(e) # HostOf(d)
    BY <1>1, <1>6, <1>20, <2>2, RoomFacts DEF HostOf
  <2> QED  BY <1>7, <1>20, <2>1, <2>3 DEF Reached, Open
<1>21. NoticesOK' /\ TimerIsSet' /\ StaleIsDue'
  BY <1>1, <1>19, <1>20, NoticesHold
<1>22. RequestsFit'
  BY <1>1, <1>6, <1>7 DEF IInv, RequestsFit
<1> QED  BY <1>4, <1>9, <1>10, <1>12, <1>13, <1>15, <1>16, <1>17, <1>18, <1>21, <1>22,
            TypePartsNext DEF IInv

(* A room that is written, and dropped when nobody is left in it.          *)
LEMMA WrittenOrDropped ==
  ASSUME IInv, NEW d \in DOMAIN rooms, NEW room \in RoomRecord,
         rooms' = DropIfEmpty([rooms EXCEPT ![d] = room])
  PROVE  /\ DOMAIN rooms' \subseteq DOMAIN rooms
         /\ \A e \in DOMAIN rooms' : rooms'[e] = IF e = d THEN room ELSE rooms[e]
         /\ \A e \in DOMAIN rooms : e # d => e \in DOMAIN rooms'
         /\ d \in DOMAIN rooms' <=> room.host # None \/ room.players # {}
         /\ RoomRecords'
<1> DEFINE rs == [rooms EXCEPT ![d] = room]
<1>1. rooms' = Restrict(rs, {e \in DOMAIN rs : rs[e].host # None \/ rs[e].players # {}})
  BY DEF DropIfEmpty
<1>2. /\ DOMAIN rs = DOMAIN rooms /\ rs[d] = room
      /\ \A e \in DOMAIN rooms : e # d => rs[e] = rooms[e]
  BY DEF IInv, RoomRecords
<1> HIDE DEF rs
<1>3. rooms' = [e \in {x \in DOMAIN rs : rs[x].host # None \/ rs[x].players # {}} |-> rs[e]]
  BY <1>1 DEF Restrict
<1>4. \A e \in DOMAIN rooms : e # d => rooms[e].host # None \/ rooms[e].players # {}
  BY DEF IInv, NoGhosts
<1>5. /\ DOMAIN rooms' = {x \in DOMAIN rs : rs[x].host # None \/ rs[x].players # {}}
      /\ \A e \in DOMAIN rooms' : rooms'[e] = rs[e]
  BY <1>3
<1>6. DOMAIN rooms' \subseteq DOMAIN rooms
  BY <1>2, <1>5
<1>7. \A e \in DOMAIN rooms' : rooms'[e] = IF e = d THEN room ELSE rooms[e]
  BY <1>2, <1>5, <1>6
<1>8. \A e \in DOMAIN rooms : e # d => e \in DOMAIN rooms'
  BY <1>2, <1>4, <1>5
<1>9. d \in DOMAIN rooms' <=> room.host # None \/ room.players # {}
  BY <1>2, <1>5
<1>10. RoomRecords'
  <2>1. \A e \in DOMAIN rooms' : rooms'[e] \in RoomRecord
    BY <1>6, <1>7 DEF IInv, RoomRecords
  <2>2. rooms' = [e \in DOMAIN rooms' |-> rooms'[e]]
    BY <1>3
  <2> QED  BY <2>1, <2>2 DEF RoomRecords
<1> QED  BY <1>6, <1>7, <1>8, <1>9, <1>10

LEMMA ClosedStep ==
  ASSUME IInv, NEW s \in Sockets, Closed(s)
  PROVE  IInv'
<1> DEFINE d == sock[s].in
<1>1. /\ sock[s].step = "closing" /\ Goes(s, "gone") /\ Release(s)
      /\ UNCHANGED <<known, device, disconnects, noticeVars>>
  BY DEF Closed
<1>2. /\ SockOK' /\ sock'[s].step = "gone" /\ sock'[s].role = sock[s].role
      /\ sock'[s].ip = sock[s].ip /\ sock'[s].room = sock[s].room
      /\ \A t \in Sockets : t # s => sock'[t] = sock[t]
  BY <1>1, GoesTo, TypeParts DEF IInv, Steps
<1>3. CountOK' /\ FinitelyMany' /\ HoldersAreCounted'
  BY <1>1, ReleaseStep DEF Ended
<1>4. DevicesOK'
  BY <1>1, TypeParts DEF IInv, DevicesOK
<1>5. known' \in [Rooms -> {"unknown", "active", "inactive"}]
  BY <1>1, TypeParts DEF IInv, SocketsOK
<1>6. RequestsFit'
  BY <1>1, <1>2 DEF IInv, RequestsFit
<1>7. d \in Rooms \cup {None}
  BY TypeParts DEF IInv, SockOK, SockRow
<1>8. CASE d \notin DOMAIN rooms
  <2>1. UNCHANGED <<rooms, told>>
    BY <1>8 DEF Closed
  <2>2. \A e \in DOMAIN rooms : s # rooms[e].host /\ s \notin rooms[e].players
    <3> TAKE e \in DOMAIN rooms
    <3>1. e # d /\ e # None
      BY <1>8, TypeParts DEF IInv, RoomsOK
    <3>2. s # None
      OBVIOUS
    <3> QED  BY <3>1, <3>2 DEF IInv, MembersFit
  <2>3. RoomsOK' /\ AboutRooms'
    BY <1>1, <1>2, <2>1, <2>2, RoomsStay
  <2>4. ASSUME NEW e \in Rooms, Reached(e)'
        PROVE  Reached(e)
    <3>1. HostOf(e)' = HostOf(e)
      BY <2>1 DEF HostOf, Room
    <3>2. HostOf(e) # None
      BY <2>4, <3>1 DEF Reached
    <3>3. HostOf(e) \in Sockets /\ HostOf(e) # s
      BY <2>2, <2>4, <3>2, RoomFacts DEF HostOf, Room
    <3> QED  BY <1>2, <2>4, <3>1, <3>3 DEF Reached, Open
  <2>5. NoticesOK' /\ TimerIsSet' /\ StaleIsDue'
    BY <1>1, <2>4, NoticesStay
  <2>6. SocketsOK'
    BY <1>5, <2>1, TypeParts DEF IInv, SocketsOK
  <2> QED  BY <1>2, <1>3, <1>4, <1>6, <2>3, <2>5, <2>6, TypePartsNext DEF IInv, AboutRooms
<1>9. CASE d \in DOMAIN rooms
  <2>1. d \in Rooms /\ d # None /\ Room(d) = rooms[d]
    BY <1>9, TypeParts DEF IInv, RoomsOK, Room
  <2> HIDE DEF d
  <2> DEFINE room == IF IsHost(d, s) THEN [rooms[d] EXCEPT !.host = None]
                     ELSE [rooms[d] EXCEPT !.players = @ \ {s}]
  <2>2. /\ rooms' = DropIfEmpty([rooms EXCEPT ![d] = room])
        /\ IF IsHost(d, s) THEN Tell(d, "offline") ELSE UNCHANGED told
    BY <1>9, <2>1 DEF Closed, d
  <2>3. /\ rooms[d] \in RoomRecord
        /\ IsFiniteSet(rooms[d].players) /\ Cardinality(rooms[d].players) \in 0..MaxPlayers
        /\ \A t \in rooms[d].players : /\ t \in Sockets
                                       /\ sock[t].step \in {"in", "closing"}
                                       /\ sock[t].in = d /\ sock[t].role = "player"
        /\ rooms[d].host # None => /\ rooms[d].host \in Sockets
                                   /\ sock[rooms[d].host].step \in {"in", "closing"}
                                   /\ sock[rooms[d].host].in = d
                                   /\ sock[rooms[d].host].role = "host"
        /\ IsHost(d, s) <=> rooms[d].host = s
    BY <2>1, RoomFacts DEF IsHost, HostOf
  <2>4. /\ room \in RoomRecord
        /\ room.host = IF rooms[d].host = s THEN None ELSE rooms[d].host
        /\ room.players = rooms[d].players \ {s}
    <3>1. CASE IsHost(d, s)
      <4>1. room = [rooms[d] EXCEPT !.host = None]
        BY <3>1
      <4>2. s \notin rooms[d].players
        BY <2>3, <3>1
      <4> QED  BY <2>3, <3>1, <4>1, <4>2 DEF RoomRecord
    <3>2. CASE ~IsHost(d, s)
      <4>1. room = [rooms[d] EXCEPT !.players = @ \ {s}]
        BY <3>2
      <4> QED  BY <2>3, <3>2, <4>1 DEF RoomRecord
    <3> QED  BY <3>1, <3>2
  <2> HIDE DEF room
  <2>5. /\ DOMAIN rooms' \subseteq DOMAIN rooms
        /\ \A e \in DOMAIN rooms' : rooms'[e] = IF e = d THEN room ELSE rooms[e]
        /\ \A e \in DOMAIN rooms : e # d => e \in DOMAIN rooms'
        /\ d \in DOMAIN rooms' <=> room.host # None \/ room.players # {}
        /\ RoomRecords'
    BY <1>9, <2>2, <2>4, WrittenOrDropped
  <2>6. \A e \in DOMAIN rooms \ {d} : s # rooms[e].host /\ s \notin rooms[e].players
    <3> TAKE e \in DOMAIN rooms \ {d}
    <3>1. s # None
      OBVIOUS
    <3> QED  BY <3>1 DEF IInv, MembersFit, d
  <2>7. \A e \in DOMAIN rooms' :
          /\ e \in DOMAIN rooms /\ e \in Rooms
          /\ rooms'[e].host = IF rooms[e].host = s THEN None ELSE rooms[e].host
          /\ rooms'[e].players = rooms[e].players \ {s}
    BY <2>4, <2>5, <2>6, TypeParts DEF IInv, RoomsOK
  <2>8. RoomsOK'
    <3>1. /\ room.host \in Sockets \cup {None} /\ room.players \subseteq Sockets
      BY <2>4 DEF RoomRecord
    <3>2. /\ Cardinality(room.players) \in Nat
          /\ Cardinality(room.players) <= Cardinality(rooms[d].players)
      BY <2>3, <2>4, FS_Subset, FS_CardinalityType
    <3>3. Cardinality(room.players) \in 0..MaxPlayers
      BY <2>3, <3>2
    <3> QED  BY <2>5, <3>1, <3>3, TypeParts DEF IInv, RoomsOK
  <2>9. MembersFit'
    <3> SUFFICES ASSUME NEW e \in DOMAIN rooms'
                 PROVE  /\ rooms'[e].host # None =>
                             /\ sock'[rooms'[e].host].in = e
                             /\ sock'[rooms'[e].host].role = "host"
                        /\ \A t \in rooms'[e].players :
                             sock'[t].in = e /\ sock'[t].role = "player"
      BY DEF MembersFit
    <3>1. /\ e \in DOMAIN rooms /\ rooms[e].host \in Sockets \cup {None}
          /\ rooms[e].players \subseteq Sockets
      BY <2>7, TypeParts DEF IInv, RoomsOK
    <3>2. ASSUME rooms'[e].host # None
          PROVE  rooms'[e].host = rooms[e].host /\ sock'[rooms[e].host] = sock[rooms[e].host]
      BY <1>2, <2>7, <3>1, <3>2
    <3>3. ASSUME NEW t \in rooms'[e].players
          PROVE  t \in rooms[e].players /\ sock'[t] = sock[t]
      BY <1>2, <2>7, <3>1, <3>3
    <3> QED  BY <3>1, <3>2, <3>3 DEF IInv, MembersFit
  <2>10. ASSUME NEW t \in Sockets, sock'[t].step = "in"
         PROVE  t # s /\ sock'[t] = sock[t]
    BY <1>2, <2>10
  <2>11. PlayersAreIn'
    <3> SUFFICES ASSUME NEW t \in Sockets, sock'[t].step = "in", sock'[t].role = "player"
                 PROVE  sock'[t].in \in DOMAIN rooms' /\ t \in rooms'[sock'[t].in].players
      BY DEF PlayersAreIn
    <3>1. t # s /\ sock'[t] = sock[t] /\ sock[t].in \in DOMAIN rooms
          /\ t \in rooms[sock[t].in].players
      BY <2>10 DEF IInv, PlayersAreIn
    <3>2. sock[t].in \in DOMAIN rooms'
      BY <2>4, <2>5, <3>1
    <3> QED  BY <2>7, <3>1, <3>2
  <2>12. AdmittedIsHost'
    <3> SUFFICES ASSUME NEW t \in Sockets, sock'[t].step = "in", sock'[t].role = "host"
                 PROVE  sock'[t].in \in DOMAIN rooms' /\ rooms'[sock'[t].in].host = t
      BY DEF AdmittedIsHost
    <3>1. t # s /\ sock'[t] = sock[t] /\ sock[t].in \in DOMAIN rooms
          /\ rooms[sock[t].in].host = t /\ t # None
      BY <2>10 DEF IInv, AdmittedIsHost
    <3>2. sock[t].in \in DOMAIN rooms'
      BY <2>4, <2>5, <3>1
    <3> QED  BY <2>7, <3>1, <3>2
  <2>13. SocketsOK' /\ \A t \in Sockets :
           told'[t] = IF IsHost(d, s) /\ t \in Room(d).players /\ Open(t) THEN "offline"
                      ELSE told[t]
    BY <1>5, <2>2, TypeParts DEF Tell, IInv, SocketsOK
  <2>14. PlayersKnowHost'
    <3> SUFFICES ASSUME NEW t \in Sockets, sock'[t].step = "in", sock'[t].role = "player"
                 PROVE  (told'[t] = "online") = (rooms'[sock'[t].in].host # None)
      BY DEF PlayersKnowHost
    <3> DEFINE e == sock[t].in
    <3>1. /\ t # s /\ sock'[t] = sock[t] /\ e \in DOMAIN rooms /\ t \in rooms[e].players
          /\ (told[t] = "online") = (rooms[e].host # None)
      BY <2>10 DEF IInv, PlayersAreIn, PlayersKnowHost
    <3>2. e \in DOMAIN rooms'
      BY <2>4, <2>5, <3>1
    <3>3. rooms'[e].host = IF rooms[e].host = s THEN None ELSE rooms[e].host
      BY <2>7, <3>2
    <3>4. CASE e = d /\ IsHost(d, s)
      <4>1. Open(t) /\ t \in Room(d).players
        BY <2>1, <3>1, <3>4 DEF Open, Live
      <4> QED  BY <2>3, <2>13, <3>1, <3>3, <3>4, <4>1
    <3>5. CASE ~(e = d /\ IsHost(d, s))
      <4>1. told'[t] = told[t]
        BY <2>1, <2>3, <2>13, <3>1, <3>5
      <4>2. rooms[e].host # s
        BY <2>3, <2>6, <3>1, <3>5
      <4> QED  BY <3>1, <3>3, <4>1, <4>2
    <3> QED  BY <3>4, <3>5
  <2>15. NoGhosts'
    <3> SUFFICES ASSUME NEW e \in DOMAIN rooms'
                 PROVE  LET there == rooms'[e].players \cup ({rooms'[e].host} \ {None})
                        IN  there # {} /\ \A t \in there : sock'[t].step \in {"in", "closing"}
      BY DEF NoGhosts
    <3>1. rooms'[e].players \cup ({rooms'[e].host} \ {None}) # {}
      <4>1. CASE e = d
        BY <2>5, <4>1
      <4>2. CASE e # d
        BY <2>5, <4>2 DEF IInv, NoGhosts
      <4> QED  BY <4>1, <4>2
    <3>2. ASSUME NEW t \in rooms'[e].players \cup ({rooms'[e].host} \ {None})
          PROVE  sock'[t].step \in {"in", "closing"}
      <4>1. t # s /\ t \in rooms[e].players \cup ({rooms[e].host} \ {None})
        BY <2>7, <3>2
      <4>2. t \in Sockets /\ sock[t].step \in {"in", "closing"}
        BY <2>7, <4>1, TypeParts DEF IInv, RoomsOK, NoGhosts
      <4> QED  BY <1>2, <4>1, <4>2
    <3> QED  BY <3>1, <3>2
  <2>16. ASSUME NEW e \in Rooms, Reached(e)'
         PROVE  Reached(e)
    <3>1. HostOf(e)' # None
      BY <2>16 DEF Reached
    <3>2. e \in DOMAIN rooms' /\ HostOf(e)' = rooms'[e].host
      BY <3>1 DEF HostOf, Room
    <3>3. e \in DOMAIN rooms /\ rooms'[e].host = rooms[e].host /\ rooms[e].host # s
          /\ rooms[e].host \in Sockets
      BY <2>7, <3>1, <3>2, TypeParts DEF IInv, RoomsOK
    <3>4. HostOf(e) = rooms[e].host
      BY <3>3 DEF HostOf, Room
    <3> QED  BY <1>2, <2>16, <3>1, <3>2, <3>3, <3>4 DEF Reached, Open
  <2>17. NoticesOK' /\ TimerIsSet' /\ StaleIsDue'
    BY <1>1, <2>16, NoticesStay
  <2> QED  BY <1>2, <1>3, <1>4, <1>6, <2>5, <2>8, <2>9, <2>11, <2>12, <2>13, <2>14, <2>15,
              <2>17, TypePartsNext DEF IInv
<1> QED  BY <1>8, <1>9

-----------------------------------------------------------------------------
(* The steps that leave the sockets and the rooms alone.                   *)

LEMMA OnlyNoticesMove ==
  ASSUME IInv, UNCHANGED socketVars, DevicesOK', NoticesOK', TimerIsSet', StaleIsDue'
  PROVE  IInv'
<1>1. /\ sock' = sock /\ count' = count /\ known' = known /\ rooms' = rooms
      /\ told' = told
  BY DEF socketVars
<1>2. SockOK' /\ SocketsOK' /\ RequestsFit'
  BY <1>1, TypeParts DEF IInv, SockOK, SocketsOK, RequestsFit
<1>3. CountOK' /\ FinitelyMany' /\ HoldersAreCounted'
  BY <1>1, CountsStay
<1>4. RoomsOK' /\ AboutRooms'
  BY <1>1, RoomsStay
<1> QED  BY <1>2, <1>3, <1>4, TypePartsNext DEF IInv, AboutRooms

LEMMA SameReach ==
  ASSUME UNCHANGED socketVars, NEW d
  PROVE  HostOf(d)' = HostOf(d) /\ Reached(d)' = Reached(d)
  BY DEF socketVars, Reached, Open, HostOf, Room

LEMMA ForgetStep ==
  ASSUME IInv, NEW d \in Rooms, Forget(d)
  PROVE  IInv'
<1>1. /\ UNCHANGED <<sock, count, rooms, told, device, disconnects, noticeVars>>
      /\ known' \in [Rooms -> {"unknown", "active", "inactive"}]
  BY TypeParts DEF Forget, IInv, SocketsOK
<1>2. SockOK' /\ SocketsOK' /\ RequestsFit' /\ DevicesOK'
  BY <1>1, TypeParts DEF IInv, SockOK, SocketsOK, RequestsFit, DevicesOK
<1>3. CountOK' /\ FinitelyMany' /\ HoldersAreCounted'
  BY <1>1, CountsStay
<1>4. RoomsOK' /\ AboutRooms'
  BY <1>1, RoomsStay
<1>5. \A e \in Rooms : Reached(e)' => Reached(e)
  BY <1>1, NotReachedNow
<1>6. NoticesOK' /\ TimerIsSet' /\ StaleIsDue'
  BY <1>1, <1>5, NoticesStay
<1> QED  BY <1>2, <1>3, <1>4, <1>6, TypePartsNext DEF IInv, AboutRooms

LEMMA DisconnectStep ==
  ASSUME IInv, NEW d \in Rooms, Disconnect(d)
  PROVE  IInv'
<1>1. /\ disconnects' = disconnects \ {d}
      /\ sock' = [s \in Sockets |-> IF s = HostOf(d) THEN [sock[s] EXCEPT !.step = "closing"]
                                    ELSE sock[s]]
      /\ UNCHANGED <<count, known, rooms, told, device, noticeVars>>
  BY DEF Disconnect
<1>2. HostOf(d) # None => /\ HostOf(d) \in Sockets
                          /\ sock[HostOf(d)].step \in {"in", "closing"}
  BY RoomFacts DEF HostOf
<1>3. /\ sock' \in [Sockets -> SockRow]
      /\ \A t \in Sockets :
           /\ t = HostOf(d) => sock'[t].step = "closing"
           /\ t # HostOf(d) => sock'[t] = sock[t]
           /\ sock'[t].role = sock[t].role /\ sock'[t].ip = sock[t].ip
           /\ sock'[t].room = sock[t].room /\ sock'[t].in = sock[t].in
  <2>1. ASSUME NEW t \in Sockets
        PROVE  /\ sock'[t] \in SockRow
               /\ t = HostOf(d) => sock'[t].step = "closing"
               /\ t # HostOf(d) => sock'[t] = sock[t]
               /\ sock'[t].role = sock[t].role /\ sock'[t].ip = sock[t].ip
               /\ sock'[t].room = sock[t].room /\ sock'[t].in = sock[t].in
    <3>1. sock[t] \in SockRow
      BY TypeParts DEF IInv, SockOK
    <3>2. CASE t = HostOf(d)
      <4>1. sock'[t] = [sock[t] EXCEPT !.step = "closing"]
        BY <1>1, <3>2
      <4> QED  BY <3>1, <3>2, <4>1 DEF SockRow, Steps
    <3>3. CASE t # HostOf(d)
      BY <1>1, <3>1, <3>3
    <3> QED  BY <3>2, <3>3
  <2>2. sock' = [t \in Sockets |-> sock'[t]]
    BY <1>1
  <2> QED  BY <2>1, <2>2
<1>4. SockOK' /\ SocketsOK' /\ DevicesOK'
  BY <1>1, <1>3, TypeParts DEF IInv, SockOK, SocketsOK, DevicesOK
<1>5. \A t \in Sockets : t = HostOf(d) => sock[t].step \in {"in", "closing"}
  BY <1>2
<1>6. CountOK' /\ FinitelyMany' /\ HoldersAreCounted'
  BY <1>1, <1>3, <1>5, CountsStay
<1>7. RoomsOK' /\ AboutRooms'
  BY <1>1, <1>3, <1>5, RoomsStay
<1>8. \A e \in Rooms : Reached(e)' => Reached(e)
  BY <1>1, <1>3, <1>5, NotReachedNow
<1>9. NoticesOK' /\ TimerIsSet' /\ StaleIsDue'
  BY <1>1, <1>8, NoticesStay
<1>10. RequestsFit'
  BY <1>3, <1>5 DEF IInv, RequestsFit
<1> QED  BY <1>4, <1>6, <1>7, <1>9, <1>10, TypePartsNext DEF IInv, AboutRooms

LEMMA RevokeStep ==
  ASSUME IInv, NEW d \in Rooms, NEW active \in BOOLEAN, Revoke(d, active)
  PROVE  IInv'
<1> DEFINE row == [device[d] EXCEPT !.active = @ /\ active]
<1>1. /\ changes < MaxChanges /\ changes' = changes + 1
      /\ device' = [device EXCEPT ![d] = row]
      /\ disconnects' = disconnects \cup {d}
      /\ UNCHANGED <<unsent, edited, pending, timer, batches, fresh>> /\ UNCHANGED socketVars
  BY TypeParts DEF Revoke, IInv, DevicesOK
<1>2. /\ row \in [active : BOOLEAN, follows : Groups, groups : SUBSET Groups]
      /\ row.follows = device[d].follows /\ row.groups = device[d].groups
  BY TypeParts DEF IInv, DevicesOK
<1> HIDE DEF row
<1>3. DevicesOK' /\ \A e \in Rooms : /\ device'[e].follows = device[e].follows
                                     /\ device'[e].groups = device[e].groups
  BY <1>1, <1>2, TypeParts DEF IInv, DevicesOK
<1>4. NoticesOK' /\ TimerIsSet'
  <2>1. changes' \in 0..MaxChanges
    BY <1>1, TypeParts DEF IInv, NoticesOK
  <2> QED  BY <1>1, <2>1, TypeParts DEF IInv, NoticesOK, TimerIsSet
<1>5. StaleIsDue'
  <2> SUFFICES ASSUME NEW e \in Rooms, Reached(e)', fresh'[e] = "stale"
               PROVE  Due(e)'
    BY DEF StaleIsDue
  <2>1. Due(e)
    BY <1>1, SameReach DEF IInv, StaleIsDue
  <2> QED  BY <1>1, <1>3, <2>1 DEF Due, Affects
<1> QED  BY <1>1, <1>3, <1>4, <1>5, OnlyNoticesMove

(* Who stops showing a changed program is told of that change instead.     *)
LEMMA NoneIsForgotten ==
  ASSUME NEW scope, Commit(scope)
  PROVE  unsent \cup (UNION edited) \subseteq unsent' \cup (UNION edited')
<1>1. PICK dropped \in SUBSET {scope} : edited' = {users \ dropped : users \in edited}
  BY DEF Commit
<1>2. unsent' = unsent \cup {scope}
  BY DEF Commit
<1> SUFFICES ASSUME NEW users \in edited, NEW user \in users, user # scope
             PROVE  user \in (UNION edited')
  BY <1>2
<1>3. user \in users \ dropped /\ users \ dropped \in edited'
  BY <1>1
<1> QED  BY <1>3

LEMMA EditDeviceStep ==
  ASSUME IInv, NEW d \in Rooms, EditDevice(d)
  PROVE  IInv'
<1>1. /\ changes < MaxChanges /\ changes' = changes + 1
      /\ unsent' = unsent \cup {d}
      /\ UNCHANGED <<disconnects, pending, timer, batches>> /\ UNCHANGED socketVars
      /\ fresh' = [e \in Rooms |-> IF e \in {d} THEN "stale" ELSE fresh[e]]
  BY DEF EditDevice, Commit, Stale
<1>0. Commit(d) BY DEF EditDevice
<1>2. PICK G \in SUBSET Groups, g \in Groups :
        device' = [device EXCEPT ![d].groups = G, ![d].follows = g, ![d].active = TRUE]
  BY DEF EditDevice
<1> DEFINE row == [device[d] EXCEPT !.groups = G, !.follows = g, !.active = TRUE]
<1>3. device' = [device EXCEPT ![d] = row]
  BY <1>2, TypeParts DEF IInv, DevicesOK
<1>4. row \in [active : BOOLEAN, follows : Groups, groups : SUBSET Groups]
  BY TypeParts DEF IInv, DevicesOK
<1> HIDE DEF row
<1>5. DevicesOK' /\ \A e \in Rooms : e # d => device'[e] = device[e]
  BY <1>1, <1>3, <1>4, TypeParts DEF IInv, DevicesOK
<1>6. NoticesOK' /\ TimerIsSet'
  <2>1. changes' \in 0..MaxChanges
    BY <1>1, TypeParts DEF IInv, NoticesOK
  <2>2. fresh' \in [Rooms -> {"fresh", "stale", "missed"}]
    BY <1>1, TypeParts DEF IInv, NoticesOK
  <2>3. edited' \subseteq SUBSET Users
    BY <1>0, TypeParts DEF Commit, IInv, NoticesOK
  <2> QED
    BY <1>1, <2>1, <2>2, <2>3, TypeParts DEF IInv, NoticesOK, TimerIsSet, Scopes, Users
<1>7. StaleIsDue'
  <2> SUFFICES ASSUME NEW e \in Rooms, Reached(e)', fresh'[e] = "stale"
               PROVE  Due(e)'
    BY DEF StaleIsDue
  <2>1. CASE e = d
    BY <1>1, <2>1 DEF Due, Affects, Scopes, Users
  <2>2. CASE e # d
    <3>1. Due(e)
      BY <1>1, <2>2, SameReach DEF IInv, StaleIsDue
    <3> QED  BY <1>0, <1>1, <1>5, <2>2, <3>1, NoneIsForgotten DEF Due, Affects
  <2> QED  BY <2>1, <2>2
<1> QED  BY <1>1, <1>5, <1>6, <1>7, OnlyNoticesMove

LEMMA ChangeContentStep ==
  ASSUME IInv, NEW scope \in {"ALL"} \cup Groups, ChangeContent(scope)
  PROVE  IInv'
<1>1. /\ changes < MaxChanges /\ changes' = changes + 1
      /\ unsent' = unsent \cup {scope}
      /\ UNCHANGED <<device, disconnects, pending, timer, batches>>
      /\ UNCHANGED socketVars
      /\ fresh' = [e \in Rooms |-> IF e \in {d \in Rooms : Affects(scope, d)} THEN "stale"
                                   ELSE fresh[e]]
  BY DEF ChangeContent, Commit, Stale
<1>0. Commit(scope) BY DEF ChangeContent
<1>2. DevicesOK'
  BY <1>1, TypeParts DEF IInv, DevicesOK
<1>3. NoticesOK' /\ TimerIsSet'
  <2>1. changes' \in 0..MaxChanges
    BY <1>1, TypeParts DEF IInv, NoticesOK
  <2>2. fresh' \in [Rooms -> {"fresh", "stale", "missed"}]
    BY <1>1, TypeParts DEF IInv, NoticesOK
  <2>3. edited' \subseteq SUBSET Users
    BY <1>0, TypeParts DEF Commit, IInv, NoticesOK
  <2> QED
    BY <1>1, <2>1, <2>2, <2>3, TypeParts DEF IInv, NoticesOK, TimerIsSet, Scopes, Users
<1>4. StaleIsDue'
  <2> SUFFICES ASSUME NEW e \in Rooms, Reached(e)', fresh'[e] = "stale"
               PROVE  Due(e)'
    BY DEF StaleIsDue
  <2>1. CASE Affects(scope, e)
    BY <1>1, <2>1 DEF Due, Affects, Scopes, Users
  <2>2. CASE ~Affects(scope, e)
    <3>1. Due(e)
      BY <1>1, <2>2, SameReach DEF IInv, StaleIsDue
    <3> QED  BY <1>0, <1>1, <3>1, NoneIsForgotten DEF Due, Affects
  <2> QED  BY <2>1, <2>2
<1> QED  BY <1>1, <1>2, <1>3, <1>4, OnlyNoticesMove

LEMMA ChangeProgramStep ==
  ASSUME IInv, NEW users \in SUBSET Users, ChangeProgram(users)
  PROVE  IInv'
<1>1. /\ changes < MaxChanges /\ changes' = changes + 1
      /\ edited' = edited \cup {users}
      /\ UNCHANGED <<device, disconnects, unsent, pending, timer, batches>>
      /\ UNCHANGED socketVars
      /\ fresh' = [e \in Rooms |->
           IF e \in {d \in Rooms : \E scope \in users : Affects(scope, d)} THEN "stale"
           ELSE fresh[e]]
  BY DEF ChangeProgram, Stale
<1>2. DevicesOK'
  BY <1>1, TypeParts DEF IInv, DevicesOK
<1>3. NoticesOK' /\ TimerIsSet'
  <2>1. changes' \in 0..MaxChanges
    BY <1>1, TypeParts DEF IInv, NoticesOK
  <2>2. fresh' \in [Rooms -> {"fresh", "stale", "missed"}]
    BY <1>1, TypeParts DEF IInv, NoticesOK
  <2>3. edited' \subseteq SUBSET Users
    BY <1>1, TypeParts DEF IInv, NoticesOK
  <2> QED  BY <1>1, <2>1, <2>2, <2>3, TypeParts DEF IInv, NoticesOK, TimerIsSet
<1>4. StaleIsDue'
  <2> SUFFICES ASSUME NEW e \in Rooms, Reached(e)', fresh'[e] = "stale"
               PROVE  Due(e)'
    BY DEF StaleIsDue
  <2>1. CASE \E scope \in users : Affects(scope, e)
    <3>1. PICK scope \in users : Affects(scope, e)
      BY <2>1
    <3>2. scope \in Scopes /\ scope \in (UNION edited') /\ Affects(scope, e)'
      BY <1>1, <3>1 DEF Scopes, Affects
    <3> QED  BY <3>2 DEF Due
  <2>2. CASE ~\E scope \in users : Affects(scope, e)
    <3>1. Due(e)
      BY <1>1, <2>2, SameReach DEF IInv, StaleIsDue
    <3>2. (UNION edited) \subseteq (UNION edited')
      BY <1>1
    <3> QED  BY <1>1, <3>1, <3>2 DEF Due, Affects
  <2> QED  BY <2>1, <2>2
<1> QED  BY <1>1, <1>2, <1>3, <1>4, OnlyNoticesMove

LEMMA FindUsersStep ==
  ASSUME IInv, NEW users \in edited, FindUsers(users)
  PROVE  IInv'
<1>1. /\ edited' = edited \ {users} /\ pending' = pending \cup users
      /\ timer' = (timer \/ users # {})
      /\ UNCHANGED <<device, disconnects, unsent, batches, fresh, changes>>
      /\ UNCHANGED socketVars
  BY DEF FindUsers
<1>2. DevicesOK' /\ NoticesOK' /\ TimerIsSet'
  <2>1. users \subseteq Scopes /\ timer' \in BOOLEAN
    BY <1>1, TypeParts DEF IInv, NoticesOK, Scopes
  <2> QED  BY <1>1, <2>1, TypeParts DEF IInv, DevicesOK, NoticesOK, TimerIsSet
<1>3. (UNION edited) \cup pending \subseteq (UNION edited') \cup pending'
  BY <1>1
<1>4. StaleIsDue'
  <2> SUFFICES ASSUME NEW e \in Rooms, Reached(e)', fresh'[e] = "stale"
               PROVE  Due(e)'
    BY DEF StaleIsDue
  <2>1. Due(e)
    BY <1>1, SameReach DEF IInv, StaleIsDue
  <2> QED  BY <1>1, <1>3, <2>1 DEF Due, Affects
<1> QED  BY <1>1, <1>2, <1>4, OnlyNoticesMove

LEMMA FindUsersFailsStep ==
  ASSUME IInv, NEW users \in edited, FindUsersFails(users)
  PROVE  IInv'
<1>1. /\ edited' = edited \ {users}
      /\ fresh' = [d \in Rooms |->
           IF fresh[d] = "stale" /\ \E scope \in users : Affects(scope, d)
           THEN "missed" ELSE fresh[d]]
      /\ UNCHANGED <<device, disconnects, unsent, pending, timer, batches, changes>>
      /\ UNCHANGED socketVars
  BY DEF FindUsersFails
<1>2. fresh' \in [Rooms -> {"fresh", "stale", "missed"}]
  BY <1>1, TypeParts DEF IInv, NoticesOK
<1>3. DevicesOK' /\ NoticesOK' /\ TimerIsSet'
  BY <1>1, <1>2, TypeParts DEF IInv, DevicesOK, NoticesOK, TimerIsSet
<1>4. StaleIsDue'
  <2> SUFFICES ASSUME NEW e \in Rooms, Reached(e)', fresh'[e] = "stale"
               PROVE  Due(e)'
    BY DEF StaleIsDue
  <2>1. fresh[e] = "stale" /\ \A scope \in users : ~Affects(scope, e)
    BY <1>1
  <2>2. Due(e)
    BY <1>1, <2>1, SameReach DEF IInv, StaleIsDue
  <2>3. (UNION edited) \subseteq (UNION edited') \cup users
    BY <1>1
  <2> QED  BY <1>1, <2>1, <2>2, <2>3 DEF Due, Affects
<1> QED  BY <1>1, <1>3, <1>4, OnlyNoticesMove

LEMMA EmitStep ==
  ASSUME IInv, NEW scope \in unsent, Emit(scope)
  PROVE  IInv'
<1>1. /\ unsent' = unsent \ {scope} /\ pending' = pending \cup {scope} /\ timer' = TRUE
      /\ UNCHANGED <<device, disconnects, edited, batches, fresh, changes>>
      /\ UNCHANGED socketVars
  BY DEF Emit
<1>2. DevicesOK' /\ NoticesOK' /\ TimerIsSet'
  BY <1>1, TypeParts DEF IInv, DevicesOK, NoticesOK, TimerIsSet
<1>3. unsent' \cup (UNION edited') \cup pending' = unsent \cup (UNION edited) \cup pending
  BY <1>1
<1>4. StaleIsDue'
  <2> SUFFICES ASSUME NEW e \in Rooms, Reached(e)', fresh'[e] = "stale"
               PROVE  Due(e)'
    BY DEF StaleIsDue
  <2>1. Due(e)
    BY <1>1, SameReach DEF IInv, StaleIsDue
  <2> QED  BY <1>1, <1>3, <2>1 DEF Due, Affects
<1> QED  BY <1>1, <1>2, <1>4, OnlyNoticesMove

LEMMA FlushStep ==
  ASSUME IInv, Flush
  PROVE  IInv'
<1> DEFINE batch == [changes |-> pending, connected |-> {d \in Rooms : HostOf(d) # None}]
<1>1. /\ timer' = FALSE /\ pending' = {} /\ batches' = batches \cup {batch}
      /\ UNCHANGED <<device, disconnects, unsent, edited, fresh, changes>>
      /\ UNCHANGED socketVars
  BY DEF Flush
<1>2. batch \in Batch
  BY TypeParts DEF IInv, NoticesOK, Batch
<1>3. batch.changes = pending /\ batch.connected = {d \in Rooms : HostOf(d) # None}
  OBVIOUS
<1> HIDE DEF batch
<1>4. DevicesOK' /\ NoticesOK' /\ TimerIsSet'
  BY <1>1, <1>2, TypeParts DEF IInv, DevicesOK, NoticesOK, TimerIsSet
<1>5. StaleIsDue'
  <2> SUFFICES ASSUME NEW e \in Rooms, Reached(e)', fresh'[e] = "stale"
               PROVE  Due(e)'
    BY DEF StaleIsDue
  <2>1. Due(e) /\ HostOf(e) # None
    BY <1>1, SameReach DEF IInv, StaleIsDue, Reached
  <2>2. PICK scope \in Scopes :
          /\ Affects(scope, e)
          /\ \/ scope \in unsent \cup (UNION edited) \cup pending
             \/ \E b \in batches : e \in b.connected /\ scope \in b.changes
    BY <2>1 DEF Due
  <2>3. Affects(scope, e)'
    BY <1>1, <2>2 DEF Affects
  <2>4. \/ scope \in unsent' \cup (UNION edited')
        \/ \E b \in batches' : e \in b.connected /\ scope \in b.changes
    BY <1>1, <1>3, <2>1, <2>2
  <2> QED  BY <2>2, <2>3, <2>4 DEF Due
<1> QED  BY <1>1, <1>4, <1>5, OnlyNoticesMove

LEMMA NotifyStep ==
  ASSUME IInv, NEW batch \in batches, Notify(batch)
  PROVE  IInv'
<1>1. /\ batches' = batches \ {batch}
      /\ fresh' = [d \in Rooms |-> IF d \in Targets(batch) /\ Reached(d)
                                   THEN "fresh" ELSE fresh[d]]
      /\ UNCHANGED <<device, disconnects, unsent, edited, pending, timer, changes>>
      /\ UNCHANGED socketVars
  BY DEF Notify
<1>2. fresh' \in [Rooms -> {"fresh", "stale", "missed"}]
  BY <1>1, TypeParts DEF IInv, NoticesOK
<1>3. DevicesOK' /\ NoticesOK' /\ TimerIsSet'
  BY <1>1, <1>2, TypeParts DEF IInv, DevicesOK, NoticesOK, TimerIsSet
<1>4. StaleIsDue'
  <2> SUFFICES ASSUME NEW e \in Rooms, Reached(e)', fresh'[e] = "stale"
               PROVE  Due(e)'
    BY DEF StaleIsDue
  <2>1. Reached(e) /\ e \notin Targets(batch) /\ fresh[e] = "stale"
    BY <1>1, SameReach
  <2>2. PICK scope \in Scopes :
          /\ Affects(scope, e)
          /\ \/ scope \in unsent \cup (UNION edited) \cup pending
             \/ \E b \in batches : e \in b.connected /\ scope \in b.changes
    BY <2>1 DEF IInv, StaleIsDue, Due
  <2>3. ~(e \in batch.connected /\ scope \in batch.changes)
    BY <2>1, <2>2 DEF Targets, Affects
  <2>4. Affects(scope, e)'
    BY <1>1, <2>2 DEF Affects
  <2> QED  BY <1>1, <2>2, <2>3, <2>4 DEF Due
<1> QED  BY <1>1, <1>3, <1>4, OnlyNoticesMove

LEMMA NotifyFailsStep ==
  ASSUME IInv, NEW batch \in batches, NotifyFails(batch)
  PROVE  IInv'
<1>1. /\ batches' = batches \ {batch}
      /\ fresh' = [d \in Rooms |-> IF fresh[d] = "stale" THEN "missed" ELSE fresh[d]]
      /\ UNCHANGED <<device, disconnects, unsent, edited, pending, timer, changes>>
      /\ UNCHANGED socketVars
  BY DEF NotifyFails
<1>2. fresh' \in [Rooms -> {"fresh", "stale", "missed"}]
  BY <1>1, TypeParts DEF IInv, NoticesOK
<1>3. DevicesOK' /\ NoticesOK' /\ TimerIsSet'
  BY <1>1, <1>2, TypeParts DEF IInv, DevicesOK, NoticesOK, TimerIsSet
<1>4. StaleIsDue'
  BY <1>1 DEF StaleIsDue
<1> QED  BY <1>1, <1>3, <1>4, OnlyNoticesMove

-----------------------------------------------------------------------------
LEMMA InitHolds ==
  ASSUME Init
  PROVE  IInv
<1>1. /\ sock = [s \in Sockets |-> Out] /\ count = [k \in CountKeys |-> 0]
      /\ known = [d \in Rooms |-> "unknown"] /\ rooms = <<>>
      /\ told = [s \in Sockets |-> "nothing"]
      /\ device = [d \in Rooms |-> [active |-> TRUE, groups |-> Groups,
                                    follows |-> CHOOSE g \in Groups : TRUE]]
      /\ disconnects = {} /\ unsent = {} /\ edited = {} /\ pending = {} /\ timer = FALSE /\ batches = {}
      /\ fresh = [d \in Rooms |-> "fresh"] /\ changes = 0
  BY DEF Init
<1>2. Out \in SockRow /\ Out.step = "out" /\ Out.role = None
  BY DEF Out, SockRow, Steps
<1>3. (CHOOSE g \in Groups : TRUE) \in Groups
  OBVIOUS
<1>4. DOMAIN rooms = {} /\ rooms \in [DOMAIN rooms -> RoomRecord]
  BY <1>1
<1>5. \A k \in CountKeys : Limit(k) \in Nat
  BY DEF Limit
<1>6. SockOK /\ CountOK /\ RoomsOK /\ SocketsOK
  BY <1>1, <1>2, <1>4, <1>5 DEF SockOK, CountOK, RoomsOK, SocketsOK
<1>7. NoticesOK /\ DevicesOK
  <2>1. 0 \in 0..MaxChanges
    OBVIOUS
  <2> QED  BY <1>1, <1>3, <2>1 DEF NoticesOK, DevicesOK
<1>8. FinitelyMany
  <2>1. Arrived = {}
    BY <1>1, <1>2 DEF Arrived
  <2> QED  BY <2>1, FS_EmptySet DEF FinitelyMany
<1>9. HoldersAreCounted
  <2>1. \A k \in CountKeys : Holders(k) = {}
    BY <1>1, <1>2 DEF Holders, Ended
  <2>2. \A k \in CountKeys : Cardinality(Holders(k)) = 0
    BY <2>1, FS_EmptySet
  <2> QED  BY <1>1, <2>2 DEF HoldersAreCounted
<1>10. RequestsFit
  BY <1>1, <1>2 DEF RequestsFit
<1>11. AboutRooms
  BY <1>1, <1>2, <1>4 DEF AboutRooms, RoomRecords, MembersFit, PlayersAreIn, AdmittedIsHost,
                          PlayersKnowHost, NoGhosts
<1>12. TimerIsSet /\ StaleIsDue
  BY <1>1 DEF TimerIsSet, StaleIsDue
<1> QED  BY <1>6, <1>7, <1>8, <1>9, <1>10, <1>11, <1>12, TypeParts DEF IInv, AboutRooms

LEMMA NextKeeps ==
  ASSUME IInv, [Next]_vars
  PROVE  IInv'
<1>1. ASSUME NEW s \in Sockets, NEW role \in {"host", "player"}, NEW ip \in Ips,
             NEW room \in Rooms \cup {None}, Upgrade(s, role, ip, room)
      PROVE  IInv'
  BY <1>1, UpgradeStep
<1>2. ASSUME NEW s \in Sockets,
             \/ LookUp(s) \/ LeaveEarly(s) \/ NotAccepted(s) \/ HandshakeFails(s)
             \/ AcceptPlayer(s) \/ AcceptHost(s) \/ FirstMessage(s) \/ ReadToken(s)
             \/ TurnAway(s) \/ Admit(s) \/ BeginClose(s) \/ Closed(s)
      PROVE  IInv'
  BY <1>2, LookUpStep, PlainSteps, NotAcceptedStep, AcceptPlayerStep, ReadTokenStep,
     TurnAwayStep, AdmitStep, BeginCloseStep, ClosedStep
<1>3. ASSUME NEW d \in Rooms, \/ Forget(d) \/ EditDevice(d) \/ Disconnect(d)
                              \/ \E active \in BOOLEAN : Revoke(d, active)
      PROVE  IInv'
  BY <1>3, ForgetStep, EditDeviceStep, DisconnectStep, RevokeStep
<1>4. ASSUME NEW scope \in {"ALL"} \cup Groups, ChangeContent(scope)
      PROVE  IInv'
  BY <1>4, ChangeContentStep
<1>5. ASSUME NEW scope \in unsent, Emit(scope)
      PROVE  IInv'
  BY <1>5, EmitStep
<1>9. ASSUME NEW users \in SUBSET Users, ChangeProgram(users)
      PROVE  IInv'
  BY <1>9, ChangeProgramStep
<1>10. ASSUME NEW users \in edited, FindUsers(users) \/ FindUsersFails(users)
       PROVE  IInv'
  BY <1>10, FindUsersStep, FindUsersFailsStep
<1>6. CASE Flush
  BY <1>6, FlushStep
<1>7. ASSUME NEW batch \in batches, Notify(batch) \/ NotifyFails(batch)
      PROVE  IInv'
  BY <1>7, NotifyStep, NotifyFailsStep
<1>8. CASE UNCHANGED vars
  <2>1. UNCHANGED socketVars /\ UNCHANGED noticeVars /\ UNCHANGED <<device, disconnects>>
    BY <1>8 DEF vars
  <2>2. DevicesOK'
    BY <2>1, TypeParts DEF IInv, DevicesOK
  <2>3. \A d \in Rooms : Reached(d)' => Reached(d)
    BY <2>1, SameReach
  <2>4. NoticesOK' /\ TimerIsSet' /\ StaleIsDue'
    BY <2>1, <2>3, NoticesStay
  <2> QED  BY <2>1, <2>2, <2>4, OnlyNoticesMove
<1> QED  BY <1>1, <1>2, <1>3, <1>4, <1>5, <1>6, <1>7, <1>8, <1>9, <1>10 DEF Next

(* The invariant holds in every reachable state.                           *)
LEMMA Invariant == Spec => []IInv
<1>1. Init => IInv
  BY InitHolds
<1>2. IInv /\ [Next]_vars => IInv'
  BY NextKeeps
<1> QED  BY <1>1, <1>2, PTL DEF Spec

-----------------------------------------------------------------------------
(* Through replaced hosts and late close events, for any number of         *)
(* connections and devices, the rooms of GameRelay and the sockets in them *)
(* agree: an admitted TV is the host of its room until its own connection  *)
(* closes, players know whether there is one, and a room is open exactly   *)
(* as long as somebody is in it.                                           *)
THEOREM RoomsAgreeAlways == Spec => []RoomsAgree
<1>1. IInv => RoomsAgree
  BY DEF IInv, RoomsAgree
<1> QED  BY <1>1, Invariant, PTL

(* ConnectionCounter keeps its promise: never more connections of one      *)
(* address, to all rooms or to one, than RELAY_LIMITS allows, though a     *)
(* connection is counted before its room has been looked up.               *)
THEOREM LimitsHold == Spec => []AddressLimits
<1>1. ASSUME IInv, NEW k \in CountKeys, NEW S \in SUBSET Holders(k)
      PROVE  Cardinality(S) <= Limit(k)
  <2>1. IsFiniteSet(Holders(k)) /\ Cardinality(Holders(k)) \in Nat
        /\ Cardinality(Holders(k)) <= count[k]
    BY <1>1, HoldersFinite DEF IInv, HoldersAreCounted
  <2>2. Cardinality(S) \in Nat /\ Cardinality(S) <= Cardinality(Holders(k))
    BY <2>1, FS_Subset, FS_CardinalityType
  <2>3. count[k] \in 0..Limit(k)
    BY <1>1, TypeParts DEF IInv, CountOK, HoldersAreCounted
  <2>4. Limit(k) \in Nat
    BY DEF Limit
  <2> QED  BY <2>1, <2>2, <2>3, <2>4
<1>2. IInv => AddressLimits
  <2> SUFFICES ASSUME IInv, NEW ip \in Ips
               PROVE  LET of == {s \in Clients : sock[s].ip = ip} IN
                      /\ Cardinality(of) <= MaxPerIp
                      /\ \A d \in Rooms :
                           Cardinality({s \in of : sock[s].room = d}) <= MaxPerIpPerRoom
    BY DEF AddressLimits
  <2> DEFINE of == {s \in Clients : sock[s].ip = ip}
  <2>1. of \subseteq Holders(<<ip>>)
    BY DEF Clients, Live, Holders, Ended, Keys
  <2>2. <<ip>> \in CountKeys /\ Limit(<<ip>>) = MaxPerIp
    <3>1. <<ip>> \in Keys(ip, None)
      BY DEF Keys
    <3>2. Len(<<ip>>) = 1
      OBVIOUS
    <3>3. Keys(ip, None) \subseteq CountKeys
      BY DEF CountKeys
    <3> QED  BY <3>1, <3>2, <3>3 DEF Limit
  <2>3. ASSUME NEW d \in Rooms
        PROVE  Cardinality({s \in of : sock[s].room = d}) <= MaxPerIpPerRoom
    <3>1. {s \in of : sock[s].room = d} \subseteq Holders(<<ip, d>>)
      BY DEF Clients, Live, Holders, Ended, Keys
    <3>2. <<ip, d>> \in CountKeys /\ Limit(<<ip, d>>) = MaxPerIpPerRoom
      <4>1. <<ip, d>> \in Keys(ip, d)
        BY DEF Keys
      <4>2. Len(<<ip, d>>) = 2
        OBVIOUS
      <4>3. Keys(ip, d) \subseteq CountKeys
        BY DEF CountKeys
      <4> QED  BY <4>1, <4>2, <4>3 DEF Limit
    <3> QED  BY <1>1, <3>1, <3>2
  <2> QED  BY <1>1, <2>1, <2>2, <2>3
<1> QED  BY <1>2, Invariant, PTL

(* When DeviceControlService has nothing left to send, every connected TV  *)
(* has been told of every change that concerns it, unless a flush failed   *)
(* or the users of a changed program could not be looked up, whatever      *)
(* changed while batches or lookups were on their way.                     *)
THEOREM ConnectedAreTold == Spec => []QuietMeansTold
<1>1. IInv => QuietMeansTold
  BY DEF IInv, QuietMeansTold, StaleIsDue, TimerIsSet, Due
<1> QED  BY <1>1, Invariant, PTL

=============================================================================
