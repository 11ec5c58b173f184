------------------------------ MODULE Playlist ------------------------------
(***************************************************************************)
(* What a TV is told to show.  A poll authenticates, which reads the       *)
(* device row, reads the lineup, the submissions and the live layers of    *)
(* the device, then what they refer to, and is answered with the content   *)
(* or, when its hash is still the one the TV has, with 304.  None of it is *)
(* a transaction: administrators act between any two of the reads.         *)
(***************************************************************************)
EXTENDS Signage, SequencesExt

(* The target groups are the rows of a table; "SUBMISSION" marks what is   *)
(* not a program.                                                          *)
ASSUME PlaylistConstantsOK ==
  IsFiniteSet(Groups) /\ "SUBMISSION" \notin Programs \cup {None}

VARIABLES
  airing,  \* whether the submission is approved, in its period and READY
  polls,   \* per device: the poll in flight
  screen,  \* per device: the content it was last sent
  calm     \* history: the configuration has not changed since the poll began

tvVars == <<airing, polls, screen, calm>>
allVars == <<vars, tvVars>>

NoPoll   == [step |-> "none"]
NoScreen == [step |-> "dark"]

-----------------------------------------------------------------------------
(* Pure functions of the configuration.                                    *)

(* resolveSettings and resolveLineup, with the blocks left out dropped.    *)
ResolvedBar(lineup, overrides) ==
  IF overrides.bar = None THEN lineup.bar ELSE overrides.bar
ResolvedBlocks(lineup, overrides) ==
  Restrict(lineup.blocks, DOMAIN lineup.blocks \ overrides.off)

(* No target group means every device.                                     *)
TargetsDevice(member) == Targeted = {} \/ Targeted \cap member # {}

MainAlive(layer)  == layer.main # None /\ "main" \notin layer.over
AlertAlive(layer) == layer.alert /\ "alert" \notin layer.over

(* effectiveFor: the device's own layer first, then those of its groups,   *)
(* newest first.  Rows set at the same time come in any order.             *)
NewestFirst(order) ==
  \A i, j \in DOMAIN order : i < j => live[order[i]].setAt >= live[order[j]].setAt

Layers(d, member) ==
  LET orders == SetToSeqs({g \in member : live[g] # NoLive}) IN
  {[i \in 1..Len(order) + 1 |-> live[IF i = 1 THEN d ELSE order[i - 1]]] :
     order \in {o \in orders : NewestFirst(o)}}

(* resolveLive: main and alert are each taken from the first layer with one*)
ResolveLive(layers) ==
  LET main  == SelectInSeq(layers, MainAlive)
      alert == SelectInSeq(layers, AlertAlive)
  IN [main  |-> IF main = 0 THEN None ELSE layers[main].main,
      alert |-> alert # 0]

-----------------------------------------------------------------------------
(* A poll.                                                                 *)

(* The reads of Promise.all; that of the layers follows that of the groups *)
(* of the device.                                                          *)
Reads == {"settings", "blocks", "items", "groups"}

Begun(row) ==
  [step |-> "reads", row |-> row, todo |-> Reads, bar |-> {}, blocks |-> <<>>,
   item |-> FALSE, member |-> {}, live |-> [main |-> None, alert |-> FALSE],
   main |-> None]

(* DeviceAuthGuard puts the row it found into the request.                 *)
StartPoll(d) ==
  /\ polls[d] = NoPoll
  /\ devices[d].active
  /\ polls' = [polls EXCEPT ![d] = Begun(devices[d])]
  /\ calm' = [calm EXCEPT ![d] = TRUE]
  /\ UNCHANGED <<vars, airing, screen>>

(* One of the reads comes back, in any order.                              *)
ComesBack(d, read, poll) ==
  /\ polls[d].step = "reads" /\ read \in polls[d].todo
  /\ polls' = [polls EXCEPT ![d] = [poll EXCEPT !.todo = @ \ {read}]]
  /\ UNCHANGED <<vars, airing, screen, calm>>

(* The group to follow and the exceptions are those of the row.            *)
ReadSettings(d) ==
  LET row == polls[d].row
  IN ComesBack(d, "settings", [polls[d] EXCEPT
       !.bar = ResolvedBar(lineups[row.follows], row.overrides)])

ReadBlocks(d) ==
  LET row == polls[d].row
  IN ComesBack(d, "blocks", [polls[d] EXCEPT
       !.blocks = ResolvedBlocks(lineups[row.follows], row.overrides)])

ReadItems(d) ==
  ComesBack(d, "items", [polls[d] EXCEPT
    !.item = airing /\ TargetsDevice(devices[d].groups)])

ReadGroups(d) ==
  ComesBack(d, "groups", [polls[d] EXCEPT
    !.member = devices[d].groups, !.todo = @ \cup {"layers"}])

ReadLayers(d) ==
  /\ polls[d].step = "reads"
  /\ \E layers \in Layers(d, polls[d].member) :
       ComesBack(d, "layers", [polls[d] EXCEPT !.live = ResolveLive(layers)])

Shown(main, there) == IF main = "SUBMISSION" /\ ~there THEN None ELSE main

(* The submission that live shows is read again unless it is an item, and  *)
(* carried for any device, if it is on air.                                *)
ReadShown(d) ==
  LET poll == polls[d]
      item == poll.item \/ (airing /\ poll.live.main = "SUBMISSION")
  IN /\ poll.step = "reads" /\ poll.todo = {}
     /\ polls' = [polls EXCEPT ![d] = [poll EXCEPT
          !.step = "gathered", !.item = item,
          !.main = Shown(poll.live.main, item)]]
     /\ UNCHANGED <<vars, airing, screen, calm>>

ShownProgram(main, carried) ==
  IF main \in Programs /\ main \notin carried THEN None ELSE main

(* A program that live shows and that is gone is taken down.               *)
Content(d) ==
  LET poll == polls[d]
      refs == (poll.bar \cup Range(poll.blocks) \cup {poll.main}) \cap Programs
      carried == {p \in refs : Exists(p)}
  IN [step     |-> "lit",
      bar      |-> poll.bar,
      blocks   |-> poll.blocks,
      item     |-> poll.item,
      programs |-> [p \in carried |-> programs[p]],
      live     |-> [main  |-> ShownProgram(poll.main, carried),
                    alert |-> poll.live.alert]]

(* versionOf is a hash of the whole content, taken to have no collisions.  *)
VersionOf_NamesOnly(content) ==
  IF content = NoScreen THEN content
  ELSE [content EXCEPT !.programs = DOMAIN content.programs]
VersionOf(content) == content

(* The programs are read, the last of the reads.                           *)
Answer(d) ==
  /\ polls[d].step = "gathered"
  /\ screen' = [screen EXCEPT ![d] =
       IF VersionOf(Content(d)) = VersionOf(@) THEN @ ELSE Content(d)]
  /\ polls' = [polls EXCEPT ![d] = NoPoll]
  /\ UNCHANGED <<vars, airing, calm>>

-----------------------------------------------------------------------------
(* The rest of the system.                                                 *)

Disturb == calm' = [d \in Devices |-> FALSE] /\ UNCHANGED <<polls, screen>>

ConfigChanges == Next /\ Disturb /\ UNCHANGED airing

(* The submission is suspended or its period ends.                         *)
GoesOffAir == airing /\ airing' = FALSE /\ Disturb /\ UNCHANGED vars

(* Every group and program has been made: what TVs meet is that they change*)
(* and go.                                                                 *)
PlaylistInit ==
  /\ Init
  /\ \A g \in Groups : groups[g] = "shown"
  /\ \A p \in Programs : programs[p] = "made"
  /\ airing = TRUE
  /\ polls = [d \in Devices |-> NoPoll]
  /\ screen = [d \in Devices |-> NoScreen]
  /\ calm = [d \in Devices |-> FALSE]

PlaylistNext ==
  \/ ConfigChanges \/ GoesOffAir
  \/ \E d \in Devices :
       \/ StartPoll(d) \/ ReadSettings(d) \/ ReadBlocks(d) \/ ReadItems(d)
       \/ ReadGroups(d) \/ ReadLayers(d) \/ ReadShown(d) \/ Answer(d)

PlaylistSpec == PlaylistInit /\ [][PlaylistNext]_allVars

-----------------------------------------------------------------------------
(* Properties.                                                             *)

(* The rules in the words of the API: a part of live comes from the device *)
(* if it has one that is not over, else from that group of the device for  *)
(* which it was set last; what is gone is not shown.                       *)
HasMain(scope)  == live[scope].main # None /\ "main" \notin live[scope].over
HasAlert(scope) == live[scope].alert /\ "alert" \notin live[scope].over

RulingScopes(d) ==
  IF HasMain(d) THEN {d}
  ELSE {g \in devices[d].groups :
          HasMain(g) /\ \A h \in devices[d].groups :
                           HasMain(h) => live[h].setAt <= live[g].setAt}

(* What live may show: more than one thing only if two groups' were set at *)
(* the same time.                                                          *)
RuledMains(d) ==
  IF \A scope \in {d} \cup devices[d].groups : ~HasMain(scope) THEN {None}
  ELSE {IF \/ live[s].main = "SUBMISSION" /\ airing
           \/ live[s].main \in Programs /\ Exists(live[s].main)
        THEN live[s].main ELSE None : s \in RulingScopes(d)}

IsExact(content, d) ==
  LET lineup == lineups[devices[d].follows]
      own    == devices[d].overrides
      main   == content.live.main
  IN /\ main \in RuledMains(d)
     /\ content.live.alert = \E s \in {d} \cup devices[d].groups : HasAlert(s)
     /\ content.bar = (IF own.bar # None THEN own.bar ELSE lineup.bar)
     /\ \A b \in BlockIds :
          IF b \in DOMAIN lineup.blocks /\ b \notin own.off
          THEN /\ b \in DOMAIN content.blocks
               /\ content.blocks[b] = lineup.blocks[b]
          ELSE b \notin DOMAIN content.blocks
     /\ content.item <=>
          airing /\ \/ \A g \in Groups : g \notin Targeted
                    \/ \E g \in Targeted : g \in devices[d].groups
                    \/ main = "SUBMISSION"
     /\ \A p \in Programs :
          IF p \in content.bar \cup Range(content.blocks) \cup {main}
          THEN p \in DOMAIN content.programs /\ content.programs[p] = programs[p]
          ELSE p \notin DOMAIN content.programs

(* A poll during which nothing changed leaves on the screen exactly what   *)
(* the rules say, also when it is answered 304, and whatever mixture of    *)
(* old and new the polls before it left there (resolveLive, resolveLineup, *)
(* targetsDevice, versionOf).                                              *)
CalmPollIsExact ==
  \A d \in Devices : (calm[d] /\ polls[d] = NoPoll) => IsExact(screen[d], d)

=============================================================================
