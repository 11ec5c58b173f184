------------------------------ MODULE Signage ------------------------------
(***************************************************************************)
(* What the TVs are configured with: target groups and the lineup of each, *)
(* the programs (operational contents) that lineups and device exceptions  *)
(* point at, the devices, and the live overrides laid over everything.     *)
(*                                                                         *)
(* Administrators' requests interleave.  A request reads outside its       *)
(* transaction, then takes row locks in the order of its statements; a row *)
(* lock is the step its holder has reached.  Only the reference from a     *)
(* block to its program and those to groups are foreign keys: an info bar  *)
(* is jsonb, and a live row names its target and its program in plain text.*)
(***************************************************************************)
EXTENDS Integers, FiniteSets, Functions

CONSTANTS
  Groups,       \* ids a target group may be given
  Programs,     \* ids a program may be given
  BarPrograms,  \* those of a type that has an infoBarItem
  Devices,
  BlockIds,     \* ids newBlockId may return, each once
  Admins,       \* sessions of administrators
  Targeted,     \* the target groups of the one submission there is
  None,         \* a field that is not sent, a reference that is null
  MaxRequests   \* BOUND on the requests the administrators make

(* There is a block id for every group, so that each may start with one;   *)
(* "SUBMISSIONS" marks a block that shows no program.                      *)
ASSUME SignageConstantsOK ==
  /\ BarPrograms \subseteq Programs
  /\ Targeted \subseteq Groups
  /\ None \notin Groups \cup Programs \cup BlockIds
  /\ "SUBMISSIONS" \notin Programs
  /\ \E f \in [Groups -> BlockIds] : IsInjective(f)
  /\ MaxRequests \in Nat

VARIABLES
  groups,    \* target_groups: "absent", "shown", "hidden" or "gone"
  lineups,   \* group_lineups with the lineup_blocks of the group
  programs,  \* programs: "absent", "made", "edited" or "gone"
  devices,   \* devices with device_target_groups and lineup_overrides
  live,      \* live_states
  issued,    \* block ids that were given to a block
  requests,  \* per administrator: the request in flight
  asked      \* how many requests were made; the time as the server sees it

vars == <<groups, lineups, programs, devices, live, issued, requests, asked>>

-----------------------------------------------------------------------------
(* The tables.                                                             *)

SubmissionsSource == "SUBMISSIONS"
Sources == Programs \cup {SubmissionsSource}

(* blocks: what each block shows, a program or submissions of a type.      *)
BlockMaps == UNION {[D -> Sources] : D \in SUBSET BlockIds}
Lineup   == [version : Nat, bar : SUBSET BarPrograms, blocks : BlockMaps]
NoLineup == [version |-> 0, bar |-> {}, blocks |-> <<>>]

(* A device's exceptions.  bar: None keeps the info bar of the group.  off:*)
(* the blocks this device leaves out.                                      *)
Overrides   == [bar : (SUBSET BarPrograms) \cup {None}, off : SUBSET BlockIds]
NoOverrides == [bar |-> None, off |-> {}]

Device == [follows : Groups \cup {None}, groups : SUBSET Groups,
           overrides : Overrides, active : BOOLEAN]
NoDevice == [follows |-> None, groups |-> {}, overrides |-> NoOverrides,
             active |-> FALSE]

(* over: the parts whose until has passed.  They stay in the row.          *)
Shows == Programs \cup {"SUBMISSION"}
Layer == [main : Shows \cup {None}, alert : BOOLEAN,
          over : SUBSET {"main", "alert"}, setAt : Nat]
NoLive == [main |-> None, alert |-> FALSE, over |-> {}, setAt |-> 0]
Scopes == Devices \cup Groups

Exists(p) == programs[p] \in {"made", "edited"}
GroupExists(g) == groups[g] \in {"shown", "hidden"}

(* Where a program is used: blocks, info bars of groups and of devices.    *)
ProgramsOf(lineup) ==
  (lineup.bar \cup Range(lineup.blocks)) \ {SubmissionsSource}

BarOf(overrides) == IF overrides.bar = None THEN {} ELSE overrides.bar

UsedBy(p) == \/ \E g \in Groups : p \in ProgramsOf(lineups[g])
             \/ \E d \in Devices : p \in BarOf(devices[d].overrides)

-----------------------------------------------------------------------------
(* Row locks, as the steps their holders have reached.                     *)

Idle == [op |-> "idle"]

(* FOR UPDATE on group_lineups, from the first statement to the commit.    *)
LineupLocked(g) ==
  \E c \in Admins : /\ requests[c].op = "replace"
                    /\ requests[c].step # "open"
                    /\ requests[c].group = g

(* FOR KEY SHARE on the programs a checked input refers to.                *)
KeyShared(p) ==
  \E c \in Admins : /\ requests[c].op \in {"replace", "patch"}
                    /\ requests[c].step = "checked"
                    /\ p \in requests[c].refs

(* FOR UPDATE on the program that is being removed.                        *)
LockedForUpdate(p) ==
  \E c \in Admins : requests[c].op = "remove" /\ requests[c].program = p

MayKeyShare_Unlocked(refs) == TRUE
MayKeyShare(refs) == \A p \in refs : ~LockedForUpdate(p)

(* checkPrograms: every reference exists and fits where it is put.         *)
ProgramsOK(refs, bar) == (\A p \in refs : Exists(p)) /\ bar \subseteq BarPrograms

-----------------------------------------------------------------------------
(* Requests.                                                               *)

Ask(c, request) ==
  /\ requests[c] = Idle
  /\ asked < MaxRequests
  /\ asked' = asked + 1
  /\ requests' = [requests EXCEPT ![c] = request]

Continue(c, request) ==
  requests' = [requests EXCEPT ![c] = request] /\ UNCHANGED asked

Refuse(c) ==
  /\ Continue(c, Idle)
  /\ UNCHANGED <<groups, lineups, programs, devices, live, issued>>

(* A request that is one transaction with no reads before it.              *)
AtOnce(c) == requests[c] = Idle /\ asked < MaxRequests /\ asked' = asked + 1
             /\ UNCHANGED requests

-----------------------------------------------------------------------------
(* Target groups.                                                          *)

(* BOUND: the database never runs out of ids, a finite BlockIds may.       *)
IdsLeft == issued # BlockIds
NewBlockId == CHOOSE b \in BlockIds : b \notin issued

DefaultLineup(b) ==
  [version |-> 1, bar |-> {},
   blocks |-> [id \in {b} |-> SubmissionsSource]]

(* A new group comes with its default lineup, in one transaction.          *)
CreateGroup(c, g) ==
  /\ AtOnce(c)
  /\ groups[g] = "absent"
  /\ IdsLeft
  /\ lineups' = [lineups EXCEPT ![g] = DefaultLineup(NewBlockId)]
  /\ issued' = issued \cup {NewBlockId}
  /\ groups' = [groups EXCEPT ![g] = "shown"]
  /\ UNCHANGED <<programs, devices, live>>

HideOrShowGroup(c, g) ==
  /\ AtOnce(c)
  /\ GroupExists(g)
  /\ groups' = [groups EXCEPT ![g] = IF @ = "shown" THEN "hidden" ELSE "shown"]
  /\ UNCHANGED <<lineups, programs, devices, live, issued>>

UsageOf(g) == {d \in Devices : g \in devices[d].groups \/ g = devices[d].follows}

(* The group row is held FOR UPDATE while its uses are counted; the lineup *)
(* goes by cascade, which waits for a replacement in flight; the live row  *)
(* of the group is deleted by hand.                                        *)
RemoveGroup(c, g) ==
  /\ AtOnce(c)
  /\ GroupExists(g)
  /\ ~LineupLocked(g)
  /\ UsageOf(g) = {} /\ g \notin Targeted
  /\ groups' = [groups EXCEPT ![g] = "gone"]
  /\ lineups' = [lineups EXCEPT ![g] = NoLineup]
  /\ live' = [live EXCEPT ![g] = NoLive]
  /\ UNCHANGED <<programs, devices, issued>>

-----------------------------------------------------------------------------
(* Lineups: GET, then PUT of the whole lineup under the version it had.    *)

OpenLineup(c, g) ==
  /\ GroupExists(g)
  /\ Ask(c, [op |-> "replace", step |-> "open", group |-> g,
             seen |-> lineups[g]])
  /\ UNCHANGED <<groups, lineups, programs, devices, live, issued>>

(* What an editor may send: blocks with an id it has met, which it leaves  *)
(* as they were, at most one new block, and an info bar.                   *)
Kept(seen) == {[b \in D |-> IF b \in DOMAIN seen.blocks THEN seen.blocks[b]
                            ELSE SubmissionsSource] : D \in SUBSET issued}
Drafts(seen) == [kept : Kept(seen), new : Sources \cup {None},
                 bar : SUBSET BarPrograms]

DraftRefs(draft) == (draft.bar \cup Range(draft.kept) \cup {draft.new})
                      \ {SubmissionsSource, None}

BlockIdsOK_Any(draft, g) == TRUE
BlockIdsOK(draft, g) == DOMAIN draft.kept \subseteq DOMAIN lineups[g].blocks

VersionMatches_Unchecked(request) == TRUE
VersionMatches(request) == request.seen.version = lineups[request.group].version

(* The lineup row is locked; the version and the block ids are checked.    *)
LockLineup(c) ==
  LET r == requests[c] IN
  /\ r.op = "replace" /\ r.step = "open"
  /\ ~LineupLocked(r.group)
  /\ \E draft \in Drafts(r.seen) :
       IF GroupExists(r.group) /\ VersionMatches(r) /\ BlockIdsOK(draft, r.group)
       THEN /\ Continue(c, [op |-> "replace", step |-> "locked",
                            group |-> r.group, seen |-> r.seen, draft |-> draft])
            /\ UNCHANGED <<groups, lineups, programs, devices, live, issued>>
       ELSE Refuse(c)

CheckPrograms(c) ==
  LET r == requests[c]
      refs == DraftRefs(r.draft)
  IN /\ r.op = "replace" /\ r.step = "locked"
     /\ MayKeyShare(refs)
     /\ IF ProgramsOK(refs, r.draft.bar)
        THEN /\ Continue(c, [op |-> "replace", step |-> "checked",
                             group |-> r.group, seen |-> r.seen,
                             draft |-> r.draft, refs |-> refs])
             /\ UNCHANGED <<groups, lineups, programs, devices, live, issued>>
        ELSE Refuse(c)

(* Every block is deleted and inserted again; an id the server gives a new *)
(* block is one it never gave before.                                      *)
CommitLineup(c) ==
  LET r == requests[c] IN
  /\ r.op = "replace" /\ r.step = "checked"
  /\ r.draft.new # None => IdsLeft
  /\ LET added == IF r.draft.new = None THEN {} ELSE {NewBlockId} IN
     /\ lineups' = [lineups EXCEPT ![r.group] =
          [version |-> @.version + 1, bar |-> r.draft.bar,
           blocks |-> [b \in DOMAIN r.draft.kept \cup added |->
                         IF b \in added THEN r.draft.new ELSE r.draft.kept[b]]]]
     /\ issued' = issued \cup added
  /\ Continue(c, Idle)
  /\ UNCHANGED <<groups, programs, devices, live>>

-----------------------------------------------------------------------------
(* Programs.                                                               *)

CreateProgram(c, p) ==
  /\ AtOnce(c)
  /\ programs[p] = "absent"
  /\ programs' = [programs EXCEPT ![p] = "made"]
  /\ UNCHANGED <<groups, lineups, devices, live, issued>>

(* The UPDATE waits for a removal that holds the row.                      *)
EditProgram(c, p) ==
  /\ AtOnce(c)
  /\ Exists(p) /\ ~LockedForUpdate(p)
  /\ programs' = [programs EXCEPT ![p] = "edited"]
  /\ UNCHANGED <<groups, lineups, devices, live, issued>>

LockProgram(c, p) ==
  /\ Exists(p)
  /\ ~LockedForUpdate(p) /\ ~KeyShared(p)
  /\ Ask(c, [op |-> "remove", program |-> p])
  /\ UNCHANGED <<groups, lineups, programs, devices, live, issued>>

RemoveProgram(c) ==
  LET p == requests[c].program IN
  /\ requests[c].op = "remove"
  /\ IF UsedBy(p)
     THEN Refuse(c)
     ELSE /\ programs' = [programs EXCEPT ![p] = "gone"]
          /\ Continue(c, Idle)
          /\ UNCHANGED <<groups, lineups, devices, live, issued>>

-----------------------------------------------------------------------------
(* Devices: PATCH with some of the fields.                                 *)

Field(sent, stored) == IF sent = None THEN stored ELSE sent

(* The inputs: one field, or the groups together with the one to follow.   *)
Exceptions == [bar : (SUBSET BarPrograms) \cup {None},
               off : {{}} \cup {{b} : b \in issued}]
NoPatch == [follows |-> None, groups |-> None, overrides |-> None,
            active |-> None]
Patches ==
       [follows : Groups \cup {None}, groups : (SUBSET Groups) \cup {None},
        overrides : {None}, active : {None}]
  \cup [follows : {None}, groups : {None}, overrides : Exceptions, active : {None}]
  \cup [follows : {None}, groups : {None}, overrides : {None}, active : BOOLEAN]

(* assertProgramGroupIn and assertGroups, on the row and groups just read; *)
(* a hidden group may stay but not be added.                               *)

PatchOK(patch, device) ==
  LET member == Field(patch.groups, device.groups) IN
  /\ Field(patch.follows, device.follows) \in member
  /\ \A g \in member \ device.groups : groups[g] = "shown"

(* Registration: the groups are checked, then the row and its memberships  *)
(* are inserted; without programGroupId the first group is followed.       *)
CheckRegistration(c, d) ==
  \E G \in SUBSET Groups : \E g \in G :
    /\ devices[d] = NoDevice
    /\ \A h \in G : groups[h] = "shown"
    /\ Ask(c, [op |-> "register", device |-> d, follows |-> g, groups |-> G])
    /\ UNCHANGED <<groups, lineups, programs, devices, live, issued>>

RegisterDevice(c) ==
  LET r == requests[c] IN
  /\ r.op = "register"
  /\ IF devices[r.device] = NoDevice /\ \A g \in r.groups : GroupExists(g)
     THEN /\ devices' = [devices EXCEPT ![r.device] =
               [follows |-> r.follows, groups |-> r.groups,
                overrides |-> NoOverrides, active |-> TRUE]]
          /\ Continue(c, Idle)
          /\ UNCHANGED <<groups, lineups, programs, live, issued>>
     ELSE Refuse(c)

ReadDevice(c, d) ==
  \E patch \in Patches :
    /\ devices[d] # NoDevice
    /\ patch # NoPatch
    /\ PatchOK(patch, devices[d])
    /\ Ask(c, [op |-> "patch", step |-> "read", device |-> d, patch |-> patch,
               seen |-> devices[d]])
    /\ UNCHANGED <<groups, lineups, programs, devices, live, issued>>

Pruned(overrides, ids) == [overrides EXCEPT !.off = @ \cap ids]

(* prepareOverrides, in the transaction that writes the device.            *)
PrepareOverrides(c) ==
  LET r == requests[c]
      follows   == Field(r.patch.follows, r.seen.follows)
      overrides == Field(r.patch.overrides, r.seen.overrides)
      refs      == BarOf(overrides)
  IN /\ r.op = "patch" /\ r.step = "read"
     /\ MayKeyShare(refs)
     /\ IF ProgramsOK(refs, refs)
        THEN /\ Continue(c, [op |-> "patch", step |-> "checked",
                             device |-> r.device, patch |-> r.patch, refs |-> refs,
                             seen |-> r.seen,
                             overrides |-> Pruned(overrides,
                               DOMAIN lineups[follows].blocks)])
             /\ UNCHANGED <<groups, lineups, programs, devices, live, issued>>
        ELSE Refuse(c)

Referenced(patch) ==
  Field(patch.groups, {}) \cup (IF patch.follows = None THEN {} ELSE {patch.follows})

(* Fields that were not sent keep their stored value, except overrides,    *)
(* which are written as they were read.  Foreign keys guard the groups.    *)
WriteDevice(c) ==
  LET r == requests[c] IN
  /\ r.op = "patch" /\ r.step = "checked"
  /\ IF \A g \in Referenced(r.patch) : GroupExists(g)
     THEN /\ devices' = [devices EXCEPT ![r.device] =
               [follows   |-> Field(r.patch.follows, @.follows),
                groups    |-> Field(r.patch.groups, @.groups),
                overrides |-> r.overrides,
                active    |-> Field(r.patch.active, @.active)]]
          /\ Continue(c, Idle)
          /\ UNCHANGED <<groups, lineups, programs, live, issued>>
     ELSE Refuse(c)

-----------------------------------------------------------------------------
(* Live overrides of a device or of a group.                               *)

TargetExists(scope) == IF scope \in Groups THEN GroupExists(scope)
                       ELSE devices[scope] # NoDevice

CheckLive(c, scope) ==
  \E main \in Shows \cup {None}, alert \in BOOLEAN :
    /\ main # None \/ alert
    /\ TargetExists(scope)
    /\ main \in Programs => Exists(main)
    /\ Ask(c, [op |-> "live", scope |-> scope,
               value |-> [main |-> main, alert |-> alert, over |-> {},
                          setAt |-> asked + 1]])
    /\ UNCHANGED <<groups, lineups, programs, devices, live, issued>>

(* An upsert: nothing in the table says that the target is still there.    *)
SetLive(c) ==
  /\ requests[c].op = "live"
  /\ live' = [live EXCEPT ![requests[c].scope] = requests[c].value]
  /\ Continue(c, Idle)
  /\ UNCHANGED <<groups, lineups, programs, devices, issued>>

ClearLive(c, scope) ==
  /\ AtOnce(c)
  /\ TargetExists(scope)
  /\ live[scope] # NoLive
  /\ live' = [live EXCEPT ![scope] = NoLive]
  /\ UNCHANGED <<groups, lineups, programs, devices, issued>>

(* The until of a part passes.                                             *)
PartEnds(scope, part) ==
  /\ part \notin live[scope].over
  /\ part = "main" => live[scope].main # None
  /\ part = "alert" => live[scope].alert
  /\ live' = [live EXCEPT ![scope].over = @ \cup {part}]
  /\ UNCHANGED <<groups, lineups, programs, devices, issued, requests, asked>>

-----------------------------------------------------------------------------
FirstBlock == CHOOSE f \in [Groups -> BlockIds] : IsInjective(f)

(* Each group that is made shows its default lineup; each device was       *)
(* registered in all of them, follows one, and may leave out its block.    *)
StartWithGroups(G) ==
  /\ groups = [g \in Groups |-> IF g \in G THEN "shown" ELSE "absent"]
  /\ lineups = [g \in Groups |-> IF g \in G THEN DefaultLineup(FirstBlock[g])
                                ELSE NoLineup]
  /\ issued = {FirstBlock[g] : g \in G}
  /\ devices \in [Devices -> {NoDevice} \cup
       [follows : G, groups : {G}, active : {TRUE},
        overrides : [bar : {None}, off : {{}} \cup {{b} : b \in issued}]]]
  /\ \A d \in Devices : devices[d] # NoDevice =>
       devices[d].overrides.off \subseteq {FirstBlock[devices[d].follows]}

StartWithPrograms(P) ==
  programs = [p \in Programs |-> IF p \in P THEN "made" ELSE "absent"]

(* At most one group and one program have yet to be made.                  *)
Init ==
  /\ \E G \in SUBSET Groups : Cardinality(Groups \ G) < 2 /\ StartWithGroups(G)
  /\ \E P \in SUBSET Programs : Cardinality(Programs \ P) < 2 /\ StartWithPrograms(P)
  /\ live = [scope \in Scopes |-> NoLive]
  /\ requests = [c \in Admins |-> Idle]
  /\ asked = 0

Next ==
  \/ \E c \in Admins :
       \/ LockLineup(c) \/ CheckPrograms(c) \/ CommitLineup(c)
       \/ RemoveProgram(c) \/ RegisterDevice(c) \/ PrepareOverrides(c)
       \/ WriteDevice(c) \/ SetLive(c)
       \/ \E g \in Groups : \/ CreateGroup(c, g) \/ HideOrShowGroup(c, g)
                            \/ RemoveGroup(c, g) \/ OpenLineup(c, g)
       \/ \E p \in Programs : \/ CreateProgram(c, p) \/ EditProgram(c, p)
                              \/ LockProgram(c, p)
       \/ \E d \in Devices : CheckRegistration(c, d) \/ ReadDevice(c, d)
       \/ \E scope \in Scopes : CheckLive(c, scope) \/ ClearLive(c, scope)
  \/ \E scope \in Scopes, part \in {"main", "alert"} : PartEnds(scope, part)

Spec == Init /\ [][Next]_vars

-----------------------------------------------------------------------------
(* Properties.                                                             *)

Draft == [kept : BlockMaps, new : Sources \cup {None}, bar : SUBSET BarPrograms]
Patch == [follows : Groups \cup {None}, groups : (SUBSET Groups) \cup {None},
          overrides : Overrides \cup {None}, active : BOOLEAN \cup {None}]
Request ==
       {Idle}
  \cup [op : {"replace"}, step : {"open"}, group : Groups, seen : Lineup]
  \cup [op : {"replace"}, step : {"locked"}, group : Groups, seen : Lineup,
        draft : Draft]
  \cup [op : {"replace"}, step : {"checked"}, group : Groups, seen : Lineup,
        draft : Draft, refs : SUBSET Programs]
  \cup [op : {"remove"}, program : Programs]
  \cup [op : {"register"}, device : Devices, follows : Groups,
        groups : SUBSET Groups]
  \cup [op : {"patch"}, step : {"read"}, device : Devices, patch : Patch,
        seen : Device]
  \cup [op : {"patch"}, step : {"checked"}, device : Devices, patch : Patch,
        seen : Device, refs : SUBSET Programs, overrides : Overrides]
  \cup [op : {"live"}, scope : Scopes, value : Layer]

(* The types of the tables and of the requests. *)
TypeOK ==
  /\ groups \in [Groups -> {"absent", "shown", "hidden", "gone"}]
  /\ lineups \in [Groups -> Lineup]
  /\ programs \in [Programs -> {"absent", "made", "edited", "gone"}]
  /\ devices \in [Devices -> Device]
  /\ live \in [Scopes -> Layer]
  /\ issued \subseteq BlockIds
  /\ requests \in [Admins -> Request]
  /\ asked \in 0..MaxRequests

NoDanglingProgram ==
  \A p \in Programs \ {q \in Programs : programs[q] \in {"made", "edited"}} :
    /\ \A g \in Groups : /\ p \notin lineups[g].bar
                         /\ p \notin Range(lineups[g].blocks)
    /\ \A d \in Devices : devices[d].overrides.bar # None =>
                            p \notin devices[d].overrides.bar

NoDanglingGroup ==
  /\ \A g \in Groups : (lineups[g] = NoLineup) <=> ~GroupExists(g)
  /\ \A d \in Devices : \A g \in devices[d].groups : GroupExists(g)

(* Every program that a lineup's blocks or info bar, or a device's info    *)
(* bar, points at exists: a save and a removal that overlap cannot both    *)
(* win (ProgramsService.remove, LineupsService.checkPrograms).  A group    *)
(* that is gone leaves no lineup and no device in it, whoever was moving a *)
(* device into it (TargetGroupsService.remove).                            *)
ReferencesHold == TypeOK /\ NoDanglingProgram /\ NoDanglingGroup

(* No replacement is lost: what an editor overwrites is exactly what was   *)
(* on its screen, blocks and info bar, although it only sends a version    *)
(* and others edit in between (LineupsService.replace).                    *)
NoLostReplacement ==
  [][\A c \in Admins :
       (/\ requests[c].op = "replace" /\ requests[c].step = "checked"
        /\ requests'[c].op = "idle")
         => requests[c].seen = lineups[requests[c].group]]_vars

(* An exception for a block that is no longer in the lineup the device     *)
(* follows never applies again: no later block gets its id, whoever edits  *)
(* the lineup meanwhile (blockIdErrors, pruneOverrides, resolveLineup).    *)
Applied(d) == IF devices[d] = NoDevice THEN {}
              ELSE devices[d].overrides.off \cap DOMAIN lineups[devices[d].follows].blocks
DeadExceptionsStayDead ==
  [][\A d \in Devices :
       devices'[d] = devices[d] => Applied(d)' \subseteq Applied(d)]_vars

=============================================================================
