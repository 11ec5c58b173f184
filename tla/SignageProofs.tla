--------------------------- MODULE SignageProofs ---------------------------
(***************************************************************************)
(* What the row locks of Signage are worth, for every number of groups,    *)
(* programs, devices and administrators: no reference to a program or to a *)
(* group dangles, no replacement of a lineup is lost, and an exception of  *)
(* a device for a block that has left never applies again.                 *)
(*                                                                         *)
(* None of the three is inductive: what a request holds between its steps  *)
(* is what makes the next step safe.  IInv says what that is: the programs *)
(* of a checked input exist and nobody is removing them, the lineup of a   *)
(* locked replacement is the one its editor saw, and every id a device may *)
(* leave out is one that was given to a block.                             *)
(*                                                                         *)
(* Then, of the polls of Playlist, that a poll during which nothing changed*)
(* shows what the rules say.  The invariant follows a poll from the device *)
(* row it began with, over reads that come back in any order, to the       *)
(* content it is answered with, as long as it is calm.                     *)
(***************************************************************************)
EXTENDS Playlist, FiniteSetTheorems, TLAPS

USE SignageConstantsOK

-----------------------------------------------------------------------------
(* The inductive invariant.                                                *)

(* Who holds row locks between two statements.                             *)

HoldsLineup(c) == requests[c].op = "replace" /\ requests[c].step # "open"

HoldsPrograms(c) ==
  requests[c].op \in {"replace", "patch"} /\ requests[c].step = "checked"

(* A checked request locked every program its input refers to.             *)
RefsAreDrafted ==
  \A c \in Admins : HoldsPrograms(c) =>
    requests[c].refs = IF requests[c].op = "replace"
                       THEN DraftRefs(requests[c].draft)
                       ELSE BarOf(requests[c].overrides)

(* What is held FOR KEY SHARE is there, and nobody holds it FOR UPDATE.    *)
HeldProgramsExist ==
  \A c \in Admins : HoldsPrograms(c) =>
    \A p \in requests[c].refs : Exists(p) /\ ~LockedForUpdate(p)

(* While a replacement holds the lineup's row, the lineup is what its      *)
(* editor saw, and the draft keeps only blocks of that lineup.             *)
HeldLineupIsSeen ==
  \A c \in Admins : HoldsLineup(c) =>
    LET r == requests[c] IN
    /\ GroupExists(r.group)
    /\ r.seen = lineups[r.group]
    /\ DOMAIN r.draft.kept \subseteq DOMAIN lineups[r.group].blocks

(* The row lock is exclusive.                                              *)
OneHolderPerLineup ==
  \A c, e \in Admins :
    (HoldsLineup(c) /\ HoldsLineup(e) /\ requests[c].group = requests[e].group)
      => c = e

(* A version an editor has seen is that of the lineup it has seen, or the  *)
(* lineup has moved on: versions only grow.                                *)
VersionTells ==
  \A c \in Admins : requests[c].op = "replace" =>
    LET r == requests[c] IN
    /\ groups[r.group] # "absent"
    /\ GroupExists(r.group) => \/ r.seen = lineups[r.group]
                               \/ r.seen.version < lineups[r.group].version

(* The group a device follows exists (devices.programGroupId).             *)
FollowedGroupExists ==
  \A d \in Devices : devices[d] # NoDevice =>
    devices[d].follows # None /\ GroupExists(devices[d].follows)

(* Devices are never deleted, so one that was read is still registered.    *)
PatchedDeviceExists ==
  \A c \in Admins : requests[c].op = "patch" =>
                      devices[requests[c].device] # NoDevice

(* Only ids of blocks that were there are ever left out, in the table and  *)
(* in what requests carry.                                                 *)
OffWasIssued == \A d \in Devices : devices[d].overrides.off \subseteq issued

SentOffWasIssued ==
  \A c \in Admins : requests[c].op = "patch" =>
    LET r == requests[c] IN
    /\ r.seen.overrides.off \subseteq issued
    /\ r.patch.overrides # None => r.patch.overrides.off \subseteq issued
    /\ r.step = "checked" => r.overrides.off \subseteq issued

(* A device follows one of the groups it is registered in.                 *)
RegisteredInFirst ==
  \A c \in Admins :
    requests[c].op = "register" => requests[c].follows \in requests[c].groups

IInv ==
  /\ TypeOK
  /\ NoDanglingProgram
  /\ NoDanglingGroup
  /\ RefsAreDrafted
  /\ HeldProgramsExist
  /\ HeldLineupIsSeen
  /\ OneHolderPerLineup
  /\ VersionTells
  /\ FollowedGroupExists
  /\ PatchedDeviceExists
  /\ RegisteredInFirst
  /\ OffWasIssued
  /\ SentOffWasIssued

-----------------------------------------------------------------------------
(* The shapes of the records.                                              *)

(* Which fields a request has, by its op and its step.                     *)
LEMMA RequestShapes ==
  ASSUME NEW r \in Request
  PROVE  /\ r.op \in {"idle", "replace", "remove", "register", "patch", "live"}
         /\ r.op = "replace" =>
              /\ r.step \in {"open", "locked", "checked"}
              /\ r.group \in Groups /\ r.seen \in Lineup
              /\ r.step # "open" => r.draft \in Draft
              /\ r.step = "checked" => r.refs \in SUBSET Programs
         /\ r.op = "remove" => r.program \in Programs
         /\ r.op = "register" =>
              /\ r.device \in Devices /\ r.follows \in Groups
              /\ r.groups \in SUBSET Groups
         /\ r.op = "patch" =>
              /\ r.step \in {"read", "checked"}
              /\ r.device \in Devices /\ r.patch \in Patch /\ r.seen \in Device
              /\ r.step = "checked" =>
                   r.refs \in SUBSET Programs /\ r.overrides \in Overrides
         /\ r.op = "live" => r.scope \in Scopes /\ r.value \in Layer
  BY DEF Request, Idle

(* A map of blocks is a function from some block ids to sources.           *)
LEMMA BlockMapShape ==
  ASSUME NEW f
  PROVE  f \in BlockMaps <=> DOMAIN f \in SUBSET BlockIds /\ f \in [DOMAIN f -> Sources]
  BY DEF BlockMaps

LEMMA NoLineupIsLineup ==
  NoLineup \in Lineup
<1>1. NoLineup.blocks = <<>> BY DEF NoLineup
<1>2. <<>> \in [{} -> Sources] OBVIOUS
<1> QED  BY <1>1, <1>2, BlockMapShape DEF NoLineup, Lineup, BlockMaps

LEMMA DefaultIsLineup ==
  ASSUME NEW b \in BlockIds
  PROVE  DefaultLineup(b) \in Lineup /\ DefaultLineup(b) # NoLineup
<1>1. [id \in {b} |-> SubmissionsSource] \in [{b} -> Sources] BY DEF Sources
<1>2. [id \in {b} |-> SubmissionsSource] \in BlockMaps BY <1>1 DEF BlockMaps
<1> QED  BY <1>2 DEF DefaultLineup, Lineup, NoLineup

(* As long as an id is left, the one that is given was never given before. *)
LEMMA FreshId ==
  ASSUME IdsLeft, issued \subseteq BlockIds
  PROVE  NewBlockId \in BlockIds /\ NewBlockId \notin issued
  BY DEF IdsLeft, NewBlockId

(* Whatever an editor sends is a draft.                                    *)
LEMMA KeptIsBlockMap ==
  ASSUME NEW seen \in Lineup, issued \subseteq BlockIds, NEW draft \in Drafts(seen)
  PROVE  draft \in Draft
<1>1. ASSUME NEW k \in Kept(seen) PROVE k \in BlockMaps
  <2>1. PICK D \in SUBSET issued :
          k = [b \in D |-> IF b \in DOMAIN seen.blocks THEN seen.blocks[b]
                           ELSE SubmissionsSource]
    BY <1>1 DEF Kept
  <2>2. seen.blocks \in [DOMAIN seen.blocks -> Sources]
    BY BlockMapShape DEF Lineup
  <2> QED  BY <2>1, <2>2, BlockMapShape DEF Sources
<1> QED  BY <1>1 DEF Drafts, Draft

LEMMA NoDeviceIsDevice == NoDevice \in Device
  BY DEF NoDevice, Device, NoOverrides, Overrides

(* Whatever a PATCH sends has the types of a device's fields.              *)
LEMMA PatchesAreTyped ==
  ASSUME issued \subseteq BlockIds, NEW p \in Patches
  PROVE  /\ p \in Patch
         /\ p.overrides # None => p.overrides.off \subseteq issued
<1>1. ASSUME NEW o \in Exceptions PROVE o \in Overrides /\ o.off \subseteq issued
  BY DEF Exceptions, Overrides
<1> QED  BY <1>1 DEF Patches, Patch

-----------------------------------------------------------------------------
(* Steps that leave the tables alone: a request is made, goes on or ends.  *)

(* What the request of c may turn into without breaking the invariant.     *)
MayBe(c, v) ==
  /\ v \in Request
  /\ (v.op \in {"replace", "patch"} /\ v.step = "checked") =>
       /\ v.refs = IF v.op = "replace" THEN DraftRefs(v.draft)
                   ELSE BarOf(v.overrides)
       /\ \A p \in v.refs : Exists(p) /\ ~LockedForUpdate(p)
  /\ v.op = "remove" => ~KeyShared(v.program)
  /\ (v.op = "replace" /\ v.step # "open") =>
       /\ GroupExists(v.group)
       /\ v.seen = lineups[v.group]
       /\ DOMAIN v.draft.kept \subseteq DOMAIN lineups[v.group].blocks
       /\ \A e \in Admins : HoldsLineup(e) /\ requests[e].group = v.group => e = c
  /\ v.op = "replace" =>
       /\ groups[v.group] # "absent"
       /\ GroupExists(v.group) => \/ v.seen = lineups[v.group]
                                  \/ v.seen.version < lineups[v.group].version
  /\ v.op = "register" => v.follows \in v.groups
  /\ v.op = "patch" =>
       /\ devices[v.device] # NoDevice
       /\ v.seen.overrides.off \subseteq issued
       /\ v.patch.overrides # None => v.patch.overrides.off \subseteq issued
       /\ v.step = "checked" => v.overrides.off \subseteq issued

(* Only the request of c moves, to something it may be.                    *)
LEMMA RequestMoves ==
  ASSUME IInv, UNCHANGED <<groups, lineups, programs, devices, live, issued>>,
         NEW c \in Admins, NEW v, MayBe(c, v),
         requests' = [requests EXCEPT ![c] = v], asked' \in 0..MaxRequests
  PROVE  IInv'
<1>1. TypeOK'
  BY DEF IInv, TypeOK, MayBe
<1>2. requests'[c] = v /\ \A e \in Admins \ {c} : requests'[e] = requests[e]
  BY DEF IInv, TypeOK
<1>3. NoDanglingProgram'
  BY DEF IInv, NoDanglingProgram
<1>4. NoDanglingGroup'
  BY DEF IInv, NoDanglingGroup, GroupExists
<1>5. RefsAreDrafted'
  BY <1>2 DEF IInv, RefsAreDrafted, HoldsPrograms, MayBe
<1>6. HeldProgramsExist'
  <2> SUFFICES ASSUME NEW e \in Admins, HoldsPrograms(e)', NEW p \in requests'[e].refs,
                      NEW b \in Admins
               PROVE  Exists(p) /\ ~(requests'[b].op = "remove" /\ requests'[b].program = p)
    BY DEF HeldProgramsExist, Exists, LockedForUpdate
  <2>1. CASE e = c
    BY <1>2, <2>1 DEF HoldsPrograms, MayBe, LockedForUpdate
  <2>2. CASE e # c
    <3>1. Exists(p) /\ ~LockedForUpdate(p) /\ KeyShared(p)
      BY <1>2, <2>2 DEF HoldsPrograms, IInv, HeldProgramsExist, KeyShared
    <3> QED  BY <1>2, <3>1 DEF MayBe, LockedForUpdate
  <2> QED  BY <2>1, <2>2
<1>7. HeldLineupIsSeen'
  <2> SUFFICES ASSUME NEW e \in Admins, HoldsLineup(e)'
               PROVE  LET r == requests'[e] IN
                      /\ GroupExists(r.group) /\ r.seen = lineups[r.group]
                      /\ DOMAIN r.draft.kept \subseteq DOMAIN lineups[r.group].blocks
    BY DEF HeldLineupIsSeen, GroupExists
  <2>1. CASE e = c
    BY <1>2, <2>1 DEF HoldsLineup, MayBe
  <2>2. CASE e # c
    BY <1>2, <2>2 DEF HoldsLineup, IInv, HeldLineupIsSeen
  <2> QED  BY <2>1, <2>2
<1>8. OneHolderPerLineup'
  <2> SUFFICES ASSUME NEW e \in Admins, HoldsLineup(e)',
                      NEW b \in Admins, HoldsLineup(b)',
                      requests'[e].group = requests'[b].group
               PROVE  e = b
    BY DEF OneHolderPerLineup
  <2>1. CASE e # c /\ b # c
    <3>1. HoldsLineup(e) /\ HoldsLineup(b) /\ requests[e].group = requests[b].group
      BY <1>2, <2>1 DEF HoldsLineup
    <3> QED  BY <3>1 DEF IInv, OneHolderPerLineup
  <2>2. CASE e = c
    BY <1>2, <2>2 DEF HoldsLineup, MayBe
  <2>3. CASE b = c
    BY <1>2, <2>3 DEF HoldsLineup, MayBe
  <2> QED  BY <2>1, <2>2, <2>3
<1>9. VersionTells'
  BY <1>2 DEF IInv, VersionTells, MayBe, GroupExists
<1>10. FollowedGroupExists' /\ OffWasIssued'
  BY DEF IInv, FollowedGroupExists, OffWasIssued, GroupExists
<1>11. RegisteredInFirst'
  BY <1>2 DEF IInv, RegisteredInFirst, MayBe
<1>12. PatchedDeviceExists' /\ SentOffWasIssued'
  BY <1>2 DEF IInv, PatchedDeviceExists, SentOffWasIssued, MayBe
<1> QED  BY <1>1, <1>3, <1>5, <1>6, <1>7, <1>9, <1>10, <1>12, <1>4, <1>8, <1>11
         DEF IInv

LEMMA IdleMayBe == ASSUME NEW c PROVE MayBe(c, Idle)
  BY DEF MayBe, Request, Idle

LEMMA RefuseStep ==
  ASSUME IInv, NEW c \in Admins, Refuse(c)
  PROVE  IInv'
  BY IdleMayBe, RequestMoves DEF Refuse, Continue, IInv, TypeOK

(* The steps, one by one: each names the request it leaves behind.         *)
LEMMA OpenLineupStep ==
  ASSUME IInv, NEW c \in Admins, NEW g \in Groups, OpenLineup(c, g)
  PROVE  IInv'
<1> DEFINE v == [op |-> "replace", step |-> "open", group |-> g, seen |-> lineups[g]]
<1>1. lineups[g] \in Lineup
  BY DEF IInv, TypeOK
<1>2. MayBe(c, v)
  BY <1>1 DEF MayBe, Request, OpenLineup, GroupExists
<1>3. requests' = [requests EXCEPT ![c] = v] /\ asked' \in 0..MaxRequests
  BY DEF OpenLineup, Ask, IInv, TypeOK
<1> HIDE DEF v
<1> QED  BY <1>2, <1>3, RequestMoves DEF OpenLineup

(* The version matches, so by VersionTells the lineup is the one seen.     *)
LEMMA LockLineupStep ==
  ASSUME IInv, NEW c \in Admins, LockLineup(c)
  PROVE  IInv'
<1> DEFINE r == requests[c]
<1>1. r.op = "replace" /\ r.step = "open" /\ ~LineupLocked(r.group)
  BY DEF LockLineup
<1>2. r.group \in Groups /\ r.seen \in Lineup /\ issued \subseteq BlockIds
  BY <1>1, RequestShapes DEF IInv, TypeOK
<1>3. PICK draft \in Drafts(r.seen) :
        IF GroupExists(r.group) /\ VersionMatches(r) /\ BlockIdsOK(draft, r.group)
        THEN /\ Continue(c, [op |-> "replace", step |-> "locked",
                             group |-> r.group, seen |-> r.seen, draft |-> draft])
             /\ UNCHANGED <<groups, lineups, programs, devices, live, issued>>
        ELSE Refuse(c)
  BY DEF LockLineup
<1>4. CASE Refuse(c)
  BY <1>4, RefuseStep
<1>5. CASE ~Refuse(c)
  <2> DEFINE v == [op |-> "replace", step |-> "locked", group |-> r.group,
                   seen |-> r.seen, draft |-> draft]
  <2>1. /\ GroupExists(r.group) /\ VersionMatches(r) /\ BlockIdsOK(draft, r.group)
        /\ requests' = [requests EXCEPT ![c] = v] /\ asked' = asked
        /\ UNCHANGED <<groups, lineups, programs, devices, live, issued>>
    BY <1>3, <1>5 DEF Continue
  <2>2. draft \in Draft
    BY <1>2, <1>3, KeptIsBlockMap
  <2>3. v \in Request
    BY <1>2, <2>2 DEF Request
  <2>4. r.seen = lineups[r.group]
    BY <1>1, <1>2, <2>1 DEF IInv, TypeOK, VersionTells, VersionMatches, Lineup
  <2>5. MayBe(c, v)
    BY <1>1, <2>1, <2>3, <2>4 DEF MayBe, BlockIdsOK, GroupExists, HoldsLineup, LineupLocked
  <2> HIDE DEF v
  <2> QED  BY <2>1, <2>5, RequestMoves DEF IInv, TypeOK
<1> QED  BY <1>4, <1>5

(* The programs are found and locked; no removal holds them.               *)
LEMMA CheckProgramsStep ==
  ASSUME IInv, NEW c \in Admins, CheckPrograms(c)
  PROVE  IInv'
<1> DEFINE r == requests[c]
           refs == DraftRefs(r.draft)
           v == [op |-> "replace", step |-> "checked", group |-> r.group,
                 seen |-> r.seen, draft |-> r.draft, refs |-> refs]
<1>1. r.op = "replace" /\ r.step = "locked" /\ MayKeyShare(refs)
  BY DEF CheckPrograms
<1>2. r.group \in Groups /\ r.seen \in Lineup /\ r.draft \in Draft
  BY <1>1, RequestShapes DEF IInv, TypeOK
<1>3. CASE Refuse(c)
  BY <1>3, RefuseStep
<1>4. CASE ~Refuse(c)
  <2>1. /\ ProgramsOK(refs, r.draft.bar)
        /\ requests' = [requests EXCEPT ![c] = v] /\ asked' = asked
        /\ UNCHANGED <<groups, lineups, programs, devices, live, issued>>
    BY <1>4 DEF CheckPrograms, Continue
  <2>2. refs \in SUBSET Programs
    <3>1. r.draft.kept \in [DOMAIN r.draft.kept -> Sources]
      BY <1>2, BlockMapShape DEF Draft
    <3> QED  BY <1>2, <3>1 DEF Draft, DraftRefs, Sources, Range
  <2>3. v \in Request
    BY <1>2, <2>2 DEF Request
  <2>4. /\ HeldLineupIsSeen /\ OneHolderPerLineup /\ VersionTells
        /\ HoldsLineup(c)
    BY <1>1 DEF IInv, HoldsLineup
  <2>5. \A p \in refs : Exists(p) /\ ~LockedForUpdate(p)
    BY <1>1, <2>1 DEF MayKeyShare, ProgramsOK
  <2> HIDE DEF refs
  <2>6. MayBe(c, v)
    BY <1>1, <2>3, <2>4, <2>5 DEF MayBe, HeldLineupIsSeen, OneHolderPerLineup,
       VersionTells, HoldsLineup, refs
  <2> HIDE DEF v
  <2> QED  BY <2>1, <2>6, RequestMoves DEF IInv, TypeOK
<1> QED  BY <1>3, <1>4

(* A removal only starts when nobody holds the program FOR KEY SHARE.      *)
LEMMA LockProgramStep ==
  ASSUME IInv, NEW c \in Admins, NEW p \in Programs, LockProgram(c, p)
  PROVE  IInv'
<1> DEFINE v == [op |-> "remove", program |-> p]
<1>1. MayBe(c, v)
  BY DEF MayBe, Request, LockProgram
<1>2. requests' = [requests EXCEPT ![c] = v] /\ asked' \in 0..MaxRequests
  BY DEF LockProgram, Ask, IInv, TypeOK
<1> HIDE DEF v
<1> QED  BY <1>1, <1>2, RequestMoves DEF LockProgram

LEMMA CheckRegistrationStep ==
  ASSUME IInv, NEW c \in Admins, NEW d \in Devices, CheckRegistration(c, d)
  PROVE  IInv'
<1>1. PICK G \in SUBSET Groups : \E g \in G :
        /\ Ask(c, [op |-> "register", device |-> d, follows |-> g, groups |-> G])
        /\ UNCHANGED <<groups, lineups, programs, devices, live, issued>>
  BY DEF CheckRegistration
<1>2. PICK g \in G :
        /\ Ask(c, [op |-> "register", device |-> d, follows |-> g, groups |-> G])
        /\ UNCHANGED <<groups, lineups, programs, devices, live, issued>>
  BY <1>1
<1> DEFINE v == [op |-> "register", device |-> d, follows |-> g, groups |-> G]
<1>3. MayBe(c, v)
  BY <1>2 DEF MayBe, Request
<1>4. requests' = [requests EXCEPT ![c] = v] /\ asked' \in 0..MaxRequests
  BY <1>2 DEF Ask, IInv, TypeOK
<1> HIDE DEF v
<1> QED  BY <1>2, <1>3, <1>4, RequestMoves

LEMMA ReadDeviceStep ==
  ASSUME IInv, NEW c \in Admins, NEW d \in Devices, ReadDevice(c, d)
  PROVE  IInv'
<1>1. PICK patch \in Patches :
        /\ devices[d] # NoDevice
        /\ Ask(c, [op |-> "patch", step |-> "read", device |-> d, patch |-> patch,
                   seen |-> devices[d]])
        /\ UNCHANGED <<groups, lineups, programs, devices, live, issued>>
  BY DEF ReadDevice
<1> DEFINE v == [op |-> "patch", step |-> "read", device |-> d, patch |-> patch,
                 seen |-> devices[d]]
<1>2. /\ patch \in Patch /\ devices[d] \in Device
      /\ patch.overrides # None => patch.overrides.off \subseteq issued
  BY PatchesAreTyped DEF IInv, TypeOK
<1>3. devices[d].overrides.off \subseteq issued
  BY DEF IInv, OffWasIssued
<1>4. v \in Request
  BY <1>2 DEF Request
<1>5. MayBe(c, v)
  BY <1>1, <1>2, <1>3, <1>4 DEF MayBe
<1>6. requests' = [requests EXCEPT ![c] = v] /\ asked' \in 0..MaxRequests
  BY <1>1 DEF Ask, IInv, TypeOK
<1> HIDE DEF v
<1> QED  BY <1>1, <1>5, <1>6, RequestMoves

LEMMA CheckLiveStep ==
  ASSUME IInv, NEW c \in Admins, NEW scope \in Scopes, CheckLive(c, scope)
  PROVE  IInv'
<1>1. PICK main \in Shows \cup {None}, alert \in BOOLEAN :
        /\ Ask(c, [op |-> "live", scope |-> scope,
                   value |-> [main |-> main, alert |-> alert, over |-> {},
                              setAt |-> asked + 1]])
        /\ UNCHANGED <<groups, lineups, programs, devices, live, issued>>
  BY DEF CheckLive
<1> DEFINE value == [main |-> main, alert |-> alert, over |-> {}, setAt |-> asked + 1]
           v == [op |-> "live", scope |-> scope, value |-> value]
<1>2. value \in Layer
  BY DEF Layer, IInv, TypeOK
<1>3. requests' = [requests EXCEPT ![c] = v] /\ asked' \in 0..MaxRequests
  BY <1>1 DEF Ask, IInv, TypeOK
<1> HIDE DEF value
<1>4. MayBe(c, v)
  BY <1>2 DEF MayBe, Request
<1> HIDE DEF v
<1> QED  BY <1>1, <1>3, <1>4, RequestMoves

(* Pruning drops ids and never adds one; the info bar's programs are       *)
(* locked as those of a lineup are.                                        *)
LEMMA PrepareOverridesStep ==
  ASSUME IInv, NEW c \in Admins, PrepareOverrides(c)
  PROVE  IInv'
<1> DEFINE r == requests[c]
           overrides == Field(r.patch.overrides, r.seen.overrides)
           refs == BarOf(overrides)
           pruned == Pruned(overrides,
                       DOMAIN lineups[Field(r.patch.follows, r.seen.follows)].blocks)
           v == [op |-> "patch", step |-> "checked", device |-> r.device,
                 patch |-> r.patch, refs |-> refs, seen |-> r.seen,
                 overrides |-> pruned]
<1>1. r.op = "patch" /\ r.step = "read" /\ MayKeyShare(refs)
  BY DEF PrepareOverrides
<1>2. r.device \in Devices /\ r.patch \in Patch /\ r.seen \in Device
  BY <1>1, RequestShapes DEF IInv, TypeOK
<1>3. CASE Refuse(c)
  BY <1>3, RefuseStep
<1>4. CASE ~Refuse(c)
  <2>1. /\ ProgramsOK(refs, refs)
        /\ requests' = [requests EXCEPT ![c] = v] /\ asked' = asked
        /\ UNCHANGED <<groups, lineups, programs, devices, live, issued>>
    BY <1>4 DEF PrepareOverrides, Continue
  <2>2. /\ r.seen.overrides.off \subseteq issued
        /\ r.patch.overrides # None => r.patch.overrides.off \subseteq issued
        /\ devices[r.device] # NoDevice
    BY <1>1 DEF IInv, SentOffWasIssued, PatchedDeviceExists
  <2>3. overrides \in Overrides /\ overrides.off \subseteq issued
    BY <1>2, <2>2 DEF Field, Patch, Device
  <2> HIDE DEF overrides
  <2>4. pruned \in Overrides /\ pruned.off \subseteq issued /\ pruned.bar = overrides.bar
    BY <2>3 DEF Pruned, Overrides
  <2> HIDE DEF pruned
  <2>5. refs = BarOf(pruned) /\ refs \in SUBSET Programs
    BY <2>3, <2>4 DEF BarOf, Overrides
  <2>6. \A p \in refs : Exists(p) /\ ~LockedForUpdate(p)
    BY <1>1, <2>1 DEF MayKeyShare, ProgramsOK
  <2> HIDE DEF refs
  <2>7. v \in Request
    BY <1>2, <2>4, <2>5 DEF Request
  <2>8. MayBe(c, v)
    BY <2>2, <2>4, <2>5, <2>6, <2>7 DEF MayBe
  <2> HIDE DEF v
  <2> QED  BY <2>1, <2>8, RequestMoves DEF IInv, TypeOK
<1> QED  BY <1>3, <1>4

-----------------------------------------------------------------------------
(* Steps that write a table.                                               *)

(* The part of the invariant that is about requests in flight.             *)
AboutRequests ==
  /\ RefsAreDrafted
  /\ HeldProgramsExist
  /\ HeldLineupIsSeen
  /\ OneHolderPerLineup
  /\ VersionTells
  /\ PatchedDeviceExists
  /\ RegisteredInFirst
  /\ SentOffWasIssued

(* What a write must respect for the requests of the others: programs and  *)
(* lineups that are held stay as they are, versions grow, registered       *)
(* devices and issued ids stay.                                            *)
LEMMA TablesMove ==
  ASSUME IInv,
         \A e \in Admins : requests'[e] = requests[e] \/ requests'[e] = Idle,
         \A p \in Programs : Exists(p) /\ ~LockedForUpdate(p) => Exists(p)',
         \A e \in Admins, g \in Groups : HoldsLineup(e)' /\ g = requests[e].group =>
           GroupExists(g)' /\ lineups'[g] = lineups[g],
         \A g \in Groups : groups[g] # "absent" =>
           /\ groups'[g] # "absent"
           /\ GroupExists(g)' =>
                /\ GroupExists(g)
                /\ lineups'[g] = lineups[g] \/ lineups'[g].version > lineups[g].version,
         \A d \in Devices : devices[d] # NoDevice => devices'[d] # NoDevice,
         issued \subseteq issued',
         lineups' \in [Groups -> Lineup]
  PROVE  AboutRequests'
<1>1. \A e \in Admins : requests'[e].op # "idle" => requests'[e] = requests[e]
  BY DEF Idle
<1>2. \A e \in Admins : requests[e] \in Request
  BY DEF IInv, TypeOK
<1>3. RefsAreDrafted'
  BY <1>1 DEF IInv, RefsAreDrafted, HoldsPrograms
<1>4. HeldProgramsExist'
  <2> SUFFICES ASSUME NEW e \in Admins, HoldsPrograms(e)', NEW p \in requests'[e].refs
               PROVE  Exists(p)' /\ ~LockedForUpdate(p)'
    BY DEF HeldProgramsExist
  <2>1. requests'[e] = requests[e] /\ HoldsPrograms(e)
    BY <1>1 DEF HoldsPrograms
  <2>2. p \in Programs
    BY <1>2, <2>1, RequestShapes DEF HoldsPrograms
  <2>3. Exists(p) /\ ~LockedForUpdate(p)
    BY <2>1 DEF IInv, HeldProgramsExist
  <2>4. ~LockedForUpdate(p)'
    BY <1>1, <2>3 DEF LockedForUpdate
  <2> QED  BY <2>2, <2>3, <2>4
<1>5. HeldLineupIsSeen'
  <2> SUFFICES ASSUME NEW e \in Admins, HoldsLineup(e)'
               PROVE  LET r == requests'[e] IN
                      /\ groups'[r.group] \in {"shown", "hidden"}
                      /\ r.seen = lineups'[r.group]
                      /\ DOMAIN r.draft.kept \subseteq DOMAIN lineups'[r.group].blocks
    BY DEF HeldLineupIsSeen, GroupExists
  <2>1. requests'[e] = requests[e] /\ HoldsLineup(e)
    BY <1>1 DEF HoldsLineup
  <2>2. /\ requests[e].seen = lineups[requests[e].group]
        /\ DOMAIN requests[e].draft.kept \subseteq DOMAIN lineups[requests[e].group].blocks
    BY <2>1 DEF IInv, HeldLineupIsSeen
  <2>3. requests[e].group \in Groups
    BY <1>2, <2>1, RequestShapes DEF HoldsLineup
  <2> QED  BY <2>1, <2>2, <2>3 DEF GroupExists
<1>6. OneHolderPerLineup'
  BY <1>1 DEF IInv, OneHolderPerLineup, HoldsLineup
<1>7. VersionTells'
  <2> SUFFICES ASSUME NEW e \in Admins, requests'[e].op = "replace"
               PROVE  LET r == requests'[e] IN
                      /\ groups'[r.group] # "absent"
                      /\ groups'[r.group] \in {"shown", "hidden"} =>
                           \/ r.seen = lineups'[r.group]
                           \/ r.seen.version < lineups'[r.group].version
    BY DEF VersionTells, GroupExists
  <2> DEFINE r == requests[e]
  <2>1. requests'[e] = r /\ r.op = "replace"
    BY <1>1
  <2>2. r.group \in Groups /\ r.seen \in Lineup
    BY <1>2, <2>1, RequestShapes
  <2>3. /\ groups[r.group] # "absent"
        /\ GroupExists(r.group) => \/ r.seen = lineups[r.group]
                                   \/ r.seen.version < lineups[r.group].version
    BY <2>1 DEF IInv, VersionTells
  <2>4. /\ r.seen.version \in Nat /\ lineups[r.group].version \in Nat
        /\ lineups'[r.group].version \in Nat
    BY <2>2 DEF Lineup, IInv, TypeOK
  <2> QED  BY <2>1, <2>2, <2>3, <2>4 DEF GroupExists
<1>8. PatchedDeviceExists'
  <2> SUFFICES ASSUME NEW e \in Admins, requests'[e].op = "patch"
               PROVE  devices'[requests'[e].device] # NoDevice
    BY DEF PatchedDeviceExists
  <2>1. requests'[e] = requests[e] /\ requests[e].device \in Devices
    BY <1>1, <1>2, RequestShapes
  <2> QED  BY <2>1 DEF IInv, PatchedDeviceExists
<1>9. SentOffWasIssued'
  BY <1>1 DEF IInv, SentOffWasIssued
<1>10. RegisteredInFirst'
  BY <1>1 DEF IInv, RegisteredInFirst
<1> QED  BY <1>3, <1>4, <1>5, <1>6, <1>7, <1>8, <1>9, <1>10 DEF AboutRequests

LEMMA IdleIsRequest == Idle \in Request
  BY DEF Request

(* A step that leaves groups, lineups and devices alone, and ends at most  *)
(* the request it answers.                                                 *)
LEMMA ProgramsMove ==
  ASSUME IInv, UNCHANGED <<groups, lineups, devices, issued>>, TypeOK',
         \A e \in Admins : requests'[e] = requests[e] \/ requests'[e] = Idle,
         \A p \in Programs : Exists(p) /\ ~LockedForUpdate(p) => Exists(p)',
         \/ \A p \in Programs : Exists(p) => Exists(p)'
         \/ NoDanglingProgram'
  PROVE  IInv'
<1>1. NoDanglingProgram'
  BY DEF IInv, NoDanglingProgram, Exists
<1>2. NoDanglingGroup'
  BY DEF IInv, NoDanglingGroup, GroupExists
<1>3. FollowedGroupExists' /\ OffWasIssued'
  BY DEF IInv, FollowedGroupExists, OffWasIssued, GroupExists
<1>4. AboutRequests'
  <2>1. ASSUME NEW e \in Admins, NEW h \in Groups, HoldsLineup(e)', h = requests[e].group
        PROVE  GroupExists(h)' /\ lineups'[h] = lineups[h]
    <3>1. HoldsLineup(e)
      BY <2>1 DEF HoldsLineup, Idle
    <3> QED  BY <2>1, <3>1 DEF IInv, HeldLineupIsSeen, GroupExists
  <2>2. \A h \in Groups : groups[h] # "absent" =>
          /\ groups'[h] # "absent"
          /\ GroupExists(h)' => GroupExists(h) /\ lineups'[h] = lineups[h]
    BY DEF GroupExists
  <2> QED  BY <2>1, <2>2, TablesMove DEF TypeOK
<1> QED  BY <1>1, <1>2, <1>3, <1>4 DEF IInv, AboutRequests

(* A step that only writes one row of devices and ends a request.          *)
LEMMA DevicesMove ==
  ASSUME IInv, UNCHANGED <<groups, lineups, programs, live, issued>>,
         NEW c \in Admins, requests' = [requests EXCEPT ![c] = Idle], asked' = asked,
         NEW d \in Devices, NEW row \in Device, devices' = [devices EXCEPT ![d] = row],
         row.follows # None, GroupExists(row.follows),
         \A g \in row.groups : GroupExists(g),
         row.overrides.off \subseteq issued,
         \A p \in BarOf(row.overrides) : Exists(p)
  PROVE  IInv'
<1>1. TypeOK'
  BY IdleIsRequest DEF IInv, TypeOK
<1>2. devices'[d] = row /\ \A b \in Devices : b # d => devices'[b] = devices[b]
  BY DEF IInv, TypeOK
<1>3. NoDanglingProgram'
  <2> SUFFICES ASSUME NEW p \in Programs, programs[p] \notin {"made", "edited"}
               PROVE  /\ \A h \in Groups : /\ p \notin lineups[h].bar
                                           /\ p \notin Range(lineups[h].blocks)
                      /\ \A b \in Devices : devices'[b].overrides.bar # None =>
                                              p \notin devices'[b].overrides.bar
    BY DEF NoDanglingProgram
  <2>1. /\ \A h \in Groups : /\ p \notin lineups[h].bar
                             /\ p \notin Range(lineups[h].blocks)
        /\ \A b \in Devices : devices[b].overrides.bar # None =>
                                p \notin devices[b].overrides.bar
    BY DEF IInv, NoDanglingProgram
  <2>2. row.overrides.bar # None => p \notin row.overrides.bar
    BY DEF BarOf, Exists
  <2> QED  BY <1>2, <2>1, <2>2
<1>4. NoDanglingGroup'
  <2>1. ASSUME NEW b \in Devices, NEW h \in devices'[b].groups
        PROVE  GroupExists(h)
    BY <1>2 DEF IInv, NoDanglingGroup
  <2> QED  BY <2>1 DEF IInv, NoDanglingGroup, GroupExists
<1>5. FollowedGroupExists'
  BY <1>2 DEF IInv, FollowedGroupExists, GroupExists
<1>6. OffWasIssued'
  BY <1>2 DEF IInv, OffWasIssued
<1>7. AboutRequests'
  <2>1. ASSUME NEW e \in Admins, NEW h \in Groups, HoldsLineup(e)', h = requests[e].group
        PROVE  GroupExists(h)' /\ lineups'[h] = lineups[h]
    <3>1. HoldsLineup(e)
      BY <2>1 DEF HoldsLineup, Idle, IInv, TypeOK
    <3> QED  BY <2>1, <3>1 DEF IInv, HeldLineupIsSeen, GroupExists
  <2>2. \A h \in Groups : groups[h] # "absent" =>
          /\ groups'[h] # "absent"
          /\ GroupExists(h)' => GroupExists(h) /\ lineups'[h] = lineups[h]
    BY DEF GroupExists
  <2>3. \A p \in Programs : Exists(p) => Exists(p)'
    BY DEF Exists
  <2>4. \A e \in Admins : requests'[e] = requests[e] \/ requests'[e] = Idle
    BY DEF IInv, TypeOK
  <2>5. \A b \in Devices : devices[b] # NoDevice => devices'[b] # NoDevice
    BY <1>2 DEF NoDevice
  <2> QED  BY <1>1, <2>1, <2>2, <2>3, <2>4, <2>5, TablesMove DEF TypeOK
<1> QED  BY <1>1, <1>3, <1>4, <1>5, <1>6, <1>7 DEF IInv, AboutRequests

(* Nobody has a request about a group that was not made yet.               *)
LEMMA CreateGroupStep ==
  ASSUME IInv, NEW c \in Admins, NEW g \in Groups, CreateGroup(c, g)
  PROVE  IInv'
<1> DEFINE b == NewBlockId
<1>1. b \in BlockIds /\ b \notin issued
  BY FreshId DEF CreateGroup, IInv, TypeOK
<1>2. DefaultLineup(b) \in Lineup /\ DefaultLineup(b) # NoLineup
  BY <1>1, DefaultIsLineup
<1>3. /\ groups[g] = "absent" /\ groups' = [groups EXCEPT ![g] = "shown"]
      /\ lineups' = [lineups EXCEPT ![g] = DefaultLineup(b)]
      /\ issued' = issued \cup {b} /\ asked < MaxRequests /\ asked' = asked + 1
      /\ UNCHANGED <<programs, devices, live, requests>>
  BY DEF CreateGroup, AtOnce
<1>4. DefaultLineup(b).bar = {} /\ Range(DefaultLineup(b).blocks) = {SubmissionsSource}
  BY DEF DefaultLineup, Range
<1> HIDE DEF b
<1>5. TypeOK'
  BY <1>1, <1>2, <1>3 DEF IInv, TypeOK
<1>6. NoDanglingProgram'
  BY <1>3, <1>4 DEF IInv, TypeOK, NoDanglingProgram, SubmissionsSource
<1>7. \A h \in Groups : /\ groups'[h] = IF h = g THEN "shown" ELSE groups[h]
                        /\ lineups'[h] = IF h = g THEN DefaultLineup(b) ELSE lineups[h]
  BY <1>3 DEF IInv, TypeOK
<1>8. NoDanglingGroup'
  <2>1. GroupExists(g)' /\ ~GroupExists(g)
    BY <1>3 DEF GroupExists, IInv, TypeOK
  <2>2. \A d \in Devices : devices[d].groups \in SUBSET Groups
    BY DEF IInv, TypeOK, Device
  <2>3. ASSUME NEW h \in Groups
        PROVE  (lineups'[h] = NoLineup) <=> ~GroupExists(h)'
    <3>1. CASE h = g
      BY <1>2, <1>7, <3>1 DEF GroupExists
    <3>2. CASE h # g
      <4>1. (lineups[h] = NoLineup) <=> ~GroupExists(h)
        BY DEF IInv, NoDanglingGroup
      <4> QED  BY <1>7, <3>2, <4>1 DEF GroupExists
    <3> QED  BY <3>1, <3>2
  <2>4. ASSUME NEW d \in Devices, NEW h \in devices[d].groups
        PROVE  GroupExists(h)'
    <3>1. h \in Groups /\ GroupExists(h)
      BY <2>2 DEF IInv, NoDanglingGroup
    <3> QED  BY <1>7, <3>1 DEF GroupExists
  <2> QED  BY <1>3, <2>3, <2>4 DEF NoDanglingGroup
<1>9. FollowedGroupExists'
  BY <1>3, <1>7 DEF IInv, TypeOK, Device, FollowedGroupExists, GroupExists
<1>10. OffWasIssued'
  BY <1>3 DEF IInv, OffWasIssued
<1>11. AboutRequests'
  <2>1. ASSUME NEW e \in Admins, NEW h \in Groups, HoldsLineup(e)', h = requests[e].group
        PROVE  GroupExists(h)' /\ lineups'[h] = lineups[h]
    <3>1. GroupExists(h)
      BY <1>3, <2>1 DEF HoldsLineup, IInv, HeldLineupIsSeen
    <3> QED  BY <1>3, <1>7, <3>1 DEF GroupExists
  <2>2. \A h \in Groups : groups[h] # "absent" =>
          /\ groups'[h] # "absent"
          /\ GroupExists(h)' => GroupExists(h) /\ lineups'[h] = lineups[h]
    BY <1>3 DEF GroupExists, IInv, TypeOK
  <2>3. \A p \in Programs : Exists(p) => Exists(p)'
    BY <1>3 DEF Exists
  <2> QED  BY <1>3, <1>5, <2>1, <2>2, <2>3, TablesMove DEF TypeOK
<1> QED  BY <1>5, <1>6, <1>8, <1>9, <1>10, <1>11 DEF IInv, AboutRequests

LEMMA HideOrShowGroupStep ==
  ASSUME IInv, NEW c \in Admins, NEW g \in Groups, HideOrShowGroup(c, g)
  PROVE  IInv'
<1>1. /\ GroupExists(g) /\ asked < MaxRequests /\ asked' = asked + 1
      /\ groups' = [groups EXCEPT ![g] = IF @ = "shown" THEN "hidden" ELSE "shown"]
      /\ UNCHANGED <<lineups, programs, devices, live, issued, requests>>
  BY DEF HideOrShowGroup, AtOnce
<1>2. TypeOK'
  BY <1>1 DEF IInv, TypeOK
<1>3. \A h \in Groups : GroupExists(h)' <=> GroupExists(h)
  BY <1>1 DEF IInv, TypeOK, GroupExists
<1>4. NoDanglingProgram' /\ OffWasIssued'
  BY <1>1 DEF IInv, NoDanglingProgram, OffWasIssued
<1>5. NoDanglingGroup' /\ FollowedGroupExists'
  <2>1. \A d \in Devices : devices[d].groups \in SUBSET Groups
                           /\ devices[d].follows \in Groups \cup {None}
    BY DEF IInv, TypeOK, Device
  <2>2. NoDanglingGroup'
    BY <1>1, <1>3, <2>1 DEF IInv, NoDanglingGroup, GroupExists
  <2>3. FollowedGroupExists'
    BY <1>1, <1>3, <2>1 DEF IInv, FollowedGroupExists, GroupExists
  <2> QED  BY <2>2, <2>3
<1>6. AboutRequests'
  <2>1. ASSUME NEW e \in Admins, NEW h \in Groups, HoldsLineup(e)', h = requests[e].group
        PROVE  GroupExists(h)' /\ lineups'[h] = lineups[h]
    <3>1. GroupExists(h)
      BY <1>1, <2>1 DEF HoldsLineup, IInv, HeldLineupIsSeen
    <3> QED  BY <1>1, <1>3, <3>1
  <2>2. \A h \in Groups : groups[h] # "absent" =>
          /\ groups'[h] # "absent"
          /\ GroupExists(h)' => GroupExists(h) /\ lineups'[h] = lineups[h]
    BY <1>1 DEF GroupExists, IInv, TypeOK
  <2>3. \A p \in Programs : Exists(p) => Exists(p)'
    BY <1>1 DEF Exists
  <2> QED  BY <1>1, <1>2, <2>1, <2>2, <2>3, TablesMove DEF TypeOK
<1> QED  BY <1>2, <1>4, <1>5, <1>6 DEF IInv, AboutRequests

(* The group has no device and its lineup's row is free.                   *)
LEMMA RemoveGroupStep ==
  ASSUME IInv, NEW c \in Admins, NEW g \in Groups, RemoveGroup(c, g)
  PROVE  IInv'
<1>1. /\ GroupExists(g) /\ ~LineupLocked(g) /\ UsageOf(g) = {}
      /\ asked < MaxRequests /\ asked' = asked + 1
      /\ groups' = [groups EXCEPT ![g] = "gone"]
      /\ lineups' = [lineups EXCEPT ![g] = NoLineup]
      /\ live' = [live EXCEPT ![g] = NoLive]
      /\ UNCHANGED <<programs, devices, issued, requests>>
  BY DEF RemoveGroup, AtOnce
<1>2. TypeOK'
  <2>1. NoLive \in Layer
    BY DEF NoLive, Layer
  <2>2. live' \in [Scopes -> Layer]
    BY <1>1, <2>1 DEF IInv, TypeOK
  <2>3. lineups' \in [Groups -> Lineup]
    BY <1>1, NoLineupIsLineup DEF IInv, TypeOK
  <2>4. groups' \in [Groups -> {"absent", "shown", "hidden", "gone"}]
    BY <1>1 DEF IInv, TypeOK
  <2> QED  BY <1>1, <2>2, <2>3, <2>4 DEF IInv, TypeOK
<1>3. \A h \in Groups : groups'[h] = (IF h = g THEN "gone" ELSE groups[h])
                        /\ lineups'[h] = (IF h = g THEN NoLineup ELSE lineups[h])
  BY <1>1 DEF IInv, TypeOK
<1>4. NoLineup.bar = {} /\ Range(NoLineup.blocks) = {}
  BY DEF NoLineup, Range
<1>5. NoDanglingProgram'
  BY <1>1, <1>3, <1>4 DEF IInv, NoDanglingProgram
<1>6. \A d \in Devices : /\ devices[d].groups \in SUBSET Groups
                         /\ devices[d].follows \in Groups \cup {None}
                         /\ g \notin devices[d].groups /\ g # devices[d].follows
  BY <1>1 DEF IInv, TypeOK, Device, UsageOf
<1>7. NoDanglingGroup'
  <2>1. ASSUME NEW h \in Groups
        PROVE  (lineups'[h] = NoLineup) <=> ~GroupExists(h)'
    BY <1>3 DEF IInv, NoDanglingGroup, GroupExists
  <2>2. ASSUME NEW d \in Devices, NEW h \in devices[d].groups
        PROVE  GroupExists(h)'
    <3>1. h \in Groups /\ h # g /\ GroupExists(h)
      BY <1>6 DEF IInv, NoDanglingGroup
    <3> QED  BY <1>3, <3>1 DEF GroupExists
  <2> QED  BY <1>1, <2>1, <2>2 DEF NoDanglingGroup
<1>8. FollowedGroupExists' /\ OffWasIssued'
  BY <1>1, <1>3, <1>6 DEF IInv, FollowedGroupExists, OffWasIssued, GroupExists
<1>9. AboutRequests'
  <2>1. ASSUME NEW e \in Admins, NEW h \in Groups, HoldsLineup(e)', h = requests[e].group
        PROVE  GroupExists(h)' /\ lineups'[h] = lineups[h]
    <3>1. GroupExists(h) /\ h # g
      BY <1>1, <2>1 DEF HoldsLineup, IInv, HeldLineupIsSeen, LineupLocked
    <3> QED  BY <1>3, <3>1 DEF GroupExists
  <2>2. \A h \in Groups : groups[h] # "absent" =>
          /\ groups'[h] # "absent"
          /\ GroupExists(h)' => GroupExists(h) /\ lineups'[h] = lineups[h]
    BY <1>3 DEF GroupExists
  <2>3. \A p \in Programs : Exists(p) => Exists(p)'
    BY <1>1 DEF Exists
  <2> QED  BY <1>1, <1>2, <2>1, <2>2, <2>3, TablesMove DEF TypeOK
<1> QED  BY <1>2, <1>5, <1>7, <1>8, <1>9 DEF IInv, AboutRequests

(* What the committed lineup is made of.                                   *)
LEMMA Committed ==
  ASSUME IInv, NEW c \in Admins, CommitLineup(c)
  PROVE  LET r == requests[c]
             g == r.group
             new == lineups'[g]
         IN /\ HoldsLineup(c) /\ HoldsPrograms(c) /\ g \in Groups
            /\ lineups[g] \in Lineup /\ new \in Lineup
            /\ lineups' = [lineups EXCEPT ![g] = new]
            /\ new.version = lineups[g].version + 1
            /\ \A p \in Programs : p \in new.bar \/ p \in Range(new.blocks) => p \in r.refs
            /\ \A b \in DOMAIN new.blocks : b \in DOMAIN lineups[g].blocks \/ b \notin issued
            /\ issued \subseteq issued' /\ issued' \subseteq BlockIds
            /\ asked' = asked /\ requests' = [requests EXCEPT ![c] = Idle]
            /\ UNCHANGED <<groups, programs, devices, live>>
<1> DEFINE r == requests[c]
           g == r.group
           added == IF r.draft.new = None THEN {} ELSE {NewBlockId}
           blocks == [b \in DOMAIN r.draft.kept \cup added |->
                        IF b \in added THEN r.draft.new ELSE r.draft.kept[b]]
           new == [version |-> lineups[g].version + 1, bar |-> r.draft.bar,
                   blocks |-> blocks]
<1>1. /\ r.op = "replace" /\ r.step = "checked"
      /\ r.draft.new # None => IdsLeft
      /\ lineups' = [lineups EXCEPT ![g] = new] /\ issued' = issued \cup added
      /\ asked' = asked /\ requests' = [requests EXCEPT ![c] = Idle]
      /\ UNCHANGED <<groups, programs, devices, live>>
  BY DEF CommitLineup, Continue
<1>2. /\ r.draft \in Draft /\ g \in Groups /\ lineups[g] \in Lineup
      /\ r.refs = DraftRefs(r.draft)
      /\ DOMAIN r.draft.kept \subseteq DOMAIN lineups[g].blocks
  BY <1>1, RequestShapes DEF IInv, TypeOK, RefsAreDrafted, HoldsPrograms,
     HeldLineupIsSeen, HoldsLineup
<1>3. added \subseteq BlockIds /\ added \cap issued = {}
  BY <1>1, FreshId DEF IInv, TypeOK
<1>4. r.draft.kept \in [DOMAIN r.draft.kept -> Sources] /\ DOMAIN r.draft.kept \subseteq BlockIds
  BY <1>2, BlockMapShape DEF Draft
<1>5. r.draft.new # None => r.draft.new \in Sources
  BY <1>2 DEF Draft
<1>6. blocks \in [DOMAIN r.draft.kept \cup added -> Sources]
  BY <1>4, <1>5
<1>7. new \in Lineup
  <2>1. blocks \in BlockMaps
    BY <1>3, <1>4, <1>6, BlockMapShape
  <2> HIDE DEF blocks
  <2> QED  BY <1>2, <2>1 DEF Lineup, Draft
<1>8. ASSUME NEW p \in Programs, p \in new.bar \/ p \in Range(new.blocks)
      PROVE  p \in r.refs
  <2>1. p # None /\ p # SubmissionsSource
    BY DEF SubmissionsSource
  <2>2. p \in r.draft.bar \/ p \in Range(r.draft.kept) \/ p = r.draft.new
    BY <1>8 DEF Range
  <2> QED  BY <1>2, <2>1, <2>2 DEF DraftRefs
<1>9. \A b \in DOMAIN new.blocks : b \in DOMAIN lineups[g].blocks \/ b \notin issued
  BY <1>2, <1>3
<1>10. lineups'[g] = new
  BY <1>1, <1>2 DEF IInv, TypeOK
<1> HIDE DEF new, added
<1>11. lineups'[g].version = lineups[g].version + 1
  BY <1>10 DEF new
<1> QED  BY <1>1, <1>2, <1>3, <1>7, <1>8, <1>9, <1>10, <1>11
         DEF HoldsLineup, HoldsPrograms, IInv, TypeOK

(* What is committed refers to programs held FOR KEY SHARE, and no other   *)
(* request holds this lineup.                                              *)
LEMMA CommitLineupStep ==
  ASSUME IInv, NEW c \in Admins, CommitLineup(c)
  PROVE  IInv'
<1> DEFINE r == requests[c]
           g == r.group
           new == lineups'[g]
<1>1. /\ HoldsLineup(c) /\ HoldsPrograms(c) /\ g \in Groups
      /\ lineups[g] \in Lineup /\ new \in Lineup
      /\ lineups' = [lineups EXCEPT ![g] = new]
      /\ new.version = lineups[g].version + 1
      /\ \A p \in Programs : p \in new.bar \/ p \in Range(new.blocks) => p \in r.refs
      /\ issued \subseteq issued' /\ issued' \subseteq BlockIds
      /\ asked' = asked /\ requests' = [requests EXCEPT ![c] = Idle]
      /\ UNCHANGED <<groups, programs, devices, live>>
  BY Committed
<1>2. TypeOK'
  BY <1>1, IdleIsRequest DEF IInv, TypeOK
<1>3. \A h \in Groups : h # g => lineups'[h] = lineups[h]
  BY <1>1 DEF IInv, TypeOK
<1>4. NoDanglingProgram'
  <2> SUFFICES ASSUME NEW p \in Programs, programs[p] \notin {"made", "edited"}
               PROVE  /\ \A h \in Groups : /\ p \notin lineups'[h].bar
                                           /\ p \notin Range(lineups'[h].blocks)
                      /\ \A d \in Devices : devices[d].overrides.bar # None =>
                                              p \notin devices[d].overrides.bar
    BY <1>1 DEF NoDanglingProgram
  <2>1. p \notin r.refs
    BY <1>1 DEF IInv, HeldProgramsExist, Exists
  <2>2. /\ \A h \in Groups : /\ p \notin lineups[h].bar
                             /\ p \notin Range(lineups[h].blocks)
        /\ \A d \in Devices : devices[d].overrides.bar # None =>
                                p \notin devices[d].overrides.bar
    BY DEF IInv, NoDanglingProgram
  <2> QED  BY <1>1, <1>3, <2>1, <2>2
<1>5. NoDanglingGroup'
  <2>1. new # NoLineup /\ GroupExists(g)
    BY <1>1 DEF NoLineup, Lineup, IInv, HeldLineupIsSeen
  <2> QED  BY <1>1, <1>3, <2>1 DEF IInv, NoDanglingGroup, GroupExists
<1>6. FollowedGroupExists' /\ OffWasIssued'
  BY <1>1 DEF IInv, FollowedGroupExists, OffWasIssued, GroupExists
<1>7. requests'[c] = Idle /\ \A e \in Admins : e # c => requests'[e] = requests[e]
  BY <1>1 DEF IInv, TypeOK
<1>8. AboutRequests'
  <2>1. ASSUME NEW e \in Admins, NEW h \in Groups, HoldsLineup(e)', h = requests[e].group
        PROVE  GroupExists(h)' /\ lineups'[h] = lineups[h]
    <3>1. e # c /\ HoldsLineup(e)
      BY <1>7, <2>1 DEF HoldsLineup, Idle
    <3>2. h # g /\ GroupExists(h)
      BY <1>1, <2>1, <3>1 DEF IInv, OneHolderPerLineup, HeldLineupIsSeen
    <3> QED  BY <1>1, <1>3, <3>2 DEF GroupExists
  <2>2. \A h \in Groups : lineups'[h] = lineups[h] \/ lineups'[h].version > lineups[h].version
    BY <1>1, <1>3 DEF Lineup
  <2>3. \A h \in Groups : groups[h] # "absent" =>
          /\ groups'[h] # "absent"
          /\ GroupExists(h)' =>
               /\ GroupExists(h)
               /\ lineups'[h] = lineups[h] \/ lineups'[h].version > lineups[h].version
    BY <1>1, <2>2 DEF GroupExists
  <2>4. \A p \in Programs : Exists(p) => Exists(p)'
    BY <1>1 DEF Exists
  <2> QED  BY <1>1, <1>2, <1>7, <2>1, <2>3, <2>4, TablesMove DEF TypeOK
<1> QED  BY <1>2, <1>4, <1>5, <1>6, <1>8 DEF IInv, AboutRequests

LEMMA CreateProgramStep ==
  ASSUME IInv, NEW c \in Admins, NEW p \in Programs, CreateProgram(c, p)
  PROVE  IInv'
<1>1. /\ programs' = [programs EXCEPT ![p] = "made"]
      /\ asked < MaxRequests /\ asked' = asked + 1
      /\ UNCHANGED <<groups, lineups, devices, live, issued, requests>>
  BY DEF CreateProgram, AtOnce
<1>2. TypeOK'
  BY <1>1 DEF IInv, TypeOK
<1>3. \A q \in Programs : Exists(q) => Exists(q)'
  BY <1>1 DEF IInv, TypeOK, Exists
<1> QED  BY <1>1, <1>2, <1>3, ProgramsMove

LEMMA EditProgramStep ==
  ASSUME IInv, NEW c \in Admins, NEW p \in Programs, EditProgram(c, p)
  PROVE  IInv'
<1>1. /\ programs' = [programs EXCEPT ![p] = "edited"]
      /\ asked < MaxRequests /\ asked' = asked + 1
      /\ UNCHANGED <<groups, lineups, devices, live, issued, requests>>
  BY DEF EditProgram, AtOnce
<1>2. TypeOK'
  BY <1>1 DEF IInv, TypeOK
<1>3. \A q \in Programs : Exists(q) => Exists(q)'
  BY <1>1 DEF IInv, TypeOK, Exists
<1> QED  BY <1>1, <1>2, <1>3, ProgramsMove

(* The program is used nowhere, and whoever holds it FOR KEY SHARE would   *)
(* have kept this removal from starting.                                   *)
LEMMA RemoveProgramStep ==
  ASSUME IInv, NEW c \in Admins, RemoveProgram(c)
  PROVE  IInv'
<1> DEFINE p == requests[c].program
<1>1. CASE Refuse(c)
  BY <1>1, RefuseStep
<1>2. CASE ~Refuse(c)
  <2>1. /\ requests[c].op = "remove" /\ ~UsedBy(p)
        /\ programs' = [programs EXCEPT ![p] = "gone"]
        /\ asked' = asked /\ requests' = [requests EXCEPT ![c] = Idle]
        /\ UNCHANGED <<groups, lineups, devices, live, issued>>
    BY <1>2 DEF RemoveProgram, Continue
  <2>2. p \in Programs
    BY <2>1, RequestShapes DEF IInv, TypeOK
  <2>3. TypeOK'
    BY <2>1, <2>2, IdleIsRequest DEF IInv, TypeOK
  <2>4. \A q \in Programs : q # p => programs'[q] = programs[q]
    BY <2>1 DEF IInv, TypeOK
  <2>5. LockedForUpdate(p)
    BY <2>1 DEF LockedForUpdate
  <2>6. \A e \in Admins : requests'[e] = requests[e] \/ requests'[e] = Idle
    BY <2>1 DEF IInv, TypeOK
  <2>7. \A q \in Programs : Exists(q) /\ ~LockedForUpdate(q) => Exists(q)'
    BY <2>4, <2>5 DEF Exists
  <2>8. /\ \A h \in Groups : p \notin lineups[h].bar /\ p \notin Range(lineups[h].blocks)
        /\ \A d \in Devices : devices[d].overrides.bar # None =>
                                p \notin devices[d].overrides.bar
    BY <2>1, <2>2 DEF UsedBy, ProgramsOf, BarOf, SubmissionsSource
  <2> HIDE DEF p
  <2>9. NoDanglingProgram'
    BY <2>1, <2>4, <2>8 DEF IInv, NoDanglingProgram
  <2> QED  BY <2>1, <2>3, <2>6, <2>7, <2>9, ProgramsMove
<1> QED  BY <1>1, <1>2

LEMMA RegisterDeviceStep ==
  ASSUME IInv, NEW c \in Admins, RegisterDevice(c)
  PROVE  IInv'
<1> DEFINE r == requests[c]
           row == [follows |-> r.follows, groups |-> r.groups,
                   overrides |-> NoOverrides, active |-> TRUE]
<1>1. CASE Refuse(c)
  BY <1>1, RefuseStep
<1>2. CASE ~Refuse(c)
  <2>1. /\ r.op = "register" /\ devices[r.device] = NoDevice
        /\ \A g \in r.groups : GroupExists(g)
        /\ devices' = [devices EXCEPT ![r.device] = row]
        /\ asked' = asked /\ requests' = [requests EXCEPT ![c] = Idle]
        /\ UNCHANGED <<groups, lineups, programs, live, issued>>
    BY <1>2 DEF RegisterDevice, Continue
  <2>2. /\ r.device \in Devices /\ r.follows \in Groups /\ r.groups \in SUBSET Groups
    BY <2>1, RequestShapes DEF IInv, TypeOK
  <2>3. r.follows \in r.groups
    BY <2>1 DEF IInv, RegisteredInFirst
  <2>4. /\ row \in Device /\ row.groups = r.groups /\ row.follows = r.follows
        /\ row.follows # None /\ row.overrides.bar = None /\ row.overrides.off = {}
    BY <2>2 DEF Device, Overrides, NoOverrides
  <2>5. BarOf(row.overrides) = {}
    BY <2>4 DEF BarOf
  <2> HIDE DEF row
  <2> QED  BY <2>1, <2>2, <2>3, <2>4, <2>5, DevicesMove
<1> QED  BY <1>1, <1>2

(* Groups that were sent are checked by the foreign keys of this write;    *)
(* those that were not sent are the device's own.                          *)
LEMMA WriteDeviceStep ==
  ASSUME IInv, NEW c \in Admins, WriteDevice(c)
  PROVE  IInv'
<1> DEFINE r == requests[c]
           d == r.device
           row == [follows   |-> Field(r.patch.follows, devices[d].follows),
                   groups    |-> Field(r.patch.groups, devices[d].groups),
                   overrides |-> r.overrides,
                   active    |-> Field(r.patch.active, devices[d].active)]
<1>1. CASE Refuse(c)
  BY <1>1, RefuseStep
<1>2. CASE ~Refuse(c)
  <2>1. /\ r.op = "patch" /\ r.step = "checked"
        /\ \A g \in Referenced(r.patch) : GroupExists(g)
        /\ devices' = [devices EXCEPT ![d] = row]
        /\ asked' = asked /\ requests' = [requests EXCEPT ![c] = Idle]
        /\ UNCHANGED <<groups, lineups, programs, live, issued>>
    BY <1>2 DEF WriteDevice, Continue
  <2>2. /\ d \in Devices /\ r.patch \in Patch /\ r.overrides \in Overrides
        /\ devices[d] \in Device
    BY <2>1, RequestShapes DEF IInv, TypeOK
  <2>3. /\ devices[d] # NoDevice /\ r.overrides.off \subseteq issued
        /\ \A p \in BarOf(r.overrides) : Exists(p)
    BY <2>1 DEF IInv, PatchedDeviceExists, SentOffWasIssued, RefsAreDrafted,
       HeldProgramsExist, HoldsPrograms
  <2>4. row \in Device
    BY <2>2 DEF Device, Patch, Field
  <2>5. devices[d].follows # None /\ GroupExists(devices[d].follows)
    BY <2>2, <2>3 DEF IInv, FollowedGroupExists
  <2>6. row.follows # None /\ GroupExists(row.follows)
    BY <2>1, <2>5 DEF Field, Referenced
  <2>7. \A g \in row.groups : GroupExists(g)
    BY <2>1, <2>2 DEF Field, Referenced, IInv, NoDanglingGroup
  <2>8. row.overrides = r.overrides
    OBVIOUS
  <2> HIDE DEF row
  <2> QED  BY <2>1, <2>2, <2>3, <2>4, <2>6, <2>7, <2>8, DevicesMove
<1> QED  BY <1>1, <1>2

LEMMA SetLiveStep ==
  ASSUME IInv, NEW c \in Admins, SetLive(c)
  PROVE  IInv'
<1>1. /\ requests[c].op = "live"
      /\ live' = [live EXCEPT ![requests[c].scope] = requests[c].value]
      /\ asked' = asked /\ requests' = [requests EXCEPT ![c] = Idle]
      /\ UNCHANGED <<groups, lineups, programs, devices, issued>>
  BY DEF SetLive, Continue
<1>2. requests[c].value \in Layer
  BY <1>1, RequestShapes DEF IInv, TypeOK
<1>3. live' \in [Scopes -> Layer]
  BY <1>1, <1>2 DEF IInv, TypeOK
<1>4. TypeOK'
  BY <1>1, <1>3, IdleIsRequest DEF IInv, TypeOK
<1>5. \A e \in Admins : requests'[e] = requests[e] \/ requests'[e] = Idle
  BY <1>1 DEF IInv, TypeOK
<1> QED  BY <1>1, <1>4, <1>5, ProgramsMove DEF Exists

LEMMA ClearLiveStep ==
  ASSUME IInv, NEW c \in Admins, NEW scope \in Scopes, ClearLive(c, scope)
  PROVE  IInv'
<1>1. /\ live' = [live EXCEPT ![scope] = NoLive]
      /\ asked < MaxRequests /\ asked' = asked + 1
      /\ UNCHANGED <<groups, lineups, programs, devices, issued, requests>>
  BY DEF ClearLive, AtOnce
<1>2. live' \in [Scopes -> Layer]
  BY <1>1 DEF IInv, TypeOK, NoLive, Layer
<1>3. TypeOK'
  BY <1>1, <1>2 DEF IInv, TypeOK
<1> QED  BY <1>1, <1>3, ProgramsMove DEF Exists

LEMMA PartEndsStep ==
  ASSUME IInv, NEW scope \in Scopes, NEW part \in {"main", "alert"}, PartEnds(scope, part)
  PROVE  IInv'
<1>1. /\ live' = [live EXCEPT ![scope].over = @ \cup {part}]
      /\ UNCHANGED <<groups, lineups, programs, devices, issued, requests, asked>>
  BY DEF PartEnds
<1>2. live' \in [Scopes -> Layer]
  BY <1>1 DEF IInv, TypeOK, Layer
<1>3. TypeOK'
  BY <1>1, <1>2 DEF IInv, TypeOK
<1> QED  BY <1>1, <1>3, ProgramsMove DEF Exists

-----------------------------------------------------------------------------
(* The initial states, and the steps together.                             *)

LEMMA InitIsGood ==
  ASSUME Init
  PROVE  IInv
<1>1. FirstBlock \in [Groups -> BlockIds]
  BY DEF SignageConstantsOK, FirstBlock
<1>2. PICK G \in SUBSET Groups : StartWithGroups(G)
  BY DEF Init
<1>3. PICK P \in SUBSET Programs : StartWithPrograms(P)
  BY DEF Init
<1>4. /\ live = [scope \in Scopes |-> NoLive] /\ asked = 0
      /\ requests = [c \in Admins |-> Idle]
  BY DEF Init
<1>5. issued \subseteq BlockIds
  BY <1>1, <1>2 DEF StartWithGroups
<1>6. ASSUME NEW d \in Devices
      PROVE  /\ devices[d] \in Device
             /\ devices[d].groups \subseteq G
             /\ devices[d] # NoDevice => devices[d].follows \in G
             /\ devices[d].overrides.bar = None
             /\ devices[d].overrides.off \subseteq issued
  <2>1. CASE devices[d] = NoDevice
    BY <2>1, NoDeviceIsDevice DEF NoDevice, NoOverrides
  <2>2. CASE devices[d] # NoDevice
    <3>1. devices[d] \in [follows : G, groups : {G}, active : {TRUE},
                          overrides : [bar : {None}, off : {{}} \cup {{b} : b \in issued}]]
      BY <1>2, <2>2 DEF StartWithGroups
    <3> DEFINE o == devices[d].overrides
    <3>2. o \in [bar : {None}, off : {{}} \cup {{b} : b \in issued}]
      BY <3>1
    <3>3. o.bar = None /\ o.off \subseteq issued
      BY <3>2
    <3>4. o \in Overrides
      BY <1>5, <3>2 DEF Overrides
    <3>5. devices[d] \in Device
      BY <3>1, <3>4 DEF Device
    <3> QED  BY <3>1, <3>3, <3>5
  <2> QED  BY <2>1, <2>2
<1>7. ASSUME NEW g \in Groups
      PROVE  /\ lineups[g] \in Lineup
             /\ lineups[g].bar = {}
             /\ Range(lineups[g].blocks) \subseteq {SubmissionsSource}
             /\ lineups[g] = NoLineup <=> g \notin G
  <2>1. CASE g \in G
    BY <1>1, <1>2, <2>1, DefaultIsLineup DEF DefaultLineup, Range, StartWithGroups
  <2>2. CASE g \notin G
    BY <1>2, <2>2, NoLineupIsLineup DEF NoLineup, Range, StartWithGroups
  <2> QED  BY <2>1, <2>2
<1>8. TypeOK
  <2>1. NoLive \in Layer
    BY DEF NoLive, Layer
  <2>2. devices \in [Devices -> Device] /\ lineups \in [Groups -> Lineup]
    BY <1>2, <1>6, <1>7 DEF StartWithGroups
  <2> QED  BY <1>2, <1>3, <1>4, <1>5, <2>1, <2>2, IdleIsRequest
           DEF TypeOK, SignageConstantsOK, StartWithGroups, StartWithPrograms
<1>9. NoDanglingProgram
  BY <1>6, <1>7 DEF NoDanglingProgram, SubmissionsSource
<1>10. \A g \in Groups : GroupExists(g) <=> g \in G
  BY <1>2 DEF GroupExists, StartWithGroups
<1>11. NoDanglingGroup /\ FollowedGroupExists
  <2>1. NoDanglingGroup
    BY <1>6, <1>7, <1>10 DEF NoDanglingGroup
  <2>2. FollowedGroupExists
    BY <1>6, <1>10 DEF FollowedGroupExists
  <2> QED  BY <2>1, <2>2
<1>12. OffWasIssued
  BY <1>6 DEF OffWasIssued
<1>13. \A c \in Admins : requests[c].op = "idle"
  BY <1>4 DEF Idle
<1>14. AboutRequests /\ RegisteredInFirst
  BY <1>13 DEF AboutRequests, RefsAreDrafted, HeldProgramsExist, HeldLineupIsSeen,
     OneHolderPerLineup, VersionTells, PatchedDeviceExists, RegisteredInFirst,
     SentOffWasIssued, HoldsLineup, HoldsPrograms
<1> QED  BY <1>8, <1>9, <1>11, <1>12, <1>14 DEF IInv, AboutRequests

(* Every action, or a stutter.                                             *)
LEMMA NextKeeps ==
  ASSUME IInv, [Next]_vars
  PROVE  IInv'
<1>1. CASE UNCHANGED vars
  <2>1. /\ UNCHANGED <<groups, lineups, devices, issued, programs>>
        /\ requests' = requests /\ TypeOK'
    BY <1>1 DEF vars, IInv, TypeOK
  <2> QED  BY <2>1, ProgramsMove DEF Exists
<1>2. CASE Next
  <2>1. CASE \E scope \in Scopes, part \in {"main", "alert"} : PartEnds(scope, part)
    BY <2>1, PartEndsStep
  <2>2. ASSUME NEW c \in Admins,
               \/ LockLineup(c) \/ CheckPrograms(c) \/ CommitLineup(c)
               \/ RemoveProgram(c) \/ RegisterDevice(c) \/ PrepareOverrides(c)
               \/ WriteDevice(c) \/ SetLive(c)
        PROVE  IInv'
    BY <2>2, LockLineupStep, CheckProgramsStep, CommitLineupStep, RemoveProgramStep,
       RegisterDeviceStep, PrepareOverridesStep, WriteDeviceStep, SetLiveStep
  <2>3. ASSUME NEW c \in Admins, NEW g \in Groups,
               \/ CreateGroup(c, g) \/ HideOrShowGroup(c, g)
               \/ RemoveGroup(c, g) \/ OpenLineup(c, g)
        PROVE  IInv'
    BY <2>3, CreateGroupStep, HideOrShowGroupStep, RemoveGroupStep, OpenLineupStep
  <2>4. ASSUME NEW c \in Admins, NEW p \in Programs,
               CreateProgram(c, p) \/ EditProgram(c, p) \/ LockProgram(c, p)
        PROVE  IInv'
    BY <2>4, CreateProgramStep, EditProgramStep, LockProgramStep
  <2>5. ASSUME NEW c \in Admins, NEW d \in Devices,
               CheckRegistration(c, d) \/ ReadDevice(c, d)
        PROVE  IInv'
    BY <2>5, CheckRegistrationStep, ReadDeviceStep
  <2>6. ASSUME NEW c \in Admins, NEW scope \in Scopes,
               CheckLive(c, scope) \/ ClearLive(c, scope)
        PROVE  IInv'
    BY <2>6, CheckLiveStep, ClearLiveStep
  <2> QED  BY <1>2, <2>1, <2>2, <2>3, <2>4, <2>5, <2>6 DEF Next
<1> QED  BY <1>1, <1>2

LEMMA Invariant == Spec => []IInv
<1>1. Init => IInv
  BY InitIsGood
<1>2. IInv /\ [Next]_vars => IInv'
  BY NextKeeps
<1> QED  BY <1>1, <1>2, PTL DEF Spec

-----------------------------------------------------------------------------
(* The theorems.                                                           *)

(* For every interleaving of administrators: a program that a lineup's     *)
(* blocks or info bar, or a device's info bar, points at exists, and a     *)
(* group has a lineup exactly while it exists and every device is in       *)
(* groups that exist (ProgramsService.remove, LineupsService.replace and   *)
(* prepareOverrides, TargetGroupsService.remove).                          *)
THEOREM NothingDangles == Spec => []ReferencesHold
<1>1. IInv => ReferencesHold
  BY DEF IInv, ReferencesHold
<1> QED  BY <1>1, Invariant, PTL

(* What an editor overwrites is exactly what was on its screen: a version  *)
(* check under the row lock is enough (LineupsService.replace).            *)
THEOREM ReplacedAsSeen == Spec => NoLostReplacement
<1>1. ASSUME IInv, [Next]_vars, NEW c \in Admins,
             requests[c].op = "replace", requests[c].step = "checked"
      PROVE  requests[c].seen = lineups[requests[c].group]
  BY <1>1 DEF IInv, HeldLineupIsSeen, HoldsLineup
<1>2. IInv /\ [Next]_vars =>
        [\A c \in Admins :
           (/\ requests[c].op = "replace" /\ requests[c].step = "checked"
            /\ requests'[c].op = "idle")
             => requests[c].seen = lineups[requests[c].group]]_vars
  BY <1>1
<1> QED  BY <1>2, Invariant, PTL DEF Spec, NoLostReplacement

(* A lineup that some device follows takes no id back that it has lost: a  *)
(* draft keeps ids of the lineup it replaces, and new ids are new.         *)
LEMMA IdsDoNotReturn ==
  ASSUME IInv, [Next]_vars, NEW h \in Groups, GroupExists(h),
         NEW b \in issued, b \in DOMAIN lineups'[h].blocks,
         \E d \in Devices : devices[d].follows = h
  PROVE  b \in DOMAIN lineups[h].blocks
<1>1. CASE UNCHANGED lineups
  BY <1>1
<1>2. ASSUME NEW c \in Admins, NEW g \in Groups, CreateGroup(c, g)
      PROVE  b \in DOMAIN lineups[h].blocks
  <2>1. g # h /\ lineups' = [lineups EXCEPT ![g] = DefaultLineup(NewBlockId)]
    BY <1>2 DEF CreateGroup, GroupExists
  <2> QED  BY <2>1 DEF IInv, TypeOK
<1>3. ASSUME NEW c \in Admins, NEW g \in Groups, RemoveGroup(c, g)
      PROVE  b \in DOMAIN lineups[h].blocks
  <2>1. g # h /\ lineups' = [lineups EXCEPT ![g] = NoLineup]
    BY <1>3 DEF RemoveGroup, UsageOf
  <2> QED  BY <2>1 DEF IInv, TypeOK
<1>4. ASSUME NEW c \in Admins, CommitLineup(c)
      PROVE  b \in DOMAIN lineups[h].blocks
  <2> DEFINE g == requests[c].group
             new == lineups'[g]
  <2>1. /\ g \in Groups /\ lineups' = [lineups EXCEPT ![g] = new]
        /\ \A i \in DOMAIN new.blocks : i \in DOMAIN lineups[g].blocks \/ i \notin issued
    BY <1>4, Committed
  <2>2. CASE h = g
    BY <2>1, <2>2
  <2>3. CASE h # g
    BY <2>1, <2>3 DEF IInv, TypeOK
  <2> QED  BY <2>2, <2>3
<1>5. \/ UNCHANGED lineups
      \/ \E c \in Admins : \/ CommitLineup(c)
                           \/ \E g \in Groups : CreateGroup(c, g) \/ RemoveGroup(c, g)
  <2>1. ASSUME NEW c \in Admins,
               \/ LockLineup(c) \/ CheckPrograms(c) \/ RemoveProgram(c)
               \/ RegisterDevice(c) \/ PrepareOverrides(c) \/ WriteDevice(c) \/ SetLive(c)
        PROVE  UNCHANGED lineups
    BY <2>1 DEF LockLineup, CheckPrograms, RemoveProgram, RegisterDevice,
       PrepareOverrides, WriteDevice, SetLive, Refuse
  <2>2. ASSUME NEW c \in Admins, NEW g \in Groups, HideOrShowGroup(c, g) \/ OpenLineup(c, g)
        PROVE  UNCHANGED lineups
    BY <2>2 DEF HideOrShowGroup, OpenLineup
  <2>3. ASSUME NEW c \in Admins, NEW p \in Programs,
               CreateProgram(c, p) \/ EditProgram(c, p) \/ LockProgram(c, p)
        PROVE  UNCHANGED lineups
    BY <2>3 DEF CreateProgram, EditProgram, LockProgram
  <2>4. ASSUME NEW c \in Admins, NEW d \in Devices,
               CheckRegistration(c, d) \/ ReadDevice(c, d)
        PROVE  UNCHANGED lineups
    BY <2>4 DEF CheckRegistration, ReadDevice
  <2>5. ASSUME NEW c \in Admins, NEW scope \in Scopes,
               CheckLive(c, scope) \/ ClearLive(c, scope)
        PROVE  UNCHANGED lineups
    BY <2>5 DEF CheckLive, ClearLive
  <2>6. ASSUME NEW scope \in Scopes, NEW part \in {"main", "alert"}, PartEnds(scope, part)
        PROVE  UNCHANGED lineups
    BY <2>6 DEF PartEnds
  <2>7. UNCHANGED vars => UNCHANGED lineups
    BY DEF vars
  <2> QED  BY <2>1, <2>2, <2>3, <2>4, <2>5, <2>6, <2>7 DEF Next
<1> QED  BY <1>1, <1>2, <1>3, <1>4, <1>5

(* As long as nobody rewrites the device, the exceptions that apply to it  *)
(* only become fewer, however its lineup is edited (blockIdErrors,         *)
(* pruneOverrides, resolveLineup).                                         *)
THEOREM DeadExceptions == Spec => DeadExceptionsStayDead
<1>1. ASSUME IInv, [Next]_vars, NEW d \in Devices, devices'[d] = devices[d]
      PROVE  Applied(d)' \subseteq Applied(d)
  <2>1. CASE devices[d] = NoDevice
    BY <1>1, <2>1 DEF Applied
  <2>2. CASE devices[d] # NoDevice
    <3> DEFINE h == devices[d].follows
    <3>1. h \in Groups /\ GroupExists(h) /\ devices[d].overrides.off \subseteq issued
      BY <1>1, <2>2 DEF IInv, TypeOK, Device, FollowedGroupExists, OffWasIssued
    <3>2. \A b \in issued : b \in DOMAIN lineups'[h].blocks => b \in DOMAIN lineups[h].blocks
      BY <1>1, <3>1, IdsDoNotReturn
    <3> QED  BY <1>1, <2>2, <3>1, <3>2 DEF Applied
  <2> QED  BY <2>1, <2>2
<1>2. IInv /\ [Next]_vars =>
        [\A d \in Devices : devices'[d] = devices[d] => Applied(d)' \subseteq Applied(d)]_vars
  BY <1>1
<1> QED  BY <1>2, Invariant, PTL DEF Spec, DeadExceptionsStayDead

-----------------------------------------------------------------------------
(* The layers of a live override, and the first of them that counts.       *)

(* Min, of the community modules, is the least element.                    *)
LEMMA LeastOf ==
  ASSUME NEW I \in SUBSET Nat, I # {}
  PROVE  Min(I) \in I /\ \A i \in I : Min(I) <= i
<1> DEFINE R == OpToRel(<, Nat)
<1>1. \A m, n \in Nat : <<m, n>> \in R <=> m < n
  <2>1. R = {ss \in Nat \X Nat : ss[1] < ss[2]} BY Zenon DEF OpToRel
  <2> HIDE DEF R
  <2> QED BY <2>1
<1>2. \E n \in I : \A m \in I : ~ (<<m, n>> \in R)
  BY NatLessThanWellFounded, WFMin, Zenon
<1> HIDE DEF R
<1>3. \E n \in I : \A m \in I : n <= m
  <2>1. PICK n \in I : \A m \in I : ~ (<<m, n>> \in R) BY <1>2
  <2>2. \A m \in I : n <= m
    <3> TAKE m \in I
    <3>1. m \in Nat /\ n \in Nat OBVIOUS
    <3>2. ~ (m < n) BY <2>1, <1>1, <3>1, Zenon
    <3> QED BY <3>1, <3>2
  <2> QED BY <2>2
<1> QED BY <1>3 DEF Min

(* The first layer with a main part, and whether one has an alert.         *)
LEMMA FirstMain ==
  ASSUME NEW layers \in Seq(Layer), NEW k, k = SelectInSeq(layers, MainAlive)
  PROVE  \/ k = 0 /\ \A i \in 1..Len(layers) : ~MainAlive(layers[i])
         \/ /\ k \in 1..Len(layers) /\ MainAlive(layers[k])
            /\ \A i \in 1..(k - 1) : ~MainAlive(layers[i])
<1> DEFINE I == {i \in 1..Len(layers) : MainAlive(layers[i])}
<1>1. k = IF I # {} THEN Min(I) ELSE 0 BY DEF SelectInSeq
<1>2. CASE I = {} BY <1>1, <1>2
<1>3. CASE I # {}
  <2>1. I \in SUBSET Nat BY DEF I
  <2>2. k = Min(I) BY <1>1, <1>3
  <2>3. k \in I /\ \A i \in I : k <= i BY <2>1, <2>2, <1>3, LeastOf
  <2>4. k \in 1..Len(layers) /\ MainAlive(layers[k]) BY <2>3
  <2>5. \A i \in 1..(k - 1) : ~MainAlive(layers[i])
    <3>1. SUFFICES ASSUME NEW i \in 1..(k - 1), MainAlive(layers[i]) PROVE FALSE OBVIOUS
    <3>2. i \in 1..Len(layers) BY <2>4
    <3>3. i \in I BY <3>1, <3>2
    <3> HIDE DEF I
    <3> QED BY <3>3, <2>3, <2>4
  <2> QED BY <2>4, <2>5
<1> QED BY <1>2, <1>3

LEMMA FirstAlert ==
  ASSUME NEW layers \in Seq(Layer)
  PROVE  SelectInSeq(layers, AlertAlive) # 0
           <=> \E i \in 1..Len(layers) : AlertAlive(layers[i])
<1> DEFINE I == {i \in 1..Len(layers) : AlertAlive(layers[i])}
           k == SelectInSeq(layers, AlertAlive)
<1>1. k = IF I # {} THEN Min(I) ELSE 0 BY DEF SelectInSeq
<1>2. CASE I = {} BY <1>1, <1>2
<1>3. CASE I # {}
  <2>1. I \in SUBSET Nat BY DEF I
  <2>2. k = Min(I) BY <1>1, <1>3
  <2>3. Min(I) \in I BY <2>1, <1>3, LeastOf
  <2>4. k \in 1..Len(layers) /\ AlertAlive(layers[k]) BY <2>2, <2>3
  <2> QED BY <2>4, <2>2, <2>3
<1> QED BY <1>2, <1>3

(* A sequence of all the elements of a finite set reaches each of them.    *)
LEMMA AllInOrder ==
  ASSUME NEW S, IsFiniteSet(S), NEW order \in SetToSeqs(S)
  PROVE  /\ order \in Seq(S)
         /\ \A x \in S : \E i \in 1..Len(order) : order[i] = x
<1> DEFINE n == Cardinality(S)
<1>1. n \in Nat BY FS_CardinalityType
<1>2. /\ order \in [1..n -> S]
      /\ \A i, j \in 1..n : i # j => order[i] # order[j]
  BY DEF SetToSeqs
<1> HIDE DEF n
<1>3. order \in Seq(S) /\ Len(order) = n BY <1>1, <1>2
<1>4. ASSUME NEW x \in S, \A i \in 1..n : order[i] # x
      PROVE  FALSE
  <2> DEFINE T == S \ {x}
  <2>1. IsFiniteSet(T) /\ Cardinality(T) = n - 1 BY <1>4, FS_RemoveElement DEF n
  <2>2. order \in [1..n -> T] BY <1>2, <1>4
  <2>3. IsFiniteSet(1..n) /\ Cardinality(1..n) = n
    <3>1. /\ IsFiniteSet(1..n)
          /\ Cardinality(1..n) = IF 1 > n THEN 0 ELSE n - 1 + 1
      BY <1>1, FS_Interval
    <3> QED BY <3>1, <1>1
  <2> HIDE DEF T
  <2>4. Cardinality(T) < Cardinality(1..n) BY <2>1, <2>3, <1>1
  <2>5. \E i, j \in 1..n : i # j /\ order[i] = order[j]
    BY <2>1, <2>2, <2>3, <2>4, FS_PigeonHole
  <2> QED BY <2>5, <1>2
<1> QED BY <1>3, <1>4

(* The device, if it has a main part, or the groups for which one was set  *)
(* last.                                                                   *)
Newest(d, member) ==
  IF HasMain(d) THEN {d}
  ELSE {g \in member :
          HasMain(g) /\ \A h \in member : HasMain(h) => live[h].setAt <= live[g].setAt}

(* The layers are a sequence of all those that are not empty.              *)
LEMMA LayersAre ==
  ASSUME TypeOK, NEW d \in Devices, NEW member \in SUBSET Groups,
         NEW layers \in Layers(d, member)
  PROVE  /\ layers \in Seq(Layer) /\ Len(layers) >= 1 /\ layers[1] = live[d]
         /\ \A i \in 2..Len(layers) : \E g \in member : layers[i] = live[g]
         /\ \A g \in member : live[g] # NoLive =>
              \E i \in 2..Len(layers) : layers[i] = live[g]
         /\ \A i, j \in 2..Len(layers) : i < j => layers[i].setAt >= layers[j].setAt
<1> DEFINE S == {g \in member : live[g] # NoLive}
<1>1. PICK order \in SetToSeqs(S) :
        /\ NewestFirst(order)
        /\ layers = [i \in 1..Len(order) + 1 |->
                       live[IF i = 1 THEN d ELSE order[i - 1]]]
  BY DEF Layers
<1>2. IsFiniteSet(S) BY PlaylistConstantsOK, FS_Subset
<1>3. S \subseteq member /\ S \subseteq Groups OBVIOUS
<1>4. \A g \in member : live[g] # NoLive => g \in S OBVIOUS
<1>5. \A s \in {d} \cup Groups : live[s] \in Layer BY DEF TypeOK, Scopes
<1> HIDE DEF S
<1>6. /\ order \in Seq(S)
      /\ \A x \in S : \E i \in 1..Len(order) : order[i] = x
  BY <1>2, AllInOrder
<1> DEFINE n == Len(order)
<1>7. n \in Nat /\ DOMAIN order = 1..n /\ \A i \in 1..n : order[i] \in S
  BY <1>6
<1>8. \A i \in 2..n + 1 : i - 1 \in 1..n /\ layers[i] = live[order[i - 1]]
  BY <1>1, <1>7
<1>9. layers[1] = live[d] BY <1>1, <1>7
<1>10. layers \in Seq(Layer) /\ Len(layers) = n + 1
  <2>1. \A i \in 1..n + 1 : live[IF i = 1 THEN d ELSE order[i - 1]] \in Layer
    BY <1>3, <1>5, <1>7
  <2>2. layers \in [1..n + 1 -> Layer] BY <1>1, <2>1
  <2> QED BY <2>2, <1>7
<1>11. \A i \in 2..n + 1 : \E g \in member : layers[i] = live[g]
  BY <1>3, <1>7, <1>8
<1>12. ASSUME NEW g \in member, live[g] # NoLive
       PROVE  \E i \in 2..n + 1 : layers[i] = live[g]
  <2>1. PICK i \in 1..n : order[i] = g BY <1>4, <1>6, <1>12
  <2>2. i + 1 \in 2..n + 1 /\ (i + 1) - 1 = i BY <1>7
  <2>3. layers[i + 1] = live[g] BY <1>8, <2>1, <2>2
  <2> QED BY <2>2, <2>3
<1>13. ASSUME NEW i \in 2..n + 1, NEW j \in 2..n + 1, i < j
       PROVE  layers[i].setAt >= layers[j].setAt
  <2>1. i - 1 \in 1..n /\ j - 1 \in 1..n /\ i - 1 < j - 1 BY <1>13, <1>7
  <2>2. live[order[i - 1]].setAt >= live[order[j - 1]].setAt
    BY <1>1, <1>7, <2>1 DEF NewestFirst
  <2> QED BY <1>8, <2>2
<1> HIDE DEF n
<1> QED BY <1>7, <1>9, <1>10, <1>11, <1>12, <1>13

(* What the rules say of the two parts of live.                            *)
IsRuled(r, d, member) ==
  LET scopes == {d} \cup member IN
  /\ r.alert = \E s \in scopes : HasAlert(s)
  /\ (\A s \in scopes : ~HasMain(s)) => r.main = None
  /\ (\E s \in scopes : HasMain(s)) => \E s \in Newest(d, member) : r.main = live[s].main

(* The first of the layers that has a main part is that of the device or   *)
(* of a group for which it was set last.                                   *)
LEMMA ResolvedAsRuled ==
  ASSUME TypeOK, NEW d \in Devices, NEW member \in SUBSET Groups,
         NEW layers \in Layers(d, member)
  PROVE  IsRuled(ResolveLive(layers), d, member)
<1> DEFINE r == ResolveLive(layers)
           main == SelectInSeq(layers, MainAlive)
           alert == SelectInSeq(layers, AlertAlive)
<1>0. r.main = (IF main = 0 THEN None ELSE layers[main].main) /\ r.alert = (alert # 0)
  BY DEF ResolveLive
<1>1. /\ layers \in Seq(Layer) /\ Len(layers) >= 1 /\ layers[1] = live[d]
      /\ \A i \in 2..Len(layers) : \E g \in member : layers[i] = live[g]
      /\ \A g \in member : live[g] # NoLive =>
           \E i \in 2..Len(layers) : layers[i] = live[g]
      /\ \A i, j \in 2..Len(layers) : i < j => layers[i].setAt >= layers[j].setAt
  BY LayersAre
<1>2. Len(layers) \in Nat BY <1>1
<1>3. /\ \A s : HasMain(s) <=> MainAlive(live[s])
      /\ \A s : HasAlert(s) <=> AlertAlive(live[s])
  BY DEF HasMain, HasAlert, MainAlive, AlertAlive
<1>4. ~MainAlive(NoLive) /\ ~AlertAlive(NoLive)
  BY DEF NoLive, MainAlive, AlertAlive
<1>5. \A i \in 1..Len(layers) : \E s \in {d} \cup member : layers[i] = live[s]
  BY <1>1, <1>2
<1>6. \A s \in {d} \cup member : live[s] # NoLive =>
        \E i \in 1..Len(layers) : layers[i] = live[s]
  BY <1>1, <1>2
<1>7. \/ main = 0 /\ \A i \in 1..Len(layers) : ~MainAlive(layers[i])
      \/ /\ main \in 1..Len(layers) /\ MainAlive(layers[main])
         /\ \A i \in 1..(main - 1) : ~MainAlive(layers[i])
  BY <1>1, FirstMain
<1>8. alert # 0 <=> \E i \in 1..Len(layers) : AlertAlive(layers[i])
  BY <1>1, FirstAlert
<1>9. \A g \in {d} \cup member : live[g] \in Layer BY DEF TypeOK, Scopes
<1> HIDE DEF r, main, alert
<1>10. (\E i \in 1..Len(layers) : AlertAlive(layers[i]))
          <=> \E s \in {d} \cup member : HasAlert(s)
  BY <1>3, <1>4, <1>5, <1>6
<1>11. (\E i \in 1..Len(layers) : MainAlive(layers[i]))
          <=> \E s \in {d} \cup member : HasMain(s)
  BY <1>3, <1>4, <1>5, <1>6
<1>12. r.alert = \E s \in {d} \cup member : HasAlert(s)
  BY <1>0, <1>8, <1>10
<1>13. (\A s \in {d} \cup member : ~HasMain(s)) => r.main = None
  BY <1>0, <1>7, <1>11
<1>14. ASSUME \E s \in {d} \cup member : HasMain(s)
       PROVE  \E s \in Newest(d, member) : r.main = live[s].main
  <2>1. /\ main \in 1..Len(layers) /\ MainAlive(layers[main])
        /\ \A i \in 1..(main - 1) : ~MainAlive(layers[i])
    BY <1>7, <1>11, <1>14
  <2>2. r.main = layers[main].main BY <1>0, <2>1, <1>2
  <2>3. CASE main = 1
    <3>1. HasMain(d) BY <2>1, <2>3, <1>1, <1>3
    <3>2. d \in Newest(d, member) BY <3>1 DEF Newest
    <3> QED BY <3>2, <2>2, <2>3, <1>1
  <2>4. CASE main # 1
    <3>1. main \in 2..Len(layers) /\ 1 \in 1..(main - 1) BY <2>1, <2>4, <1>2
    <3>2. ~HasMain(d) BY <3>1, <2>1, <1>1, <1>3
    <3>3. PICK g \in member : layers[main] = live[g] BY <3>1, <1>1
    <3>4. HasMain(g) BY <3>3, <2>1, <1>3
    <3>5. ASSUME NEW h \in member, HasMain(h)
          PROVE  live[h].setAt <= live[g].setAt
      <4>1. live[h] # NoLive BY <3>5, <1>3, <1>4
      <4>2. PICK i \in 2..Len(layers) : layers[i] = live[h] BY <4>1, <1>1
      <4>3. MainAlive(layers[i]) BY <4>2, <3>5, <1>3
      <4>4. ~(i \in 1..(main - 1)) BY <4>3, <2>1
      <4>5. i = main \/ main < i BY <4>4, <3>1, <1>2
      <4>6. CASE i = main
        <5>1. live[h].setAt \in Nat BY <1>9 DEF Layer
        <5> QED BY <5>1, <4>6, <4>2, <3>3
      <4>7. CASE main < i
        <5>1. layers[main].setAt >= layers[i].setAt BY <4>7, <3>1, <1>1
        <5> QED BY <5>1, <4>2, <3>3
      <4> QED BY <4>5, <4>6, <4>7
    <3>6. g \in Newest(d, member) BY <3>2, <3>4, <3>5 DEF Newest
    <3> QED BY <3>6, <3>3, <2>2
  <2> QED BY <2>3, <2>4
<1> QED BY <1>12, <1>13, <1>14 DEF r, IsRuled

-----------------------------------------------------------------------------
(* What a TV shows: polls, while the configuration changes.                *)

(* What a poll has read while nothing changed is so.                       *)
ReadRight(d, poll) ==
  LET lineup == lineups[devices[d].follows]
      own == devices[d].overrides
  IN /\ devices[d] # NoDevice /\ poll.row = devices[d]
     /\ "settings" \notin poll.todo => poll.bar = ResolvedBar(lineup, own)
     /\ "blocks" \notin poll.todo => poll.blocks = ResolvedBlocks(lineup, own)
     /\ "items" \notin poll.todo =>
          poll.item = (airing /\ TargetsDevice(devices[d].groups))
     /\ "layers" \in poll.todo =>
          "groups" \notin poll.todo /\ poll.member = devices[d].groups
     /\ {"groups", "layers"} \cap poll.todo = {} =>
          IsRuled(poll.live, d, devices[d].groups)

(* What is answered follows the rules, for what live itself asks for.      *)
AsConfigured(d, poll) ==
  LET lineup == lineups[devices[d].follows]
      own == devices[d].overrides
  IN /\ devices[d] # NoDevice
     /\ poll.bar = ResolvedBar(lineup, own)
     /\ poll.blocks = ResolvedBlocks(lineup, own)
     /\ IsRuled(poll.live, d, devices[d].groups)
     /\ poll.item <=> \/ airing /\ TargetsDevice(devices[d].groups)
                      \/ airing /\ poll.live.main = "SUBMISSION"
     /\ poll.main = Shown(poll.live.main, poll.item)

(* As long as nothing changes, each step of a poll is right.               *)
CalmOK(d) ==
  calm[d] =>
    /\ polls[d].step = "reads" => ReadRight(d, polls[d])
    /\ polls[d].step = "gathered" => AsConfigured(d, polls[d])
    /\ polls[d] = NoPoll => IsExact(screen[d], d)

PollTypes ==
  /\ polls = [d \in Devices |-> polls[d]]
  /\ \A d \in Devices : polls[d].step = "reads" =>
       polls[d] = [step |-> "reads", row |-> polls[d].row, todo |-> polls[d].todo,
                   bar |-> polls[d].bar, blocks |-> polls[d].blocks,
                   item |-> polls[d].item, member |-> polls[d].member,
                   live |-> polls[d].live, main |-> polls[d].main]
  /\ screen = [d \in Devices |-> screen[d]]
  /\ calm \in [Devices -> BOOLEAN]
  /\ airing \in BOOLEAN

TVInv == PollTypes /\ \A d \in Devices : CalmOK(d)

(* Programs that anything shown on a device refers to exist.               *)
LEMMA ShownExist ==
  ASSUME IInv, NEW d \in Devices, devices[d] # NoDevice, NEW p \in Programs,
         p \in ResolvedBar(lineups[devices[d].follows], devices[d].overrides)
                 \cup Range(ResolvedBlocks(lineups[devices[d].follows], devices[d].overrides))
  PROVE  Exists(p)
<1>1. devices[d].follows \in Groups
  BY DEF IInv, FollowedGroupExists, TypeOK, Device
<1>2. NoDanglingProgram BY DEF IInv
<1> DEFINE g == devices[d].follows
<1>3. CASE p \in ResolvedBar(lineups[g], devices[d].overrides)
  BY <1>1, <1>2, <1>3 DEF NoDanglingProgram, ResolvedBar, Exists
<1>4. CASE p \in Range(ResolvedBlocks(lineups[g], devices[d].overrides))
  <2>1. p \in Range(lineups[g].blocks) BY <1>4 DEF ResolvedBlocks, Restrict, Range
  <2> QED BY <2>1, <1>1, <1>2 DEF NoDanglingProgram, Exists
<1> QED BY <1>3, <1>4

(* What is answered then is what the rules say.                            *)
LEMMA ContentIsExact ==
  ASSUME IInv, PollTypes, NEW d \in Devices, AsConfigured(d, polls[d])
  PROVE  IsExact(Content(d), d)
<1> DEFINE poll == polls[d]
           lineup == lineups[devices[d].follows]
           own == devices[d].overrides
           scopes == {d} \cup devices[d].groups
           item == poll.item
           refs == (poll.bar \cup Range(poll.blocks) \cup {poll.main}) \cap Programs
           carried == {p \in refs : Exists(p)}
           c == Content(d)
           main == c.live.main
<1>1. /\ c.bar = poll.bar /\ c.blocks = poll.blocks /\ c.item = item
      /\ c.programs = [p \in carried |-> programs[p]]
      /\ main = ShownProgram(poll.main, carried)
      /\ c.live.alert = poll.live.alert
  BY DEF Content
<1> DEFINE wish == poll.live
<1>0. /\ IsRuled(wish, d, devices[d].groups)
      /\ poll.item <=> \/ airing /\ TargetsDevice(devices[d].groups)
                       \/ airing /\ wish.main = "SUBMISSION"
      /\ poll.main = Shown(wish.main, poll.item)
  BY DEF AsConfigured
<1>2. /\ devices[d] # NoDevice
      /\ poll.bar = ResolvedBar(lineup, own)
      /\ poll.blocks = ResolvedBlocks(lineup, own)
      /\ poll.live.alert = \E s \in scopes : HasAlert(s)
      /\ (\A s \in scopes : ~HasMain(s)) => wish.main = None
      /\ (\E s \in scopes : HasMain(s)) =>
           \E s \in Newest(d, devices[d].groups) : wish.main = live[s].main
  BY <1>0 DEF AsConfigured, IsRuled
<1>3. /\ devices[d].follows \in Groups /\ lineup \in Lineup
      /\ devices[d].groups \subseteq Groups
      /\ \A s \in scopes : live[s].main \in Shows \cup {None}
  <2>1. TypeOK /\ FollowedGroupExists BY DEF IInv
  <2>2. devices[d] \in Device BY <2>1 DEF TypeOK
  <2>3. devices[d].groups \subseteq Groups BY <2>2 DEF Device
  <2>4. devices[d].follows \in Groups BY <1>2, <2>1, <2>2 DEF FollowedGroupExists, Device
  <2>5. lineup \in Lineup BY <2>1, <2>4 DEF TypeOK
  <2>6. \A s \in Scopes : live[s] \in Layer BY <2>1 DEF TypeOK
  <2>7. \A s \in Scopes : live[s].main \in Shows \cup {None} BY <2>6 DEF Layer
  <2>8. scopes \subseteq Scopes BY <2>3 DEF Scopes
  <2> HIDE DEF scopes
  <2> QED BY <2>3, <2>4, <2>5, <2>7, <2>8
<1>4. "SUBMISSION" \notin Programs /\ None # "SUBMISSION" /\ None \notin Programs
  BY PlaylistConstantsOK, SignageConstantsOK
<1>5. wish.main \in Shows \cup {None}
  <2>1. Newest(d, devices[d].groups) \subseteq scopes BY DEF Newest
  <2> QED BY <2>1, <1>2, <1>3
<1>6. wish.main = "SUBMISSION" =>
        /\ item <=> airing
        /\ main = IF airing THEN "SUBMISSION" ELSE None
  <2>1. wish.main = "SUBMISSION" =>
          /\ item <=> airing
          /\ poll.main = IF airing THEN "SUBMISSION" ELSE None
    BY <1>0 DEF Shown, PollTypes
  <2> QED BY <2>1, <1>1, <1>4 DEF ShownProgram
<1>7. wish.main \in Programs =>
        /\ poll.main = wish.main
        /\ main = IF Exists(wish.main) THEN wish.main ELSE None
  <2>1. wish.main \in Programs => poll.main = wish.main
    BY <1>0, <1>4 DEF Shown
  <2> QED BY <2>1, <1>1 DEF ShownProgram
<1>8. wish.main = None => main = None
  BY <1>0, <1>1, <1>4 DEF ShownProgram, Shown
<1>9. \A p \in Programs : p = poll.main => p = wish.main
  BY <1>0, <1>4 DEF Shown
<1> HIDE DEF c, main, carried, refs, item, wish, poll
<1>10. main \in RuledMains(d)
  <2>1. CASE \A s \in scopes : ~HasMain(s)
    BY <2>1, <1>2, <1>8 DEF RuledMains
  <2>2. CASE \E s \in scopes : HasMain(s)
    <3>1. PICK s \in Newest(d, devices[d].groups) : wish.main = live[s].main
      BY <2>2, <1>2
    <3>2. s \in RulingScopes(d) BY <3>1 DEF Newest, RulingScopes
    <3>3. main = IF \/ live[s].main = "SUBMISSION" /\ airing
                    \/ live[s].main \in Programs /\ Exists(live[s].main)
                 THEN live[s].main ELSE None
      BY <3>1, <1>4, <1>5, <1>6, <1>7, <1>8 DEF Shows
    <3> QED BY <2>2, <3>2, <3>3 DEF RuledMains
  <2> QED BY <2>1, <2>2
<1>11. c.live.alert = \E s \in scopes : HasAlert(s) BY <1>1, <1>2
<1>12. c.bar = (IF own.bar # None THEN own.bar ELSE lineup.bar)
  BY <1>1, <1>2 DEF ResolvedBar
<1>13. \A b \in BlockIds :
         IF b \in DOMAIN lineup.blocks /\ b \notin own.off
         THEN b \in DOMAIN c.blocks /\ c.blocks[b] = lineup.blocks[b]
         ELSE b \notin DOMAIN c.blocks
  BY <1>1, <1>2 DEF ResolvedBlocks, Restrict
<1>14. c.item <=> (airing /\ ((\A g \in Groups : g \notin Targeted)
             \/ (\E g \in Targeted : g \in devices[d].groups)
             \/ main = "SUBMISSION"))
  <2>1. main = "SUBMISSION" <=> wish.main = "SUBMISSION" /\ airing
    BY <1>4, <1>5, <1>6, <1>7, <1>8 DEF Shows
  <2>2. TargetsDevice(devices[d].groups)
          <=> \/ \A g \in Groups : g \notin Targeted
              \/ \E g \in Targeted : g \in devices[d].groups
    BY SignageConstantsOK DEF TargetsDevice
  <2> DEFINE T == TargetsDevice(devices[d].groups)
             X == wish.main = "SUBMISSION"
             A == \A g \in Groups : g \notin Targeted
             B == \E g \in Targeted : g \in devices[d].groups
             M == main = "SUBMISSION"
  <2>3. c.item = item BY <1>1
  <2>4. item <=> (airing /\ T) \/ (airing /\ X) BY <1>0 DEF item
  <2>5. M <=> X /\ airing BY <2>1
  <2>6. T <=> A \/ B BY <2>2
  <2>7. c.item <=> item BY <2>3
  <2> HIDE DEF T, X, A, B, M
  <2>8. c.item <=> airing /\ (A \/ B \/ M)
    BY <2>4, <2>5, <2>6, <2>7, Zenon
  <2> QED BY <2>8, Zenon DEF A, B, M
<1>15. ASSUME NEW p \in Programs
       PROVE  IF p \in c.bar \cup Range(c.blocks) \cup {main}
              THEN p \in DOMAIN c.programs /\ c.programs[p] = programs[p]
              ELSE p \notin DOMAIN c.programs
  <2>1. p \in c.bar \cup Range(c.blocks) => p \in refs /\ Exists(p)
    BY <1>1, <1>2, ShownExist DEF refs
  <2>2. p = main => p = wish.main /\ Exists(p)
    BY <1>4, <1>5, <1>6, <1>7, <1>8 DEF Shows
  <2>3. p = main => p \in refs BY <2>2, <1>7 DEF refs
  <2>4. p \in carried => p \in c.bar \cup Range(c.blocks) \cup {main}
    BY <1>1, <1>7, <1>9 DEF refs, carried
  <2>5. p \in c.bar \cup Range(c.blocks) \cup {main} => p \in carried
    BY <2>1, <2>2, <2>3 DEF carried
  <2> QED BY <2>4, <2>5, <1>1
<1>16. \A p \in Programs :
         IF p \in c.bar \cup Range(c.blocks) \cup {main}
         THEN p \in DOMAIN c.programs /\ c.programs[p] = programs[p]
         ELSE p \notin DOMAIN c.programs
  BY <1>15
<1> HIDE DEF scopes, lineup, own
<1>17. IsExact(c, d) <=>
         /\ main \in RuledMains(d)
         /\ c.live.alert = \E s \in scopes : HasAlert(s)
         /\ c.bar = (IF own.bar # None THEN own.bar ELSE lineup.bar)
         /\ \A b \in BlockIds :
              IF b \in DOMAIN lineup.blocks /\ b \notin own.off
              THEN b \in DOMAIN c.blocks /\ c.blocks[b] = lineup.blocks[b]
              ELSE b \notin DOMAIN c.blocks
         /\ c.item <=> (airing /\ ((\A g \in Groups : g \notin Targeted)
             \/ (\E g \in Targeted : g \in devices[d].groups)
             \/ main = "SUBMISSION"))
         /\ \A p \in Programs :
              IF p \in c.bar \cup Range(c.blocks) \cup {main}
              THEN p \in DOMAIN c.programs /\ c.programs[p] = programs[p]
              ELSE p \notin DOMAIN c.programs
  BY DEF IsExact, main, scopes, lineup, own
<1>18. IsExact(c, d)
  BY <1>10, <1>11, <1>12, <1>13, <1>14, <1>16, <1>17, Zenon
<1> QED BY <1>18 DEF c

(* What a poll has read stays right while the configuration stays.         *)
LEMMA RightStays ==
  ASSUME NEW d \in Devices, NEW poll, UNCHANGED <<vars, airing>>, polls'[d] = poll
  PROVE  /\ ReadRight(d, polls[d])' <=> ReadRight(d, poll)
         /\ AsConfigured(d, polls[d])' <=> AsConfigured(d, poll)
<1> DEFINE member == devices[d].groups
<1>1. /\ lineups' = lineups /\ devices' = devices /\ live' = live /\ airing' = airing
      /\ member' = member
  BY DEF vars
<1>2. (\A s : HasMain(s)' <=> HasMain(s)) /\ (\A s : HasAlert(s)' <=> HasAlert(s))
  BY <1>1 DEF HasMain, HasAlert
<1>3. Newest(d, member)' = Newest(d, member)
  BY <1>1, <1>2 DEF Newest
<1>4. TargetsDevice(member)' <=> TargetsDevice(member)
  BY <1>1 DEF TargetsDevice
<1>5. (\E s \in {d} \cup member : HasAlert(s))' <=> \E s \in {d} \cup member : HasAlert(s)
  BY <1>1, <1>2
<1>6. (\A s \in {d} \cup member : ~HasMain(s))' <=> \A s \in {d} \cup member : ~HasMain(s)
  BY <1>1, <1>2
<1>7. (\E s \in Newest(d, member) : polls[d].live.main = live[s].main)'
        <=> \E s \in Newest(d, member) : poll.live.main = live[s].main
  BY <1>1, <1>3
<1>8. IsRuled(polls[d].live, d, member)' <=> IsRuled(poll.live, d, member)
  BY <1>1, <1>2, <1>3, <1>5, <1>6, <1>7 DEF IsRuled
<1>9. (polls[d])' = poll
  OBVIOUS
<1>10. (ReadRight(d, polls[d]))' <=> ReadRight(d, poll)
  BY <1>1, <1>4, <1>8, <1>9 DEF ReadRight, ResolvedBar, ResolvedBlocks, Restrict
<1>11. (AsConfigured(d, polls[d]))' <=> AsConfigured(d, poll)
  BY <1>1, <1>4, <1>8, <1>9 DEF AsConfigured, ResolvedBar, ResolvedBlocks, Restrict, Shown
<1> QED BY <1>10, <1>11

(* While the configuration and a device's poll and screen stay, what is    *)
(* said of them stays.                                                     *)
LEMMA CalmStays ==
  ASSUME NEW d \in Devices, CalmOK(d), UNCHANGED <<vars, airing>>,
         polls'[d] = polls[d], screen'[d] = screen[d], calm'[d] = calm[d]
  PROVE  CalmOK(d)'
<1>1. /\ groups' = groups /\ lineups' = lineups /\ programs' = programs
      /\ devices' = devices /\ live' = live /\ airing' = airing
  BY DEF vars
<1>2. (\A s : HasMain(s)' <=> HasMain(s)) /\ (\A s : HasAlert(s)' <=> HasAlert(s))
  BY <1>1 DEF HasMain, HasAlert
<1>5. RulingScopes(d)' = RulingScopes(d) BY <1>1, <1>2 DEF RulingScopes
<1>6. RuledMains(d)' = RuledMains(d)
  BY <1>1, <1>2, <1>5 DEF RuledMains, Exists
<1>7. IsExact(screen[d], d) => IsExact(screen[d], d)'
  <2> DEFINE c == screen[d]
  <2>1. c' = c OBVIOUS
  <2>2. ASSUME IsExact(c, d) PROVE IsExact(c, d)'
    <3> HIDE DEF c
    <3> QED BY <1>1, <1>2, <1>6, <2>1, <2>2 DEF IsExact
  <2> QED BY <2>2
<1>8. /\ ReadRight(d, polls[d])' <=> ReadRight(d, polls[d])
      /\ AsConfigured(d, polls[d])' <=> AsConfigured(d, polls[d])
  BY RightStays
<1> QED BY <1>1, <1>7, <1>8 DEF CalmOK

LEMMA StartPollStep ==
  ASSUME IInv, TVInv, NEW d \in Devices, StartPoll(d)
  PROVE  TVInv'
<1>1. /\ polls' = [polls EXCEPT ![d] = Begun(devices[d])]
      /\ calm' = [calm EXCEPT ![d] = TRUE] /\ devices[d].active
      /\ UNCHANGED <<vars, airing, screen>>
  BY DEF StartPoll
<1>2. polls'[d] = Begun(devices[d]) /\ \A e \in Devices \ {d} : polls'[e] = polls[e]
  BY <1>1 DEF TVInv, PollTypes
<1>3. PollTypes' BY <1>1, <1>2 DEF TVInv, PollTypes, Begun
<1>4. CalmOK(d)'
  <2>1. devices' = devices /\ devices[d] # NoDevice
    BY <1>1 DEF vars, NoDevice
  <2>2. ReadRight(d, Begun(devices[d])) BY <2>1 DEF ReadRight, Begun, Reads
  <2>3. ReadRight(d, polls[d])' BY <1>1, <1>2, <2>2, RightStays
  <2> QED BY <1>2, <2>3 DEF CalmOK, NoPoll, Begun
<1>5. ASSUME NEW e \in Devices PROVE CalmOK(e)'
  <2>1. CASE e # d
    <3>1. polls'[e] = polls[e] /\ screen'[e] = screen[e] /\ calm'[e] = calm[e]
      BY <1>1, <2>1 DEF TVInv, PollTypes
    <3> QED BY <3>1, <1>1, CalmStays DEF TVInv
  <2> QED BY <2>1, <1>4
<1> QED BY <1>3, <1>5 DEF TVInv

(* A read of one poll disturbs no other.                                   *)
LEMMA ReadKeeps ==
  ASSUME TVInv, NEW d \in Devices, NEW poll,
         UNCHANGED <<vars, airing, screen, calm>>,
         polls' = [polls EXCEPT ![d] = poll], PollTypes', poll.step # "none",
         calm[d] => /\ poll.step = "reads" => ReadRight(d, poll)
                    /\ poll.step = "gathered" => AsConfigured(d, poll)
  PROVE  TVInv'
<1>1. polls'[d] = poll BY DEF TVInv, PollTypes
<1>2. CalmOK(d)' BY <1>1, RightStays DEF CalmOK, NoPoll
<1>3. ASSUME NEW e \in Devices, e # d PROVE CalmOK(e)'
  <2>1. polls'[e] = polls[e] BY <1>3 DEF TVInv, PollTypes
  <2> QED BY <2>1, CalmStays DEF TVInv
<1> QED BY <1>2, <1>3 DEF TVInv

(* What a read that comes back leaves of its poll.                         *)
LEMMA ComesBackFacts ==
  ASSUME TVInv, NEW d \in Devices, NEW read, NEW poll, ComesBack(d, read, poll),
         poll.step = "reads",
         poll = [step |-> poll.step, row |-> poll.row, todo |-> poll.todo,
                 bar |-> poll.bar, blocks |-> poll.blocks, item |-> poll.item,
                 member |-> poll.member,
                 live |-> poll.live, main |-> poll.main]
  PROVE  LET new == polls'[d] IN
         /\ polls[d].step = "reads" /\ read \in polls[d].todo
         /\ UNCHANGED <<vars, airing, screen, calm>>
         /\ PollTypes' /\ polls' = [polls EXCEPT ![d] = new] /\ new.step = "reads"
         /\ new.todo = poll.todo \ {read}
         /\ new.row = poll.row /\ new.bar = poll.bar /\ new.blocks = poll.blocks
         /\ new.item = poll.item /\ new.member = poll.member /\ new.live = poll.live
<1> DEFINE new == [poll EXCEPT !.todo = poll.todo \ {read}]
<1>1. /\ polls[d].step = "reads" /\ read \in polls[d].todo
      /\ polls' = [polls EXCEPT ![d] = new]
      /\ UNCHANGED <<vars, airing, screen, calm>>
  BY DEF ComesBack
<1>2. new = [step |-> "reads", row |-> poll.row, todo |-> poll.todo \ {read},
             bar |-> poll.bar, blocks |-> poll.blocks, item |-> poll.item,
             member |-> poll.member,
             live |-> poll.live, main |-> poll.main]
  OBVIOUS
<1> HIDE DEF new
<1>4. polls'[d] = new /\ \A e \in Devices \ {d} : polls'[e] = polls[e]
  BY <1>1 DEF TVInv, PollTypes
<1>5. PollTypes' BY <1>1, <1>2, <1>4 DEF TVInv, PollTypes
<1>6. /\ new.step = "reads" /\ new.todo = poll.todo \ {read}
      /\ new.row = poll.row /\ new.bar = poll.bar /\ new.blocks = poll.blocks
      /\ new.item = poll.item /\ new.member = poll.member /\ new.live = poll.live
  BY <1>2
<1> QED BY <1>1, <1>4, <1>5, <1>6

(* Whichever read comes back, it has read what is so.                      *)
LEMMA ReadStep ==
  ASSUME IInv, TVInv, NEW d \in Devices,
         \/ ReadSettings(d) \/ ReadBlocks(d) \/ ReadItems(d)
         \/ ReadGroups(d) \/ ReadLayers(d)
  PROVE  TVInv'
<1> DEFINE poll == polls[d]
           row == poll.row
           lineup == lineups[devices[d].follows]
           own == devices[d].overrides
           member == devices[d].groups
<1>0. poll.step = "reads"
  <2>1. ASSUME NEW read, NEW new, ComesBack(d, read, new) PROVE poll.step = "reads"
    BY <2>1 DEF ComesBack
  <2> QED BY <2>1, Zenon DEF ReadSettings, ReadBlocks, ReadItems, ReadGroups, ReadLayers
<1>1. poll = [step |-> "reads", row |-> poll.row, todo |-> poll.todo,
              bar |-> poll.bar, blocks |-> poll.blocks, item |-> poll.item,
              member |-> poll.member,
              live |-> poll.live, main |-> poll.main]
  BY <1>0 DEF TVInv, PollTypes
<1>2. calm[d] => ReadRight(d, poll) BY <1>0 DEF TVInv, CalmOK
<1> HIDE DEF poll
<1>4. CASE ReadSettings(d)
  <2> DEFINE new == [poll EXCEPT !.bar = ResolvedBar(lineups[row.follows], row.overrides)]
  <2>1. ComesBack(d, "settings", new) BY <1>4, Zenon DEF ReadSettings, poll
  <2>2. /\ new.step = "reads" /\ new.row = poll.row /\ new.todo = poll.todo
        /\ new.bar = ResolvedBar(lineups[row.follows], row.overrides)
        /\ new.blocks = poll.blocks /\ new.item = poll.item
        /\ new.member = poll.member /\ new.live = poll.live
        /\ new = [step |-> new.step, row |-> new.row, todo |-> new.todo,
                  bar |-> new.bar, blocks |-> new.blocks, item |-> new.item,
                  member |-> new.member,
                  live |-> new.live, main |-> new.main]
    BY <1>1
  <2> HIDE DEF new
  <2>3. calm[d] => ReadRight(d, polls'[d])
    BY <1>2, <2>1, <2>2, ComesBackFacts DEF ReadRight, poll
  <2> QED BY <2>1, <2>2, <2>3, ComesBackFacts, ReadKeeps
<1>5. CASE ReadBlocks(d)
  <2> DEFINE new == [poll EXCEPT
                       !.blocks = ResolvedBlocks(lineups[row.follows], row.overrides)]
  <2>1. ComesBack(d, "blocks", new) BY <1>5, Zenon DEF ReadBlocks, poll
  <2>2. /\ new.step = "reads" /\ new.row = poll.row /\ new.todo = poll.todo
        /\ new.bar = poll.bar
        /\ new.blocks = ResolvedBlocks(lineups[row.follows], row.overrides)
        /\ new.item = poll.item /\ new.member = poll.member /\ new.live = poll.live
        /\ new = [step |-> new.step, row |-> new.row, todo |-> new.todo,
                  bar |-> new.bar, blocks |-> new.blocks, item |-> new.item,
                  member |-> new.member,
                  live |-> new.live, main |-> new.main]
    BY <1>1
  <2> HIDE DEF new
  <2>3. calm[d] => ReadRight(d, polls'[d])
    BY <1>2, <2>1, <2>2, ComesBackFacts DEF ReadRight, poll
  <2> QED BY <2>1, <2>2, <2>3, ComesBackFacts, ReadKeeps
<1>6. CASE ReadItems(d)
  <2> DEFINE new == [poll EXCEPT !.item = airing /\ TargetsDevice(member)]
  <2>1. ComesBack(d, "items", new) BY <1>6, Zenon DEF ReadItems, poll
  <2>2. /\ new.step = "reads" /\ new.row = poll.row /\ new.todo = poll.todo
        /\ new.bar = poll.bar /\ new.blocks = poll.blocks
        /\ new.item = (airing /\ TargetsDevice(member))
        /\ new.member = poll.member /\ new.live = poll.live
        /\ new = [step |-> new.step, row |-> new.row, todo |-> new.todo,
                  bar |-> new.bar, blocks |-> new.blocks, item |-> new.item,
                  member |-> new.member,
                  live |-> new.live, main |-> new.main]
    BY <1>1
  <2> HIDE DEF new
  <2>3. calm[d] => ReadRight(d, polls'[d])
    BY <1>2, <2>1, <2>2, ComesBackFacts DEF ReadRight, poll
  <2> QED BY <2>1, <2>2, <2>3, ComesBackFacts, ReadKeeps
<1>7. CASE ReadGroups(d)
  <2> DEFINE new == [poll EXCEPT !.member = member, !.todo = poll.todo \cup {"layers"}]
  <2>1. ComesBack(d, "groups", new) BY <1>7, Zenon DEF ReadGroups, poll
  <2>2. /\ new.step = "reads" /\ new.row = poll.row
        /\ new.todo = poll.todo \cup {"layers"}
        /\ new.bar = poll.bar /\ new.blocks = poll.blocks /\ new.item = poll.item
        /\ new.member = member /\ new.live = poll.live
        /\ new = [step |-> new.step, row |-> new.row, todo |-> new.todo,
                  bar |-> new.bar, blocks |-> new.blocks, item |-> new.item,
                  member |-> new.member,
                  live |-> new.live, main |-> new.main]
    <3> DEFINE mid == [poll EXCEPT !.member = member]
               more == poll.todo \cup {"layers"}
    <3>1. mid = [step |-> "reads", row |-> poll.row, todo |-> poll.todo,
                 bar |-> poll.bar, blocks |-> poll.blocks, item |-> poll.item,
                 member |-> member, live |-> poll.live, main |-> poll.main]
      BY <1>1
    <3>2. new = [mid EXCEPT !.todo = more] OBVIOUS
    <3> HIDE DEF mid, more, new, poll
    <3> QED BY <3>1, <3>2 DEF more
  <2> HIDE DEF new
  <2>3. calm[d] => ReadRight(d, polls'[d])
    BY <1>2, <2>1, <2>2, ComesBackFacts DEF ReadRight, poll
  <2> QED BY <2>1, <2>2, <2>3, ComesBackFacts, ReadKeeps
<1>8. CASE ReadLayers(d)
  <2>0. PICK layers \in Layers(d, poll.member) :
          ComesBack(d, "layers", [poll EXCEPT !.live = ResolveLive(layers)])
    BY <1>8, Zenon DEF ReadLayers, poll
  <2> DEFINE r == ResolveLive(layers)
             new == [poll EXCEPT !.live = r]
  <2>1. ComesBack(d, "layers", new) BY <2>0
  <2>4. calm[d] => IsRuled(r, d, member)
    <3> SUFFICES ASSUME calm[d] PROVE IsRuled(r, d, member)
      OBVIOUS
    <3>1. TypeOK /\ member \in SUBSET Groups
      <4>1. TypeOK BY DEF IInv
      <4>2. devices[d] \in Device BY <4>1 DEF TypeOK
      <4> QED BY <4>1, <4>2 DEF Device
    <3>2. "layers" \in poll.todo BY <2>1 DEF ComesBack, poll
    <3>3. poll.member = member BY <1>2, <3>2 DEF ReadRight
    <3> QED BY <3>1, <3>3, ResolvedAsRuled
  <2>2. /\ new.step = "reads" /\ new.row = poll.row /\ new.todo = poll.todo
        /\ new.bar = poll.bar /\ new.blocks = poll.blocks /\ new.item = poll.item
        /\ new.member = poll.member /\ new.live = r
        /\ new = [step |-> new.step, row |-> new.row, todo |-> new.todo,
                  bar |-> new.bar, blocks |-> new.blocks, item |-> new.item,
                  member |-> new.member,
                  live |-> new.live, main |-> new.main]
    <3> HIDE DEF r
    <3> QED BY <1>1
  <2> HIDE DEF new, r
  <2>3. calm[d] => ReadRight(d, polls'[d])
    BY <1>2, <2>1, <2>2, <2>4, ComesBackFacts DEF ReadRight, poll
  <2> QED BY <2>1, <2>2, <2>3, ComesBackFacts, ReadKeeps
<1> QED BY <1>4, <1>5, <1>6, <1>7, <1>8

(* What live shows is read last.                                           *)
LEMMA ReadShownStep ==
  ASSUME IInv, TVInv, NEW d \in Devices, ReadShown(d)
  PROVE  TVInv'
<1> DEFINE poll == polls[d]
           member == devices[d].groups
           item == poll.item \/ (airing /\ poll.live.main = "SUBMISSION")
           new == [poll EXCEPT !.step = "gathered", !.item = item,
                               !.main = Shown(poll.live.main, item)]
<1>1. /\ poll.step = "reads" /\ poll.todo = {} /\ polls' = [polls EXCEPT ![d] = new]
      /\ UNCHANGED <<vars, airing, screen, calm>>
  BY DEF ReadShown
<1>2. poll = [step |-> "reads", row |-> poll.row, todo |-> poll.todo,
              bar |-> poll.bar, blocks |-> poll.blocks, item |-> poll.item,
              member |-> poll.member,
              live |-> poll.live, main |-> poll.main]
  BY <1>1 DEF TVInv, PollTypes
<1>3. /\ new.step = "gathered" /\ new.bar = poll.bar /\ new.blocks = poll.blocks
      /\ new.item = item /\ new.main = Shown(poll.live.main, item)
      /\ new.live = poll.live
  BY <1>2
<1>4. polls'[d] = new /\ \A e \in Devices \ {d} : polls'[e] = polls[e]
  BY <1>1 DEF TVInv, PollTypes
<1> HIDE DEF new
<1>5. PollTypes' BY <1>1, <1>3, <1>4 DEF TVInv, PollTypes
<1>6. calm[d] => AsConfigured(d, new)
  <2> SUFFICES ASSUME calm[d] PROVE AsConfigured(d, new)
    OBVIOUS
  <2>1. ReadRight(d, poll) BY <1>1 DEF TVInv, CalmOK
  <2>2. /\ devices[d] # NoDevice
        /\ poll.bar = ResolvedBar(lineups[devices[d].follows], devices[d].overrides)
        /\ poll.blocks = ResolvedBlocks(lineups[devices[d].follows], devices[d].overrides)
        /\ poll.item = (airing /\ TargetsDevice(member))
        /\ IsRuled(poll.live, d, member)
    BY <1>1, <2>1 DEF ReadRight
  <2>3. /\ IsRuled(poll.live, d, member)
        /\ new.item = (\/ airing /\ TargetsDevice(member)
                       \/ airing /\ poll.live.main = "SUBMISSION")
        /\ new.main = Shown(poll.live.main, new.item)
        /\ new.live = poll.live
    BY <1>3, <2>2
  <2> HIDE DEF item, poll
  <2> QED BY <1>3, <2>2, <2>3 DEF AsConfigured
<1> QED BY <1>1, <1>3, <1>5, <1>6, ReadKeeps

LEMMA AnswerStep ==
  ASSUME IInv, TVInv, NEW d \in Devices, Answer(d)
  PROVE  TVInv'
<1>1. /\ polls[d].step = "gathered" /\ UNCHANGED <<vars, airing, calm>>
      /\ polls' = [polls EXCEPT ![d] = NoPoll]
      /\ screen' = [screen EXCEPT ![d] =
           IF VersionOf(Content(d)) = VersionOf(@) THEN @ ELSE Content(d)]
  BY DEF Answer
<1>2. screen' = [screen EXCEPT ![d] = Content(d)]
  BY <1>1 DEF VersionOf, TVInv, PollTypes
<1>3. PollTypes' BY <1>1, <1>2 DEF TVInv, PollTypes, NoPoll
<1>4. screen'[d] = Content(d) BY <1>2 DEF TVInv, PollTypes
<1>5. ASSUME NEW e \in Devices, e # d
      PROVE  polls'[e] = polls[e] /\ screen'[e] = screen[e] /\ calm'[e] = calm[e]
  BY <1>1, <1>2, <1>5 DEF TVInv, PollTypes
<1>7. CalmOK(d)'
  <2>1. polls'[d] = NoPoll BY <1>1 DEF TVInv, PollTypes
  <2>2. SUFFICES ASSUME calm[d] PROVE IsExact(screen[d], d)'
    BY <2>1, <1>1 DEF CalmOK, NoPoll
  <2>3. IsExact(Content(d), d)
    BY <2>2, <1>1, ContentIsExact DEF TVInv, CalmOK
  <2>4. /\ groups' = groups /\ lineups' = lineups /\ programs' = programs
        /\ devices' = devices /\ live' = live /\ airing' = airing
    BY <1>1 DEF vars
  <2>5. (\A s : HasMain(s)' <=> HasMain(s)) /\ (\A s : HasAlert(s)' <=> HasAlert(s))
    BY <2>4 DEF HasMain, HasAlert
  <2>6. RulingScopes(d)' = RulingScopes(d) BY <2>4, <2>5 DEF RulingScopes
  <2>7. RuledMains(d)' = RuledMains(d)
    BY <2>4, <2>5, <2>6 DEF RuledMains, Exists
  <2> DEFINE c == Content(d)
  <2>8. IsExact(c, d) BY <2>3
  <2>9. screen'[d] = c BY <1>4
  <2> HIDE DEF c
  <2> QED BY <2>4, <2>5, <2>7, <2>8, <2>9 DEF IsExact
<1>8. ASSUME NEW e \in Devices PROVE CalmOK(e)'
  <2>1. CASE e # d BY <2>1, <1>1, <1>5, CalmStays DEF TVInv
  <2> QED BY <2>1, <1>7
<1> QED BY <1>3, <1>8 DEF TVInv

(* Whatever changes, no poll is calm any more.                             *)
LEMMA DisturbStep ==
  ASSUME TVInv, Disturb, airing' \in BOOLEAN
  PROVE  TVInv'
  BY DEF TVInv, Disturb, PollTypes, CalmOK

LEMMA PlaylistNextKeeps ==
  ASSUME IInv, TVInv, [PlaylistNext]_allVars
  PROVE  TVInv'
<1>1. CASE UNCHANGED allVars
  <2>1. /\ polls' = polls /\ screen' = screen /\ calm' = calm /\ airing' = airing
        /\ UNCHANGED vars
    BY <1>1 DEF allVars, tvVars
  <2>2. PollTypes' BY <2>1 DEF TVInv, PollTypes
  <2>3. ASSUME NEW d \in Devices PROVE CalmOK(d)'
    <3>1. CalmOK(d) BY DEF TVInv
    <3>2. UNCHANGED <<vars, airing>> BY <2>1
    <3> QED BY <2>1, <3>1, <3>2, CalmStays
  <2> QED BY <2>2, <2>3 DEF TVInv
<1>2. CASE ConfigChanges BY <1>2, DisturbStep DEF ConfigChanges, TVInv, PollTypes
<1>3. CASE GoesOffAir BY <1>3, DisturbStep DEF GoesOffAir
<1>4. ASSUME NEW d \in Devices,
             \/ StartPoll(d) \/ ReadSettings(d) \/ ReadBlocks(d) \/ ReadItems(d)
             \/ ReadGroups(d) \/ ReadLayers(d) \/ ReadShown(d) \/ Answer(d)
      PROVE  TVInv'
  BY <1>4, StartPollStep, ReadStep, ReadShownStep, AnswerStep
<1> QED BY <1>1, <1>2, <1>3, <1>4 DEF PlaylistNext

(* Polls only read: under them the configuration moves as Signage says, so *)
(* all that is proved of Signage holds.                                    *)
THEOREM PollsOnlyRead == PlaylistSpec => Spec
<1>1. PlaylistInit => Init BY DEF PlaylistInit
<1>2. [PlaylistNext]_allVars => [Next]_vars
  <2>1. ASSUME NEW d \in Devices, NEW read, NEW poll, ComesBack(d, read, poll)
        PROVE  UNCHANGED vars
    BY <2>1 DEF ComesBack
  <2>2. ASSUME NEW d \in Devices,
               \/ StartPoll(d) \/ ReadSettings(d) \/ ReadBlocks(d) \/ ReadItems(d)
               \/ ReadGroups(d) \/ ReadLayers(d) \/ ReadShown(d) \/ Answer(d)
        PROVE  UNCHANGED vars
    <3>1. CASE ReadSettings(d) \/ ReadBlocks(d) \/ ReadItems(d) \/ ReadGroups(d) \/ ReadLayers(d)
      BY <2>1, <3>1, Zenon DEF ReadSettings, ReadBlocks, ReadItems, ReadGroups, ReadLayers
    <3>2. CASE StartPoll(d) \/ ReadShown(d) \/ Answer(d)
      BY <3>2 DEF StartPoll, ReadShown, Answer
    <3> QED BY <2>2, <3>1, <3>2
  <2>3. GoesOffAir \/ UNCHANGED allVars => UNCHANGED vars BY DEF GoesOffAir, allVars
  <2> QED BY <2>2, <2>3 DEF PlaylistNext, ConfigChanges
<1> QED BY <1>1, <1>2, PTL DEF PlaylistSpec, Spec

(* The two invariants together: the configuration's and the polls'.        *)
LEMMA PlaylistInvariant == PlaylistSpec => [](IInv /\ TVInv)
<1>1. PlaylistInit => TVInv
  BY DEF PlaylistInit, TVInv, PollTypes, CalmOK, NoPoll
<1>2. IInv /\ TVInv /\ [PlaylistNext]_allVars => TVInv' BY PlaylistNextKeeps
<1> QED BY <1>1, <1>2, PollsOnlyRead, Invariant, PTL DEF PlaylistSpec

(* A poll during which nothing changed leaves on the screen what the rules *)
(* of the API say, for any number of groups and in any order that groups   *)
(* set at the same time are returned in (resolveLive, resolveLineup,       *)
(* targetsDevice, versionOf).                                              *)
THEOREM CalmPollsAreExact == PlaylistSpec => []CalmPollIsExact
<1>1. TVInv => CalmPollIsExact BY DEF TVInv, CalmOK, CalmPollIsExact
<1> QED BY <1>1, PlaylistInvariant, PTL

=============================================================================
