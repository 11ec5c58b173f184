---------------------------- MODULE AssetsProofs ----------------------------
(***************************************************************************)
(* Safety of Assets for any number of uploads, requests, pods and faults.  *)
(*                                                                         *)
(* ReadyIsPlayable is not inductive: it says nothing of the writer that    *)
(* put its files and has yet to save, nor of the one about to queue them   *)
(* for deletion.  IInv adds what holds of both: the files a writer put     *)
(* stay while the row exists, and only a removed row's are ever queued.    *)
(***************************************************************************)
EXTENDS Assets, TLAPS

(* A request or a worker under way is about an asset that was presigned.   *)
AboutPresigned ==
  /\ \A c \in Calls : calls[c].at # "idle" => rows[calls[c].asset].status # "ABSENT"
  /\ \A p \in Pods : pods[p].at # "idle" => rows[pods[p].asset].status # "ABSENT"

Exists(a) == rows[a].status # "GONE"

(* What was put and not yet saved is in the bucket while the row exists.   *)
PutsStay ==
  /\ \A c \in Calls : calls[c].at = "save" /\ Exists(calls[c].asset) =>
       Outputs(calls[c].asset) \subseteq files
  /\ \A p \in Pods : pods[p].at = "save" /\ Exists(pods[p].asset) =>
       Outputs(pods[p].asset) \subseteq files

(* Public files are queued for deletion, or about to be, only after the    *)
(* cleanup job removed the row.                                            *)
OnlyGoneIsQueued ==
  /\ \A k \in queue : k[2] # "upload" => ~Exists(k[1])
  /\ \A c \in Calls : calls[c].at = "enqueue" => ~Exists(calls[c].asset)
  /\ \A p \in Pods : pods[p].at = "enqueue" => ~Exists(pods[p].asset)

ReadyHasFiles ==
  \A a \in Asset : rows[a].status = "READY" => Outputs(a) \subseteq files

(* Claims are numbered by the attempts counter, which only grows.          *)
ClaimsAreNumbered ==
  /\ \A a \in Asset : rows[a].claim <= rows[a].attempts
  /\ \A p \in Pods : pods[p].at # "idle" =>
       pods[p].claim \in 1..rows[pods[p].asset].attempts
  /\ \A p, q \in Pods :
       p # q /\ pods[p].at # "idle" /\ pods[q].at # "idle"
             /\ pods[p].asset = pods[q].asset => pods[p].claim # pods[q].claim

IInv ==
  /\ TypeOK
  /\ AboutPresigned
  /\ PutsStay
  /\ OnlyGoneIsQueued
  /\ ReadyHasFiles
  /\ ClaimsAreNumbered

(* However many workers took a video over from one another, at most one of *)
(* them still holds it: the UPDATEs that look at started_at let only that  *)
(* one save its result or give the claim back.                             *)
OneWorkerHolds ==
  \A p, q \in Pods :
    /\ pods[p].at # "idle" /\ StillClaimed(p)
    /\ pods[q].at # "idle" /\ StillClaimed(q)
    /\ pods[p].asset = pods[q].asset
    => p = q

-----------------------------------------------------------------------------
(* Types.  Each step writes at most one row, one request and one worker.   *)

LEMMA InitTypes == ASSUME AssetsConstantsOK PROVE Init => TypeOK
  <1> SUFFICES ASSUME Init PROVE TypeOK OBVIOUS
  <1>1. (CHOOSE a \in Asset : TRUE) \in Asset BY DEF AssetsConstantsOK
  <1>2. rows \in [Asset -> Row] BY DEF Init, Row, Statuses, Media
  <1>3. calls \in [Calls -> Call] BY <1>1 DEF Init, Call, Answers
  <1>4. pods \in [Pods -> Pod] BY <1>1 DEF Init, Pod
  <1> QED BY <1>2, <1>3, <1>4 DEF Init, TypeOK, AssetsConstantsOK

LEMMA UploadIsKey ==
  ASSUME NEW a \in Asset
  PROVE  /\ Upload(a) \in Keys
         /\ VariantKeys(a) \subseteq Keys
         /\ Outputs(a) \subseteq VariantKeys(a)
         /\ Upload(a)[2] = "upload" /\ Upload(a) \notin VariantKeys(a)
         /\ \A k \in VariantKeys(a) : k[1] = a /\ k[2] # "upload"
  BY DEF Keys, Upload, VariantKeys, Outputs

LEMMA DeleteTypes ==
  ASSUME TypeOK, NEW a \in Asset, DeleteOriginal(a), AssetsConstantsOK
  PROVE  /\ files' \subseteq Keys /\ queue' \subseteq Keys
         /\ faults' \in 0..MaxFaults
  BY UploadIsKey DEF TypeOK, DeleteOriginal, Fault, AssetsConstantsOK

LEMMA ClientTypes ==
  ASSUME TypeOK, AssetsConstantsOK, NEW a \in Asset,
         \/ \E kind \in Media : Presign(a, kind)
         \/ \E what \in {"good", "corrupt", "huge"} : Put(a, what)
         \/ CheckMedia(a) \/ Attach(a) \/ Abandon(a) \/ Detach(a) \/ Age(a) \/ Stall(a)
         \/ \E c \in Calls : Begin(c, a)
  PROVE  TypeOK'
  <1>1. ASSUME NEW kind \in Media, Presign(a, kind) PROVE TypeOK'
    <2>1. rows[a] \in Row BY DEF TypeOK
    <2>2. [rows[a] EXCEPT !.status = "PENDING_UPLOAD", !.kind = kind] \in Row
      BY <2>1 DEF Row, Statuses
    <2>3. rows' = [rows EXCEPT ![a] = [rows[a] EXCEPT !.status = "PENDING_UPLOAD",
                                                      !.kind = kind]]
      BY <1>1 DEF Presign, TypeOK
    <2> QED BY <1>1, <2>2, <2>3 DEF TypeOK, Presign
  <1>2. ASSUME NEW what \in {"good", "corrupt", "huge"}, Put(a, what) PROVE TypeOK'
    BY <1>2, UploadIsKey DEF TypeOK, Put
  <1>3. ASSUME CheckMedia(a) \/ Attach(a) \/ Abandon(a) \/ Detach(a) PROVE TypeOK'
    BY <1>3 DEF TypeOK, CheckMedia, Attach, Abandon, Detach
  <1>4. ASSUME Age(a) PROVE TypeOK'
    BY <1>4 DEF TypeOK, Age
  <1>5. ASSUME Stall(a) PROVE TypeOK'
    BY <1>5 DEF TypeOK, Stall, Row
  <1>6. ASSUME NEW c \in Calls, Begin(c, a) PROVE TypeOK'
    BY <1>6 DEF TypeOK, Begin, Call, CallVars, Answers
  <1> QED BY <1>1, <1>2, <1>3, <1>4, <1>5, <1>6

LEMMA SwitchTypes ==
  ASSUME TypeOK, NEW a \in Asset, NEW from \in Statuses, NEW to \in Statuses,
         Switch(a, from, to)
  PROVE  rows' \in [Asset -> Row]
  BY DEF TypeOK, Switch, Row

LEMMA GoesTypes ==
  ASSUME TypeOK, NEW c \in Calls,
         \/ \E at \in {"idle", "size", "reject", "queue", "bytes", "put", "read",
                        "save", "reread", "enqueue"} : GoesTo(c, at)
         \/ \E what \in Answers : Answer(c, what)
  PROVE  calls' \in [Calls -> Call]
  BY DEF TypeOK, Call, GoesTo, Answer, Answers

LEMMA CompleteTypes ==
  ASSUME TypeOK, AboutPresigned, AssetsConstantsOK, NEW c \in Calls, Complete(c)
  PROVE  TypeOK'
  <1> DEFINE a == calls[c].asset
  <1>a. a \in Asset BY DEF TypeOK, Call
  <1>b. UNCHANGED CallVars BY DEF Complete
  <1>r. rows[a] \in Row BY <1>a DEF TypeOK
  <1>p. calls[c].at # "idle" => rows[a].status # "ABSENT" BY DEF AboutPresigned
  <1>s. \/ Read(c, a) \/ Size(c, a) \/ EnqueueVideo(c, a) \/ Bytes(c, a)
        \/ PutVariants(c, a) \/ Save(c, a) \/ Reject(c, a) \/ Delete(c, a)
        \/ Reread(c, a) \/ Enqueue(c, a)
    BY DEF Complete
  <1> HIDE DEF a
  <1>1. CASE Read(c, a)
    <2>1. calls' \in [Calls -> Call]
      <3>1. rows[a].status = "PENDING_UPLOAD" => GoesTo(c, "size")
        BY <1>1 DEF Read
      <3>2. rows[a].status = "GONE" => Answer(c, "NOT_FOUND")
        BY <1>1 DEF Read
      <3>3. rows[a].status \notin {"PENDING_UPLOAD", "GONE"} =>
              Answer(c, rows[a].status)
        BY <1>1 DEF Read
      <3>4. rows[a].status \in Statuses \cup {"GONE"}
        BY <1>1, <1>r, <1>p DEF Row, Read
      <3> QED BY <3>1, <3>2, <3>3, <3>4, GoesTypes DEF Answers, Statuses
    <2> QED BY <2>1, <1>1, <1>b DEF TypeOK, Read, CallVars
  <1>2. CASE Size(c, a)
    <2>1. \/ Answer(c, "NOT_UPLOADED") \/ GoesTo(c, "reject")
          \/ GoesTo(c, "queue") \/ GoesTo(c, "bytes")
      BY <1>2 DEF Size
    <2>2. calls' \in [Calls -> Call]
      BY <2>1, GoesTypes DEF Answers
    <2> QED BY <2>2, <1>2, <1>b DEF TypeOK, Size, CallVars
  <1>3. CASE EnqueueVideo(c, a)
    <2>1. calls' \in [Calls -> Call]
      BY <1>3, GoesTypes DEF EnqueueVideo, Answers
    <2>2. rows' \in [Asset -> Row]
      BY <1>3, <1>a, SwitchTypes DEF EnqueueVideo, Statuses
    <2> QED BY <2>1, <2>2, <1>3, <1>b DEF TypeOK, EnqueueVideo, CallVars
  <1>4. CASE Bytes(c, a)
    <2>1. \/ Answer(c, "NONE") \/ GoesTo(c, "put") \/ GoesTo(c, "reject")
      BY <1>4 DEF Bytes
    <2>2. calls' \in [Calls -> Call]
      BY <2>1, GoesTypes DEF Answers
    <2> QED BY <2>2, <1>4, <1>b DEF TypeOK, Bytes, CallVars
  <1>5. CASE PutVariants(c, a)
    <2>1. calls' \in [Calls -> Call]
      BY <1>5, GoesTypes DEF PutVariants
    <2>2. files' \subseteq Keys
      BY <1>5, <1>a, UploadIsKey DEF PutVariants, TypeOK
    <2> QED BY <2>1, <2>2, <1>5, <1>b DEF TypeOK, PutVariants, CallVars
  <1>6. CASE Save(c, a) \/ Reject(c, a)
    <2>1. calls' \in [Calls -> Call]
      BY <1>6 DEF TypeOK, Call, Answers, Save, Reject
    <2>2. rows' \in [Asset -> Row]
      BY <1>6, <1>a, SwitchTypes DEF Save, Reject, MarkRejected, Statuses
    <2> QED BY <2>1, <2>2, <1>6, <1>b DEF TypeOK, Save, Reject, CallVars
  <1>7. CASE Delete(c, a)
    <2>1. calls' \in [Calls -> Call]
      BY <1>7, GoesTypes DEF Delete
    <2> QED BY <2>1, <1>7, <1>a, <1>b, DeleteTypes DEF TypeOK, Delete, CallVars
  <1>8. CASE Reread(c, a)
    <2>1. calls' \in [Calls -> Call]
      BY <1>8, GoesTypes DEF Reread, Answers
    <2> QED BY <2>1, <1>8, <1>b DEF TypeOK, Reread, CallVars
  <1>9. CASE Enqueue(c, a)
    <2>1. calls' \in [Calls -> Call]
      BY <1>9, GoesTypes DEF Enqueue, Answers
    <2>2. queue' \subseteq Keys
      BY <1>9, <1>a, UploadIsKey DEF Enqueue, TypeOK
    <2> QED BY <2>1, <2>2, <1>9, <1>b DEF TypeOK, Enqueue, CallVars
  <1> QED BY <1>s, <1>1, <1>2, <1>3, <1>4, <1>5, <1>6, <1>7, <1>8, <1>9

LEMMA MovesTypes ==
  ASSUME TypeOK, NEW p \in Pods,
         \/ \E at \in {"idle", "start", "download", "put", "save", "delete", "lost",
                        "enqueue", "reject", "rejectDelete", "release"} : Moves(p, at)
         \/ Retried(p)
  PROVE  pods' \in [Pods -> Pod]
  BY DEF TypeOK, Pod, Moves, Retried

LEMMA ClaimTypes ==
  ASSUME TypeOK, NEW p \in Pods, NEW a \in Asset, Claim(p, a)
  PROVE  TypeOK'
  <1> DEFINE n == rows[a].attempts + 1
  <1>n. n \in Nat BY DEF TypeOK, Row
  <1>m. /\ rows' = [rows EXCEPT ![a].attempts = n, ![a].stale = FALSE, ![a].claim = n]
        /\ pods' = [pods EXCEPT ![p].at = "start", ![p].asset = a, ![p].claim = n,
                                ![p].saved = FALSE]
    BY DEF Claim, TypeOK, Row
  <1> HIDE DEF n
  <1>r. rows[a] \in Row BY DEF TypeOK
  <1>s. [rows[a] EXCEPT !.attempts = n, !.stale = FALSE, !.claim = n] \in Row
    BY <1>n, <1>r DEF Row
  <1>t. rows' = [rows EXCEPT ![a] =
                   [rows[a] EXCEPT !.attempts = n, !.stale = FALSE, !.claim = n]]
    BY <1>m DEF TypeOK
  <1>1. rows' \in [Asset -> Row] BY <1>s, <1>t DEF TypeOK
  <1>p. pods[p] \in Pod BY DEF TypeOK
  <1>q. [pods[p] EXCEPT !.at = "start", !.asset = a, !.claim = n, !.saved = FALSE] \in Pod
    BY <1>n, <1>p DEF Pod
  <1>e. pods' = [pods EXCEPT ![p] =
                   [pods[p] EXCEPT !.at = "start", !.asset = a, !.claim = n,
                                   !.saved = FALSE]]
    BY <1>m DEF TypeOK
  <1>2. pods' \in [Pods -> Pod] BY <1>q, <1>e DEF TypeOK
  <1> QED BY <1>1, <1>2 DEF TypeOK, Claim, PodVars

LEMMA WorkerTypes ==
  ASSUME TypeOK, AssetsConstantsOK, NEW p \in Pods,
         \/ Convert(p) \/ ConvertFails(p) \/ PodDies(p) \/ DrainEnds(p)
  PROVE  TypeOK'
  <1> DEFINE a == pods[p].asset
  <1>a. a \in Asset BY DEF TypeOK, Pod
  <1>r. rows[a] \in Row BY <1>a DEF TypeOK
  <1>b. UNCHANGED PodVars BY DEF Convert, ConvertFails, PodDies, DrainEnds
  <1>s. \/ Start(p, a) \/ Download(p, a) \/ PutFiles(p, a) \/ SaveVideo(p, a)
        \/ DeleteVideo(p, a) \/ LostClaim(p, a) \/ EnqueueLost(p, a)
        \/ RejectVideo(p, a) \/ Release(p, a) \/ ConvertFails(p)
        \/ PodDies(p) \/ DrainEnds(p)
    BY DEF Convert
  <1> HIDE DEF a
  <1>1. CASE Start(p, a)
    <2>1. pods' \in [Pods -> Pod] BY <1>1, MovesTypes DEF Start
    <2> QED BY <2>1, <1>1, <1>b DEF TypeOK, Start, PodVars
  <1>2. CASE Download(p, a)
    <2>1. Moves(p, "release") \/ Moves(p, "put") \/ Moves(p, "reject")
      BY <1>2 DEF Download
    <2>2. pods' \in [Pods -> Pod] BY <2>1, MovesTypes
    <2> QED BY <2>2, <1>2, <1>b DEF TypeOK, Download, PodVars
  <1>3. CASE PutFiles(p, a)
    <2>1. pods' \in [Pods -> Pod] BY <1>3, MovesTypes DEF PutFiles
    <2>2. files' \subseteq Keys
      BY <1>3, <1>a, UploadIsKey DEF PutFiles, TypeOK
    <2> QED BY <2>1, <2>2, <1>3, <1>b DEF TypeOK, PutFiles, PodVars
  <1>4. CASE SaveVideo(p, a)
    <2>1. StillClaimed(p) \in BOOLEAN BY DEF StillClaimed
    <2>2. pods' \in [Pods -> Pod]
      <3> DEFINE held == StillClaimed(p)
      <3>1. pods' = [pods EXCEPT ![p] = [pods[p] EXCEPT !.at = "delete", !.saved = held]]
        BY <1>4 DEF SaveVideo, TypeOK
      <3>2. pods[p] \in Pod /\ held \in BOOLEAN BY <2>1 DEF TypeOK
      <3> HIDE DEF held
      <3>3. [pods[p] EXCEPT !.at = "delete", !.saved = held] \in Pod BY <3>2 DEF Pod
      <3> QED BY <3>1, <3>3 DEF TypeOK
    <2>3. rows' = rows \/ rows' = [rows EXCEPT ![a].status = "READY"]
      BY <1>4 DEF SaveVideo
    <2>4. [rows[a] EXCEPT !.status = "READY"] \in Row BY <1>r DEF Row, Statuses
    <2>5. rows' \in [Asset -> Row] BY <1>a, <2>3, <2>4 DEF TypeOK
    <2> QED BY <2>2, <2>5, <1>4, <1>b DEF TypeOK, SaveVideo, PodVars
  <1>5. CASE DeleteVideo(p, a)
    <2>1. pods' \in [Pods -> Pod] BY <1>5, MovesTypes DEF DeleteVideo
    <2> QED BY <2>1, <1>5, <1>a, <1>b, DeleteTypes DEF TypeOK, DeleteVideo, PodVars
  <1>6. CASE LostClaim(p, a)
    <2>1. pods' \in [Pods -> Pod] BY <1>6, MovesTypes DEF LostClaim
    <2> QED BY <2>1, <1>6, <1>b DEF TypeOK, LostClaim, PodVars
  <1>7. CASE EnqueueLost(p, a)
    <2>1. pods' \in [Pods -> Pod] BY <1>7, MovesTypes DEF EnqueueLost
    <2>2. queue' \subseteq Keys
      BY <1>7, <1>a, UploadIsKey DEF EnqueueLost, TypeOK
    <2> QED BY <2>1, <2>2, <1>7, <1>b DEF TypeOK, EnqueueLost, PodVars
  <1>8. CASE RejectVideo(p, a)
    <2>1. pods' \in [Pods -> Pod] BY <1>8, MovesTypes DEF RejectVideo
    <2>2. rows' \in [Asset -> Row]
      BY <1>8, <1>a, SwitchTypes DEF RejectVideo, MarkRejected, Statuses
    <2> QED BY <2>1, <2>2, <1>8, <1>b DEF TypeOK, RejectVideo, PodVars
  <1>9. CASE Release(p, a)
    <2>1. pods' \in [Pods -> Pod] BY <1>9, MovesTypes DEF Release
    <2>2. Freed(rows[a]) \in Row BY <1>r DEF Freed, Row
    <2>3. rows' \in [Asset -> Row]
      BY <1>9, <1>a, <2>2 DEF Release, TypeOK
    <2> QED BY <2>1, <2>3, <1>9, <1>b DEF TypeOK, Release, PodVars
  <1>10. CASE ConvertFails(p)
    <2>1. pods' \in [Pods -> Pod] BY <1>10, MovesTypes DEF ConvertFails, PutSome
    <2>2. Fault BY <1>10 DEF ConvertFails, PutSome
    <2>3. UNCHANGED <<rows, queue>> BY <1>10 DEF ConvertFails, PutSome
    <2>4. files' \subseteq Keys
      BY <1>10, <1>a, UploadIsKey DEF ConvertFails, PutSome, TypeOK, a
    <2> QED BY <2>1, <2>2, <2>3, <2>4, <1>b
            DEF TypeOK, Fault, PodVars, AssetsConstantsOK
  <1>11. CASE PodDies(p)
    <2>1. pods[p] \in Pod BY DEF TypeOK
    <2>2. pods' = [pods EXCEPT ![p] = [pods[p] EXCEPT !.at = "idle", !.failed = {}]]
      BY <1>11 DEF PodDies, TypeOK
    <2>3. [pods[p] EXCEPT !.at = "idle", !.failed = {}] \in Pod BY <2>1 DEF Pod
    <2>4. pods' \in [Pods -> Pod] BY <2>2, <2>3 DEF TypeOK
    <2> QED BY <2>4, <1>11, <1>b DEF TypeOK, PodDies, Fault, PodVars, AssetsConstantsOK
  <1>12. CASE DrainEnds(p)
    <2>1. pods' \in [Pods -> Pod] BY <1>12 DEF DrainEnds, TypeOK, Pod
    <2> QED BY <2>1, <1>12, <1>b DEF TypeOK, DrainEnds, PodVars
  <1> QED BY <1>s, <1>1, <1>2, <1>3, <1>4, <1>5, <1>6, <1>7, <1>8, <1>9, <1>10,
             <1>11, <1>12

LEMMA CallFailsTypes ==
  ASSUME TypeOK, AssetsConstantsOK, NEW c \in Calls, CallFails(c)
  PROVE  TypeOK'
  <1>1. calls' \in [Calls -> Call] BY GoesTypes DEF CallFails, Answers
  <1> QED BY <1>1 DEF TypeOK, CallFails, CallVars, Fault, AssetsConstantsOK

(* The cleanup job and the sweep of storage_deletions. *)
Janitor ==
  \/ CleanupPicks \/ CleanupDeletes \/ CleanupRollsBack
  \/ \E k \in Keys : Sweep(k) \/ SweepRollsBack(k)

LEMMA JanitorTypes ==
  ASSUME TypeOK, AboutPresigned, AssetsConstantsOK, Janitor
  PROVE  TypeOK'
  <1>1. CASE CleanupPicks
    <2>1. \A b \in Asset : TooOld(b) => rows[b].status \in Statuses
      BY DEF TooOld, Statuses
    <2>2. doomed' \subseteq Asset \X Statuses
      BY <1>1, <2>1 DEF CleanupPicks
    <2> QED BY <1>1, <2>2 DEF CleanupPicks, TypeOK, JobVars
  <1>2. CASE CleanupDeletes
    <2>1. \A b \in Asset : [rows[b] EXCEPT !.status = "GONE"] \in Row
      BY DEF TypeOK, Row
    <2>2. rows' \in [Asset -> Row]
      BY <1>2, <2>1 DEF CleanupDeletes, TypeOK
    <2>3. \A d \in doomed : d[1] \in Asset BY DEF TypeOK
    <2>4. \A d \in doomed : KeysOf(d[1], d[2]) \subseteq Keys
      BY <2>3, UploadIsKey DEF KeysOf
    <2>5. queue' \subseteq Keys
      BY <1>2, <2>4 DEF CleanupDeletes, TypeOK
    <2> QED BY <1>2, <2>2, <2>5 DEF CleanupDeletes, TypeOK, JobVars
  <1>3. CASE CleanupRollsBack
    BY <1>3 DEF CleanupRollsBack, TypeOK, JobVars
  <1>4. ASSUME NEW k \in Keys, Sweep(k) PROVE TypeOK'
    BY <1>4 DEF Sweep, TypeOK, JobVars
  <1>5. ASSUME NEW k \in Keys, SweepRollsBack(k) PROVE TypeOK'
    BY <1>5 DEF SweepRollsBack, TypeOK, JobVars, Fault, AssetsConstantsOK
  <1> QED BY <1>1, <1>2, <1>3, <1>4, <1>5 DEF Janitor

LEMMA StepTypes ==
  ASSUME TypeOK, AboutPresigned, AssetsConstantsOK, Next
  PROVE  TypeOK'
  <1>1. ASSUME NEW a \in Asset, NEW p \in Pods, Claim(p, a) PROVE TypeOK'
    BY <1>1, ClaimTypes
  <1>2. Janitor => TypeOK' BY JanitorTypes
  <1> QED BY <1>1, <1>2, ClientTypes, CompleteTypes, CallFailsTypes, WorkerTypes
          DEF Next, Janitor

-----------------------------------------------------------------------------
(* What one step may do to a row, a request, a worker, the bucket and the  *)
(* queue.                                                                  *)

RowMove(x, y) ==
  /\ x.status # "ABSENT" => y.status # "ABSENT" /\ y.kind = x.kind
  /\ x.status \in {"READY", "REJECTED", "GONE"} => y.status \in {x.status, "GONE"}
  /\ x.attempts <= y.attempts
  /\ x.claim <= x.attempts => y.claim <= y.attempts

LEMMA SwitchMoves ==
  ASSUME TypeOK, NEW a \in Asset, NEW from \in {"PENDING_UPLOAD", "PROCESSING"},
         NEW to \in Statuses, Switch(a, from, to)
  PROVE  \A b \in Asset : RowMove(rows[b], rows'[b])
  BY DEF TypeOK, Switch, Row, RowMove, Statuses

LEMMA KeepMoves ==
  ASSUME TypeOK, UNCHANGED rows
  PROVE  \A b \in Asset : RowMove(rows[b], rows'[b])
  BY DEF TypeOK, Row, RowMove

LEMMA RowsMove ==
  ASSUME TypeOK, AboutPresigned, Next
  PROVE  \A b \in Asset : RowMove(rows[b], rows'[b])
  <1> DEFINE Goal == \A b \in Asset : RowMove(rows[b], rows'[b])
  <1>1. ASSUME NEW a \in Asset, NEW kind \in Media, Presign(a, kind) PROVE Goal
    BY <1>1 DEF TypeOK, Presign, Row, RowMove
  <1>2. ASSUME NEW a \in Asset, Stall(a) PROVE Goal
    BY <1>2 DEF TypeOK, Stall, Row, RowMove
  <1>3. ASSUME NEW a \in Asset, NEW p \in Pods, Claim(p, a) PROVE Goal
    BY <1>3 DEF TypeOK, Claim, Claimable, Row, RowMove
  <1>4. ASSUME NEW c \in Calls, Complete(c) PROVE Goal
    <2> DEFINE a == calls[c].asset
    <2>a. a \in Asset BY DEF TypeOK, Call
    <2> HIDE DEF a
    <2>1. CASE EnqueueVideo(c, a) \/ Save(c, a) \/ Reject(c, a)
      <3>1. \/ Switch(a, "PENDING_UPLOAD", "PROCESSING")
            \/ Switch(a, "PENDING_UPLOAD", "READY")
            \/ Switch(a, "PENDING_UPLOAD", "REJECTED")
        BY <2>1 DEF EnqueueVideo, Save, Reject, MarkRejected
      <3> QED BY <3>1, <2>a, SwitchMoves DEF Statuses
    <2>2. CASE UNCHANGED rows BY <2>2, KeepMoves
    <2> QED BY <1>4, <2>1, <2>2
            DEF Complete, Read, Size, Bytes, PutVariants, Delete, Reread, Enqueue, a
  <1>5. ASSUME NEW p \in Pods, Convert(p) PROVE Goal
    <2> DEFINE a == pods[p].asset
    <2>a. a \in Asset BY DEF TypeOK, Pod
    <2>s. StillClaimed(p) => rows[a].status = "PROCESSING" BY DEF StillClaimed
    <2> HIDE DEF a
    <2>1. CASE SaveVideo(p, a)
      BY <2>1, <2>a, <2>s DEF SaveVideo, TypeOK, Row, RowMove
    <2>2. CASE RejectVideo(p, a)
      BY <2>2, <2>a, SwitchMoves DEF RejectVideo, MarkRejected, Statuses
    <2>3. CASE Release(p, a)
      BY <2>3, <2>a, <2>s DEF Release, Freed, TypeOK, Row, RowMove
    <2>4. CASE UNCHANGED rows BY <2>4, KeepMoves
    <2> QED BY <1>5, <2>1, <2>2, <2>3, <2>4
            DEF Convert, Start, Download, PutFiles, DeleteVideo, LostClaim,
                EnqueueLost, a
  <1>6. CASE CleanupDeletes
    BY <1>6 DEF CleanupDeletes, TypeOK, Row, RowMove
  <1>7. CASE UNCHANGED rows BY <1>7, KeepMoves
  <1> QED BY <1>1, <1>2, <1>3, <1>4, <1>5, <1>6, <1>7
          DEF Next, Put, CheckMedia, Attach, Abandon, Detach,
              Age, Begin, CallFails, ConvertFails, PutSome,
              PodDies, DrainEnds, CleanupPicks, CleanupRollsBack, Sweep, SweepRollsBack

LEMMA OnlyCleanupRemoves ==
  ASSUME TypeOK, Next, ~CleanupDeletes, NEW b \in Asset, rows[b].status # "GONE"
  PROVE  rows'[b].status # "GONE"
  <1>1. ASSUME NEW a \in Asset, NEW kind \in Media, Presign(a, kind)
        PROVE  rows'[b].status # "GONE"
    BY <1>1 DEF TypeOK, Presign, Row
  <1>2. ASSUME NEW a \in Asset, Stall(a) PROVE rows'[b].status # "GONE"
    BY <1>2 DEF TypeOK, Stall, Row
  <1>3. ASSUME NEW a \in Asset, NEW p \in Pods, Claim(p, a) PROVE rows'[b].status # "GONE"
    BY <1>3 DEF TypeOK, Claim, Row
  <1>4. ASSUME NEW c \in Calls, Complete(c) PROVE rows'[b].status # "GONE"
    <2>1. calls[c].asset \in Asset BY DEF TypeOK, Call
    <2> QED BY <1>4, <2>1
            DEF Complete, Read, Size, EnqueueVideo, Bytes, PutVariants, Save, Reject,
                Delete, Reread, Enqueue, MarkRejected, Switch, TypeOK, Row
  <1>5. ASSUME NEW p \in Pods, Convert(p) PROVE rows'[b].status # "GONE"
    <2> DEFINE a == pods[p].asset
    <2>a. a \in Asset BY DEF TypeOK, Pod
    <2>f. Freed(rows[a]).status = rows[a].status BY <2>a DEF TypeOK, Row, Freed
    <2>1. CASE SaveVideo(p, a)
      BY <2>1, <2>a DEF SaveVideo, TypeOK, Row
    <2>2. CASE RejectVideo(p, a)
      BY <2>2, <2>a DEF RejectVideo, MarkRejected, Switch, TypeOK, Row
    <2>3. CASE Release(p, a)
      BY <2>3, <2>a, <2>f DEF Release, TypeOK
    <2> QED BY <1>5, <2>1, <2>2, <2>3
            DEF Convert, Start, Download, PutFiles, DeleteVideo, LostClaim, EnqueueLost
  <1> QED BY <1>1, <1>2, <1>3, <1>4, <1>5
          DEF Next, Put, CheckMedia, Attach, Abandon, Detach,
              Age, Begin, CallFails, ConvertFails, PutSome,
              PodDies, DrainEnds, CleanupPicks, CleanupRollsBack, Sweep, SweepRollsBack

(* A row becomes READY by the save of a writer whose files are in place. *)
LEMMA ReadyAfterPuts ==
  ASSUME IInv, Next, NEW b \in Asset,
         rows[b].status # "READY", rows'[b].status = "READY"
  PROVE  /\ Outputs(b) \subseteq files /\ UNCHANGED files
         /\ rows[b].status \in {"PENDING_UPLOAD", "PROCESSING"}
  <1> DEFINE Goal == /\ Outputs(b) \subseteq files /\ UNCHANGED files
                     /\ rows[b].status \in {"PENDING_UPLOAD", "PROCESSING"}
  <1> USE DEF IInv
  <1>1. ASSUME NEW a \in Asset, NEW kind \in Media, Presign(a, kind) PROVE FALSE
    BY <1>1 DEF TypeOK, Presign, Row
  <1>2. ASSUME NEW a \in Asset, Stall(a) PROVE FALSE
    BY <1>2 DEF TypeOK, Stall, Row
  <1>3. ASSUME NEW a \in Asset, NEW p \in Pods, Claim(p, a) PROVE FALSE
    BY <1>3 DEF TypeOK, Claim, Row
  <1>4. ASSUME NEW c \in Calls, Complete(c)
        PROVE  Goal
    <2> DEFINE a == calls[c].asset
    <2>a. a \in Asset BY DEF TypeOK, Call
    <2>1. CASE EnqueueVideo(c, a) \/ Reject(c, a)
      BY <2>1, <2>a DEF EnqueueVideo, Reject, MarkRejected, Switch, TypeOK, Row
    <2>2. CASE Save(c, a)
      <3>1. b = a /\ rows[b].status = "PENDING_UPLOAD"
        BY <2>2, <2>a DEF Save, Switch, TypeOK, Row
      <3> QED BY <3>1, <2>2 DEF Save, PutsStay, Exists
    <2> QED BY <1>4, <2>1, <2>2
            DEF Complete, Read, Size, Bytes, PutVariants, Delete, Reread, Enqueue
  <1>5. ASSUME NEW p \in Pods, Convert(p)
        PROVE  Goal
    <2> DEFINE a == pods[p].asset
    <2>a. a \in Asset BY DEF TypeOK, Pod
    <2>1. CASE SaveVideo(p, a)
      <3>1. b = a /\ rows[b].status = "PROCESSING"
        BY <2>1, <2>a DEF SaveVideo, StillClaimed, TypeOK, Row
      <3> QED BY <3>1, <2>1 DEF SaveVideo, PutsStay, Exists
    <2>2. CASE RejectVideo(p, a)
      BY <2>2, <2>a DEF RejectVideo, MarkRejected, Switch, TypeOK, Row
    <2>3. CASE Release(p, a)
      <3>1. Freed(rows[a]).status = rows[a].status
        BY <2>a DEF TypeOK, Row, Freed
      <3> QED BY <2>3, <2>a, <3>1 DEF Release, TypeOK
    <2> QED BY <1>5, <2>1, <2>2, <2>3
            DEF Convert, Start, Download, PutFiles, DeleteVideo, LostClaim, EnqueueLost
  <1>6. CASE CleanupDeletes
    BY <1>6 DEF CleanupDeletes, TypeOK, Row
  <1> QED BY <1>1, <1>2, <1>3, <1>4, <1>5, <1>6
          DEF Next, Put, CheckMedia, Attach, Abandon, Detach,
              Age, Begin, CallFails, ConvertFails, PutSome,
              PodDies, DrainEnds, CleanupPicks, CleanupRollsBack, Sweep, SweepRollsBack

CallMove(x, y) ==
  \/ y = x
  \/ y.at = "idle"
  \/ y.at = "read" /\ rows[y.asset].status # "ABSENT"
  \/ /\ x.at # "idle" /\ y.asset = x.asset
     /\ y.at = "save" => Outputs(x.asset) \subseteq files'
     /\ y.at = "enqueue" => ~Exists(x.asset)

LEMMA CallsMove ==
  ASSUME TypeOK, Next
  PROVE  \A d \in Calls : CallMove(calls[d], calls'[d])
  <1> DEFINE Goal == \A d \in Calls : CallMove(calls[d], calls'[d])
  <1>1. ASSUME NEW c \in Calls, NEW a \in Asset, Begin(c, a) PROVE Goal
    BY <1>1 DEF Begin, TypeOK, CallMove
  <1>2. ASSUME NEW c \in Calls, CallFails(c) PROVE Goal
    BY <1>2 DEF CallFails, Answer, TypeOK, Call, CallMove
  <1>3. ASSUME NEW c \in Calls, Complete(c) PROVE Goal
    <2> DEFINE a == calls[c].asset
    <2>o. \A d \in Calls \ {c} : calls'[d] = calls[d]
      BY <1>3 DEF Complete, Read, Size, EnqueueVideo, Bytes, PutVariants, Save, Reject,
                  Delete, Reread, Enqueue, GoesTo, Answer, TypeOK
    <2>1. CASE PutVariants(c, a)
      BY <2>1, <2>o DEF PutVariants, GoesTo, TypeOK, Call, CallMove
    <2>2. CASE Reread(c, a)
      BY <2>2, <2>o DEF Reread, GoesTo, Answer, TypeOK, Call, CallMove, Exists
    <2>3. CASE Read(c, a) \/ Size(c, a) \/ EnqueueVideo(c, a) \/ Bytes(c, a)
               \/ Save(c, a) \/ Reject(c, a) \/ Delete(c, a) \/ Enqueue(c, a)
      <3>1. /\ calls'[c].at \notin {"save", "enqueue"}
            /\ calls[c].at # "idle" /\ calls'[c].asset = calls[c].asset
        BY <2>3 DEF Read, Size, EnqueueVideo, Bytes, Save, Reject, Delete, Enqueue,
                    GoesTo, Answer, TypeOK, Call
      <3> QED BY <3>1, <2>o DEF CallMove
    <2> QED BY <1>3, <2>1, <2>2, <2>3 DEF Complete
  <1>4. CASE UNCHANGED calls BY <1>4 DEF CallMove
  <1> QED BY <1>1, <1>2, <1>3, <1>4
          DEF Next, Presign, Put, CheckMedia, Attach, Abandon, Detach,
              Age, Stall, Claim, PodVars, Convert,
              ConvertFails, PodDies, DrainEnds, JobVars, CleanupPicks, CleanupDeletes,
              CleanupRollsBack, Sweep, SweepRollsBack

PodMove(x, y) ==
  \/ y = x
  \/ y.at = "idle"
  \/ /\ x.at # "idle" /\ y.asset = x.asset /\ y.claim = x.claim
     /\ y.at = "save" => Outputs(x.asset) \subseteq files'
     /\ y.at = "enqueue" => ~Exists(x.asset)

(* The claim a worker takes is numbered past every earlier one's. *)
TakesOver(p, a) ==
  /\ rows[a].status # "ABSENT"
  /\ pods'[p].at = "start" /\ pods'[p].asset = a
  /\ pods'[p].claim = rows[a].attempts + 1
  /\ rows'[a].attempts = rows[a].attempts + 1
  /\ \A q \in Pods \ {p} : pods'[q] = pods[q]

LEMMA PodsMove ==
  ASSUME TypeOK, Next
  PROVE  \/ \A q \in Pods : PodMove(pods[q], pods'[q])
         \/ \E p \in Pods, a \in Asset : TakesOver(p, a)
  <1> DEFINE Goal == \A q \in Pods : PodMove(pods[q], pods'[q])
  <1>1. ASSUME NEW a \in Asset, NEW p \in Pods, Claim(p, a)
        PROVE  TakesOver(p, a)
    BY <1>1 DEF Claim, Claimable, TakesOver, TypeOK, Row, Pod
  <1>2. ASSUME NEW p \in Pods, PodDies(p) \/ DrainEnds(p) PROVE Goal
    BY <1>2 DEF PodDies, DrainEnds, TypeOK, Pod, PodMove
  <1>3. ASSUME NEW p \in Pods, ConvertFails(p) PROVE Goal
    BY <1>3 DEF ConvertFails, PutSome, Moves, TypeOK, Pod, PodMove
  <1>4. ASSUME NEW p \in Pods, Convert(p) PROVE Goal
    <2> DEFINE a == pods[p].asset
    <2>o. \A q \in Pods \ {p} : pods'[q] = pods[q]
      BY <1>4 DEF Convert, Start, Download, PutFiles, SaveVideo, DeleteVideo, LostClaim,
                  EnqueueLost, RejectVideo, Release, Moves, Retried, TypeOK
    <2>1. CASE PutFiles(p, a)
      BY <2>1, <2>o DEF PutFiles, Moves, TypeOK, Pod, PodMove
    <2>2. CASE LostClaim(p, a)
      BY <2>2, <2>o DEF LostClaim, RowGone, Moves, Retried, TypeOK, Pod, PodMove, Exists
    <2>3. CASE Start(p, a) \/ Download(p, a) \/ SaveVideo(p, a) \/ DeleteVideo(p, a)
               \/ EnqueueLost(p, a) \/ RejectVideo(p, a) \/ Release(p, a)
      <3>1. /\ pods'[p].at \notin {"save", "enqueue"} /\ pods[p].at # "idle"
            /\ pods'[p].asset = pods[p].asset /\ pods'[p].claim = pods[p].claim
        BY <2>3 DEF Start, Download, SaveVideo, DeleteVideo, EnqueueLost, RejectVideo,
                    Release, Moves, Retried, TypeOK, Pod
      <3> QED BY <3>1, <2>o DEF PodMove
    <2> QED BY <1>4, <2>1, <2>2, <2>3 DEF Convert
  <1>5. CASE UNCHANGED pods BY <1>5 DEF PodMove
  <1> QED BY <1>1, <1>2, <1>3, <1>4, <1>5
          DEF Next, Presign, Put, CheckMedia, Attach, Abandon, Detach,
              Age, Stall, Begin, CallFails, Complete,
              CallVars, JobVars, CleanupPicks, CleanupDeletes, CleanupRollsBack, Sweep,
              SweepRollsBack

Public(k) == k[2] # "upload"

LEMMA FilesMove ==
  ASSUME TypeOK, Next
  PROVE  \A k \in files : Public(k) => k \in files' \/ k \in queue
  <1> DEFINE Goal == \A k \in files : Public(k) => k \in files' \/ k \in queue
  <1>1. ASSUME NEW a \in Asset, DeleteOriginal(a) PROVE Goal
    BY <1>1 DEF DeleteOriginal, Upload, Public
  <1>2. ASSUME NEW k \in Keys, Sweep(k) \/ SweepRollsBack(k) PROVE Goal
    BY <1>2 DEF Sweep, SweepRollsBack
  <1>3. CASE files \subseteq files'
    BY <1>3
  <1>4. ASSUME NEW c \in Calls, Complete(c) PROVE Goal
    <2>1. calls[c].asset \in Asset BY DEF TypeOK, Call
    <2> QED BY <1>1, <1>3, <1>4, <2>1
            DEF Complete, Read, Size, EnqueueVideo, Bytes, PutVariants, Save, Reject,
                Delete, Reread, Enqueue
  <1>5. ASSUME NEW p \in Pods, Convert(p) PROVE Goal
    <2>1. pods[p].asset \in Asset BY DEF TypeOK, Pod
    <2> QED BY <1>1, <1>3, <1>5, <2>1
            DEF Convert, Start, Download, PutFiles, SaveVideo, DeleteVideo, LostClaim,
                EnqueueLost, RejectVideo, Release
  <1>6. ASSUME NEW p \in Pods, ConvertFails(p) PROVE Goal
    BY <1>3, <1>6 DEF ConvertFails, PutSome
  <1> QED BY <1>2, <1>3, <1>4, <1>5, <1>6
          DEF Next, Presign, Put, CheckMedia, Attach, Abandon, Detach,
              Age, Stall, Begin, Claim, PodVars,
              CallFails, PodDies, DrainEnds, CleanupPicks, CleanupDeletes,
              CleanupRollsBack

LEMMA QueueMoves ==
  ASSUME TypeOK, OnlyGoneIsQueued, Next
  PROVE  \A k \in queue' \ queue : Public(k) => rows'[k[1]].status = "GONE"
  <1> DEFINE Goal == \A k \in queue' \ queue : Public(k) => rows'[k[1]].status = "GONE"
  <1>1. ASSUME NEW c \in Calls, Complete(c) PROVE Goal
    <2> DEFINE a == calls[c].asset
    <2>a. a \in Asset BY DEF TypeOK, Call
    <2>1. CASE Enqueue(c, a)
      BY <2>1, <2>a, UploadIsKey DEF Enqueue, OnlyGoneIsQueued, Exists
    <2>2. CASE Delete(c, a)
      BY <2>2, <2>a, UploadIsKey DEF Delete, DeleteOriginal, Public
    <2> QED BY <1>1, <2>1, <2>2
            DEF Complete, Read, Size, EnqueueVideo, Bytes, PutVariants, Save, Reject,
                Reread
  <1>2. ASSUME NEW p \in Pods, Convert(p) PROVE Goal
    <2> DEFINE a == pods[p].asset
    <2>a. a \in Asset BY DEF TypeOK, Pod
    <2>1. CASE EnqueueLost(p, a)
      BY <2>1, <2>a, UploadIsKey DEF EnqueueLost, OnlyGoneIsQueued, Exists
    <2>2. CASE DeleteVideo(p, a)
      BY <2>2, <2>a, UploadIsKey DEF DeleteVideo, DeleteOriginal, Public
    <2> QED BY <1>2, <2>1, <2>2
            DEF Convert, Start, Download, PutFiles, SaveVideo, LostClaim, RejectVideo,
                Release
  <1>3. CASE CleanupDeletes
    <2>1. SUFFICES ASSUME NEW d \in doomed, NEW k \in KeysOf(d[1], d[2]), Public(k)
                   PROVE  rows'[k[1]].status = "GONE"
      BY <1>3 DEF CleanupDeletes
    <2>2. d[1] \in Asset BY DEF TypeOK
    <2>3. k[1] = d[1] BY <2>1, <2>2, UploadIsKey DEF KeysOf, Public
    <2> QED BY <1>3, <2>2, <2>3 DEF CleanupDeletes, TypeOK, Row
  <1> QED BY <1>1, <1>2, <1>3
          DEF Next, Presign, Put, CheckMedia, Attach, Abandon, Detach,
              Age, Stall, Begin, Claim, PodVars,
              CallFails, ConvertFails, PutSome, PodDies, DrainEnds, CleanupPicks,
              CleanupRollsBack, Sweep, SweepRollsBack

-----------------------------------------------------------------------------
(* The invariant, conjunct by conjunct.                                    *)

LEMMA InitInvariant == ASSUME AssetsConstantsOK PROVE Init => IInv
  BY InitTypes
     DEF Init, IInv, AboutPresigned, PutsStay, OnlyGoneIsQueued, ReadyHasFiles,
         ClaimsAreNumbered

LEMMA PresignedStep == ASSUME IInv, Next, TypeOK' PROVE AboutPresigned'
  <1> USE DEF IInv
  <1>r. \A b \in Asset : rows[b].status # "ABSENT" => rows'[b].status # "ABSENT"
    BY RowsMove DEF RowMove
  <1>1. \A c \in Calls : calls'[c].at # "idle" => rows'[calls'[c].asset].status # "ABSENT"
    <2> SUFFICES ASSUME NEW c \in Calls, calls'[c].at # "idle"
                 PROVE  rows'[calls'[c].asset].status # "ABSENT"
      OBVIOUS
    <2>1. calls'[c].asset \in Asset BY DEF TypeOK, Call
    <2>2. rows[calls'[c].asset].status # "ABSENT"
      BY CallsMove DEF CallMove, AboutPresigned
    <2> QED BY <2>1, <2>2, <1>r
  <1>2. \A p \in Pods : pods'[p].at # "idle" => rows'[pods'[p].asset].status # "ABSENT"
    <2> SUFFICES ASSUME NEW p \in Pods, pods'[p].at # "idle"
                 PROVE  rows'[pods'[p].asset].status # "ABSENT"
      OBVIOUS
    <2>1. pods'[p].asset \in Asset BY DEF TypeOK, Pod
    <2>2. rows[pods'[p].asset].status # "ABSENT"
      BY PodsMove DEF PodMove, TakesOver, AboutPresigned
    <2> QED BY <2>1, <2>2, <1>r
  <1> QED BY <1>1, <1>2 DEF AboutPresigned

(* The public files of a row that exists, once put, survive every step. *)
LEMMA OutputsStay ==
  ASSUME IInv, Next, NEW a \in Asset, rows[a].status # "ABSENT", Exists(a),
         Outputs(a) \subseteq files
  PROVE  Outputs(a)' \subseteq files'
  <1>1. Outputs(a)' = Outputs(a) BY RowsMove DEF RowMove, Outputs, IInv, VariantKeys
  <1>2. \A k \in Outputs(a) : Public(k) /\ k[1] = a /\ k \notin queue
    BY UploadIsKey DEF Public, IInv, OnlyGoneIsQueued
  <1> QED BY <1>1, <1>2, FilesMove DEF IInv

LEMMA ExistedBefore ==
  ASSUME IInv, Next, NEW a \in Asset, Exists(a)'
  PROVE  Exists(a)
  BY RowsMove DEF RowMove, Exists, IInv

LEMMA PutsStayStep == ASSUME IInv, Next, TypeOK' PROVE PutsStay'
  <1> USE DEF IInv
  <1>o. \A a \in Asset : rows[a].status # "ABSENT" => Outputs(a)' = Outputs(a)
    BY RowsMove DEF RowMove, Outputs, VariantKeys
  <1>2. ASSUME NEW a \in Asset, NEW c \in Calls,
               calls'[c].at = "save", calls'[c].asset = a, Exists(a)'
        PROVE  Outputs(a)' \subseteq files'
    <2>1. Exists(a) BY <1>2, ExistedBefore
    <2>2. calls[c].at # "idle" /\ calls[c].asset = a BY <1>2, CallsMove DEF CallMove
    <2>3. rows[a].status # "ABSENT" BY <2>2 DEF AboutPresigned
    <2>4. CASE calls[c].at = "save"
      BY <2>1, <2>2, <2>3, <2>4, OutputsStay DEF PutsStay
    <2>5. CASE calls[c].at # "save"
      <3>1. Outputs(a) \subseteq files' BY <1>2, <2>2, <2>5, CallsMove DEF CallMove
      <3> QED BY <3>1, <2>3, <1>o
    <2> QED BY <2>4, <2>5
  <1>3. ASSUME NEW a \in Asset, NEW p \in Pods,
               pods'[p].at = "save", pods'[p].asset = a, Exists(a)'
        PROVE  Outputs(a)' \subseteq files'
    <2>1. Exists(a) BY <1>3, ExistedBefore
    <2>m. PodMove(pods[p], pods'[p])
      BY <1>3, PodsMove DEF TakesOver, PodMove
    <2>2. pods[p].at # "idle" /\ pods[p].asset = a BY <1>3, <2>m DEF PodMove
    <2>3. rows[a].status # "ABSENT" BY <2>2 DEF AboutPresigned
    <2>4. CASE pods[p].at = "save"
      BY <2>1, <2>2, <2>3, <2>4, OutputsStay DEF PutsStay
    <2>5. CASE pods[p].at # "save"
      <3>1. Outputs(a) \subseteq files' BY <1>3, <2>m, <2>2, <2>5 DEF PodMove
      <3> QED BY <3>1, <2>3, <1>o
    <2> QED BY <2>4, <2>5
  <1>4. /\ \A c \in Calls : calls'[c].asset \in Asset
        /\ \A p \in Pods : pods'[p].asset \in Asset
    BY DEF TypeOK, Call, Pod
  <1> QED BY <1>2, <1>3, <1>4 DEF PutsStay

LEMMA QueueStep == ASSUME IInv, Next, TypeOK' PROVE OnlyGoneIsQueued'
  <1> USE DEF IInv
  <1>g. \A a \in Asset : ~Exists(a) => ~Exists(a)' BY ExistedBefore
  <1>1. \A k \in queue' : k[2] # "upload" => ~Exists(k[1])'
    <2> SUFFICES ASSUME NEW k \in queue', k[2] # "upload" PROVE ~Exists(k[1])'
      OBVIOUS
    <2>1. k[1] \in Asset BY DEF TypeOK, Keys
    <2>2. CASE k \in queue BY <2>1, <2>2, <1>g DEF OnlyGoneIsQueued
    <2>3. CASE k \notin queue BY <2>1, <2>3, QueueMoves DEF Public, Exists
    <2> QED BY <2>2, <2>3
  <1>2. \A c \in Calls : calls'[c].at = "enqueue" => ~Exists(calls[c].asset)
                                /\ calls'[c].asset = calls[c].asset
    BY CallsMove DEF CallMove, OnlyGoneIsQueued
  <1>3. \A p \in Pods : pods'[p].at = "enqueue" => ~Exists(pods[p].asset)
                                /\ pods'[p].asset = pods[p].asset
    BY PodsMove DEF PodMove, TakesOver, OnlyGoneIsQueued
  <1>4. /\ \A c \in Calls : calls[c].asset \in Asset
        /\ \A p \in Pods : pods[p].asset \in Asset
    BY DEF TypeOK, Call, Pod
  <1> QED BY <1>1, <1>2, <1>3, <1>4, <1>g DEF OnlyGoneIsQueued, Exists

LEMMA ReadyStep == ASSUME IInv, Next, TypeOK' PROVE ReadyHasFiles'
  <1> USE DEF IInv
  <1> SUFFICES ASSUME NEW a \in Asset, rows'[a].status = "READY"
               PROVE  Outputs(a)' \subseteq files'
    BY DEF ReadyHasFiles
  <1>1. CASE rows[a].status = "READY"
    BY <1>1, OutputsStay DEF ReadyHasFiles, Exists
  <1>2. CASE rows[a].status # "READY"
    <2>1. /\ Outputs(a) \subseteq files /\ UNCHANGED files
          /\ rows[a].status \notin {"ABSENT", "GONE"}
      BY <1>2, ReadyAfterPuts
    <2> QED BY <2>1, OutputsStay DEF Exists
  <1> QED BY <1>1, <1>2

LEMMA ClaimsStep == ASSUME IInv, Next, TypeOK' PROVE ClaimsAreNumbered'
  <1> USE DEF IInv
  <1>n. /\ \A a \in Asset : /\ rows[a].attempts \in Nat /\ rows'[a].attempts \in Nat
                            /\ rows[a].claim \in Nat /\ rows'[a].claim \in Nat
        /\ \A p \in Pods : /\ pods[p].asset \in Asset /\ pods'[p].asset \in Asset
                           /\ pods[p].claim \in Nat /\ pods'[p].claim \in Nat
    BY DEF TypeOK, Row, Pod
  <1>a. \A a \in Asset : rows[a].attempts <= rows'[a].attempts
    BY RowsMove DEF RowMove
  <1>1. \A a \in Asset : rows'[a].claim <= rows'[a].attempts
    BY RowsMove DEF RowMove, ClaimsAreNumbered
  <1>2. CASE \A q \in Pods : PodMove(pods[q], pods'[q])
    <2>1. \A q \in Pods : pods'[q].at # "idle" =>
            /\ pods[q].at # "idle" /\ pods'[q].asset = pods[q].asset
            /\ pods'[q].claim = pods[q].claim
      BY <1>2 DEF PodMove
    <2>2. \A q \in Pods : pods'[q].at # "idle" =>
            pods'[q].claim \in 1..rows'[pods'[q].asset].attempts
      <3> SUFFICES ASSUME NEW q \in Pods, pods'[q].at # "idle"
                   PROVE  pods'[q].claim \in 1..rows'[pods'[q].asset].attempts
        OBVIOUS
      <3>1. pods[q].claim \in 1..rows[pods[q].asset].attempts
        BY <2>1 DEF ClaimsAreNumbered
      <3> QED BY <3>1, <2>1, <1>a, <1>n
    <2> QED BY <1>1, <2>1, <2>2 DEF ClaimsAreNumbered
  <1>3. ASSUME NEW p \in Pods, NEW a \in Asset, TakesOver(p, a)
        PROVE  ClaimsAreNumbered'
    <2>1. \A q \in Pods : pods[q].at # "idle" =>
            pods[q].claim \in 1..rows[pods[q].asset].attempts
      BY DEF ClaimsAreNumbered
    <2>2. /\ pods'[p].asset = a /\ pods'[p].claim = rows[a].attempts + 1
          /\ rows'[a].attempts = rows[a].attempts + 1
          /\ \A q \in Pods \ {p} : pods'[q] = pods[q]
      BY <1>3 DEF TakesOver
    <2>3. \A q \in Pods : pods'[q].at # "idle" =>
            pods'[q].claim \in 1..rows'[pods'[q].asset].attempts
      <3> SUFFICES ASSUME NEW q \in Pods, pods'[q].at # "idle"
                   PROVE  pods'[q].claim \in 1..rows'[pods'[q].asset].attempts
        OBVIOUS
      <3>1. CASE q = p BY <3>1, <2>2, <1>n
      <3>2. CASE q # p
        <4>1. pods'[q] = pods[q] BY <3>2, <2>2
        <4>2. pods[q].claim \in 1..rows[pods[q].asset].attempts BY <4>1, <2>1
        <4> QED BY <4>1, <4>2, <1>a, <1>n
      <3> QED BY <3>1, <3>2
    <2>4. \A q \in Pods : q # p /\ pods'[q].at # "idle" /\ pods'[q].asset = a =>
            pods'[q].claim # pods'[p].claim
      <3> SUFFICES ASSUME NEW q \in Pods, q # p, pods'[q].at # "idle", pods'[q].asset = a
                   PROVE  pods'[q].claim # pods'[p].claim
        OBVIOUS
      <3>1. pods'[q] = pods[q] BY <2>2
      <3>2. pods[q].claim <= rows[a].attempts BY <3>1, <2>1, <1>n
      <3> QED BY <3>1, <3>2, <2>2, <1>n
    <2>5. \A q, r \in Pods :
            q # r /\ pods'[q].at # "idle" /\ pods'[r].at # "idle"
                  /\ pods'[q].asset = pods'[r].asset => pods'[q].claim # pods'[r].claim
      <3> SUFFICES ASSUME NEW q \in Pods, NEW r \in Pods, q # r, pods'[q].at # "idle",
                          pods'[r].at # "idle", pods'[q].asset = pods'[r].asset
                   PROVE  pods'[q].claim # pods'[r].claim
        OBVIOUS
      <3>1. CASE q = p \/ r = p BY <3>1, <2>2, <2>4
      <3>2. CASE q # p /\ r # p BY <3>2, <2>2 DEF ClaimsAreNumbered
      <3> QED BY <3>1, <3>2
    <2> QED BY <1>1, <2>3, <2>5 DEF ClaimsAreNumbered
  <1> QED BY <1>2, <1>3, PodsMove

LEMMA Invariant == ASSUME AssetsConstantsOK PROVE Init /\ [][Next]_vars => []IInv
  <1>1. ASSUME IInv, [Next]_vars PROVE IInv'
    <2>1. CASE Next
      <3>1. TypeOK' BY <1>1, <2>1, StepTypes DEF IInv
      <3> QED BY <1>1, <2>1, <3>1, PresignedStep, PutsStayStep, QueueStep, ReadyStep,
                 ClaimsStep DEF IInv
    <2>2. CASE UNCHANGED vars
      BY <1>1, <2>2 DEF vars, IInv, TypeOK, AboutPresigned, PutsStay, OnlyGoneIsQueued,
                        ReadyHasFiles, ClaimsAreNumbered, Exists, Outputs, VariantKeys
    <2> QED BY <1>1, <2>1, <2>2
  <1> QED BY <1>1, InitInvariant, PTL

-----------------------------------------------------------------------------
(* The theorems. *)

(* A READY asset has all its public files in the bucket and none of them   *)
(* queued for deletion, whatever calls of complete, workers and cleanups   *)
(* ran before, are running, or died half-way.                              *)
THEOREM ReadyMediaIsPlayable ==
  ASSUME AssetsConstantsOK PROVE Spec => []ReadyIsPlayable
  <1>1. IInv => ReadyIsPlayable
    <2> SUFFICES ASSUME IInv, NEW a \in Asset, rows[a].status = "READY"
                 PROVE  Outputs(a) \subseteq files \ queue
      BY DEF IInv, ReadyIsPlayable
    <2>1. Outputs(a) \subseteq files BY DEF IInv, ReadyHasFiles
    <2>2. \A k \in Outputs(a) : k \notin queue
      BY UploadIsKey DEF IInv, OnlyGoneIsQueued, Exists
    <2> QED BY <2>1, <2>2
  <1> QED BY <1>1, Invariant, PTL DEF Spec

(* What a submission refers to is READY, though it was looked at before    *)
(* the transaction: the status is final for all but the cleanup job, whose *)
(* removal of the row fails the late INSERT, and which removes nothing a   *)
(* submission refers to.                                                   *)
CheckedIsReady == \A a \in forms : rows[a].status \in {"READY", "GONE"}

THEOREM SubmittedMediaIsReady ==
  ASSUME AssetsConstantsOK PROVE Spec => []SubmittedIsReady
  <1> DEFINE Both == SubmittedIsReady /\ CheckedIsReady
  <1>1. Init => Both BY DEF Init, SubmittedIsReady, CheckedIsReady
  <1>2. ASSUME IInv, Both, [Next]_vars PROVE Both'
    <2> USE DEF IInv
    <2>c. ASSUME Next PROVE CheckedIsReady'
      <3> SUFFICES ASSUME NEW a \in forms'
                   PROVE  rows'[a].status \in {"READY", "GONE"}
        BY DEF CheckedIsReady
      <3>1. ASSUME NEW b \in Asset, CheckMedia(b) \/ Attach(b) \/ Abandon(b)
            PROVE  rows'[a].status \in {"READY", "GONE"}
        BY <1>2, <3>1 DEF CheckMedia, Attach, Abandon, CheckedIsReady
      <3>2. CASE UNCHANGED forms
        <4>1. a \in Asset /\ rows[a].status \in {"READY", "GONE"}
          BY <1>2, <3>2 DEF TypeOK, CheckedIsReady
        <4> QED BY <4>1, <1>2, <2>c, RowsMove DEF RowMove
      <3>3. UNCHANGED forms \/ \E b \in Asset : CheckMedia(b) \/ Attach(b) \/ Abandon(b)
        BY <2>c
           DEF Next, Presign, Put, Detach, Age, Stall, Begin, Claim, CallVars, PodVars,
               Complete, CallFails, Convert, ConvertFails, PodDies, DrainEnds, JobVars,
               CleanupPicks, CleanupDeletes, CleanupRollsBack, Sweep, SweepRollsBack
      <3> QED BY <3>1, <3>2, <3>3
    <2>1. ASSUME Next PROVE SubmittedIsReady'
      <3> SUFFICES ASSUME NEW a \in used' PROVE rows'[a].status = "READY"
        BY DEF SubmittedIsReady
      <3>1. ASSUME NEW b \in Asset, Attach(b) \/ Detach(b)
            PROVE  rows'[a].status = "READY"
        BY <1>2, <3>1 DEF Attach, Detach, SubmittedIsReady, CheckedIsReady
      <3>2. CASE CleanupDeletes
        BY <1>2, <3>2 DEF CleanupDeletes, JobVars, SubmittedIsReady, TypeOK
      <3>3. CASE UNCHANGED used /\ ~CleanupDeletes
        <4>1. a \in used /\ a \in Asset BY <1>2, <3>3 DEF TypeOK
        <4>2. rows[a].status = "READY" BY <1>2, <4>1 DEF SubmittedIsReady
        <4>3. rows'[a].status # "GONE" BY <1>2, <2>1, <3>3, <4>1, <4>2, OnlyCleanupRemoves
        <4> QED BY <4>1, <4>2, <4>3, <1>2, <2>1, RowsMove DEF RowMove
      <3>4. UNCHANGED used \/ CleanupDeletes \/ \E b \in Asset : Attach(b) \/ Detach(b)
        BY <2>1
           DEF Next, Presign, Put, CheckMedia, Abandon, Age, Stall, Begin, Claim, CallVars,
               PodVars, Complete, CallFails, Convert, ConvertFails, PodDies, DrainEnds,
               JobVars, CleanupPicks, CleanupRollsBack, Sweep, SweepRollsBack
      <3> QED BY <3>1, <3>2, <3>3, <3>4
    <2>2. CASE UNCHANGED vars BY <1>2, <2>2 DEF vars, SubmittedIsReady, CheckedIsReady
    <2> QED BY <1>2, <2>c, <2>1, <2>2
  <1>3. Both => SubmittedIsReady OBVIOUS
  <1> QED BY <1>1, <1>2, <1>3, Invariant, PTL DEF Spec

(* Of all the calls and workers that convert a file, stale ones included,  *)
(* one decides; only the removal of the row follows.                       *)
THEOREM DecisionIsFinal == ASSUME AssetsConstantsOK PROVE Spec => FinishedForever
  <1>1. ASSUME IInv, [Next]_vars
        PROVE  [\A a \in Asset : Finished(a) =>
                  rows'[a].status \in {rows[a].status, "GONE"}]_vars
    BY <1>1, RowsMove DEF IInv, Finished, RowMove
  <1> QED BY <1>1, Invariant, PTL DEF Spec, FinishedForever

(* At most one worker holds the claim of a video, however often it was     *)
(* taken over: each claim is numbered past all earlier ones.               *)
THEOREM OneWorkerPerVideo ==
  ASSUME AssetsConstantsOK PROVE Spec => []OneWorkerHolds
  <1>1. IInv => OneWorkerHolds
    BY DEF IInv, ClaimsAreNumbered, OneWorkerHolds, StillClaimed
  <1> QED BY <1>1, Invariant, PTL DEF Spec

=============================================================================
