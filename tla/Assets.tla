------------------------------- MODULE Assets -------------------------------
(***************************************************************************)
(* Uploaded media: from the signed upload URL to the public files, and to  *)
(* their deletion.                                                         *)
(*                                                                         *)
(* Two stores change and no transaction spans them: the assets table and   *)
(* the bucket.  Calls of POST /assets/{id}/complete, the video workers of  *)
(* the pods and the cleanup job run at once; each await between two of     *)
(* their accesses is a step boundary here, at which a pod may also die.    *)
(* Time is abstract: an asset ages past the limits of the cleanup job, and *)
(* a claim on a video becomes stale.                                       *)
(***************************************************************************)
EXTENDS Naturals, FiniteSets

CONSTANTS
  Asset,        \* the ids presign may hand out
  Calls,        \* requests to complete an upload
  Pods,         \* pods, each converting one video at a time
  MaxAttempts,  \* MAX_PROCESSING_ATTEMPTS
  MaxFaults     \* BOUND on crashes and storage failures

ASSUME AssetsConstantsOK ==
  /\ Asset # {}
  /\ MaxAttempts \in Nat
  /\ MaxFaults \in Nat

VARIABLES
  rows,     \* the assets table
  content,  \* what the client put at its upload URL
  files,    \* the keys present in the bucket
  queue,    \* storage_deletions: the keys still to be deleted
  forms,    \* the assets a request under way has found fit to attach
  used,     \* the assets some submission refers to
  age,      \* 0: URL valid; 1: past it and the grace; 2: past the other limits
  calls,    \* the state of each request
  pods,     \* the state of each pod's worker
  doomed,   \* <<asset, status>>: what a running cleanup chose to delete
  faults    \* how many faults have happened

vars ==
  <<rows, content, files, queue, forms, used, age, calls, pods, doomed, faults>>

-----------------------------------------------------------------------------
(* Keys and rows.  A name with an underscore is a wrong variant of the     *)
(* definition it precedes, as in Submissions.                              *)

Media    == {"IMAGE", "VIDEO"}
Statuses == {"PENDING_UPLOAD", "PROCESSING", "READY", "REJECTED"}
Keys     == Asset \X {"upload", "webp", "mp4"}

Upload(a)      == <<a, "upload">>
VariantKeys(a) == {<<a, "webp">>, <<a, "mp4">>}   \* variantKeysOf

(* ABSENT: not presigned yet.  GONE: deleted by the cleanup job.  claim is *)
(* processing_started_at: 0 for null, else which attempt wrote it.  Stale  *)
(* means it was written more than STALE_AFTER_MS ago.                      *)
Row == [status : Statuses \cup {"ABSENT", "GONE"}, kind : Media,
        attempts : Nat, claim : Nat, stale : BOOLEAN]

Outputs(a) == IF rows[a].kind = "VIDEO" THEN VariantKeys(a)
                                        ELSE {<<a, "webp">>}

Answers == {"NONE", "READY", "REJECTED", "PROCESSING", "NOT_UPLOADED",
            "NOT_FOUND"}

Call == [at : {"idle", "read", "size", "queue", "bytes", "put", "save",
               "reject", "delete", "reread", "enqueue"},
         asset : Asset, answer : Answers]

Pod == [at : {"idle", "start", "download", "put", "save", "delete", "lost",
              "enqueue", "reject", "rejectDelete", "release"},
        asset : Asset, claim : Nat, saved : BOOLEAN, failed : SUBSET Asset]

TypeOK ==
  /\ rows \in [Asset -> Row]
  /\ content \in [Asset -> {"none", "good", "corrupt", "huge"}]
  /\ files \subseteq Keys
  /\ queue \subseteq Keys
  /\ forms \subseteq Asset
  /\ used \subseteq Asset
  /\ age \in [Asset -> 0..2]
  /\ calls \in [Calls -> Call]
  /\ pods \in [Pods -> Pod]
  /\ doomed \subseteq Asset \X Statuses
  /\ faults \in 0..MaxFaults

Init ==
  LET any == CHOOSE a \in Asset : TRUE
  IN /\ rows = [a \in Asset |-> [status |-> "ABSENT", kind |-> "IMAGE",
                                 attempts |-> 0, claim |-> 0, stale |-> FALSE]]
     /\ content = [a \in Asset |-> "none"]
     /\ files = {}
     /\ queue = {}
     /\ forms = {}
     /\ used = {}
     /\ age = [a \in Asset |-> 0]
     /\ calls = [c \in Calls |-> [at |-> "idle", asset |-> any,
                                  answer |-> "NONE"]]
     /\ pods = [p \in Pods |-> [at |-> "idle", asset |-> any, claim |-> 0,
                                saved |-> FALSE, failed |-> {}]]
     /\ doomed = {}
     /\ faults = 0

Fault == faults < MaxFaults /\ faults' = faults + 1

(* The UPDATE ... WHERE id = a AND status = from of both kinds of writer.  *)
Switch(a, from, to) ==
  rows' = IF rows[a].status = from THEN [rows EXCEPT ![a].status = to]
                                   ELSE rows

(* markRejected, before it deletes the original. *)
MarkRejected_Always(a, from) == rows' = [rows EXCEPT ![a].status = "REJECTED"]

MarkRejected(a, from) == Switch(a, from, "REJECTED")

(* The upload is deleted, or its deletion fails and is queued for later. *)
DeleteOriginal(a) ==
  \/ files' = files \ {Upload(a)} /\ UNCHANGED <<queue, faults>>
  \/ Fault /\ queue' = queue \cup {Upload(a)} /\ UNCHANGED files

-----------------------------------------------------------------------------
(* The client, and the submissions that use the media.                     *)

Presign(a, kind) ==
  /\ rows[a].status = "ABSENT"
  /\ rows' = [rows EXCEPT ![a].status = "PENDING_UPLOAD", ![a].kind = kind]
  /\ UNCHANGED <<content, files, queue, forms, used, age, calls, pods, doomed,
                 faults>>

(* The PUT to the signed URL.  A file that arrived damaged may be sent     *)
(* again while the URL is valid.                                           *)
Put(a, what) ==
  /\ rows[a].status # "ABSENT" /\ age[a] = 0
  /\ content[a] = "none" \/ (content[a] = "corrupt" /\ what # "huge")
  /\ content' = [content EXCEPT ![a] = what]
  /\ files' = files \cup {Upload(a)}
  /\ UNCHANGED <<rows, queue, forms, used, age, calls, pods, doomed, faults>>

(* A request to make or edit a submission looks at the asset before its    *)
(* transaction.                                                            *)
CheckMedia(a) ==
  /\ rows[a].status = "READY" /\ a \notin forms
  /\ forms' = forms \cup {a}
  /\ UNCHANGED <<rows, content, files, queue, used, age, calls, pods, doomed,
                 faults>>

(* The INSERT or UPDATE that refers to it: only the foreign key looks at   *)
(* the asset again, and asks no more than that its row exists.             *)
Attach(a) ==
  /\ a \in forms /\ rows[a].status # "GONE"
  /\ forms' = forms \ {a}
  /\ used' = used \cup {a}
  /\ UNCHANGED <<rows, content, files, queue, age, calls, pods, doomed,
                 faults>>

(* The request is refused or dies, or the foreign key fails its INSERT. *)
Abandon(a) ==
  /\ a \in forms
  /\ forms' = forms \ {a}
  /\ UNCHANGED <<rows, content, files, queue, used, age, calls, pods, doomed,
                 faults>>

Detach(a) ==
  /\ a \in used
  /\ used' = used \ {a}
  /\ UNCHANGED <<rows, content, files, queue, forms, age, calls, pods, doomed,
                 faults>>

Age(a) ==
  /\ rows[a].status # "ABSENT" /\ age[a] < 2
  /\ age' = [age EXCEPT ![a] = @ + 1]
  /\ UNCHANGED <<rows, content, files, queue, forms, used, calls, pods,
                 doomed, faults>>

Stall(a) ==
  /\ rows[a].claim # 0 /\ ~rows[a].stale
  /\ rows' = [rows EXCEPT ![a].stale = TRUE]
  /\ UNCHANGED <<content, files, queue, forms, used, age, calls, pods, doomed,
                 faults>>

-----------------------------------------------------------------------------
(* POST /assets/{id}/complete.                                             *)

CallVars == <<content, forms, used, age, pods, doomed>>

GoesTo(c, at)   == calls' = [calls EXCEPT ![c].at = at]
Answer(c, what) == calls' = [calls EXCEPT ![c].at = "idle", ![c].answer = what]

Begin(c, a) ==
  /\ calls[c].at = "idle" /\ rows[a].status # "ABSENT"
  /\ calls' = [calls EXCEPT ![c] = [at |-> "read", asset |-> a,
                                    answer |-> "NONE"]]
  /\ UNCHANGED <<rows, files, queue, faults, CallVars>>

(* One step of call c on asset a, in the order of the handler. *)
Read(c, a) ==
  /\ calls[c].at = "read"
  /\ CASE rows[a].status = "PENDING_UPLOAD" -> GoesTo(c, "size")
       [] rows[a].status = "GONE"           -> Answer(c, "NOT_FOUND")
       [] OTHER                             -> Answer(c, rows[a].status)
  /\ UNCHANGED <<rows, files, queue, faults>>

Size(c, a) ==
  /\ calls[c].at = "size"
  /\ CASE Upload(a) \notin files     -> Answer(c, "NOT_UPLOADED")
       [] Upload(a) \in files /\ content[a] = "huge" -> GoesTo(c, "reject")
       [] OTHER -> GoesTo(c, IF rows[a].kind = "VIDEO" THEN "queue"
                                                       ELSE "bytes")
  /\ UNCHANGED <<rows, files, queue, faults>>

(* enqueueVideo: kick needs no step, since an idle pod may claim any time. *)
EnqueueVideo(c, a) ==
  /\ calls[c].at = "queue"
  /\ Switch(a, "PENDING_UPLOAD", "PROCESSING")
  /\ IF rows[a].status = "PENDING_UPLOAD" THEN Answer(c, "PROCESSING")
                                          ELSE GoesTo(c, "read")
  /\ UNCHANGED <<files, queue, faults>>

(* A missing file makes getBytes throw: the request fails with no answer.  *)
Bytes(c, a) ==
  /\ calls[c].at = "bytes"
  /\ CASE Upload(a) \notin files     -> Answer(c, "NONE")
       [] Upload(a) \in files /\ content[a] = "good" -> GoesTo(c, "put")
       [] OTHER                      -> GoesTo(c, "reject")
  /\ UNCHANGED <<rows, files, queue, faults>>

PutVariants(c, a) ==
  /\ calls[c].at = "put"
  /\ files' = files \cup Outputs(a)
  /\ GoesTo(c, "save")
  /\ UNCHANGED <<rows, queue, faults>>

Save(c, a) ==
  /\ calls[c].at = "save"
  /\ Switch(a, "PENDING_UPLOAD", "READY")
  /\ calls' = [calls EXCEPT ![c].at = "delete", ![c].answer =
                 IF rows[a].status = "PENDING_UPLOAD" THEN "READY" ELSE "NONE"]
  /\ UNCHANGED <<files, queue, faults>>

Reject(c, a) ==
  /\ calls[c].at = "reject"
  /\ MarkRejected(a, "PENDING_UPLOAD")
  /\ calls' = [calls EXCEPT ![c].at = "delete", ![c].answer = "REJECTED"]
  /\ UNCHANGED <<files, queue, faults>>

Delete(c, a) ==
  /\ calls[c].at = "delete"
  /\ DeleteOriginal(a)
  /\ GoesTo(c, IF calls[c].answer = "NONE" THEN "reread" ELSE "idle")
  /\ UNCHANGED rows

(* The save lost: whoever won left a result, unless the row is gone. *)
Reread(c, a) ==
  /\ calls[c].at = "reread"
  /\ IF rows[a].status = "GONE" THEN GoesTo(c, "enqueue")
                                ELSE Answer(c, "READY")
  /\ UNCHANGED <<rows, files, queue, faults>>

Enqueue(c, a) ==
  /\ calls[c].at = "enqueue"
  /\ queue' = queue \cup VariantKeys(a)
  /\ Answer(c, "NOT_FOUND")
  /\ UNCHANGED <<rows, files, faults>>

(* The storage, the database or the pod fails: the client gets no answer.  *)
CallFails(c) ==
  /\ calls[c].at # "idle"
  /\ Fault
  /\ Answer(c, "NONE")
  /\ UNCHANGED <<rows, files, queue, CallVars>>

Complete(c) ==
  LET a == calls[c].asset
  IN /\ \/ Read(c, a) \/ Size(c, a) \/ EnqueueVideo(c, a) \/ Bytes(c, a)
        \/ PutVariants(c, a) \/ Save(c, a) \/ Reject(c, a) \/ Delete(c, a)
        \/ Reread(c, a) \/ Enqueue(c, a)
     /\ UNCHANGED CallVars

-----------------------------------------------------------------------------
(* VideoProcessingService: the worker of one pod.                          *)

PodVars == <<content, forms, used, age, calls, doomed>>

Moves(p, at) == pods' = [pods EXCEPT ![p].at = at]

(* The outcome 'retried': not claimed again before this drain ends. *)
Retried(p) == pods' = [pods EXCEPT ![p].at = "idle",
                                   ![p].failed = @ \cup {pods[p].asset}]

Claimable_UnclaimedOnly(a) == rows[a].status = "PROCESSING" /\ rows[a].claim = 0

Claimable(a) ==
  rows[a].status = "PROCESSING" /\ (rows[a].claim = 0 \/ rows[a].stale)

StillClaimed_AnyClaim(p) == TRUE

StillClaimed(p) ==
  LET row == rows[pods[p].asset]
  IN row.status = "PROCESSING" /\ row.claim = pods[p].claim

(* Which claimable video is the oldest is left open. *)
Claim(p, a) ==
  /\ pods[p].at = "idle" /\ Claimable(a) /\ a \notin pods[p].failed
  /\ rows' = [rows EXCEPT ![a].attempts = @ + 1, ![a].stale = FALSE,
                          ![a].claim = rows[a].attempts + 1]
  /\ pods' = [pods EXCEPT ![p].at = "start", ![p].asset = a,
                          ![p].claim = rows[a].attempts + 1,
                          ![p].saved = FALSE]
  /\ UNCHANGED <<files, queue, faults, PodVars>>

(* Nothing is left to claim: the next drain may take the failed ones again.*)
DrainEnds(p) ==
  /\ pods[p].at = "idle" /\ pods[p].failed # {}
  /\ \A a \in Asset : Claimable(a) => a \in pods[p].failed
  /\ pods' = [pods EXCEPT ![p].failed = {}]
  /\ UNCHANGED <<rows, files, queue, faults, PodVars>>

(* One step of pod p on asset a.  The claim's number is also the value of  *)
(* processing_attempts that the claiming UPDATE returned.                  *)
Start(p, a) ==
  /\ pods[p].at = "start"
  /\ Moves(p, IF pods[p].claim > MaxAttempts THEN "reject" ELSE "download")
  /\ UNCHANGED <<rows, files, queue, faults>>

Download(p, a) ==
  /\ pods[p].at = "download"
  /\ CASE Upload(a) \notin files     -> Moves(p, "release")
       [] Upload(a) \in files /\ content[a] = "good" -> Moves(p, "put")
       [] OTHER                      -> Moves(p, "reject")
  /\ UNCHANGED <<rows, files, queue, faults>>

PutFiles(p, a) ==
  /\ pods[p].at = "put"
  /\ files' = files \cup Outputs(a)
  /\ Moves(p, "save")
  /\ UNCHANGED <<rows, queue, faults>>

(* Some of the parallel puts fail. *)
PutSome(p, a) ==
  /\ pods[p].at = "put" /\ Fault
  /\ \E some \in SUBSET Outputs(a) : files' = files \cup some
  /\ Moves(p, "release")
  /\ UNCHANGED <<rows, queue>>

SaveVideo(p, a) ==
  /\ pods[p].at = "save"
  /\ rows' = IF StillClaimed(p) THEN [rows EXCEPT ![a].status = "READY"]
                                ELSE rows
  /\ pods' = [pods EXCEPT ![p].at = "delete", ![p].saved = StillClaimed(p)]
  /\ UNCHANGED <<files, queue, faults>>

DeleteVideo(p, a) ==
  /\ pods[p].at \in {"delete", "rejectDelete"}
  /\ DeleteOriginal(a)
  /\ Moves(p, IF pods[p].at = "delete" /\ ~pods[p].saved THEN "lost"
                                                         ELSE "idle")
  /\ UNCHANGED rows

RowGone_Unchecked(a) == TRUE

RowGone(a) == rows[a].status = "GONE"

(* handleLostClaim: the files just put are nobody's if the row is gone. *)
LostClaim(p, a) ==
  /\ pods[p].at = "lost"
  /\ IF RowGone(a) THEN Moves(p, "enqueue") ELSE Retried(p)
  /\ UNCHANGED <<rows, files, queue, faults>>

EnqueueLost(p, a) ==
  /\ pods[p].at = "enqueue"
  /\ queue' = queue \cup VariantKeys(a)
  /\ Retried(p)
  /\ UNCHANGED <<rows, files, faults>>

RejectVideo(p, a) ==
  /\ pods[p].at = "reject"
  /\ MarkRejected(a, "PROCESSING")
  /\ Moves(p, "rejectDelete")
  /\ UNCHANGED <<files, queue, faults>>

Freed(row) == [row EXCEPT !.claim = 0, !.stale = FALSE]

Release(p, a) ==
  /\ pods[p].at = "release"
  /\ rows' = IF StillClaimed(p) THEN [rows EXCEPT ![a] = Freed(@)] ELSE rows
  /\ Retried(p)
  /\ UNCHANGED <<files, queue, faults>>

Convert(p) ==
  LET a == pods[p].asset
  IN /\ \/ Start(p, a) \/ Download(p, a) \/ PutFiles(p, a) \/ SaveVideo(p, a)
        \/ DeleteVideo(p, a) \/ LostClaim(p, a) \/ EnqueueLost(p, a)
        \/ RejectVideo(p, a) \/ Release(p, a)
     /\ UNCHANGED PodVars

(* A transient failure: caught, the claim is given back. *)
ConvertFails(p) ==
  LET a == pods[p].asset
  IN /\ \/ PutSome(p, a)
        \/ /\ pods[p].at \in {"download", "save", "delete", "lost", "enqueue"}
           /\ Fault
           /\ Moves(p, "release")
           /\ UNCHANGED <<rows, files, queue>>
     /\ UNCHANGED PodVars

(* The pod dies, or a failure nothing catches ends its drain. *)
PodDies(p) ==
  /\ pods[p].at # "idle"
  /\ Fault
  /\ pods' = [pods EXCEPT ![p].at = "idle", ![p].failed = {}]
  /\ UNCHANGED <<rows, files, queue, PodVars>>

-----------------------------------------------------------------------------
(* AssetCleanupJob.  A DELETE chooses its rows by a subquery, on the       *)
(* statement's snapshot; what it locked meanwhile is deleted even if its   *)
(* status has moved on.  The foreign key of submissions fails the whole    *)
(* transaction.  The job lock admits one run at a time.                    *)

JobVars == <<content, forms, used, age, calls, pods>>

TooOld(a) ==
  CASE rows[a].status = "PENDING_UPLOAD"          -> age[a] >= 1
    [] rows[a].status \in {"READY", "REJECTED"}   -> age[a] = 2
    [] OTHER                                      -> FALSE

CleanupPicks ==
  LET unused == {a \in Asset : TooOld(a) /\ a \notin used}
  IN /\ doomed = {} /\ unused # {}
     /\ doomed' = {<<a, rows[a].status>> : a \in unused}
     /\ UNCHANGED <<rows, files, queue, faults, JobVars>>

KeysOf(a, status) ==
  CASE status = "PENDING_UPLOAD" -> {Upload(a)}
    [] status = "READY"          -> VariantKeys(a)
    [] OTHER                     -> {}

CleanupDeletes ==
  /\ doomed # {} /\ \A d \in doomed : d[1] \notin used
  /\ rows' = [a \in Asset |-> IF \E d \in doomed : d[1] = a
                              THEN [rows[a] EXCEPT !.status = "GONE"]
                              ELSE rows[a]]
  /\ queue' = queue \cup UNION {KeysOf(d[1], d[2]) : d \in doomed}
  /\ doomed' = {}
  /\ UNCHANGED <<files, faults, JobVars>>

CleanupRollsBack ==
  /\ doomed # {} /\ \E d \in doomed : d[1] \in used
  /\ doomed' = {}
  /\ UNCHANGED <<rows, files, queue, faults, JobVars>>

(* drainStorageDeletions, one key; or the file goes and the key stays, as  *)
(* its transaction never commits.  A failed deletion changes nothing here. *)
Sweep(k) ==
  /\ k \in queue
  /\ files' = files \ {k}
  /\ queue' = queue \ {k}
  /\ UNCHANGED <<rows, doomed, faults, JobVars>>

SweepRollsBack(k) ==
  /\ k \in queue /\ k \in files
  /\ Fault
  /\ files' = files \ {k}
  /\ UNCHANGED <<rows, queue, doomed, JobVars>>

-----------------------------------------------------------------------------
Next ==
  \/ \E a \in Asset :
       \/ \E kind \in Media : Presign(a, kind)
       \/ \E what \in {"good", "corrupt", "huge"} : Put(a, what)
       \/ CheckMedia(a) \/ Attach(a) \/ Abandon(a) \/ Detach(a)
       \/ Age(a) \/ Stall(a)
       \/ \E c \in Calls : Begin(c, a)
       \/ \E p \in Pods : Claim(p, a)
  \/ \E c \in Calls : Complete(c) \/ CallFails(c)
  \/ \E p \in Pods : Convert(p) \/ ConvertFails(p) \/ PodDies(p) \/ DrainEnds(p)
  \/ CleanupPicks \/ CleanupDeletes \/ CleanupRollsBack
  \/ \E k \in Keys : Sweep(k) \/ SweepRollsBack(k)

(* A pod that lives keeps working, its cron starts a drain every minute,   *)
(* and 15 minutes after a claim it is stale.                               *)
Fairness ==
  /\ \A p \in Pods : WF_vars(Convert(p)) /\ WF_vars(DrainEnds(p))
                     /\ WF_vars(\E a \in Asset : Claim(p, a))
  /\ \A a \in Asset : WF_vars(Stall(a))

Spec == Init /\ [][Next]_vars /\ Fairness

-----------------------------------------------------------------------------
(* Properties.                                                             *)

(* An asset that is READY has every public file in the bucket and none of  *)
(* them is waiting to be deleted, whichever worker wrote them and whatever *)
(* other workers and the cleanup job did before, meanwhile or after.       *)
ReadyIsPlayable ==
  /\ TypeOK
  /\ \A a \in Asset : rows[a].status = "READY" =>
       Outputs(a) \subseteq files \ queue

(* What a submission refers to is READY, though it was last looked at      *)
(* before the submission's transaction: no late reject and no cleanup      *)
(* takes the media away in between, or from under a submission.            *)
SubmittedIsReady == \A a \in used : rows[a].status = "READY"

(* A result is final: of all the calls and workers that convert a file,    *)
(* stale ones included, one decides, and only the cleanup job follows.     *)
Finished(a) == rows[a].status \in {"READY", "REJECTED", "GONE"}

FinishedForever ==
  [][\A a \in Asset : Finished(a) =>
       rows'[a].status \in {rows[a].status, "GONE"}]_vars

(* A queued video is decided in the end, through stale claims, crashes of  *)
(* the pods and storage failures.                                          *)
VideoSettles ==
  \A a \in Asset : rows[a].status = "PROCESSING" ~> Finished(a)

(* A worker that took a video over finds the original it has to convert:   *)
(* handleLostClaim says that the one which lost its claim leaves things to *)
(* it.  The code deletes the original before it looks at its claim.        *)
TakenOverCanFinish ==
  \A p \in Pods :
    pods[p].at \in {"start", "download"} /\ StillClaimed(p) =>
      Upload(pods[p].asset) \in files

=============================================================================
