------------------------------ MODULE Contents ------------------------------
(***************************************************************************)
(* What a submission shows, from form to screen: a requester writes and    *)
(* edits it, in whole or in part, while the media, the categories and the  *)
(* target groups it refers to come and go, a reviewer reads it and decides,*)
(* and TVs read it.                                                        *)
(*                                                                         *)
(* A form is checked before the transaction that stores it, and a content  *)
(* is read in two queries, the row and then its detail and groups: others  *)
(* act in between.                                                         *)
(***************************************************************************)
EXTENDS Kinds

CONSTANTS
  Forms,       \* BOUND: the requests a requester sends besides whole forms
  MaxVersion   \* BOUND on the versions of a row

ASSUME ContentsConstantsOK ==
  Forms \subseteq RequestDto /\ MaxVersion \in Nat \ {0}

VARIABLES
  row,     \* {} before the submission is made, else its row and detail
  draft,   \* {}, or what a handler has checked and is about to store
  media,   \* the status of each asset
  hidden,  \* the categories and groups no one may choose any more
  reader,  \* a reviewer's or a TV's two reads of the submission
  since    \* history: the version that brought the content there is now

contentVars == <<row, draft, media, hidden, reader, since>>

-----------------------------------------------------------------------------
(* APPROVED and SCHEDULED are one here: approved and not begun; RETURNED is*)
(* REJECTED or SUSPENDED.  Submissions has them all.                       *)
Statuses == {"PENDING_REVIEW", "SCHEDULED", "PUBLISHED", "RETURNED"}

Columns == [category : Categories \cup {None}, asset : Assets \cup {None},
            link : [url : {"notice", "page", None}, notice : {"n1", None}],
            caption : Texts \cup {None}]

Row == [kind : Kinds, status : Statuses, version : 1..MaxVersion,
        columns : Columns, detail : Banner \cup Story \cup {NoDetail},
        startAt : Instants \cup {Null}, endAt : Instants \cup {Null},
        groups : SUBSET Groups]

MediaStatus == {"PENDING_UPLOAD", "PROCESSING", "READY", "GONE"}

(* The versions at which the row and the detail were read, 0 for not yet,  *)
(* and whether that row was on air.                                        *)
Reader == [row : 0..MaxVersion, detail : 0..MaxVersion, onAir : BOOLEAN]

Unread == [row |-> 0, detail |-> 0, onAir |-> FALSE]

(* submissions[type] of a playlist; only a numbered story is an item.      *)
ItemDto(kind) ==
  CASE kind = "POSTER"       -> PlaylistItemDto
    [] kind = "EVENT_BANNER" -> EventBannerItemDto
    [] kind = "STORY"        -> {i \in StoryItemDto : i.number}

(* A row has the fields of its kind, and a period and groups only if its   *)
(* kind has them (submissions_category_poster_only, the lists of fields).  *)
OfItsKind(r) ==
  /\ r.kind # "POSTER" =>
       r.columns = [EmptyColumns EXCEPT !.asset = r.columns.asset]
  /\ r.detail \in (CASE r.kind = "POSTER" -> {NoDetail}
                     [] r.kind = "EVENT_BANNER" -> Banner
                     [] r.kind = "STORY" -> Story)
  /\ r.kind = "STORY" => /\ r.groups = {} /\ r.columns.asset = None
                         /\ r.status = "PENDING_REVIEW" => r.startAt = Null

ContentTypesOK ==
  /\ row \subseteq Row /\ Cardinality(row) <= 1
  /\ draft \subseteq Row /\ Cardinality(draft) <= 1
  /\ \A r \in row \cup draft : OfItsKind(r) /\ Response(r) \in SubmissionDto
  /\ \A r \in row : r.status = "PUBLISHED" => ItemOf(r) \in ItemDto(r.kind)
  /\ media \in [Assets -> MediaStatus]
  /\ hidden \subseteq Categories \cup Groups
  /\ reader \in Reader
  /\ since \in 0..MaxVersion

(* A new table: banners from before the column headline, which are         *)
(* templates without one, are left out.                                    *)
ContentInit ==
  /\ row = {} /\ draft = {}
  /\ media = [a \in Assets |-> "PENDING_UPLOAD"]
  /\ hidden = {}
  /\ reader = Unread
  /\ since = 0

Content(r) == <<r.columns, r.detail, r.startAt, r.endAt, r.groups>>

-----------------------------------------------------------------------------
(* The requester.                                                          *)

(* validateTargetGroups *)
GroupErrors(groups) == {g \in {"groups"} : groups \cap hidden # {}}

Create(kind, input) ==
  LET made == Resolve(kind, input, {}, media, hidden)
      period == IF RuleOf(kind).onApproval THEN <<Null, Null>>
                ELSE <<The(input.startAt), The(input.endAt)>>
      groups == IF RuleOf(kind).targetable THEN Patched(input.groups, {}) ELSE {}
  IN /\ row = {} /\ draft = {}
     /\ Complete(kind, input)
     /\ {} = Unaccepted(kind, input) \cup made.errors \cup GroupErrors(groups)
             \cup PeriodErrors(kind, period[1], period[2])
     /\ draft' = {[kind |-> kind, status |-> "PENDING_REVIEW", version |-> 1,
                   columns |-> made.columns, detail |-> made.detail,
                   startAt |-> period[1], endAt |-> period[2],
                   groups |-> groups]}
     /\ UNCHANGED <<row, media, hidden, reader, since>>

Again(r) == r.status = "SCHEDULED"     \* REAPPROVAL_STATUSES

(* What an edit makes of the row r, whether or not it may.                 *)
Edited(r, input) ==
  LET made == Resolve(r.kind, input, {r}, media, hidden)
  IN [r EXCEPT !.columns = made.columns,
               !.detail  = IF SameDetail(r.kind, @, made.detail) THEN @
                           ELSE made.detail,
               !.startAt = Patched(input.startAt, @),
               !.endAt   = Patched(input.endAt, @),
               !.groups  = Patched(input.groups, @)]

EditErrors_SentPeriod(r, input) ==
  LET next == Edited(r, input)
  IN Unaccepted(r.kind, input)
       \cup Resolve(r.kind, input, {r}, media, hidden).errors
       \cup (IF next.startAt # r.startAt
             THEN PeriodErrors(r.kind, next.startAt, next.endAt) ELSE {})
       \cup GroupErrors(next.groups \ r.groups)

(* The period is checked when it changes, or when the edit asks for another*)
(* approval, and of the groups only the new ones.                          *)
EditErrors(r, input) ==
  LET next == Edited(r, input)
  IN Unaccepted(r.kind, input)
       \cup Resolve(r.kind, input, {r}, media, hidden).errors
       \cup (IF \/ <<next.startAt, next.endAt>> # <<r.startAt, r.endAt>>
                \/ Again(r) /\ next # r
             THEN PeriodErrors(r.kind, next.startAt, next.endAt) ELSE {})
       \cup GroupErrors(next.groups \ r.groups)

Editable == {"PENDING_REVIEW", "SCHEDULED", "RETURNED"}

MayEdit(r) ==
  /\ r.status \in Editable
  /\ r.status = "RETURNED" => RuleOf(r.kind).resubmittable

(* An edit that changes nothing is answered without a write.               *)
Update(input) ==
  \E r \in row :
    /\ draft = {} /\ r.version < MaxVersion
    /\ MayEdit(r)
    /\ Edited(r, input) # r
    /\ EditErrors(r, input) = {}
    /\ draft' = {[Edited(r, input) EXCEPT
                    !.version = @ + 1,
                    !.status = IF Again(r) THEN "PENDING_REVIEW" ELSE @]}
    /\ UNCHANGED <<row, media, hidden, reader, since>>

(* The transaction.  The version is the one that was read, and the asset is*)
(* still there to refer to.                                                *)
Store ==
  \E next \in draft :
    /\ \/ row = {} /\ next.version = 1
       \/ \E r \in row : next.version = r.version + 1
    /\ next.columns.asset # None => media[next.columns.asset] # "GONE"
    /\ row' = {next}
    /\ draft' = {}
    /\ since' = IF \E r \in row : Content(r) = Content(next)
                THEN since ELSE next.version
    /\ UNCHANGED <<media, hidden, reader>>

(* The transaction is refused, or never comes. *)
GiveUp ==
  /\ draft # {}
  /\ draft' = {}
  /\ UNCHANGED <<row, media, hidden, reader, since>>

-----------------------------------------------------------------------------
(* Reviewers, the job, and those who read.                                 *)

Order_DetailFirst == <<"detail", "row">>

(* detail, list, liveSubmissions: the row, then what is kept beside it.    *)
Order == <<"row", "detail">>

Read(which) ==
  \E r \in row :
    /\ reader' = IF which = Order[1]
                 THEN [Unread EXCEPT ![which] = r.version,
                                     !.onAir = r.status = "PUBLISHED"]
                 ELSE [reader EXCEPT ![which] = r.version]
    /\ which = Order[2] => reader[Order[1]] # 0 /\ reader[which] = 0
    /\ UNCHANGED <<row, draft, media, hidden, since>>

Moves(r, status) ==
  /\ r.version < MaxVersion
  /\ row' = {[r EXCEPT !.status = status, !.version = @ + 1]}
  /\ UNCHANGED <<draft, media, hidden, reader, since>>

(* onApprove: a story gets its number with the approval. *)
Numbered(r) == [r EXCEPT !.detail.numbered = TRUE]

(* The request carries the version of the row that its reviewer has read.  *)
Approve(start) ==
  \E r \in row :
    LET shown == IF RuleOf(r.kind).onApproval
                 THEN Numbered([r EXCEPT !.startAt = start, !.endAt = start + Day])
                 ELSE r
    IN /\ r.status = "PENDING_REVIEW"
       /\ reader.detail # 0 /\ reader.row = r.version
       /\ r.columns.asset # None => media[r.columns.asset] = "READY"
       /\ RuleOf(r.kind).onApproval => start + Day \in Instants
       /\ \E status \in IF RuleOf(r.kind).onApproval THEN {"PUBLISHED"}
                        ELSE {"SCHEDULED", "PUBLISHED"} :
            Moves(shown, status)

Reject == \E r \in row : r.status = "PENDING_REVIEW" /\ Moves(r, "RETURNED")

Suspend ==
  \E r \in row : r.status \in {"SCHEDULED", "PUBLISHED"} /\ Moves(r, "RETURNED")

Submit ==
  \E r \in row :
    /\ r.status = "RETURNED" /\ RuleOf(r.kind).resubmittable
    /\ PeriodErrors(r.kind, r.startAt, r.endAt) = {}
    /\ Moves(r, "PENDING_REVIEW")

Starts == \E r \in row : r.status = "SCHEDULED" /\ Moves(r, "PUBLISHED")

-----------------------------------------------------------------------------
(* What submissions refer to.                                              *)

Becomes(a, status) ==
  /\ media' = [media EXCEPT ![a] = status]
  /\ UNCHANGED <<row, draft, hidden, reader, since>>

Uploaded(a) ==
  /\ media[a] = "PENDING_UPLOAD"
  /\ Becomes(a, IF a \in Videos THEN "PROCESSING" ELSE "READY")

Converted(a) == media[a] = "PROCESSING" /\ Becomes(a, "READY")

(* Media that no submission refers to is cleaned up, also while a handler  *)
(* is about to refer to it.                                                *)
CleanedUp(a) ==
  /\ media[a] = "READY"
  /\ \A r \in row : r.columns.asset # a
  /\ Becomes(a, "GONE")

HideOrShow(x) ==
  /\ hidden' = IF x \in hidden THEN hidden \ {x} ELSE hidden \cup {x}
  /\ UNCHANGED <<row, draft, media, reader, since>>

-----------------------------------------------------------------------------
ContentNext ==
  \/ \E input \in Forms :
       Update(input) \/ \E kind \in Kinds : Create(kind, input)
  \/ Store \/ GiveUp
  \/ \E which \in {"row", "detail"} : Read(which)
  \/ \E start \in Instants : Approve(start)
  \/ Reject \/ Suspend \/ Submit \/ Starts
  \/ \E a \in Assets : Uploaded(a) \/ Converted(a) \/ CleanedUp(a)
  \/ \E x \in Categories \cup Groups : HideOrShow(x)

ContentSpec == ContentInit /\ [][ContentNext]_contentVars

-----------------------------------------------------------------------------
(* Properties.                                                             *)

(* A template has its words and an image banner its image, a photo comes  *)
(* with consent and consent with a photo.                                  *)
BannersAreWhole ==
  \A r \in row \cup draft : r.kind = "EVENT_BANNER" =>
    IF r.detail.mode = "TEMPLATE"
    THEN /\ None \notin {r.detail.occasion, r.detail.headline, r.detail.message}
         /\ r.detail.consent <=> r.columns.asset # None
    ELSE r.columns.asset # None /\ ~r.detail.consent

(* The media is there and converted, and is of a kind that can be shown.   *)
MediaIsUsable ==
  \A r \in row : r.columns.asset # None =>
    /\ media[r.columns.asset] = "READY"
    /\ r.columns.asset \in Videos => r.kind = "POSTER"

(* The period is one that a whole form would be allowed to ask for.        *)
PeriodIsAllowed ==
  \A r \in row \cup draft : r.kind # "STORY" =>
    /\ r.startAt < r.endAt
    /\ r.kind = "EVENT_BANNER" => \E day \in 0..r.startAt :
         /\ r.startAt = day * Day
         /\ \E n \in 1..MaxBanner : r.endAt = (day + n) * Day
    /\ r.kind = "POSTER" => r.endAt - r.startAt <= MaxPoster

(* What the handlers let through is what the tables and the TVs take, for  *)
(* forms of any shape and any sequence of edits of any part, whatever was  *)
(* cleaned up between the check of a form and its transaction (resolve of  *)
(* each kind, checkMediaAsset, validateSchedule, unacceptedFields, and the *)
(* CHECKs of submission_event_banners).                                    *)
ContentIsAllowed == ContentTypesOK /\ BannersAreWhole /\ MediaIsUsable /\ PeriodIsAllowed

(* A requester who sends the whole form back as it was filled in changes   *)
(* nothing, loses no approval and meets no error in it, even if the        *)
(* category or a group is hidden by now.  That some rows may not be edited *)
(* at all (MayEdit) is another matter (SubmissionsService.update).         *)
ResendChangesNothing ==
  \A r \in row :
    LET form == FormOf(r)
        same == IF r.columns.link.url = None
                THEN [form EXCEPT !.link = IF r.kind = "POSTER" THEN {None}
                                           ELSE {}]
                ELSE form
    IN Edited(r, same) = r /\ EditErrors(r, same) = {}

ApprovedAsRead ==
  \A start \in Instants : Approve(start) => since <= reader.detail

StoryReadsAreWhole ==
  \A r \in row : r.kind = "STORY" /\ reader.onAir /\ reader.detail # 0 =>
    since <= reader.row

(* What is approved is what its reviewer read, although the row, with the  *)
(* version the decision names, and the detail are read apart: an edit in   *)
(* between can only make the decision fail.  A story a TV reads is the one *)
(* that was approved, also when its two reads have a suspension and more   *)
(* between them: nobody edits it after that.                               *)
ReadsAreWhole == [][ApprovedAsRead /\ StoryReadsAreWhole']_contentVars

(* What a TV keeps under the checksum of a content, having fetched what the*)
(* addresses of the item lead to: the file of a poster, whose words it     *)
(* takes from the item each time, and the whole of a banner or a story.    *)
Kept(r) ==
  LET item == ItemOf(r)
  IN CASE r.kind = "POSTER" -> <<item.video, FileAt(item.assetUrl)>>
       [] r.kind = "EVENT_BANNER" ->
            [item EXCEPT !.photoUrl = FileAt(@), !.assetUrl = FileAt(@)]
       [] r.kind = "STORY" -> item

(* The checksum of a content changes if, and only if, what a TV keeps under*)
(* it does: a photo that becomes the image of a banner must change it, the *)
(* same file at another address must not, nor must the words of a poster   *)
(* (contentChecksum of each kind, PlaylistItemDto.checksum, the key of a   *)
(* TV's cache of media).                                                   *)
ChecksumTellsContent ==
  [][\A r \in row, s \in row' :
       Checksum(r) = Checksum(s) <=> Kept(r) = Kept(s)]_contentVars

=============================================================================
