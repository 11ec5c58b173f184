------------------------------- MODULE Kinds -------------------------------
(***************************************************************************)
(* The rules of the three kinds of submission, as pure functions: what a   *)
(* kind takes, what it makes of a form, when two contents are the same, and*)
(* what it tells the TVs.  Contents puts them to work.                     *)
(*                                                                         *)
(* An optional field of a request is a set: {} when it was not sent, else  *)
(* the set of its one value, which may be None, the null that clears it.   *)
(***************************************************************************)
EXTENDS Integers, FiniteSets

CONSTANTS
  Assets,      \* media the requester uploaded
  Videos,      \* those that are videos
  FileOf,      \* what was uploaded as each of them, which may be the same
  Categories,
  Groups,      \* target groups
  Texts,       \* what a text field may say
  Day,         \* the length of a day, in the unit of Instants
  MaxPoster,   \* maxPublishMonths, in that unit
  MaxBanner,   \* eventBannerMaxDays
  Instants     \* the startAt and endAt a requester may send

None == "none"
Null == -1     \* the SQL null of startAt and endAt

ASSUME KindsConstantsOK ==
  /\ Videos \subseteq Assets
  /\ DOMAIN FileOf = Assets
  /\ \A a, b \in Assets : FileOf[a] = FileOf[b] => (a \in Videos <=> b \in Videos)
  /\ \A a \in Assets : FileOf[a] # None
  /\ None \notin Assets \cup Categories \cup Groups \cup Texts
  /\ Instants \subseteq Nat
  /\ Day \in Nat \ {0} /\ MaxPoster \in Nat /\ MaxBanner \in Nat

Kinds == {"POSTER", "EVENT_BANNER", "STORY"}

The(optional) == CHOOSE value \in optional : TRUE

Patched(value, current) == IF value = {} THEN current ELSE The(value)

-----------------------------------------------------------------------------
(* What the three definitions declare.                                     *)

PosterRule == [fields |-> {"category", "asset", "link", "caption"},
               onApproval |-> FALSE, targetable |-> TRUE, resubmittable |-> TRUE]

BannerRule == [fields |-> {"banner"},
               onApproval |-> FALSE, targetable |-> TRUE, resubmittable |-> TRUE]

StoryRule == [fields |-> {"story"},
              onApproval |-> TRUE, targetable |-> FALSE, resubmittable |-> FALSE]

RuleOf(kind) == CASE kind = "POSTER"       -> PosterRule
                  [] kind = "EVENT_BANNER" -> BannerRule
                  [] kind = "STORY"        -> StoryRule

(* The columns that kinds fill in.  caption stands for the organizer, the  *)
(* subtitle, the location and the description of a poster, which are       *)
(* patched alike and which no rule reads.  So is its title, which cannot be*)
(* cleared; the titles of the other kinds are made of their details.       *)
NoLink == [url |-> None, notice |-> None]
EmptyColumns == [category |-> None, asset |-> None, link |-> NoLink,
                 caption |-> None]

Banner == [mode : {"TEMPLATE", "IMAGE"}, occasion : {"BIRTHDAY", None},
           recipient : Texts, headline : Texts \cup {None},
           message : Texts \cup {None}, consent : BOOLEAN]

(* A story is numbered when it is approved.                                *)
Story == [body : Texts, numbered : BOOLEAN]

NoDetail == [mode |-> "POSTER"]

-----------------------------------------------------------------------------
(* Requests.                                                               *)

Optional(values) == {{}} \cup {{value} : value \in values}

BannerInput == [mode : {"TEMPLATE", "IMAGE"}, occasion : {"BIRTHDAY", None},
                recipient : Texts, headline : Texts \cup {None},
                message : Texts \cup {None}, consent : BOOLEAN,
                photo : Assets \cup {None}, asset : Assets \cup {None}]

StoryInput == Texts

(* A URL as it is typed, and what parseDetailUrl makes of it: the address  *)
(* of a notice, the same in capitals, another page of an allowed host, and *)
(* one that is refused.                                                    *)
RawLinks == {"notice", "NOTICE", "page", "elsewhere"}
Refused(raw) == raw = "elsewhere"
Parsed(raw) == IF raw = "page" THEN [url |-> "page", notice |-> None]
                               ELSE [url |-> "notice", notice |-> "n1"]

(* SubmissionDisplayFields, which a null clears.                           *)
Display == [link |-> RawLinks \cup {None}, caption |-> Texts \cup {None}]

RequestDto == [category : Optional(Categories), asset : Optional(Assets),
            link : Optional(Display.link),
            caption : Optional(Display.caption),
            banner : Optional(BannerInput), story : Optional(StoryInput),
            startAt : Optional(Instants), endAt : Optional(Instants),
            groups : Optional(SUBSET Groups)]

EmptyRequest == [f \in {"category", "asset", "link", "caption", "banner",
                        "story", "startAt", "endAt", "groups"} |-> {}]

(* CreateSubmissionDto: what the class validator requires of each kind.    *)
Complete(kind, input) ==
  /\ kind = "POSTER" => input.category # {} /\ input.asset # {}
  /\ kind = "EVENT_BANNER" => input.banner # {}
  /\ kind = "STORY" => input.story # {}
  /\ kind # "STORY" => input.startAt # {} /\ input.endAt # {}

(* Null, and no groups, count as not sent.                                 *)
Sent(input) ==
  {f \in DOMAIN input :
     CASE f \in DOMAIN Display -> input[f] \notin {{}, {None}}
       [] f = "groups" -> input[f] \notin {{}, {{}}}
       [] OTHER -> input[f] # {}}

Unaccepted(kind, input) ==
  Sent(input)
    \ (RuleOf(kind).fields
         \cup (IF RuleOf(kind).onApproval THEN {} ELSE {"startAt", "endAt"})
         \cup (IF RuleOf(kind).targetable THEN {"groups"} ELSE {}))

-----------------------------------------------------------------------------
(* The period a requester asks for.  That it is not over yet is checked in *)
(* Submissions, which has the clock.                                       *)

Midnight(t) == t % Day = 0

CommonPeriod(start, end) == start < end

PosterPeriod(start, end) == CommonPeriod(start, end) /\ end <= start + MaxPoster

BannerPeriod(start, end) ==
  /\ CommonPeriod(start, end)
  /\ Midnight(start) /\ Midnight(end) /\ end - start <= MaxBanner * Day

ValidPeriod(kind, start, end) ==
  CASE kind = "POSTER"       -> PosterPeriod(start, end)
    [] kind = "EVENT_BANNER" -> BannerPeriod(start, end)
    [] kind = "STORY"        -> TRUE

PeriodErrors(kind, start, end) ==
  {f \in {"period"} : ~ValidPeriod(kind, start, end)}

-----------------------------------------------------------------------------
(* resolve: current is {} on creation, else the row.  media is the status  *)
(* of each asset, hidden the categories and groups no one may choose.      *)

CheckMedia(asset, allowVideo, media) ==
  media[asset] = "READY" /\ (allowVideo \/ asset \notin Videos)

(* A reference is checked only when it is new.                             *)
IsNew_Always(value, field, current) == TRUE

IsNew(value, field, current) ==
  \A row \in current : value # row.columns[field]

ResolvePoster(input, current, media, hidden) ==
  LET prev == IF current = {} THEN EmptyColumns ELSE The(current).columns
      category == Patched(input.category, prev.category)
      asset    == Patched(input.asset, prev.asset)
      refused  == {raw \in input.link : raw # None /\ Refused(raw)}
      link == IF input.link = {} \/ refused # {} THEN prev.link
              ELSE IF input.link = {None} THEN NoLink
              ELSE Parsed(The(input.link))
  IN [errors |->
        {f \in {"link"} : refused # {}}
          \cup {f \in {"category"} :
                  IsNew(category, f, current) /\ category \in hidden}
          \cup {f \in {"asset"} : IsNew(asset, f, current)
                                   /\ ~CheckMedia(asset, TRUE, media)},
      columns |-> [category |-> category, asset |-> asset, link |-> link,
                   caption |-> Patched(input.caption, prev.caption)],
      detail |-> NoDetail]

TemplateErrors(b) ==
  {f \in {"occasion", "headline", "message"} : b[f] = None}
    \cup {f \in {"asset"} : b.asset # None}
    \cup {f \in {"consent"} : b.photo # None /\ ~b.consent}

ImageErrors(b) ==
  {f \in {"asset"} : b.asset = None} \cup {f \in {"photo"} : b.photo # None}

MediaOf(b) == IF b.mode = "TEMPLATE" THEN b.photo ELSE b.asset

(* An edit that sends no content leaves what is there.                     *)
Unsent(field, current) ==
  IF current = {}
  THEN [errors |-> {field}, columns |-> EmptyColumns, detail |-> NoDetail]
  ELSE [errors |-> {}, columns |-> The(current).columns,
        detail |-> The(current).detail]

BannerMade(b, current, media) ==
  LET asset == MediaOf(b)
  IN [errors |->
        (IF b.mode = "TEMPLATE" THEN TemplateErrors(b) ELSE ImageErrors(b))
          \cup {f \in {"asset"} : /\ asset # None /\ IsNew(asset, f, current)
                                  /\ ~CheckMedia(asset, FALSE, media)},
      columns |-> [EmptyColumns EXCEPT !.asset = asset],
      detail |-> [mode |-> b.mode, occasion |-> b.occasion,
                  recipient |-> b.recipient, headline |-> b.headline,
                  message |-> b.message,
                  consent |-> b.mode = "TEMPLATE" /\ asset # None /\ b.consent]]

StoryMade(body, current) ==
  [errors |-> {}, columns |-> EmptyColumns,
   detail |-> [body |-> body,
               numbered |-> \E row \in current : row.detail.numbered]]

Resolve(kind, input, current, media, hidden) ==
  CASE kind = "POSTER" -> ResolvePoster(input, current, media, hidden)
    [] kind = "EVENT_BANNER" ->
         IF input.banner = {} THEN Unsent("banner", current)
         ELSE BannerMade(The(input.banner), current, media)
    [] kind = "STORY" ->
         IF input.story = {} THEN Unsent("story", current)
         ELSE StoryMade(The(input.story), current)

(* DetailStore.equals                                                      *)
SameDetail(kind, a, b) ==
  CASE kind = "POSTER" -> TRUE
    [] kind = "EVENT_BANNER" -> a = b
    [] kind = "STORY" -> a.body = b.body

-----------------------------------------------------------------------------
(* What a submission looks like to its requester, and the form that is     *)
(* filled in with it.  toResponse puts the one asset of a banner back into *)
(* the field it came from.                                                 *)

PosterResponse(row) ==
  [category |-> row.columns.category, asset |-> row.columns.asset,
   link |-> row.columns.link, caption |-> row.columns.caption,
   banner |-> {}, story |-> {}]

EmptyResponse == [category |-> None, asset |-> None, link |-> NoLink,
                  caption |-> None, banner |-> {}, story |-> {}]

BannerResponse(row) ==
  LET image == row.detail.mode = "IMAGE"
  IN [EmptyResponse EXCEPT !.banner =
        {[mode |-> row.detail.mode, occasion |-> row.detail.occasion,
          recipient |-> row.detail.recipient, headline |-> row.detail.headline,
          message |-> row.detail.message, consent |-> row.detail.consent,
          photo |-> IF image THEN None ELSE row.columns.asset,
          asset |-> IF image THEN row.columns.asset ELSE None]}]

StoryResponse(row) == [EmptyResponse EXCEPT !.story = {row.detail}]

Response(row) ==
  CASE row.kind = "POSTER"       -> PosterResponse(row)
    [] row.kind = "EVENT_BANNER" -> BannerResponse(row)
    [] row.kind = "STORY"        -> StoryResponse(row)

(* A form has the fields of its kind, each with what the answer shows.     *)
FormOf(row) ==
  LET shown == Response(row)
      period == [EmptyRequest EXCEPT !.startAt = {row.startAt},
                                     !.endAt = {row.endAt},
                                     !.groups = {row.groups}]
  IN CASE row.kind = "POSTER" ->
            [period EXCEPT !.category = {shown.category},
                           !.asset = {shown.asset},
                           !.link = {shown.link.url},
                           !.caption = {shown.caption}]
       [] row.kind = "EVENT_BANNER" -> [period EXCEPT !.banner = shown.banner]
       [] row.kind = "STORY" ->
            [EmptyRequest EXCEPT !.story = {detail.body : detail \in shown.story}]

-----------------------------------------------------------------------------
(* The items of a playlist, without the times and ids every item has.  The *)
(* asset stands for its address, which is made of its id.                  *)

PosterItem(row) ==
  [category |-> row.columns.category, detailUrl |-> row.columns.link.url,
   caption |-> row.columns.caption,
   video |-> row.columns.asset \in Videos, assetUrl |-> row.columns.asset]

BannerItem(row) ==
  LET image == row.detail.mode = "IMAGE"
  IN [mode |-> row.detail.mode, occasion |-> row.detail.occasion,
      recipient |-> row.detail.recipient, headline |-> row.detail.headline,
      message |-> row.detail.message,
      photoUrl |-> IF image THEN None ELSE row.columns.asset,
      assetUrl |-> IF image THEN row.columns.asset ELSE None]

StoryItem(row) == [number |-> row.detail.numbered, body |-> row.detail.body]

ItemOf(row) == CASE row.kind = "POSTER"       -> PosterItem(row)
                 [] row.kind = "EVENT_BANNER" -> BannerItem(row)
                 [] row.kind = "STORY"        -> StoryItem(row)

(* A hash taken to have no collisions: of its file for a poster, of the    *)
(* words and the hash of the file, not of its address, for a banner.       *)
FileAt(url) == IF url = None THEN None ELSE FileOf[url]

Words(row) == <<row.detail.mode, row.detail.occasion, row.detail.recipient,
                row.detail.headline, row.detail.message>>

Checksum_OfTheAddress(row) ==
  CASE row.kind = "POSTER" -> <<FileAt(row.columns.asset)>>
    [] row.kind = "EVENT_BANNER" -> <<Words(row), row.columns.asset>>
    [] row.kind = "STORY" -> <<row.detail.numbered, row.detail.body>>

Checksum(row) ==
  CASE row.kind = "POSTER" -> <<FileAt(row.columns.asset)>>
    [] row.kind = "EVENT_BANNER" -> <<Words(row), FileAt(row.columns.asset)>>
    [] row.kind = "STORY" -> <<row.detail.numbered, row.detail.body>>

(* The declared shapes of the answers and of the items.                    *)
SubmissionDto == [category : Categories \cup {None}, asset : Assets \cup {None},
                  link : [url : RawLinks \cup {None}, notice : {"n1", None}],
                  caption : Texts \cup {None},
                  banner : Optional(BannerInput), story : Optional(Story)]

PlaylistItemDto ==
  [category : Categories, detailUrl : {"notice", "page", None},
   caption : Texts \cup {None}, video : BOOLEAN, assetUrl : Assets]

EventBannerItemDto ==
  [mode : {"TEMPLATE", "IMAGE"}, occasion : {"BIRTHDAY", None},
   recipient : Texts, headline : Texts \cup {None},
   message : Texts \cup {None},
   photoUrl : Assets \cup {None}, assetUrl : Assets \cup {None}]

StoryItemDto == [number : BOOLEAN, body : Texts]

=============================================================================
