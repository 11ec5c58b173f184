---------------------------- MODULE ReviewProofs ----------------------------
(***************************************************************************)
(* What reviewers decide on, and who they are: Contents for any content,   *)
(* any forms and any number of edits and decisions, and UserRoles for any  *)
(* users, any requests and any number of changes.                          *)
(*                                                                         *)
(* Contents: a row and a draft hold what their kind may hold, with a period*)
(* that a whole form might ask for, as resolve starts from a row that does *)
(* and an edit that leaves the period alone leaves an allowed one.  What a *)
(* row shows is ready, and what a draft refers to was ready when it was    *)
(* checked and may only be gone since, which Store notices.  A draft is of *)
(* a version that a decision outdates, so a story has no edit after its    *)
(* approval; what a reader has of the row is older than what it has of the *)
(* detail, so a decision on the version it has is on what it has seen.     *)
(*                                                                         *)
(* UserRoles: whoever is inside the lock was found to be SUPER_ADMIN there *)
(* and nobody else can change the table before it leaves; a revoker is     *)
(* never its own target; so after any change its author still is           *)
(* SUPER_ADMIN.                                                            *)
(***************************************************************************)
EXTENDS Contents, UserRoles, FiniteSetTheorems, TLAPS

-----------------------------------------------------------------------------
(* The contents of submissions.                                            *)

(* What parseDetailUrl makes of the addresses it takes.                    *)
Links == {NoLink, [url |-> "page", notice |-> None], [url |-> "notice", notice |-> "n1"]}

(* What a poster, a banner and a story may hold.                           *)
PosterContent(c, d) ==
  /\ c \in Columns /\ c.category \in Categories /\ c.asset \in Assets
  /\ c.link \in Links
  /\ d = NoDetail

BannerContent(c, d) ==
  /\ c \in Columns /\ c = [EmptyColumns EXCEPT !.asset = c.asset]
  /\ c.asset \notin Videos
  /\ d \in Banner
  /\ IF d.mode = "TEMPLATE"
     THEN /\ None \notin {d.occasion, d.headline, d.message}
          /\ d.consent <=> c.asset # None
     ELSE c.asset # None /\ ~d.consent

StoryContent(c, d) == c = EmptyColumns /\ d \in Story

(* The columns c and the detail d of a submission of that kind.            *)
ContentOK(kind, c, d) ==
  /\ kind = "POSTER" => PosterContent(c, d)
  /\ kind = "EVENT_BANNER" => BannerContent(c, d)
  /\ kind = "STORY" => StoryContent(c, d)

(* A story has its number when it is on air, and no period before.        *)
StoryStands(r) ==
  /\ r.groups = {} /\ r.status # "SCHEDULED"
  /\ r.status = "PENDING_REVIEW" => r.startAt = Null
  /\ r.status = "PUBLISHED" => r.detail.numbered

(* A row or a draft that may be.                                           *)
Allowed(r) ==
  /\ r \in Row
  /\ ContentOK(r.kind, r.columns, r.detail)
  /\ r.kind # "STORY" => /\ r.startAt \in Instants /\ r.endAt \in Instants
                         /\ ValidPeriod(r.kind, r.startAt, r.endAt)
  /\ r.kind = "STORY" => StoryStands(r)

(* The media a handler refers to was there before, or is ready.            *)
Found(asset, current) ==
  (\E r \in current : asset = r.columns.asset) \/ media[asset] = "READY"

(* At most one row and one draft, each as it may be.                       *)
Shapes ==
  /\ \A r, s \in row : r = s
  /\ \A r, s \in draft : r = s
  /\ \A r \in row \cup draft : Allowed(r)
  /\ media \in [Assets -> MediaStatus]
  /\ hidden \subseteq Categories \cup Groups
  /\ reader \in Reader /\ since \in 0..MaxVersion

(* What is referred to can be shown, or a draft is too late.               *)
MediaHold ==
  /\ \A r \in row : r.columns.asset # None => media[r.columns.asset] = "READY"
  /\ \A r \in draft : r.columns.asset # None => media[r.columns.asset] \in {"READY", "GONE"}

(* A draft was made of this version or an earlier one; a story has none    *)
(* that could still be stored once it is decided.                          *)
DraftsFollow ==
  \A r \in row, d \in draft :
    /\ d.kind = r.kind /\ d.version <= r.version + 1
    /\ r.kind = "STORY" /\ r.status # "PENDING_REVIEW" => d.version <= r.version

(* The row is read first, and a story on air was read as it still is.      *)
ReadsFollow ==
  /\ row = {} => reader = Unread
  /\ reader.detail # 0 => reader.row <= reader.detail
  /\ \A r \in row :
       /\ since <= r.version /\ reader.row <= r.version
       /\ r.kind = "STORY" /\ reader.onAir =>
            r.status # "PENDING_REVIEW" /\ since <= reader.row

(* The inductive invariant.                                                *)
ContentInv == Shapes /\ MediaHold /\ DraftsFollow /\ ReadsFollow

-----------------------------------------------------------------------------
LEMMA TheOne == ASSUME NEW x PROVE The({x}) = x
BY DEF The

(* A patch is what was sent, or what was there.                            *)
LEMMA PatchedIn ==
  ASSUME NEW V, NEW x \in Optional(V), NEW current
  PROVE  /\ x = {} => Patched(x, current) = current
         /\ x # {} => Patched(x, current) \in V /\ The(x) \in V /\ x = {The(x)}
BY TheOne DEF Optional, Patched

LEMMA Fields ==
  ASSUME NEW input \in RequestDto
  PROVE  /\ DOMAIN input = {"category", "asset", "link", "caption", "banner", "story",
                            "startAt", "endAt", "groups"}
         /\ input.category \in Optional(Categories) /\ input.asset \in Optional(Assets)
         /\ input.link \in Optional(RawLinks \cup {None})
         /\ input.caption \in Optional(Texts \cup {None})
         /\ input.banner \in Optional(BannerInput) /\ input.story \in Optional(Texts)
         /\ input.startAt \in Optional(Instants) /\ input.endAt \in Optional(Instants)
         /\ input.groups \in Optional(SUBSET Groups)
BY DEF RequestDto, Display, StoryInput

(* A story takes no period and no groups.                                  *)
LEMMA StoryTakes ==
  ASSUME NEW input \in RequestDto, Unaccepted("STORY", input) = {}
  PROVE  input.startAt = {} /\ input.endAt = {} /\ input.groups \in {{}, {{}}}
<1>1. /\ RuleOf("STORY").fields = {"story"} /\ RuleOf("STORY").onApproval
      /\ ~RuleOf("STORY").targetable
  BY DEF RuleOf, StoryRule
<1>2. Sent(input) \subseteq {"story"} BY <1>1 DEF Unaccepted
<1>3. DOMAIN Display = {"link", "caption"} BY DEF Display
<1>4. /\ "startAt" \in DOMAIN input /\ "endAt" \in DOMAIN input /\ "groups" \in DOMAIN input
  BY Fields
<1>5. /\ input["startAt"] # {} => "startAt" \in Sent(input)
      /\ input["endAt"] # {} => "endAt" \in Sent(input)
      /\ input["groups"] \notin {{}, {{}}} => "groups" \in Sent(input)
  BY <1>3, <1>4 DEF Sent
<1> QED BY <1>2, <1>5

(* What a poster is made of.                                               *)
LEMMA PosterMade ==
  ASSUME NEW input \in RequestDto, NEW current,
         \/ current = {} /\ input.category # {} /\ input.asset # {}
         \/ \E r : current = {r} /\ Allowed(r) /\ r.kind = "POSTER"
  PROVE  /\ PosterContent(ResolvePoster(input, current, media, hidden).columns,
                          ResolvePoster(input, current, media, hidden).detail)
         /\ ResolvePoster(input, current, media, hidden).errors = {} =>
              Found(ResolvePoster(input, current, media, hidden).columns.asset, current)
<1> DEFINE prev == IF current = {} THEN EmptyColumns ELSE The(current).columns
           category == Patched(input.category, prev.category)
           asset == Patched(input.asset, prev.asset)
           refused == {raw \in input.link : raw # None /\ Refused(raw)}
           link == IF input.link = {} \/ refused # {} THEN prev.link
                   ELSE IF input.link = {None} THEN NoLink
                   ELSE Parsed(The(input.link))
           caption == Patched(input.caption, prev.caption)
           made == ResolvePoster(input, current, media, hidden)
<1>1. /\ made.columns = [category |-> category, asset |-> asset, link |-> link,
                         caption |-> caption]
      /\ made.detail = NoDetail
      /\ made.errors = {} => (IsNew(asset, "asset", current) => CheckMedia(asset, TRUE, media))
  BY DEF ResolvePoster
<1>2. /\ prev.link \in Links /\ prev.caption \in Texts \cup {None}
      /\ prev.category \in Categories \/ input.category # {}
      /\ prev.asset \in Assets \/ input.asset # {}
  <2>1. CASE current = {}
    <3>1. prev = EmptyColumns BY <2>1
    <3>2. prev.link = NoLink /\ prev.caption = None BY <3>1 DEF EmptyColumns
    <3> QED BY <2>1, <3>2 DEF Links
  <2>2. ASSUME NEW r, current = {r}, Allowed(r), r.kind = "POSTER"
        PROVE  /\ prev.link \in Links /\ prev.caption \in Texts \cup {None}
               /\ prev.category \in Categories /\ prev.asset \in Assets
    <3>1. prev = r.columns BY <2>2, TheOne
    <3>2. r.columns \in Columns BY <2>2 DEF Allowed, Row
    <3>3. PosterContent(r.columns, r.detail) BY <2>2 DEF Allowed, ContentOK
    <3> HIDE DEF prev
    <3> QED BY <3>1, <3>2, <3>3 DEF PosterContent, Columns
  <2> HIDE DEF prev
  <2> QED BY <2>1, <2>2
<1> HIDE DEF prev
<1>3. category \in Categories /\ asset \in Assets /\ caption \in Texts \cup {None}
  BY <1>2, Fields, PatchedIn
<1>4. link \in Links
  <2>1. CASE input.link = {} \/ refused # {} BY <2>1, <1>2
  <2>2. CASE input.link = {None} /\ refused = {} BY <2>2 DEF Links
  <2>3. CASE ~(input.link = {} \/ refused # {}) /\ input.link # {None}
    <3>1. link = Parsed(The(input.link)) BY <2>3
    <3> QED BY <3>1 DEF Parsed, Links
  <2> QED BY <2>1, <2>2, <2>3
<1> HIDE DEF category, asset, link, caption, made
<1>5. \A x \in Links : x \in [url : {"notice", "page", None}, notice : {"n1", None}]
  BY DEF Links, NoLink
<1>6. made.columns \in Columns BY <1>1, <1>3, <1>4, <1>5 DEF Columns
<1>7. made.errors = {} => Found(asset, current)
  BY <1>1 DEF IsNew, CheckMedia, Found
<1>8. made.columns.category = category /\ made.columns.asset = asset /\ made.columns.link = link
  BY <1>1
<1>9. PosterContent(made.columns, made.detail)
  BY <1>1, <1>3, <1>4, <1>6, <1>8 DEF PosterContent
<1> QED BY <1>7, <1>8, <1>9 DEF made

(* And a banner, if nothing is wrong with it.                              *)
LEMMA BannerIsMade ==
  ASSUME NEW b \in BannerInput, NEW current,
         \A r \in current : Allowed(r) /\ r.kind = "EVENT_BANNER",
         BannerMade(b, current, media).errors = {}
  PROVE  /\ BannerContent(BannerMade(b, current, media).columns,
                          BannerMade(b, current, media).detail)
         /\ BannerMade(b, current, media).columns.asset # None =>
              Found(BannerMade(b, current, media).columns.asset, current)
<1> DEFINE asset == MediaOf(b)
           made == BannerMade(b, current, media)
<1>1. /\ made.columns = [EmptyColumns EXCEPT !.asset = asset]
      /\ made.detail = [mode |-> b.mode, occasion |-> b.occasion,
                        recipient |-> b.recipient, headline |-> b.headline,
                        message |-> b.message,
                        consent |-> b.mode = "TEMPLATE" /\ asset # None /\ b.consent]
      /\ (IF b.mode = "TEMPLATE" THEN TemplateErrors(b) ELSE ImageErrors(b)) = {}
      /\ asset # None /\ IsNew(asset, "asset", current) => CheckMedia(asset, FALSE, media)
  BY DEF BannerMade
<1>2. /\ b.mode \in {"TEMPLATE", "IMAGE"} /\ b.occasion \in {"BIRTHDAY", None}
      /\ b.recipient \in Texts /\ b.headline \in Texts \cup {None}
      /\ b.message \in Texts \cup {None} /\ b.consent \in BOOLEAN
      /\ b.photo \in Assets \cup {None} /\ b.asset \in Assets \cup {None}
  BY DEF BannerInput
<1>3. asset \in Assets \cup {None} BY <1>2 DEF MediaOf
<1>4. made.columns.asset = asset BY <1>1 DEF EmptyColumns
<1>5. made.columns \in Columns BY <1>1, <1>3 DEF EmptyColumns, NoLink, Columns
<1>6. made.detail \in Banner BY <1>1, <1>2 DEF Banner
<1>7. asset # None =>
        (\E r \in current : asset = r.columns.asset) \/ CheckMedia(asset, FALSE, media)
  BY <1>1 DEF IsNew
<1>8. asset \notin Videos
  <2>1. \A r \in current : r.columns.asset \notin Videos BY DEF Allowed, ContentOK, BannerContent
  <2>2. None \notin Videos BY KindsConstantsOK
  <2> QED BY <1>7, <2>1, <2>2 DEF CheckMedia
<1>9. IF b.mode = "TEMPLATE"
      THEN /\ None \notin {b.occasion, b.headline, b.message}
           /\ asset = b.photo /\ (b.photo # None => b.consent)
      ELSE asset = b.asset /\ b.asset # None
  <2>1. CASE b.mode = "TEMPLATE"
    <3>1. TemplateErrors(b) = {} BY <1>1, <2>1
    <3>2. /\ "occasion" \notin TemplateErrors(b) /\ "headline" \notin TemplateErrors(b)
          /\ "message" \notin TemplateErrors(b) /\ "consent" \notin TemplateErrors(b)
      BY <3>1
    <3>3. b["occasion"] # None /\ b["headline"] # None /\ b["message"] # None
      BY <3>2 DEF TemplateErrors
    <3>4. b.photo # None => b.consent BY <3>2 DEF TemplateErrors
    <3> QED BY <2>1, <3>3, <3>4 DEF MediaOf
  <2>2. CASE b.mode # "TEMPLATE"
    <3>1. "asset" \notin ImageErrors(b) BY <1>1, <2>2
    <3> QED BY <2>2, <3>1 DEF ImageErrors, MediaOf
  <2> QED BY <2>1, <2>2
<1> HIDE DEF asset, made
<1>10. IF made.detail.mode = "TEMPLATE"
       THEN /\ None \notin {made.detail.occasion, made.detail.headline, made.detail.message}
            /\ made.detail.consent <=> asset # None
       ELSE asset # None /\ ~made.detail.consent
  <2> DEFINE agreed == b.mode = "TEMPLATE" /\ asset # None /\ b.consent
  <2>1. made.detail = [mode |-> b.mode, occasion |-> b.occasion,
                       recipient |-> b.recipient, headline |-> b.headline,
                       message |-> b.message, consent |-> agreed]
    BY <1>1, Zenon
  <2> HIDE DEF agreed
  <2>2. /\ made.detail.mode = b.mode /\ made.detail.occasion = b.occasion
        /\ made.detail.headline = b.headline /\ made.detail.message = b.message
        /\ made.detail.consent = agreed
    BY <2>1
  <2> USE DEF agreed
  <2>3. CASE b.mode = "TEMPLATE" BY <2>2, <2>3, <1>9, Zenon
  <2>4. CASE b.mode # "TEMPLATE" BY <2>2, <2>4, <1>9, Zenon
  <2> QED BY <2>3, <2>4
<1>11. asset # None => Found(asset, current)
  BY <1>7 DEF CheckMedia, Found
<1>12. BannerContent(made.columns, made.detail)
  BY <1>4, <1>5, <1>1, <1>6, <1>8, <1>10 DEF BannerContent
<1> QED BY <1>4, <1>11, <1>12 DEF made

(* A story.                                                                *)
LEMMA StoryIsMade ==
  ASSUME NEW body \in Texts, NEW current
  PROVE  StoryContent(StoryMade(body, current).columns, StoryMade(body, current).detail)
<1> DEFINE numbered == \E r \in current : r.detail.numbered
<1>1. numbered \in BOOLEAN
  OBVIOUS
<1>2. StoryMade(body, current) = [errors |-> {}, columns |-> EmptyColumns,
                                  detail |-> [body |-> body, numbered |-> numbered]]
  BY Zenon DEF StoryMade
<1> HIDE DEF numbered
<1>3. [body |-> body, numbered |-> numbered] \in Story
  BY <1>1 DEF Story
<1> QED BY <1>2, <1>3 DEF StoryContent

(* What resolve lets through is what its kind may hold.                    *)
LEMMA ContentIsMade ==
  ASSUME NEW kind \in Kinds, NEW input \in RequestDto, NEW current,
         \/ current = {} /\ Complete(kind, input)
         \/ \E r : current = {r} /\ Allowed(r) /\ r.kind = kind,
         Resolve(kind, input, current, media, hidden).errors = {}
  PROVE  /\ ContentOK(kind, Resolve(kind, input, current, media, hidden).columns,
                      Resolve(kind, input, current, media, hidden).detail)
         /\ Resolve(kind, input, current, media, hidden).columns.asset # None =>
              Found(Resolve(kind, input, current, media, hidden).columns.asset, current)
<1> DEFINE made == Resolve(kind, input, current, media, hidden)
<1>1. CASE kind = "POSTER"
  <2>1. made = ResolvePoster(input, current, media, hidden) BY <1>1 DEF Resolve
  <2>2. current = {} => input.category # {} /\ input.asset # {}
    BY <1>1 DEF Complete
  <2>3. /\ PosterContent(ResolvePoster(input, current, media, hidden).columns,
                         ResolvePoster(input, current, media, hidden).detail)
        /\ ResolvePoster(input, current, media, hidden).errors = {} =>
             Found(ResolvePoster(input, current, media, hidden).columns.asset, current)
    BY <1>1, <2>2, PosterMade
  <2> HIDE DEF made
  <2> QED BY <1>1, <2>1, <2>3 DEF ContentOK, made
<1>2. ASSUME NEW r, current = {r}, Allowed(r), r.kind = kind,
             NEW field, made = Unsent(field, current)
      PROVE  ContentOK(kind, made.columns, made.detail) /\ Found(made.columns.asset, current)
  <2> HIDE DEF made
  <2>1. made = [errors |-> {}, columns |-> The(current).columns, detail |-> The(current).detail]
    BY <1>2 DEF Unsent
  <2>2. The(current) = r BY <1>2, TheOne
  <2>3. ContentOK(kind, r.columns, r.detail) BY <1>2 DEF Allowed
  <2> QED BY <1>2, <2>1, <2>2, <2>3 DEF Found
<1>3. CASE kind = "EVENT_BANNER"
  <2>1. CASE input.banner = {}
    <3>1. current # {} BY <1>3, <2>1 DEF Complete
    <3>2. made = Unsent("banner", current) BY <1>3, <2>1 DEF Resolve
    <3> HIDE DEF made
    <3> QED BY <1>2, <3>1, <3>2 DEF made
  <2>2. CASE input.banner # {}
    <3>1. The(input.banner) \in BannerInput BY <2>2, Fields, PatchedIn
    <3>2. made = BannerMade(The(input.banner), current, media)
      BY <1>3, <2>2 DEF Resolve
    <3>3. \A r \in current : Allowed(r) /\ r.kind = "EVENT_BANNER" BY <1>3
    <3>4. BannerMade(The(input.banner), current, media).errors = {} BY <3>2
    <3>5. /\ BannerContent(made.columns, made.detail)
          /\ made.columns.asset # None => Found(made.columns.asset, current)
      <4> HIDE DEF made
      <4> QED BY <3>1, <3>2, <3>3, <3>4, BannerIsMade
    <3> HIDE DEF made
    <3> QED BY <1>3, <3>5 DEF ContentOK, made
  <2> QED BY <2>1, <2>2
<1>4. CASE kind = "STORY"
  <2>1. CASE input.story = {}
    <3>1. current # {} BY <1>4, <2>1 DEF Complete
    <3>2. made = Unsent("story", current) BY <1>4, <2>1 DEF Resolve
    <3> HIDE DEF made
    <3> QED BY <1>2, <3>1, <3>2 DEF made
  <2>2. CASE input.story # {}
    <3>1. The(input.story) \in Texts BY <2>2, Fields, PatchedIn
    <3>2. made = StoryMade(The(input.story), current)
      BY <1>4, <2>2 DEF Resolve
    <3>3. StoryContent(made.columns, made.detail)
      <4> HIDE DEF made
      <4> QED BY <3>1, <3>2, StoryIsMade
    <3>4. StoryContent(made.columns, made.detail) => made.columns.asset = None
      <4> HIDE DEF made
      <4> QED BY DEF StoryContent, EmptyColumns
    <3> HIDE DEF made
    <3> QED BY <1>4, <3>3, <3>4 DEF ContentOK, made
  <2> QED BY <2>1, <2>2
<1> QED BY <1>1, <1>3, <1>4 DEF Kinds

(* What Update drafts of the row.                                          *)
Redrafted(r, input) ==
  [Edited(r, input) EXCEPT !.version = @ + 1,
                           !.status = IF Again(r) THEN "PENDING_REVIEW" ELSE @]

(* An edit that finds no error leaves what its kind may hold.              *)
LEMMA EditIsAllowed ==
  ASSUME NEW r, Allowed(r), r.version < MaxVersion, MayEdit(r),
         NEW input \in RequestDto, EditErrors(r, input) = {}
  PROVE  /\ Allowed(Redrafted(r, input)) /\ Redrafted(r, input).kind = r.kind
         /\ Redrafted(r, input).version = r.version + 1
         /\ Redrafted(r, input).columns.asset # None =>
              Found(Redrafted(r, input).columns.asset, {r})
<1> DEFINE made == Resolve(r.kind, input, {r}, media, hidden)
           edited == Edited(r, input)
           detail == IF SameDetail(r.kind, r.detail, made.detail) THEN r.detail ELSE made.detail
           start == Patched(input.startAt, r.startAt)
           end == Patched(input.endAt, r.endAt)
           groups == Patched(input.groups, r.groups)
           status == IF Again(r) THEN "PENDING_REVIEW" ELSE r.status
           next == Redrafted(r, input)
<1>1. r \in Row /\ r.kind \in Kinds /\ r.version \in 1..MaxVersion /\ r.status \in Statuses
  BY DEF Allowed, Row
<1>2. /\ Unaccepted(r.kind, input) = {} /\ made.errors = {}
      /\ <<edited.startAt, edited.endAt>> # <<r.startAt, r.endAt>>
           => PeriodErrors(r.kind, edited.startAt, edited.endAt) = {}
  BY DEF EditErrors
<1>3. /\ ContentOK(r.kind, made.columns, made.detail)
      /\ made.columns.asset # None => Found(made.columns.asset, {r})
  BY <1>1, <1>2, ContentIsMade
<1>4. edited = [r EXCEPT !.columns = made.columns, !.detail = detail, !.startAt = start,
                         !.endAt = end, !.groups = groups]
  BY <1>1 DEF Edited, Row
<1> HIDE DEF made, detail, start, end, groups, edited, next
<1>5. /\ edited = [kind |-> r.kind, status |-> r.status, version |-> r.version,
                   columns |-> made.columns, detail |-> detail, startAt |-> start,
                   endAt |-> end, groups |-> groups]
  BY <1>1, <1>4 DEF Row
<1>6. next = [kind |-> r.kind, status |-> status, version |-> r.version + 1,
              columns |-> made.columns, detail |-> detail, startAt |-> start,
              endAt |-> end, groups |-> groups]
  <2>1. edited.status = r.status /\ edited.version = r.version BY <1>5
  <2>2. next = [edited EXCEPT !.version = edited.version + 1,
                              !.status = IF Again(r) THEN "PENDING_REVIEW" ELSE edited.status]
    BY Zenon DEF edited, next, Redrafted
  <2>3. next = [edited EXCEPT !.version = r.version + 1, !.status = status]
    BY <2>1, <2>2, Zenon
  <2> HIDE DEF status
  <2> QED BY <1>5, <2>3
<1>7. start \in Instants \cup {Null} /\ end \in Instants \cup {Null} /\ groups \in SUBSET Groups
  BY <1>1, Fields, PatchedIn DEF Row, start, end, groups
<1>8. status \in Statuses /\ r.version + 1 \in 1..MaxVersion
  BY <1>1, ContentsConstantsOK DEF Statuses
<1>9. ContentOK(r.kind, made.columns, detail)
  <2>1. ContentOK(r.kind, r.columns, r.detail) BY DEF Allowed
  <2>2. detail \in {r.detail, made.detail} BY DEF detail
  <2>3. r.kind = "POSTER" => detail = made.detail
    BY <1>3, <2>1, <2>2 DEF ContentOK, PosterContent
  <2>4. r.kind = "EVENT_BANNER" => detail = made.detail BY DEF detail, SameDetail
  <2>5. r.kind = "STORY" => detail \in Story
    BY <1>3, <2>1, <2>2 DEF ContentOK, StoryContent
  <2> QED BY <1>3, <2>3, <2>4, <2>5 DEF ContentOK, StoryContent
<1>10. made.columns \in Columns /\ detail \in Banner \cup Story \cup {NoDetail}
  <2>1. EmptyColumns \in Columns BY DEF EmptyColumns, Columns, NoLink
  <2> QED BY <1>1, <1>9, <2>1 DEF Kinds, ContentOK, PosterContent, BannerContent, StoryContent
<1> HIDE DEF status
<1>11. next \in Row BY <1>1, <1>6, <1>7, <1>8, <1>10 DEF Row
<1>12. ASSUME r.kind # "STORY"
       PROVE  start \in Instants /\ end \in Instants /\ ValidPeriod(r.kind, start, end)
  <2>1. /\ r.startAt \in Instants /\ r.endAt \in Instants
        /\ ValidPeriod(r.kind, r.startAt, r.endAt)
    BY <1>12 DEF Allowed
  <2>2. start \in Instants /\ end \in Instants
    BY <2>1, Fields, PatchedIn DEF start, end
  <2>3. edited.startAt = start /\ edited.endAt = end BY <1>5
  <2>4. CASE PeriodErrors(r.kind, start, end) = {} BY <2>2, <2>4 DEF PeriodErrors
  <2>5. CASE start = r.startAt /\ end = r.endAt BY <2>1, <2>2, <2>5
  <2> QED BY <1>2, <2>3, <2>4, <2>5
<1>13. ASSUME r.kind = "STORY"
       PROVE  StoryStands(next)
  <2>1. StoryStands(r) BY <1>13 DEF Allowed
  <2>2. r.status = "PENDING_REVIEW"
    BY <1>13, <2>1 DEF MayEdit, Editable, RuleOf, StoryRule, StoryStands
  <2>3. input.startAt = {} /\ input.groups \in {{}, {{}}}
    BY <1>2, <1>13, StoryTakes
  <2>4. start = r.startAt BY <2>3 DEF Patched, start
  <2>5. groups = {} BY <2>1, <2>3, TheOne DEF Patched, StoryStands, groups
  <2>6. status = "PENDING_REVIEW" BY <2>2 DEF status
  <2>7. next.groups = groups /\ next.status = status /\ next.startAt = start BY <1>6
  <2> QED BY <2>1, <2>2, <2>4, <2>5, <2>6, <2>7 DEF StoryStands
<1>14. /\ next.kind = r.kind /\ next.version = r.version + 1 /\ next.columns = made.columns
       /\ next.detail = detail /\ next.startAt = start /\ next.endAt = end
  BY <1>6
<1>15. Allowed(next) BY <1>9, <1>11, <1>12, <1>13, <1>14 DEF Allowed
<1> QED BY <1>3, <1>14, <1>15 DEF next

(* So does a form that makes a submission.                                 *)
LEMMA FormIsAllowed ==
  ASSUME NEW kind \in Kinds, NEW input \in RequestDto, Create(kind, input)
  PROVE  \E d : /\ draft' = {d} /\ Allowed(d) /\ d.kind = kind
                /\ d.columns.asset # None => media[d.columns.asset] = "READY"
<1> DEFINE made == Resolve(kind, input, {}, media, hidden)
           period == IF RuleOf(kind).onApproval THEN <<Null, Null>>
                     ELSE <<The(input.startAt), The(input.endAt)>>
           groups == IF RuleOf(kind).targetable THEN Patched(input.groups, {}) ELSE {}
           d == [kind |-> kind, status |-> "PENDING_REVIEW", version |-> 1,
                 columns |-> made.columns, detail |-> made.detail,
                 startAt |-> period[1], endAt |-> period[2], groups |-> groups]
<1>1. /\ Complete(kind, input) /\ made.errors = {}
      /\ PeriodErrors(kind, period[1], period[2]) = {} /\ draft' = {d}
  BY DEF Create
<1>2. /\ ContentOK(kind, made.columns, made.detail)
      /\ made.columns.asset # None => Found(made.columns.asset, {})
  BY <1>1, ContentIsMade
<1>3. kind # "STORY" => ~RuleOf(kind).onApproval /\ RuleOf(kind).targetable
  BY DEF RuleOf, PosterRule, BannerRule, Kinds
<1>4. kind = "STORY" => period = <<Null, Null>> /\ groups = {}
  <2>1. kind = "STORY" => RuleOf(kind).onApproval /\ ~RuleOf(kind).targetable
    BY DEF RuleOf, StoryRule
  <2> QED BY <2>1
<1>5. ASSUME kind # "STORY"
      PROVE  /\ period[1] \in Instants /\ period[2] \in Instants
             /\ groups \in SUBSET Groups
  <2>1. input.startAt # {} /\ input.endAt # {} BY <1>1, <1>5 DEF Complete
  <2>2. period = <<The(input.startAt), The(input.endAt)>> /\ groups = Patched(input.groups, {})
    BY <1>3, <1>5
  <2> HIDE DEF period, groups
  <2> QED BY <2>1, <2>2, Fields, PatchedIn
<1> HIDE DEF made, period, groups
<1>6. made.columns \in Columns /\ made.detail \in Banner \cup Story \cup {NoDetail}
  <2>1. EmptyColumns \in Columns BY DEF EmptyColumns, Columns, NoLink
  <2> QED BY <1>2, <2>1 DEF Kinds, ContentOK, PosterContent, BannerContent, StoryContent
<1>7. /\ period[1] \in Instants \cup {Null} /\ period[2] \in Instants \cup {Null}
      /\ groups \in SUBSET Groups
  BY <1>4, <1>5
<1>8. d \in Row BY <1>6, <1>7, ContentsConstantsOK DEF Row, Statuses
<1>9. kind # "STORY" => ValidPeriod(kind, period[1], period[2])
  BY <1>1 DEF PeriodErrors
<1>10. kind = "STORY" => StoryStands(d) BY <1>4 DEF StoryStands
<1>11. Allowed(d) BY <1>2, <1>5, <1>8, <1>9, <1>10 DEF Allowed
<1> QED BY <1>1, <1>2, <1>11 DEF Found

-----------------------------------------------------------------------------
(* Every step keeps the invariant.                                         *)

LEMMA InitAllows == ContentInit => ContentInv
<1> SUFFICES ASSUME ContentInit PROVE ContentInv
  OBVIOUS
<1>1. Shapes
  BY ContentsConstantsOK DEF ContentInit, Shapes, MediaStatus, Reader, Unread
<1> QED
  BY <1>1 DEF ContentInit, ContentInv, MediaHold, DraftsFollow, ReadsFollow, Unread

LEMMA CreateAllows ==
  ASSUME ContentInv, NEW kind \in Kinds, NEW input \in Forms, Create(kind, input)
  PROVE  ContentInv'
<1>1. /\ row = {} /\ UNCHANGED <<row, media, hidden, reader, since>>
  BY DEF Create
<1>2. PICK d : /\ draft' = {d} /\ Allowed(d)
               /\ d.columns.asset # None => media[d.columns.asset] = "READY"
  BY FormIsAllowed, ContentsConstantsOK
<1>3. Shapes' BY <1>1, <1>2 DEF ContentInv, Shapes
<1>4. MediaHold' BY <1>1, <1>2 DEF ContentInv, MediaHold
<1> QED BY <1>1, <1>3, <1>4 DEF ContentInv, DraftsFollow, ReadsFollow

LEMMA UpdateAllows ==
  ASSUME ContentInv, NEW input \in Forms, Update(input)
  PROVE  ContentInv'
<1>1. PICK r \in row : /\ r.version < MaxVersion /\ MayEdit(r)
                       /\ EditErrors(r, input) = {}
                       /\ draft' = {Redrafted(r, input)}
                       /\ UNCHANGED <<row, media, hidden, reader, since>>
  BY Zenon DEF Update, Redrafted
<1> DEFINE d == Redrafted(r, input)
<1>2. Allowed(r) /\ \A s \in row : s = r BY DEF ContentInv, Shapes
<1>3. /\ Allowed(d) /\ d.kind = r.kind /\ d.version = r.version + 1
      /\ d.columns.asset # None => Found(d.columns.asset, {r})
  BY <1>1, <1>2, EditIsAllowed, ContentsConstantsOK
<1> HIDE DEF d
<1>4. draft' = {d} BY <1>1 DEF d
<1>5. Shapes' BY <1>1, <1>3, <1>4 DEF ContentInv, Shapes
<1>6. MediaHold' BY <1>1, <1>3, <1>4 DEF ContentInv, MediaHold, Found
<1>7. DraftsFollow'
  <2>1. r.version \in Nat BY <1>2 DEF Allowed, Row
  <2>2. r.kind = "STORY" => r.status = "PENDING_REVIEW"
    BY <1>1, <1>2 DEF Allowed, StoryStands, MayEdit, Editable, RuleOf, StoryRule
  <2> QED BY <1>1, <1>2, <1>3, <1>4, <2>1, <2>2 DEF DraftsFollow
<1> QED BY <1>1, <1>5, <1>6, <1>7 DEF ContentInv, ReadsFollow

LEMMA StoreAllows ==
  ASSUME ContentInv, Store
  PROVE  ContentInv'
<1>1. PICK next \in draft :
        /\ \/ row = {} /\ next.version = 1
           \/ \E r \in row : next.version = r.version + 1
        /\ next.columns.asset # None => media[next.columns.asset] # "GONE"
        /\ row' = {next} /\ draft' = {}
        /\ since' = IF \E r \in row : Content(r) = Content(next) THEN since ELSE next.version
        /\ UNCHANGED <<media, hidden, reader>>
  BY DEF Store
<1>2. /\ Allowed(next) /\ next.version \in 1..MaxVersion
      /\ since \in 0..MaxVersion /\ reader \in Reader
  BY DEF ContentInv, Shapes, Allowed, Row
<1>3. Shapes'
  BY <1>1, <1>2, ContentsConstantsOK DEF ContentInv, Shapes
<1>4. MediaHold' BY <1>1 DEF ContentInv, MediaHold
<1>5. DraftsFollow' BY <1>1 DEF DraftsFollow
<1>6. ReadsFollow'
  <2>1. CASE row = {}
    <3>1. reader = Unread /\ since' = next.version BY <1>1, <2>1 DEF ContentInv, ReadsFollow
    <3>2. reader.row = 0 /\ reader.detail = 0 /\ ~reader.onAir BY <3>1 DEF Unread
    <3>3. next.version \in Nat BY <1>2, ContentsConstantsOK
    <3> QED BY <1>1, <3>1, <3>2, <3>3 DEF ReadsFollow
  <2>2. ASSUME NEW r \in row, next.version = r.version + 1
        PROVE  ReadsFollow'
    <3>1. /\ since <= r.version /\ reader.row <= r.version
          /\ reader.detail # 0 => reader.row <= reader.detail
      BY DEF ContentInv, ReadsFollow
    <3>2. Allowed(r) BY DEF ContentInv, Shapes
    <3>3. r.version \in Nat /\ since \in Nat /\ reader.row \in Nat
      BY <1>2, <3>2, ContentsConstantsOK DEF Allowed, Row, Reader
    <3>4. /\ next.kind = r.kind
          /\ r.kind = "STORY" /\ r.status # "PENDING_REVIEW" => next.version <= r.version
      BY DEF ContentInv, DraftsFollow
    <3>5. ~(next.kind = "STORY" /\ reader.onAir)
      BY <2>2, <3>3, <3>4 DEF ContentInv, ReadsFollow
    <3>6. since' <= next.version /\ reader.row <= next.version
      BY <1>1, <2>2, <3>1, <3>3
    <3> QED BY <1>1, <3>1, <3>5, <3>6 DEF ReadsFollow
  <2> QED BY <1>1, <2>1, <2>2
<1> QED BY <1>3, <1>4, <1>5, <1>6 DEF ContentInv

LEMMA GiveUpAllows ==
  ASSUME ContentInv, GiveUp
  PROVE  ContentInv'
BY DEF ContentInv, GiveUp, Shapes, MediaHold, DraftsFollow, ReadsFollow

LEMMA ReadAllows ==
  ASSUME ContentInv, NEW which \in {"row", "detail"}, Read(which)
  PROVE  ContentInv'
<1>1. PICK r \in row :
        /\ reader' = IF which = "row"
                     THEN [Unread EXCEPT ![which] = r.version, !.onAir = r.status = "PUBLISHED"]
                     ELSE [reader EXCEPT ![which] = r.version]
        /\ UNCHANGED <<row, draft, media, hidden, since>>
  BY Zenon DEF Read, Order
<1>2. Allowed(r) /\ \A s \in row : s = r BY DEF ContentInv, Shapes
<1>3. /\ r.version \in 1..MaxVersion /\ r.version \in Nat /\ reader \in Reader
  BY <1>2, ContentsConstantsOK DEF ContentInv, Shapes, Allowed, Row
<1>4. CASE which = "row"
  <2> DEFINE onAir == r.status = "PUBLISHED"
  <2>1. reader' = [Unread EXCEPT !.row = r.version, !.onAir = onAir]
    BY <1>1, <1>4, Zenon
  <2>2. onAir \in BOOLEAN OBVIOUS
  <2>3. onAir => r.status # "PENDING_REVIEW" OBVIOUS
  <2> HIDE DEF onAir
  <2>4. reader' = [row |-> r.version, detail |-> 0, onAir |-> onAir] BY <2>1 DEF Unread
  <2>5. /\ reader' \in Reader /\ reader'.row = r.version /\ reader'.detail = 0
        /\ reader'.onAir = onAir
    BY <1>3, <2>2, <2>4, ContentsConstantsOK DEF Reader
  <2>6. Shapes' BY <1>1, <2>5 DEF ContentInv, Shapes
  <2>7. reader'.onAir => r.status # "PENDING_REVIEW" BY <2>3, <2>5, Zenon
  <2>8. since <= r.version BY DEF ContentInv, ReadsFollow
  <2>9. \A s \in row : s.kind = "STORY" /\ reader'.onAir =>
          s.status # "PENDING_REVIEW" /\ since <= r.version
    BY <1>2, <2>7, <2>8, Zenon
  <2>10. \A s \in row : since <= s.version /\ r.version <= s.version
    BY <1>2, <1>3, <2>8
  <2>11. ReadsFollow'
    <3>1. UNCHANGED <<row, since>> BY <1>1
    <3> QED BY <2>5, <2>9, <2>10, <3>1, Zenon DEF ReadsFollow
  <2> QED BY <1>1, <2>6, <2>11 DEF ContentInv, MediaHold, DraftsFollow
<1>5. CASE which = "detail"
  <2>1. reader' = [reader EXCEPT !.detail = r.version] BY <1>1, <1>5
  <2>2. /\ reader' \in Reader /\ reader'.row = reader.row /\ reader'.detail = r.version
        /\ reader'.onAir = reader.onAir
    BY <1>3, <2>1, ContentsConstantsOK DEF Reader
  <2>3. Shapes' BY <1>1, <2>2 DEF ContentInv, Shapes
  <2>4. ReadsFollow' BY <1>1, <1>2, <1>3, <2>2 DEF ContentInv, ReadsFollow
  <2> QED BY <1>1, <2>3, <2>4 DEF ContentInv, MediaHold, DraftsFollow
<1> QED BY <1>4, <1>5

(* The decisions and the job, which move the row from r to next.           *)
LEMMA MoveAllows ==
  ASSUME ContentInv, NEW r \in row, NEW next, Allowed(next), row' = {next},
         next.kind = r.kind, next.columns = r.columns, next.version = r.version + 1,
         next.kind = "STORY" => next.status # "PENDING_REVIEW",
         UNCHANGED <<draft, media, hidden, reader, since>>
  PROVE  ContentInv'
<1>1. Allowed(r) /\ \A s \in row : s = r BY DEF ContentInv, Shapes
<1>2. /\ r.version \in Nat /\ since \in Nat /\ reader.row \in Nat
      /\ \A d \in draft : d.version \in Nat
  BY <1>1, ContentsConstantsOK DEF ContentInv, Shapes, Allowed, Row, Reader
<1>3. Shapes' BY DEF ContentInv, Shapes
<1>4. MediaHold' BY DEF ContentInv, MediaHold
<1>5. DraftsFollow' BY <1>2 DEF ContentInv, DraftsFollow
<1>6. ReadsFollow' BY <1>2 DEF ContentInv, ReadsFollow
<1> QED BY <1>3, <1>4, <1>5, <1>6 DEF ContentInv

(* A row that keeps its content is moved as its status allows.             *)
LEMMA StatusMoves ==
  ASSUME ContentInv, NEW r \in row, NEW status \in Statuses, Moves(r, status),
         r.kind = "STORY" => status = "RETURNED"
  PROVE  ContentInv'
<1> DEFINE next == [r EXCEPT !.status = status, !.version = r.version + 1]
<1>1. Allowed(r) BY DEF ContentInv, Shapes
<1>2. /\ r.version < MaxVersion /\ row' = {next}
      /\ UNCHANGED <<draft, media, hidden, reader, since>>
  BY DEF Moves
<1>3. r \in Row BY <1>1 DEF Allowed
<1> DEFINE version == r.version + 1
<1>4. version \in 1..MaxVersion
  BY <1>2, <1>3, ContentsConstantsOK DEF Row
<1>5. next = [r EXCEPT !.status = status, !.version = version]
  OBVIOUS
<1> HIDE DEF version, next
<1>6. next = [kind |-> r.kind, status |-> status, version |-> version,
              columns |-> r.columns, detail |-> r.detail, startAt |-> r.startAt,
              endAt |-> r.endAt, groups |-> r.groups]
  BY <1>3, <1>5 DEF Row
<1>7. next \in Row BY <1>3, <1>4, <1>6 DEF Row
<1>8. /\ next.kind = r.kind /\ next.columns = r.columns /\ next.version = version
      /\ next.detail = r.detail /\ next.startAt = r.startAt /\ next.endAt = r.endAt
      /\ next.groups = r.groups /\ next.status = status
  BY <1>6
<1>9. next.kind = "STORY" => StoryStands(next)
  BY <1>1, <1>8 DEF Allowed, StoryStands
<1>10. Allowed(next) BY <1>1, <1>9, <1>7, <1>8 DEF Allowed
<1> QED BY <1>2, <1>10, <1>8, MoveAllows DEF version

LEMMA ApproveAllows ==
  ASSUME ContentInv, NEW start \in Instants, Approve(start)
  PROVE  ContentInv'
<1>1. PICK r \in row :
        LET shown == IF RuleOf(r.kind).onApproval
                     THEN Numbered([r EXCEPT !.startAt = start, !.endAt = start + Day])
                     ELSE r
        IN /\ RuleOf(r.kind).onApproval => start + Day \in Instants
           /\ \E status \in IF RuleOf(r.kind).onApproval THEN {"PUBLISHED"}
                            ELSE {"SCHEDULED", "PUBLISHED"} : Moves(shown, status)
  BY DEF Approve
<1>2. Allowed(r) /\ r \in Row BY DEF ContentInv, Shapes, Allowed
<1>3. CASE r.kind = "STORY"
  <2>1. RuleOf(r.kind).onApproval BY <1>3 DEF RuleOf, StoryRule
  <2> DEFINE end == start + Day
             yes == TRUE
             dated == [r EXCEPT !.startAt = start, !.endAt = end]
             shown == Numbered(dated)
             detail == [body |-> r.detail.body, numbered |-> yes]
             version == shown.version + 1
             next == [shown EXCEPT !.status = "PUBLISHED", !.version = version]
  <2>2. end \in Instants /\ Moves(shown, "PUBLISHED") BY <1>1, <2>1
  <2>3. StoryContent(r.columns, r.detail) /\ StoryStands(r)
    BY <1>2, <1>3 DEF Allowed, ContentOK
  <2>4. yes \in BOOLEAN /\ yes OBVIOUS
  <2>5. shown = [dated EXCEPT !.detail = [dated.detail EXCEPT !.numbered = yes]]
    BY DEF Numbered
  <2> HIDE DEF yes, end
  <2>6. [r.detail EXCEPT !.numbered = yes] = detail
    BY <2>3 DEF StoryContent, Story
  <2>7. detail \in Story /\ detail.numbered = yes
    BY <2>3, <2>4 DEF StoryContent, Story
  <2>8. dated = [r EXCEPT !.startAt = start, !.endAt = end]
    OBVIOUS
  <2> HIDE DEF detail, shown, dated
  <2>9. dated = [kind |-> r.kind, status |-> r.status, version |-> r.version,
                 columns |-> r.columns, detail |-> r.detail, startAt |-> start,
                 endAt |-> end, groups |-> r.groups]
    BY <1>2, <2>8 DEF Row
  <2>10. shown = [kind |-> r.kind, status |-> r.status, version |-> r.version,
                 columns |-> r.columns, detail |-> detail, startAt |-> start,
                 endAt |-> end, groups |-> r.groups]
    BY <2>9, <2>5, <2>6
  <2>11. next = [shown EXCEPT !.status = "PUBLISHED", !.version = version]
    OBVIOUS
  <2> HIDE DEF version, next
  <2>12. next = [kind |-> r.kind, status |-> "PUBLISHED", version |-> version,
                columns |-> r.columns, detail |-> detail, startAt |-> start,
                endAt |-> end, groups |-> r.groups]
    BY <2>10, <2>11
  <2>13. version = r.version + 1 BY <2>10 DEF version
  <2>14. /\ r.version < MaxVersion /\ row' = {next}
        /\ UNCHANGED <<draft, media, hidden, reader, since>>
    BY <2>2, <2>10 DEF Moves, version, next
  <2>15. version \in 1..MaxVersion
    BY <1>2, <2>14, <2>13, ContentsConstantsOK DEF Row
  <2>16. next \in Row
    BY <1>2, <2>2, <2>7, <2>12, <2>15 DEF Row, Statuses
  <2>17. /\ next.kind = r.kind /\ next.columns = r.columns /\ next.detail = detail
         /\ next.groups = r.groups /\ next.status = "PUBLISHED" /\ next.version = version
    BY <2>12
  <2>18. StoryStands(next)
    <3>1. next.detail.numbered BY <2>4, <2>7, <2>17, Zenon
    <3> QED BY <2>3, <2>17, <3>1 DEF StoryStands
  <2>19. ContentOK(next.kind, next.columns, next.detail)
    BY <1>3, <2>3, <2>7, <2>17 DEF ContentOK, StoryContent
  <2>20. Allowed(next) BY <1>3, <2>16, <2>18, <2>19, <2>17 DEF Allowed
  <2> QED BY <2>14, <2>20, <2>13, <2>17, MoveAllows
<1>4. CASE r.kind # "STORY"
  <2>1. ~RuleOf(r.kind).onApproval
    BY <1>2, <1>4 DEF RuleOf, PosterRule, BannerRule, Row, Kinds
  <2>2. PICK status \in {"SCHEDULED", "PUBLISHED"} : Moves(r, status)
    BY <1>1, <2>1
  <2> QED BY <1>4, <2>2, StatusMoves DEF Statuses
<1> QED BY <1>3, <1>4

LEMMA DecisionAllows ==
  ASSUME ContentInv, Reject \/ Suspend \/ Submit \/ Starts
  PROVE  ContentInv'
<1>1. ASSUME Reject \/ Suspend PROVE ContentInv'
  BY <1>1, StatusMoves DEF Reject, Suspend, Statuses
<1>2. ASSUME Submit PROVE ContentInv'
  <2>1. PICK r \in row : RuleOf(r.kind).resubmittable /\ Moves(r, "PENDING_REVIEW")
    BY <1>2 DEF Submit
  <2>2. r.kind # "STORY" BY <2>1 DEF RuleOf, StoryRule
  <2> QED BY <2>1, <2>2, StatusMoves DEF Statuses
<1>3. ASSUME Starts PROVE ContentInv'
  <2>1. PICK r \in row : r.status = "SCHEDULED" /\ Moves(r, "PUBLISHED")
    BY <1>3 DEF Starts
  <2>2. r.kind # "STORY" BY <2>1 DEF ContentInv, Shapes, Allowed, StoryStands
  <2> QED BY <2>1, <2>2, StatusMoves DEF Statuses
<1> QED BY <1>1, <1>2, <1>3

LEMMA MediaAllow ==
  ASSUME ContentInv, NEW a \in Assets, Uploaded(a) \/ Converted(a) \/ CleanedUp(a)
  PROVE  ContentInv'
<1>1. media \in [Assets -> MediaStatus] BY DEF ContentInv, Shapes
<1>2. PICK status \in MediaStatus :
        /\ media' = [media EXCEPT ![a] = status]
        /\ status = "READY" \/ \A r \in row : r.columns.asset # a
        /\ \/ status \in {"READY", "GONE"}
           \/ media[a] = "PENDING_UPLOAD"
        /\ UNCHANGED <<row, draft, hidden, reader, since>>
  <2>1. CASE Uploaded(a)
    <3>1. \A r \in row : r.columns.asset = a => r.columns.asset # None
      BY KindsConstantsOK
    <3>2. \A r \in row : r.columns.asset # a BY <2>1, <3>1 DEF Uploaded, ContentInv, MediaHold
    <3> QED BY <2>1, <3>2 DEF Uploaded, Becomes, MediaStatus
  <2>2. CASE Converted(a) BY <2>2 DEF Converted, Becomes, MediaStatus
  <2>3. CASE CleanedUp(a) BY <2>3 DEF CleanedUp, Becomes, MediaStatus
  <2> QED BY <2>1, <2>2, <2>3
<1>3. /\ media' \in [Assets -> MediaStatus] /\ media'[a] = status
      /\ \A b \in Assets : b # a => media'[b] = media[b]
  BY <1>1, <1>2
<1>4. Shapes' BY <1>2, <1>3 DEF ContentInv, Shapes
<1>5. \A r \in row \cup draft : r.columns.asset \in Assets \cup {None}
  BY DEF ContentInv, Shapes, Allowed, Row, Columns
<1>6. MediaHold' BY <1>2, <1>3, <1>5 DEF ContentInv, MediaHold
<1> QED BY <1>2, <1>4, <1>6 DEF ContentInv, DraftsFollow, ReadsFollow

LEMMA HideAllows ==
  ASSUME ContentInv, NEW x \in Categories \cup Groups, HideOrShow(x)
  PROVE  ContentInv'
BY DEF ContentInv, HideOrShow, Shapes, MediaHold, DraftsFollow, ReadsFollow

LEMMA StutterAllows ==
  ASSUME ContentInv, UNCHANGED contentVars
  PROVE  ContentInv'
BY DEF ContentInv, contentVars, Shapes, MediaHold, DraftsFollow, ReadsFollow

LEMMA ContentInvariant == ContentSpec => []ContentInv
<1>1. ContentInit => ContentInv
  BY InitAllows
<1>2. ContentInv /\ [ContentNext]_contentVars => ContentInv'
  <2> SUFFICES ASSUME ContentInv, [ContentNext]_contentVars PROVE ContentInv'
    OBVIOUS
  <2> QED
    BY CreateAllows, UpdateAllows, StoreAllows, GiveUpAllows, ReadAllows, ApproveAllows,
       DecisionAllows, MediaAllow, HideAllows, StutterAllows DEF ContentNext
<1> QED
  BY <1>1, <1>2, PTL DEF ContentSpec

-----------------------------------------------------------------------------
(* What the invariant says of rows and drafts.                             *)

(* Days are compared as their numbers are.                                 *)
LEMMA Multiples ==
  ASSUME NEW D \in Nat \ {0}, NEW a \in Int, NEW b \in Int
  PROVE  a <= b <=> a * D <= b * D
<1>1. ASSUME NEW x \in Int, NEW c \in Nat
      PROVE  (x + c) * D = x * D + c * D /\ c * D \in Nat /\ (c >= 1 => c * D >= 1)
  OBVIOUS
<1>2. ASSUME a <= b PROVE a * D <= b * D
  <2>1. b = a + (b - a) /\ b - a \in Nat BY <1>2
  <2>2. b * D = a * D + (b - a) * D /\ (b - a) * D \in Nat BY <1>1, <2>1
  <2>3. a * D \in Int OBVIOUS
  <2> QED BY <2>2, <2>3
<1>3. ASSUME a > b PROVE a * D > b * D
  <2>1. a = b + (a - b) /\ a - b \in Nat /\ a - b >= 1 BY <1>3
  <2>2. a * D = b * D + (a - b) * D /\ (a - b) * D \in Nat /\ (a - b) * D >= 1
    BY <1>1, <2>1
  <2>3. b * D \in Int OBVIOUS
  <2> QED BY <2>2, <2>3
<1>4. a * D \in Int /\ b * D \in Int OBVIOUS
<1> QED BY <1>2, <1>3, <1>4

(* Two midnights that are apart by no more than so many days.              *)
LEMMA DaysApart ==
  ASSUME NEW start \in Instants, NEW end \in Instants, BannerPeriod(start, end)
  PROVE  \E day \in 0..start :
           /\ start = day * Day
           /\ \E n \in 1..MaxBanner : end = (day + n) * Day
<1>1. /\ start \in Nat /\ end \in Nat /\ Day \in Nat \ {0} /\ MaxBanner \in Nat
      /\ start < end /\ start % Day = 0 /\ end % Day = 0 /\ end - start <= MaxBanner * Day
  BY KindsConstantsOK DEF BannerPeriod, CommonPeriod, Midnight
<1> DEFINE p == start \div Day
           q == end \div Day
           n == q - p
<1>2. /\ p \in Int /\ q \in Int /\ start = p * Day /\ end = q * Day
  BY <1>1
<1> HIDE DEF p, q
<1>3. p \in 0..start
  <2>1. 0 * Day <= p * Day BY <1>1, <1>2
  <2>2. p >= 0 BY <1>1, <1>2, <2>1, Multiples
  <2>3. p * Day >= p BY <1>1, <1>2, <2>2
  <2> QED BY <1>1, <1>2, <2>2, <2>3
<1>4. n * Day = end - start BY <1>1, <1>2
<1>5. n \in Int /\ q = p + n BY <1>2
<1> HIDE DEF n
<1>6. n <= MaxBanner BY <1>1, <1>4, <1>5, Multiples
<1>7. n >= 1
  <2>1. ~(n * Day <= 0 * Day) BY <1>1, <1>4
  <2> QED BY <1>1, <1>5, <2>1, Multiples
<1> QED BY <1>1, <1>2, <1>3, <1>5, <1>6, <1>7

(* The parts of ContentIsAllowed that concern a row or a draft alone.      *)
LEMMA Whole ==
  ASSUME NEW r, Allowed(r)
  PROVE  /\ r.kind = "EVENT_BANNER" =>
              IF r.detail.mode = "TEMPLATE"
              THEN /\ None \notin {r.detail.occasion, r.detail.headline, r.detail.message}
                   /\ r.detail.consent <=> r.columns.asset # None
              ELSE r.columns.asset # None /\ ~r.detail.consent
         /\ r.columns.asset \in Videos => r.kind = "POSTER"
         /\ r.kind # "STORY" =>
              /\ r.startAt < r.endAt
              /\ r.kind = "EVENT_BANNER" => \E day \in 0..r.startAt :
                   /\ r.startAt = day * Day
                   /\ \E n \in 1..MaxBanner : r.endAt = (day + n) * Day
              /\ r.kind = "POSTER" => r.endAt - r.startAt <= MaxPoster
<1>1. r.kind = "EVENT_BANNER" => BannerContent(r.columns, r.detail)
  BY DEF Allowed, ContentOK
<1>2. r.kind = "EVENT_BANNER" =>
        IF r.detail.mode = "TEMPLATE"
        THEN /\ None \notin {r.detail.occasion, r.detail.headline, r.detail.message}
             /\ r.detail.consent <=> r.columns.asset # None
        ELSE r.columns.asset # None /\ ~r.detail.consent
  BY <1>1, Zenon DEF BannerContent
<1>3. r.columns.asset \in Videos => r.kind = "POSTER"
  <2>1. r.kind = "STORY" => r.columns.asset = None
    BY DEF Allowed, ContentOK, StoryContent, EmptyColumns
  <2>2. r.kind = "EVENT_BANNER" => r.columns.asset \notin Videos BY <1>1 DEF BannerContent
  <2>3. r.kind \in Kinds BY DEF Allowed, Row
  <2> QED BY <2>1, <2>2, <2>3, KindsConstantsOK DEF Kinds
<1>4. ASSUME r.kind # "STORY"
      PROVE  /\ r.startAt < r.endAt
             /\ r.kind = "EVENT_BANNER" => \E day \in 0..r.startAt :
                  /\ r.startAt = day * Day
                  /\ \E n \in 1..MaxBanner : r.endAt = (day + n) * Day
             /\ r.kind = "POSTER" => r.endAt - r.startAt <= MaxPoster
  <2>1. /\ r.startAt \in Instants /\ r.endAt \in Instants /\ r.kind \in Kinds
        /\ ValidPeriod(r.kind, r.startAt, r.endAt)
    BY <1>4 DEF Allowed, Row
  <2>2. r.startAt \in Nat /\ r.endAt \in Nat /\ MaxPoster \in Nat BY <2>1, KindsConstantsOK
  <2>3. r.kind = "POSTER" => PosterPeriod(r.startAt, r.endAt) BY <2>1 DEF ValidPeriod
  <2>4. r.kind = "EVENT_BANNER" => BannerPeriod(r.startAt, r.endAt) BY <2>1 DEF ValidPeriod
  <2>5. r.kind \in {"POSTER", "EVENT_BANNER"} BY <1>4, <2>1 DEF Kinds
  <2>6. r.startAt < r.endAt
    BY <2>3, <2>4, <2>5 DEF PosterPeriod, BannerPeriod, CommonPeriod
  <2>7. r.kind = "POSTER" => r.endAt - r.startAt <= MaxPoster
    BY <2>2, <2>3 DEF PosterPeriod
  <2>8. r.kind = "EVENT_BANNER" => \E day \in 0..r.startAt :
          /\ r.startAt = day * Day
          /\ \E n \in 1..MaxBanner : r.endAt = (day + n) * Day
    BY <2>1, <2>4, DaysApart
  <2> QED BY <2>6, <2>7, <2>8
<1> QED BY <1>2, <1>3, <1>4

(* What a requester and a TV are shown has its declared shape.             *)
LEMMA BannerIsShown ==
  ASSUME NEW r, Allowed(r), r.kind = "EVENT_BANNER"
  PROVE  Response(r) \in SubmissionDto /\ ItemOf(r) \in EventBannerItemDto
<1> DEFINE image == r.detail.mode = "IMAGE"
           photo == IF image THEN None ELSE r.columns.asset
           asset == IF image THEN r.columns.asset ELSE None
           shown == [mode |-> r.detail.mode, occasion |-> r.detail.occasion,
                     recipient |-> r.detail.recipient, headline |-> r.detail.headline,
                     message |-> r.detail.message, consent |-> r.detail.consent,
                     photo |-> photo, asset |-> asset]
           item == [mode |-> r.detail.mode, occasion |-> r.detail.occasion,
                    recipient |-> r.detail.recipient, headline |-> r.detail.headline,
                    message |-> r.detail.message, photoUrl |-> photo, assetUrl |-> asset]
<1>1. Response(r) = [EmptyResponse EXCEPT !.banner = {shown}] /\ ItemOf(r) = item
  BY DEF Response, ItemOf, BannerResponse, BannerItem
<1>2. r.detail \in Banner /\ r.columns \in Columns
  BY DEF Allowed, ContentOK, BannerContent
<1>3. photo \in Assets \cup {None} /\ asset \in Assets \cup {None} BY <1>2 DEF Columns
<1> HIDE DEF photo, asset
<1>4. item \in EventBannerItemDto BY <1>2, <1>3 DEF Banner, EventBannerItemDto
<1>5. shown \in BannerInput BY <1>2, <1>3 DEF Banner, BannerInput
<1> HIDE DEF shown, item
<1>6. {shown} \in Optional(BannerInput) /\ {} \in Optional(Story) BY <1>5 DEF Optional
<1>7. Response(r) \in SubmissionDto
  BY <1>1, <1>6 DEF EmptyResponse, SubmissionDto, NoLink, RawLinks
<1> QED BY <1>1, <1>4, <1>7

LEMMA PosterIsShown ==
  ASSUME NEW r, Allowed(r), r.kind = "POSTER"
  PROVE  Response(r) \in SubmissionDto /\ ItemOf(r) \in PlaylistItemDto
<1>1. PosterContent(r.columns, r.detail) BY DEF Allowed, ContentOK
<1>2. Response(r) = PosterResponse(r) /\ ItemOf(r) = PosterItem(r)
  BY DEF Response, ItemOf
<1>3. {} \in Optional(BannerInput) /\ {} \in Optional(Story) BY DEF Optional
<1>4. PosterResponse(r) \in SubmissionDto
  BY <1>1, <1>3 DEF PosterContent, PosterResponse, SubmissionDto, Columns, RawLinks
<1> DEFINE video == r.columns.asset \in Videos
<1>5. PosterItem(r) =
        [category |-> r.columns.category, detailUrl |-> r.columns.link.url,
         caption |-> r.columns.caption, video |-> video, assetUrl |-> r.columns.asset]
  BY Zenon DEF PosterItem
<1>6. video \in BOOLEAN OBVIOUS
<1> HIDE DEF video
<1>7. PosterItem(r) \in PlaylistItemDto
  BY <1>1, <1>5, <1>6 DEF PosterContent, Columns, PlaylistItemDto
<1> QED BY <1>2, <1>4, <1>7

LEMMA StoryIsShown ==
  ASSUME NEW r, Allowed(r), r.kind = "STORY"
  PROVE  /\ Response(r) \in SubmissionDto
         /\ r.status = "PUBLISHED" => ItemOf(r) \in {i \in StoryItemDto : i.number}
<1>1. StoryContent(r.columns, r.detail) /\ StoryStands(r) BY DEF Allowed, ContentOK
<1>2. Response(r) = [EmptyResponse EXCEPT !.story = {r.detail}]
  BY DEF Response, StoryResponse
<1>3. {} \in Optional(BannerInput) /\ {r.detail} \in Optional(Story)
  BY <1>1 DEF Optional, StoryContent
<1>4. Response(r) \in SubmissionDto
  BY <1>2, <1>3 DEF EmptyResponse, SubmissionDto, NoLink, RawLinks
<1>5. ItemOf(r) = [number |-> r.detail.numbered, body |-> r.detail.body]
  BY DEF ItemOf, StoryItem
<1>6. ItemOf(r) \in StoryItemDto BY <1>1, <1>5 DEF StoryContent, Story, StoryItemDto
<1>7. ItemOf(r).number = r.detail.numbered BY <1>5
<1>8. r.status = "PUBLISHED" => r.detail.numbered BY <1>1 DEF StoryStands
<1> QED BY <1>4, <1>6, <1>7, <1>8, Zenon

LEMMA ShapesAreKept ==
  ASSUME NEW r, Allowed(r)
  PROVE  /\ OfItsKind(r) /\ Response(r) \in SubmissionDto
         /\ r.status = "PUBLISHED" => ItemOf(r) \in ItemDto(r.kind)
<1>1. r.kind \in Kinds BY DEF Allowed, Row
<1>2. CASE r.kind = "POSTER"
  <2>1. OfItsKind(r) BY <1>2 DEF Allowed, ContentOK, PosterContent, OfItsKind
  <2>2. ItemDto(r.kind) = PlaylistItemDto BY <1>2 DEF ItemDto
  <2> QED BY <1>2, <2>1, <2>2, PosterIsShown
<1>3. CASE r.kind = "EVENT_BANNER"
  <2>1. OfItsKind(r) BY <1>3 DEF Allowed, ContentOK, BannerContent, OfItsKind
  <2>2. ItemDto(r.kind) = EventBannerItemDto BY <1>3 DEF ItemDto
  <2> QED BY <1>3, <2>1, <2>2, BannerIsShown
<1>4. CASE r.kind = "STORY"
  <2>1. StoryContent(r.columns, r.detail) /\ StoryStands(r)
    BY <1>4 DEF Allowed, ContentOK
  <2>2. r.columns.asset = None /\ r.columns = [EmptyColumns EXCEPT !.asset = r.columns.asset]
    BY <2>1 DEF StoryContent, EmptyColumns
  <2>3. OfItsKind(r) BY <1>4, <2>1, <2>2 DEF StoryContent, StoryStands, OfItsKind
  <2>4. ItemDto(r.kind) = {i \in StoryItemDto : i.number} BY <1>4 DEF ItemDto
  <2> QED BY <1>4, <2>3, <2>4, StoryIsShown
<1> QED BY <1>1, <1>2, <1>3, <1>4 DEF Kinds

LEMMA AtMostOne ==
  ASSUME NEW S, \A x, y \in S : x = y
  PROVE  Cardinality(S) <= 1
<1>1. CASE S = {} BY <1>1, FS_EmptySet
<1>2. CASE S # {}
  <2>1. PICK x \in S : TRUE BY <1>2
  <2>2. S = {x} BY <2>1
  <2>3. Cardinality({x}) = 1 BY FS_Singleton
  <2> QED BY <2>2, <2>3
<1> QED BY <1>1, <1>2

(* What the handlers let through is what the tables and the TVs take, for  *)
(* any media, categories, groups and words, days and periods of any length *)
(* and forms of any shape, any number of edits of any part included        *)
(* (resolve of each kind, SubmissionsService.create and update).           *)
THEOREM AllowedContentOnly == ContentSpec => []ContentIsAllowed
<1>1. ContentInv => ContentIsAllowed
  <2> SUFFICES ASSUME ContentInv PROVE ContentIsAllowed
    OBVIOUS
  <2>1. \A r \in row \cup draft : Allowed(r) /\ r \in Row
    BY DEF ContentInv, Shapes, Allowed
  <2>2. Cardinality(row) <= 1 /\ Cardinality(draft) <= 1
    BY AtMostOne DEF ContentInv, Shapes
  <2>3. \A r \in row \cup draft : OfItsKind(r) /\ Response(r) \in SubmissionDto
    BY <2>1, ShapesAreKept
  <2>4. \A r \in row : r.status = "PUBLISHED" => ItemOf(r) \in ItemDto(r.kind)
    BY <2>1, ShapesAreKept
  <2>5. ContentTypesOK
    BY <2>1, <2>2, <2>3, <2>4 DEF ContentTypesOK, ContentInv, Shapes
  <2>6. BannersAreWhole BY <2>1, Whole, Zenon DEF BannersAreWhole
  <2>7. MediaIsUsable BY <2>1, Whole DEF MediaIsUsable, ContentInv, MediaHold
  <2>8. PeriodIsAllowed BY <2>1, Whole, Zenon DEF PeriodIsAllowed
  <2> QED BY <2>5, <2>6, <2>7, <2>8 DEF ContentIsAllowed
<1> QED BY <1>1, ContentInvariant, PTL

(* What is approved is what its reviewer read, and a story a TV reads is   *)
(* the one that was approved, for any number of edits and decisions        *)
(* between the two reads (detail, ReviewsService.approve,                  *)
(* submissionItems).                                                       *)
THEOREM WhatIsReadIsWhatIsApproved == ContentSpec => ReadsAreWhole
<1>1. ContentInv => ApprovedAsRead
  <2> SUFFICES ASSUME ContentInv, NEW start \in Instants, Approve(start)
               PROVE  since <= reader.detail
    BY DEF ApprovedAsRead
  <2>1. PICK r \in row : reader.detail # 0 /\ reader.row = r.version
    BY DEF Approve
  <2>2. since <= r.version /\ reader.row <= reader.detail
    BY <2>1 DEF ContentInv, ReadsFollow
  <2>3. since \in Nat /\ reader.row \in Nat /\ reader.detail \in Nat
    BY ContentsConstantsOK DEF ContentInv, Shapes, Reader
  <2> QED BY <2>1, <2>2, <2>3
<1>2. ContentInv => StoryReadsAreWhole
  BY DEF ContentInv, ReadsFollow, StoryReadsAreWhole
<1>3. ContentInv /\ ContentInv' => [ApprovedAsRead /\ StoryReadsAreWhole']_contentVars
  <2>1. ContentInv' => StoryReadsAreWhole' BY <1>2, PTL
  <2> QED BY <1>1, <2>1
<1> QED BY <1>3, ContentInvariant, PTL DEF ReadsAreWhole

(* Two contents of a kind have one checksum if a TV keeps the same of them.*)
LEMMA SameKept ==
  ASSUME NEW r, Allowed(r), NEW s, Allowed(s), s.kind = r.kind
  PROVE  Checksum(r) = Checksum(s) <=> Kept(r) = Kept(s)
<1>1. CASE r.kind = "POSTER"
  <2>1. r.columns.asset \in Assets /\ s.columns.asset \in Assets
    BY <1>1 DEF Allowed, ContentOK, PosterContent
  <2>2. \A x : PosterItem(x).assetUrl = x.columns.asset BY DEF PosterItem
  <2>3. /\ Checksum(r) = <<FileAt(r.columns.asset)>>
        /\ Checksum(s) = <<FileAt(s.columns.asset)>>
    BY <1>1 DEF Checksum
  <2>4. /\ Kept(r) = <<PosterItem(r).video, FileAt(r.columns.asset)>>
        /\ Kept(s) = <<PosterItem(s).video, FileAt(s.columns.asset)>>
    BY <1>1, <2>2 DEF Kept, ItemOf
  <2>5. FileAt(r.columns.asset) = FileAt(s.columns.asset) =>
          (r.columns.asset \in Videos <=> s.columns.asset \in Videos)
    BY <2>1, KindsConstantsOK DEF FileAt
  <2>6. FileAt(r.columns.asset) = FileAt(s.columns.asset) =>
          PosterItem(r).video = PosterItem(s).video
    BY <2>5 DEF PosterItem
  <2> QED BY <2>3, <2>4, <2>6
<1>2. CASE r.kind = "EVENT_BANNER"
  <2> DEFINE Photo(x) == IF x.detail.mode = "IMAGE" THEN None ELSE x.columns.asset
             Image(x) == IF x.detail.mode = "IMAGE" THEN x.columns.asset ELSE None
             Files(x) == <<FileAt(Photo(x)), FileAt(Image(x))>>
  <2>1. \A x : x.kind = "EVENT_BANNER" => Checksum(x) = <<Words(x), FileAt(x.columns.asset)>>
    BY DEF Checksum
  <2>2. \A x : x.kind = "EVENT_BANNER" =>
          Kept(x) = [mode |-> x.detail.mode, occasion |-> x.detail.occasion,
                     recipient |-> x.detail.recipient, headline |-> x.detail.headline,
                     message |-> x.detail.message,
                     photoUrl |-> FileAt(Photo(x)), assetUrl |-> FileAt(Image(x))]
    BY DEF Kept, ItemOf, BannerItem
  <2>3. Words(r) = Words(s) =>
          (Files(r) = Files(s) <=> FileAt(r.columns.asset) = FileAt(s.columns.asset))
    BY DEF Words
  <2>4. Kept(r) = Kept(s) <=> Words(r) = Words(s) /\ Files(r) = Files(s)
    <3> HIDE DEF Photo, Image
    <3> QED BY <1>2, <2>2 DEF Words
  <2> HIDE DEF Files
  <2> QED BY <1>2, <2>1, <2>3, <2>4
<1>3. CASE r.kind = "STORY"
  <2>1. /\ Checksum(r) = <<r.detail.numbered, r.detail.body>>
        /\ Checksum(s) = <<s.detail.numbered, s.detail.body>>
        /\ Kept(r) = [number |-> r.detail.numbered, body |-> r.detail.body]
        /\ Kept(s) = [number |-> s.detail.numbered, body |-> s.detail.body]
    BY <1>3 DEF Checksum, Kept, ItemOf, StoryItem
  <2> QED BY <2>1
<1> QED BY <1>1, <1>2, <1>3 DEF Allowed, Row, Kinds

(* The checksum changes if, and only if, what a TV keeps under it does, for*)
(* any words, and any media of which some may be the same file at another  *)
(* address, as no step makes another kind of a submission (contentChecksum *)
(* of each kind, toPlaylistItem).                                          *)
THEOREM ChecksumsTell == ContentSpec => ChecksumTellsContent
<1> DEFINE SameKind == \A r \in row, s \in row' : s.kind = r.kind
           Tells == \A r \in row, s \in row' : Checksum(r) = Checksum(s) <=> Kept(r) = Kept(s)
<1>1. ASSUME ContentInv, [ContentNext]_contentVars
      PROVE  SameKind
  <2>1. \A r, s \in row : s.kind = r.kind
    <3>1. \A r, s \in row : s = r BY <1>1 DEF ContentInv, Shapes
    <3> QED BY <3>1
  <2>2. ASSUME UNCHANGED row PROVE SameKind BY <2>1, <2>2
  <2>3. ASSUME NEW r \in row, NEW next, row' = {next}, next.kind = r.kind
        PROVE  SameKind
    BY <2>1, <2>3
  <2>4. ASSUME NEW r \in row, NEW status, Moves(r, status)
        PROVE  SameKind
    <3>1. r \in Row BY <1>1 DEF ContentInv, Shapes, Allowed
    <3>2. row' = {[r EXCEPT !.status = status, !.version = r.version + 1]} BY <2>4 DEF Moves
    <3>3. [r EXCEPT !.status = status, !.version = r.version + 1].kind = r.kind
      BY <3>1 DEF Row
    <3> QED BY <2>3, <3>2, <3>3
  <2>5. ASSUME Store PROVE SameKind
    <3>1. PICK next \in draft : row' = {next} BY <2>5 DEF Store
    <3>2. \A r \in row : next.kind = r.kind BY <1>1 DEF ContentInv, DraftsFollow
    <3> QED BY <3>1, <3>2
  <2>6. ASSUME NEW start \in Instants, Approve(start) PROVE SameKind
    <3>1. PICK r \in row, status \in {"SCHEDULED", "PUBLISHED"} :
            \/ Moves(r, status)
            \/ Moves(Numbered([r EXCEPT !.startAt = start, !.endAt = start + Day]), status)
      BY <2>6 DEF Approve
    <3>2. ASSUME NEW dated, dated = Numbered([r EXCEPT !.startAt = start, !.endAt = start + Day]),
                 Moves(dated, status)
          PROVE  SameKind
      <4> DEFINE next == [dated EXCEPT !.status = status, !.version = dated.version + 1]
      <4>1. row' = {next} BY <3>2 DEF Moves
      <4>2. r \in Row BY <1>1 DEF ContentInv, Shapes, Allowed
      <4>3. next.kind = r.kind BY <3>2, <4>2 DEF Row, Numbered
      <4> QED BY <2>3, <4>1, <4>3
    <3> QED BY <2>4, <3>1, <3>2
  <2>7. ASSUME \/ \E input \in Forms : Update(input) \/ \E kind \in Kinds : Create(kind, input)
               \/ GiveUp \/ \E which \in {"row", "detail"} : Read(which)
               \/ \E a \in Assets : Uploaded(a) \/ Converted(a) \/ CleanedUp(a)
               \/ \E x \in Categories \cup Groups : HideOrShow(x)
        PROVE  UNCHANGED row
    BY <2>7 DEF Update, Create, GiveUp, Read, Uploaded, Converted, CleanedUp, Becomes, HideOrShow
  <2>8. ASSUME Reject \/ Suspend \/ Submit \/ Starts PROVE SameKind
    BY <2>4, <2>8 DEF Reject, Suspend, Submit, Starts
  <2> HIDE DEF SameKind
  <2> QED BY <1>1, <2>2, <2>5, <2>6, <2>7, <2>8 DEF ContentNext, contentVars
<1>2. ASSUME NEW r, Allowed(r), NEW s, Allowed(s), s.kind = r.kind
      PROVE  Checksum(r) = Checksum(s) <=> Kept(r) = Kept(s)
  BY <1>2, SameKept
<1>3. ASSUME ContentInv, ContentInv', SameKind
      PROVE  Tells
  <2>1. (\A r \in row : Allowed(r)) /\ (\A s \in row' : Allowed(s))
    BY <1>3 DEF ContentInv, Shapes
  <2> QED BY <1>2, <1>3, <2>1
<1>4. ContentInv /\ ContentInv' /\ [ContentNext]_contentVars => [Tells]_contentVars
  <2> HIDE DEF SameKind, Tells
  <2> QED BY <1>1, <1>3
<1> QED
  <2> HIDE DEF Tells
  <2> QED BY <1>4, ContentInvariant, PTL DEF ContentSpec, ChecksumTellsContent, Tells

(* A form sent back as it was filled in.                                   *)
SentBack(r) ==
  IF r.columns.link.url = None
  THEN [FormOf(r) EXCEPT !.link = IF r.kind = "POSTER" THEN {None} ELSE {}]
  ELSE FormOf(r)

Refilled(category, asset, link, caption, banner, story, startAt, endAt, groups) ==
  [category |-> category, asset |-> asset, link |-> link, caption |-> caption,
   banner |-> banner, story |-> story, startAt |-> startAt, endAt |-> endAt,
   groups |-> groups]

(* An edit that makes of the row what it is meets no error but those of its*)
(* fields and of resolve.                                                  *)
LEMMA SameRow ==
  ASSUME NEW r, Allowed(r), NEW input,
         Unaccepted(r.kind, input) = {},
         Resolve(r.kind, input, {r}, media, hidden).errors = {},
         Resolve(r.kind, input, {r}, media, hidden).columns = r.columns,
         SameDetail(r.kind, r.detail, Resolve(r.kind, input, {r}, media, hidden).detail),
         input.startAt \in {{}, {r.startAt}}, input.endAt \in {{}, {r.endAt}},
         input.groups \in {{}, {r.groups}}
  PROVE  Edited(r, input) = r /\ EditErrors(r, input) = {}
<1>1. r \in Row BY DEF Allowed
<1>2. /\ Patched(input.startAt, r.startAt) = r.startAt
      /\ Patched(input.endAt, r.endAt) = r.endAt
      /\ Patched(input.groups, r.groups) = r.groups
  BY TheOne DEF Patched
<1>3. Edited(r, input) = [r EXCEPT !.columns = r.columns, !.detail = r.detail,
                                   !.startAt = r.startAt, !.endAt = r.endAt,
                                   !.groups = r.groups]
  BY <1>2, Zenon DEF Edited
<1>4. Edited(r, input) = r BY <1>1, <1>3 DEF Row
<1>5. GroupErrors(r.groups \ r.groups) = {}
  <2>1. (r.groups \ r.groups) \cap hidden = {} OBVIOUS
  <2> QED BY <2>1 DEF GroupErrors
<1>6. EditErrors(r, input) =
        Unaccepted(r.kind, input) \cup Resolve(r.kind, input, {r}, media, hidden).errors
          \cup {} \cup GroupErrors(r.groups \ r.groups)
  BY <1>4, Zenon DEF EditErrors
<1> QED BY <1>4, <1>5, <1>6

(* A field that is left empty is not sent.                                 *)
LEMMA Sending ==
  ASSUME NEW C, NEW A, NEW L, NEW T, NEW B, NEW S, NEW from, NEW to, NEW G
  PROVE  LET input == Refilled(C, A, L, T, B, S, from, to, G)
         IN /\ Sent(input) \subseteq {"category", "asset", "link", "caption", "banner",
                                      "story", "startAt", "endAt", "groups"}
            /\ C = {} => "category" \notin Sent(input)
            /\ A = {} => "asset" \notin Sent(input)
            /\ L = {} => "link" \notin Sent(input)
            /\ T = {} => "caption" \notin Sent(input)
            /\ B = {} => "banner" \notin Sent(input)
            /\ S = {} => "story" \notin Sent(input)
            /\ from = {} => "startAt" \notin Sent(input)
            /\ to = {} => "endAt" \notin Sent(input)
            /\ G = {} => "groups" \notin Sent(input)
<1> DEFINE input == Refilled(C, A, L, T, B, S, from, to, G)
<1>1. /\ DOMAIN input = {"category", "asset", "link", "caption", "banner",
                         "story", "startAt", "endAt", "groups"}
      /\ input["category"] = C /\ input["asset"] = A /\ input["link"] = L
      /\ input["caption"] = T /\ input["banner"] = B /\ input["story"] = S
      /\ input["startAt"] = from /\ input["endAt"] = to /\ input["groups"] = G
  BY DEF Refilled
<1>2. DOMAIN Display = {"link", "caption"} BY DEF Display
<1> HIDE DEF input
<1>3. \A f \in Sent(input) :
        /\ f \in DOMAIN input /\ input[f] # {}
  BY <1>2 DEF Sent
<1> QED BY <1>1, <1>3 DEF input

(* Each kind, sent back as it was filled in.                               *)
LEMMA PosterResent ==
  ASSUME NEW r, Allowed(r), r.kind = "POSTER"
  PROVE  Edited(r, SentBack(r)) = r /\ EditErrors(r, SentBack(r)) = {}
<1> DEFINE c == r.columns
           input == Refilled({c.category}, {c.asset}, {c.link.url}, {c.caption}, {}, {},
                             {r.startAt}, {r.endAt}, {r.groups})
           made == ResolvePoster(input, {r}, media, hidden)
<1>1. PosterContent(c, r.detail) BY DEF Allowed, ContentOK
<1>2. FormOf(r) = input
  BY DEF FormOf, Response, PosterResponse, EmptyRequest, Refilled
<1>3. SentBack(r) = input
  <2>1. [input EXCEPT !.link = {c.link.url}] = input BY DEF Refilled
  <2> HIDE DEF input
  <2>2. SentBack(r) = IF c.link.url = None THEN [input EXCEPT !.link = {None}] ELSE input
    BY <1>2 DEF SentBack
  <2> QED BY <2>1, <2>2
<1>4. /\ input.category = {c.category} /\ input.asset = {c.asset}
      /\ input.link = {c.link.url} /\ input.caption = {c.caption}
      /\ input.startAt = {r.startAt} /\ input.endAt = {r.endAt} /\ input.groups = {r.groups}
  BY DEF Refilled
<1>5. Unaccepted("POSTER", input) = {}
  <2>1. Sent(input) \subseteq {"category", "asset", "link", "caption", "startAt",
                               "endAt", "groups"}
    <3> DEFINE sent == Sent(input)
    <3>1. /\ sent \subseteq {"category", "asset", "link", "caption", "banner",
                             "story", "startAt", "endAt", "groups"}
          /\ "banner" \notin sent /\ "story" \notin sent
      BY Sending
    <3> HIDE DEF sent
    <3> QED BY <3>1 DEF sent
  <2>2. /\ RuleOf("POSTER").fields = {"category", "asset", "link", "caption"}
        /\ ~RuleOf("POSTER").onApproval /\ RuleOf("POSTER").targetable
    BY DEF RuleOf, PosterRule
  <2> HIDE DEF input
  <2> QED BY <2>1, <2>2 DEF Unaccepted
<1> HIDE DEF input
<1>6. /\ Patched(input.category, c.category) = c.category
      /\ Patched(input.asset, c.asset) = c.asset
      /\ Patched(input.caption, c.caption) = c.caption
  BY <1>4, TheOne DEF Patched
<1>7. {raw \in input.link : raw # None /\ Refused(raw)} = {}
  <2>1. c.link.url \in {"notice", "page", None} BY <1>1 DEF PosterContent, Columns
  <2> QED BY <1>4, <2>1 DEF Refused
<1>8. (IF input.link = {None} THEN NoLink ELSE Parsed(The(input.link))) = c.link
  <2>1. The(input.link) = c.link.url BY <1>4, TheOne
  <2>2. c.link \in Links BY <1>1 DEF PosterContent
  <2>3. CASE c.link = NoLink BY <1>4, <2>3 DEF NoLink
  <2>4. CASE c.link = [url |-> "page", notice |-> None]
    <3>1. c.link.url = "page" BY <2>4
    <3>2. input.link # {None} BY <1>4, <3>1 DEF None
    <3> QED BY <2>1, <2>4, <3>1, <3>2 DEF Parsed
  <2>5. CASE c.link = [url |-> "notice", notice |-> "n1"]
    <3>1. c.link.url = "notice" BY <2>5
    <3>2. input.link # {None} BY <1>4, <3>1 DEF None
    <3> QED BY <2>1, <2>5, <3>1, <3>2 DEF Parsed
  <2> QED BY <2>2, <2>3, <2>4, <2>5 DEF Links
<1>9. The({r}) = r /\ {r} # {} /\ input.link # {} BY <1>4, TheOne
<1>10. made.columns = [category |-> c.category, asset |-> c.asset, link |-> c.link,
                       caption |-> c.caption]
  <2>1. made.columns =
          [category |-> Patched(input.category, c.category),
           asset |-> Patched(input.asset, c.asset),
           link |-> IF input.link = {} \/ {raw \in input.link : raw # None /\ Refused(raw)} # {}
                    THEN c.link
                    ELSE IF input.link = {None} THEN NoLink ELSE Parsed(The(input.link)),
           caption |-> Patched(input.caption, c.caption)]
    BY <1>9 DEF ResolvePoster
  <2>2. (IF input.link = {} \/ {raw \in input.link : raw # None /\ Refused(raw)} # {}
         THEN c.link
         ELSE IF input.link = {None} THEN NoLink ELSE Parsed(The(input.link))) = c.link
    BY <1>7, <1>8, <1>9
  <2> HIDE DEF made, c
  <2> QED BY <1>6, <2>1, <2>2, Zenon
<1>11. made.columns = c BY <1>1, <1>10 DEF PosterContent, Columns
<1>12. made.errors = {}
  <2>1. /\ \A field : ~IsNew(c[field], field, {r})
    BY DEF IsNew
  <2>2. c["category"] = c.category /\ c["asset"] = c.asset OBVIOUS
  <2>3. made.errors =
          {f \in {"link"} : {raw \in input.link : raw # None /\ Refused(raw)} # {}}
            \cup {f \in {"category"} : IsNew(c.category, f, {r}) /\ c.category \in hidden}
            \cup {f \in {"asset"} : IsNew(c.asset, f, {r}) /\ ~CheckMedia(c.asset, TRUE, media)}
    BY <1>6, <1>9, Zenon DEF ResolvePoster
  <2> HIDE DEF made
  <2>4. {f \in {"link"} : {raw \in input.link : raw # None /\ Refused(raw)} # {}} = {}
    BY <1>7
  <2>5. ~IsNew(c.category, "category", {r}) /\ ~IsNew(c.asset, "asset", {r})
    BY <2>1, <2>2
  <2> HIDE DEF c
  <2> QED BY <2>3, <2>4, <2>5
<1>13. /\ Resolve(r.kind, input, {r}, media, hidden) = made
       /\ SameDetail(r.kind, r.detail, made.detail)
  BY DEF Resolve, SameDetail
<1> HIDE DEF made
<1>14. Edited(r, input) = r /\ EditErrors(r, input) = {}
  BY <1>4, <1>5, <1>11, <1>12, <1>13, SameRow
<1> QED BY <1>3, <1>14

LEMMA StoryResent ==
  ASSUME NEW r, Allowed(r), r.kind = "STORY"
  PROVE  Edited(r, SentBack(r)) = r /\ EditErrors(r, SentBack(r)) = {}
<1> DEFINE input == Refilled({}, {}, {}, {}, {}, {r.detail.body}, {}, {}, {})
           made == StoryMade(r.detail.body, {r})
<1>1. StoryContent(r.columns, r.detail) BY DEF Allowed, ContentOK
<1>2. FormOf(r) = input
  <2>1. Response(r).story = {r.detail} BY DEF Response, StoryResponse, EmptyResponse
  <2>2. FormOf(r) = [EmptyRequest EXCEPT !.story = {detail.body : detail \in {r.detail}}]
    BY <2>1 DEF FormOf
  <2>3. {detail.body : detail \in {r.detail}} = {r.detail.body} OBVIOUS
  <2> QED BY <2>2, <2>3 DEF EmptyRequest, Refilled
<1>3. SentBack(r) = input
  <2>1. input = [input EXCEPT !.link = {}] BY DEF Refilled
  <2> HIDE DEF input
  <2> QED BY <1>2, <2>1 DEF SentBack
<1>4. /\ input.story = {r.detail.body}
      /\ input.startAt = {} /\ input.endAt = {} /\ input.groups = {}
  BY DEF Refilled
<1>5. Unaccepted("STORY", input) = {}
  <2>1. Sent(input) \subseteq {"story"}
    <3> DEFINE sent == Sent(input)
    <3>1. /\ sent \subseteq {"category", "asset", "link", "caption", "banner",
                             "story", "startAt", "endAt", "groups"}
          /\ {"category", "asset", "link", "caption", "banner", "startAt", "endAt", "groups"}
               \cap sent = {}
      BY Sending
    <3> HIDE DEF sent
    <3> QED BY <3>1 DEF sent
  <2>2. RuleOf("STORY").fields = {"story"} BY DEF RuleOf, StoryRule
  <2> HIDE DEF input
  <2> QED BY <2>1, <2>2 DEF Unaccepted
<1> HIDE DEF input
<1>6. Resolve(r.kind, input, {r}, media, hidden) = made
  BY <1>4, TheOne DEF Resolve
<1>7. /\ made.errors = {} /\ made.columns = r.columns
      /\ made.detail.body = r.detail.body
  BY <1>1 DEF StoryMade, StoryContent
<1> HIDE DEF made
<1>8. SameDetail(r.kind, r.detail, made.detail) BY <1>7 DEF SameDetail
<1>9. Edited(r, input) = r /\ EditErrors(r, input) = {}
  BY <1>4, <1>5, <1>6, <1>7, <1>8, SameRow
<1> QED BY <1>3, <1>9

LEMMA BannerResent ==
  ASSUME NEW r, Allowed(r), r.kind = "EVENT_BANNER"
  PROVE  Edited(r, SentBack(r)) = r /\ EditErrors(r, SentBack(r)) = {}
<1> DEFINE d == r.detail
           asset == r.columns.asset
           image == d.mode = "IMAGE"
           photo == IF image THEN None ELSE asset
           picture == IF image THEN asset ELSE None
           b == [mode |-> d.mode, occasion |-> d.occasion, recipient |-> d.recipient,
                 headline |-> d.headline, message |-> d.message, consent |-> d.consent,
                 photo |-> photo, asset |-> picture]
           input == Refilled({}, {}, {}, {}, {b}, {}, {r.startAt}, {r.endAt}, {r.groups})
           made == BannerMade(b, {r}, media)
<1>1. BannerContent(r.columns, d) BY DEF Allowed, ContentOK
<1>2. FormOf(r) = input
  <2> HIDE DEF b
  <2>1. Response(r).banner = {b}
    <3>1. Response(r) = [EmptyResponse EXCEPT !.banner = {b}]
      BY DEF Response, BannerResponse, b
    <3> QED BY <3>1 DEF EmptyResponse
  <2>2. FormOf(r) = [[EmptyRequest EXCEPT !.startAt = {r.startAt}, !.endAt = {r.endAt},
                                          !.groups = {r.groups}] EXCEPT !.banner = {b}]
    BY <2>1 DEF FormOf
  <2> QED BY <2>2 DEF EmptyRequest, Refilled
<1>3. SentBack(r) = input
  <2>1. [input EXCEPT !.link = {}] = input BY DEF Refilled
  <2>2. r.columns.link.url = None
    BY <1>1 DEF BannerContent, EmptyColumns, NoLink
  <2> HIDE DEF input
  <2> QED BY <1>2, <2>1, <2>2 DEF SentBack
<1>4. /\ input.banner = {b} /\ input.startAt = {r.startAt} /\ input.endAt = {r.endAt}
      /\ input.groups = {r.groups}
  BY DEF Refilled
<1>5. Unaccepted("EVENT_BANNER", input) = {}
  <2> HIDE DEF b
  <2>1. Sent(input) \subseteq {"banner", "startAt", "endAt", "groups"}
    <3> DEFINE sent == Sent(input)
    <3>1. /\ sent \subseteq {"category", "asset", "link", "caption", "banner",
                             "story", "startAt", "endAt", "groups"}
          /\ {"category", "asset", "link", "caption", "story"} \cap sent = {}
      BY Sending
    <3> HIDE DEF sent
    <3> QED BY <3>1 DEF sent
  <2>2. /\ RuleOf("EVENT_BANNER").fields = {"banner"}
        /\ ~RuleOf("EVENT_BANNER").onApproval /\ RuleOf("EVENT_BANNER").targetable
    BY DEF RuleOf, BannerRule
  <2> HIDE DEF input
  <2> QED BY <2>1, <2>2 DEF Unaccepted
<1> HIDE DEF input
<1>6. Resolve(r.kind, input, {r}, media, hidden) = made
  <2> HIDE DEF b
  <2>1. The(input.banner) = b /\ input.banner # {} BY <1>4, TheOne
  <2> QED BY <2>1 DEF Resolve
<1>7. d \in Banner /\ r.columns = [EmptyColumns EXCEPT !.asset = asset]
  BY <1>1 DEF BannerContent
<1>8. /\ b.mode = d.mode /\ b.occasion = d.occasion /\ b.recipient = d.recipient
      /\ b.headline = d.headline /\ b.message = d.message /\ b.consent = d.consent
      /\ b.photo = photo /\ b.asset = picture
  <2> HIDE DEF photo, picture
  <2> QED OBVIOUS
<1> HIDE DEF b
<1>9. MediaOf(b) = asset
  BY <1>7, <1>8 DEF MediaOf, Banner
<1>10. IF d.mode = "TEMPLATE"
       THEN /\ d.occasion # None /\ d.headline # None /\ d.message # None
            /\ photo = asset /\ picture = None
            /\ d.consent <=> asset # None
       ELSE photo = None /\ picture = asset /\ asset # None /\ ~d.consent
  <2>1. IF d.mode = "TEMPLATE"
        THEN None \notin {d.occasion, d.headline, d.message} /\ (d.consent <=> asset # None)
        ELSE asset # None /\ ~d.consent
    BY <1>1, Zenon DEF BannerContent
  <2>2. d.mode \in {"TEMPLATE", "IMAGE"} BY <1>7 DEF Banner
  <2>3. IF d.mode = "TEMPLATE" THEN photo = asset /\ picture = None
        ELSE photo = None /\ picture = asset
    BY <2>2
  <2> HIDE DEF photo, picture
  <2>4. CASE d.mode = "TEMPLATE" BY <2>1, <2>3, <2>4
  <2>5. CASE d.mode # "TEMPLATE" BY <2>1, <2>3, <2>5
  <2> QED BY <2>4, <2>5
<1> HIDE DEF photo, picture
<1>11. (IF b.mode = "TEMPLATE" THEN TemplateErrors(b) ELSE ImageErrors(b)) = {}
  <2>1. CASE d.mode = "TEMPLATE"
    <3>1. {f \in {"occasion", "headline", "message"} : b[f] = None} = {}
      <4>1. b["occasion"] # None /\ b["headline"] # None /\ b["message"] # None
        BY <1>8, <1>10, <2>1
      <4> QED BY <4>1
    <3>2. b.asset = None /\ (b.photo # None => b.consent) BY <1>8, <1>10, <2>1, Zenon
    <3> QED BY <1>8, <2>1, <3>1, <3>2 DEF TemplateErrors
  <2>2. CASE d.mode # "TEMPLATE"
    <3>1. b.asset # None /\ b.photo = None BY <1>8, <1>10, <2>2
    <3> QED BY <1>8, <2>2, <3>1 DEF ImageErrors
  <2> QED BY <2>1, <2>2
<1>12. ~IsNew(asset, "asset", {r}) BY DEF IsNew
<1>13. made.errors = {} /\ made.columns = r.columns
  <2>1. made.errors = (IF b.mode = "TEMPLATE" THEN TemplateErrors(b) ELSE ImageErrors(b))
          \cup {f \in {"asset"} : asset # None /\ IsNew(asset, f, {r})
                                   /\ ~CheckMedia(asset, FALSE, media)}
    BY <1>9, Zenon DEF BannerMade
  <2>2. made.columns = [EmptyColumns EXCEPT !.asset = asset] BY <1>9 DEF BannerMade
  <2> HIDE DEF made, asset
  <2> QED BY <1>7, <1>11, <1>12, <2>1, <2>2
<1>14. made.detail = d
  <2> DEFINE agreed == b.mode = "TEMPLATE" /\ asset # None /\ b.consent
  <2>1. made.detail = [mode |-> b.mode, occasion |-> b.occasion,
                       recipient |-> b.recipient, headline |-> b.headline,
                       message |-> b.message, consent |-> agreed]
    BY <1>9, Zenon DEF BannerMade
  <2>2. agreed = d.consent
    <3>1. agreed \in BOOLEAN /\ d.consent \in BOOLEAN BY <1>7 DEF Banner
    <3>2. agreed <=> d.consent BY <1>8, <1>10, Zenon
    <3> QED BY <3>1, <3>2
  <2> HIDE DEF made, agreed, d
  <2> QED BY <1>7, <1>8, <2>1, <2>2 DEF Banner
<1> HIDE DEF made
<1>15. SameDetail(r.kind, r.detail, made.detail) BY <1>14 DEF SameDetail
<1>16. Edited(r, input) = r /\ EditErrors(r, input) = {}
  BY <1>4, <1>5, <1>6, <1>13, <1>15, SameRow
<1> QED BY <1>3, <1>16

(* A requester who sends the form back as it was filled in changes nothing *)
(* and meets no error, for any content and whatever is hidden by now       *)
(* (toResponse of each kind, SubmissionsService.update).                   *)
THEOREM ResendingIsHarmless == ContentSpec => []ResendChangesNothing
<1>1. ContentInv => ResendChangesNothing
  <2> SUFFICES ASSUME ContentInv, NEW r \in row
               PROVE  Edited(r, SentBack(r)) = r /\ EditErrors(r, SentBack(r)) = {}
    BY Zenon DEF ResendChangesNothing, SentBack
  <2>1. Allowed(r) /\ r.kind \in Kinds BY DEF ContentInv, Shapes, Allowed, Row
  <2> QED BY <2>1, PosterResent, BannerResent, StoryResent DEF Kinds
<1> QED BY <1>1, ContentInvariant, PTL

-----------------------------------------------------------------------------
(* Who decides.                                                            *)

Inside == {"locked", "changing", "committing"}

(* The requests between their lock and their commit: at most one. *)
LockHeld ==
  \A q \in Requests : requests[q].at \in Inside <=> lock = q

(* What the recheck established still holds when the change is made. *)
AuthorIsAdmin ==
  \A q \in Requests : requests[q].at \in {"changing", "committing"} =>
    Admin(requests[q].by) \in granted

NeverOneself ==
  \A q \in Requests :
    requests[q].at # "idle" /\ requests[q].op = "revoke" =>
      requests[q].target[1] # requests[q].by

(* The effect a request found is still the one its commit has. *)
EffectIsCurrent ==
  \A q \in Requests : requests[q].at = "committing" =>
    /\ requests[q].effect = Effect(requests[q].op, requests[q].target)
    /\ requests[q].target[1] \in users

GrantsAreOfUsers == \A g \in granted : g[1] \in users

IInv ==
  /\ TypeOK
  /\ LockHeld
  /\ AuthorIsAdmin
  /\ NeverOneself
  /\ EffectIsCurrent
  /\ GrantsAreOfUsers
  /\ SomebodyAdministers
  /\ LastCheckNeverFires
  /\ AuditTellsRoles

-----------------------------------------------------------------------------
LEMMA BlankRequest ==
  ASSUME NEW answer \in {"NONE", "OK", "FORBIDDEN", "NOT_FOUND", "CONFLICT"}
  PROVE  /\ Blank(answer) \in Request
         /\ Blank(answer).at = "idle"
         /\ Blank(answer).answer = answer
<1>1. PICK u \in Founders : TRUE
  BY UserRolesConstantsOK
<1> DEFINE f == CHOOSE v \in Founders : TRUE
<1>2. f \in User
  BY <1>1, UserRolesConstantsOK
<1>3. Blank(answer) = [at |-> "idle", by |-> f, op |-> "grant",
                       target |-> <<f, "SUPER_ADMIN">>, effect |-> FALSE,
                       answer |-> answer]
  BY DEF Blank, Admin
<1> HIDE DEF f
<1>4. <<f, "SUPER_ADMIN">> \in Grant
  BY <1>2 DEF Grant, Roles
<1> QED
  BY <1>2, <1>3, <1>4 DEF Request

(* The initial states: the founders, an empty log, no request. *)
LEMMA InitIInv == Init => IInv
<1> SUFFICES ASSUME Init PROVE IInv
  OBVIOUS
<1>1. \A q \in Requests : requests[q] = Blank("NONE")
  BY DEF Init
<1>2. \A q \in Requests : /\ requests[q].at = "idle"
                          /\ requests[q].answer = "NONE"
                          /\ requests[q] \in Request
  BY <1>1, BlankRequest
<1>3. granted \subseteq Grant /\ users \subseteq User
  BY UserRolesConstantsOK DEF Init, Admin, Grant, Roles
<1>4. requests \in [Requests -> Request]
  BY <1>2 DEF Init
<1>5. TypeOK
  BY <1>3, <1>4 DEF Init, TypeOK
<1>6. LockHeld
  BY <1>2, UserRolesConstantsOK DEF Init, LockHeld, Inside
<1>7. AuthorIsAdmin /\ NeverOneself /\ EffectIsCurrent /\ LastCheckNeverFires
  BY <1>2 DEF AuthorIsAdmin, NeverOneself, EffectIsCurrent, LastCheckNeverFires
<1>8. GrantsAreOfUsers
  BY DEF Init, GrantsAreOfUsers, Admin
<1>9. SomebodyAdministers
  BY UserRolesConstantsOK DEF Init, SomebodyAdministers
<1>10. AuditTellsRoles
  BY DEF Init, AuditTellsRoles
<1> QED
  BY <1>5, <1>6, <1>7, <1>8, <1>9, <1>10 DEF IInv

-----------------------------------------------------------------------------
(* What the steps inside the lock leave alone: everything but one request. *)
LEMMA OnlyRequestMoves ==
  ASSUME IInv, NEW q \in Requests, NEW r \in Request,
         requests' = [requests EXCEPT ![q] = r],
         UNCHANGED <<granted, audit>>,
         users \subseteq users', users' \subseteq User,
         lock' \in Requests \cup {Nobody},
         r.at \in Inside <=> lock' = q,
         \A p \in Requests \ {q} : lock' = p <=> lock = p,
         r.at \in {"changing", "committing"} => Admin(r.by) \in granted,
         r.at # "idle" /\ r.op = "revoke" => r.target[1] # r.by,
         r.at = "committing" => /\ r.effect = Effect(r.op, r.target)
                                /\ r.target[1] \in users,
         r.answer # "CONFLICT"
  PROVE  IInv'
<1>1. requests[q]' = r /\ \A p \in Requests \ {q} : requests[p]' = requests[p]
  BY DEF IInv, TypeOK
<1>2. TypeOK'
  BY DEF IInv, TypeOK
<1>3. LockHeld'
  BY <1>1 DEF IInv, LockHeld
<1>4. AuthorIsAdmin'
  BY <1>1 DEF IInv, AuthorIsAdmin
<1>5. NeverOneself'
  BY <1>1 DEF IInv, NeverOneself
<1>6. EffectIsCurrent'
  BY <1>1 DEF IInv, EffectIsCurrent, Effect
<1>7. GrantsAreOfUsers'
  BY DEF IInv, GrantsAreOfUsers
<1>8. SomebodyAdministers'
  BY DEF IInv, SomebodyAdministers
<1>9. LastCheckNeverFires'
  BY <1>1 DEF IInv, LastCheckNeverFires
<1>10. AuditTellsRoles'
  BY DEF IInv, AuditTellsRoles
<1> QED
  BY <1>2, <1>3, <1>4, <1>5, <1>6, <1>7, <1>8, <1>9, <1>10 DEF IInv

(* A request that leaves the lock, or never got it, with the table as is. *)
LEMMA Leaving ==
  ASSUME IInv, NEW q \in Requests,
         NEW answer \in {"NONE", "OK", "FORBIDDEN", "NOT_FOUND"},
         requests' = [requests EXCEPT ![q] = Blank(answer)],
         lock' = IF lock = q THEN Nobody ELSE lock,
         UNCHANGED <<users, granted, audit>>
  PROVE  IInv'
<1>1. /\ Blank(answer) \in Request
      /\ Blank(answer).at = "idle"
      /\ Blank(answer).answer # "CONFLICT"
  BY BlankRequest
<1>2. lock \in Requests \cup {Nobody} /\ users \subseteq User
  BY DEF IInv, TypeOK
<1>3. /\ lock' \in Requests \cup {Nobody}
      /\ lock' # q
      /\ \A p \in Requests \ {q} : lock' = p <=> lock = p
  BY <1>2, UserRolesConstantsOK
<1> QED
  BY <1>1, <1>2, <1>3, OnlyRequestMoves DEF Inside

LEMMA LoginStep == ASSUME IInv, NEW u \in User, Login(u) PROVE IInv'
<1>1. TypeOK'
  BY DEF IInv, TypeOK, Login
<1>2. LockHeld' /\ AuthorIsAdmin' /\ NeverOneself' /\ LastCheckNeverFires'
  BY DEF IInv, LockHeld, AuthorIsAdmin, NeverOneself, LastCheckNeverFires, Login
<1>3. EffectIsCurrent'
  BY DEF IInv, EffectIsCurrent, Effect, Login
<1>4. GrantsAreOfUsers' /\ SomebodyAdministers'
  BY DEF IInv, GrantsAreOfUsers, SomebodyAdministers, Login
<1>5. AuditTellsRoles'
  BY DEF IInv, AuditTellsRoles, Login
<1> QED
  BY <1>1, <1>2, <1>3, <1>4, <1>5 DEF IInv

LEMMA ArriveStep ==
  ASSUME IInv, NEW q \in Requests, NEW u \in User,
         NEW op \in {"grant", "revoke"}, NEW g \in Grant, Arrive(q, u, op, g)
  PROVE  IInv'
<1>1. lock # q /\ lock \in Requests \cup {Nobody} /\ users \subseteq User
  BY DEF IInv, LockHeld, Inside, TypeOK, Arrive
<1>2. CASE op = "revoke" /\ g[1] = u
  <2>1. requests' = [requests EXCEPT ![q] = Blank("FORBIDDEN")]
    BY <1>2 DEF Arrive
  <2> QED
    BY <1>1, <2>1, Leaving DEF Arrive
<1>3. CASE ~(op = "revoke" /\ g[1] = u)
  <2> DEFINE r == [at |-> "waiting", by |-> u, op |-> op, target |-> g,
                   effect |-> FALSE, answer |-> "NONE"]
  <2>1. requests' = [requests EXCEPT ![q] = r]
    BY <1>3 DEF Arrive
  <2>2. r \in Request
    BY DEF Request
  <2>3. /\ r.at = "waiting" /\ r.answer = "NONE"
        /\ r.op = "revoke" => r.target[1] # r.by
    BY <1>3
  <2> HIDE DEF r
  <2> QED
    BY <1>1, <2>1, <2>2, <2>3, OnlyRequestMoves DEF Arrive, Inside
<1> QED
  BY <1>2, <1>3

LEMMA LockStep == ASSUME IInv, NEW q \in Requests, Lock(q) PROVE IInv'
<1> DEFINE r == [requests[q] EXCEPT !.at = "locked"]
<1>1. requests[q] \in Request /\ users \subseteq User
  BY DEF IInv, TypeOK
<1>2. r \in Request
  BY <1>1 DEF Request
<1>3. /\ r.at = "locked" /\ r.answer = requests[q].answer
      /\ r.op = requests[q].op /\ r.by = requests[q].by
      /\ r.target = requests[q].target
  BY <1>1 DEF Request
<1>4. requests' = [requests EXCEPT ![q] = r] /\ lock' = q
  BY DEF Lock
<1>5. \A p \in Requests \ {q} : lock' = p <=> lock = p
  BY <1>4, UserRolesConstantsOK DEF Lock, LockFree
<1>6. r.op = "revoke" => r.target[1] # r.by
  BY <1>3 DEF IInv, NeverOneself, Lock
<1>7. r.answer # "CONFLICT"
  BY <1>3 DEF IInv, LastCheckNeverFires
<1> HIDE DEF r
<1> QED
  BY <1>1, <1>2, <1>3, <1>4, <1>5, <1>6, <1>7, OnlyRequestMoves DEF Lock, Inside

LEMMA RecheckStep == ASSUME IInv, NEW q \in Requests, Recheck(q) PROVE IInv'
<1>1. lock = q
  BY DEF IInv, LockHeld, Inside, Recheck
<1>2. CASE ~StillAdmin(q)
  BY <1>1, <1>2, Leaving DEF Recheck, Ends
<1>3. CASE StillAdmin(q)
  <2> DEFINE r == [requests[q] EXCEPT !.at = "changing"]
  <2>1. requests[q] \in Request /\ users \subseteq User
    BY DEF IInv, TypeOK
  <2>2. r \in Request
    BY <2>1 DEF Request
  <2>3. /\ r.at = "changing" /\ r.answer = requests[q].answer
        /\ r.op = requests[q].op /\ r.by = requests[q].by
        /\ r.target = requests[q].target
    BY <2>1 DEF Request
  <2>4. requests' = [requests EXCEPT ![q] = r] /\ lock' = lock
    BY <1>3 DEF Recheck
  <2>5. Admin(r.by) \in granted
    BY <1>3, <2>3 DEF StillAdmin
  <2>6. r.op = "revoke" => r.target[1] # r.by
    BY <2>3 DEF IInv, NeverOneself, Recheck
  <2>7. r.answer # "CONFLICT"
    BY <2>3 DEF IInv, LastCheckNeverFires
  <2> HIDE DEF r
  <2> QED
    BY <1>1, <2>1, <2>2, <2>3, <2>4, <2>5, <2>6, <2>7, OnlyRequestMoves
    DEF Recheck, Inside
<1> QED
  BY <1>2, <1>3

(* The requester is an administrator and not the target of its revocation, *)
(* so the target is not the last one.                                      *)
LEMMA NeverTheLast ==
  ASSUME IInv, NEW q \in Requests, requests[q].at = "changing"
  PROVE  ~LastAdmin(q)
<1>1. Admin(requests[q].by) \in granted /\ requests[q].by \in User
  BY DEF IInv, AuthorIsAdmin, TypeOK, Request
<1>2. requests[q].op = "revoke" => requests[q].target[1] # requests[q].by
  BY DEF IInv, NeverOneself
<1> QED
  BY <1>1, <1>2 DEF LastAdmin

LEMMA ChangeStep == ASSUME IInv, NEW q \in Requests, Change(q) PROVE IInv'
<1>1. lock = q
  BY DEF IInv, LockHeld, Inside, Change
<1>2. CASE requests[q].target[1] \notin users
  BY <1>1, <1>2, Leaving DEF Change, Ends
<1>3. CASE requests[q].target[1] \in users
  <2> DEFINE r == [requests[q] EXCEPT !.at = "committing",
                     !.effect = Effect(requests[q].op, requests[q].target)]
  <2>1. requests[q] \in Request /\ users \subseteq User
    BY DEF IInv, TypeOK
  <2>2. Effect(requests[q].op, requests[q].target) \in BOOLEAN
    <3>1. CASE requests[q].op = "grant"
      BY <3>1 DEF Effect
    <3>2. CASE requests[q].op # "grant"
      BY <3>2 DEF Effect
    <3> QED
      BY <3>1, <3>2
  <2>3. r \in Request
    BY <2>1, <2>2 DEF Request
  <2>4. /\ r.at = "committing" /\ r.answer = requests[q].answer
        /\ r.op = requests[q].op /\ r.by = requests[q].by
        /\ r.target = requests[q].target
        /\ r.effect = Effect(requests[q].op, requests[q].target)
    BY <2>1 DEF Request
  <2>5. ~LastAdmin(q)
    BY NeverTheLast DEF Change
  <2>6. requests' = [requests EXCEPT ![q] = r] /\ lock' = lock
    BY <1>3, <2>5 DEF Change
  <2>7. Admin(r.by) \in granted
    BY <2>4 DEF IInv, AuthorIsAdmin, Change
  <2>8. r.op = "revoke" => r.target[1] # r.by
    BY <2>4 DEF IInv, NeverOneself, Change
  <2>9. r.answer # "CONFLICT"
    BY <2>4 DEF IInv, LastCheckNeverFires
  <2>10. r.target[1] \in users /\ lock \in Requests \cup {Nobody}
    BY <1>1, <1>3, <2>4
  <2>11. UNCHANGED <<users, granted, audit>>
    BY DEF Change
  <2>12. r.at \in Inside /\ r.at # "idle"
    BY <2>4 DEF Inside
  <2> HIDE DEF r
  <2> QED
    BY <1>1, <2>1, <2>3, <2>4, <2>6, <2>7, <2>8, <2>9, <2>10, <2>11, <2>12,
       OnlyRequestMoves
<1> QED
  BY <1>2, <1>3

(* The one step that changes the table. *)
LEMMA CommitStep ==
  ASSUME IInv, NEW q \in Requests, Commit(q), requests[q].effect
  PROVE  IInv'
<1> DEFINE g == requests[q].target
<1>1. /\ lock = q /\ g \in Grant /\ g[1] \in users /\ g[1] \in User
      /\ requests[q].op \in {"grant", "revoke"}
      /\ requests[q].by \in User
  BY DEF IInv, LockHeld, Inside, TypeOK, Request, EffectIsCurrent, Commit, Grant
<1>2. Admin(requests[q].by) \in granted /\ requests[q].by \in users
  BY DEF IInv, AuthorIsAdmin, GrantsAreOfUsers, Admin, Commit
<1>3. Effect(requests[q].op, g)
  BY DEF IInv, EffectIsCurrent, Commit
<1>4. /\ requests' = [requests EXCEPT ![q] = Blank("OK")]
      /\ lock' = Nobody /\ users' = users
  BY DEF Commit, Ends
<1>5. /\ Blank("OK") \in Request /\ Blank("OK").at = "idle"
      /\ Blank("OK").answer = "OK"
  BY BlankRequest
<1>6. /\ requests[q]' = Blank("OK")
      /\ \A p \in Requests \ {q} : requests[p]' = requests[p]
  BY <1>4 DEF IInv, TypeOK
<1>7. \A p \in Requests \ {q} : requests[p].at \notin Inside
  BY <1>1 DEF IInv, LockHeld
<1>8. \/ /\ requests[q].op = "grant" /\ g \notin granted
         /\ granted' = granted \cup {g}
         /\ audit' = [audit EXCEPT ![g].granted = @ + 1]
      \/ /\ requests[q].op = "revoke" /\ g \in granted
         /\ granted' = granted \ {g}
         /\ audit' = [audit EXCEPT ![g].revoked = @ + 1]
  BY <1>1, <1>3 DEF Commit, Effect
<1>9. Admin(requests[q].by) \in granted'
  <2>1. requests[q].op = "revoke" => g # Admin(requests[q].by)
    BY DEF IInv, NeverOneself, Commit, Admin
  <2> QED
    BY <1>2, <1>8, <2>1
<1> HIDE DEF g
<1>10. TypeOK'
  <2>1. audit[g] \in [granted : Nat, revoked : Nat]
    BY <1>1 DEF IInv, TypeOK
  <2>2. audit[g].granted + 1 \in Nat /\ audit[g].revoked + 1 \in Nat
    BY <2>1
  <2>3. audit' \in [Grant -> [granted : Nat, revoked : Nat]]
    BY <1>1, <1>8, <2>2 DEF IInv, TypeOK
  <2>4. granted' \subseteq Grant
    BY <1>1, <1>8 DEF IInv, TypeOK
  <2>5. requests' \in [Requests -> Request]
    BY <1>4, <1>5 DEF IInv, TypeOK
  <2> QED
    BY <1>4, <2>3, <2>4, <2>5 DEF IInv, TypeOK
<1>11. LockHeld'
  BY <1>4, <1>5, <1>6, <1>7, UserRolesConstantsOK DEF LockHeld, Inside
<1>12. AuthorIsAdmin' /\ EffectIsCurrent'
  BY <1>5, <1>6, <1>7 DEF AuthorIsAdmin, EffectIsCurrent, Inside
<1>13. NeverOneself'
  BY <1>5, <1>6 DEF IInv, NeverOneself
<1>14. GrantsAreOfUsers'
  BY <1>1, <1>4, <1>8 DEF IInv, GrantsAreOfUsers
<1>15. SomebodyAdministers'
  BY <1>2, <1>4, <1>9 DEF SomebodyAdministers
<1>16. LastCheckNeverFires'
  BY <1>5, <1>6 DEF IInv, LastCheckNeverFires
<1>17. AuditTellsRoles'
  <2> SUFFICES ASSUME NEW h \in Grant
               PROVE  audit'[h].granted - audit'[h].revoked =
                        (IF h \in granted' THEN 1 ELSE 0)
                          - (IF h \in {Admin(u) : u \in Founders} THEN 1 ELSE 0)
    BY DEF AuditTellsRoles
  <2> DEFINE base == IF h \in {Admin(u) : u \in Founders} THEN 1 ELSE 0
  <2>1. /\ audit[h].granted - audit[h].revoked =
             (IF h \in granted THEN 1 ELSE 0) - base
        /\ audit[h].granted \in Nat /\ audit[h].revoked \in Nat
        /\ base \in {0, 1}
    BY DEF IInv, AuditTellsRoles, TypeOK
  <2> HIDE DEF base
  <2>2. CASE h # g
    BY <1>8, <2>1, <2>2 DEF IInv, TypeOK, base
  <2>3. CASE h = g /\ g \notin granted
    <3>1. /\ audit'[h].granted = audit[h].granted + 1
          /\ audit'[h].revoked = audit[h].revoked /\ h \in granted'
      BY <1>1, <1>8, <2>3 DEF IInv, TypeOK
    <3> QED
      BY <2>1, <2>3, <3>1 DEF base
  <2>4. CASE h = g /\ g \in granted
    <3>1. /\ audit'[h].revoked = audit[h].revoked + 1
          /\ audit'[h].granted = audit[h].granted /\ h \notin granted'
      BY <1>1, <1>8, <2>4 DEF IInv, TypeOK
    <3> QED
      BY <2>1, <2>4, <3>1 DEF base
  <2> QED
    BY <2>2, <2>3, <2>4
<1> QED
  BY <1>10, <1>11, <1>12, <1>13, <1>14, <1>15, <1>16, <1>17 DEF IInv

LEMMA IInvStep == IInv /\ [Next]_vars => IInv'
<1> SUFFICES ASSUME IInv, [Next]_vars PROVE IInv'
  OBVIOUS
<1>1. ASSUME NEW u \in User, Login(u) PROVE IInv'
  BY <1>1, LoginStep
<1>2. ASSUME NEW q \in Requests, NEW u \in User, NEW v \in User,
             NEW role \in RoleParam, NEW op \in {"grant", "revoke"},
             Arrive(q, u, op, <<v, role>>)
      PROVE  IInv'
  <2>1. <<v, role>> \in Grant
    BY DEF Grant, RoleParam
  <2> QED
    BY <1>2, <2>1, ArriveStep
<1>3. ASSUME NEW q \in Requests, Lock(q) PROVE IInv'
  BY <1>3, LockStep
<1>4. ASSUME NEW q \in Requests, Recheck(q) PROVE IInv'
  BY <1>4, RecheckStep
<1>5. ASSUME NEW q \in Requests, Change(q) PROVE IInv'
  BY <1>5, ChangeStep
<1>6. ASSUME NEW q \in Requests, Commit(q) PROVE IInv'
  <2>1. CASE requests[q].effect
    BY <1>6, <2>1, CommitStep
  <2>2. CASE ~requests[q].effect
    <3>1. lock = q
      BY <1>6 DEF IInv, LockHeld, Inside, Commit
    <3> QED
      BY <1>6, <2>2, <3>1, Leaving DEF Commit, Ends
  <2> QED
    BY <2>1, <2>2
<1>7. ASSUME NEW q \in Requests, Dies(q) PROVE IInv'
  BY <1>7, Leaving DEF Dies
<1>8. CASE UNCHANGED vars
  BY <1>8 DEF IInv, TypeOK, LockHeld, AuthorIsAdmin, NeverOneself,
       EffectIsCurrent, Effect, GrantsAreOfUsers, SomebodyAdministers,
       LastCheckNeverFires, AuditTellsRoles, vars
<1> QED
  BY <1>1, <1>2, <1>3, <1>4, <1>5, <1>6, <1>7, <1>8 DEF Next

LEMMA IInvAlways == Spec => []IInv
<1> QED
  BY InitIInv, IInvStep, PTL DEF Spec

-----------------------------------------------------------------------------
(* Every variable keeps its type, whatever requests overlap                *)
(* (UserRolesService).                                                     *)
THEOREM RolesTypeCorrect == Spec => []TypeOK
<1>1. IInv => TypeOK
  BY DEF IInv
<1> QED
  BY <1>1, IInvAlways, PTL

(* However many administrators revoke one another at once, at least one of *)
(* them is left (UserRolesService.revoke).                                 *)
THEOREM AnAdministratorRemains == Spec => []SomebodyAdministers
<1>1. IInv => SomebodyAdministers
  BY DEF IInv
<1> QED
  BY <1>1, IInvAlways, PTL

(* The comment at user-roles.service.ts:147 is right: the last check in    *)
(* revoke is a second line that the recheck makes unreachable.             *)
THEOREM SecondLineUnreached == Spec => []LastCheckNeverFires
<1>1. IInv => LastCheckNeverFires
  BY DEF IInv
<1> QED
  BY <1>1, IInvAlways, PTL

(* The audit log accounts for every role anybody holds or lost (what grant *)
(* and revoke record in their transactions).                               *)
THEOREM AuditIsComplete == Spec => []AuditTellsRoles
<1>1. IInv => AuditTellsRoles
  BY DEF IInv
<1> QED
  BY <1>1, IInvAlways, PTL

(* Only a current administrator changes a role, and remains one            *)
(* (withRoleLock).                                                         *)
THEOREM OnlyAdministratorsChange == Spec => ChangedByAdmins
<1> DEFINE Changed(q) ==
      /\ requests[q].at = "committing" /\ requests'[q].at = "idle"
      /\ Admin(requests[q].by) \in granted \cap granted'
      /\ {requests[q].target} = (granted \ granted') \cup (granted' \ granted)
<1>1. IInv /\ [Next]_vars /\ granted' # granted => \E q \in Requests : Changed(q)
  <2> SUFFICES ASSUME IInv, [Next]_vars, granted' # granted
               PROVE  \E q \in Requests : Changed(q)
    OBVIOUS
  <2>1. PICK q \in Requests : Commit(q) /\ requests[q].effect
    BY DEF Next, vars, Login, Arrive, Lock, Recheck, Change, Commit, Dies
  <2>2. /\ requests[q].at = "committing"
        /\ requests[q].op \in {"grant", "revoke"}
        /\ Effect(requests[q].op, requests[q].target)
        /\ Admin(requests[q].by) \in granted
        /\ requests[q].op = "revoke" => requests[q].target # Admin(requests[q].by)
    BY <2>1 DEF IInv, TypeOK, Request, EffectIsCurrent, AuthorIsAdmin,
         NeverOneself, Admin, Commit
  <2>3. requests'[q].at = "idle"
    BY <2>1, BlankRequest DEF Commit, Ends, IInv, TypeOK
  <2>4. \/ /\ requests[q].op = "grant" /\ requests[q].target \notin granted
           /\ granted' = granted \cup {requests[q].target}
        \/ /\ requests[q].op = "revoke" /\ requests[q].target \in granted
           /\ granted' = granted \ {requests[q].target}
    BY <2>1, <2>2 DEF Commit, Effect
  <2>5. Changed(q)
    BY <2>2, <2>3, <2>4
  <2> QED
    BY <2>5
<1> QED
  BY <1>1, IInvAlways, PTL DEF Spec, ChangedByAdmins
=============================================================================
