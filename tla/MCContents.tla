----------------------------- MODULE MCContents -----------------------------
(* A finite instance of Contents for TLC. *)
EXTENDS Contents

(* One image uploaded twice, and a video. *)
MCFileOf == [a \in Assets |-> IF a = "copy" THEN "image" ELSE a]

(* BOUND: an edit patches one part of a poster, or the whole of another    *)
(* kind's content, or the period, or the groups.                           *)
Patches(field, values) ==
  {[EmptyRequest EXCEPT ![field] = {v}] : v \in values}

MCPosters ==
  {[EmptyRequest EXCEPT !.category = {c}, !.asset = {a}] :
     c \in Categories, a \in Assets \ {"copy"}}

(* A banner with all its words, or with one headline, or without one word. *)
(* The copy comes with all of them.                                        *)
MCBannerInputs ==
  {b \in BannerInput :
     /\ Cardinality({f \in {"occasion", "headline", "message"} :
                       b[f] # (IF f = "occasion" THEN "BIRTHDAY" ELSE "x")}) <= 1
     /\ "y" \notin {b.recipient, b.message}
     /\ b.mode = "IMAGE" => b.occasion # None /\ b.message # None
     /\ b.photo # None /\ b.asset # None => b.photo = b.asset
     /\ "copy" \in {b.photo, b.asset} =>
          /\ b.recipient = "x" /\ b.headline = "x" /\ b.message = "x"
          /\ None \in {b.photo, b.asset}}

MCBanners == Patches("banner", MCBannerInputs)
MCStories == Patches("story", Texts)

MCPeriods ==
  {[EmptyRequest EXCEPT !.startAt = s, !.endAt = e] :
     s \in Optional(Instants), e \in Optional(Instants)}

Timed(forms, start, end) ==
  {[f EXCEPT !.startAt = {start}, !.endAt = {end}, !.groups = {Groups}] :
     f \in forms}

MCForms ==
  UNION {Patches("category", Categories), Patches("asset", Assets),
         Patches("link", {"NOTICE", "elsewhere", None}),
         Patches("caption", {"x", None}),
         MCPosters, MCBanners, MCStories, MCPeriods,
         Patches("groups", SUBSET Groups),
         Timed(MCPosters, 0, 1), Timed(MCBanners, 0, 2)}

(* BOUND: one category or group is hidden at a time, a category beside a   *)
(* poster only.                                                            *)
MCHidden ==
  /\ Cardinality(hidden) <= 1
  /\ hidden \cap Categories # {} =>
       \A r \in row \cup draft : r.kind = "POSTER"

(* BOUND: the copy is uploaded before the last edit of a submission that   *)
(* shows the image, with nobody reading it, and stays.  It only takes the  *)
(* place of the image, all else being the same.                            *)
MCCopy ==
  /\ media'["copy"] # media["copy"] =>
       /\ media'["copy"] = "READY"
       /\ draft = {} /\ reader = Unread
       /\ \E r \in row : r.columns.asset = "image" /\ r.version = MaxVersion - 1
  /\ \A next \in draft' \ draft : next.columns.asset = "copy" =>
       \E r \in row : /\ r.columns.asset = "image"
                      /\ [r.columns EXCEPT !.asset = "copy"] = next.columns

(* A reader of a row that has changed since can decide nothing any more    *)
(* and, unless it is a TV with a story on air, shows nothing either: what  *)
(* it read is no part of a state.  Of since, only its order with what was  *)
(* read is, and a story refers to nothing that comes and goes.             *)
MCReading ==
  \E r \in row : /\ reader # Unread
                 /\ \/ reader.row \in {0, r.version}
                    \/ r.kind = "STORY" /\ reader.onAir

MCView ==
  <<row, draft,
    IF MCReading THEN <<reader, since <= reader.row, since <= reader.detail>>
                 ELSE <<>>,
    IF \E r \in row : r.kind = "STORY" THEN <<>> ELSE <<media, hidden>> >>

=============================================================================
