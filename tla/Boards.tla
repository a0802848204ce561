------------------------------- MODULE Boards -------------------------------
(***************************************************************************)
(* Writing and editing posts of the community's boards: create_post,       *)
(* update_post, set_resolution and the status changes of                   *)
(* thai_platform/community/services.py, the forms of web.py and forms.py,  *)
(* the pictures of post_media.py, and the PATCH of api.py.                 *)
(*                                                                         *)
(* A post is one row of identity plus, on the boards that have a content   *)
(* table, one row of that table, plus the fields of three boards (market,  *)
(* jobs, places).  A service call is one transaction and one action.  What *)
(* is not one transaction is a member's editing: the page is rendered from *)
(* one version, and the form comes back after other people's changes.  A   *)
(* tab is a rendered edit page, or what an API caller has read.            *)
(*                                                                         *)
(* A title and a body are one text.  Wording, lengths, regions and the     *)
(* pixels of a picture are left out; a request with an invalid field is a  *)
(* request that is refused.                                                *)
(***************************************************************************)
EXTENDS Naturals, FiniteSets

CONSTANTS
  Members, Staff,       \* active accounts, and those with is_staff
  Tabs,                 \* rendered pages and API snapshots that can be sent back
  Categories,           \* the categories the instance uses
  Subdivisions,         \* the boards that have a BoardCategory
  Texts,
  MaxPostImages,        \* 5 in the code
  MaxVersion,           \* bound: saves of one post
  None,                 \* no row, an empty field
  Absent                \* a key a request leaves out

\* The boards with a content table, those with fields of their own, and the
\* categories with a resolution.
BOARD_CONTENT_MODELS == {"notice", "free", "market", "jobs", "living"}
BoardFields == {"market", "jobs", "foodtravel"}
RESOLUTION_CATEGORIES == {"questions", "living", "housing", "banking", "visa", "travel"}
LIFE_BOARD_CATEGORIES == {"living", "housing", "banking"}

canonical_life_category(c) == IF c \in LIFE_BOARD_CATEGORIES THEN "living" ELSE c
\* The content table of a category, or None.
Table(c) == IF canonical_life_category(c) \in BOARD_CONTENT_MODELS
            THEN canonical_life_category(c) ELSE None

VARIABLES
  post,   \* the Post row with its content rows, or None
  tab     \* what each tab holds, or None

vars == <<post, tab>>

\* display_title and display_body.
Display(p) == IF Table(p.category) = None THEN p.text ELSE p.rows[Table(p.category)]
\* board_data_version: a key made of the category, updated_at and the boards' fields.
board_data_version(p) == <<p.category, p.updated_at, p.fields>>

Init == post = None /\ tab = [t \in Tabs |-> None]

-----------------------------------------------------------------------------
(* The services. *)

require_owner(u, p) == IF p.category = "notice" THEN u \in Staff ELSE u = p.author

validate_board_category(category, bcat) == bcat \in {None, canonical_life_category(category)}

\* _sync_board_content, and the row of the board the post has left.
\* Faulty variant: the row of the former board stays.
RowsOf(p, category, text) ==
  [b \in BOARD_CONTENT_MODELS |-> IF b = Table(category) THEN text ELSE p.rows[b]]
_sync_board_content(p, category, text) ==
  [b \in BOARD_CONTENT_MODELS |->
     IF b = Table(category) THEN text
     ELSE IF b = Table(p.category) THEN None ELSE p.rows[b]]

\* The value a request gives, or the one that stands when it leaves the key out.
Given(value, else) == IF value = Absent THEN else ELSE value

CreateRefused(u, in) ==
  \/ in.text = Absent
  \/ ~validate_board_category(Given(in.category, "living"), Given(in.bcat, None))
  \/ in.category = "notice" /\ u \notin Staff
  \/ in.pinned # Absent /\ u \notin Staff
  \/ in.pinned = TRUE /\ in.category # "notice"

create_post(u, in) ==
  LET category == canonical_life_category(Given(in.category, "living"))
  IN  [author |-> u, status |-> "published", category |-> category, updated_at |-> 1,
       text |-> IF Table(category) = None THEN in.text ELSE None,
       rows |-> [b \in BOARD_CONTENT_MODELS |-> IF b = Table(category) THEN in.text ELSE None],
       fields |-> [b \in BoardFields |-> IF b = category THEN Given(in.fields, None) ELSE None],
       bcat |-> Given(in.bcat, None), pinned |-> Given(in.pinned, FALSE), resolved |-> FALSE,
       images |-> {}, inline |-> {}, next_key |-> 1]

\* update_post: the conditions under which it raises.
RemovalUnapproved(p, in) ==
  /\ canonical_life_category(Given(in.category, p.category)) # p.category
  /\ p.category \in BoardFields /\ p.fields[p.category] # None
  /\ ~in.confirm \/ in.version # board_data_version(p)

UpdateRefused(u, p, in) ==
  \/ ~require_owner(u, p)
  \/ Table(p.category) # None /\ p.rows[Table(p.category)] = None
  \/ p.status = "deleted"
  \/ in.category = "notice" /\ u \notin Staff
  \/ in.pinned # Absent /\ u \notin Staff
  \/ in.version # Absent /\ in.version # board_data_version(p)
  \/ ~validate_board_category(Given(in.category, p.category), Given(in.bcat, p.bcat))
  \/ RemovalUnapproved(p, in)
  \/ Given(in.pinned, p.pinned) /\ Given(in.category, p.category) # "notice"

\* The fields of the boards the post is not on are dropped from the request, and
\* those of the board it leaves are cleared.
FieldsAfter(p, category, value) ==
  [b \in BoardFields |->
     IF b = category THEN Given(value, p.fields[b])
     ELSE IF b = p.category THEN None ELSE p.fields[b]]

update_post(p, in) ==
  LET category == IF in.category = Absent THEN p.category
                  ELSE canonical_life_category(in.category)
      text == Given(in.text, Display(p))
  IN  [p EXCEPT
        !.category = category,
        !.updated_at = @ + 1,
        !.text = IF Table(category) = None THEN text ELSE None,
        !.rows = _sync_board_content(p, category, text),
        !.fields = FieldsAfter(p, category, in.fields),
        !.bcat = Given(in.bcat, @),
        !.pinned = Given(in.pinned, @),
        !.resolved = @ /\ category \in RESOLUTION_CATEGORIES]

-----------------------------------------------------------------------------
(* Pictures.  A row is a key and the file it was made from; the body of a post *)
(* names a file of the same request by a marker, its number among the uploads, *)
(* and a stored one by the row's key.                                          *)

Keys(images) == {i.key : i \in images}

\* The form's own count, with the pictures the post has when the form arrives.
FormRefused(p, in) ==
  \/ ~(in.remove \subseteq Keys(p.images))
  \/ Cardinality(p.images) - Cardinality(in.remove) + in.uploads > MaxPostImages

\* save_post_images counts again, inside the transaction.
SaveRefused(p, in) ==
  Cardinality({i \in p.images : i.key \notin in.remove}) + in.uploads > MaxPostImages

Uploaded(p, n) == {[key |-> p.next_key + i, file |-> <<p.updated_at, i>>] : i \in 0..(n - 1)}

save_post_images(p, in) ==
  [p EXCEPT !.images = {i \in @ : i.key \notin in.remove} \cup Uploaded(p, in.uploads),
            !.next_key = @ + in.uploads]

\* replace_inline_upload_markers: marker i becomes the address of upload i.
replace_inline_upload_markers(p, in) ==
  {[file |-> u.file, key |-> u.key] :
     u \in {v \in p.images : v.file[1] = p.updated_at /\ v.file[2] \in in.markers}}

\* finalize_inline_images: the text is rewritten, updated_at stays.
finalize_inline_images(p, in) == [p EXCEPT !.inline = @ \cup replace_inline_upload_markers(p, in)]

WithImages(p, in) == finalize_inline_images(save_post_images(p, in), in)

-----------------------------------------------------------------------------
(* Requests. *)

Fields == {None, "given"}
NoPictures == [remove |-> {}, uploads |-> 0, markers |-> {}]

\* What the form sends: every field, those of another board's fields left out,
\* is_pinned for staff only.
FormInputs(t) ==
  [category : Categories, text : Texts, fields : Fields, bcat : {None} \cup Subdivisions,
   pinned : IF tab[t].user \in Staff THEN BOOLEAN ELSE {Absent}, confirm : BOOLEAN,
   version : {tab[t].version},
   remove : SUBSET Keys(tab[t].seen.images), uploads : 0..1, markers : SUBSET {0}]

\* What an API caller sends: any of the keys, no pictures.  Without a version a
\* confirmation counts for nothing.
ApiInputs(u, versions) ==
  [category : Categories \cup {Absent}, text : Texts \cup {Absent}, fields : Fields \cup {Absent},
   bcat : {Absent, None} \cup Subdivisions, pinned : {Absent} \cup BOOLEAN,
   confirm : IF versions = {} THEN {FALSE} ELSE BOOLEAN,
   version : versions \cup {Absent},
   remove : {{}}, uploads : {0}, markers : {{}}]

Published == post # None /\ post.status = "published"

-----------------------------------------------------------------------------
(* The lists of posts: what a question finds.  A question names a category, a  *)
(* subdivision, a resolution and words, each of which may be None.             *)

\* search_posts looks in the row of the board, or in the post's own columns.
SearchRelation ==
  [notice |-> "notice", free |-> "free", market |-> "market", jobs |-> "jobs",
   living |-> "living", housing |-> "living", banking |-> "living"]
SearchText(p) ==
  IF p.category \in DOMAIN SearchRelation THEN p.rows[SearchRelation[p.category]] ELSE p.text

category_filter_values(c) == IF c \in LIFE_BOARD_CATEGORIES THEN LIFE_BOARD_CATEGORIES ELSE {c}
HasCategory(in) == in.category # None => post.category \in category_filter_values(in.category)
Matches(in) == in.q # None => SearchText(post) = in.q

\* post_list: a resolution is asked of question boards only, a subdivision of its own board.
post_list(in) ==
  /\ Published /\ HasCategory(in) /\ Matches(in)
  /\ (in.resolution # None /\ in.category \in RESOLUTION_CATEGORIES \cup {None})
        => post.category \in RESOLUTION_CATEGORIES /\ post.resolved = in.resolution
  /\ in.bcat # None
        => in.category # None /\ in.bcat = canonical_life_category(in.category) /\ post.bcat = in.bcat

\* PostViewSet.get_queryset asks each on its own.
get_queryset(in) ==
  /\ Published /\ HasCategory(in) /\ Matches(in)
  /\ in.resolution # None => post.category \in RESOLUTION_CATEGORIES /\ post.resolved = in.resolution
  /\ in.bcat # None => post.bcat = in.bcat

-----------------------------------------------------------------------------
(* Views. *)

\* post_create, and create of the API, which has no pictures.
Created(u, in) ==
  /\ ~CreateRefused(u, in)
  /\ post' = WithImages(create_post(u, in), in)

PostCreate(u) ==
  /\ post = None
  /\ \E in \in [category : Categories, text : Texts, fields : Fields,
                bcat : {None} \cup Subdivisions,
                pinned : IF u \in Staff THEN BOOLEAN ELSE {Absent},
                remove : {{}}, uploads : 0..1, markers : SUBSET {0}] :
       in.uploads <= MaxPostImages /\ Created(u, in)
  /\ UNCHANGED tab

ApiCreate(u) ==
  /\ post = None
  /\ \E in \in ApiInputs(u, {}) : Created(u, in)
  /\ UNCHANGED tab

\* GET of the edit page or of the API: what it shows, and the version it carries.
Open(t, u, kind) ==
  /\ Published /\ tab[t] = None
  /\ kind = "form" => require_owner(u, post)
  /\ tab' = [tab EXCEPT ![t] = [user |-> u, kind |-> kind, seen |-> post, sent |-> FALSE,
                                version |-> board_data_version(post)]]
  /\ UNCHANGED post

\* The view's own checks, before the transaction begins.
Send(t) ==
  /\ tab[t] # None /\ ~tab[t].sent
  /\ Published
  /\ tab[t].kind = "form" => require_owner(tab[t].user, post)
  /\ tab' = [tab EXCEPT ![t].sent = TRUE]
  /\ UNCHANGED post

\* The page that is rendered after a refusal: the text is what the member typed,
\* so a version that is no longer the stored one is kept.
\* Faulty variant: the page carries the stored version.
RenewedVersion(t) == board_data_version(post)
RenderedVersion(t) ==
  IF tab[t].version # board_data_version(post) THEN tab[t].version ELSE board_data_version(post)

\* post_edit: update_post, the pictures and the markers are one transaction.  The form counts the pictures
\* before it; a count that another tab has changed by then is of another version, which is refused.
PostEdit(t) ==
  /\ tab[t] # None /\ tab[t].sent /\ tab[t].kind = "form" /\ post.updated_at < MaxVersion
  /\ \E in \in FormInputs(t) :
       IF FormRefused(post, in) \/ UpdateRefused(tab[t].user, post, in) \/ SaveRefused(post, in)
       THEN /\ tab' = [tab EXCEPT ![t].version = RenderedVersion(t), ![t].sent = FALSE]
            /\ UNCHANGED post
       ELSE /\ post' = WithImages(update_post(post, in), in)
            /\ tab' = [tab EXCEPT ![t] = None]

\* partial_update, by a caller who has read the post and may give its version, and
\* by one who gives none.
PartialUpdate(t) ==
  /\ tab[t] # None /\ tab[t].sent /\ tab[t].kind = "api" /\ post.updated_at < MaxVersion
  /\ \E in \in ApiInputs(tab[t].user, {tab[t].version}) :
       IF UpdateRefused(tab[t].user, post, in)
       THEN tab' = [tab EXCEPT ![t].sent = FALSE] /\ UNCHANGED post
       ELSE post' = update_post(post, in) /\ tab' = [tab EXCEPT ![t] = None]

BlindUpdate(u) ==
  /\ Published /\ post.updated_at < MaxVersion
  /\ \E in \in ApiInputs(u, {}) : ~UpdateRefused(u, post, in) /\ post' = update_post(post, in)
  /\ UNCHANGED tab

set_resolution(u) ==
  /\ Published /\ u = post.author /\ post.category \in RESOLUTION_CATEGORIES
  /\ post.updated_at < MaxVersion
  /\ post' = [post EXCEPT !.resolved = ~@, !.updated_at = @ + 1]
  /\ UNCHANGED tab

\* hide, restore and delete, by an operator or, for delete, by the owner.
SetStatus(from, to) ==
  /\ post # None /\ post.status \in from /\ post.updated_at < MaxVersion
  /\ post' = [post EXCEPT !.status = to, !.updated_at = @ + 1]
  /\ UNCHANGED tab

Next ==
  \/ \E u \in Members : PostCreate(u) \/ ApiCreate(u) \/ BlindUpdate(u) \/ set_resolution(u)
  \/ \E t \in Tabs, u \in Members, kind \in {"form", "api"} : Open(t, u, kind)
  \/ \E t \in Tabs : Send(t) \/ PostEdit(t) \/ PartialUpdate(t)
  \/ SetStatus({"published"}, "hidden") \/ SetStatus({"hidden"}, "published")
  \/ SetStatus({"published", "hidden"}, "deleted")

Spec == Init /\ [][Next]_vars

-----------------------------------------------------------------------------
(* A post is one thing stored in several places: after any series of edits   *)
(* and moves between boards its text is in exactly one of them, and nothing  *)
(* of a board it has left is there: no field, no category, no resolution.    *)
(* Notices are the operators', only they are pinned, no post has more than   *)
(* MaxPostImages pictures, and a picture in the text is the file it was      *)
(* written for.                                                              *)
PostWhole ==
  post # None =>
    /\ Display(post) # None
    /\ post.text # None <=> Table(post.category) = None
    /\ \A b \in BOARD_CONTENT_MODELS : post.rows[b] # None => b = Table(post.category)
    /\ \A b \in BoardFields : post.fields[b] # None => b = post.category
    /\ validate_board_category(post.category, post.bcat)
    /\ post.resolved => post.category \in RESOLUTION_CATEGORIES
    /\ post.pinned => post.category = "notice"
    /\ post.category = "notice" => post.author \in Staff
    /\ Cardinality(post.images) <= MaxPostImages
    /\ \A r \in post.inline, i \in post.images : r.key = i.key => r.file = i.file

(* A published post is found where it belongs and as what it shows: under its *)
(* category, its subdivision and its resolution the page and the API list it  *)
(* for the words it displays and for no others, wherever edits have moved it. *)
FoundAsShown ==
  post # None =>
    \A x \in Texts :
      LET in == [category |-> post.category, bcat |-> post.bcat, q |-> x,
                 resolution |-> IF post.category \in RESOLUTION_CATEGORIES THEN post.resolved ELSE None]
          expected == Published /\ Display(post) = x
      IN  post_list(in) = expected /\ get_queryset(in) = expected

(* What a member has not seen is not lost: a form is only saved over the     *)
(* version it was rendered from, however often it was refused before, and    *)
(* the fields of a board are only removed by somebody who was shown them.    *)
Sent(t) == tab[t] # None /\ tab'[t] = None
NothingUnseenLost ==
  [][\A t \in Tabs : Sent(t) =>
       /\ tab[t].kind = "form" => tab[t].seen = post
       /\ \A b \in BoardFields : post.fields[b] # None /\ post'.category # b
            => tab[t].seen.fields = post.fields]_vars
=============================================================================
