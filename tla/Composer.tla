------------------------------- MODULE Composer -------------------------------
(***************************************************************************)
(* Writing a post with pictures in its text (static/community-editor.js)   *)
(* and what becomes of them when it is saved (community/forms.py, web.py,  *)
(* post_media.py).  A picture that is only chosen has no address yet: the  *)
(* editor puts a marker with the number of its file into the text and shows*)
(* the picture from memory; the save turns markers into addresses of the   *)
(* stored pictures.  A form that is refused comes back with its text and   *)
(* without its files.                                                      *)
(*                                                                         *)
(* A text is what stands at each of its Places: nothing, a marker, or the  *)
(* address of a stored picture.  A picker closed without a choice changes  *)
(* nothing, as the HTML standard has it.  Left out: addresses of pictures  *)
(* elsewhere (they share the limit of five), the rest of the text and its  *)
(* marks, and the notices of the editor.                                   *)
(***************************************************************************)
EXTENDS Naturals, Sequences, FiniteSets

CONSTANTS
  Places, Pictures,
  Unreadable,   \* of the pictures: pass the browser's checks, not the server's
  MAX_IMAGES,   \* 5, for the browser and the server
  MaxStored,    \* bound: pictures ever stored
  None

Markers == 0..(MAX_IMAGES - 1)
Stored == 1..MaxStored
Source == {<<"text", 0>>} \cup ({"marker"} \X Markers) \cup ({"address"} \X Stored)

VARIABLES
  body,         \* of the form
  imageFiles,   \* what its file input holds, in order
  previews,     \* of each marker, the picture the editor shows for it, or None
  removed,      \* stored pictures ticked for removal
  images,       \* pictures ever stored: of each the picture, or None when deleted
  savedBody,    \* of the post
  promised      \* at the last save, the picture shown at each place, or None

form == <<body, imageFiles, previews, removed>>
post == <<images, savedBody, promised>>
vars == <<form, post>>

NoText == [p \in Places |-> <<"text", 0>>]
NoPreviews == [m \in Markers |-> None]
Present == {i \in DOMAIN images : images[i] # None}

\* A page that is loaded knows the files its input holds, and no preview of them.
Loaded(text, files) ==
  /\ body' = text /\ imageFiles' = files /\ previews' = NoPreviews /\ removed' = {}

Init ==
  /\ body = NoText /\ imageFiles = <<>> /\ previews = NoPreviews /\ removed = {}
  /\ images = <<>> /\ savedBody = NoText
  /\ promised = [p \in Places |-> None]

-----------------------------------------------------------------------------
(* The editor. *)

usedImageCount == Cardinality(Present \ removed) + Len(imageFiles)
validateImage == usedImageCount < MAX_IMAGES

\* Faulty variant: markers count the pictures put into the text, not the files.
MarkersSoFar == Cardinality({m \in Markers : previews[m] # None})

\* The marker of the file that is added next.
NextMarker == Len(imageFiles)

\* addInlineImage: dropped, pasted or chosen for a place in the text.
addInlineImage(pic, p) ==
  /\ validateImage
  /\ imageFiles' = Append(imageFiles, pic)
  /\ previews' = [previews EXCEPT ![NextMarker] = pic]
  /\ body' = [body EXCEPT ![p] = <<"marker", NextMarker>>]
  /\ UNCHANGED <<removed, post>>

\* setFileInputFromSelection: what the picker returned is added to what was there, as far
\* as the limit allows; nothing goes into the text.
setFileInputFromSelection(pics) ==
  LET room == MAX_IMAGES - usedImageCount
      taken == IF room >= Len(pics) THEN pics ELSE SubSeq(pics, 1, room)
  IN  /\ room > 0
      /\ imageFiles' = imageFiles \o taken
      /\ UNCHANGED <<body, previews, removed, post>>

\* The text is edited by hand: a place is cleared, or given what stands at another place.
Edit(p, source) ==
  /\ source \in {<<"text", 0>>} \cup {body[q] : q \in Places}
  /\ body' = [body EXCEPT ![p] = source]
  /\ UNCHANGED <<imageFiles, previews, removed, post>>

TickRemoval(i) ==
  /\ i \in Present
  /\ removed' = IF i \in removed THEN removed \ {i} ELSE removed \cup {i}
  /\ UNCHANGED <<body, imageFiles, previews, post>>

\* renderInline, for a picture: the file from memory, or the address, or the bare text.
Previewed(p) ==
  CASE body[p][1] = "marker" -> previews[body[p][2]]
    [] body[p][1] = "address" /\ body[p][2] \in Present -> images[body[p][2]]
    [] OTHER -> None

\* The page is loaded again, or come back to: the browser restores the text, and the files
\* of the input or not.
Restored == \E files \in {imageFiles, <<>>} : Loaded(body, files) /\ UNCHANGED post

-----------------------------------------------------------------------------
(* The server. *)

\* The form: every file is read and cleaned, and the limit counts what stays.
Clean ==
  /\ \A i \in 1..Len(imageFiles) : imageFiles[i] \notin Unreadable
  /\ Cardinality(Present \ removed) + Len(imageFiles) <= MAX_IMAGES

\* save_post_images: the ticked are deleted, the files stored in order.
save_post_images ==
  [i \in DOMAIN images |-> IF i \in removed THEN None ELSE images[i]] \o imageFiles

\* replace_inline_upload_markers: a marker becomes the address of the file of its number;
\* one without a file stays text.
replace_inline_upload_markers(source) ==
  IF source[1] = "marker" /\ source[2] < Len(imageFiles)
  THEN <<"address", Len(images) + source[2] + 1>> ELSE source

\* A save; the post's editor is opened again later.
Save ==
  /\ Clean
  /\ Len(images) + Len(imageFiles) <= MaxStored
  /\ images' = save_post_images
  /\ savedBody' = [p \in Places |-> replace_inline_upload_markers(body[p])]
  /\ promised' = [p \in Places |->
       IF body[p][1] = "address" /\ body[p][2] \in removed THEN None ELSE Previewed(p)]
  /\ Loaded(savedBody', <<>>)

\* Refused for a file, the limit, the text of another field, a version that is old, or a
\* body too long with the addresses in it: the text comes back, files do not.
Refuse == Loaded(body, <<>>) /\ UNCHANGED post

\* community_body, for a picture.
Rendered(p) ==
  IF savedBody[p][1] = "address" THEN images[savedBody[p][2]] ELSE None

Next ==
  \/ \E pic \in Pictures, p \in Places : addInlineImage(pic, p)
  \/ \E pics \in {<<a>> : a \in Pictures} \cup (Pictures \X Pictures) : setFileInputFromSelection(pics)
  \/ \E p \in Places, source \in Source : Edit(p, source)
  \/ \E i \in Stored : TickRemoval(i)
  \/ Restored \/ Save \/ Refuse
Spec == Init /\ [][Next]_vars

-----------------------------------------------------------------------------
(* Properties. *)

(* What the writer saw in the text is what readers see: a picture previewed  *)
(* at a place is the picture of the saved post at that place, whatever files *)
(* were chosen besides, refused, restored or removed before.                 *)
PreviewIsSaved == \A p \in Places : promised[p] # None => Rendered(p) = promised[p]
=============================================================================
