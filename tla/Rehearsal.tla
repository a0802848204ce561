------------------------------- MODULE Rehearsal ------------------------------
(***************************************************************************)
(* What deploy/tg_push.py shows without posting: --replay walks a past     *)
(* window through the pacing rules, a simulated minute at a time, and says *)
(* which messages the channel would have had; --dry-run prints a rendered  *)
(* message with what is wrong with its shape; --shape-check reads a saved  *)
(* one.  The rendering and the shape check are those of a real post.       *)
(*                                                                         *)
(* The replay keeps its own state: it walks its stories oldest first,      *)
(* counts the hour in fixed hours from the start of the window, and comes  *)
(* back to a story that pacing held at every later minute.                 *)
(***************************************************************************)
EXTENDS Integers, Sequences, FiniteSets, SequencesExt

CONSTANTS
  Stories, Traits,   \* [Stories -> SUBSET of the trait names below]: what the patterns match
  Title,             \* [Stories -> SUBSET words]
  Boilerplate,       \* words tokens() leaves out: short ones, numbers, STOPWORDS
  Starts,            \* pairs <<w, v>> of words of three letters or more, v begins with w
  SimilarKey,        \* pairs of stories whose normalized titles are similar
  MAX_PER_HOUR, Hour, COOLDOWN, RECAP_COOLDOWN, EVENT_WINDOW, MAX_AGE,
  Length,            \* bound: minutes of the window
  Bodies, LINK_CHARS, \* bodies as sequences of lines; the longest message, in lines
  None

VARIABLES
  command,       \* what main() was asked for
  published,     \* [Stories -> Nat]: minutes into the window
  now, todo,     \* the simulated minute, and the stories its loop has still to visit
  taken, keys, events, last, last_recap, hour_anchor, hour_count,
  out,           \* the listed messages: <<story, minute>>
  shown          \* what --dry-run or --shape-check printed

vars == <<command, published, now, todo, taken, keys, events, last, last_recap, hour_anchor,
          hour_count, out, shown>>
walk == <<now, todo, taken, keys, events, last, last_recap, hour_anchor, hour_count, out>>

Has(s, trait) == trait \in Traits[s]

-----------------------------------------------------------------------------
(* Titles. *)

tokens(s) == Title[s] \ Boilerplate

SameWord(w, v) == w = v \/ <<w, v>> \in Starts \/ <<v, w>> \in Starts

(* Each word of the left title that has a partner counts once. *)
shared_tokens(one, other) == Cardinality({w \in one : \E v \in other : SameWord(w, v)})

same_event(one, other) ==
  LET shared == shared_tokens(one, other)
      union == Cardinality(one) + Cardinality(other) - shared IN
  /\ one # {} /\ other # {}
  /\ shared >= 2
  /\ shared >= 3 \/ 2 * shared >= union

(* Routine news of a small coin, unless it is breaking, picked, or about more than the coin. *)
is_single_alt_notice(s) ==
  /\ \A trait \in {"pick", "breaking", "broad", "major"} : ~Has(s, trait)
  /\ Has(s, "alt") \/ {"alt_category", "coin"} \subseteq Traits[s]

worth_posting(s) ==
  /\ \A trait \in {"noise", "culture", "no_link"} : ~Has(s, trait)
  /\ now - published[s] <= MAX_AGE
  /\ ~is_single_alt_notice(s)

-----------------------------------------------------------------------------
(* --replay. *)

(* A story of this minute that has not been decided on. *)
Waiting(minute, decided) == {s \in Stories : s \notin decided /\ published[s] <= minute}

RecapHeld(s) ==
  /\ Has(s, "recap") /\ ~Has(s, "pick")
  /\ last_recap # None /\ now - last_recap < RECAP_COOLDOWN

Held(s) ==
  \/ RecapHeld(s)
  \/ hour_count >= MAX_PER_HOUR
  \/ ~Has(s, "pick") /\ ~Has(s, "breaking") /\ last # None /\ now - last < COOLDOWN

Retold(s) ==
  \E e \in events : now - e.at <= EVENT_WINDOW /\ same_event(tokens(s), e.tokens)

Verdict(s) ==
  IF ~worth_posting(s) THEN "unworthy"
  ELSE IF \E t \in keys : <<s, t>> \in SimilarKey THEN "similar"
  ELSE IF Retold(s) THEN "retold"
  ELSE IF Held(s) THEN "held"
  ELSE "listed"

(* Faulty variant: the listing does not start the ordinary stories' cooldown. *)
ListForgetsLast(s) ==
  /\ last_recap' = IF Has(s, "recap") THEN now ELSE last_recap
  /\ hour_count' = hour_count + 1
  /\ out' = Append(out, <<s, now>>)
  /\ UNCHANGED last

List(s) ==
  /\ last' = now
  /\ last_recap' = IF Has(s, "recap") THEN now ELSE last_recap
  /\ hour_count' = hour_count + 1
  /\ out' = Append(out, <<s, now>>)

(* The body of the inner loop; a held story is met again at the next minute. *)
Visit(s) ==
  /\ command = "replay" /\ s \in todo
  /\ \A t \in todo : published[s] <= published[t]
  /\ todo' = todo \ {s}
  /\ LET verdict == Verdict(s) IN
     /\ taken' = IF verdict = "held" THEN taken ELSE taken \cup {s}
     /\ keys' = IF verdict \in {"similar", "listed"} THEN keys \cup {s} ELSE keys
     /\ events' = IF verdict \in {"unworthy", "held"} THEN events
                  ELSE events \cup {[at |-> now, tokens |-> tokens(s)]}
     /\ IF verdict = "listed" THEN List(s)
        ELSE UNCHANGED <<last, last_recap, hour_count, out>>
  /\ UNCHANGED <<command, published, now, hour_anchor, shown>>

NextMinute ==
  /\ command = "replay" /\ todo = {} /\ now < Length
  /\ now' = now + 1
  /\ todo' = Waiting(now + 1, taken)
  /\ IF now + 1 - hour_anchor >= Hour
     THEN hour_anchor' = now + 1 /\ hour_count' = 0
     ELSE UNCHANGED <<hour_anchor, hour_count>>
  /\ UNCHANGED <<command, published, taken, keys, events, last, last_recap, out, shown>>

-----------------------------------------------------------------------------
(***************************************************************************)
(* A message is a sequence of lines of these kinds.  A body may hold any   *)
(* line the channel's shape uses; escaping leaves a link of it as text.    *)
(***************************************************************************)
Items == [title: {"empty", "words", "markdown"}, title_ko: {None, "empty", "words"},
          summary: Bodies, summary_ko: {None} \cup Bodies,
          tags: {0, 2}, stamp: BOOLEAN, link: {"publisher", "google"}, original: BOOLEAN]

Or(first, second, empty) == IF first \in {None, empty} THEN second ELSE first

shared_translation(item) ==
  [title |-> Or(item.title_ko, item.title, "empty"), body |-> Or(item.summary_ko, item.summary, <<>>)]

(* A Google link is shown as the publisher's when its cache or Google itself gives that. *)
attach_original_link(item) ==
  IF item.link = "publisher" \/ item.original THEN "publisher" ELSE "google"

Escape(body) ==
  [i \in DOMAIN body |-> IF body[i] \in {"source", "footer"} THEN "text" ELSE body[i]]

TitleLine(title) ==
  CASE title = "empty" -> "untitled" [] title = "words" -> "titled" [] OTHER -> title

SourceLine(item) ==
  IF ~item.stamp THEN "source_undated"
  ELSE IF attach_original_link(item) = "google" THEN "source_unverified" ELSE "source"

render(item) ==
  LET words == shared_translation(item)
      lines == <<TitleLine(words.title)>>
           \o (IF words.body = <<>> THEN <<>> ELSE <<"blank">> \o Escape(words.body))
           \o (IF item.tags = 0 THEN <<>> ELSE <<"blank", "related">>)
           \o <<SourceLine(item), "footer">> IN
  SubSeq(lines, 1, IF Len(lines) < LINK_CHARS THEN Len(lines) ELSE LINK_CHARS)

Sources == {"source", "source_unverified"}
Banned == {"markdown", "raw_source"}

At(text, kinds) == {i \in DOMAIN text : text[i] \in kinds}

validate_post(text) ==
  IF text = <<>> THEN {"empty_post"}
  ELSE {p \in {"length", "title", "note", "related", "source", "footer", "order", "banned"} :
    CASE p = "length" -> Len(text) > LINK_CHARS
      [] p = "title" -> Head(text) # "titled"
      [] p = "note" -> At(text, {"note"}) # {}
      [] p = "related" -> Cardinality(At(text, {"related"})) # 1
      [] p = "source" -> Cardinality(At(text, Sources)) # 1
      [] p = "footer" -> Last(text) # "footer"
      [] p = "order" ->
           \E i \in At(text, {"related"}), j \in At(text, Sources) :
             /\ \A k \in At(text, {"related"}) : i <= k
             /\ \A k \in At(text, Sources) : j <= k
             /\ i >= j
      [] p = "banned" -> At(text, Banned) # {}}

\* The walk of a dry run over its candidates, and what it keeps meanwhile of stories, keys and the pacing, is
\* reduced to what it prints of one story.
DryRun(item) ==
  /\ command = "dry_run" /\ shown = None
  /\ shown' = [item |-> item, text |-> render(item), problems |-> validate_post(render(item))]
  /\ UNCHANGED <<command, published, walk>>

(* main(): --shape-check goes before --replay, which goes before a tick. *)
Command(asked) ==
  CASE "shape_check" \in asked -> "shape_check"
    [] "replay" \in asked -> "replay"
    [] OTHER -> "dry_run"

ShapeCheck(text) ==
  /\ command = "shape_check" /\ shown = None
  /\ shown' = [item |-> None, text |-> text, problems |-> validate_post(text)]
  /\ UNCHANGED <<command, published, walk>>

Init ==
  /\ command \in {Command(asked) : asked \in SUBSET {"shape_check", "replay", "dry_run"} \ {{}}}
  /\ published \in [Stories -> 0..Length]
  /\ command = "replay" \/ \A s \in Stories : published[s] = 0
  /\ now = 0 /\ todo = Waiting(0, {})
  /\ taken = {} /\ keys = {} /\ events = {}
  /\ last = None /\ last_recap = None
  /\ hour_anchor = 0 /\ hour_count = 0
  /\ out = <<>> /\ shown = None

Next ==
  \/ \E s \in Stories : Visit(s)
  \/ NextMinute
  \/ command = "dry_run" /\ shown = None /\ \E item \in Items : DryRun(item)
  \/ \E body \in Bodies, order \in {<<"related", "source">>, <<"source", "related">>} :
       ShapeCheck(<<"titled">> \o body \o order \o <<"footer">>)

Spec == Init /\ [][Next]_vars

-----------------------------------------------------------------------------
(***************************************************************************)
(* The pacing the replay is read for: an ordinary story keeps its distance *)
(* from the message before it, a recap from the recap before it, no hour   *)
(* at all has more than two hours' messages, and no listed story is one    *)
(* that was listed within the event window in other words.  (The tick's    *)
(* own cap is over a sliding hour; the replay's hours are fixed.)          *)
(***************************************************************************)
Paced ==
  /\ \A i \in 2..Len(out) :
       \/ Has(out[i][1], "pick") \/ Has(out[i][1], "breaking")
       \/ out[i][2] - out[i - 1][2] >= COOLDOWN
  /\ \A i, j \in 1..Len(out) : i < j =>
       /\ Has(out[i][1], "recap") /\ Has(out[j][1], "recap") /\ ~Has(out[j][1], "pick")
            => out[j][2] - out[i][2] >= RECAP_COOLDOWN
       /\ out[j][2] - out[i][2] <= EVENT_WINDOW
            => ~same_event(tokens(out[j][1]), tokens(out[i][1]))
       /\ out[i][1] # out[j][1] /\ <<out[j][1], out[i][1]>> \notin SimilarKey
  /\ \A m \in 0..Length :
       Cardinality({i \in 1..Len(out) : out[i][2] > m - Hour /\ out[i][2] <= m}) <= 2 * MAX_PER_HOUR

(***************************************************************************)
(* A rendered message with nothing wrong is title, body, source and        *)
(* footer, whole and in that order, whatever its body holds: its one       *)
(* source line is the renderer's, and its one line of tags is too, unless  *)
(* the story has no category and its body brings such a line.  A complete  *)
(* story that fits and imitates no line of the shape is not refused.       *)
(***************************************************************************)
Whole(item) ==
  LET words == shared_translation(item) IN
  /\ words.title = "words" /\ item.tags > 0 /\ item.stamp
  /\ \A i \in DOMAIN words.body : words.body[i] \in {"text", "blank"}
  /\ Len(words.body) + 6 <= LINK_CHARS

Shapely ==
  shown # None /\ shown.item # None =>
    LET text == shown.text
        n == Len(text) IN
    /\ shown.problems = {} =>
         /\ text[1] = "titled" /\ text[n] = "footer"
         /\ text[n - 1] = SourceLine(shown.item)
         /\ \E r \in 2..(n - 2) :
              /\ text[r] = "related" /\ (shown.item.tags > 0 => r = n - 2)
              /\ \A i \in 2..(n - 2) : i = r \/ text[i] \in {"text", "blank"}
    /\ Whole(shown.item) => shown.problems = {}
=============================================================================
