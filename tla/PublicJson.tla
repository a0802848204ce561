------------------------------ MODULE PublicJson ------------------------------
(***************************************************************************)
(* The public list of stories (deploy/scripts/collect_public.py), as the   *)
(* scheduled job keeps it: every run starts from a new database, collects  *)
(* what the feeds answer just then, asks where some of the links of Google *)
(* News lead, and merges the result with the file of the run before.  Runs *)
(* do not overlap, and one that fails changes nothing.                     *)
(*                                                                         *)
(* A story is known by its link; whether two links are one story is judged *)
(* by title, publisher address and event (dedupe_rows of the dashboard,    *)
(* pipeline/semantic_event.py), a relation that is not transitive.         *)
(*                                                                         *)
(* One region is modelled, the other has a file of its own.  Left out: the *)
(* texts of a row, the recent file (a prefix of this one), the stamps.     *)
(***************************************************************************)
EXTENDS Naturals, FiniteSets, Sequences

CONSTANTS
  Links,          \* of the stories the feeds can carry, numbered
  At(_), Key(_),  \* hour of publication; title without the publisher's name
  Leads(_),       \* the publisher's address behind a link
  is_aggregator(_),   \* the link is one of Google News
  Event(_),       \* what the headline announces: actors, action, targets, amounts
  Priority,       \* links of the source whose alerts are never folded
  KEEP_HOURS, WINDOW_HOURS,   \* 24, and 6 for two reports of one event
  MAX_PER_REGION, LINK_RESOLVE_PER_RUN,    \* 1500 and 60
  LastHour,       \* bound of the clock
  Redirect,       \* an address that leads back to Google
  Nothing         \* no address, no event

VARIABLES
  now,
  file            \* the rows of the published file, newest first

vars == <<now, file>>

RowOf(link, ko, original) == [link |-> link, ko |-> ko, original_link |-> original]

-----------------------------------------------------------------------------
(* Which rows are one story. *)

\* The publisher's address: the link itself, or what the row carries beside it.
publisher_url(row) == IF is_aggregator(row.link) THEN row.original_link ELSE Leads(row.link)

_identity_equal(a, b) ==
  \/ publisher_url(a) # Nothing /\ publisher_url(a) = publisher_url(b)
  \/ Key(a.link) = Key(b.link)

Apart(m, n) == IF m < n THEN n - m ELSE m - n

\* An unknown actor or action, or two actions in one headline, is no event.
signature(link) == Event(link)
same_event(a, b) ==
  LET one == signature(a.link)
      two == signature(b.link)
  IN  /\ Apart(At(a.link), At(b.link)) <= WINDOW_HOURS
      /\ one # Nothing /\ two # Nothing
      /\ one.action = two.action /\ one.targets = two.targets
      /\ one.actors \cap two.actors # {}
      /\ one.amounts = {} \/ two.amounts = {} \/ one.amounts = two.amounts

SameStory(a, b) == a.link = b.link \/ _identity_equal(a, b) \/ same_event(a, b)

Folded(out, row) ==
  \E i \in 1..Len(out) : \/ out[i].link = row.link
                         \/ row.link \notin Priority /\ SameStory(row, out[i])
\* The rows are walked from the first on; the newest copy of a story is kept.
dedupe_rows(rows) ==
  LET kept[n \in 0..Len(rows)] ==
        IF n = 0 THEN <<>>
        ELSE LET out == kept[n - 1]
             IN  IF Folded(out, rows[n]) THEN out ELSE Append(out, rows[n])
  IN  kept[Len(rows)]

-----------------------------------------------------------------------------
(* A run. *)

Newer(a, b) == At(a.link) > At(b.link) \/ (At(a.link) = At(b.link) /\ a.link > b.link)
NewestFirst(rows) ==
  [n \in 1..Cardinality(rows) |-> CHOOSE row \in rows : Cardinality({r \in rows : Newer(r, row)}) = n - 1]
InWindow(link) == At(link) <= now /\ At(link) + KEEP_HOURS >= now

\* resolve_pending: the first links of Google News are asked for.
Pending(rows) == SelectSeq(rows, LAMBDA row : is_aggregator(row.link))
Asked(rows) ==
  {Pending(rows)[i].link : i \in {j \in 1..Len(Pending(rows)) : j <= LINK_RESOLVE_PER_RUN}}

\* What Google says, the page without a signature, the failed request and the answer
\* without an address being nothing.
Answers(asked) == {a \in [asked -> {Leads(l) : l \in asked} \cup {Redirect, Nothing}] :
                     \A l \in asked : a[l] \in {Leads(l), Redirect, Nothing}}
valid_original(url) == url \notin {Redirect, Nothing}

\* resolve_many, remember and load: the answers that are a publisher's address, kept in
\* the database, which ends with the run.
remember(answers) == {l \in DOMAIN answers : valid_original(answers[l])}

\* public_row: the answer of this run, or the address the row has been published with.
public_row(row, cache) ==
  [row EXCEPT !.original_link =
     IF row.link \in cache THEN Leads(row.link)
     ELSE IF is_aggregator(row.link) /\ valid_original(@) THEN @ ELSE Nothing]

Truncated(rows) == SubSeq(rows, 1, IF Len(rows) < MAX_PER_REGION THEN Len(rows) ELSE MAX_PER_REGION)

\* Faulty variant: the cap is put on the rows before the copies of a story are folded.
CutBeforeFold(previous, fresh) ==
  LET old == {row \in previous : \A f \in fresh : f.link # row.link}
  IN  dedupe_rows(Truncated(NewestFirst({row \in old \cup fresh : At(row.link) + KEEP_HOURS >= now})))

\* merge: of a row of the file and one of the run with the same link, the run's stays.
merge(previous, fresh) ==
  LET old == {row \in previous : \A f \in fresh : f.link # row.link}
  IN  Truncated(dedupe_rows(NewestFirst({row \in old \cup fresh : At(row.link) + KEEP_HOURS >= now})))

InFile(rows) == {rows[i] : i \in DOMAIN rows}
Published(rows, cache) == [i \in 1..Len(rows) |-> public_row(rows[i], cache)]

\* What the feeds give, and what of it is translated and resolved, is up to them.
Run ==
  \E got \in SUBSET {l \in Links : InWindow(l)} : \E ko \in SUBSET got :
    LET rows == dedupe_rows(NewestFirst({RowOf(l, l \in ko, Nothing) : l \in got}))
    IN  \E answers \in Answers(Asked(rows)) :
          LET cache == remember(answers)
          IN  file' = Published(merge(InFile(file), InFile(Published(rows, cache))), cache)
  /\ UNCHANGED now

Hour == now < LastHour /\ now' = now + 1 /\ UNCHANGED file

Init == now = 0 /\ file = <<>>
Next == Run \/ Hour
Spec == Init /\ [][Next]_vars

-----------------------------------------------------------------------------
(* Properties. *)

(* A missed feed leaves no hole (the docstring at the top of the script): a  *)
(* listed story that is still inside the window stays listed, itself or by   *)
(* another copy of it, and only the cap on the list ends that.               *)
NoHoles ==
  [][\A i \in 1..Len(file) :
       At(file[i].link) + KEEP_HOURS >= now /\ Len(file') < MAX_PER_REGION =>
         \E k \in 1..Len(file') : \/ SameStory(file[i], file'[k])
                                  \/ Leads(file[i].link) = Leads(file'[k].link)]_vars
=============================================================================
