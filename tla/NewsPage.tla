------------------------------ MODULE NewsPage ------------------------------
(***************************************************************************)
(* What a reader of the dashboard selects, and the list that follows it    *)
(* (the script of pages/build/page_build.py, on the pages that ask the     *)
(* server for rows).  The selection is held in V; every change writes it   *)
(* into the address of the page, which can be shared or loaded again, and  *)
(* asks for the list.  Answers come in any order or never, and whichever   *)
(* comes last is shown; a poll every thirty seconds asks again.            *)
(*                                                                         *)
(* Conditions are ANDed by the server, so their order does not matter and  *)
(* they are sets.  There are fewer categories than an address takes (24),  *)
(* and texts are shorter than it cuts them.  The language, which the       *)
(* server is not asked for, the counts beside the conditions, the digest,  *)
(* the trends and the calendar's contents are left out.                    *)
(***************************************************************************)
EXTENDS Naturals, FiniteSets

CONSTANTS
  Categories, Sources, Words,
  Hours,                    \* the periods offered
  TermLimit,                \* keywords at once: 10
  Modes,                    \* "all" and what only an address selects
  MaxAsked,                 \* bound: requests under way
  None

VARIABLES
  CFG,        \* of this page: is it a Thai one, is it the operator's
  V,          \* the selection
  address,    \* of the page
  hidden,     \* the page is not seen
  asked,      \* requests under way for the present selection, and for earlier ones
  shown       \* the rows shown are of the present selection

vars == <<CFG, V, address, hidden, asked, shown>>

NoTag == [k |-> "none", v |-> None]
Tags == {NoTag} \cup [k : {"cat"}, v : Categories] \cup [k : {"src"}, v : Sources]
Selection ==
  [tab : {"global", "thai", "cal"}, lastNews : {"global", "thai"}, hours : Hours,
   cats : SUBSET Categories, terms : {s \in SUBSET Words : Cardinality(s) <= TermLimit},
   q : Words \cup {None}, tag : Tags, pickOnly : BOOLEAN, mode : Modes]
Address ==
  [tab : {"global", "thai", "cal", None}, hours : Hours, cats : SUBSET Categories,
   terms : {s \in SUBSET Words : Cardinality(s) <= TermLimit}, q : Words \cup {None},
   source : Sources \cup {None}, picked : BOOLEAN, mode : Modes]

Chosen(v) == v.cats \cup {c \in Categories : v.tag = [k |-> "cat", v |-> c]}

\* buildQuery: what the server is asked, apart from the length of the list.
buildQuery(v) ==
  [region |-> IF v.tab = "thai" THEN "thai" ELSE "global",
   hours |-> v.hours, mode |-> v.mode, category |-> Chosen(v),
   q |-> v.terms \cup ({v.q} \ {None}), picked |-> v.pickOnly,
   source |-> {s \in Sources : v.tag = [k |-> "src", v |-> s]}]

-----------------------------------------------------------------------------
(* The address. *)

Home(cfg) == IF cfg.wantThai THEN "thai" ELSE "global"

\* The tab is in the address where the page does not imply it.
KeepTab(cfg, tab) ==
  CASE tab = "cal" -> "cal" [] tab = "thai" /\ ~cfg.wantThai -> "thai" [] OTHER -> None

\* writeUrlState: a category chosen on a card is written like one of the row.
Written(cfg, v) ==
  [tab |-> KeepTab(cfg, v.tab), hours |-> v.hours, cats |-> Chosen(v), terms |-> v.terms,
   q |-> v.q, source |-> IF v.tag.k = "src" THEN v.tag.v ELSE None,
   picked |-> v.pickOnly, mode |-> v.mode]

\* The Thai list is on the Thai pages and the operator's only.
InitialTab(cfg, a) ==
  CASE a.tab = "cal" -> "cal"
    [] a.tab = "thai" /\ (cfg.wantThai \/ cfg.admin) -> "thai"
    [] OTHER -> Home(cfg)

\* restoreUrlState
Restored(cfg, a) ==
  [tab |-> InitialTab(cfg, a),
   lastNews |-> IF InitialTab(cfg, a) = "cal" THEN Home(cfg) ELSE InitialTab(cfg, a),
   hours |-> a.hours, cats |-> a.cats, terms |-> a.terms, q |-> a.q,
   tag |-> IF a.source = None THEN NoTag ELSE [k |-> "src", v |-> a.source],
   pickOnly |-> a.picked, mode |-> a.mode]

\* A page is loaded from any address a reader may have; only a tab is tidied in it.
Loaded(cfg, a) ==
  /\ V = Restored(cfg, a)
  /\ address = [a EXCEPT !.tab = KeepTab(cfg, InitialTab(cfg, a))]

\* The operator's page is a global one with the Thai list as a tab.
Init ==
  /\ CFG \in {c \in [wantThai : BOOLEAN, admin : BOOLEAN] : ~(c.wantThai /\ c.admin)}
  /\ \E a \in Address : Loaded(CFG, a)
  /\ hidden = FALSE
  /\ asked = [present |-> 1, earlier |-> 0] /\ shown = FALSE

-----------------------------------------------------------------------------
(* What the reader does. *)

\* The selection becomes v, and n requests go out for it: what was asked before is of an earlier one.
Change(v, n) ==
  /\ asked.present + asked.earlier + n <= MaxAsked
  /\ V' = v /\ address' = Written(CFG, v)
  /\ IF buildQuery(v) = buildQuery(V)
     THEN asked' = [asked EXCEPT !.present = @ + n] /\ UNCHANGED shown
     ELSE /\ asked' = [present |-> n, earlier |-> asked.present + asked.earlier]
          /\ shown' = FALSE
  /\ UNCHANGED <<CFG, hidden>>

\* With fetchFeed.
Select(v) == Change(v, 1)

Cleared == [V EXCEPT !.cats = {}, !.tag = NoTag, !.pickOnly = FALSE, !.terms = {}, !.q = None]

\* setTab: the calendar's tab, pressed again, goes back to the list.  The calendar is loaded instead of
\* the list, which is asked for by the next poll only.
Tabs == IF CFG.admin THEN {"global", "thai", "cal"} ELSE {Home(CFG), "cal"}
setTab(next) ==
  LET tab == IF next = "cal" /\ V.tab = "cal" THEN V.lastNews ELSE next
  IN  /\ next \in Tabs
      /\ Change([Cleared EXCEPT !.tab = tab, !.mode = "all",
                                !.lastNews = IF tab = "cal" THEN @ ELSE tab],
                IF tab = "cal" THEN 0 ELSE 1)

\* The row of pills: the pick, everything, a category, a source.
PickPill == Select([V EXCEPT !.pickOnly = ~@])
AllPill == Select([Cleared EXCEPT !.mode = "all"])
Toggle(set, x) == IF x \in set THEN set \ {x} ELSE set \cup {x}
CategoryPill(c) == Select([V EXCEPT !.cats = Toggle(@, c), !.mode = "all"])
\* A source's pill, a card's chip and the button that releases the tag.
Chip(tag) ==
  /\ tag # NoTag \/ V.tag # NoTag
  /\ Select(IF tag = NoTag THEN [V EXCEPT !.tag = NoTag]
            ELSE [V EXCEPT !.tag = IF @ = tag THEN NoTag ELSE tag, !.mode = "all"])

\* The trends: a keyword pressed empties the box.
Trend(w) ==
  /\ w \in V.terms \/ Cardinality(V.terms) < TermLimit
  /\ Select([V EXCEPT !.terms = Toggle(@, w), !.q = None])
ClearTrends == V.terms # {} /\ Select([V EXCEPT !.terms = {}])

\* The box, 350 ms after the last key; the button beside it makes a condition of its text.
Typed(w) == Select([V EXCEPT !.q = w])
qadd(w) ==
  /\ w \in V.terms \/ Cardinality(V.terms) < TermLimit
  /\ Select([V EXCEPT !.terms = @ \cup {w}, !.q = None])

hours(h) == Select([V EXCEPT !.hours = h])

\* dropCond: a category given twice loses the one of the row first.
dropCond(kind, value) ==
  CASE kind = "cat" /\ value \in V.cats -> Select([V EXCEPT !.cats = @ \ {value}])
    [] kind = "term" /\ value \in V.terms -> Select([V EXCEPT !.terms = @ \ {value}])
    [] kind \in {"cat", "src"} /\ V.tag = [k |-> kind, v |-> value] -> Select([V EXCEPT !.tag = NoTag])
    [] OTHER -> FALSE

-----------------------------------------------------------------------------
(* The list. *)

\* fetchFeed by the timer, by the button for more, and when the page is seen again.
Ask ==
  /\ asked.present + asked.earlier < MaxAsked
  /\ asked' = [asked EXCEPT !.present = @ + 1]

\* Faulty variant: the condition of the timer is turned round.
pollHidden == hidden /\ Ask /\ UNCHANGED <<CFG, V, address, hidden, shown>>

poll == ~hidden /\ Ask /\ UNCHANGED <<CFG, V, address, hidden, shown>>
Hide == ~hidden /\ hidden' = TRUE /\ UNCHANGED <<CFG, V, address, asked, shown>>
Show == hidden /\ hidden' = FALSE /\ Ask /\ UNCHANGED <<CFG, V, address, shown>>

\* applyLocal: an answer is shown, whichever it is of.
Answer(kind) ==
  /\ asked[kind] > 0
  /\ asked' = [asked EXCEPT ![kind] = @ - 1]
  /\ shown' = (kind = "present")
  /\ UNCHANGED <<CFG, V, address, hidden>>

\* A request that fails leaves the rows there were.
Fail(kind) ==
  /\ asked[kind] > 0
  /\ asked' = [asked EXCEPT ![kind] = @ - 1]
  /\ UNCHANGED <<CFG, V, address, hidden, shown>>

\* The page is loaded again, or the address opened elsewhere.
Reload ==
  /\ V' = Restored(CFG, address)
  /\ address' = [address EXCEPT !.tab = KeepTab(CFG, InitialTab(CFG, address))]
  /\ hidden' = FALSE
  /\ asked' = [present |-> 1, earlier |-> 0] /\ shown' = FALSE
  /\ UNCHANGED CFG

Next ==
  \/ \E tab \in {"global", "thai", "cal"} : setTab(tab)
  \/ PickPill \/ AllPill \/ ClearTrends
  \/ \E c \in Categories : CategoryPill(c) \/ dropCond("cat", c)
  \/ \E s \in Sources : dropCond("src", s)
  \/ \E tag \in Tags : Chip(tag)
  \/ \E w \in Words : Trend(w) \/ qadd(w) \/ dropCond("term", w)
  \/ \E w \in Words \cup {None} : Typed(w)
  \/ \E h \in Hours : hours(h)
  \/ poll \/ Hide \/ Show \/ Reload
  \/ \E kind \in {"present", "earlier"} : Answer(kind) \/ Fail(kind)
Spec == Init /\ [][Next]_vars

\* The timer fires while the page is seen, every request ends, and one asked for again and
\* again is answered in the end.
FairSpec ==
  Spec /\ WF_vars(poll) /\ SF_vars(Answer("present"))
       /\ \A kind \in {"present", "earlier"} : WF_vars(Answer(kind) \/ Fail(kind))

-----------------------------------------------------------------------------
(* Properties. *)

(* A shared address shows the reader's list: loaded again at any moment, it  *)
(* asks the server for what the present selection asks, however the          *)
(* selection was put together from pills, chips, keywords and the box.       *)
AddressAsksSame == buildQuery(Restored(CFG, address)) = buildQuery(V)

(* The list catches up with the selection: once the reader leaves it alone   *)
(* and looks at the page, the rows shown are those of the selection in the   *)
(* end and stay so, although answers to earlier selections may still come    *)
(* and are shown when they do.                                               *)
ListCatchesUp ==
  <>[](~hidden) /\ <>[][V' = V /\ ~Reload]_vars => <>[]shown
=============================================================================
