------------------------------ MODULE FrontPage ------------------------------
(***************************************************************************)
(* The first screen of a section and the list that replaces it.            *)
(* pages/build/page_build.py writes the newest stories and a briefing into *)
(* the HTML when the site is built; the page's script then asks            *)
(* server/live_news_dashboard.py for the list, draws it over the seed,     *)
(* grows it when the reader presses the button for more, and draws a       *)
(* briefing from rows it keeps for two minutes.  Meanwhile the operator    *)
(* hides stories, rules and switches withhold them, and picks are given.   *)
(*                                                                         *)
(* Stories are numbered newest first and lie in one region and in the      *)
(* period asked for.  Two rows with the same link, headline or event are   *)
(* the same story, Same(a, b); what a card looks like is left out.         *)
(***************************************************************************)
EXTENDS Naturals, FiniteSets

CONSTANTS
  Stories,            \* 1 .. n, the newest first
  Same(_, _),         \* the same link, headline or event; it need not be transitive
  Source(_), Priority(_),
  Social,             \* stories of social sources
  Alerts,             \* FinancialJuice's, which an event does not merge away
  InKorean,         \* stories with a Korean title and summary
  PAGE, MAX_LIMIT, SIZE,    \* 25, 1000, and the three of a briefing
  Given,              \* the picks there may be at the start
  MaxAsked,           \* bound: answers under way
  MaxChanges,         \* bound: what the operator does
  None

VARIABLES
  hidden, withheld, picked,   \* the operator's judgement
  changes,
  built,      \* the page on disk: its cards, and a briefing for each language
  lang,       \* the page this reader opens
  open,
  limit,      \* V.limit
  data,       \* DATA: the rows last answered, or the seed
  answers,    \* answers of the list under way
  cache,      \* BRIEF_CACHE: rows for the briefing, and whether they are young
  pending,    \* BRIEF_PENDING: their answer under way
  brief       \* the stories of the briefing on the screen

db == <<hidden, withheld, picked, changes>>
page == <<limit, data, answers, cache, pending, brief>>
vars == <<db, built, lang, open, page>>

Langs == {"en", "ko"}

-----------------------------------------------------------------------------
(* The server's answer. *)

\* The n newest of S.
FirstOf(S, n) == {s \in S : Cardinality({t \in S : t <= s}) <= n}
Least(a, b) == IF a < b THEN a ELSE b

\* query_articles: hidden, caught and switched-off stories are skipped, and on a Korean page
\* what is not translated.
Listed(l) == {s \in Stories \ (hidden \cup withheld) : l = "ko" => s \in InKorean}

\* dedupe_rows: a row is dropped for a newer one that was kept; an alert, whose
\* link no other row has here, is not.
dedupe_rows[S \in SUBSET Stories] ==
  IF S = {} THEN {}
  ELSE LET oldest == CHOOSE s \in S : \A t \in S : t <= s
           kept == dedupe_rows[S \ {oldest}]
       IN  IF oldest \notin Alerts /\ \E t \in kept : Same(t, oldest) THEN kept
           ELSE kept \cup {oldest}

\* Faulty variant: there is more when the page came back full.
FullPage(total, asked, returned) == returned = asked

has_more(total, asked, returned) == returned < total

\* do_GET of /api/news: the page is cut from the rows and deduplicated after.
Answer(l, n) ==
  LET rows == dedupe_rows[FirstOf(Listed(l), Least(n, MAX_LIMIT))]
  IN  [rows |-> rows, picked |-> picked, total |-> Cardinality(Listed(l)),
       more |-> has_more(Cardinality(Listed(l)), n, Cardinality(rows))]

-----------------------------------------------------------------------------
(* A briefing: three stories of different sources, or the three that are picked. *)

Ahead(a, b) == Priority(a) > Priority(b) \/ (Priority(a) = Priority(b) /\ a < b)

Chosen(distinct, pick) ==
  LET eligible == {s \in distinct \ Social : Priority(s) >= 3}
      leaders == {s \in eligible : \A t \in eligible : Source(t) = Source(s) => t = s \/ Ahead(s, t)}
  IN  IF Cardinality(distinct \cap pick) = SIZE THEN distinct \cap pick
      ELSE {s \in leaders : Cardinality({t \in leaders : Ahead(t, s)}) < SIZE}

\* _briefing_items: the rows come with the highest priority first.
SeedBriefing(S, pick) ==
  Chosen({s \in S : ~\E t \in S : Ahead(t, s) /\ Same(s, t)}, pick)

\* briefingItems: the rows come newest first, and an alert is not merged away.
briefingItems(S, pick) ==
  Chosen({s \in S : s \in Alerts \/ ~\E t \in S : t < s /\ Same(s, t)}, pick)

\* _seed_cards
SeedCards == FirstOf(Stories \ hidden, PAGE)

\* build_server: both languages share the cards; of the operator's judgement only what is
\* hidden and what is picked is looked at.
Built ==
  [cards |-> SeedCards,
   brief |-> [l \in Langs |->
                SeedBriefing({s \in Stories \ hidden : l = "ko" => s \in InKorean}, picked)]]

-----------------------------------------------------------------------------
Init ==
  /\ hidden = {} /\ withheld = {} /\ picked \in Given /\ changes = 0
  /\ built = Built
  /\ lang \in Langs /\ open = FALSE
  /\ limit = PAGE
  /\ data = [rows |-> {}, picked |-> {}, total |-> 0, more |-> FALSE]
  /\ answers = {} /\ cache = None /\ pending = None /\ brief = {}

(* The operator and the rules. *)
Toggle(set, s) == IF s \in set THEN set \ {s} ELSE set \cup {s}
Judge(h, w, p) ==
  /\ changes < MaxChanges
  /\ changes' = changes + 1
  /\ hidden' = h /\ withheld' = w /\ picked' = p
  /\ UNCHANGED <<built, lang, open, page>>
Hide(s) == Judge(Toggle(hidden, s), withheld, picked)
Withhold(s) == Judge(hidden, Toggle(withheld, s), picked)
Pick(s) == Judge(hidden, withheld, Toggle(picked, s))

Build == built' = Built /\ built' # built /\ UNCHANGED <<db, lang, open, page>>

-----------------------------------------------------------------------------
(* The page. *)

\* start: the seed is on the screen until an answer is drawn, and the list is asked for.
Load ==
  /\ ~open /\ open' = TRUE
  /\ data' = [data EXCEPT !.rows = built.cards]
  /\ brief' = built.brief[lang]
  /\ answers' = {Answer(lang, limit)}
  /\ UNCHANGED <<db, built, lang, limit, cache, pending>>

\* fetchFeed: what the server answers it answers now; it may arrive later, or never.
Fetch(n) ==
  /\ open /\ Cardinality(answers) < MaxAsked
  /\ limit' = n
  /\ answers' = answers \cup {Answer(lang, n)}
  /\ UNCHANGED <<db, built, lang, open, data, cache, pending, brief>>
poll == Fetch(limit)

\* renderFeed: whether the button for more is there.
More ==
  data.more /\ (lang = "en" \/ Cardinality(data.rows) >= limit)

\* #more: the list grows from the top, to no more than the server counted.
PressMore ==
  /\ More
  /\ Fetch(IF data.total > 0 THEN Least(limit + PAGE, data.total) ELSE limit + PAGE)

\* loadBriefingRows: rows younger than two minutes are used again, and asked for once.
Young == cache # None /\ cache.young

\* renderBriefing: a row the list also has is taken as the list has it.
Drawn(d, c) ==
  IF c = None THEN briefingItems(d.rows, d.picked)
  ELSE briefingItems(c.rows,
                     (c.picked \ d.rows) \cup (d.picked \cap d.rows))

\* applyLocal
Apply(a) ==
  /\ a \in answers
  /\ answers' = answers \ {a}
  /\ data' = [a EXCEPT !.rows = FirstOf(@, limit)]
  /\ pending' = IF Young \/ pending # None THEN pending ELSE Answer(lang, MAX_LIMIT)
  /\ brief' = Drawn(data', cache)
  /\ UNCHANGED <<db, built, lang, open, limit, cache>>

\* A request that fails draws what there was.
Fail(a) ==
  /\ a \in answers
  /\ answers' = answers \ {a}
  /\ brief' = Drawn(data, cache)
  /\ UNCHANGED <<db, built, lang, open, limit, data, cache, pending>>

BriefingRows ==
  /\ pending # None
  /\ cache' = [rows |-> pending.rows, picked |-> pending.picked, young |-> TRUE]
  /\ pending' = None
  /\ brief' = Drawn(data, cache')
  /\ UNCHANGED <<db, built, lang, open, limit, data, answers>>

BriefingFails ==
  /\ pending # None
  /\ pending' = None
  /\ brief' = Drawn(data, cache)
  /\ UNCHANGED <<db, built, lang, open, limit, data, answers, cache>>

\* Two minutes pass.
Age ==
  /\ Young /\ cache' = [cache EXCEPT !.young = FALSE]
  /\ UNCHANGED <<db, built, lang, open, limit, data, answers, pending, brief>>

Next ==
  \/ \E s \in Stories : Hide(s) \/ Withhold(s) \/ Pick(s)
  \/ Build \/ Load \/ poll \/ PressMore
  \/ \E a \in answers : Apply(a) \/ Fail(a)
  \/ BriefingRows \/ BriefingFails \/ Age
Spec == Init /\ [][Next]_vars

\* The page polls, the reader presses the button while it is there, time passes, every
\* request ends, and one that is made again and again is answered in the end.
FairSpec ==
  /\ Spec /\ WF_vars(Load) /\ WF_vars(poll) /\ SF_vars(PressMore) /\ WF_vars(Age)
  /\ WF_vars(\E a \in answers : Apply(a) \/ Fail(a))
  /\ SF_vars(Apply(Answer(lang, limit)))
  /\ WF_vars(BriefingRows \/ BriefingFails) /\ SF_vars(BriefingRows)

-----------------------------------------------------------------------------
(* Properties. *)

(* What the operator takes away leaves the page a reader has open: a story   *)
(* hidden or withheld for good is in the end neither in the list nor in the  *)
(* briefing, although the page was built with it, an answer from before may  *)
(* still come, and the briefing is drawn from rows kept for two minutes.     *)
TakenAwayLeaves ==
  \A s \in Stories :
    <>[](s \in hidden \cup withheld) => <>[](s \notin data.rows \cup brief \/ ~open)

(* A reader of an English page who keeps pressing the button for more sees   *)
(* every story of the list in the end, each at least as another row of the   *)
(* same story: a duplicate dropped from a page does not end the list early.  *)
EveryStoryReached ==
  <>[](lang = "en") =>
    <>[](\A s \in Listed("en") : \E t \in data.rows : t = s \/ Same(t, s))
=============================================================================
