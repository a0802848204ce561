------------------------------ MODULE NewsFeed ------------------------------
(***************************************************************************)
(* The newsroom of the community site: the read-only view of the           *)
(* dashboard's stories (community/news.py, news_views.py), and the open    *)
(* list of a reader, on which two scripts work that know nothing of each   *)
(* other: static/news-unread.js asks for new stories and offers them, and  *)
(* static/news-load-more.js appends the next page.                         *)
(*                                                                         *)
(* The list is cut into pages by an offset, while the operator hides,      *)
(* switches and keeps stories, and others arrive, some of them published   *)
(* before those that are there.  Stories are numbers in the order of their *)
(* publication.  An answer is what the database held when it was made, and *)
(* arrives later or not at all.                                            *)
(*                                                                         *)
(* Left out: searching, categories and regions (conditions like the        *)
(* others), the text of a story, the start page, which cuts its list, and  *)
(* stories published at the same moment.                                   *)
(***************************************************************************)
EXTENDS Naturals, FiniteSets, Sequences

CONSTANTS
  Stories,        \* 1..n, a later number published later
  Caught,         \* stories a filter rule has caught
  Unprintable,    \* stories without a Korean title or summary, or a safe address
  SourceOf, Sources,
  PageSize,       \* 20 in the code
  Present,        \* the time an empty page is loaded: stories up to this number were published before
  None, Asked     \* nothing; a request on its way

VARIABLES
  status,         \* of each story: absent, partial, ready (or legacy), old
  hidden, kept,   \* hidden_links, filter_keeps
  ruleOn,         \* filter_rules.enabled
  off,            \* the setting hidden_sources, None when it cannot be read
  list,           \* the stories on the page, from top to bottom
  more,           \* the page the button loads next, or None
  loading,        \* the answer load-more waits for: None, Asked, or a page
  seen, pending,  \* of news-unread.js
  baselineReady, busy, cursor,
  passedOver      \* history: taken as seen at the first look and not offered

db == <<status, hidden, kept, ruleOn, off>>
unread == <<seen, pending, baselineReady, busy, cursor, passedOver>>
vars == <<db, list, more, loading, unread>>

-----------------------------------------------------------------------------
(* community/news.py: an unreadable policy shows nothing at all. *)

NewsUnavailable == off = None

visibility(s) ==
  /\ status[s] = "ready"
  /\ s \notin Unprintable
  /\ s \notin hidden
  /\ ~(s \in Caught /\ ruleOn /\ s \notin kept)
  /\ SourceOf[s] \notin off

Visible == {s \in Stories : visibility(s)}
\* The place of a story in the list, from 1.
Rank(s) == 1 + Cardinality({t \in Visible : t > s})

\* list_articles: the rows of a page, and whether there is a next one.
list_articles(page) ==
  [rows |-> {s \in Visible : Rank(s) > (page - 1) * PageSize /\ Rank(s) <= page * PageSize},
   page |-> page,
   has_next |-> page * PageSize < Cardinality(Visible)]

Descending(S) ==
  [i \in 1..Cardinality(S) |-> CHOOSE s \in S : Cardinality({t \in S : t > s}) = i - 1]
Shown == {list[i] : i \in 1..Len(list)}

Newest(S) == CHOOSE s \in S : \A t \in S : t <= s

\* The page as the server rendered it.  On an empty one the script starts at the present time.
Init ==
  /\ status \in [Stories -> {"absent", "ready"}]
  /\ hidden = {} /\ kept = {} /\ ruleOn = TRUE /\ off = {}
  /\ list = Descending(list_articles(1).rows)
  /\ more = IF list_articles(1).has_next THEN 2 ELSE None
  /\ loading = None
  /\ seen = Shown /\ pending = {} /\ baselineReady = FALSE /\ busy = None
  /\ cursor = IF Shown = {} THEN Present ELSE Newest(Shown)
  /\ passedOver = {}

-----------------------------------------------------------------------------
(* The database, behind the reader's back. *)

Unread == UNCHANGED <<list, more, loading, unread>>
Collect(s) == status[s] = "absent" /\ status' = [status EXCEPT ![s] = "partial"]
              /\ UNCHANGED <<hidden, kept, ruleOn, off>> /\ Unread
Translate(s) == status[s] = "partial" /\ status' = [status EXCEPT ![s] = "ready"]
                /\ UNCHANGED <<hidden, kept, ruleOn, off>> /\ Unread
\* Thirty days after its publication.
Age(s) == /\ status[s] = "ready" /\ \A t \in Stories : t < s => status[t] \in {"old", "absent"}
          /\ status' = [status EXCEPT ![s] = "old"]
          /\ UNCHANGED <<hidden, kept, ruleOn, off>> /\ Unread
Hide(s) == hidden' = (IF s \in hidden THEN hidden \ {s} ELSE hidden \cup {s})
           /\ UNCHANGED <<status, kept, ruleOn, off>> /\ Unread
Keep(s) == s \in Caught \ kept /\ kept' = kept \cup {s}
           /\ UNCHANGED <<status, hidden, ruleOn, off>> /\ Unread
SwitchRule == ruleOn' = ~ruleOn /\ UNCHANGED <<status, hidden, kept, off>> /\ Unread
SwitchSource(o) == off' = o /\ off # o /\ UNCHANGED <<status, hidden, kept, ruleOn>> /\ Unread

-----------------------------------------------------------------------------
(* news-load-more.js. *)

ClickMore ==
  /\ more # None /\ loading = None
  /\ loading' = Asked
  /\ UNCHANGED <<db, list, more, unread>>

AnswerMore ==
  /\ loading = Asked /\ ~NewsUnavailable
  /\ loading' = list_articles(more)
  /\ UNCHANGED <<db, list, more, unread>>

\* What is on the page is not appended again.
AppendPage ==
  /\ loading \notin {None, Asked}
  /\ list' = list \o Descending(loading.rows \ Shown)
  /\ more' = IF loading.has_next THEN loading.page + 1 ELSE None
  /\ loading' = None
  /\ UNCHANGED <<db, unread>>

LoadFails ==
  /\ loading # None /\ loading' = None
  /\ UNCHANGED <<db, list, more, unread>>

-----------------------------------------------------------------------------
(* news-unread.js. *)

Poll == busy = None /\ busy' = Asked
        /\ UNCHANGED <<db, list, more, loading, seen, pending, baselineReady, cursor, passedOver>>

AnswerPoll ==
  /\ busy = Asked /\ ~NewsUnavailable
  /\ busy' = list_articles(1)
  /\ UNCHANGED <<db, list, more, loading, seen, pending, baselineReady, cursor, passedOver>>

\* What the first answer offers, and every later one.
FirstOffer(articles) == {s \in articles \ seen : s > cursor}
\* Faulty variant: each answer is compared with the newest story on the page.
LaterThanCursor(articles) == {s \in articles \ seen : s > cursor}
Fresh(articles) == articles \ seen

Take ==
  /\ busy \notin {None, Asked}
  /\ LET offer == IF baselineReady THEN Fresh(busy.rows) ELSE FirstOffer(busy.rows)
     IN  /\ pending' = pending \cup offer
         /\ passedOver' = IF baselineReady THEN passedOver
                          ELSE passedOver \cup (busy.rows \ (seen \cup offer))
  /\ seen' = seen \cup busy.rows
  /\ baselineReady' = TRUE /\ busy' = None
  /\ UNCHANGED <<db, list, more, loading, cursor>>

PollFails ==
  /\ busy # None /\ busy' = None
  /\ UNCHANGED <<db, list, more, loading, seen, pending, baselineReady, cursor, passedOver>>

\* The button that offers the new stories puts them on top, those that are not
\* there already.
ShowPending ==
  /\ pending # {}
  /\ LET additions == pending \ Shown
     IN  /\ list' = Descending(additions) \o list
         /\ seen' = seen \cup additions
         /\ cursor' = Newest({cursor} \cup additions)
  /\ pending' = {}
  /\ UNCHANGED <<db, more, loading, baselineReady, busy, passedOver>>

Next ==
  \/ \E s \in Stories : Collect(s) \/ Translate(s) \/ Age(s) \/ Hide(s) \/ Keep(s)
  \/ SwitchRule \/ \E o \in (SUBSET Sources) \cup {None} : SwitchSource(o)
  \/ ClickMore \/ AnswerMore \/ AppendPage \/ LoadFails
  \/ Poll \/ AnswerPoll \/ Take \/ PollFails \/ ShowPending

Spec == Init /\ [][Next]_vars

-----------------------------------------------------------------------------
(* The two scripts share one list without spoiling it: no story is on it     *)
(* twice, and every story the first one will not offer again is on the page, *)
(* is on offer, or was not newer than the page at the first look.            *)
ListWhole ==
  /\ Len(list) = Cardinality(Shown)
  /\ seen \subseteq Shown \cup pending \cup passedOver
  /\ \A s \in passedOver : s <= cursor
=============================================================================
