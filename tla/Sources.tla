------------------------------ MODULE Sources ------------------------------
(* The sources collect_news asks beside the fast lane: RSS feeds on their  *)
(* own turns, Google News and CoinNess, SBHNews' sitemap and its open news,*)
(* Bluesky, the White House, Telegram channels and the Middle East feeds.  *)
(* They share nothing but the cycle, so a behaviour follows one of them.   *)
(* An item is a number, larger is newer; what a source keeps of its page,  *)
(* under which cap and in which order, decides what reaches the archive.   *)
(* How rows are compared with the archive is Collector's: here a "repeat"  *)
(* is an item that comparison refuses.                                     *)
EXTENDS Integers, FiniteSets

CONSTANTS Items,         \* numbers
          Sources,
          Kind,          \* source -> "rss", "coinness", "google", "sbh", "open", "telegram", ...
          Every,         \* source -> its entry in SLOW_SOURCES, 1 without one
          Words,         \* source -> item -> what is peculiar about it
          Length,        \* how many of its newest items a page lists
          Cap,           \* MAX_PAGES, MAX_ITEMS, MAX_ITEMS_PER_FEED
          Rest           \* ticks Telegram's direct route rests after a failure

VARIABLES source, published, aged, archive, turn, panel, direct_retry_after

vars == <<source, published, aged, archive, turn, panel, direct_retry_after>>

Is(word) == {i \in Items : word \in Words[source][i]}
Newest(S, n) == {i \in S : Cardinality({j \in S : j > i}) < n}
Oldest(S, n) == {i \in S : Cardinality({j \in S : j < i}) < n}

Listed == Newest(published, Length)
InWindow(S) == S \ aged

\* existing_links: the links the window already holds.
Known == archive \ aged

(* What a source hands over, given the article pages that load.           *)
\* RSS and Atom: an entry needs a title and a link.
Entries(S) == S \ (Is("untitled") \cup Is("unlinked"))

\* The White House's two feeds, read with the same parser.
Official(S) == Entries(S)

\* CoinNess sends no link: one is built from the id.
Briefs(S) == S \ Is("untitled")

\* Only entries that name Thailand, and not from the blocked outlets.
GoogleNews(S) == Entries(S) \ (Is("offtopic") \cup Is("blocked"))

\* The news sitemap's own window: an entry without a date is out.
SitemapRecent(S) == InWindow(S) \ Is("undated")

\* The headline is the article page's, or else the sitemap's.
Headed(loads) == loads \cup (Items \ Is("untitled"))

\* The cut of a plausible bug: the newest entries first, then the unseen.
CutFirst(S, loads) == (Newest(SitemapRecent(S), Cap) \ Known) \cap Headed(loads)

\* Entries not stored yet, newest first, and only then the cut.
SbhNews(S, loads) == Newest(SitemapRecent(S) \ Known, Cap) \cap Headed(loads)

\* "Open news": the flat rows that have a title and an original post.
SocialRows(S) == S \ (Is("untitled") \cup Is("unlinked"))
OpenNews(S) == Newest((InWindow(SocialRows(S)) \ Is("undated")) \ Known, Cap)

\* Telegram's preview: messages with words, and no small or routine alert.
Messages(S) == S \ Is("untitled")
Alerts(S) == S \ (Is("small") \cup Is("routine"))
Telegram(S) == Oldest(InWindow(Alerts(Messages(S))) \ Known, Cap)

\* An undated entry passes the feed's own window, and counts for its cap.
FeedRows(S) == S \ Is("unlinked")
Mideast(S) == Newest((FeedRows(S) \ Is("untitled")) \ (Known \cup (aged \ Is("undated"))), Cap)

Bluesky(S) == S \ (Is("repost") \cup Is("reply") \cup Is("untitled"))

Handed(loads) ==
    CASE Kind[source] = "rss" -> Entries(Listed)
      [] Kind[source] = "official" -> Official(Listed)
      [] Kind[source] = "coinness" -> Briefs(Listed)
      [] Kind[source] = "google" -> GoogleNews(Listed)
      [] Kind[source] = "sbh" -> SbhNews(Listed, loads)
      [] Kind[source] = "open" -> OpenNews(Listed)
      [] Kind[source] = "telegram" -> Telegram(Listed)
      [] Kind[source] = "mideast" -> Mideast(Listed)
      [] Kind[source] = "bluesky" -> Bluesky(Listed)

\* The plan of September 2026: a source asked every cycle was never asked.
AskedAtOne == (turn + 1) % Every[source] = 1

\* poll_plan: whether this cycle asks the source.
Asked == (turn + 1) % Every[source] = 0

\* keep_recent: a story without a date is dropped; Telegram dates its own.
Datable(S) == IF Kind[source] = "telegram" THEN S ELSE S \ Is("undated")

\* The panel: an answer, a failure, or what the last asked cycle said.
Status(answers) ==
    IF ~Asked THEN IF panel = "never" THEN "ok" ELSE panel
    ELSE IF answers /\ (Kind[source] = "google" => GoogleNews(Listed) # {}) THEN "ok" ELSE "failed"

\* fetch_html: the direct route first unless it rests, then the reader.
Resting(reached) ==
    IF Kind[source] = "telegram" /\ direct_retry_after = 0 /\ ~reached
    THEN Rest ELSE direct_retry_after

(* One cycle: whether the source answers, the article pages that load, and *)
(* whether t.me itself answers with messages.                              *)
Cycle(answers, loads, reached) ==
    /\ answers \/ ~(reached /\ direct_retry_after = 0)
    /\ archive' = archive \cup
           IF answers /\ Asked THEN InWindow(Datable(Handed(loads))) \ Is("repeat") ELSE {}
    /\ turn' = (turn + 1) % 2
    /\ panel' = Status(answers)
    /\ direct_retry_after' = Resting(reached)
    /\ UNCHANGED <<source, published, aged>>

Tick ==
    /\ direct_retry_after > 0
    /\ direct_retry_after' = direct_retry_after - 1
    /\ UNCHANGED <<source, published, aged, archive, turn, panel>>

(* The outlet. *)
Publish(i) ==
    /\ i \notin published
    /\ \A j \in Items : j < i => j \in published
    /\ published' = published \cup {i}
    /\ UNCHANGED <<source, aged, archive, turn, panel, direct_retry_after>>

\* The oldest story leaves the window.
Age(i) ==
    /\ i \in published \ aged
    /\ \A j \in published \ aged : i <= j
    /\ aged' = aged \cup {i}
    /\ UNCHANGED <<source, published, archive, turn, panel, direct_retry_after>>

Init ==
    /\ source \in Sources
    /\ published = {} /\ aged = {} /\ archive = {}
    /\ turn = 0
    /\ panel = "never"
    /\ direct_retry_after = 0

Misses == \E loads \in SUBSET Is("untitled"), answers, reached \in BOOLEAN : Cycle(answers, loads, reached)

\* A cycle in which the source is asked and answers, its pages included.
Hears == Asked /\ \E reached \in BOOLEAN : Cycle(TRUE, Is("untitled"), reached)

Next == Misses \/ Hears \/ Tick \/ \E i \in Items : Publish(i) \/ Age(i)

Spec == Init /\ [][Next]_vars

\* The collector's loop never ends, and a source that fails answers again.
FairSpec == Spec /\ WF_vars(Misses) /\ SF_vars(Hears)

(* A story a source lists, of the kind it hands over, is in the archive    *)
(* sooner or later, unless it leaves the page or the window first: neither *)
(* a cap filled by other items nor a turn of the poll plan hides it.       *)
Unwanted == UNION {Is(w) : w \in {"repeat", "unlinked", "offtopic", "blocked", "small", "routine",
                                  "repost", "reply"}}
Promised(i) ==
    /\ i \in Datable(Items) \ Unwanted
    /\ i \in Is("untitled") => Kind[source] = "sbh"
Stands(i) == Promised(i) /\ i \in Listed \ aged
StoriesStored == \A i \in Items : []<>(Stands(i) => i \in archive)
=============================================================================
