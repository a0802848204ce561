----------------------------- MODULE Collector -----------------------------
(***************************************************************************)
(* The collector thread of server/live_news_dashboard.py: NewsState.loop   *)
(* runs collect_news again and again.  A cycle asks the FinancialJuice     *)
(* feed in its fast lane and stores its alerts, then gathers every other   *)
(* feed, removes repetitions inside the batch, compares what is left with  *)
(* the stories already stored, inserts the rest, and prunes the archive.   *)
(*                                                                         *)
(* A copy is one story as one tab sees it under one link; two copies may   *)
(* tell the same story.  What the code compares of a copy (its link, its   *)
(* publisher's url, the key of its headline with and without the outlet's  *)
(* name) are functions of the copy.  The similarity of headlines and the   *)
(* sameness of events are given relations.                                 *)
(*                                                                         *)
(* Times are ages: hours since publication, and minutes until the feed may *)
(* be asked again.  Hour and Minute let them pass at any point of a cycle, *)
(* so the instants a cycle reads the clock at are different instants.      *)
(*                                                                         *)
(* One process collects into a database: the service, or a job with a      *)
(* database of its own.                                                    *)
(*                                                                         *)
(* Bodies, pictures and translations are ArticleWorker's, filter hits are  *)
(* FilterRules'; the status a cycle publishes is left out.                 *)
(***************************************************************************)
EXTENDS Integers

CONSTANTS
  Copies,
  Thai,        \* those of the Thailand tab; the others are the global tab's
  Juice,       \* FinancialJuice's own alerts
  Link,        \* copy -> canonical_link
  Aggregated,  \* copies whose link is Google's, so that it is no identity
  Url,         \* copy -> the publisher's page
  Plain,       \* copy -> key of the headline without the outlet's name
  Tailed,      \* copy -> key when the feed did not name the outlet
  NoKey,       \* the key of a headline in Thai script
  Similar,     \* pairs of keys at least 0.88 alike
  Events,      \* pairs of copies semantic_event.same_event finds alike
  EventSpan,   \* hours two reports of an event may lie apart
  Ahead,       \* hours a story may be dated in the future, 1 in the code
  Window,      \* RETENTION_HOURS
  Archive,     \* ARCHIVE_DAYS, in hours
  MaxBackoff,  \* _FINANCIALJUICE_MAX_BACKOFF_SECONDS, in minutes
  Doublings,   \* how often the backoff doubles, 4 in the code
  Retries      \* what a Retry-After header may ask for, 0 for none

Ordinary == Copies \ Juice
SameTab(c, d) == (c \in Thai) = (d \in Thai)
Doubled == <<1, 2, 4, 8, 16>>

ASSUME CollectorAssumption ==
  /\ Thai \subseteq Copies /\ Juice \subseteq Copies \ Thai /\ Aggregated \subseteq Ordinary
  /\ \A c, d \in Copies : Link[c] = Link[d] =>
        /\ c \in Juice <=> d \in Juice
        /\ c # d => ~SameTab(c, d)
        /\ Url[c] = Url[d] /\ Plain[c] = Plain[d] /\ Tailed[c] = Tailed[d]
        /\ c \in Aggregated <=> d \in Aggregated
  /\ \A p \in Similar : <<p[2], p[1]>> \in Similar
  /\ \A p \in Events : <<p[2], p[1]>> \in Events
  /\ EventSpan \in Nat /\ Ahead \in Nat /\ Window \in Nat /\ Archive \in Nat /\ Window <= Archive
  /\ MaxBackoff \in Nat \ {0} /\ Doublings \in 0 .. 4 /\ MaxBackoff <= Doubled[Doublings + 1]
  /\ Retries \subseteq Nat

Ages == -Ahead .. Archive + 1       \* saturates one past the archive
FeedAges == -Ahead - 1 .. Window + 1    \* as a feed may date a story
Links == {Link[c] : c \in Copies}
Naming == {c \in Ordinary : Plain[c] # Tailed[c]}
Lower(m, n) == IF m <= n THEN m ELSE n
Higher(m, n) == IF m <= n THEN n ELSE m

VARIABLES
  stored,     \* rows of articles, each the copy it was inserted from
  age,        \* hours since published_at
  named,      \* rows whose original_source is filled
  resolved,   \* links google_news has a publisher page for
  phase,      \* where the cycle stands
  fresh, freshAge, freshNamed,  \* what this cycle gathered inside the window
  hand,       \* the copies of it that are still to be inserted
  gained,     \* this cycle inserted something
  wait,       \* minutes until next_poll_at
  failures,   \* consecutive_failures, up to where the doubling stops
  share,      \* history: what the next refusal asks for, twice the last one's up to the cap
  due,        \* history: minutes for which the feed is still to be left alone
  renamed     \* history: rows named by the other tab's copy of their link

table == <<stored, age, named, resolved, renamed>>
batch == <<fresh, freshAge, freshNamed, hand>>
poll == <<wait, failures, share, due>>
vars == <<table, batch, poll, phase, gained>>

NoAges == [c \in Copies |-> 0]

Init ==
  /\ stored = {} /\ age = NoAges /\ named = {} /\ resolved = {} /\ renamed = {}
  /\ phase = "idle" /\ gained = FALSE
  /\ fresh = {} /\ freshAge = NoAges /\ freshNamed = {} /\ hand = {}
  /\ wait = 0 /\ failures = 0 /\ share = 1 /\ due = 0

(***************************************************************************)
(* Identities                                                              *)
(***************************************************************************)
KeyOf(c, names) == IF c \in names THEN Plain[c] ELSE Tailed[c]
SameKey(k, l) == k # NoKey /\ k = l
AlikeKey(k, l) == k # NoKey /\ l # NoKey /\ (k = l \/ <<k, l>> \in Similar)

\* Two copies that give their own link away as the publisher's page.
SamePage(c, d) == c \notin Aggregated /\ d \notin Aggregated /\ Url[c] = Url[d]

\* The stored row d may also be known by the page its Google link leads to.
SamePageAsRow(c, d) ==
  /\ c \notin Aggregated
  /\ d \in Aggregated => Link[d] \in resolved
  /\ Url[c] = Url[d]

InWindow(d) == age[d] <= Window

\* dedupe: what makes one copy of a batch a repetition of another.
Repeats(c, d) ==
  \/ Link[c] = Link[d]
  \/ SamePage(c, d)
  \/ AlikeKey(KeyOf(c, freshNamed), KeyOf(d, freshNamed))
  \/ <<c, d>> \in Events /\ freshAge[c] - freshAge[d] \in -EventSpan .. EventSpan

\* mutations: a row leaves the comparison an hour too soon; the tabs are not told apart
KnownTooBriefly(c) ==
  \E d \in stored :
    /\ age[d] < Window /\ SameTab(c, d)
    /\ SameKey(KeyOf(c, freshNamed), KeyOf(d, named)) \/ SamePageAsRow(c, d)
\* drop_already_stored: an exact identity of a row of the same tab.
Known(c) ==
  \E d \in stored :
    /\ InWindow(d) /\ SameTab(c, d)
    /\ \/ SameKey(KeyOf(c, freshNamed), KeyOf(d, named))
       \/ SamePageAsRow(c, d)

(***************************************************************************)
(* insert_articles: a link is stored once, and of two copies of a batch    *)
(* with one link the global tab's comes first.  A row without its outlet's *)
(* name gets it from any copy of the batch with its link.                  *)
(***************************************************************************)
New(copies) ==
  {c \in copies :
    /\ \A d \in stored : Link[d] # Link[c]
    /\ \A d \in copies : Link[d] = Link[c] /\ d # c => c \notin Thai}

Insert(copies, ages, names) ==
  LET rows == stored \cup New(copies)
      filled == {d \in rows : \E c \in copies \cap names : Link[c] = Link[d]}
  IN /\ stored' = rows
     /\ age' = [c \in Copies |-> IF c \in New(copies) THEN ages[c] ELSE age[c]]
     /\ named' = named \cup filled
     /\ renamed' = renamed \cup (filled \ (named \cup (copies \cap names)))
     /\ gained' = (gained \/ New(copies) # {})
     /\ UNCHANGED resolved

\* keep_recent: a date more than an hour ahead becomes now.
Recent(dates) == {c \in DOMAIN dates : dates[c] <= Window}
Dated(dates) ==
  [c \in Copies |-> IF c \in Recent(dates) /\ dates[c] >= -Ahead THEN dates[c] ELSE 0]

(***************************************************************************)
(* The fast lane.                                                          *)
(***************************************************************************)
Backoff(n) == Lower(MaxBackoff, Doubled[n])
Counted(n) == Lower(n, Doublings + 1)  \* the counter stops where the doubling does

Failed(retry) ==
  /\ failures' = Counted(failures + 1)
  /\ wait' = Higher(Backoff(failures'), retry)
  /\ share' = Lower(MaxBackoff, 2 * share)
  /\ due' = Higher(share, retry)

\* mutation: a feed that is due is put off as well
DeferAlways ==
  /\ phase = "idle"
  /\ phase' = "gather" /\ gained' = FALSE
  /\ UNCHANGED <<table, batch, poll>>

\* The feed is not asked before its time.
Defer ==
  /\ phase = "idle" /\ wait > 0
  /\ phase' = "gather" /\ gained' = FALSE
  /\ UNCHANGED <<table, batch, poll>>

Answered ==
  /\ failures' = 0 /\ wait' = 1
  /\ share' = 1 /\ due' = 1

\* The answer's alerts are inserted as they are, no similarity asked.
Alerts ==
  /\ phase = "idle" /\ wait = 0
  /\ Answered
  /\ \E listed \in SUBSET Juice : \E dates \in [listed -> FeedAges] :
       Insert(Recent(dates), Dated(dates), {})
  /\ phase' = "gather"
  /\ UNCHANGED batch

\* The answer came, but the insert raised: the cycle is over.
AlertsLost ==
  /\ phase = "idle" /\ wait = 0
  /\ Answered
  /\ UNCHANGED <<table, batch, phase, gained>>

Refused ==
  /\ phase = "idle" /\ wait = 0
  /\ \E retry \in Retries : Failed(retry)
  /\ phase' = "gather" /\ gained' = FALSE
  /\ UNCHANGED <<table, batch>>

(***************************************************************************)
(* The rest of the cycle.  dedupe walks the batch of a tab newest first    *)
(* and keeps what repeats nothing kept before; copies of one age come in   *)
(* any order.                                                              *)
(***************************************************************************)
Deduped ==
  {kept \in SUBSET fresh' :
    /\ \A c, d \in kept : c # d /\ SameTab(c, d) => ~Repeats(c, d)'
    /\ \A c \in fresh' \ kept : \E d \in kept :
          SameTab(c, d) /\ Repeats(c, d)' /\ freshAge'[d] <= freshAge'[c]}

Gather ==
  /\ phase = "gather"
  /\ \E listed \in SUBSET Ordinary : \E dates \in [listed -> FeedAges] :
       /\ fresh' = Recent(dates)
       /\ freshAge' = Dated(dates)
       /\ \E names \in SUBSET (Recent(dates) \cap Naming) : freshNamed' = names
  /\ hand' \in Deduped
  /\ phase' = "compare"
  /\ UNCHANGED <<table, poll, gained>>

\* drop_already_stored; the copies of a batch are no exact repetition of each other by now.
Compare ==
  /\ phase = "compare"
  /\ hand' = {c \in hand : ~Known(c)}
  /\ phase' = "store"
  /\ UNCHANGED <<table, fresh, freshAge, freshNamed, poll, gained>>

NoBatch == fresh' = {} /\ freshAge' = NoAges /\ freshNamed' = {} /\ hand' = {}

Store ==
  /\ phase = "store"
  /\ Insert(hand, freshAge, freshNamed)
  /\ NoBatch /\ phase' = "close"
  /\ UNCHANGED poll

\* prune_archive, when the cycle inserted anything.
Close ==
  /\ phase = "close"
  /\ LET kept == {c \in stored : gained => age[c] <= Archive}
     IN /\ stored' = kept
        /\ age' = [c \in Copies |-> IF c \in kept THEN age[c] ELSE 0]
        /\ named' = named \cap kept /\ renamed' = renamed \cap kept
        /\ UNCHANGED resolved
  /\ phase' = "idle" /\ gained' = FALSE
  /\ UNCHANGED <<batch, poll>>

\* An exception anywhere in the cycle: refresh logs it and the loop goes on.
Fail ==
  /\ phase # "idle"
  /\ NoBatch /\ phase' = "idle" /\ gained' = FALSE
  /\ UNCHANGED <<table, poll>>

Ask == Alerts \/ AlertsLost \/ Refused
Cycle == Defer \/ Ask \/ Gather \/ Compare \/ Store \/ Close \/ Fail

(***************************************************************************)
(* Around the cycle: the resolver of the publishing job, the clock, and    *)
(* the restart of the service, which forgets the feed's state.             *)
(***************************************************************************)
Resolve ==
  \E c \in stored \cap Aggregated :
    /\ Link[c] \notin resolved
    /\ resolved' = resolved \cup {Link[c]}
    /\ UNCHANGED <<stored, age, named, renamed, batch, poll, phase, gained>>

Older(a) == IF a > Archive THEN a ELSE a + 1
Hour ==
  /\ stored \cup fresh # {}
  /\ age' = [c \in Copies |-> IF c \in stored THEN Older(age[c]) ELSE 0]
  /\ freshAge' = [c \in Copies |-> IF c \in fresh THEN Older(freshAge[c]) ELSE 0]
  /\ UNCHANGED <<stored, named, resolved, renamed, fresh, freshNamed, hand, poll, phase, gained>>

Minute ==
  /\ wait > 0
  /\ wait' = wait - 1
  /\ due' = IF due > 0 THEN due - 1 ELSE 0
  /\ UNCHANGED <<table, batch, failures, share, phase, gained>>

Restart ==
  /\ phase' = "idle" /\ gained' = FALSE /\ NoBatch
  /\ wait' = 0 /\ failures' = 0 /\ share' = 1 /\ due' = 0
  /\ UNCHANGED table

Next == Cycle \/ Resolve \/ Hour \/ Minute \/ Restart

Spec == Init /\ [][Next]_vars

\* The thread is a daemon whose loop catches every exception, and time passes.
FairSpec == Spec /\ WF_vars(Cycle) /\ WF_vars(Minute)

-----------------------------------------------------------------------------
TypeOK ==
  /\ stored \subseteq Copies /\ named \subseteq stored /\ renamed \subseteq named
  /\ age \in [Copies -> Ages] /\ freshAge \in [Copies -> Ages]
  /\ resolved \subseteq Links
  /\ phase \in {"idle", "gather", "compare", "store", "close"} /\ gained \in BOOLEAN
  /\ fresh \subseteq Ordinary /\ freshNamed \subseteq fresh /\ hand \subseteq fresh
  /\ wait \in Nat /\ due \in Nat
  /\ failures \in 0 .. Doublings + 1 /\ share \in 1 .. MaxBackoff
  /\ \A c, d \in stored : Link[c] = Link[d] => c = d

\* Two stories of one tab's window never share a headline or a publisher's page, however often and
\* under however many links the feeds repeat them ("not stored twice", drop_already_stored) - unless
\* the other tab's copy gave one of them its outlet's name after it was stored.
NoTwins ==
  \A c, d \in (stored \cap Ordinary) \ renamed :
    c # d /\ SameTab(c, d) /\ InWindow(c) /\ InWindow(d) =>
      /\ ~SameKey(KeyOf(c, named), KeyOf(d, named))
      /\ ~SamePage(c, d)

\* Whatever a cycle gathered is in its tab once the cycle has stored, as itself or as a story it
\* repeats; the only way out is that the copy kept for it has a link the other tab already holds.
Stands(b) ==
  \E d \in stored' :
    /\ SameTab(b, d)
    /\ \/ Link[b] = Link[d]
       \/ SameKey(KeyOf(b, freshNamed), KeyOf(d, named))  \* as it read when compared
       \/ SamePageAsRow(b, d)
HeldElsewhere(b) == \E d \in stored' : Link[d] = Link[b] /\ ~SameTab(b, d)

Represented ==
  [][phase = "store" /\ phase' = "close" =>
       \A c \in fresh : \E b \in fresh :
         /\ b = c \/ (SameTab(b, c) /\ Repeats(c, b))
         /\ Stands(b) \/ HeldElsewhere(b)]_vars

\* The feed is left alone for as long as it asked for: a minute after an answer, the doubled share
\* after refusals in a row, never less than its Retry-After.  Only a restart forgets.
Patience == due <= wait

\* The feed is asked again and again, whatever it answered and whatever failed.
KeepsAsking == []<><<Ask>>_vars

\* Every variable has its shape, no tab holds a story twice, and the feed is not asked too soon.
ArchiveSound == TypeOK /\ NoTwins /\ Patience

\* No gathered story is lost, and the feed is asked again and again.
StoriesKept == Represented /\ KeepsAsking
=============================================================================
