--------------------------- MODULE MCArticleWorker ----------------------------
(* Small instances of ArticleWorker: a clean body, a clean one that names  *)
(* Google News and so stays dirty for the fetcher, and one with a trailing *)
(* section the fetcher's markers do not know.  Beside it the collectors,   *)
(* the pictures and the headlines; in a behaviour one moves.               *)
EXTENDS ArticleWorker, Integers, FiniteSets, TLC

CONSTANTS l1, clean, mention, trailer, w1, w2, Lanes

\* The component that moves; the others stay in an initial state of theirs.
VARIABLES lane,
  sources_source, sources_published, sources_aged, sources_archive, sources_turn, sources_panel,
  sources_direct_retry_after,
  pictures_stored, pictures_image, pictures_video, pictures_media_checked_at, pictures_resolved,
  pictures_originals, pictures_loaded_at,
  headlines_stored, headlines_korean, headlines_batch, headlines_tool, headlines_sweeps

sourcesVars == <<sources_source, sources_published, sources_aged, sources_archive, sources_turn,
    sources_panel, sources_direct_retry_after>>
picturesVars == <<pictures_stored, pictures_image, pictures_video, pictures_media_checked_at,
    pictures_resolved, pictures_originals, pictures_loaded_at>>
headlinesVars == <<headlines_stored, headlines_korean, headlines_batch, headlines_tool,
    headlines_sweeps>>
allVars == <<lane, vars, sourcesVars, picturesVars, headlinesVars>>

SourceKind ==
  "sbh" :> "sbh" @@ "mid" :> "mideast" @@ "tg" :> "telegram" @@ "rss" :> "rss" @@ "cn" :> "coinness"
    @@ "wh" :> "official" @@ "bsky" :> "bluesky" @@ "gn" :> "google" @@ "open" :> "open"
SourceEvery == [s \in DOMAIN SourceKind |-> IF s = "rss" THEN 2 ELSE 1]
SourceWords ==
  "sbh" :> <<{"untitled"}, {}, {"repeat"}, {"undated"}>>
    @@ "mid" :> <<{}, {}, {"undated"}, {"untitled"}>>
    @@ "tg" :> <<{"small"}, {"undated"}, {}, {"repeat"}>>
    @@ "rss" :> <<{}, {"undated"}, {"unlinked"}, {}>>
    @@ "wh" :> <<{}, {"untitled"}, {}, {"repeat"}>>
    @@ "cn" :> <<{"untitled"}, {}, {}, {}>>
    @@ "bsky" :> <<{"repost"}, {}, {"reply"}, {}>>
    @@ "gn" :> <<{"offtopic"}, {}, {"blocked"}, {}>>
    @@ "open" :> <<{}, {}, {"repeat"}, {}>>

sources == INSTANCE Sources WITH
  Items <- 1..4, Sources <- DOMAIN SourceKind, Kind <- SourceKind, Every <- SourceEvery,
  Words <- SourceWords, Length <- 4, Cap <- 2, Rest <- 1, source <- sources_source,
  published <- sources_published, aged <- sources_aged, archive <- sources_archive,
  turn <- sources_turn, panel <- sources_panel, direct_retry_after <- sources_direct_retry_after

pictures == INSTANCE Pictures WITH
  Stories <- 1..3, Aggregated <- {2}, Limit <- 1, Retry <- 3, TTL <- 1, Never <- NoText,
  stored <- pictures_stored, image <- pictures_image, video <- pictures_video,
  media_checked_at <- pictures_media_checked_at, resolved <- pictures_resolved,
  originals <- pictures_originals, loaded_at <- pictures_loaded_at

headlines == INSTANCE Headlines WITH
  Stories <- 1..3, FinancialJuice <- {2, 3}, Thai <- {}, Published <- <<3, 1, 3>>, Refused <- {3},
  Batch <- 2, BatchSize <- 2, Limits <- {0, 1}, MaxSweeps <- 1, stored <- headlines_stored,
  korean <- headlines_korean, batch <- headlines_batch, tool <- headlines_tool,
  sweeps <- headlines_sweeps

LaneInit ==
  /\ lane \in Lanes /\ Init
  /\ lane = "article" \/ stored = {}
  /\ sources!Init
  /\ lane = "sources" \/ sources_source = "sbh"
  /\ pictures!Init
  /\ headlines!Init

ArticleStep(A) == lane = "article" /\ A /\ UNCHANGED <<lane, sourcesVars, picturesVars,
      headlinesVars>>
SourcesStep(A) == lane = "sources" /\ A /\ UNCHANGED <<lane, vars, picturesVars, headlinesVars>>
PicturesStep(A) == lane = "pictures" /\ A /\ UNCHANGED <<lane, vars, sourcesVars, headlinesVars>>
HeadlinesStep(A) == lane = "headlines" /\ A /\ UNCHANGED <<lane, vars, sourcesVars, picturesVars>>

LaneNext ==
  \/ \E l \in Links :
       \/ ArticleStep(Elapse(l)) \/ ArticleStep(Hide(l))
       \/ ArticleStep(IngestAnswer(l))
  \/ \E l \in Links, b \in Texts : ArticleStep(Backfill(l, b))
  \/ \E l \in Links, b \in Texts \cup {NoText} : ArticleStep(Insert(l, b))
  \/ ArticleStep(IngestSelect) \/ ArticleStep(Requeue)
  \/ \E w \in Workers :
       \/ ArticleStep(BeginFetch(w)) \/ ArticleStep(Work(w))
       \/ ArticleStep(Kill(w))
  \/ SourcesStep(sources!Misses) \/ SourcesStep(sources!Hears) \/ SourcesStep(sources!Tick) \/ \E i \in 1..4 :
       \/ SourcesStep(sources!Publish(i)) \/ SourcesStep(sources!Age(i))
  \/ PicturesStep(pictures!Cycle) \/ \E s \in 1..3 :
       \/ PicturesStep(pictures!Insert(s)) \/ PicturesStep(pictures!FeedPicture(s))
       \/ PicturesStep(pictures!Resolve(s))
  \/ HeadlinesStep(headlines!BeginCycle)
  \/ \E s \in 1..3 :
       \/ HeadlinesStep(headlines!Translate(s)) \/ HeadlinesStep(headlines!GiveUp(s))
       \/ HeadlinesStep(headlines!Store(s)) \/ HeadlinesStep(headlines!Sweep(s))
  \/ \E max \in {0, 1} : HeadlinesStep(headlines!StartBackfill(max))
  \/ HeadlinesStep(headlines!Backfill) \/ HeadlinesStep(headlines!Halt)

LaneSpec == LaneInit /\ [][LaneNext]_allVars

(* The fairness each component states.  A lane never changes, so fairness of *)
(* a disjunction of steps of different lanes is fairness of each.            *)
LaneFairSpec ==
  /\ LaneSpec
  /\ \A w \in Workers : WF_allVars(ArticleStep(Work(w)))
  /\ WF_allVars(\/ SourcesStep(sources!Misses) \/ PicturesStep(pictures!Cycle)
                \/ HeadlinesStep(headlines!BeginCycle))
  /\ WF_allVars(HeadlinesStep(headlines!Backfill))
  /\ \A s \in 1..3 : WF_allVars(HeadlinesStep(headlines!GiveUp(s)))
  /\ SF_allVars(SourcesStep(sources!Hears) \/ HeadlinesStep(headlines!Translate(1)))
  /\ \A s \in {2, 3} : SF_allVars(HeadlinesStep(headlines!Translate(s)))

-----------------------------------------------------------------------------
\* The component is the one that moves; said for ever, so that one graph serves every property.
Moves(c) == <>[](lane = c)

\* The properties of the components.
\* A listed story is stored sooner or later (Sources.tla).
StoriesStored == Moves("sources") => sources!StoriesStored
\* Every stored story has its page looked at (Pictures.tla).
\* Every headline is translated, and the backfill ends (Headlines.tla).
EveryStoryServed ==
  /\ Moves("pictures") => pictures!EveryStoryChecked
  /\ Moves("headlines") => headlines!EveryStoryTranslated /\ headlines!BackfillEnds
=============================================================================
