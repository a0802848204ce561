------------------------------ MODULE Pictures ------------------------------
(* The pictures and videos of stored stories.  A story may come with its   *)
(* feed's picture, gets one later when the feed lists it again, or has its *)
(* publisher's page read by the media pass that ends every cycle: a few    *)
(* stories at a time, those without a picture first, then the newest, and  *)
(* none again within Retry cycles.  A Google News story's publisher page   *)
(* is known once a resolver asked Google; the collector reads that table   *)
(* through a cache.                                                        *)
EXTENDS Integers, FiniteSets

CONSTANTS Stories,       \* numbers, in the order they are collected
          Aggregated,    \* those with a Google News link
          Limit,         \* stories one pass looks at
          Retry,         \* cycles until a story is looked at again (6 hours)
          TTL,           \* cycles the map of resolved links is kept (ORIGINALS_TTL_SECONDS)
          Never

VARIABLES stored, image, video, media_checked_at, resolved, originals, loaded_at

vars == <<stored, image, video, media_checked_at, resolved, originals, loaded_at>>

Pages == {"down", "bare", "picture", "film"}

\* parse_article_media: the first usable picture and the first playable video.
Media(page) == [checked |-> page # "down",
                image |-> page \in {"picture", "film"},
                video |-> page = "film"]

(* fetch_one: the publisher's page if it is known, and the stored link's   *)
(* page when that one has no picture or does not answer.                   *)
Fetched(s, publisher, own) ==
    IF s \in originals
    THEN IF Media(publisher).image
         THEN Media(publisher)
         ELSE [checked |-> Media(publisher).checked \/ Media(own).checked,
               image |-> Media(own).image,
               video |-> Media(publisher).video \/ Media(own).video]
    ELSE Media(own)

Due == {s \in stored : media_checked_at[s] \in {Never, Retry}}

\* Without a picture first, then the newest.
Before(r, s) ==
    \/ ~image[r] /\ image[s]
    \/ image[r] = image[s] /\ r > s
Targets == {s \in Due : Cardinality({r \in Due : Before(r, s)}) < Limit}

\* Faulty variant: only the stories whose page answered are stamped.
StampedOnSuccess(found) == {s \in Targets : found[s].checked}

\* Every target is stamped, whether its page answered or not.
Stamped(found) == Targets

\* One cycle older, up to Retry.
Older(c) == IF c \in {Never, Retry} THEN c ELSE c + 1

(* backfill_article_media: the rows are chosen under the lock, the pages   *)
(* read outside it, and what they hold is written under it again; in the   *)
(* meantime only the feed's picture may arrive, and that one stays.        *)
MediaPass ==
    \E publisher, own \in [Targets -> Pages] :
        LET found == [s \in Targets |-> Fetched(s, publisher[s], own[s])]
            answered == {s \in Targets : found[s].checked}
        IN  /\ image' = [s \in Stories |-> image[s] \/ (s \in answered /\ found[s].image)]
            /\ video' = [s \in Stories |-> IF s \in answered THEN found[s].video ELSE video[s]]
            /\ media_checked_at' = [s \in Stories |->
                   IF s \in Stamped(found) THEN 0 ELSE Older(media_checked_at[s])]

\* original_links: read anew once the map is TTL old; a failure keeps it.
Reload ==
    \/ loaded_at = TTL /\ originals' = resolved /\ loaded_at' = 0
    \/ loaded_at = TTL /\ UNCHANGED <<originals, loaded_at>>
    \/ loaded_at < TTL /\ loaded_at' = loaded_at + 1 /\ UNCHANGED originals

Cycle == MediaPass /\ Reload /\ UNCHANGED <<stored, resolved>>

\* insert_articles: with the feed's picture or without.
Insert(s) ==
    /\ s \notin stored
    /\ \A r \in Stories : r < s => r \in stored
    /\ stored' = stored \cup {s}
    /\ image' \in {image, [image EXCEPT ![s] = TRUE]}
    /\ UNCHANGED <<video, media_checked_at, resolved, originals, loaded_at>>

\* backfill_feed_metadata: the feed lists a visible story again, with a picture.
FeedPicture(s) ==
    /\ s \in stored /\ ~image[s]
    /\ image' = [image EXCEPT ![s] = TRUE]
    /\ UNCHANGED <<stored, video, media_checked_at, resolved, originals, loaded_at>>

\* resolve and remember, by the pusher, the publishing job or the worker.
Resolve(s) ==
    /\ s \in (stored \cap Aggregated) \ resolved
    /\ resolved' = resolved \cup {s}
    /\ UNCHANGED <<stored, image, video, media_checked_at, originals, loaded_at>>

Init ==
    /\ stored = {}
    /\ image = [s \in Stories |-> FALSE]
    /\ video = [s \in Stories |-> FALSE]
    /\ media_checked_at = [s \in Stories |-> Never]
    /\ resolved = {} /\ originals = {}
    /\ loaded_at = TTL

Next == Cycle \/ \E s \in Stories : Insert(s) \/ FeedPicture(s) \/ Resolve(s)

Spec == Init /\ [][Next]_vars
FairSpec == Spec /\ WF_vars(Cycle)

(* Every stored story has its page looked at sooner or later, however many *)
(* others keep failing or keep being without a picture, as long as a pass  *)
(* gets round them before the first is due again.                          *)
EveryStoryChecked == \A s \in Stories : []<>(s \in stored => media_checked_at[s] # Never)
=============================================================================
