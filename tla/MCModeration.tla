----------------------------- MODULE MCModeration -----------------------------
(* A post, a comment on it and a news comment, whose keys collide with a report's. *)
(* Beside it three other parts of the community site; in a behaviour one of them   *)
(* moves.                                                                          *)
EXTENDS Moderation, FiniteSets, Sequences, TLC

CONSTANTS p1, c1, n1, m1, m2,
  Lanes, None, Absent, Asked,
  \* Of the components beside Moderation; their modules say what each is.
  Writers, Staff, BoardTabs, BoardCategories, Subdivisions, PostTexts, MaxPostImages, MaxVersion,
  Talkers, Author, Slots, MaxMarks,
  FeedStories, Caught, Unprintable, SourceOf, FeedSources, PageSize, Present

\* No row and an empty field are none of the values.
ASSUME BoardsAssumption ==
  /\ None \notin PostTexts \cup BoardCategories \cup {"notice", "free", "market", "jobs", "living"}
  /\ Absent \notin BoardCategories \cup {"notice"}
  /\ MaxPostImages \in Nat
ASSUME TalkAssumption ==
  /\ IsFiniteSet(Slots) /\ None \notin Slots
  /\ None \notin [author : Talkers, parent : Slots \cup {None}, status : {"published", "hidden", "deleted"}]
ASSUME FeedAssumption == IsFiniteSet(FeedStories) /\ FeedStories \subseteq Nat /\ Present \in Nat

MCPostOf == c1 :> p1
MCPk == p1 :> 1 @@ c1 :> 2 @@ n1 :> 1
MCSourceOf == <<"a", "b", "a">>
Symmetric == Permutations(Moderators)

\* The component that moves; the others stay in an initial state of theirs.
VARIABLES lane,
  boards_post, boards_tab,
  talk_post, talk_comment, talk_blocks, talk_notes, talk_marks,
  feed_status, feed_hidden, feed_kept, feed_ruleOn, feed_off, feed_list, feed_more, feed_loading,
  feed_seen, feed_pending, feed_baselineReady, feed_busy, feed_cursor, feed_passedOver

boardsVars == <<boards_post, boards_tab>>
talkVars == <<talk_post, talk_comment, talk_blocks, talk_notes, talk_marks>>
feedVars == <<feed_status, feed_hidden, feed_kept, feed_ruleOn, feed_off, feed_list, feed_more,
    feed_loading, feed_seen, feed_pending, feed_baselineReady, feed_busy, feed_cursor,
    feed_passedOver>>
allVars == <<lane, vars, boardsVars, talkVars, feedVars>>

boards == INSTANCE Boards WITH
  Members <- Writers, Staff <- Staff, Tabs <- BoardTabs, Categories <- BoardCategories,
  Subdivisions <- Subdivisions, Texts <- PostTexts, MaxPostImages <- MaxPostImages,
  MaxVersion <- MaxVersion, None <- None, Absent <- Absent, post <- boards_post, tab <- boards_tab

talk == INSTANCE Talk WITH
  Members <- Talkers, Author <- Author, Slots <- Slots, MaxMarks <- MaxMarks, None <- None,
  post <- talk_post, comment <- talk_comment, blocks <- talk_blocks, notes <- talk_notes,
  marks <- talk_marks

feed == INSTANCE NewsFeed WITH
  Stories <- FeedStories, Caught <- Caught, Unprintable <- Unprintable, SourceOf <- SourceOf,
  Sources <- FeedSources, PageSize <- PageSize, Present <- Present, None <- None, Asked <- Asked,
  status <- feed_status, hidden <- feed_hidden, kept <- feed_kept, ruleOn <- feed_ruleOn,
  off <- feed_off, list <- feed_list, more <- feed_more, loading <- feed_loading, seen <- feed_seen,
  pending <- feed_pending, baselineReady <- feed_baselineReady, busy <- feed_busy,
  cursor <- feed_cursor, passedOver <- feed_passedOver

LaneInit ==
  /\ lane \in Lanes /\ Init
  /\ boards!Init
  /\ talk!Init
  /\ feed!Init
  /\ lane = "feed" \/ \A s \in FeedStories : feed_status[s] = "ready"

ModerationStep(A) == lane = "moderation" /\ A /\ UNCHANGED <<lane, boardsVars, talkVars, feedVars>>
BoardsStep(A) == lane = "boards" /\ A /\ UNCHANGED <<lane, vars, talkVars, feedVars>>
TalkStep(A) == lane = "talk" /\ A /\ UNCHANGED <<lane, vars, boardsVars, feedVars>>
FeedStep(A) == lane = "feed" /\ A /\ UNCHANGED <<lane, vars, boardsVars, talkVars>>

LaneNext ==
  \/ \E u \in Members, c \in Posts \cup Comments, i \in Reports :
       ModerationStep(CreateReport(u, c, i))
  \/ \E m \in Moderators : ModerationStep(Moderator(m))
  \/ \E o \in Operators, p \in Posts : ModerationStep(OperatorPostAction(o, p))
  \/ \E p \in Posts : ModerationStep(DeletePost(p))
  \/ \E c \in Posts \cup Comments, j \in Appeals :
       ModerationStep(CreateAppeal(c, j))
  \/ \E i \in Reports : ModerationStep(ResolveReport(i))
  \/ ModerationStep(PurgeExpiredReports)
  \/ \E u \in Writers :
       \/ BoardsStep(boards!PostCreate(u)) \/ BoardsStep(boards!ApiCreate(u))
       \/ BoardsStep(boards!BlindUpdate(u)) \/ BoardsStep(boards!set_resolution(u))
  \/ \E t \in BoardTabs, u \in Writers, kind \in {"form", "api"} :
       BoardsStep(boards!Open(t, u, kind))
  \/ \E t \in BoardTabs :
       \/ BoardsStep(boards!Send(t)) \/ BoardsStep(boards!PostEdit(t))
       \/ BoardsStep(boards!PartialUpdate(t))
  \/ BoardsStep(boards!SetStatus({"published"}, "hidden"))
  \/ BoardsStep(boards!SetStatus({"hidden"}, "published"))
  \/ BoardsStep(boards!SetStatus({"published", "hidden"}, "deleted"))
  \/ \E u \in Talkers, c \in Slots, parent \in {None} \cup Slots :
       TalkStep(talk!create_comment(u, c, parent))
  \/ \E u \in Talkers : \E n \in talk_notes : TalkStep(talk!notification_read(u, n))
  \/ \E u \in Talkers, kind \in {"bookmarks", "helpful"} : TalkStep(talk!engagement_action(u, kind))
  \/ \E u \in Talkers, c \in Slots : TalkStep(talk!comment_like(u, c))
  \/ \E u, v \in Talkers : TalkStep(talk!Block(u, v))
  \/ \E c \in Slots, to \in {"published", "hidden"} : TalkStep(talk!Moderate(c, to))
  \/ \E to \in talk!Status : TalkStep(talk!ModeratePost(to))
  \/ \E s \in FeedStories :
       \/ FeedStep(feed!Collect(s)) \/ FeedStep(feed!Translate(s)) \/ FeedStep(feed!Age(s))
       \/ FeedStep(feed!Hide(s)) \/ FeedStep(feed!Keep(s))
  \/ FeedStep(feed!SwitchRule) \/ \E o \in (SUBSET FeedSources) \cup {None} :
       FeedStep(feed!SwitchSource(o))
  \/ FeedStep(feed!ClickMore) \/ FeedStep(feed!AnswerMore) \/ FeedStep(feed!AppendPage)
  \/ FeedStep(feed!LoadFails)
  \/ FeedStep(feed!Poll) \/ FeedStep(feed!AnswerPoll) \/ FeedStep(feed!Take)
  \/ FeedStep(feed!PollFails) \/ FeedStep(feed!ShowPending)

LaneSpec == LaneInit /\ [][LaneNext]_allVars

-----------------------------------------------------------------------------
\* The properties of the components.
\* A post is one thing in several tables, and is found as what it shows (Boards.tla).
PostWhole == lane = "boards" => boards!PostWhole /\ boards!FoundAsShown
\* A save replaces only what its sender has seen (Boards.tla).
NothingUnseenLost == boards!NothingUnseenLost
\* The pages agree about what a member may see (Talk.tla).
PagesAgree == lane = "talk" => talk!PagesAgree
\* Two scripts share one list of news (NewsFeed.tla).
ListWhole == lane = "feed" => feed!ListWhole
=============================================================================
