------------------------------ MODULE MCTgOutbox ------------------------------
(* Small instances of TgOutbox, and of the private messages, the upkeep, the    *)
(* price ticker and two pages beside it; in a behaviour one moves.              *)
EXTENDS TgOutbox, Integers, FiniteSets, Sequences

CONSTANTS f1, f2, s1, s2, Lanes

\* The component that moves; the others stay in an initial state of theirs.
VARIABLES lane,
  letters_blocks, letters_letters, letters_req, letters_lock, letters_page,
  upkeep_serving, upkeep_collecting, upkeep_sound, upkeep_age, upkeep_copies, upkeep_copyAge,
  upkeep_channel, upkeep_report, upkeep_delivered,
  ticker_up, ticker_deaf, ticker_page, ticker_ws, ticker_reconnectTimer, ticker_rotateTimer,
  ticker_lastValidAt, ticker_silence, ticker_state,
  newspage_CFG, newspage_V, newspage_address, newspage_hidden, newspage_asked, newspage_shown,
  frontpage_hidden, frontpage_withheld, frontpage_picked, frontpage_changes, frontpage_built,
  frontpage_lang, frontpage_open, frontpage_limit, frontpage_data, frontpage_answers,
  frontpage_cache, frontpage_pending, frontpage_brief

lettersVars == <<letters_blocks, letters_letters, letters_req, letters_lock, letters_page>>
upkeepVars == <<upkeep_serving, upkeep_collecting, upkeep_sound, upkeep_age, upkeep_copies,
    upkeep_copyAge, upkeep_channel, upkeep_report, upkeep_delivered>>
tickerVars == <<ticker_up, ticker_deaf, ticker_page, ticker_ws, ticker_reconnectTimer,
    ticker_rotateTimer, ticker_lastValidAt, ticker_silence, ticker_state>>
newspageVars == <<newspage_CFG, newspage_V, newspage_address, newspage_hidden, newspage_asked,
    newspage_shown>>
frontpageVars == <<frontpage_hidden, frontpage_withheld, frontpage_picked, frontpage_changes,
    frontpage_built, frontpage_lang, frontpage_open, frontpage_limit, frontpage_data,
    frontpage_answers, frontpage_cache, frontpage_pending, frontpage_brief>>
allVars == <<lane, vars, lettersVars, upkeepVars, tickerVars, newspageVars, frontpageVars>>

SameStory(a, b) == {a, b} = {1, 2}
StorySource(s) == IF s = 3 THEN "x" ELSE "y"
StoryPriority(s) == IF s = 2 THEN 5 ELSE 3
NoCondition ==
  [tab |-> NoItem, hours |-> 24, cats |-> {}, terms |-> {}, q |-> NoItem, source |-> NoItem,
   picked |-> FALSE, mode |-> "all"]

letters == INSTANCE Letters WITH
  Members <- {1, 2}, Reader <- 1, Requests <- {"r1", "r2"}, MaxLetters <- 1, None <- NoItem,
  blocks <- letters_blocks, letters <- letters_letters, req <- letters_req, lock <- letters_lock,
  page <- letters_page

upkeep == INSTANCE Upkeep WITH
  MAX_AGE <- 1, BACKUP_MAX_AGE <- 2, KEEP <- 2, serving <- upkeep_serving,
  collecting <- upkeep_collecting, sound <- upkeep_sound, age <- upkeep_age,
  copies <- upkeep_copies, copyAge <- upkeep_copyAge, channel <- upkeep_channel,
  report <- upkeep_report, delivered <- upkeep_delivered

ticker == INSTANCE Ticker WITH
  STALE <- 1, up <- ticker_up, deaf <- ticker_deaf, page <- ticker_page, ws <- ticker_ws,
  reconnectTimer <- ticker_reconnectTimer, rotateTimer <- ticker_rotateTimer,
  lastValidAt <- ticker_lastValidAt, silence <- ticker_silence, state <- ticker_state

newspage == INSTANCE NewsPage WITH
  Categories <- {"c1"}, Sources <- {"s1"}, Words <- {"w1"}, Hours <- {24, 168}, TermLimit <- 1,
  Modes <- {"all", "official"}, MaxAsked <- 2, None <- NoItem, CFG <- newspage_CFG, V <- newspage_V,
  address <- newspage_address, hidden <- newspage_hidden, asked <- newspage_asked,
  shown <- newspage_shown

frontpage == INSTANCE FrontPage WITH
  Stories <- 1..3, Same <- SameStory, Source <- StorySource, Priority <- StoryPriority,
  Social <- {}, Alerts <- {3}, InKorean <- {1, 3}, PAGE <- 1, MAX_LIMIT <- 3, SIZE <- 2,
  Given <- {{}, {1, 3}}, MaxAsked <- 2, MaxChanges <- 1, None <- NoItem, hidden <- frontpage_hidden,
  withheld <- frontpage_withheld, picked <- frontpage_picked, changes <- frontpage_changes,
  built <- frontpage_built, lang <- frontpage_lang, open <- frontpage_open,
  limit <- frontpage_limit, data <- frontpage_data, answers <- frontpage_answers,
  cache <- frontpage_cache, pending <- frontpage_pending, brief <- frontpage_brief

LaneInit ==
  /\ lane \in Lanes /\ Init
  /\ letters!Init
  /\ upkeep!Init
  /\ ticker!Init
  /\ lane = "ticker" \/ ticker_up
  /\ newspage!Init
  /\ lane = "newspage" \/ (~newspage_CFG.wantThai /\ ~newspage_CFG.admin /\ newspage_address = NoCondition)
  /\ frontpage!Init
  /\ lane = "frontpage" \/ (frontpage_picked = {} /\ frontpage_lang = "en")

OutboxStep(A) == lane = "outbox" /\ A /\ UNCHANGED <<lane, lettersVars, upkeepVars, tickerVars,
      newspageVars, frontpageVars>>
LettersStep(A) == lane = "letters" /\ A /\ UNCHANGED <<lane, vars, upkeepVars, tickerVars,
      newspageVars, frontpageVars>>
UpkeepStep(A) == lane = "upkeep" /\ A /\ UNCHANGED <<lane, vars, lettersVars, tickerVars,
      newspageVars, frontpageVars>>
TickerStep(A) == lane = "ticker" /\ A /\ UNCHANGED <<lane, vars, lettersVars, upkeepVars,
      newspageVars, frontpageVars>>
NewspageStep(A) == lane = "newspage" /\ A /\ UNCHANGED <<lane, vars, lettersVars, upkeepVars,
      tickerVars, frontpageVars>>
FrontpageStep(A) == lane = "frontpage" /\ A /\ UNCHANGED <<lane, vars, lettersVars, upkeepVars,
      tickerVars, newspageVars>>

LaneNext ==
  \/ \E n \in Names, s \in Stories : OutboxStep(Write(n, s))
  \/ \E s \in Stories : OutboxStep(TickerPosts(s))
  \/ OutboxStep(Serve)
  \/ OutboxStep(Mishap)
  \/ \E r \in {"r1", "r2"}, kind \in letters!Kinds, u, v \in {1, 2} :
       LettersStep(letters!Begin(r, kind, u, v))
  \/ \E r \in {"r1", "r2"} :
       \/ LettersStep(letters!LockRow(r)) \/ LettersStep(letters!Check(r))
       \/ LettersStep(letters!Commit(r))
  \/ \E l \in letters_letters : LettersStep(letters!Read(l))
  \/ LettersStep(letters!TimerFires) \/ LettersStep(letters!Count) \/ LettersStep(letters!Arrive)
  \/ LettersStep(letters!Fail) \/ LettersStep(letters!Turn)
  \/ UpkeepStep(upkeep!Story) \/ UpkeepStep(upkeep!Hour) \/ UpkeepStep(upkeep!Turn)
  \/ UpkeepStep(upkeep!BackUp) \/ UpkeepStep(upkeep!Watch)
  \/ \E force \in BOOLEAN : UpkeepStep(upkeep!SetChannel(force))
  \/ UpkeepStep(upkeep!ChannelRefuses)
  \/ TickerStep(ticker!onopen) \/ TickerStep(ticker!readMiniTicker) \/ TickerStep(ticker!onerror)
  \/ TickerStep(ticker!onclose)
  \/ TickerStep(ticker!Reconnect) \/ TickerStep(ticker!Rotate) \/ TickerStep(ticker!updateFreshness)
  \/ TickerStep(ticker!Tick)
  \/ TickerStep(ticker!Online) \/ TickerStep(ticker!Hide) \/ TickerStep(ticker!Show)
  \/ TickerStep(ticker!PageHide) \/ TickerStep(ticker!PageShow)
  \/ TickerStep(ticker!Exchange) \/ TickerStep(ticker!GoesDeaf)
  \/ \E tab \in {"global", "thai", "cal"} : NewspageStep(newspage!setTab(tab))
  \/ NewspageStep(newspage!PickPill) \/ NewspageStep(newspage!AllPill)
  \/ NewspageStep(newspage!ClearTrends)
  \/ \E c \in {"c1"} :
       \/ NewspageStep(newspage!CategoryPill(c)) \/ NewspageStep(newspage!dropCond("cat", c))
  \/ \E s \in {"s1"} : NewspageStep(newspage!dropCond("src", s))
  \/ \E tag \in newspage!Tags : NewspageStep(newspage!Chip(tag))
  \/ \E w \in {"w1"} :
       \/ NewspageStep(newspage!Trend(w)) \/ NewspageStep(newspage!qadd(w))
       \/ NewspageStep(newspage!dropCond("term", w))
  \/ \E w \in {"w1"} \cup {NoItem} : NewspageStep(newspage!Typed(w))
  \/ \E h \in {24, 168} : NewspageStep(newspage!hours(h))
  \/ NewspageStep(newspage!poll) \/ NewspageStep(newspage!Hide) \/ NewspageStep(newspage!Show)
  \/ NewspageStep(newspage!Reload)
  \/ \E kind \in {"present", "earlier"} :
       \/ NewspageStep(newspage!Answer(kind)) \/ NewspageStep(newspage!Fail(kind))
  \/ \E s \in 1..3 :
       \/ FrontpageStep(frontpage!Hide(s)) \/ FrontpageStep(frontpage!Withhold(s))
       \/ FrontpageStep(frontpage!Pick(s))
  \/ FrontpageStep(frontpage!Build) \/ FrontpageStep(frontpage!Load)
  \/ FrontpageStep(frontpage!poll) \/ FrontpageStep(frontpage!PressMore)
  \/ \E a \in frontpage_answers :
       \/ FrontpageStep(frontpage!Apply(a)) \/ FrontpageStep(frontpage!Fail(a))
  \/ FrontpageStep(frontpage!BriefingRows) \/ FrontpageStep(frontpage!BriefingFails)
  \/ FrontpageStep(frontpage!Age)

LaneSpec == LaneInit /\ [][LaneNext]_allVars

(* The fairness each component states.  A lane never changes, so fairness of *)
(* a disjunction of steps of different lanes is fairness of each.            *)
LaneFairSpec ==
  /\ LaneSpec
  /\ WF_allVars(\/ OutboxStep(Serve) \/ TickerStep(ticker!Tick) \/ UpkeepStep(upkeep!Hour)
                \/ LettersStep(letters!TimerFires) \/ NewspageStep(newspage!poll)
                \/ FrontpageStep(frontpage!Load))
  /\ WF_allVars(\/ TickerStep(ticker!onclose) \/ UpkeepStep(upkeep!Watch)
                \/ LettersStep(letters!Check("r1")) \/ FrontpageStep(frontpage!poll)
                \/ NewspageStep(newspage!Answer("present") \/ newspage!Fail("present")))
  /\ WF_allVars(\/ TickerStep(ticker!Reconnect) \/ LettersStep(letters!Check("r2"))
                \/ FrontpageStep(frontpage!Age)
                \/ NewspageStep(newspage!Answer("earlier") \/ newspage!Fail("earlier")))
  /\ WF_allVars(\/ TickerStep(ticker!Rotate) \/ LettersStep(letters!Commit("r1"))
                \/ FrontpageStep(\E a \in frontpage_answers : frontpage!Apply(a) \/ frontpage!Fail(a)))
  /\ WF_allVars(LettersStep(letters!Arrive))
  /\ WF_allVars(\/ LettersStep(letters!Commit("r2"))
                \/ FrontpageStep(frontpage!BriefingRows \/ frontpage!BriefingFails))
  /\ SF_allVars(\/ TickerStep(ticker!onopen) \/ LettersStep(letters!LockRow("r1"))
                \/ NewspageStep(newspage!Answer("present")) \/ FrontpageStep(frontpage!PressMore))
  /\ SF_allVars(\/ TickerStep(ticker!readMiniTicker) \/ LettersStep(letters!LockRow("r2"))
                \/ FrontpageStep(frontpage!Apply(frontpage!Answer(frontpage_lang, frontpage_limit))))
  /\ SF_allVars(LettersStep(letters!Count) \/ FrontpageStep(frontpage!BriefingRows))

-----------------------------------------------------------------------------
\* The component is the one that moves; said for ever, so that one graph serves every property.
Moves(c) == <>[](lane = c)

\* The properties of the components.
\* No message under a block; requests end, and the page's count catches up (Letters.tla).
LettersKept == letters!NoLetterUnderBlock /\ (Moves("letters") => letters!AllAnswered)
\* A collector that stopped is told of (Upkeep.tla), and prices become fresh again (Ticker.tla).
OutagesPass ==
  /\ Moves("upkeep") => upkeep!StopIsTold
  /\ Moves("ticker") => ticker!PricesReturn
\* The list and the address are those of the selection (NewsPage.tla).
SelectionShown ==
  /\ [](lane = "newspage" => newspage!AddressAsksSame)
  /\ Moves("newspage") => newspage!ListCatchesUp
\* What is taken away leaves an open page, and the button reaches every story (FrontPage.tla).
PageFollows ==
  Moves("frontpage") => frontpage!TakenAwayLeaves /\ frontpage!EveryStoryReached
=============================================================================
