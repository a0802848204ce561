# A verification project for teemobkk-live-news

TLA+ models of the parts of this program in which several actors, crashes, retries or late answers
meet the same state, the TLC configurations that check them on small instances, and proofs that
TLAPS checks for every value of the constants.

The program is two sites in one repository. The **news side** collects stories every two minutes
into one SQLite table, translates and summarizes them, shows them in a dashboard with an operator's
filters, publishes a public list, and pushes some of the stories into a Telegram channel. The
**community side** (`thai_platform`, Django on SQLite) has member accounts, boards, comments,
reports, private messages and appeals. What they share is read-only: the community site projects the
news table.

## 1. Inventory

### 1.1 Modelled components

| Component | State it keeps | Operations | Who else touches that state |
|---|---|---|---|
| Telegram pusher, `deploy/tg_push.py` | `tg_posted`, the lock file, the channel | `tick` (timer, or by hand), `post_parts` (agent) | the outbox drain, a second tick, the collector |
| Rehearsals, `tg_push.py --replay`, `--dry-run`, `--shape-check` | the replay's own memory and hour, what is printed | walk a past window, render, check a text | nobody but the lock, which a dry run takes |
| Agent outbox, `drain_outbox`, `tg_outbox_drain.sh` | the watched, the staging, the `done/` and the `failed/` directory | start, stage, drain, set aside | the agent writing files, the ticker, systemd killing the unit |
| Filter rules, `server/live_news_dashboard.py` | `filter_rules`, `filter_hits`, `filter_keeps` | add, switch, reword, delete, rescan, keep | threads of several operators, the collector, restarts |
| Learned rules, `pipeline/filter_learn.py` | rules proposed from hidden titles | learn, add by hand, delete | two tabs of the operator, the collector |
| Scores and categories, `ai_score.py`, `category_rules.py` | `ai_priority`, `categories` | score in batches, label, read back | overlapping runs, the operator's rules, a new release |
| Operator desk, `do_POST` and the admin page | hidden links, picks, hidden sources, interval | hide, pick, switch, set interval, lists, undo | threads, the operator's open page, restarts |
| Operator sessions, `server/admin_auth.py` | password file, tokens, revocations, failures | log in, log out, gate | threads, the password tool, restarts |
| Economic calendar, `server/econ_calendar.py` | one payload of three days | fetch nine pages, attach names, serve | every thread that finds the payload old |
| Collector, `collect_news`, `NewsState` | `articles` (links, times, names), the poll state of one feed | a cycle of five phases, pruning | HTTP handlers, the link resolver, restarts |
| Source collectors, `collectors/` | the turn and the rest of each source, what is stored | one poll under caps, orders and ages | the source, which moves on |
| Pictures, `backfill_article_media` | image and stamp columns, the cache of resolved links | feed picture, media pass, recheck | the resolver, new stories |
| Headlines, `translate_pending`, `backfill_translations.py` | `title_ko`, `summary_ko` | a cycle's batch, the backfill process | each other, the sweep |
| Article bodies, `full_article_worker.py` | body, translation, summary, status and stamps | fetch, translate, summarize, sweep | a second worker, the collector, backfills |
| Public list, `collect_public.py` | the file of the run before | one run: collect, resolve, merge | nobody; runs do not overlap |
| Archive tools, `vps_merge_db.py`, `retag_categories.py`, `import_blog_posts.py` | the database files on the host | retag, import, merge, move | the collector, kills between two steps |
| Publishing, `vps_update.sh`, `publish_server_news_pages.py` | the served files, temporary files | build, stage, copy, move | each other, readers |
| Cutover, `cutover_4c6eb61_dbstep.py` | the community database, its backup, the service | back up, migrate, verify, re-backfill, restore, activate | members writing while it should be stopped |
| Upkeep, `backup_db.py`, `watch_site.py` | copies, the last report, the channel | back up, prune, watch, notify | the site that fails and recovers |
| Dashboard page, `page_build.py` | the seed, the list, the briefing, the selection `V`, the address | load, more, poll, select, reload | the operator hiding stories, late answers |
| Price strip, `mexc-ticker.js` | one socket, its timers, the state shown | connect, read, rotate, reconnect, hide | the exchange and the network |
| Boards, `community/services.py`, `web.py`, `api.py` | posts, content rows, board fields, pictures, versions | create, edit, transfer, resolve, search | forms that come back late, API clients, operators |
| Comments and notifications | comments, likes, bookmarks, notifications | comment, reply, mark, read, block | members, moderators |
| Private messages, `private_messages.py` | messages, blocks, the page's counter | send, block, unblock, read, count | two members at once, late answers |
| News in the community, `news.py`, `static/news-*.js` | an open list, two scripts' view of it | list, load more, poll, show | the operator of the dashboard |
| Editor, `community-editor.js`, `post_media.py` | the text with markers, chosen files, stored pictures | add, remove, save, come back refused | the two halves of one form |
| Profiles, `members/views.py`, `forms.py` | nicknames, consent, picture, mail setting | onboarding, change, picture | two members after one name, two tabs |
| Moderation, `community/services.py`, `retention.py` | statuses, `Report`, `ModerationAppeal`, `AuditEvent` | report, hide, moderate, delete, appeal, review, purge | members, moderators, operators, the retention job |
| Member accounts, `members/services.py`, `adapters.py` | users, challenges, Google connections, sessions | request a link, confirm, log in and out, connect, close | several browsers of several people, allauth |

How they interact:

    feeds --> Sources --> Collector --> articles <-- ArticleWorker, Headlines, Pictures, Archive
                             |           |  ^
      OperatorDesk, Learner -+-----------+  '-- FilterRules (hits of each batch)
      (behind AdminSessions)             |
                                         +--> TgPush.tick --> tg_posted, channel <-- TgOutbox <-- agent
                                         +--> FrontPage, NewsPage (the page; built by Publishing)
                                         +--> PublicJson (a database of its own per run)
                                         '--> NewsFeed (the community, read only)

    Members --> Profiles --> who may act in Boards, Talk, Letters, Moderation
    Composer --> Boards (pictures in a text)        Cutover moves the tables Boards writes
    Upkeep watches the news service and its database

### 1.2 What makes each component correct

* **Pusher.** A tick reads candidates and pacing once and then walks them for up to two minutes
  while the agent posts; the row that stops a repetition is committed only after Telegram answered.
  *Correct:* a recorded story is never published again, every message is explained by a row or by a
  mishap, ordinary stories keep their distance, no hour holds more than the cap, one event is told
  once.
* **Rehearsals.** They are read to decide whether the pacing is right, and share only parts of the
  real path. *Correct:* a listing keeps the pacing it is read for, what passes the check is whole,
  and a whole story that imitates no line of the shape passes.
* **Outbox.** Copy, delete and post are three steps, with kills in between. *Correct:* no file is
  lost, `done/` holds only what was posted, one refused file does not start the unit for ever, and
  what is recorded is not posted again.
* **Filter rules.** A rule is changed in one lock block, its consequences are computed in another.
  *Correct:* a story is off the pages only for a rule that matches it, and one that a rule matches
  never appears for a moment. *Learned rules:* no rule is added that
  says less than the rules its press knows.
* **Scores and categories.** A model answers by position in a batch, minutes later; names are read
  under other rules than they were written. *Correct:* a score is one the model gave for that story,
  a stored category reads as one of today.
* **Operator.** *Desk:* a switch changes one source, or puts back only what was switched since it read. *Sessions:* a token signed out is never
  accepted again by the same process, guesses are throttled.
* **Calendar.** Nine pages of two clocks, some failing. *Correct:* everything due in the three days
  is shown.
* **Collector and sources.** A story arrives under several links, for two tabs, in different
  wordings, from a page that moves on. *Correct:* no tab shows one story twice, nothing gathered
  gets lost, a listed story is stored sooner or later, a feed that refuses is left alone as long as
  it asked for and is asked again afterwards.
* **Bodies, headlines, pictures.** A stage reads rows, works for minutes without the table and
  writes back. *Correct:* what a row says was made from its body was made from the body it holds
  now; every story gets its headline and has its page looked at.
* **Public list, archive tools, publishing, cutover.** Programs that replace files or tables under a
  running site and may be killed at any point. *Correct:* a failed feed leaves no hole, no row is
  lost, readers get whole pages, what members wrote is what the site shows.
* **Pages in a browser.** Answers come late, reordered or never. *Correct:* the list is that of the
  selection, what is taken away leaves, the button reaches every story, two scripts keep one list
  whole, prices become fresh again, a picture seen in the editor is the one saved.
* **Community.** Every service is a transaction; what can go wrong is a sequence of legal
  operations, or a form rendered before somebody else's change. *Correct:* a post is one thing in
  its tables, a save replaces only what its sender has seen, pages agree about what a member may
  see, no message under a block, nobody takes another's name; nobody hides a comment alone, enough
  reports do, decisions stand, nobody reviews an appeal against his own hiding.
* **Accounts.** Mails, logins and Google flows straddle transactions. *Correct:* one account per
  address, a link works once and in the browser that asked for it, a closed account stays closed.
* **Upkeep.** *Correct:* a collector that stopped is told of.

### 1.3 Not modelled

Every part is in the `components` of `PROJECT.json` with its status and the reason. In short:

* *No state of their own:* settings, routes, sitemaps, admin pages of Django, the worker proxy,
  templates, the blog and section pages, texts, tests, the agents' notes.
* *One call that answers or fails:* the language-model client and the text of the JEV gate's
  question; where they are called, the answer is a choice.
* *Data:* the word lists of the categories (how they are applied is in `Scoring`), the parsing of a
  publisher's page, the decoding of a Google News page.
* *Run once or by hand, touching nothing another program reads at the time:* `vps_setup`,
  `vps_push_setup`, `vps_web`, the probing and measuring tools, the archived tools.
* *Decided by libraries:* what allauth saves of the user row its password view is handed (read at
  the start of the request), and the rate limits, which `CACHES` keeps per process.
* *Browser scripts that toggle what one reader sees:* menus, theme, confirmation, donation.
* *Left for later:* one composition of `Collector`, `FilterRules` and `TgPush` over one `articles`
  table. Each is modelled with the others' effects as choices (the collector inserting candidates,
  a rule or a hiding taking a story away), which is what they see of one another.

## 2. The modules

| Module | Models | Checked in | Proofs |
|---|---|---|---|
| `Outlet` | the abstract promise of every producer that posts to the channel | refined by `TgPush` and `TgOutbox` | - |
| `TgPush` | ticks and agent posts on one channel | `push_timer`, `push_agent` | `TgPushProofs` |
| `Rehearsal` | the replay, the dry run and the shape check | `push_agent` | `TgPushProofs` |
| `TgOutbox` | the mailbox of the agent | `outbox`, `outbox_stranded` | `TgOutboxProofs` |
| `FilterRules` | the operator's rules | `filters`, `filters_race` | `FilterRulesProofs` |
| `ArticleWorker` | bodies, translations, summaries | `article`, `article_repair` | `ArticleWorkerProofs` |
| `Moderation` | reports, hiding, appeals | `moderation`, `moderation_review` | `ModerationProofs` |
| `Members` | accounts and logins | `members` | `MembersProofs` |
| `Collector` | the collection cycle | `collector` | `CollectorProofs` |
| `Letters` | private messages, blocks, the unread counter | `outbox` | `KeepingProofs` |
| `Cutover` | the move to the boards' tables | `filters` | `KeepingProofs` |
| `Archive` | tools that rewrite the stored archive | `filters` | `KeepingProofs` |
| `Calendar` | three days out of nine pages | `filters` | `KeepingProofs` |
| `AdminSessions` | the operator's logins | `filters` | `KeepingProofs` |
| `OperatorDesk` | hiding, picks, sources, the operator's page | `filters` | `KeepingProofs` |
| `Learner` | rules learned from hidden titles | `filters` | `KeepingProofs` |
| `PublicJson` | the public list | `filters` | `KeepingProofs` |
| `Scoring` | scores of a model, categories under changing rules | `filters` | `KeepingProofs` |
| `Publishing` | built pages on their way to readers | `filters` | `KeepingProofs` |
| `Sources` | what each source hands to a cycle | `article` | - |
| `Pictures` | pictures of stored stories | `article` | - |
| `Headlines` | who translates which headline when | `article` | - |
| `Boards` | posts in several tables, edited from forms | `moderation` | `ModerationProofs` |
| `Talk` | comments, marks, notifications and who sees them | `moderation` | `ModerationProofs` |
| `NewsFeed` | the community's list of news | `moderation` | `ModerationProofs` |
| `Profiles` | nicknames, picture, mail setting | `push_timer` | `TgPushProofs` |
| `Composer` | pictures in a text | `push_timer` | `TgPushProofs` |
| `Upkeep` | copies of the database, the watch | `outbox` | - |
| `Ticker` | the price strip | `outbox` | - |
| `NewsPage` | a reader's selection, its address, its list | `outbox` | `KeepingProofs` |
| `FrontPage` | the seed, the list and the briefing | `outbox` | - |

Each module is parameterised by constants. What they must be is a named assumption of the module,
or, for a component checked as a lane (below), of the `MC` module that gives them their values, such
as `SessionsAssumption` and `BoardsAssumption`; TLC evaluates each on its runs. Every module says at
its head what it leaves out. An action is one atomic step of the code: a block under `DB_LOCK`, one
SQL statement or transaction, one file operation, one request to the outside, one event handler of a
page. The definitions that model code are listed with their source lines under `map` in
`PROJECT.json`. A definition whose comment begins with "mutation" or "Faulty variant" belongs to no
specification: it is what the definition after it would be with a plausible bug, and each property
is checked to fail with one of them.

**Components side by side.** The seven `MC` modules instantiate the components. Those that share no
state are checked in one run as *lanes*: the variable `lane` is chosen at the start and never
changes, the component it names moves, and the others stay in an initial state of theirs. The
behaviours of such a run are therefore those of each component, one after another, and a property of
one of them is that component's own. This is said of the components as they are in the code: a price
strip and a private message do not meet. Where components do meet, they are one module (`TgPush` has
the tick and the agent, `Boards` the post and its pictures) or the other is an action of it
(`TickerPosts` in `TgOutbox`, the sweep in `Headlines`, the operator in `FrontPage` and `NewsFeed`).

Some notes on how state and actions correspond to the code:

* **Outlet** has two variables, the messages per story and the recorded stories. It deliberately
  does not say "at most once": a process that dies between `send` and the commit does repeat a
  story, and no code here can exclude that.
* **TgPush.** A run's program counter follows `main`/`tick`: `locking`, `starting`, `gauging` (the
  JEV gate), `scanning` (one candidate at a time), `sending`, `recording`. `run[p]` holds the local
  variables of the Python function: the candidates, the titles and pacing figures read at the start,
  what this tick posted or held. `Verdict` is the chain of `continue`s and `return`s in the walk.
  Sending may be refused, accepted, or accepted with the answer lost; recording may fail; systemd
  kills a timer run after `TickTimeout`. `sent`, `orphans` and `ended` are history. Titles are not
  strings: `SimilarKey`, `SameEvent` and `SameEventKo` say which pairs the comparisons find alike.
* **Rehearsal.** One simulated minute at a time, and in it one story at a time, oldest first;
  `taken`, `keys`, `events`, `last` and `hour_count` are the locals of `replay`. A body is a
  sequence of lines of the kinds the shape check tells apart; `render` and `validate_post` build and
  read it.
* **TgOutbox.** Items are files `[name, no, story]`; each of four directories is a set of items with
  distinct names, and `Put` replaces as `cp -f` and `Path.replace` do. `Kill` may come at any point.
* **FilterRules.** `filter_hits` is a function from stories to the rule that caught them, since the
  table has one row per link. The calls that use two lock blocks set `pending[c]` to what the second
  will do on what the first one read. A restart clears `pending`.
* **ArticleWorker.** A column that was made from a body holds that body, which is what lets a
  property say "of the body the row holds now". `Chrome`, `Dirty` and `Swept` are the three marker
  lists of the worker, which are not the same list.
* **Scoring.** A run of `ai_score` holds the rows it read, the batch it asked about and what it was
  told so far; the model answers any lines, for any numbers. A release is a sequence of rules, each
  with its words and the words that must stand beside them.
* **AdminSessions.** A failure is the time it was noted with a mark that keeps two of one moment
  apart, since `note_failure` appends to a list.
* **Collector.** Time is modelled as ages that grow at any point of a cycle, so that the several
  readings of the clock are different instants. `Deduped` characterises `dedupe` by what it leaves.
  `Sources` has what comes before (caps, orders, turns), with the comparison reduced to "repeat".
* **Calendar.** The clock runs in half days of two time zones. An entry is a record whose words say
  which keyword lists its text meets; the folding of rows and the attaching of names are modelled as
  the code does them, by moment, country and prefix.
* **Boards.** A post is a row of identity, at most one row in a board's content table, and the
  fields of three boards; `create_post` and its key are one action. `Open` renders a form or reads a
  version, `Send` brings it back after whatever others did. `post_list` and `get_queryset` are the
  two searches.
* **Letters** has row locks, one step each, as the comment of `lock_pair` describes them; SQLite's
  one write lock allows fewer interleavings. The page's counter polls and may hear old answers.
* **Cutover** follows the script's phases; the operator stops, restores and activates. `latest` is
  history: what each author last wrote. **Archive** has the files on the host as variables and one
  step per transaction or move; `ever` is history. **Publishing** has a step per copied or moved
  place and a `Stop` anywhere.
* **FrontPage, NewsPage, NewsFeed, OperatorDesk.** A page has the state its script keeps; a request
  in flight is a record of what was asked, its answer is computed from the database when it is made
  and arrives in any order or not at all.
* **Moderation, Members, Talk, Profiles.** A decorated service is one action. Mail, `login()` after
  the commit, `save_user` after `pre_social_login`, and a form's validation before its transaction
  are separate steps. Django, sesame and allauth are modelled as this code relies on them. In
  `Moderation` the primary keys of a post, a news comment and a report collide, because the trail is
  searched by type and number.

## 3. Runs

| Run | Instance | Distinct states | Properties |
|---|---|---|---|
| `push_timer` | four stories (one breaking, two of one event, two of similar wording, one that may be kept off the pages), one timer run, one mishap, seven minutes with an hour of six; two members after one name from two tabs; two places, three pictures of which one is bad | 2.6 M | `Ledger`, `Pacing`, `KeepsPromise`, `NamesStay`, `PreviewIsSaved` |
| `push_agent` | two stories, a tick beside an agent, a cap of one per hour; a past window of five stories, bodies of each kind of line | 420 k | `WithinCaps`, `RehearsalTells`, `RunsEnd` |
| `outbox` | two names, two stories, two writes, two mishaps, the ticker posting one story; two members and two requests; a watch with two copies; a price strip; a selection of one category, source and word; three stories of which two are the same | 135 k | `FilesHold`, `Settles`, `KeepsPromise`, `LettersKept`, `OutagesPass`, `SelectionShown`, `PageFollows` |
| `outbox_stranded` | the mailbox without a ticker | violation | `StagedFiled` |
| `filters` | two callers, two rules sharing a story, one restart; six calendar entries over two half days; two threads, one browser, two passwords; two requests to the desk at once; two presses of "learn" over three titles and three rules; two stories, one blog post and two tool runs; five links in five hours; three posts on two releases; two updates and a seed; two stories scored by two runs in batches of one, two releases of rules | 2.0 M | `CatchesHold`, `CaughtAtOnce`, `CalendarComplete`, `SessionsHold`, `LostOnlyToOverlap`, `SaysMoreThanSeen`, `NothingLost`, `NoHoles`, `ShowsLatest`, `ServedWhole`, `ScoresStand` |
| `filters_race` | two callers, rules that share no story | violation | `RulesAct` |
| `article` | one row, three bodies (clean, named by one marker list, named by another), two workers; four items of nine kinds of source under a cap of two; three stories in media passes of one; three headlines in batches of two | 105 k | `BodiesHold`, `RunEnds`, `StoriesStored`, `EveryStoryServed` |
| `article_repair` | one worker | violation | `RepairHolds` |
| `moderation` | a post, a comment, a news comment, two members who are moderators and operators, threshold 2, two reports, an appeal; a post on three boards, a member and an operator, one tab; three members, two comments; three stories in pages of one, also a page that is empty when loaded | 1.9 M | `HidingFair`, `ReviewsStand`, `PostWhole`, `NothingUnseenLost`, `PagesAgree`, `ListWhole` |
| `moderation_review` | the same trail | violation | `ReviewIndependent` |
| `members` | two users, addresses, Google identities and browsers; two links | 2.2 M | `OneOwner`, `DoorsHold` |
| `collector` | one story as two copies of a Google link, one on its publisher's page, and an alert | 1.3 M | `ArchiveSound`, `StoriesKept` |

Several properties are conjunctions of named ones, where one graph serves them all: `FilesHold`
(types, `Kept`, `DoneIsPosted`), `Settles` (`WatchedLeaves`, `PaidRepeats`, `StartsBounded`),
`CaughtAtOnce` (`NoFlash`, `CountsEveryCatch`), `CatchesHold`, `BodiesHold`, `HidingFair`,
`ReviewsStand`, `OneOwner`, `DoorsHold`, `ArchiveSound`, `StoriesKept`, `Pacing` (`OrdinaryGap`,
`NoRetelling`), `RehearsalTells` (`Paced`, `Shapely`), `ScoresStand` (`ScoresMeant`,
`LabelsCurrent`), `OutagesPass` (`StopIsTold` of the watch, `PricesReturn` of the price strip),
`EveryStoryServed` (`EveryStoryChecked` of the pictures, `EveryStoryTranslated` and `BackfillEnds`
of the headlines), `WithinCaps` (types, `HourlyCap`, `OverlapBound`), and those the `MC` modules
name for a lane. Their parts are stated, with a comment each, in the component's module.

Why these bounds are enough to be interesting:

* *Mishaps* (`MaxMishaps`, `MaxRestarts`) are one or two because each opens one window (message sent
  and row missing, file copied and original deleted); two let a repair be disturbed again.
* *Two of everything that races:* two callers, two workers, two browsers, two tabs, two requests, a
  tick and an agent. The code has no protocol in which three parties wait on each other. Where one
  actor is enough for the case, one is given: one editing tab beside an operator's own changes
  (`Boards`), one collecting thread (`Calendar`).
* *Shortened figures.* The hour, the cap, the cooldown, thresholds, batch sizes, page sizes, the
  backoff, the rechecking of a picture and the month of a nickname are constants; the instances make
  them small enough to be reached and left again.
* *Data classes.* The stories, bodies, entries, titles and copies of an instance contain one of each
  class the code distinguishes, including the pairs its comparisons tell apart and the relation that
  is not transitive (`MCPublicEvent`).
* *Bounded histories* (`MaxWrites`, `MaxCalls`, `MaxAsked`, `MaxChanges`, `MaxTools`, `MaxLogins`,
  `MaxLetters`, `MaxVersion`, `MaxSweeps`, `MaxAnswers`, clocks `MaxClock`, `LastDay`, `LastHalf`,
  `LastHour`) are guards of the actions that would count on.

Deadlock is checked where the system always has something to do (`collector`). The other instances
may stop: their bounded actors finish.

## 4. Fairness

| Module | Assumed | Why the code justifies it |
|---|---|---|
| `TgPush` | a started run goes on (`WF` per run) | every request it makes has a timeout; no run is obliged to start, and `RunsEnd` needs neither the kill nor a successful send |
| `TgOutbox` | a pending trigger starts the unit, which goes on (`WF` of `Serve`) | systemd; every call in the script and the drain has a timeout |
| `ArticleWorker` | a started run goes on (`WF` of `Work`) | as above; never obliged to start |
| `Collector`, `Pictures` | cycles go on, and time passes (`WF`) | the thread is a daemon whose loop catches every exception |
| `Sources` | `WF` of a poll; `SF` of one that is answered | a source that is asked for ever answers now and then |
| `Headlines` | `WF` of the cycle, the backfill, and of giving a story up; `SF` of translating each story that can be | the loops go on; a model that is asked again and again answers now and then |
| `Letters` | `SF` of taking a row lock, `WF` of check and commit; `WF` of the timer and of an answer's arrival, `SF` of one that counts | locks are granted in turn; `setInterval`; requests that succeed now and then |
| `Upkeep` | `WF` of the clock and of the watch | the systemd timer |
| `Ticker` | `WF` of timers and of `onclose`, `SF` of `onopen` and of a price | the browser runs its timers; an exchange that serves connects and sends now and then |
| `NewsPage` | `WF` of the poll, `WF` that an answer comes or fails, `SF` of one for the present selection | `setInterval`, `fetch` settles |
| `FrontPage` | the same, and `SF` of a reader who presses "more" | the property is about a reader who keeps pressing |

No fairness is assumed of a person, of a mishap, of a kill, or of a source's or a network's being up:
where a property needs one, it is its premise (`PricesReturn` once the exchange serves for good,
`ListCatchesUp` once the reader leaves the selection alone). In an `MC` module a fairness condition
on a disjunction of steps of different lanes is fairness of each, since the lane never changes.
Liveness is said as "again and again" (`[]<>`) under the premise that the lane is the component's.

## 5. Proofs

TLAPS proves the following for every value of the constants that the named assumptions allow. Each
rests on an inductive invariant, most parts of which are properties of the runs; the parts that only
the proofs need are defined in the proof modules and hold on the same instances.

* **`TgPushProofs`.** The type invariant in general. `LedgerCorrect` and `PromiseKept` under
  `OneRun`, that one run at a time writes the channel: `Ledger` counts, for each story, its messages
  as its row plus the run about to write it plus the mishaps, and is inductive with `LookedUp` (a
  run that is sending holds a story the table does not know). Without `OneRun` both fail: the lock
  file is checked and written in two steps, and the agent takes no lock. What that can cost is
  `OverlapBounded`, which assumes nothing: a story's messages that no mishap explains are at most as
  many as the runs, because each run can pass the check once before the first row is written.
  `CapsKept` is for one tick beside any number of agents (`OneTick`); its invariant ties the posts
  of the last hour to the figure read at the start, the posts counted since and the agent's.
  `PacingKept` is for one timer run (`OneTimer`), with a positive period and cooldown and symmetric
  comparisons; its invariant adds that whatever was posted recently is among what the tick
  remembers.
  `SavedAsShown` (the editor, `PreviewIsSaved`) rests on `PreviewOfFile`: the preview at a marker is
  the chosen file of the marker's number, so the save, which stores the files in their order after
  those stored before, puts that picture in that marker's place. The limit is only a natural number.
  `NamesAreKept` (profiles, `NamesStay`) is about any number of members and requests. A form is
  checked before its transaction, and what makes that good enough is `ChecksStand`: whoever took the
  name after the check has a key of it, which the unique column refuses; `KeysOfNames` says that a
  key is the folded name of its member.
  `RehearsalsTell` is two proofs. Of the replay: every listed story is in each memory that holds
  back another (`IsRemembered`), the hour that runs is counted, and the one before it stayed under
  the cap (`Hours`). A sliding hour overlaps two fixed ones, hence twice the cap, which is all a
  listing promises. Of the shape check, by cases on where a line of any body can stand: a rendered
  message with nothing wrong has its title, text, one source line and footer in that order, and a
  story that brings no line of the shape and fits is not refused.
* **`TgOutboxProofs`.** `FilesHeld` follows from an invariant about the item in hand: what is about
  to be unlinked is staged, what is about to be set aside as posted is recorded. `RepeatsPaid` rests
  on `Paid` (a message without a row is in flight or cost a mishap), `StartsStayBounded` on `Spent`
  (each file still watched is worth two starts). The implementation of `Outlet` is for stories the
  ticker does not also post.
* **`FilterRulesProofs`.** Catches are honest for any callers, rules and restarts: the catch of an
  *enabled* rule matches its wording or a rescan is due. A rule that is off may keep stale catches,
  but only a call that owes a rescan turns it on again, and a rescan starts from an empty table.
  `CaughtInTheSameStep` adds that catches are of archived stories, noted and counted (`NInv`), and
  that among the rules that match there is a least one (numbers are well founded).
* **`ArticleWorkerProofs`.** `BodiesHeld`: translation, hash and stamps are of the body the row holds,
  by an invariant with `Unfilled` (a body is only filled in where the row was blank) and `RowsInHand`.
  The synopsis need not be: `store_fetched` keeps it, and `ready`, when it replaces a dirty body (see
  6). What holds is that a synopsis of another body is then a dirty one's and the hash is empty, so
  that the row is summarized again (`SummaryStands`); that a ready story has a body, and a
  synopsis of an article's body (`ReadyFromBody`), needs that a blank row is never ready
  (`BlankUnread`).
* **`ModerationProofs`.** The trail and the types are inductive together. `NotAlone` and
  `ThresholdActs` need `RowsBlank` (what a report id not yet used looks like) to count reporters.
  `PostsStayWhole` (`PostWhole`): a post's row, its content row and its board fields are inductive
  as one (`PostOK`), through creation, transfer and editing. `SavesReplaceWhatWasSeen`
  (`NothingUnseenLost`) adds, of each form or version that is out (`TabOK`), that it was rendered
  from the post as it was at its stamp, and that equal stamps mean equal posts: so a save that
  passes the version check replaces what its sender saw. Both assume that the marker for an absent
  value is no post, form or version (`NoneIsNothing`).
  `PagesAlwaysAgree` (`PagesAgree`): a standing reply answers a standing comment that answers none,
  and a notification is about a standing comment; with that, the query of each page comes to the
  same, for any members, blocks and number of comments.
  `TwoScriptsOneList` (`ListWhole`): what the poll has seen is on the list, about to be put there,
  or passed over below the cursor, for any number of stories, page length and answers under way.
* **`MembersProofs`.** `LinksDie` and `AddressOwned` are inductive with four facts about who is
  referred to: rows exist, link numbers are in order of issue, a Google flow carries the user of its
  address, and a link and a session's nonce belong to the browser the link was requested in.
* **`CollectorProofs`.** `NoTwins` is inductive with `Apart` (what is in hand does not repeat
  itself) and `Compared` (nor what is stored, as it was when compared); `Represented` follows from
  `Covered`, `Patience` from `Owed`, which ties the history of refusals to the backoff.
* **`KeepingProofs`.** `LettersRespectBlocks`: the holder of both row locks is the only one who can
  write a block between those two, so what the check found holds at the commit (the marker for "no
  request" must be no request). `CutoverShowsLatest`: what a serving release reads of each post is
  what its author wrote, and the backup is as new as every post while it may still be restored (the
  texts must not be the markers). `ArchiveKeepsRows`: every row ever stored is in one of the files,
  in every phase of a merge and wherever it is killed. It assumes, beside distinct markers, that an
  uploaded row of a blog post carries the file's category, since the import writes its posts over by
  design.
  `PublishingServesWhole` (`ServedWhole`): a temporary file whose copying was finished holds all of
  the build of its run (`Finished`), only finished ones are renamed, and a run copies from a build
  that is complete (`FromComplete`); for any number of runs, killed anywhere, of which one update at
  a time (`OneUpdate`: the operator starts one command at a time).
  `SessionsStayShut` (`SessionsHold`): a token signed out is on the list or past its expiry, because
  the list is pruned only of those past it; failures inside the window and logins let through the
  question together stay under the limit plus the number of threads (`Guesses`), which is what
  asking and noting in two steps costs.
  `LearningAddsSomething` (`SaysMoreThanSeen`) is for any number of presses at once: what a press
  compares with includes every rule that stood when it read and still stands, and every one it added
  (`SeenBy`, `Noticed`); a rule is told from those that came later by its number (`LearnerShape`).
  `SwitchesChangeOneSource` (`LostOnlyToOverlap`) is for any number of requests at once: the list a
  switch has read differs from the list now only at sources switched since (`ReadBy`, in `DeskInv`),
  so that is all its writing can put back. What the comments of the code promise beyond that does not
  hold when two overlap (see 6).
  `CalendarShowsAllDue` (`CalendarComplete`): each step of a build in progress keeps, if every page
  answered, a row for every entry due in the build's own three days (`Sound`), through the folding
  of rows and the attaching of names, and so does the payload (`Full`). Entry ids and halves of days
  are natural numbers, names are sequences of words.
  `ScoresAlwaysStand` (`ScoresStand`) is for any answers of the model, batches, releases of the rules
  and runs that overlap or are killed. Its invariant for scores (`ScoresInv`) says of each run that the
  lines it was told so far and the batch it asked about are of the rows it read, each row once, and
  that a stored score is one the model gave for that story; that for labels (`LabelsInv`) that every
  stored label is the name of a rule of today or what a split of an older release left. What the code
  does to lists (filtering, sorting, splitting at the "/") is defined by ranks (`Pick`): the n-th of a
  finite set of positions is the one with n - 1 before it. `Ranks` and `InOrder` say that there is one
  for each n and that together they are the set in order.
  `ListHasNoHoles` (`NoHoles`) uses the same two lemmas for the sort, newest first, of rows that have a
  link each (`OncePerLink`). The walk of `dedupe_rows` is a recursive function over the positions; that
  there is such a table for a list of any length (`AWalk`), and that what it keeps stands for each row
  it passed (`DedupeKeeps`), is proved by looking at the first position where it would fail
  (`UptoEnd`). The invariant (`GoodFile`) says that a row carries the address its link leads to, or
  none: that is what makes a copy found through an address carried over from an older file a copy
  still. Sameness of stories is any relation of the modelled form and need not be transitive.
  `AddressesAskTheSame` (the first part of `SelectionShown`): a selection written into the address and
  read back asks the server the same (`AddressReadBack`), and an address whose tab is tidied is read as
  before (`AddressTidied`), for any categories, sources and keywords. It needs that the tab is one the
  page has (`Selected`), without which the Thai list on a global page would be lost.

For a component that is one lane of a run, the theorem is about the run's own specification: a
`...Lane` lemma shows that a step of the composition is a step of that component or leaves its
variables alone, so its invariant carries over. The named assumptions on a lane's constants
(`CalendarAssumption`, `SessionsAssumption`, `PublishingAssumption`, `BoardsAssumption`,
`TalkAssumption`, `FeedAssumption`, `ProfilesAssumption`, `ComposerAssumption`,
`RehearsalAssumption`, `ScoringAssumption`, `PublicAssumption`) say that sets the code keeps in memory
are finite, that numbers are numbers, and that the marker of a missing value is none of the values it
may stand beside. Two of them number what the code knows by its link: that order stands for the one
in which rows of one moment happen to be read.

Only model-checked, and why:

* *Liveness*, for which TLAPS has no rules here: `RunsEnd`, `RunEnds`, the temporal
  parts of `Settles` and of `LettersKept`, `OutagesPass`, `SelectionShown`, `PageFollows`,
  `StoriesStored`, `StoriesKept`, `EveryStoryServed`. What is safety in four of them is proved:
  `RepeatsPaid` and `StartsStayBounded` (of `Settles`), `LettersRespectBlocks` (of `LettersKept`),
  `AddressesAskTheSame` (of `SelectionShown`), `NothingGatheredIsLost` (of `StoriesKept`). With that
  every invariant and every safety property of a passing run is a theorem.
* *The outbox's `KeepsPromise`* is proved for the stories the ticker does not post too; the run also
  covers one that it does.
* *The four violations* are counterexamples and have nothing to prove.

## 6. Disagreements found

Each of these four is a run that ends in a counterexample.

1. **Stranded files** (`outbox_stranded`). `tg_outbox_drain.sh` says the drain "moves the file to
   done/ or failed/", but leaves at once when the watched directory is empty: files that a killed run
   left in the staging directory wait until the agent happens to queue another one.
2. **Switch-off after switch-on** (`filters_race`). `set_filter_rule` decides and acts in two lock
   blocks. A switch-off's late `DELETE` removes what a later switch-on recorded: the rule is on and
   catches nothing that is already stored.
3. **The sweep does not hold** (`article_repair`). The collector fills an emptied body in from the
   feed before the fetcher comes, uncleaned, and the row becomes ready with the same chrome.
4. **Own hiding reviewed** (`moderation_review`). "The moderator who hid this content cannot review
   its appeal" is decided by a `content.hide` event. `moderate_comment` writes none, so an earlier
   event of somebody else counts and the hider may decide.

### Seen while modelling, not checked by a run

Pusher and outbox:

* `teemo-tg-push.service` says "a restart never loses or repeats a post"; a kill between `send` and
  the commit repeats it (the mishaps of `TgPush`). `eligible` says a breaking story never waits; the
  hourly cap makes it wait. The replay counts in fixed hours, the tick in a sliding one, so a listing
  may have twice the cap in an hour across a boundary.
* A dry run takes the real lock, so a timer's run at that moment is skipped. A body with a line of
  related categories passes the check for a story that has none of its own.
* The help of `--drain-outbox` says a file that cannot be posted stays where it is; it is moved to
  `failed/`. A name used again overwrites a staged file or is deleted between copy and `rm`, so
  `Kept` is about names used once at a time.

Rules, operator, archive:

* `set_filter_rule` says that the catches are recomputed either way; switching a rule off only drops
  its own, so a story another enabled rule matches is shown until the next rescan. `rescan_filters`
  deletes every catch and recomputes those of the window only, so archived catches are lost.
* `set_source_hidden` says "Switch one source off or back on". Two at once, each in its thread of the
  `ThreadingHTTPServer`, lose one change: `OneSourceAtATime` (of `OperatorDesk`) says what the
  docstring does, and TLC shows how it fails (section 9). What is left of it is `LostOnlyToOverlap`,
  which the run `filters` checks with two threads. The operator's lists are not
  polled, so a reordered answer stays.
* `set_interval` changes memory first, reads it again and stores it later. With two at once the one
  stored last need not be the one in force, so an interval the operator chose may revert at the next
  restart, which the comment there says it should not.
* `learn_filter_rules` says that pressing learn twice "must not keep growing the list with weaker
  wordings of the same shape". Two presses that overlap, with a hiding between their reads, can add
  one: `NoWeakerWording` (of `Learner`) is what the comment says, and
  TLC shows how it fails (section 9). What is left of it is
  `SaysMoreThanSeen`, which the run `filters` checks with two presses.
* `pending()` of `ai_score.py` compares stamps that have a `T` between day and time with
  `datetime('now', ...)`, which has a space: the whole of the calendar day of the cutoff passes.
* A restart forgets revoked tokens. `check_password` and `issue_token` each read the password file.
* `vps_merge_db`'s manual says the integrity is checked before and after the swap; the script checks
  nothing. It skips tables the upload has not, though it "drops nothing", leaves a hot `-wal` behind,
  and a kill between its two moves gives an empty site at the next start. An import of the same posts
  keeps their old translations; `retag_categories` rewrites imported posts' categories.
* `dashboard.hidden_sources` shows everything when its JSON is invalid, `news.visibility` nothing.

Calendar, collection, stories:

* Korea is thirteen hours ahead of a fixed UTC-4, also in winter. Two threads may rebuild the
  payload at once and the older overwrite the newer. The results of yesterday's after-close are
  never fetched. The comment that the calendar "must not go blank when the source hiccups" is not
  kept: a payload of failed pages replaces the previous one, and so does the writer of
  `docs/calendar.json`. `potus_schedule` compares Korean time with the server's local time.
* Stories a source lists but the comparison refuses keep their place under its cap.
  `fetch_sbhnews` is never called.
* Archived stories without a picture, more than a pass gets round in six hours, starve the rest. A
  recheck replaces a stored video by nothing. A Google interstitial's picture can be stored.
* `stored_identities` means each tab to show a story of its own; the link is the primary key, so a
  link in both tabs' feeds is stored for the first only (the exception in `Represented`). Names
  filled in from the other tab's copy can turn two stored rows into twins (that in `NoTwins`).
* The backfill says "no model/API fallback is allowed"; `translate_one` falls back when a key is set.
  Newest-first batches stop with "no progress" when the newest are all untranslatable.
* When a fetch replaces a dirty body, `store_fetched` empties the translation and the summary's hash but
  leaves `title_ko`, `summary_ko` and `ready`: until the next summary the pages show the old body's.
* A body that mentions Google News stays dirty for `fetch_candidates` and is fetched again in every
  run, whatever the 24-hour stamp says.

Public list, pages, cutover, upkeep:

* `digest_of` covers link and Korean texts only. A fresh untranslated row overwrites a translated
  one, and a row can flip back to the redirect, against the comment of `public_row`.
* Korean pages hide "more" when a duplicate was dropped, and nothing is reachable beyond
  `MAX_LIMIT`. Seeds exclude hidden links but not caught stories or hidden sources, so they show a
  story taken away after the build until the list is drawn. The Korean list links to details that
  do not exist yet, against the comment "never point to a detail page that cannot exist yet". The
  page's briefing exempts FinancialJuice from event comparison, the seed's does not.
* A stale answer replaces a newer list until the next poll. Choosing "all" languages on an English
  page is dropped from the address.
* The news tree and the sections are copied over the old files, so a reader can get half a page; two
  updates of one commit share temporary names.
* An abort for drift says "Restore nothing" and prints a restore block; after activation every edit
  makes `--rebackfill` abort, and its restore text expects the old tables. "The old release is still
  serving" is printed while the service had to be stopped.
* `prune` keeps the newest names, bad copies included; documentation/HANDOFF_20260920.md says a copy
  that fails verification is not left behind.
* While the ticker reconnects, the prices drawn before stay.

Community:

* A comment that its reports hid, or `moderate_comment` did, has no `content.hide` event unless an
  older one exists: its appeal can be filed and never decided. `resolve_appeal` does not keep a
  moderator from deciding his own appeal. After an appeal restored a comment, the reports still open
  let one more of them hide it again. MODERATION-STATUS says authors are notified of hiding and
  reports never expire; auto-hiding and `moderate_comment` notify nobody, and `retention.py` purges.
* AUTH-DESIGN says there is no password login; `MemberPasswordLoginView` is one.
* A `PATCH` without a version is last-writer-wins. An edit sent before a hiding is saved on the
  hidden post.
* After a refused save the text keeps markers whose files are gone, and a new picture takes the
  first of them; removing a stored picture leaves its address in the text.
* The mail about an answer does not ask for blocks. Pages by offset skip a story when one above it
  is hidden, and a story that arrives between rendering and the first poll and is not newer than the
  newest shown is never announced.

## 7. Hazards

`hazards` in `PROJECT.json` lists, at its line, what is hard to test here, with the properties that
would catch it going wrong. Every hazard has one; what a property leaves out of it is in section 6.

## 8. Plan

Done: every component of 1.1, with the proofs of section 5.

Left, in this order:

1. One composition of `Collector`, `FilterRules` and `TgPush` over one `articles` table, each
   abstracted to what the others see: a story a rule caught is never pushed.
2. An abstract "last writer wins over what was seen" that `Boards` and `Profiles` both implement.

## 9. How to run

    tlc -config push_timer.cfg MCTgPush.tla
    tlapm TgPushProofs.tla

The two counterexamples of section 6 that have no run of their own, with two requests or two presses
that overlap, are found on one lane of `filters` with the one property in place of the listed ones:

    lane() { sed -e "s/Lanes = .*/Lanes = {\"$1\"}/" -e '/^INVARIANTS/d' -e '/^PROPERTIES/d' filters.cfg; }
    { lane desk; echo PROPERTY OneSourceAtATime; } > /tmp/desk.cfg
    { lane learner; echo INVARIANT NoWeakerWording; } > /tmp/learner.cfg
    tlc -config /tmp/desk.cfg MCFilterRules.tla
    tlc -config /tmp/learner.cfg MCFilterRules.tla
