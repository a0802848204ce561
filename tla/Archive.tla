------------------------------ MODULE Archive ------------------------------
(***************************************************************************)
(* The tools that rewrite the stored archive: tools/retag_categories.py,   *)
(* tools/import_blog_posts.py and deploy/scripts/vps_merge_db.py, beside   *)
(* the collector that goes on inserting rows, with tools killed between    *)
(* any two of their transactions.                                          *)
(*                                                                         *)
(* A database is its articles (link -> the row's categories) and the       *)
(* operator's hidden links.  retag reads every row, copies the file with   *)
(* VACUUM INTO and writes the rows that differ in one transaction; the     *)
(* import writes its posts in one; the merge commits table by table into   *)
(* the uploaded file and then moves the two files.  What a row holds       *)
(* besides its categories is left out, and so is prune_archive.            *)
(***************************************************************************)
EXTENDS Naturals, FiniteSets

CONSTANTS
  Stories,     \* links of collected stories
  Posts,       \* links /blog/<slug>/
  Labels,      \* stored category lists
  LabelOf,     \* <<rule table, link>> -> what make_article decides
  FileLabel,   \* post -> the category in its front matter
  Uploads,     \* databases an operator may upload
  NoFile, NoTable,
  Absent,      \* no row for the link
  MaxTools     \* bound: tool runs

AllLinks == Stories \cup Posts

VARIABLES
  current,   \* news.db
  incoming,  \* news_local.db
  copies,    \* news.db.replaced-<stamp> and news.db.retag-<stamp>.bak
  service,   \* "stopped", or the rule table its process loaded
  rules,     \* the rule table in the deployed code
  tool,      \* the tool at work: what it does next and what it read
  tools,     \* tool runs so far
  ever       \* history: <<link, categories>> ever collected or uploaded

vars == <<current, incoming, copies, service, rules, tool, tools, ever>>

Empty == [articles |-> [l \in AllLinks |-> Absent], hidden |-> {}]
Resting == [at |-> "resting", updates |-> {}]

Init ==
  /\ current = Empty
  /\ incoming = NoFile
  /\ copies = {}
  /\ service = "old" /\ rules = "old"
  /\ tool = Resting /\ tools = 0
  /\ ever = {}

RowsOf(db) == {<<l, db.articles[l]>> : l \in {k \in AllLinks : db.articles[k] # Absent}}

Begun(at, updates) ==
  /\ tool = Resting /\ tools < MaxTools
  /\ tool' = [at |-> at, updates |-> updates]
  /\ tools' = tools + 1

Then(at) == tool' = [tool EXCEPT !.at = at]

-----------------------------------------------------------------------------
(* The service and the operator. *)

\* INSERT OR IGNORE: a stored row keeps its categories.
Collect(l) ==
  /\ service # "stopped" /\ current # NoFile
  /\ current.articles[l] = Absent
  /\ current' = [current EXCEPT !.articles[l] = LabelOf[<<service, l>>]]
  /\ ever' = ever \cup {<<l, LabelOf[<<service, l>>]>>}
  /\ UNCHANGED <<incoming, copies, service, rules, tool, tools>>

Hide(l) ==
  /\ service # "stopped" /\ current # NoFile
  /\ l \notin current.hidden
  /\ current' = [current EXCEPT !.hidden = @ \cup {l}]
  /\ UNCHANGED <<incoming, copies, service, rules, tool, tools, ever>>

Deploy ==
  /\ rules = "old" /\ rules' = "new"
  /\ UNCHANGED <<current, incoming, copies, service, tool, tools, ever>>

Merging == tool.at \in {"merge articles", "merge hidden", "move away", "move in"}

\* The service opens news.db, or makes an empty one.
Start ==
  /\ service = "stopped" /\ ~Merging
  /\ service' = rules
  /\ current' = IF current = NoFile THEN Empty ELSE current
  /\ UNCHANGED <<incoming, copies, rules, tool, tools, ever>>

Stop ==
  /\ service # "stopped"
  /\ service' = "stopped"
  /\ UNCHANGED <<current, incoming, copies, rules, tool, tools, ever>>

Upload(db) ==
  /\ incoming = NoFile /\ ~Merging
  /\ incoming' = db
  /\ ever' = ever \cup RowsOf(db)
  /\ UNCHANGED <<current, copies, service, rules, tool, tools>>

\* A tool is killed, or fails, before its next transaction or move.
Killed ==
  /\ tool # Resting
  /\ tool' = Resting
  /\ UNCHANGED <<current, incoming, copies, service, rules, tools, ever>>

-----------------------------------------------------------------------------
(* retag_categories.py --apply *)

\* The rows whose stored list the deployed rules would change.
Updates ==
  {<<l, LabelOf[<<rules, l>>]>> :
     l \in {k \in AllLinks : current.articles[k] \notin {Absent, LabelOf[<<rules, k>>]}}}

RetagRead ==
  /\ current # NoFile /\ Updates # {}
  /\ Begun("back up", Updates)
  /\ UNCHANGED <<current, incoming, copies, service, rules, ever>>

RetagBackup ==
  /\ tool.at = "back up"
  /\ copies' = copies \cup {current}
  /\ Then("rewrite")
  /\ UNCHANGED <<current, incoming, service, rules, tools, ever>>

\* UPDATE by link: a row that has gone is not written.
Rewritten(articles, updates) ==
  [l \in AllLinks |->
     IF articles[l] # Absent /\ \E u \in updates : u[1] = l
     THEN (CHOOSE u \in updates : u[1] = l)[2]
     ELSE articles[l]]

RetagWrite ==
  /\ tool.at = "rewrite"
  /\ current' = [current EXCEPT !.articles = Rewritten(@, tool.updates)]
  /\ tool' = Resting
  /\ UNCHANGED <<incoming, copies, service, rules, tools, ever>>

-----------------------------------------------------------------------------
(* import_blog_posts.py *)

\* Every post with the category its front matter names.
Filed(rows) == [l \in AllLinks |-> IF l \in Posts THEN FileLabel[l] ELSE rows[l]]

\* One transaction; a post that is there already is written over with what its file says.
Import ==
  /\ tool = Resting /\ tools < MaxTools /\ current # NoFile
  /\ current' = [current EXCEPT !.articles = Filed(@)]
  /\ tools' = tools + 1
  /\ UNCHANGED <<incoming, copies, service, rules, tool, ever>>

-----------------------------------------------------------------------------
(* vps_merge_db.py, run with the service stopped. *)

MergeStart ==
  /\ service = "stopped" /\ current # NoFile /\ incoming # NoFile
  /\ Begun("merge articles", {})
  /\ UNCHANGED <<current, incoming, copies, service, rules, ever>>

\* Faulty variant: INSERT OR REPLACE.
HostRowsWin(uploaded, host) ==
  [l \in AllLinks |-> IF host[l] # Absent THEN host[l] ELSE uploaded[l]]

\* INSERT OR IGNORE: the host's rows fill in what the uploaded file lacks.
Merged(uploaded, host) ==
  [l \in AllLinks |-> IF uploaded[l] # Absent THEN uploaded[l] ELSE host[l]]

MergeArticles ==
  /\ tool.at = "merge articles"
  /\ incoming' = [incoming EXCEPT !.articles = Merged(@, current.articles)]
  /\ Then("merge hidden")
  /\ UNCHANGED <<current, copies, service, rules, tools, ever>>

\* A table the uploaded file does not have is skipped.
MergeHidden ==
  /\ tool.at = "merge hidden"
  /\ incoming' = [incoming EXCEPT !.hidden = IF @ = NoTable THEN NoTable ELSE @ \cup current.hidden]
  /\ Then("move away")
  /\ UNCHANGED <<current, copies, service, rules, tools, ever>>

MoveAway ==
  /\ tool.at = "move away"
  /\ copies' = copies \cup {current}
  /\ current' = NoFile
  /\ Then("move in")
  /\ UNCHANGED <<incoming, service, rules, tools, ever>>

\* The service creates the tables it misses when it opens the file.
MoveIn ==
  /\ tool.at = "move in"
  /\ current' = [incoming EXCEPT !.hidden = IF @ = NoTable THEN {} ELSE @]
  /\ incoming' = NoFile
  /\ tool' = Resting
  /\ UNCHANGED <<copies, service, rules, tools, ever>>

-----------------------------------------------------------------------------
Next ==
  \/ \E l \in Stories : Collect(l) \/ Hide(l)
  \/ Deploy \/ Start \/ Stop \/ Killed
  \/ \E db \in Uploads : Upload(db)
  \/ RetagRead \/ RetagBackup \/ RetagWrite
  \/ Import
  \/ MergeStart \/ MergeArticles \/ MergeHidden \/ MoveAway \/ MoveIn

Spec == Init /\ [][Next]_vars

-----------------------------------------------------------------------------
Files == copies \cup ({current, incoming} \ {NoFile})

\* Whichever tools are run, in whatever order and wherever they are killed, what the collector stored or
\* an operator uploaded is still in one of the files on the host, with the categories it had: "keeps
\* everything and drops nothing" (vps_merge_db.py) and "back up, then rewrite" (retag_categories.py).
NothingLost == \A row \in ever : \E db \in Files : row \in RowsOf(db)
=============================================================================
