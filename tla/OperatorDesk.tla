---------------------------- MODULE OperatorDesk ----------------------------
(***************************************************************************)
(* What the operator of the dashboard changes one thing at a time: stories *)
(* hidden and picked, sources switched off, the interval of the collector  *)
(* (do_POST and the helpers above it in server/live_news_dashboard.py),    *)
(* and the operator's page that asks for it and shows the lists            *)
(* (the operator-only part of the script in pages/build/page_build.py).    *)
(*                                                                         *)
(* Every request has passed the gate of AdminSessions; each runs in a      *)
(* thread of its own, and takes the database lock once per call, so that   *)
(* set_source_hidden is two steps, and set_interval three.  Answers reach  *)
(* the page later, in any order, or not at all.                            *)
(*                                                                         *)
(* Left out: rules (FilterRules) and the feed of the page.                 *)
(***************************************************************************)
EXTENDS Naturals, FiniteSets

CONSTANTS
  Threads, Links,             \* requests at once; stories by their links
  Sources, Notes, Intervals,
  DEFAULT_INTERVAL, MIN_INTERVAL, MAX_INTERVAL,
  MaxAnswers,                 \* bound: answers on their way at once
  None

VARIABLES
  hidden_links, picked_links,   \* a set; for each story its note, or None
  hidden_sources, stored,       \* the settings hidden_sources and interval_seconds
  interval,                     \* NewsState.interval, in memory
  req,                          \* what each thread is doing, or None
  answers,                      \* answers on their way to the page
  page,                         \* HIDE_UNDO, OFF and the restore list
  raced                         \* history: for each thread, the sources switched since it read the list

db == <<hidden_links, picked_links, hidden_sources, stored>>
vars == <<db, interval, req, answers, page, raced>>

Clamp(n) == IF n < MIN_INTERVAL THEN MIN_INTERVAL ELSE IF n > MAX_INTERVAL THEN MAX_INTERVAL ELSE n

Init ==
  /\ hidden_links = {} /\ picked_links = [l \in Links |-> None]
  /\ hidden_sources = {} /\ stored = None /\ interval = DEFAULT_INTERVAL
  /\ req = [t \in Threads |-> None] /\ answers = {}
  /\ page = [undo |-> None, off |-> None, list |-> {}]
  /\ raced = [t \in Threads |-> {}]

-----------------------------------------------------------------------------
(* The server. *)

Idle(t) == req[t] = None
Switching(t) == ~Idle(t) /\ req[t].step = "switch"
Room == Cardinality(answers) < MaxAnswers

hide_link(l) == hidden_links' = hidden_links \cup {l} /\ UNCHANGED picked_links
unhide_link(l) == hidden_links' = hidden_links \ {l} /\ UNCHANGED picked_links
\* The note of a story picked again is replaced.
pick_link(l, note) == picked_links' = [picked_links EXCEPT ![l] = note] /\ UNCHANGED hidden_links
unpick_link(l) == picked_links' = [picked_links EXCEPT ![l] = None] /\ UNCHANGED hidden_links

\* A string that is no link changes nothing, and is answered with an error; of the others the page
\* only heeds the answers to "hide" and "unhide".
PostStory(t, path, value, note) ==
  /\ Idle(t) /\ Room
  /\ CASE path = "hide" -> hide_link(value)
       [] path \in {"unhide", "undo"} -> unhide_link(value)
       [] path = "pick" -> pick_link(value, note)
       [] path = "unpick" -> unpick_link(value)
  /\ answers' = answers \cup {[to |-> p, link |-> value] : p \in {path} \cap {"hide", "unhide"}}
  /\ UNCHANGED <<hidden_sources, stored, interval, req, raced>>

\* set_source_hidden reads the list and writes it back.
PostSource(t, source, hide) ==
  /\ Idle(t) /\ Room
  /\ req' = [req EXCEPT ![t] = [step |-> "switch", source |-> source, hide |-> hide, current |-> hidden_sources]]
  /\ UNCHANGED <<db, interval, answers, page, raced>>
\* Faulty variant: a switched source replaces the list.
Replaced(r) == IF r.hide THEN {r.source} ELSE r.current \ {r.source}
Switched(r) == IF r.hide THEN r.current \cup {r.source} ELSE r.current \ {r.source}
\* The sources whose place in the list a step changes.
Moved == (hidden_sources \ hidden_sources') \cup (hidden_sources' \ hidden_sources)
set_source_hidden(t) ==
  /\ Switching(t)
  /\ hidden_sources' = Switched(req[t])
  /\ answers' = answers \cup {[to |-> "source", off |-> hidden_sources']}
  /\ req' = [req EXCEPT ![t] = None]
  /\ raced' = [u \in Threads |-> IF u # t /\ Switching(u) THEN raced[u] \cup Moved ELSE {}]
  /\ UNCHANGED <<hidden_links, picked_links, stored, interval, page>>

\* set_interval: held in memory, read from there again, then written down.
set_interval(t, n) ==
  /\ Idle(t)
  /\ interval' = Clamp(n)
  /\ req' = [req EXCEPT ![t] = [step |-> "interval"]]
  /\ UNCHANGED <<db, answers, page, raced>>
interval_text(t) ==
  /\ ~Idle(t) /\ req[t].step = "interval"
  /\ req' = [req EXCEPT ![t] = [step |-> "set", value |-> interval]]
  /\ UNCHANGED <<db, interval, answers, page, raced>>
setting_set(t) ==
  /\ ~Idle(t) /\ req[t].step = "set"
  /\ stored' = req[t].value
  /\ req' = [req EXCEPT ![t] = None]
  /\ UNCHANGED <<hidden_links, picked_links, hidden_sources, interval, answers, page, raced>>

\* A start takes the stored interval over the one of the command line.
Restart ==
  /\ interval' = IF stored = None THEN DEFAULT_INTERVAL ELSE Clamp(stored)
  /\ req' = [t \in Threads |-> None] /\ answers' = {} /\ raced' = [t \in Threads |-> {}]
  /\ UNCHANGED <<db, page>>

-----------------------------------------------------------------------------
(* The operator's page. *)

Asked(a) == Room /\ answers' = answers \cup {a} /\ UNCHANGED <<db, interval, req, page, raced>>
loadHidden == Asked([to |-> "hidden", list |-> hidden_links])
loadSourceSwitches == Asked([to |-> "source", off |-> hidden_sources])

\* What the page does with an answer: a hidden story can be undone until another is hidden.
Hear(a) ==
  /\ a \in answers /\ answers' = answers \ {a}
  /\ page' = CASE a.to = "hide" -> [page EXCEPT !.undo = a.link]
               [] a.to = "unhide" -> [page EXCEPT !.undo = IF @ = a.link THEN None ELSE @]
               [] a.to = "hidden" -> [page EXCEPT !.list = a.list]
               [] a.to = "source" -> [page EXCEPT !.off = a.off]
  /\ UNCHANGED <<db, interval, req, raced>>
Lose(a) == a \in answers /\ answers' = answers \ {a} /\ UNCHANGED <<db, interval, req, page, raced>>

\* The switch of a source asks for the opposite of what the page shows.
switchSource(t, source) == page.off # None /\ PostSource(t, source, source \notin page.off)
hideStory(t, l) == PostStory(t, "hide", l, None) /\ UNCHANGED page
\* The bar is taken away before the server is asked.
Undo(t) ==
  /\ page.undo # None /\ PostStory(t, "undo", page.undo, None)
  /\ page' = [page EXCEPT !.undo = None]
Restore(t, l) == l \in page.list /\ PostStory(t, "unhide", l, None) /\ UNCHANGED page
\* The card says whether the story was picked when it was drawn.
togglePick(t, l, note, picked) ==
  PostStory(t, IF picked THEN "unpick" ELSE "pick", l, note) /\ UNCHANGED page

Next ==
  \/ \E t \in Threads, l \in Links :
       \/ hideStory(t, l) \/ Restore(t, l)
       \/ \E note \in Notes, picked \in BOOLEAN : togglePick(t, l, note, picked)
  \/ \E t \in Threads :
       \/ Undo(t)
       \/ \E s \in Sources : switchSource(t, s)
       \/ set_source_hidden(t)
       \/ \E n \in Intervals : set_interval(t, n)
       \/ interval_text(t) \/ setting_set(t)
  \/ loadHidden \/ loadSourceSwitches \/ Restart
  \/ \E a \in answers : Hear(a) \/ Lose(a)

Spec == Init /\ [][Next]_vars

-----------------------------------------------------------------------------
(* Properties. *)

\* What set_source_hidden promises ("Switch one source off or back on"): the list never changes at
\* another source than the one a request in progress was asked about.  It holds while one request is
\* answered at a time; with two it fails (section 6 of the README).
OneSourceAtATime ==
  [][\A s \in Moved :
       \E t \in Threads : /\ Switching(t) /\ req'[t] = None
                          /\ req[t].source = s /\ req[t].hide = (s \in hidden_sources')]_vars

\* What the two lock blocks of set_source_hidden leave of that, whatever requests cross each other
\* and wherever a restart falls: a source changes because a request asks for it, or because a request
\* puts back what it read of a source that another one switched after that read.  A source nobody
\* switches meanwhile keeps its place, however stale the list is that is written.
LostOnlyToOverlap ==
  [][\A s \in Moved :
       \E t \in Threads :
         /\ Switching(t) /\ req'[t] = None
         /\ \/ req[t].source = s /\ req[t].hide = (s \in hidden_sources')
            \/ s \in raced[t] /\ (s \in hidden_sources' <=> s \in req[t].current)]_vars
=============================================================================
