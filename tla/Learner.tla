------------------------------ MODULE Learner ------------------------------
(***************************************************************************)
(* Rules learned from the stories the operator hid: learn_filter_rules of  *)
(* server/live_news_dashboard.py and filter_learn.derive, which it calls.  *)
(*                                                                         *)
(* A press of "learn" reads the hidden titles, the kept texts and the      *)
(* rules under DB_LOCK, derives proposals with the lock let go, and adds   *)
(* them one by one, each under the lock.  The operator hides, restores,    *)
(* adds and deletes meanwhile, and the collector stores stories.           *)
(*                                                                         *)
(* A title is a sequence of words, a wording a sequence of words as well;  *)
(* what one word finds inside another is left out.  Titles keep what       *)
(* tokens() drops: a comma or a dash between two words, which a wording    *)
(* (words joined by single spaces) does not match.  Rules are switched on  *)
(* and off in FilterRules; learning reads them all alike.  Left out: that  *)
(* a rule is given another wording.                                        *)
(***************************************************************************)
EXTENDS Naturals, FiniteSets, Sequences

CONSTANTS
  Stories,          \* links
  Title,            \* story -> the words of its title
  Summary,          \* story -> the words of its summary
  Broken,           \* pairs <<story, i>>: no single space after the title's word i
  STOP,             \* words without a meaning of their own
  Short,            \* words of fewer than four letters
  PHRASE_MIN, PHRASE_MAX, LEAD, HIDDEN_MIN, WORD_HIDDEN_MIN, LIMIT,
  KEPT_MIN, KEPT_TIMES, \* 5 and 3 in the source
  ByHand,           \* wordings the operator types
  Threads,          \* handler threads that serve a press
  MaxRules          \* bound: rules ever added

VARIABLES
  stored,   \* links in articles
  hidden,   \* links in hidden_links
  rules,    \* filter_rules: [id, pattern, origin]; history: by whom, and what was known
  nextId,   \* AUTOINCREMENT
  press     \* thread -> the press it serves: its titles, the wordings it knows, its proposals;
            \* history: the next id when it read

vars == <<stored, hidden, rules, nextId, press>>

Idle == [busy |-> FALSE, titles |-> {}, existing |-> {}, proposals |-> {}, since |-> 0]

Init ==
  /\ stored = {} /\ hidden = {}
  /\ rules = {} /\ nextId = 1
  /\ press = [t \in Threads |-> Idle]

-----------------------------------------------------------------------------
(* filter_learn: what the hidden titles repeat. *)

\* The places where words stand in a row in text, none of them followed by a break before the last.
Places(words, text, breaks) ==
  {i \in 1 .. Len(text) + 1 - Len(words) :
     /\ SubSeq(text, i, i + Len(words) - 1) = words
     /\ breaks \cap (i .. i + Len(words) - 2) = {}}

Breaks(s) == {i \in 1 .. Len(Title[s]) : <<s, i>> \in Broken}

\* _rule_regex: the rule's wording is found in the story's title.
Found(pattern, s) == Places(pattern, Title[s], Breaks(s)) # {}

\* Where a group of words may begin, and how long it may be.
Groups == (1 .. LEAD) \X (PHRASE_MIN .. PHRASE_MAX)

\* The groups of words near the start of the title, with the place each begins at.
Phrases(s) ==
  LET starts == {g \in Groups : g[1] + g[2] - 1 <= Len(Title[s]) /\ Title[s][g[1]] \notin STOP}
  IN  {<<SubSeq(Title[s], g[1], g[1] + g[2] - 1), g[1]>> : g \in starts}

\* How often the kept texts have the wording.
KeptCount(words, kept) ==
  Cardinality(UNION {{<<s, i>> : i \in Places(words, Title[s] \o Summary[s], Breaks(s))} : s \in kept})

WordsOf(text) == {text[i] : i \in 1 .. Len(text)}

Largest(a, b) == IF a > b THEN a ELSE b

\* A wording two hidden titles share and the kept stories seldom have.
RepeatedPhrases(titles, kept, exclude) ==
  LET found == UNION {Phrases(s) : s \in titles}
      record(p) ==
        [pattern |-> p, kind |-> "phrase",
         titles |-> {s \in titles : \E i \in 1 .. LEAD : <<p, i>> \in Phrases(s)},
         start |-> CHOOSE i \in 1 .. LEAD : <<p, i>> \in found /\ \A j \in 1 .. i - 1 : <<p, j>> \notin found]
  IN {c \in {record(f[1]) : f \in found} :
        /\ Cardinality(c.titles) >= HIDDEN_MIN
        /\ c.pattern \notin exclude
        /\ KeptCount(c.pattern, kept) <= Largest(KEPT_MIN, Cardinality(c.titles) * KEPT_TIMES)}

\* The order proposals are taken in: phrases first, then more titles, an earlier start, fewer words.
Ahead(c, d) ==
  \/ c.kind = "phrase" /\ d.kind = "word"
  \/ /\ c.kind = d.kind
     /\ \/ Cardinality(c.titles) > Cardinality(d.titles)
        \/ /\ Cardinality(c.titles) = Cardinality(d.titles)
           /\ \/ c.start < d.start
              \/ c.start = d.start /\ Len(c.pattern) < Len(d.pattern)

\* One wording for each group of titles: a phrase is dropped when one ahead of it covers its titles.
Shapes(phrases) ==
  {c \in phrases : ~\E d \in phrases : Ahead(d, c) /\ c.titles \subseteq d.titles}

\* Words that tell nothing by themselves.
Plain == STOP \cup Short

\* Words that stand in several hidden titles and in no more kept texts than hidden titles.
TellingWords(titles, kept, exclude, chosen) ==
  LET record(w) == [pattern |-> <<w>>, kind |-> "word", start |-> 1,
                    titles |-> {s \in titles : w \in WordsOf(Title[s])}]
      keptWith(w) == {s \in kept : w \in WordsOf(Title[s] \o Summary[s])}
  IN {c \in {record(w) : w \in UNION {WordsOf(Title[s]) : s \in titles}} :
        LET w == c.pattern[1] IN
        /\ Cardinality(c.titles) >= WORD_HIDDEN_MIN
        /\ c.pattern \notin exclude /\ w \notin Plain
        /\ Cardinality(c.titles) >= Cardinality(keptWith(w))
        /\ \A p \in chosen : w \notin WordsOf(p.pattern)}

\* The first n of the proposals, ties in either order.
Firsts(proposals, n) ==
  {few \in SUBSET proposals :
     /\ Cardinality(few) = IF Cardinality(proposals) < n THEN Cardinality(proposals) ELSE n
     /\ \A c \in few, d \in proposals \ few : ~Ahead(d, c)}

\* derive: phrases up to the limit, and words in the places left.
Derived(titles, kept, exclude) ==
  UNION {{chosen \cup words : words \in Firsts(TellingWords(titles, kept, exclude, chosen),
                                                LIMIT - Cardinality(chosen))}
           : chosen \in Firsts(Shapes(RepeatedPhrases(titles, kept, exclude)), LIMIT)}

-----------------------------------------------------------------------------
(* A press of "learn". *)

Wordings == {r.pattern : r \in rules}

\* A press that has nothing left to weigh is answered.
Rest(job) == IF job.proposals = {} THEN Idle ELSE job

\* The first block: what the press will work on, and the proposals it derives from it.
Learn(t) ==
  /\ ~press[t].busy
  /\ \E proposals \in Derived(hidden, stored \ hidden, Wordings) :
       press' = [press EXCEPT ![t] = Rest([busy |-> TRUE, titles |-> hidden, existing |-> Wordings,
                                           proposals |-> proposals, since |-> nextId])]
  /\ UNCHANGED <<stored, hidden, rules, nextId>>

\* Some hidden title has the wording, and none of the rules the press knows finds that title.
SaysSomethingNew(c, job) ==
  \E s \in job.titles : Found(c.pattern, s) /\ \A p \in job.existing : ~Found(p, s)

\* INSERT OR IGNORE: a wording already in the table is left as it is.
Inserted(pattern, origin, by, since) ==
  IF pattern \in Wordings
  THEN UNCHANGED <<rules, nextId>>
  ELSE /\ nextId <= MaxRules
       /\ rules' = rules \cup {[id |-> nextId, pattern |-> pattern, origin |-> origin,
                                by |-> by, since |-> since]}
       /\ nextId' = nextId + 1

\* Faulty variant: a proposal is held against the rules the press read, not against those it added.
KnownAtFirst(t, c) == press[t].existing

\* The wordings the press knows once it has added one.
Known(t, c) == press[t].existing \cup {c.pattern}

Propose(t, c) ==
  /\ press[t].busy /\ c \in press[t].proposals
  /\ \A d \in press[t].proposals : ~Ahead(d, c)
  /\ LET rest == [press[t] EXCEPT !.proposals = @ \ {c}] IN
     IF SaysSomethingNew(c, press[t])
     THEN /\ Inserted(c.pattern, "learned", t, press[t].since)
          /\ press' = [press EXCEPT ![t] = Rest([rest EXCEPT !.existing = Known(t, c)])]
     ELSE /\ press' = [press EXCEPT ![t] = Rest(rest)]
          /\ UNCHANGED <<rules, nextId>>
  /\ UNCHANGED <<stored, hidden>>

-----------------------------------------------------------------------------
(* Everything else that touches the three tables. *)

Store(s) ==
  /\ s \notin stored
  /\ stored' = stored \cup {s}
  /\ UNCHANGED <<hidden, rules, nextId, press>>

Hide(s) ==
  /\ s \in stored \ hidden
  /\ hidden' = hidden \cup {s}
  /\ UNCHANGED <<stored, rules, nextId, press>>

Unhide(s) ==
  /\ s \in hidden
  /\ hidden' = hidden \ {s}
  /\ UNCHANGED <<stored, rules, nextId, press>>

AddByHand(p) ==
  /\ p \notin Wordings
  /\ Inserted(p, "operator", "hand", 0)
  /\ UNCHANGED <<stored, hidden, press>>

Delete(r) ==
  /\ r \in rules
  /\ rules' = rules \ {r}
  /\ UNCHANGED <<stored, hidden, nextId, press>>

Next ==
  \/ \E t \in Threads : Learn(t) \/ \E c \in press[t].proposals : Propose(t, c)
  \/ \E s \in Stories : Store(s) \/ Hide(s) \/ Unhide(s)
  \/ \E p \in ByHand : AddByHand(p)
  \/ \E r \in rules : Delete(r)

Spec == Init /\ [][Next]_vars

-----------------------------------------------------------------------------
\* "Pressing learn twice must not keep growing the list with weaker wordings of the same shape"
\* (learn_filter_rules): every learned rule finds a story that no rule learned before it finds.  It
\* holds while one press is answered at a time; with two it fails (section 6 of the README).
NoWeakerWording ==
  \A r \in rules :
    r.origin = "learned" =>
      \E s \in Stories :
        /\ Found(r.pattern, s)
        /\ \A q \in rules : q.origin = "learned" /\ q.id < r.id => ~Found(q.pattern, s)

\* q was there when the press that added r looked: it stood at the press's read, or the press added it.
SeenBefore(q, r) ==
  \/ q.id < r.since
  \/ q.origin = "learned" /\ q.by = r.by /\ q.since = r.since /\ q.id < r.id

\* What reading the rules once and adding to that list leaves of it, with presses crossing each other
\* and stories hidden, restored and stored, rules typed and deleted in between: every learned rule
\* finds a story that no rule found, by hand or learned, that its press read or added before it.
\* Only presses that overlap can say one thing twice.
SaysMoreThanSeen ==
  \A r \in rules :
    r.origin = "learned" =>
      \E s \in Stories :
        /\ Found(r.pattern, s)
        /\ \A q \in rules : SeenBefore(q, r) => ~Found(q.pattern, s)
=============================================================================
