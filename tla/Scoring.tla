-------------------------------- MODULE Scoring -------------------------------
(***************************************************************************)
(* Two opinions about a stored story.  pipeline/ai_score.py asks a         *)
(* language model for a number per title: it numbers the titles of a       *)
(* batch, reads "<id>:<score>" lines back and writes ai_priority once, at  *)
(* the end of the run; runs may overlap, be killed, and their calls fail.  *)
(* pipeline/category_rules.py finds a story's categories when it is        *)
(* inserted and reads them back, under rules that were renamed since.      *)
(***************************************************************************)
EXTENDS Integers, Sequences, FiniteSets, SequencesExt

CONSTANTS
  Stories,             \* numbered; of two of one hour the greater number is read first
  Published,           \* [Stories -> Nat]: hours
  Matched,             \* stories an operator rule matches; it is switched on and off
  Runs,                \* runs of ai_score.py
  BATCH, Limit, WINDOW_HOURS, Day,
  Answers,             \* what the model may say: sequences of lines [id, score]
  Words,               \* [Stories -> SUBSET words]: title and summary
  Whole, Within,       \* pairs <<t, w>>: w is t or its plural; t stands inside w
  BOUNDARY_TERMS,      \* terms that match whole words only
  NonLatin,            \* terms in a writing without word breaks
  Releases,            \* the rules of each release: sequences of [name, terms, context]
  GENERIC_CATEGORY,    \* names are sequences of parts, <<"a", "b">> for "a·b"
  MaxClock, None

VARIABLES
  clock, stored,   \* hours; the stories the collector has inserted
  caught,          \* stories an enabled operator rule holds back
  ai_priority,     \* [Stories -> 1..5 or None]
  run,             \* the local variables of each run of main()
  meant,           \* history: <<story, score>> the model gave for that story's title
  release,         \* the rules in service
  categories       \* [Stories -> sequence of names], empty before the insert

vars == <<clock, stored, caught, ai_priority, run, meant, release, categories>>
labels == <<release, categories>>

Idle == [pc |-> "off", rows |-> <<>>, offset |-> 0, payload |-> <<>>, index |-> <<>>,
         scored |-> [s \in Stories |-> None], asked |-> {}]

Init ==
  /\ clock = Day /\ stored = {} /\ caught = {}
  /\ ai_priority = [s \in Stories |-> None]
  /\ run = [p \in Runs |-> Idle]
  /\ meant = {}
  /\ release = 1 /\ categories = [s \in Stories |-> <<>>]

(* What s holds at the positions in I, in the order it has there. *)
Pick(s, I) ==
  [k \in 1..Cardinality(I) |-> s[CHOOSE i \in I : Cardinality({j \in I : j < i}) = k - 1]]

-----------------------------------------------------------------------------
(* Categories. *)

Occurs(term, text, pairs) == \E w \in text : <<term, w>> \in pairs

term_hits(text, term) ==
  IF term \in BOUNDARY_TERMS THEN Occurs(term, text, Whole)
  ELSE Occurs(term, text, Whole \cup Within)

(* A word a reader would type, or the name of a place: whole unless its writing has no breaks. *)
text_matches(text, needle) ==
  IF needle \in NonLatin THEN Occurs(needle, text, Whole \cup Within)
  ELSE Occurs(needle, text, Whole)

Rules == Releases[release]

match_all(text) ==
  LET Applies(rule) ==
        /\ \E t \in rule.terms : term_hits(text, t)
        /\ rule.context = {} \/ \E t \in rule.context : text_matches(text, t)
      matched == {i \in DOMAIN Rules : Applies(Rules[i])} IN
  Pick([i \in DOMAIN Rules |-> Rules[i].name], matched)

valid_names == {GENERIC_CATEGORY} \cup {Rules[i].name : i \in DOMAIN Rules}

(* A name no release offers any more is read as its first part that is a name today. *)
retire(name) ==
  LET current == Pick(name, {i \in DOMAIN name : <<name[i]>> \in valid_names}) IN
  IF name \in valid_names \/ current = <<>> THEN name ELSE <<Head(current)>>

(* The stored column, read back: every name once, in order, and never nothing. *)
split_categories(names) ==
  LET given == IF names = <<>> THEN <<GENERIC_CATEGORY>> ELSE names
      now == [i \in DOMAIN given |-> retire(given[i])] IN
  Pick(now, {i \in DOMAIN now : \A k \in 1..(i - 1) : now[k] # now[i]})

(* make_article() labels a story by the rules of the day; the collector inserts it. *)
Insert(s) ==
  /\ s \notin stored /\ Published[s] <= clock
  /\ stored' = stored \cup {s}
  /\ LET matched == match_all(Words[s]) IN
     categories' = [categories EXCEPT ![s] =
                      IF matched = <<>> THEN <<GENERIC_CATEGORY>> ELSE matched]
  /\ UNCHANGED <<clock, caught, ai_priority, run, meant, release>>

(* A release with other rules; the rows keep the names they have. *)
Deploy ==
  /\ release < Len(Releases)
  /\ release' = release + 1
  /\ UNCHANGED <<clock, stored, caught, ai_priority, run, meant, categories>>

Hour ==
  /\ clock < MaxClock /\ clock' = clock + 1
  /\ UNCHANGED <<stored, caught, ai_priority, run, meant, labels>>

(* An operator's rule takes its stories off the pages, or is switched off. *)
Switch ==
  /\ caught' = IF caught = {} THEN Matched \cap stored ELSE {}
  /\ caught' # caught
  /\ UNCHANGED <<clock, stored, ai_priority, run, meant, labels>>

-----------------------------------------------------------------------------
(* Scores. *)

(* The cutoff is compared as text, and a stamp of its day is the larger text whatever its hour. *)
Recent(s) == Published[s] \div Day >= (clock - WINDOW_HOURS) \div Day

pending ==
  LET found == {s \in stored \ caught : ai_priority[s] = None /\ Recent(s)}
      Newer(s) == {t \in found : \/ Published[t] > Published[s]
                                 \/ Published[t] = Published[s] /\ t > s}
      rows == [k \in 1..Cardinality(found) |-> CHOOSE s \in found : Cardinality(Newer(s)) = k - 1]
  IN  IF Limit > 0 /\ Len(rows) > Limit THEN SubSeq(rows, 1, Limit) ELSE rows

(* Titles are numbered from 1 in every batch, with the way back to the link. *)
build_batch(rows) == [payload |-> rows, index |-> rows]

(* Faulty variant: the titles are numbered on from the batch before. *)
ChunkRenumbered(r) ==
  LET last == IF r.offset + BATCH < Len(r.rows) THEN r.offset + BATCH ELSE Len(r.rows) IN
  [payload |-> SubSeq(r.rows, r.offset + 1, last), index |-> r.rows]

Chunk(r) ==
  LET last == IF r.offset + BATCH < Len(r.rows) THEN r.offset + BATCH ELSE Len(r.rows) IN
  build_batch(SubSeq(r.rows, r.offset + 1, last))

(* Lines that name no title of the batch or no score are passed over; the last one counts. *)
parse(answer, index) ==
  [s \in Stories |->
     LET lines == Pick(answer, {i \in DOMAIN answer : LET line == answer[i] IN
           line.id \in DOMAIN index /\ line.score \in 1..5 /\ index[line.id] = s}) IN
     IF lines = <<>> THEN None ELSE Last(lines).score]

Update(scored, more) == [s \in Stories |-> IF more[s] = None THEN scored[s] ELSE more[s]]

Begin(p) ==
  /\ run[p].pc = "off" /\ pending # <<>>
  /\ run' = [run EXCEPT ![p] = [Idle EXCEPT !.pc = "asking", !.rows = pending]]
  /\ UNCHANGED <<clock, stored, caught, ai_priority, meant, labels>>

Ask(p) ==
  /\ run[p].pc = "asking" /\ run[p].offset < Len(run[p].rows)
  /\ LET batch == Chunk(run[p]) IN
     run' = [run EXCEPT ![p] = [@ EXCEPT !.pc = "waiting", !.payload = batch.payload,
                                  !.index = batch.index, !.asked = run[p].asked \cup ToSet(batch.payload)]]
  /\ UNCHANGED <<clock, stored, caught, ai_priority, meant, labels>>

(* What the model says is about the titles as they stand in the request. *)
Answer(p, answer) ==
  /\ run[p].pc = "waiting"
  /\ meant' = meant \cup {<<run[p].payload[line.id], line.score>> :
                line \in {l \in ToSet(answer) : l.id \in DOMAIN run[p].payload}}
  /\ run' = [run EXCEPT ![p] = [@ EXCEPT !.pc = "asking", !.offset = run[p].offset + BATCH,
                                  !.scored = Update(run[p].scored, parse(answer, run[p].index))]]
  /\ UNCHANGED <<clock, stored, caught, ai_priority, labels>>

(* The call fails: this batch is left without a score. *)
Fail(p) ==
  /\ run[p].pc = "waiting"
  /\ run' = [run EXCEPT ![p] = [@ EXCEPT !.pc = "asking", !.offset = run[p].offset + BATCH]]
  /\ UNCHANGED <<clock, stored, caught, ai_priority, meant, labels>>

(* One UPDATE per scored link and one commit; nothing scored, nothing written. *)
Write(p) ==
  /\ run[p].pc = "asking" /\ run[p].offset >= Len(run[p].rows)
  /\ ai_priority' = Update(ai_priority, run[p].scored)
  /\ run' = [run EXCEPT ![p] = Idle]
  /\ UNCHANGED <<clock, stored, caught, meant, labels>>

Killed(p) ==
  /\ run[p].pc # "off"
  /\ run' = [run EXCEPT ![p] = Idle]
  /\ UNCHANGED <<clock, stored, caught, ai_priority, meant, labels>>

Next ==
  \/ \E s \in Stories : Insert(s)
  \/ Deploy \/ Hour \/ Switch
  \/ \E p \in Runs : Begin(p) \/ Ask(p) \/ Fail(p) \/ Write(p) \/ Killed(p)
  \/ \E p \in Runs, answer \in Answers : Answer(p, answer)

Spec == Init /\ [][Next]_vars

-----------------------------------------------------------------------------
(***************************************************************************)
(* A stored score is one the model gave for the title of that very story,  *)
(* whatever batches, failures and overlapping runs came between; and a run *)
(* about to write has asked for each of its stories in one batch.          *)
(***************************************************************************)
ScoresMeant ==
  /\ \A s \in Stories : ai_priority[s] # None => <<s, ai_priority[s]>> \in meant
  /\ \A p \in Runs :
       run[p].pc = "asking" =>
         /\ run[p].offset >= Len(run[p].rows) => run[p].asked = ToSet(run[p].rows)
         /\ Cardinality(run[p].asked) >= Len(run[p].rows) \/ run[p].offset = Cardinality(run[p].asked)

(***************************************************************************)
(* Whatever release wrote a row, it reads as categories of today: none     *)
(* twice, at least one, a name of today as itself, a renamed one as one of *)
(* its parts, and reading what was read (a published list is read again)   *)
(* changes nothing.                                                        *)
(***************************************************************************)
LabelsCurrent ==
  \A s \in stored : LET read == split_categories(categories[s]) IN
    /\ read # <<>> /\ IsInjective(read)
    /\ \A i \in DOMAIN categories[s] : LET name == categories[s][i] IN
         \/ name \in valid_names /\ Contains(read, name)
         \/ name \notin valid_names /\ Contains(read, retire(name))
    /\ \A i \in DOMAIN read :
         read[i] \in valid_names \/ \A k \in DOMAIN read[i] : <<read[i][k]>> \notin valid_names
    /\ split_categories(read) = read
=============================================================================
