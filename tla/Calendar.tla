------------------------------ MODULE Calendar ------------------------------
(***************************************************************************)
(* The economic calendar of the dashboard (server/econ_calendar.py and     *)
(* collectors/potus_schedule.py): three days of releases, speeches,        *)
(* results and presidential events, put together from nine pages of other  *)
(* sites and kept in one payload, which the threads of the server replace  *)
(* without a lock when it is older than five minutes.                      *)
(*                                                                         *)
(* The clock runs in half days, numbered from 0 in each time zone.  Korea  *)
(* is thirteen hours ahead of the clock the sources use, so that half day  *)
(* n there is half day n + 1 here, and day h \div 2.  An entry of a source *)
(* is a record whose words say which of the keyword lists its text meets.  *)
(*                                                                         *)
(* Left out: the texts, the figures of a release, and stars that decide    *)
(* nothing but the look of a row.                                          *)
(***************************************************************************)
EXTENDS Naturals, Sequences, SequencesExt, TLC

CONSTANTS
  Entries,       \* what the sources publish, a set of records
  Countries,     \* the countries shown
  Threads,       \* requests that can be building the payload at once
  FailSets,      \* sets of pages that may fail together
  FirstHalf, LastHalf,    \* bounds of the clock, half days of Korea
  None

VARIABLES
  now,           \* the half day it is in Korea
  out,           \* releases whose result the source shows
  fedOut,        \* the statement of the Federal Reserve gives the new range
  stale,         \* the payload is older than max_age
  payload,       \* _PAYLOAD
  build,         \* what each thread is building, or None
  names          \* _NAME_TRANSLATION_CACHE

vars == <<now, out, fedOut, stale, payload, build, names>>

Day(half) == half \div 2
Today == Day(now)
Kst(half) == half + 1

-----------------------------------------------------------------------------
(* Which entries are wanted, and what becomes of one. *)

Has(e, words) == e.words \cap words # {}

\* 5, 4 or 3: who is speaking, not what the event is called.
speaker_stars(e) == IF "top" \in e.words THEN 5 ELSE IF "high" \in e.words THEN 4 ELSE 3
\* A speaker of another bank may have a voter's surname.
fed_vote(e) ==
  IF "fed" \notin e.words THEN "" ELSE
  IF "nonvoter" \in e.words THEN "no" ELSE IF "voter" \in e.words THEN "yes" ELSE ""

classify(e) ==
  IF e.country \notin Countries \/ "noise" \in e.words THEN <<0, "">> ELSE
  IF "speak" \in e.words THEN <<speaker_stars(e), "speech">> ELSE
  <<IF "level3" \in e.words THEN 3 ELSE IF "level2" \in e.words THEN 2 ELSE 0, "econ">>

event(e, date, slot, kind, stars) ==
  [id |-> e.id, name |-> e.name, country |-> e.country, date |-> date, slot |-> slot,
   kind |-> kind, stars |-> stars, vote |-> "", released |-> FALSE, passed |-> FALSE, ko |-> FALSE]

\* A row of the release pages: Eastern time in the column, whatever its label says.
release(e) ==
  LET h == Kst(e.half) IN
  [event(e, Day(h), h, classify(e)[2], classify(e)[1]) EXCEPT
     !.vote = IF classify(e)[2] = "speech" THEN fed_vote(e) ELSE "",
     !.released = e.id \in out, !.passed = h <= now]

\* A company reports before the bell or after it, which here is the next morning.
earnings_rows(e) ==
  LET d == Day(e.half) + (IF "after" \in e.words THEN 1 ELSE 0)
      h == 2 * d + (IF "after" \in e.words THEN 0 ELSE 1)
  IN [event(e, d, h, "earnings", IF "giant" \in e.words THEN 4 ELSE 3)
        EXCEPT !.passed = 2 * d <= now]

\* The President's schedule: logistics, travel and closed meetings are not news.
wanted(e) ==
  /\ ~Has(e, {"drop", "travel"})
  /\ "closed" \in e.words => "newsworthy" \in e.words
  /\ Has(e, {"keep", "open"})
\* An entry without a time keeps its date.
rows_for(e) ==
  LET h == IF "timed" \in e.words THEN Kst(e.half) ELSE 2 * Day(e.half)
  IN [event(e, Day(h), h, "potus", IF "big" \in e.words THEN 4 ELSE 3) EXCEPT !.passed = h <= now]

-----------------------------------------------------------------------------
(* The pages, by the feed and the days from today. *)

\* Faulty variant: the pages of the days shown.
ShownPages(d) == {<<"econ", d + 1>>, <<"econ", d>>, <<"econ", d + 2>>}
EconPages(d) == {<<"econ", d + i - 2>> : i \in 0..4}
Pages(d) == EconPages(d) \cup {<<"earnings", d + i - 1>> : i \in 0..2} \cup {<<"potus", 0>>}

\* fetch_day: the page of a date lists the Eastern day before it.
fetch_day(day) == {e \in Entries : e.feed = "econ" /\ Day(e.half) + 1 = day}
\* fetch_earnings: this one is not shifted.
fetch_earnings(day) == {e \in Entries : e.feed = "earnings" /\ Day(e.half) = day}

OfPage(p) ==
  CASE p[1] = "econ" -> {release(e) : e \in {x \in fetch_day(p[2]) :
                           "timed" \in x.words /\ classify(x)[1] > 0}}
    [] p[1] = "earnings" -> {earnings_rows(e) : e \in {x \in fetch_earnings(p[2]) : Has(x, {"mega", "giant"})}}
    [] p[1] = "potus" -> {rows_for(e) : e \in {x \in Entries : x.feed = "potus" /\ wanted(x)}}

\* The row of a rate decision stays empty: it is filled from the bank's statement.
Filled(ev, fed) ==
  IF fed /\ ~ev.released /\ ev.passed /\ ev.country = "US" /\ Head(ev.name) = "decision"
  THEN [ev EXCEPT !.released = TRUE] ELSE ev

\* One release comes as several rows: only the shortest name of a time and a country stays.
\* (Of two rows with the same name, the one that came first.)
SameSlot(a, b) == a.kind = "econ" /\ b.kind = "econ" /\ a.slot = b.slot /\ a.country = b.country
Repeats(ev, other) ==
  /\ SameSlot(ev, other)
  /\ IsStrictPrefix(other.name, ev.name) \/ (other.name = ev.name /\ other.id < ev.id)
kept(events) == {ev \in events : \A other \in events : ~Repeats(ev, other)}

-----------------------------------------------------------------------------
(* cached_payload, as the steps of a thread. *)

Init ==
  /\ now = FirstHalf /\ out = {} /\ fedOut = FALSE /\ stale = TRUE
  /\ payload = None
  /\ build = [t \in Threads |-> None]
  /\ names = {}

\* A payload younger than max_age answers at once, and changes nothing.
Serve(t) ==
  /\ build[t] = None
  /\ payload = None \/ stale
  /\ build' = [build EXCEPT ![t] = [step |-> "collect", anchor |-> Today]]
  /\ UNCHANGED <<now, out, fedOut, stale, payload, names>>

\* collect: a page that fails is noted, and never more than that.
collect(t) ==
  /\ build[t] # None /\ build[t].step = "collect"
  /\ \E failed \in FailSets, fed \in BOOLEAN :
       LET pages == Pages(build[t].anchor)
           bad == {p \in pages : <<p[1], IF p[1] = "potus" THEN 2 ELSE p[2] + 2 - build[t].anchor>> \in failed}
           events == UNION {OfPage(p) : p \in pages \ bad}
       IN build' = [build EXCEPT ![t] = [step |-> "name", anchor |-> @.anchor, errors |-> bad,
                                         events |-> kept({Filled(ev, fed /\ fedOut) : ev \in events})]]
  /\ UNCHANGED <<now, out, fedOut, stale, payload, names>>

\* translate_event_names: those not remembered are asked for together.  A failure is
\* remembered as well, for an hour; the cache holds <<name, whether it has a value>>.
translate_event_names(wants, answered) ==
  names \cup {<<n, answered>> : n \in {m \in wants : <<m, TRUE>> \notin names /\ <<m, FALSE>> \notin names}}

Attach(t) ==
  /\ build[t] # None /\ build[t].step = "name"
  /\ \E answered \in BOOLEAN : names' = translate_event_names({ev.name : ev \in build[t].events}, answered)
  /\ build' = [build EXCEPT ![t].step = "store",
                            ![t].events = {[ev EXCEPT !.ko = <<ev.name, TRUE>> \in names'] : ev \in @}]
  /\ UNCHANGED <<now, out, fedOut, stale, payload>>

\* The days published are yesterday, today and tomorrow of the day the build began.
Days(b) == [anchor |-> b.anchor, errors |-> b.errors,
            events |-> {ev \in b.events : b.anchor <= ev.date + 1 /\ ev.date <= b.anchor + 1}]
Store(t) ==
  /\ build[t] # None /\ build[t].step = "store"
  /\ payload' = Days(build[t]) /\ stale' = FALSE
  /\ build' = [build EXCEPT ![t] = None]
  /\ UNCHANGED <<now, out, fedOut, names>>

-----------------------------------------------------------------------------
(* What goes on around it. *)

Age == ~stale /\ stale' = TRUE /\ UNCHANGED <<now, out, fedOut, payload, build, names>>
Tick ==
  /\ now < LastHalf /\ now' = now + 1 /\ stale' = TRUE
  /\ UNCHANGED <<out, fedOut, payload, build, names>>
\* After an hour the failures are forgotten, after a week the rest.
Forget ==
  /\ names # {}
  /\ \E answered \in BOOLEAN : names' = {n \in names : n[2] # answered}
  /\ UNCHANGED <<now, out, fedOut, stale, payload, build>>
Result(e) ==
  /\ e.feed = "econ" /\ e.id \notin out /\ Kst(e.half) <= now /\ Head(e.name) # "decision"
  /\ out' = out \cup {e.id}
  /\ UNCHANGED <<now, fedOut, stale, payload, build, names>>
Statement == ~fedOut /\ fedOut' = TRUE /\ UNCHANGED <<now, out, stale, payload, build, names>>

Next ==
  \/ \E t \in Threads : Serve(t) \/ collect(t) \/ Attach(t) \/ Store(t)
  \/ Age \/ Tick \/ Forget \/ Statement
  \/ \E e \in Entries : Result(e)

Spec == Init /\ [][Next]_vars

-----------------------------------------------------------------------------
(* Properties. *)

\* What belongs on the calendar of a day: releases of yesterday, today and tomorrow in
\* Korea, and the results of the companies that report today or tomorrow.
Due(e, d) ==
  CASE e.feed = "econ" -> /\ "timed" \in e.words /\ classify(e)[1] > 0
                          /\ Day(Kst(e.half)) \in {d - 1, d, d + 1}
    [] e.feed = "earnings" -> Has(e, {"mega", "giant"}) /\ earnings_rows(e).date \in {d, d + 1}
    [] e.feed = "potus" -> wanted(e) /\ rows_for(e).date \in {d - 1, d, d + 1}

\* A payload built while every page answered shows everything that is due, each entry by
\* itself or by a row of the same moment and country whose name begins its own: the pages
\* asked for, the shift of the days, the two clocks and the folding of rows agree.
Complete ==
  payload # None /\ payload.errors = {} =>
    \A e \in Entries : Due(e, payload.anchor) =>
      \E ev \in payload.events :
        \/ ev.id = e.id
        \/ /\ e.feed = "econ" /\ ev.kind = "econ" /\ ev.country = e.country
           /\ ev.slot = Kst(e.half) /\ IsPrefix(ev.name, e.name)
=============================================================================
