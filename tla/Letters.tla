------------------------------ MODULE Letters ------------------------------
(***************************************************************************)
(* Private messages and member blocks (private_messages.py of              *)
(* thai_platform/community), and the counter of unread messages a page     *)
(* keeps up to date (static/message-unread.js).                            *)
(*                                                                         *)
(* Sending, blocking and unblocking are transactions that lock the rows of *)
(* both members in the order of their keys.  They are modelled with row    *)
(* locks, one step per lock, check and commit, as lock_pair's comment has  *)
(* it; SQLite's one write lock allows fewer interleavings.  The page asks  *)
(* for the count every 30 seconds while it is visible, and at once when it *)
(* becomes visible; its answers may fail and may be late.                  *)
(*                                                                         *)
(* Left out: the text of a message, the lists and their pages, and the     *)
(* conditions on a profile (every member of the model meets them).  A      *)
(* message the rate limiter refuses changes nothing, and is not a request. *)
(***************************************************************************)
EXTENDS Naturals, FiniteSets

CONSTANTS
  Members,       \* primary keys of the accounts, a set of numbers
  Reader,        \* the member whose page is open
  Requests,      \* requests the server can be serving at once
  MaxLetters,    \* bound: messages ever sent
  None

VARIABLES
  blocks,        \* MemberBlock rows, <<blocker, blocked>>
  letters,       \* PrivateMessage rows
  req,           \* what each request is doing, or None
  lock,          \* the request that has locked a member's row, or None
  page           \* the script's variables

server == <<blocks, letters, req, lock>>
vars == <<server, page>>

Kinds == {"send", "block", "unblock"}
Sending == Cardinality({r \in Requests : req[r] # None /\ req[r].kind = "send"})
Unread(m) == Cardinality({l \in letters : l.to = m /\ ~l.read})

\* A page just opened shows no message and asks when its timer fires.
Opened == [visible |-> TRUE, timer |-> TRUE, inFlight |-> FALSE, payload |-> None,
           refreshRequested |-> FALSE, currentCount |-> 0]

Init ==
  /\ blocks = {} /\ letters = {}
  /\ req = [r \in Requests |-> None]
  /\ lock = [m \in Members |-> None]
  /\ page = Opened

-----------------------------------------------------------------------------
(* The server. *)

Begin(r, kind, u, v) ==
  /\ req[r] = None /\ u # v
  /\ kind = "send" => Cardinality(letters) + Sending < MaxLetters
  /\ req' = [req EXCEPT ![r] = [kind |-> kind, by |-> u, to |-> v, at |-> "lock"]]
  /\ UNCHANGED <<blocks, letters, lock, page>>

Held(r) == {m \in Members : lock[m] = r}
\* lock_pair: the rows a request updates, in this order.
Pair(r) == {req[r].by, req[r].to}
\* Faulty variant: the own row first.
OwnRowFirst(r) == IF req[r].by \in Held(r) THEN req[r].to ELSE req[r].by
\* The next row to lock.
NextRow(r) == CHOOSE m \in Pair(r) \ Held(r) : \A n \in Pair(r) \ Held(r) : m <= n

LockRow(r) ==
  /\ req[r] # None /\ req[r].at = "lock" /\ Pair(r) \ Held(r) # {}
  /\ lock[NextRow(r)] = None
  /\ lock' = [lock EXCEPT ![NextRow(r)] = r]
  /\ UNCHANGED <<blocks, letters, req, page>>

Blocked(u, v) == <<u, v>> \in blocks \/ <<v, u>> \in blocks

\* The query for a block in either direction.
Check(r) ==
  /\ req[r] # None /\ req[r].at = "lock" /\ Pair(r) \subseteq Held(r)
  /\ req' = [req EXCEPT ![r].at =
       IF req[r].kind = "send" /\ Blocked(req[r].by, req[r].to) THEN "refuse" ELSE "write"]
  /\ UNCHANGED <<blocks, letters, lock, page>>

\* The rows are written, and the commit releases the locks.
Commit(r) ==
  /\ req[r] # None /\ req[r].at \in {"write", "refuse"}
  /\ LET pair == <<req[r].by, req[r].to>>
         writes == req[r].at = "write"
     IN  /\ blocks' = IF ~writes \/ req[r].kind = "send" THEN blocks
                      ELSE IF req[r].kind = "block" THEN blocks \cup {pair} ELSE blocks \ {pair}
         /\ letters' = IF ~writes \/ req[r].kind # "send" THEN letters
                       ELSE letters \cup {[id |-> Cardinality(letters) + 1, from |-> pair[1],
                                           to |-> pair[2], read |-> FALSE]}
  /\ req' = [req EXCEPT ![r] = None]
  /\ lock' = [m \in Members |-> IF lock[m] = r THEN None ELSE lock[m]]
  /\ UNCHANGED page

\* read: only the first time, only the recipient.
Read(l) ==
  /\ l \in letters /\ ~l.read
  /\ letters' = (letters \ {l}) \cup {[l EXCEPT !.read = TRUE]}
  /\ UNCHANGED <<blocks, req, lock, page>>

-----------------------------------------------------------------------------
(* The page. *)

\* schedule and refresh, as functions of the script's variables.
Scheduled(p) == IF p.timer \/ p.inFlight \/ ~p.visible THEN p ELSE [p EXCEPT !.timer = TRUE]
Refreshed(p) == IF p.inFlight \/ ~p.visible THEN p
                ELSE [p EXCEPT !.inFlight = TRUE, !.payload = None]

TimerFires ==
  /\ page.timer
  /\ page' = Refreshed([page EXCEPT !.timer = FALSE])
  /\ UNCHANGED server

\* unread_count, and its answer on the way.
Count ==
  /\ page.inFlight /\ page.payload = None
  /\ page' = [page EXCEPT !.payload = Unread(Reader)]
  /\ UNCHANGED server

\* The end of the fetch, whether it succeeded or not.
Ended(p) ==
  LET done == [p EXCEPT !.inFlight = FALSE, !.payload = None, !.refreshRequested = FALSE]
  IN  IF p.refreshRequested /\ p.visible THEN Refreshed(done) ELSE Scheduled(done)

Arrive ==
  /\ page.inFlight /\ page.payload # None
  /\ page' = Ended([page EXCEPT !.currentCount = IF page.visible THEN page.payload ELSE @])
  /\ UNCHANGED server

\* An answer that is lost is as good as a request that is: nothing but the page is told.
Fail ==
  /\ page.inFlight /\ page.payload = None
  /\ page' = Ended(page)
  /\ UNCHANGED server

Turn ==
  /\ page' = LET turned == [page EXCEPT !.visible = ~@, !.timer = FALSE]
             IN  IF ~turned.visible THEN turned
                 ELSE IF page.inFlight THEN [turned EXCEPT !.refreshRequested = TRUE]
                 ELSE Refreshed(turned)
  /\ UNCHANGED server

Next ==
  \/ \E r \in Requests, kind \in Kinds, u, v \in Members : Begin(r, kind, u, v)
  \/ \E r \in Requests : LockRow(r) \/ Check(r) \/ Commit(r)
  \/ \E l \in letters : Read(l)
  \/ TimerFires \/ Count \/ Arrive \/ Fail \/ Turn

\* The server serves what it has begun, timers fire, and a page that asks again
\* and again is answered again and again.
Fairness ==
  /\ \A r \in Requests : SF_vars(LockRow(r)) /\ WF_vars(Check(r)) /\ WF_vars(Commit(r))
  /\ WF_vars(TimerFires) /\ SF_vars(Count) /\ WF_vars(Arrive)

Spec == Init /\ [][Next]_vars /\ Fairness

-----------------------------------------------------------------------------
(* No message is stored while one of the two members blocks the other, in    *)
(* whatever order the requests of both run (the reason for lock_pair).       *)
NoLetterUnderBlock ==
  [][\A l \in letters' : l.id > Cardinality(letters) => ~Blocked(l.from, l.to) /\ blocks' = blocks]_vars

(* Every request ends, however the locks are asked for, and a page that      *)
(* stays visible ends up showing the number of unread messages.              *)
RequestsEnd == \A r \in Requests : []<>(req[r] = None)
CountCatchesUp == <>[](page.visible) => []<>(page.currentCount = Unread(Reader))
AllAnswered == RequestsEnd /\ CountCatchesUp
=============================================================================
