-------------------------------- MODULE Ticker --------------------------------
(***************************************************************************)
(* The price strip of the landing page (assets/landing/mexc-ticker.js): one*)
(* WebSocket to the exchange, the timers that reconnect and rotate it, and *)
(* the state the reader is shown beside the prices.  Every handler of a    *)
(* socket first compares it with `ws`, so a socket that was replaced       *)
(* changes nothing any more and is not kept here.                          *)
(*                                                                         *)
(* The exchange is `up` or not; a connection may also go `deaf`: it stays  *)
(* open and brings nothing.  The clock counts only the silence since the   *)
(* last price, or since the socket opened.  Left out: the ping, the growing*)
(* delay before a retry, how a price looks, the strip of indices, and the  *)
(* account link and news count of the page's header.                       *)
(***************************************************************************)
EXTENDS Naturals

CONSTANT STALE  \* silence after which prices are called late: 45 s

VARIABLES
  up, deaf,     \* the exchange serves; this connection brings nothing
  page,         \* "shown", "hidden", "cached" (kept by the browser after leaving)
  ws,           \* "none", "connecting", "open", "closing"
  reconnectTimer, rotateTimer,
  lastValidAt,  \* a price came over this connection
  silence,      \* since then, or since it opened; up to one more than STALE
  state         \* of the strip: "connecting", "reconnecting", "live", "stale"

timers == <<reconnectTimer, rotateTimer>>
vars == <<up, deaf, page, ws, timers, lastValidAt, silence, state>>

\* A page that is cached runs nothing.
Runs == page # "cached"
Silent == silence > STALE

\* connect: the old socket is closed with its timers, and what is known of it forgotten.
connect ==
  /\ ws' = "connecting" /\ deaf' = FALSE
  /\ reconnectTimer' = FALSE /\ rotateTimer' = FALSE
  /\ lastValidAt' = FALSE /\ silence' = 0
  /\ state' = "connecting"
  /\ UNCHANGED up

Init ==
  /\ up \in BOOLEAN /\ deaf = FALSE /\ page = "shown"
  /\ ws = "connecting" /\ reconnectTimer = FALSE /\ rotateTimer = FALSE
  /\ lastValidAt = FALSE /\ silence = 0 /\ state = "connecting"

scheduleRetry ==
  /\ rotateTimer' = FALSE /\ reconnectTimer' = TRUE
  /\ state' = "reconnecting"

\* updateFreshness: the socket has to be open, and something to be said of it.
Freshness(heard, quiet) ==
  IF ws # "open" \/ (~heard /\ quiet <= STALE) THEN state
  ELSE IF quiet > STALE THEN "stale" ELSE "live"

-----------------------------------------------------------------------------
(* The socket. *)

onopen ==
  /\ Runs /\ ws = "connecting" /\ up
  /\ ws' = "open" /\ silence' = 0
  /\ rotateTimer' = TRUE
  /\ state' = "connecting"
  /\ UNCHANGED <<up, deaf, page, reconnectTimer, lastValidAt>>

\* A price of a listed symbol; the reply to a ping, and what cannot be decoded or is out
\* of range, are dropped without a trace.
readMiniTicker ==
  /\ Runs /\ ws = "open" /\ up /\ ~deaf
  /\ lastValidAt' = TRUE /\ silence' = 0
  /\ state' = Freshness(TRUE, 0)
  /\ UNCHANGED <<up, deaf, page, ws, timers>>

\* The connection fails or begins to close; onclose follows.
onerror ==
  /\ Runs /\ ws \in {"connecting", "open"}
  /\ ws' = "closing"
  /\ UNCHANGED <<up, deaf, page, timers, lastValidAt, silence, state>>

onclose ==
  /\ Runs /\ ws = "closing"
  /\ ws' = "none" /\ deaf' = FALSE /\ lastValidAt' = FALSE /\ silence' = 0
  /\ scheduleRetry
  /\ UNCHANGED <<up, page>>

-----------------------------------------------------------------------------
(* The timers. *)

Reconnect == Runs /\ reconnectTimer /\ connect /\ UNCHANGED page

\* Faulty variant: a silent connection is left to the exchange to end.
RotateHeard == Runs /\ rotateTimer /\ ~Silent /\ connect /\ UNCHANGED page

\* Ten minutes before the exchange would end the connection.
Rotate == Runs /\ rotateTimer /\ connect /\ UNCHANGED page

updateFreshness ==
  /\ Runs
  /\ state' = Freshness(lastValidAt, silence)
  /\ UNCHANGED <<up, deaf, page, ws, timers, lastValidAt, silence>>

Tick ==
  /\ Runs /\ ws = "open" /\ ~Silent
  /\ silence' = silence + 1
  /\ UNCHANGED <<up, deaf, page, ws, timers, lastValidAt, state>>

-----------------------------------------------------------------------------
(* The page and the network. *)

\* online, and visibilitychange: only where no socket is open or on its way.
Idle == ws \in {"none", "closing"}
Online == Runs /\ Idle /\ connect /\ UNCHANGED page
Hide ==
  /\ page = "shown" /\ page' = "hidden"
  /\ UNCHANGED <<up, deaf, ws, timers, lastValidAt, silence, state>>
Show ==
  /\ page = "hidden" /\ page' = "shown"
  /\ IF Idle THEN connect
     ELSE /\ state' = Freshness(lastValidAt, silence)
          /\ UNCHANGED <<up, deaf, ws, timers, lastValidAt, silence>>

\* A cached page holds no socket and no timer of one.
PageHide ==
  /\ Runs /\ page' = "cached"
  /\ ws' = "none" /\ deaf' = FALSE
  /\ reconnectTimer' = FALSE /\ rotateTimer' = FALSE
  /\ UNCHANGED <<up, lastValidAt, silence, state>>
PageShow == page = "cached" /\ page' = "shown" /\ connect

Exchange ==
  /\ up' = ~up
  /\ UNCHANGED <<deaf, page, ws, timers, lastValidAt, silence, state>>
GoesDeaf ==
  /\ ws = "open" /\ ~deaf /\ deaf' = TRUE
  /\ UNCHANGED <<up, page, ws, timers, lastValidAt, silence, state>>

Next ==
  \/ onopen \/ readMiniTicker \/ onerror \/ onclose
  \/ Reconnect \/ Rotate \/ updateFreshness \/ Tick
  \/ Online \/ Hide \/ Show \/ PageHide \/ PageShow
  \/ Exchange \/ GoesDeaf
Spec == Init /\ [][Next]_vars

\* Time passes, timers fire, sockets answer; attempts made again and again open in the end, and
\* connections that open again and again bring a price, unless each of them goes deaf.
FairSpec ==
  Spec /\ WF_vars(Tick) /\ SF_vars(onopen) /\ WF_vars(onclose)
       /\ WF_vars(Reconnect) /\ WF_vars(Rotate) /\ SF_vars(readMiniTicker)

-----------------------------------------------------------------------------
(* Properties. *)

(* Whatever the network and the reader did before, once the exchange serves  *)
(* for good, the page stays, and no further connection goes deaf, the prices *)
(* are fresh again and again.  The connection that is deaf already is the    *)
(* hard case: no event tells of it, and the rotation alone replaces it.      *)
PricesReturn ==
  <>[](up /\ Runs) /\ <>[][deaf' => deaf]_vars
    => []<>(ws = "open" /\ lastValidAt /\ ~Silent)
=============================================================================
