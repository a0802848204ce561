------------------------------- MODULE Outlet -------------------------------
(***************************************************************************)
(* What the channel pusher promises, without pacing, locks or processes.   *)
(* `told` counts the messages of a story in the Telegram channel and       *)
(* `recorded` is the set of stories the tg_posted table knows.  A message  *)
(* is published only for a story that is not recorded, and only a          *)
(* published story is ever recorded: the table never suppresses a story    *)
(* the channel has not seen, and never fails to suppress one it knows.     *)
(***************************************************************************)
EXTENDS Naturals

CONSTANT Stories

VARIABLES told, recorded

outletVars == <<told, recorded>>

Init ==
  /\ told = [s \in Stories |-> 0]
  /\ recorded = {}

Publish(s) ==
  /\ s \notin recorded
  /\ told' = [told EXCEPT ![s] = @ + 1]
  /\ UNCHANGED recorded

Record(s) ==
  /\ told[s] > 0
  /\ recorded' = recorded \cup {s}
  /\ UNCHANGED told

Next == \E s \in Stories : Publish(s) \/ Record(s)

Spec == Init /\ [][Next]_outletVars
=============================================================================
