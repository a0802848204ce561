---------------------------- MODULE MCCollector ----------------------------
(* One story: a (global) and t (Thailand) are one Google link, b tells it  *)
(* on its publisher's page, j is FinancialJuice's alert of it.  a and t    *)
(* read like b once their outlet is named, and nearly so before.           *)
EXTENDS Collector, TLC

CONSTANTS a, b, t, j

MCLink == (a :> "g") @@ (t :> "g") @@ (b :> "p") @@ (j :> "fj")
MCUrl == (a :> "P") @@ (t :> "P") @@ (b :> "P") @@ (j :> "J")
MCPlain == (a :> "k") @@ (t :> "k") @@ (b :> "k") @@ (j :> "k")
MCTailed == (a :> "ko") @@ (t :> "ko") @@ (b :> "k") @@ (j :> "k")
MCSimilar == {<<"k", "ko">>, <<"ko", "k">>}
MCEvents == {<<a, b>>, <<b, a>>}
=============================================================================
