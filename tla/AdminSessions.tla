--------------------------- MODULE AdminSessions ---------------------------
(***************************************************************************)
(* The operator's sessions (server/admin_auth.py, and handle_session,      *)
(* serve_admin and the gate of do_POST in server/live_news_dashboard.py).  *)
(* One password lies in a file; a session is a token signed with it, kept  *)
(* by the browser.  The server remembers in memory which tokens were       *)
(* signed out and when logins failed; a restart forgets both.  Every       *)
(* request is a thread of its own, and the questions it asks (may I try,   *)
(* is it right, note it) are steps between which others run.               *)
(*                                                                         *)
(* A password is a number, 0 for no file.  Left out: the encoding of a     *)
(* cookie, and a second address (the counts of addresses are separate).    *)
(***************************************************************************)
EXTENDS Naturals, FiniteSets

CONSTANTS
  Threads, Browsers,
  Passwords,              \* 1, 2, ...: contents the file may have
  TTL, FAIL_LIMIT, FAIL_WINDOW,   \* 30 days, 5, 15 minutes
  MaxClock, MaxLogins,    \* bounds: of time, and of tokens ever issued
  None

VARIABLES
  clock,
  password,     \* what the file holds
  failures,     \* the failed logins remembered for the address: <<time, which of that time>>
  revoked,      \* _revoked
  jar,          \* the token each browser holds, or None
  req,          \* what each thread is doing, or None
  issued,       \* tokens issued so far
  signedOut     \* history: tokens this process has been asked to forget

vars == <<clock, password, failures, revoked, jar, req, issued, signedOut>>

Init ==
  /\ clock = 0 /\ password \in Passwords \cup {0}
  /\ failures = {} /\ revoked = {} /\ signedOut = {}
  /\ jar = [b \in Browsers |-> None] /\ req = [t \in Threads |-> None] /\ issued = 0

-----------------------------------------------------------------------------
(* admin_auth.py *)

verify_token(token) ==
  /\ password # 0 /\ token # None
  /\ token \notin revoked
  /\ token.expiry > clock
  /\ token.key = password

\* The nonce makes two tokens of one second different.
issue_token == IF password = 0 THEN None ELSE [expiry |-> clock + TTL, key |-> password, nonce |-> issued]

Recent == {f \in failures : clock - f[1] < FAIL_WINDOW}
login_allowed == Cardinality(Recent) < FAIL_LIMIT
ThisFailure == <<clock, Cardinality({f \in failures : f[1] = clock})>>

\* A token that has expired is refused anyway, so it need not be remembered.
\* Faulty variant: the list keeps the expired tokens and drops the others.
Lasting(tokens) == {t \in tokens : t.expiry <= clock}
Remembered(tokens) == {t \in tokens : t.expiry > clock}

-----------------------------------------------------------------------------
(* handle_session: a login asks whether it may try, compares, and is noted. *)

Idle(t) == req[t] = None
Go(t, step) == req' = [req EXCEPT ![t] = step]

Login(t, b, typed) ==
  /\ Idle(t) /\ login_allowed /\ issued < MaxLogins
  /\ failures' = Recent
  /\ Go(t, [step |-> "check", by |-> b, typed |-> typed])
  /\ UNCHANGED <<clock, password, revoked, jar, issued, signedOut>>

CheckLogin(t) ==
  /\ ~Idle(t) /\ req[t].step = "check"
  /\ IF password # 0 /\ req[t].typed = password
     THEN failures' = {} /\ Go(t, [step |-> "issue", by |-> req[t].by])
     ELSE failures' = failures \cup {ThisFailure} /\ Go(t, None)
  /\ UNCHANGED <<clock, password, revoked, jar, issued, signedOut>>

Issue(t) ==
  /\ ~Idle(t) /\ req[t].step = "issue"
  /\ jar' = [jar EXCEPT ![req[t].by] = issue_token] /\ issued' = issued + 1
  /\ Go(t, None)
  /\ UNCHANGED <<clock, password, failures, revoked, signedOut>>

\* Signing out forgets the token the request carries, and clears the cookie.
Logout(t, b) ==
  /\ Idle(t)
  /\ IF jar[b] = None THEN UNCHANGED <<revoked, signedOut>>
     ELSE revoked' = Remembered(revoked \cup {jar[b]}) /\ signedOut' = signedOut \cup {jar[b]}
  /\ jar' = [jar EXCEPT ![b] = None]
  /\ UNCHANGED <<clock, password, failures, req, issued>>

\* Any other request carries the cookie the browser had when it was sent: the gate of
\* do_POST and of the operator's pages looks at it when the thread gets there.
Send(t, b) ==
  /\ Idle(t) /\ jar[b] # None
  /\ Go(t, [step |-> "gate", token |-> jar[b]])
  /\ UNCHANGED <<clock, password, failures, revoked, jar, issued, signedOut>>
Gate(t) ==
  /\ ~Idle(t) /\ req[t].step = "gate"
  /\ Go(t, IF verify_token(req[t].token) THEN [step |-> "admitted", token |-> req[t].token] ELSE None)
  /\ UNCHANGED <<clock, password, failures, revoked, jar, issued, signedOut>>
Served(t) ==
  /\ ~Idle(t) /\ req[t].step = "admitted" /\ Go(t, None)
  /\ UNCHANGED <<clock, password, failures, revoked, jar, issued, signedOut>>

-----------------------------------------------------------------------------
(* Around it. *)

Tick == clock < MaxClock /\ clock' = clock + 1
        /\ UNCHANGED <<password, failures, revoked, jar, req, issued, signedOut>>
ChangePassword(p) ==
  /\ password # p /\ password' = p
  /\ UNCHANGED <<clock, failures, revoked, jar, req, issued, signedOut>>
Restart ==
  /\ failures' = {} /\ revoked' = {} /\ signedOut' = {}
  /\ req' = [t \in Threads |-> None]
  /\ UNCHANGED <<clock, password, jar, issued>>

Next ==
  \/ \E t \in Threads, b \in Browsers :
       \/ Logout(t, b) \/ Send(t, b)
       \/ \E p \in Passwords : Login(t, b, p)
  \/ \E t \in Threads : CheckLogin(t) \/ Issue(t) \/ Gate(t) \/ Served(t)
  \/ Tick \/ Restart
  \/ \E p \in Passwords \cup {0} : ChangePassword(p)

Spec == Init /\ [][Next]_vars

-----------------------------------------------------------------------------
(* Properties. *)

\* A session that was signed out stays signed out for as long as the process lives,
\* whatever expires, whoever signs in or out and whatever the password becomes: the list
\* of tokens may shrink only by those that are refused without it.
SignedOutStays == \A token \in signedOut : ~verify_token(token)

\* However many logins run at once, an address has no more failures inside the window
\* than the limit and those that were let in together with the last one.
Throttled == Cardinality(Recent) < FAIL_LIMIT + Cardinality(Threads)
=============================================================================
