------------------------------- MODULE Members -------------------------------
(***************************************************************************)
(* Accounts of the community: request_email, consume_email and             *)
(* request_account_closure of thai_platform/members/services.py, the views *)
(* of members/views.py that call them, mark_closure_reviewed of            *)
(* members/admin.py, and GoogleOnlyAdapter of config/adapters.py.          *)
(*                                                                         *)
(* A service is one transaction of SQLite and so one action.  What happens *)
(* outside of it is a step of its own: the mail goes out after the link is *)
(* committed, login() runs after consume_email has committed, and          *)
(* pre_social_login has only looked when save_user or the connection       *)
(* writes.  Any request may come from any browser in between.              *)
(*                                                                         *)
(* Left out: nicknames and consent, passwords (allauth's views), the rate  *)
(* limits, which only leave requests out, and forged links and tokens.     *)
(* Time is the expiry of a link.  What Django, sesame and allauth do is    *)
(* modelled as the code relies on it: login() writes last_login, which     *)
(* makes every token issued before worthless (SESAME_ONE_TIME).            *)
(***************************************************************************)
EXTENDS Naturals, FiniteSets

CONSTANTS
  Users,        \* rows the user table can get
  Emails,
  Identities,   \* Google accounts
  GoogleMail,   \* the one verified address of each
  Browsers,     \* each with one session
  None,
  MaxLinks      \* bound on the challenges ever issued

Links == 1..MaxLinks

ASSUME MembersAssumption ==
  /\ GoogleMail \in [Identities -> Emails]
  /\ None \notin Users \cup Emails
  /\ MaxLinks \in Nat

VARIABLES
  key, byMail, verified, active,      \* MemberProfile and User columns; no row while key is None
  closure,                            \* AccountClosureRequest of the user
  linked,                             \* SocialAccount rows: identity to user
  owner, session, link,               \* EmailChallenge rows: user, session_digest, used_at and expires_at
  outdated,                           \* links whose token last_login has overtaken
  sending, inbox,                     \* send_mail under way; mails that have arrived
  asking,                             \* Google flows past pre_social_login: browser, identity, user
  who, nonce,                         \* session data of a browser: the user, post_email_nonce (0: none)
  entering,                           \* logins between authentication and login()
  asker                               \* history: the browser a link was requested in

accounts == <<key, byMail, verified, active, closure>>
challenges == <<owner, session, link, outdated, asker>>
mails == <<sending, inbox>>
sessions == <<who, nonce, entering>>
vars == <<accounts, linked, challenges, mails, asking, sessions>>

Init ==
  /\ key = [u \in Users |-> None]
  /\ byMail = [u \in Users |-> FALSE] /\ verified = [u \in Users |-> FALSE]
  /\ active = [u \in Users |-> TRUE]
  /\ closure = [u \in Users |-> "none"]
  /\ linked = [g \in Identities |-> None]
  /\ owner = [c \in Links |-> None] /\ asker = [c \in Links |-> None]
  /\ session = [c \in Links |-> 0] /\ link = [c \in Links |-> "none"]
  /\ outdated = {} /\ sending = {} /\ inbox = {}
  /\ asking = {}
  /\ who = [b \in Browsers |-> None] /\ nonce = [b \in Browsers |-> 0]
  /\ entering = {}

-----------------------------------------------------------------------------
(* Small parts of the operations. *)

Taken(e) == \E u \in Users : key[u] = e

\* request.user.is_authenticated: the session of a closed account is none.
SignedIn(b) == who[b] # None /\ active[who[b]]

Unused(u) == {c \in Links : owner[c] = u /\ link[c] \in {"live", "expired"}}

Burn(u) == [c \in Links |-> IF c \in Unused(u) THEN "used" ELSE link[c]]

CreateRow(u, e, mail) ==
  /\ key[u] = None
  /\ key' = [key EXCEPT ![u] = e]
  /\ byMail' = [byMail EXCEPT ![u] = mail]
  /\ verified' = [verified EXCEPT ![u] = ~mail]
  /\ UNCHANGED <<active, closure>>

-----------------------------------------------------------------------------
(* Email links. *)

\* A fresh nonce is the number of the link it is made for.
Issue(b, u, c) ==
  /\ link[c] = "none" /\ \A d \in 1..(c - 1) : link[d] # "none"
  /\ link' = [Burn(u) EXCEPT ![c] = "live"]
  /\ owner' = [owner EXCEPT ![c] = u]
  /\ nonce' = [nonce EXCEPT ![b] = IF @ = 0 THEN c ELSE @]
  /\ session' = [session EXCEPT ![c] = nonce'[b]]
  /\ asker' = [asker EXCEPT ![c] = b]
  /\ sending' = sending \cup {c}
  /\ UNCHANGED <<outdated, inbox, who, entering>>

RequestKnown(b, u, c) ==
  /\ ~SignedIn(b)
  /\ byMail[u] /\ active[u]
  /\ Issue(b, u, c)
  /\ UNCHANGED <<accounts, linked, asking>>

RequestNew(b, e, u, c) ==
  /\ ~SignedIn(b)
  /\ ~Taken(e)
  /\ CreateRow(u, e, TRUE)
  /\ Issue(b, u, c)
  /\ UNCHANGED <<linked, asking>>

\* The mail may arrive while the server is still waiting for the answer.
Arrive(c) ==
  /\ c \in sending \ inbox
  /\ inbox' = inbox \cup {c}
  /\ UNCHANGED <<accounts, linked, challenges, sending, asking, sessions>>

SendReturns(c) ==
  /\ c \in sending \cap inbox
  /\ sending' = sending \ {c}
  /\ UNCHANGED <<accounts, linked, challenges, inbox, asking, sessions>>

SendFails(c) ==
  /\ c \in sending
  /\ sending' = sending \ {c}
  /\ link' = [link EXCEPT ![c] = "used"]
  /\ UNCHANGED <<accounts, linked, owner, session, outdated, asker, inbox, asking, sessions>>

Expire(c) ==
  /\ link[c] = "live"
  /\ link' = [link EXCEPT ![c] = "expired"]
  /\ UNCHANGED <<accounts, linked, owner, session, outdated, asker, mails, asking, sessions>>

\* Faulty variant: the link is not bound to the session.
ConfirmAnywhere(b, c) ==
  LET u == owner[c] IN
  /\ c \in inbox /\ nonce[b] # 0
  /\ link[c] = "live" /\ active[u] /\ byMail[u] /\ c \notin outdated
  /\ link' = [link EXCEPT ![c] = "used"]
  /\ verified' = [verified EXCEPT ![u] = TRUE]
  /\ entering' = entering \cup {[browser |-> b, user |-> u, mailed |-> TRUE]}
  /\ UNCHANGED <<key, byMail, active, closure, linked, owner, session, outdated, asker, mails, asking, who, nonce>>

\* consume_email; whatever does not fit leaves everything as it is.  Its last look, after the link is claimed,
\* for the address at another account finds nothing while an address is one account's (AddressOwned).
Confirm(b, c) ==
  LET u == owner[c] IN
  /\ c \in inbox /\ nonce[b] # 0
  /\ link[c] = "live" /\ active[u] /\ session[c] = nonce[b] /\ byMail[u] /\ c \notin outdated
  /\ link' = [link EXCEPT ![c] = "used"]
  /\ verified' = [verified EXCEPT ![u] = TRUE]
  /\ entering' = entering \cup {[browser |-> b, user |-> u, mailed |-> TRUE]}
  /\ UNCHANGED <<key, byMail, active, closure, linked, owner, session, outdated, asker, mails, asking, who, nonce>>

\* login(): flushes the session of another user; email_confirm then drops the nonce.
Enter(en) ==
  LET b == en.browser IN
  /\ en \in entering
  /\ entering' = entering \ {en}
  /\ who' = [who EXCEPT ![b] = en.user]
  /\ nonce' = [nonce EXCEPT ![b] = IF en.mailed \/ who[b] \notin {None, en.user} THEN 0 ELSE @]
  /\ outdated' = outdated \cup {c \in Links : owner[c] = en.user}
  /\ UNCHANGED <<accounts, linked, owner, session, link, asker, mails, asking>>

Logout(b) ==
  /\ SignedIn(b)
  /\ who' = [who EXCEPT ![b] = None]
  /\ nonce' = [nonce EXCEPT ![b] = 0]
  /\ UNCHANGED <<accounts, linked, challenges, mails, asking, entering>>

-----------------------------------------------------------------------------
(* Google: pre_social_login looks, then allauth writes. *)

GoogleLogin(b, g) ==
  /\ linked[g] # None /\ active[linked[g]]
  /\ entering' = entering \cup {[browser |-> b, user |-> linked[g], mailed |-> FALSE]}
  /\ UNCHANGED <<accounts, linked, challenges, mails, asking, who, nonce>>

GoogleSignup(b, g) ==
  /\ linked[g] = None /\ ~Taken(GoogleMail[g])
  /\ asking' = asking \cup {[browser |-> b, identity |-> g, user |-> None]}
  /\ UNCHANGED <<accounts, linked, challenges, mails, sessions>>

\* Faulty variant: what pre_social_login saw is trusted.
UniqueUnchecked(g) == linked[g] = None

\* The unique keys of email_key and of the provider's identifier.
UniqueKeys(g) == linked[g] = None /\ ~Taken(GoogleMail[g])

SaveUser(a, u) ==
  /\ a \in asking /\ a.user = None
  /\ UniqueKeys(a.identity)
  /\ CreateRow(u, GoogleMail[a.identity], FALSE)
  /\ linked' = [linked EXCEPT ![a.identity] = u]
  /\ asking' = asking \ {a}
  /\ entering' = entering \cup {[browser |-> a.browser, user |-> u, mailed |-> FALSE]}
  /\ UNCHANGED <<challenges, mails, who, nonce>>

SaveUserRolledBack(a) ==
  /\ a \in asking /\ a.user = None
  /\ ~UniqueKeys(a.identity)
  /\ asking' = asking \ {a}
  /\ UNCHANGED <<accounts, linked, challenges, mails, sessions>>

\* An identity the account already has is let through, too, and changes nothing.
Connect(b, g) ==
  /\ SignedIn(b)
  /\ byMail[who[b]] /\ verified[who[b]] /\ GoogleMail[g] = key[who[b]]
  /\ linked[g] = None
  /\ asking' = asking \cup {[browser |-> b, identity |-> g, user |-> who[b]]}
  /\ UNCHANGED <<accounts, linked, challenges, mails, sessions>>

\* The identifier is unique: a row that has appeared since stays as it is.
SaveConnection(a) ==
  /\ a \in asking /\ a.user # None
  /\ linked' = [linked EXCEPT ![a.identity] = IF @ = None THEN a.user ELSE @]
  /\ asking' = asking \ {a}
  /\ UNCHANGED <<accounts, challenges, mails, sessions>>

-----------------------------------------------------------------------------
(* Closing an account. *)

Close(b) ==
  /\ SignedIn(b)
  /\ closure[who[b]] # "pending"
  /\ closure' = [closure EXCEPT ![who[b]] = "pending"]
  /\ link' = Burn(who[b])
  /\ active' = [active EXCEPT ![who[b]] = FALSE]
  /\ who' = [who EXCEPT ![b] = None]
  /\ nonce' = [nonce EXCEPT ![b] = 0]
  /\ UNCHANGED <<key, byMail, verified, linked, owner, session, outdated, asker, mails, asking, entering>>

MarkClosureReviewed(u) ==
  /\ closure[u] = "pending"
  /\ closure' = [closure EXCEPT ![u] = "reviewed"]
  /\ UNCHANGED <<key, byMail, verified, active, linked, challenges, mails, asking, sessions>>

-----------------------------------------------------------------------------
Browser(b) ==
  \/ \E u \in Users, c \in Links : RequestKnown(b, u, c)
  \/ \E e \in Emails, u \in Users, c \in Links : RequestNew(b, e, u, c)
  \/ \E c \in Links : Confirm(b, c)
  \/ \E g \in Identities : GoogleLogin(b, g) \/ GoogleSignup(b, g) \/ Connect(b, g)
  \/ Logout(b) \/ Close(b)

Next ==
  \/ \E b \in Browsers : Browser(b)
  \/ \E c \in Links : Arrive(c) \/ SendReturns(c) \/ SendFails(c) \/ Expire(c)
  \/ \E en \in entering : Enter(en)
  \/ \E a \in asking : SaveConnection(a) \/ SaveUserRolledBack(a) \/ \E u \in Users : SaveUser(a, u)
  \/ \E u \in Users : MarkClosureReviewed(u)

Spec == Init /\ [][Next]_vars

-----------------------------------------------------------------------------
(* Properties. *)

Logins == [browser : Browsers, user : Users, mailed : BOOLEAN]
Flows == [browser : Browsers, identity : Identities, user : Users \cup {None}]

\* The shape of the tables and sessions: nothing refers to a row that is not there.
TypeOK ==
  /\ key \in [Users -> Emails \cup {None}]
  /\ byMail \in [Users -> BOOLEAN] /\ verified \in [Users -> BOOLEAN] /\ active \in [Users -> BOOLEAN]
  /\ closure \in [Users -> {"none", "pending", "reviewed"}]
  /\ linked \in [Identities -> Users \cup {None}]
  /\ owner \in [Links -> Users \cup {None}] /\ asker \in [Links -> Browsers \cup {None}]
  /\ session \in [Links -> 0..MaxLinks]
  /\ link \in [Links -> {"none", "live", "expired", "used"}]
  /\ outdated \subseteq Links /\ sending \subseteq Links /\ inbox \subseteq Links
  /\ asking \subseteq Flows
  /\ who \in [Browsers -> Users \cup {None}] /\ nonce \in [Browsers -> 0..MaxLinks]
  /\ entering \subseteq Logins
  /\ \A c \in Links : link[c] = "none" <=> owner[c] = None
  /\ \A c \in sending \cup inbox \cup outdated : owner[c] # None

\* "Unused email links are invalidated with the closure", and by the next request: a link nobody used
\* belongs to an open account with email login that has no newer one, however requests and closures of
\* several browsers interleave.
LinksDie ==
  \A c \in Links : link[c] \in {"live", "expired"} =>
    /\ active[owner[c]] /\ byMail[owner[c]]
    /\ \A d \in Links : d > c => owner[d] # owner[c]

\* One account per address, and a Google identity opens only the account of its own address, though
\* pre_social_login looks long before anything is written.
AddressOwned ==
  /\ \A u, v \in Users : key[u] = key[v] /\ key[u] # None => u = v
  /\ \A g \in Identities : linked[g] # None => key[linked[g]] = GoogleMail[g]

\* A link lets in the browser that asked for it, once, and only until its account has got a newer link or
\* a login: the session nonce and last_login have to tell, through logouts, other logins and retries.
Consumes(b, c) ==
  /\ link[c] # "used" /\ link'[c] = "used"
  /\ [browser |-> b, user |-> owner[c], mailed |-> TRUE] \in entering' \ entering

LinkFits ==
  [][\A b \in Browsers, c \in Links : Consumes(b, c) =>
       /\ asker[c] = b /\ link[c] = "live" /\ c \notin outdated
       /\ \A d \in Links : d > c => owner[d] # owner[c]]_vars

\* "Login is blocked with the request": a closed account stays closed, nobody is authenticated for it any
\* more and no link is issued for it, whatever was under way.
ClosedForGood ==
  [][\A u \in Users : ~active[u] =>
       /\ ~active'[u]
       /\ \A en \in entering' \ entering : en.user # u
       /\ \A c \in Links : owner'[c] = u => owner[c] = u]_vars

\* The tables and sessions have their shape, an unused link is the newest of an open account, and an
\* address is one account's.
OneOwner == TypeOK /\ LinksDie /\ AddressOwned

\* A link lets in the browser that asked for it only, and a closed account stays closed.
DoorsHold == LinkFits /\ ClosedForGood
=============================================================================
