---------------------------- MODULE MembersProofs ----------------------------
(***************************************************************************)
(* Proofs about Members, for any users, addresses, Google identities and   *)
(* browsers, and any number of links.                                      *)
(*                                                                         *)
(* No request carries more than row numbers and a session nonce from one   *)
(* transaction to the next.  So the invariant says what such a number      *)
(* still tells when it is used: rows that are pointed at are there         *)
(* (Existing), rows get their numbers in order (InOrder), a nonce names    *)
(* the browser it was made in (Bound), and a Google flow for an account    *)
(* is for an identity of its address (Matching).                           *)
(***************************************************************************)
EXTENDS Members, TLAPS

Existing ==
  /\ \A u \in Users : key[u] = None => active[u] /\ ~byMail[u]
  /\ \A c \in Links : owner[c] # None => key[owner[c]] # None
  /\ \A b \in Browsers : who[b] # None => key[who[b]] # None
  /\ \A en \in entering : key[en.user] # None

InOrder == \A c, d \in Links : c < d /\ link[c] = "none" => link[d] = "none"

Bound ==
  /\ \A c \in Links : owner[c] # None =>
       /\ session[c] \in Links /\ owner[session[c]] # None
       /\ asker[session[c]] = asker[c]
  /\ \A b \in Browsers : nonce[b] # 0 => nonce[b] \in Links /\ owner[nonce[b]] # None /\ asker[nonce[b]] = b

Matching == \A a \in asking : a.user # None => key[a.user] = GoogleMail[a.identity]

IInv ==
  /\ TypeOK
  /\ LinksDie
  /\ AddressOwned
  /\ Existing
  /\ InOrder
  /\ Bound
  /\ Matching

LEMMA InitIInv == Init => IInv
<1> SUFFICES ASSUME Init PROVE IInv
  OBVIOUS
<1>1. TypeOK
  BY MembersAssumption DEF Init, TypeOK, Links
<1>2. LinksDie /\ AddressOwned /\ Existing /\ InOrder /\ Bound /\ Matching
  BY DEF Init, LinksDie, AddressOwned, Existing, InOrder, Bound, Matching
<1> QED
  BY <1>1, <1>2 DEF IInv

-----------------------------------------------------------------------------
(* The parts of the operations. *)

\* A new link of u: its number is the first free one, its nonce names the browser, and it is the only
\* unused one of u.
LEMMA Issued ==
  ASSUME IInv, NEW b \in Browsers, NEW u \in Users, NEW c \in Links, Issue(b, u, c)
  PROVE  /\ link' \in [Links -> {"none", "live", "expired", "used"}]
         /\ owner' \in [Links -> Users \cup {None}] /\ asker' \in [Links -> Browsers \cup {None}]
         /\ session' \in [Links -> 0..MaxLinks] /\ nonce' \in [Browsers -> 0..MaxLinks]
         /\ \A d \in Links : link'[d] = "none" <=> owner'[d] = None
         /\ owner'[c] = u /\ link'[c] = "live"
         /\ \A d \in Links \ {c} : /\ owner'[d] = owner[d]
                                   /\ link'[d] \in {"live", "expired"} =>
                                        owner[d] # u /\ link'[d] = link[d]
         /\ \A d \in Links : d > c => owner'[d] = None
         /\ InOrder' /\ Bound'
<1> USE DEF Links
<1>1. TypeOK /\ InOrder /\ Bound /\ u # None /\ b \in Browsers
  BY MembersAssumption DEF IInv
<1>2. /\ link \in [Links -> {"none", "live", "expired", "used"}]
      /\ owner \in [Links -> Users \cup {None}] /\ asker \in [Links -> Browsers \cup {None}]
      /\ session \in [Links -> 0..MaxLinks] /\ nonce \in [Browsers -> 0..MaxLinks]
      /\ \A d \in Links : link[d] = "none" <=> owner[d] = None
  BY <1>1 DEF TypeOK
<1>3. /\ link[c] = "none" /\ \A d \in Links : d > c => link[d] = "none"
      /\ owner[c] = None
  BY <1>1, <1>2 DEF Issue, InOrder
<1>4. /\ link' = [d \in Links |-> IF d = c THEN "live" ELSE IF d \in Unused(u) THEN "used" ELSE link[d]]
      /\ owner' = [owner EXCEPT ![c] = u] /\ asker' = [asker EXCEPT ![c] = b]
      /\ nonce' = [nonce EXCEPT ![b] = IF @ = 0 THEN c ELSE @]
      /\ session' = [session EXCEPT ![c] = nonce'[b]]
  BY DEF Issue, Burn
<1>5. \A d \in Links : d \in Unused(u) <=> owner[d] = u /\ link[d] \in {"live", "expired"}
  BY DEF Unused
<1>6. MaxLinks \in Nat
  BY MembersAssumption
<1>7. /\ link' \in [Links -> {"none", "live", "expired", "used"}]
      /\ owner' \in [Links -> Users \cup {None}] /\ asker' \in [Links -> Browsers \cup {None}]
  BY <1>2, <1>4
<1>8. nonce' \in [Browsers -> 0..MaxLinks] /\ session' \in [Links -> 0..MaxLinks]
  BY <1>2, <1>4, <1>6
<1>9. \A d \in Links : link'[d] = "none" <=> owner'[d] = None
  BY <1>1, <1>2, <1>3, <1>4, <1>5
<1>10. /\ owner'[c] = u /\ link'[c] = "live"
       /\ \A d \in Links \ {c} : /\ owner'[d] = owner[d]
                                 /\ link'[d] \in {"live", "expired"} => owner[d] # u /\ link'[d] = link[d]
  BY <1>2, <1>4, <1>5
<1>11. \A d \in Links : d > c => owner'[d] = None
  BY <1>2, <1>3, <1>4
<1>12. InOrder'
  <2> SUFFICES ASSUME NEW d \in Links, NEW e \in Links, d < e, link'[d] = "none"
               PROVE  link'[e] = "none"
    BY DEF InOrder
  <2>1. d # c /\ link[d] = "none" /\ ~ (d < c)
    BY <1>2, <1>4, <1>5 DEF Issue
  <2>2. link[e] = "none" /\ e # c
    BY <2>1, <1>1, <1>2, <1>3 DEF InOrder
  <2> QED
    BY <2>2, <1>4, <1>5
<1>13. Bound'
  <2>1. nonce'[b] = (IF nonce[b] = 0 THEN c ELSE nonce[b]) /\ \A a \in Browsers \ {b} : nonce'[a] = nonce[a]
    BY <1>2, <1>4
  <2>2. \A a \in Browsers : nonce'[a] # 0 =>
          nonce'[a] \in Links /\ owner'[nonce'[a]] # None /\ asker'[nonce'[a]] = a
    BY <2>1, <1>1, <1>2, <1>3, <1>4, <1>10 DEF Bound
  <2>3. nonce'[b] \in Links /\ owner'[nonce'[b]] # None /\ asker'[nonce'[b]] = b
    BY <2>1, <2>2
  <2>4. session'[c] = nonce'[b] /\ asker'[c] = b
    BY <1>2, <1>4
  <2>5. ASSUME NEW d \in Links \ {c}, owner'[d] # None
        PROVE  session'[d] \in Links /\ owner'[session'[d]] # None /\ asker'[session'[d]] = asker'[d]
    <3>1. session'[d] = session[d] /\ asker'[d] = asker[d] /\ owner[d] # None
      BY <1>2, <1>4, <1>10, <2>5
    <3>2. session[d] \in Links /\ owner[session[d]] # None /\ asker[session[d]] = asker[d] /\ session[d] # c
      BY <3>1, <1>1, <1>3 DEF Bound
    <3> QED
      BY <3>1, <3>2, <1>2, <1>4
  <2> QED
    BY <2>2, <2>3, <2>4, <2>5 DEF Bound
<1> QED
  BY <1>7, <1>8, <1>9, <1>10, <1>11, <1>12, <1>13

\* A new row with an address nobody has: nothing that refers to other rows changes, and nothing refers to
\* the new one yet.
LEMMA RowCreated ==
  ASSUME IInv, NEW u \in Users, NEW e \in Emails, NEW mail \in BOOLEAN, CreateRow(u, e, mail), ~Taken(e)
  PROVE  /\ key' \in [Users -> Emails \cup {None}]
         /\ byMail' \in [Users -> BOOLEAN] /\ verified' \in [Users -> BOOLEAN]
         /\ key[u] = None /\ key'[u] = e /\ (mail => byMail'[u]) /\ active[u] /\ e # None
         /\ \A v \in Users \ {u} : key'[v] = key[v] /\ byMail'[v] = byMail[v]
         /\ \A v \in Users : key'[v] = None => active[v] /\ ~byMail'[v]
         /\ \A v \in Users : key[v] # None => key'[v] # None
         /\ \A c \in Links : owner[c] # u
         /\ \A v, w \in Users : key'[v] = key'[w] /\ key'[v] # None => v = w
         /\ \A g \in Identities : linked[g] # None => key'[linked[g]] = GoogleMail[g]
         /\ \A a \in asking : a.user # None => key'[a.user] = GoogleMail[a.identity]
<1>1. /\ key' \in [Users -> Emails \cup {None}]
      /\ byMail' \in [Users -> BOOLEAN] /\ verified' \in [Users -> BOOLEAN]
      /\ key[u] = None /\ key'[u] = e /\ (mail => byMail'[u]) /\ active[u] /\ e # None
      /\ \A v \in Users \ {u} : key'[v] = key[v] /\ byMail'[v] = byMail[v]
  BY MembersAssumption DEF IInv, TypeOK, Existing, CreateRow
<1>2. /\ \A v \in Users : key'[v] = None => active[v] /\ ~byMail'[v]
      /\ \A v \in Users : key[v] # None => key'[v] # None
  BY <1>1 DEF IInv, Existing
<1>3. \A c \in Links : owner[c] # u
  BY <1>1, MembersAssumption DEF IInv, Existing
<1>4. \A v, w \in Users : key'[v] = key'[w] /\ key'[v] # None => v = w
  BY <1>1 DEF IInv, AddressOwned, Taken
<1>5. ASSUME NEW g \in Identities, linked[g] # None PROVE key'[linked[g]] = GoogleMail[g]
  <2>1. linked[g] \in Users /\ key[linked[g]] = GoogleMail[g] /\ GoogleMail[g] # None
    BY <1>5, MembersAssumption DEF IInv, TypeOK, AddressOwned
  <2> QED
    BY <2>1, <1>1
<1>6. ASSUME NEW a \in asking, a.user # None PROVE key'[a.user] = GoogleMail[a.identity]
  <2>1. a.user \in Users /\ GoogleMail[a.identity] # None /\ key[a.user] = GoogleMail[a.identity]
    BY <1>6, MembersAssumption DEF IInv, TypeOK, Flows, Matching
  <2> QED
    BY <2>1, <1>1
<1> QED
  BY <1>1, <1>2, <1>3, <1>4, <1>5, <1>6

-----------------------------------------------------------------------------
(* Every action keeps the invariant. *)

\* The columns of the tables that RequestKnown and RequestNew leave alone.
LEMMA RequestKnownKeeps ==
  ASSUME IInv, NEW b \in Browsers, NEW u \in Users, NEW c \in Links, RequestKnown(b, u, c)
  PROVE  IInv'
<1>1. Issue(b, u, c) /\ byMail[u] /\ active[u] /\ UNCHANGED <<accounts, linked, asking>>
  BY DEF RequestKnown
<1>2. UNCHANGED <<key, byMail, verified, active, closure, linked, asking>>
  BY <1>1 DEF accounts
<1>3. sending' = sending \cup {c} /\ UNCHANGED <<outdated, inbox, who, entering>>
  BY <1>1 DEF Issue
<1>4. TypeOK'
  BY <1>1, <1>2, <1>3, Issued DEF IInv, TypeOK, Flows, Logins
<1>5. LinksDie'
  <2> SUFFICES ASSUME NEW d \in Links, link'[d] \in {"live", "expired"}
               PROVE  /\ active'[owner'[d]] /\ byMail'[owner'[d]]
                      /\ \A e \in Links : e > d => owner'[e] # owner'[d]
    BY DEF LinksDie
  <2>1. CASE d = c
    BY <2>1, <1>1, <1>2, Issued, MembersAssumption
  <2>2. CASE d # c
    BY <2>2, <1>1, <1>2, Issued DEF IInv, LinksDie
  <2> QED
    BY <2>1, <2>2
<1>6. AddressOwned' /\ Matching'
  BY <1>2 DEF IInv, AddressOwned, Matching
<1>7. Existing'
  <2>1. key[u] # None
    BY <1>1 DEF IInv, Existing
  <2> QED
    BY <2>1, <1>1, <1>2, <1>3, Issued DEF IInv, Existing
<1> QED
  BY <1>1, <1>4, <1>5, <1>6, <1>7, Issued DEF IInv

LEMMA RequestNewKeeps ==
  ASSUME IInv, NEW b \in Browsers, NEW e \in Emails, NEW u \in Users, NEW c \in Links,
         RequestNew(b, e, u, c)
  PROVE  IInv'
<1>1. ~Taken(e) /\ CreateRow(u, e, TRUE) /\ Issue(b, u, c) /\ UNCHANGED <<linked, asking>>
  BY DEF RequestNew
<1>2. /\ key' \in [Users -> Emails \cup {None}]
      /\ byMail' \in [Users -> BOOLEAN] /\ verified' \in [Users -> BOOLEAN]
      /\ byMail'[u] /\ active[u] /\ key'[u] # None
      /\ \A v \in Users \ {u} : byMail'[v] = byMail[v]
      /\ \A v \in Users : key'[v] = None => active[v] /\ ~byMail'[v]
      /\ \A v \in Users : key[v] # None => key'[v] # None
      /\ \A d \in Links : owner[d] # u
  BY <1>1, RowCreated
<1>3. UNCHANGED <<active, closure, linked, asking>>
  BY <1>1 DEF CreateRow
<1>4. sending' = sending \cup {c} /\ UNCHANGED <<outdated, inbox, who, entering>>
  BY <1>1 DEF Issue
<1>5. TypeOK'
  BY <1>1, <1>2, <1>3, <1>4, Issued DEF IInv, TypeOK, Flows, Logins
<1>6. LinksDie'
  <2> SUFFICES ASSUME NEW d \in Links, link'[d] \in {"live", "expired"}
               PROVE  /\ active'[owner'[d]] /\ byMail'[owner'[d]]
                      /\ \A f \in Links : f > d => owner'[f] # owner'[d]
    BY DEF LinksDie
  <2>1. CASE d = c
    BY <2>1, <1>1, <1>2, <1>3, Issued, MembersAssumption
  <2>2. CASE d # c
    <3>1. owner'[d] = owner[d] /\ owner[d] # u /\ link[d] \in {"live", "expired"}
      BY <2>2, <1>1, Issued
    <3>2. owner[d] \in Users
      BY <3>1 DEF IInv, TypeOK
    <3> QED
      BY <3>1, <3>2, <1>1, <1>2, <1>3, Issued DEF IInv, LinksDie
  <2> QED
    BY <2>1, <2>2
<1>7. AddressOwned'
  BY <1>1, RowCreated DEF AddressOwned
<1>8. Matching'
  BY <1>1, RowCreated DEF Matching
<1>9. Existing'
  <2>1. /\ \A v \in Users : key'[v] = None => active'[v] /\ ~byMail'[v]
        /\ \A v \in Users : key[v] # None => key'[v] # None
    BY <1>1, <1>2, <1>3 DEF IInv, Existing
  <2>2. ASSUME NEW d \in Links, owner'[d] # None PROVE key'[owner'[d]] # None
    <3>1. CASE d = c
      BY <3>1, <1>1, <1>2, Issued
    <3>2. CASE d # c
      <4>1. owner'[d] = owner[d]
        BY <3>2, <1>1, Issued
      <4>2. owner[d] \in Users /\ key[owner[d]] # None
        BY <4>1, <2>2 DEF IInv, TypeOK, Existing
      <4> QED
        BY <4>1, <4>2, <2>1
    <3> QED
      BY <3>1, <3>2
  <2>3. (\A a \in Browsers : who'[a] # None => key'[who'[a]] # None) /\ \A en \in entering' : key'[en.user] # None
    BY <2>1, <1>4 DEF IInv, TypeOK, Logins, Existing
  <2> QED
    BY <2>1, <2>2, <2>3 DEF Existing
<1> QED
  BY <1>1, <1>5, <1>6, <1>7, <1>8, <1>9, Issued DEF IInv

LEMMA MailKeeps ==
  ASSUME IInv, NEW c \in Links, Arrive(c) \/ SendReturns(c)
  PROVE  IInv'
<1>1. UNCHANGED <<key, byMail, verified, active, closure, linked, owner, session, link, outdated, asker,
                 asking, who, nonce, entering>>
  BY DEF Arrive, SendReturns, accounts, challenges, sessions
<1>2. sending' \subseteq Links /\ inbox' \subseteq Links /\ \A d \in sending' \cup inbox' : owner[d] # None
  BY DEF IInv, TypeOK, Arrive, SendReturns, mails
<1>3. TypeOK'
  BY <1>1, <1>2 DEF IInv, TypeOK, Flows, Logins
<1> QED
  BY <1>1, <1>3 DEF IInv, LinksDie, AddressOwned, Existing, InOrder, Bound, Matching

\* A link is used up or expires, and nothing else of the tables changes.
LEMMA LinkSpent ==
  ASSUME IInv, NEW c \in Links, link[c] # "none",
         NEW state \in {"expired", "used"}, link' = [link EXCEPT ![c] = state],
         state = "expired" => link[c] = "live",
         UNCHANGED <<key, byMail, active, linked, owner, session, asker>>
  PROVE  /\ link' \in [Links -> {"none", "live", "expired", "used"}]
         /\ \A d \in Links : link'[d] = "none" <=> owner'[d] = None
         /\ LinksDie' /\ AddressOwned' /\ InOrder'
<1>1. link \in [Links -> {"none", "live", "expired", "used"}]
  BY DEF IInv, TypeOK
<1>2. \A d \in Links : /\ link'[d] = "none" <=> link[d] = "none"
                       /\ link'[d] \in {"live", "expired"} => link[d] \in {"live", "expired"}
  BY <1>1
<1>3. link' \in [Links -> {"none", "live", "expired", "used"}]
  BY <1>1
<1> QED
  BY <1>2, <1>3 DEF IInv, TypeOK, LinksDie, AddressOwned, InOrder

LEMMA SpentKeeps ==
  ASSUME IInv, NEW c \in Links, SendFails(c) \/ Expire(c)
  PROVE  IInv'
<1>1. UNCHANGED <<key, byMail, verified, active, closure, linked, owner, session, outdated, asker,
                 inbox, asking, who, nonce, entering>>
  BY DEF SendFails, Expire, accounts, mails, sessions
<1>2. sending' \subseteq sending
  BY DEF SendFails, Expire, mails
<1>3. /\ link' \in [Links -> {"none", "live", "expired", "used"}]
      /\ \A d \in Links : link'[d] = "none" <=> owner'[d] = None
      /\ LinksDie' /\ AddressOwned' /\ InOrder'
  <2>1. CASE SendFails(c)
    <3>1. link[c] # "none" /\ link' = [link EXCEPT ![c] = "used"]
      BY <2>1 DEF IInv, TypeOK, SendFails
    <3> QED
      BY <3>1, <1>1, LinkSpent
  <2>2. CASE Expire(c)
    <3>1. link[c] = "live" /\ link' = [link EXCEPT ![c] = "expired"]
      BY <2>2 DEF Expire
    <3> QED
      BY <3>1, <1>1, LinkSpent
  <2> QED
    BY <2>1, <2>2
<1>4. TypeOK'
  BY <1>1, <1>2, <1>3 DEF IInv, TypeOK, Flows, Logins
<1> QED
  BY <1>1, <1>3, <1>4 DEF IInv, Existing, Bound, Matching

LEMMA ConfirmKeeps ==
  ASSUME IInv, NEW b \in Browsers, NEW c \in Links, Confirm(b, c)
  PROVE  IInv'
<1> DEFINE u == owner[c]
           en == [browser |-> b, user |-> u, mailed |-> TRUE]
<1>1. UNCHANGED <<key, byMail, active, closure, linked, owner, session, outdated, asker, sending, inbox,
                 asking, who, nonce>>
  BY DEF Confirm, mails
<1>2. /\ link[c] = "live" /\ link' = [link EXCEPT ![c] = "used"]
      /\ verified' = [verified EXCEPT ![u] = TRUE]
      /\ entering' = entering \cup {en}
  BY DEF Confirm
<1>3. u \in Users /\ key[u] # None
  BY <1>2 DEF IInv, TypeOK, Existing
<1>4. /\ link' \in [Links -> {"none", "live", "expired", "used"}]
      /\ \A d \in Links : link'[d] = "none" <=> owner'[d] = None
      /\ LinksDie' /\ AddressOwned' /\ InOrder'
  <2>1. link[c] # "none"
    BY <1>2
  <2> QED
    BY <2>1, <1>1, <1>2, LinkSpent
<1>5. en \in Logins /\ en.user = u
  BY <1>3 DEF Logins
<1> HIDE DEF u, en
<1>6. verified' \in [Users -> BOOLEAN]
  BY <1>2 DEF IInv, TypeOK
<1>7. TypeOK'
  BY <1>1, <1>2, <1>4, <1>5, <1>6 DEF IInv, TypeOK, Flows
<1>8. Existing'
  BY <1>1, <1>2, <1>3, <1>5 DEF IInv, Existing
<1> QED
  BY <1>1, <1>4, <1>7, <1>8 DEF IInv, Bound, Matching

LEMMA EnterKeeps ==
  ASSUME IInv, NEW en \in entering, Enter(en)
  PROVE  IInv'
<1>1. UNCHANGED <<key, byMail, verified, active, closure, linked, owner, session, link, asker, sending,
                 inbox, asking>>
  BY DEF Enter, accounts, mails
<1>2. en.browser \in Browsers /\ en.user \in Users /\ key[en.user] # None /\ en.user # None
  BY MembersAssumption DEF IInv, TypeOK, Logins, Existing
<1>3. /\ entering' \subseteq entering
      /\ who' = [who EXCEPT ![en.browser] = en.user]
      /\ outdated' = outdated \cup {c \in Links : owner[c] = en.user}
      /\ nonce' = [nonce EXCEPT ![en.browser] = nonce'[en.browser]]
      /\ nonce'[en.browser] \in {0, nonce[en.browser]}
  BY <1>2 DEF IInv, TypeOK, Enter
<1>4. /\ who' \in [Browsers -> Users \cup {None}] /\ nonce' \in [Browsers -> 0..MaxLinks]
      /\ outdated' \subseteq Links /\ \A d \in outdated' : owner[d] # None
  BY <1>2, <1>3, MembersAssumption DEF IInv, TypeOK
<1>5. TypeOK'
  BY <1>1, <1>3, <1>4 DEF IInv, TypeOK, Flows, Logins
<1>6. Existing'
  BY <1>1, <1>2, <1>3 DEF IInv, TypeOK, Existing
<1>7. Bound'
  BY <1>1, <1>2, <1>3 DEF IInv, TypeOK, Bound
<1> QED
  BY <1>1, <1>5, <1>6, <1>7 DEF IInv, LinksDie, AddressOwned, InOrder, Matching

LEMMA LogoutKeeps ==
  ASSUME IInv, NEW b \in Browsers, Logout(b)
  PROVE  IInv'
<1>1. UNCHANGED <<key, byMail, verified, active, closure, linked, owner, session, link, outdated, asker,
                 sending, inbox, asking, entering>>
  BY DEF Logout, accounts, challenges, mails
<1>2. who' = [who EXCEPT ![b] = None] /\ nonce' = [nonce EXCEPT ![b] = 0]
  BY DEF Logout
<1>3. TypeOK'
  BY <1>1, <1>2, MembersAssumption DEF IInv, TypeOK, Flows, Logins
<1>4. Existing' /\ Bound'
  BY <1>1, <1>2 DEF IInv, TypeOK, Existing, Bound
<1> QED
  BY <1>1, <1>3, <1>4 DEF IInv, LinksDie, AddressOwned, InOrder, Matching

\* A flow or a login is added or taken away: what it must hold for it is all that is new.
LEMMA FlowsKeep ==
  ASSUME IInv,
         UNCHANGED <<key, byMail, verified, active, closure, linked, owner, session, link, outdated, asker,
                     sending, inbox, who, nonce>>,
         \A a \in asking' \ asking : a \in Flows /\ (a.user # None => key[a.user] = GoogleMail[a.identity]),
         \A en \in entering' \ entering : en \in Logins /\ key[en.user] # None
  PROVE  IInv'
<1>1. asking' \subseteq Flows /\ entering' \subseteq Logins
  BY DEF IInv, TypeOK
<1>2. TypeOK'
  BY <1>1 DEF IInv, TypeOK, Flows, Logins
<1>3. Existing' /\ Matching'
  BY DEF IInv, Existing, Matching
<1> QED
  BY <1>2, <1>3 DEF IInv, LinksDie, AddressOwned, InOrder, Bound

\* An identity leads to a row.
LEMMA LinkedRow ==
  ASSUME IInv, NEW g \in Identities, linked[g] # None
  PROVE  linked[g] \in Users /\ key[linked[g]] # None
BY MembersAssumption DEF IInv, TypeOK, AddressOwned

LEMMA GoogleKeeps ==
  ASSUME IInv, NEW b \in Browsers, NEW g \in Identities,
         GoogleLogin(b, g) \/ GoogleSignup(b, g) \/ Connect(b, g)
  PROVE  IInv'
<1>1. UNCHANGED <<key, byMail, verified, active, closure, linked, owner, session, link, outdated, asker,
                 sending, inbox, who, nonce>>
  BY DEF GoogleLogin, GoogleSignup, Connect, accounts, challenges, mails, sessions
<1>2. CASE GoogleLogin(b, g)
  <2> DEFINE new == [browser |-> b, user |-> linked[g], mailed |-> FALSE]
  <2>1. asking' = asking /\ entering' = entering \cup {new}
    BY <1>2 DEF GoogleLogin
  <2>2. linked[g] \in Users /\ key[linked[g]] # None
    BY <1>2, LinkedRow DEF GoogleLogin
  <2>3. new \in Logins /\ new.user = linked[g]
    BY <2>2 DEF Logins
  <2> HIDE DEF new
  <2>4. \A en \in entering' \ entering : en \in Logins /\ key[en.user] # None
    BY <2>1, <2>2, <2>3
  <2> QED
    BY <1>1, <2>1, <2>4, FlowsKeep
<1>3. CASE GoogleSignup(b, g)
  <2>1. entering' = entering /\ asking' = asking \cup {[browser |-> b, identity |-> g, user |-> None]}
    BY <1>3 DEF GoogleSignup, sessions
  <2>2. \A a \in asking' \ asking : a \in Flows /\ a.user = None
    BY <2>1 DEF Flows
  <2> QED
    BY <1>1, <2>1, <2>2, FlowsKeep
<1>4. CASE Connect(b, g)
  <2>1. entering' = entering /\ asking' = asking \cup {[browser |-> b, identity |-> g, user |-> who[b]]}
    BY <1>4 DEF Connect, sessions
  <2>2. who[b] \in Users /\ key[who[b]] = GoogleMail[g]
    BY <1>4 DEF IInv, TypeOK, Connect, SignedIn
  <2>3. \A a \in asking' \ asking : a \in Flows /\ key[a.user] = GoogleMail[a.identity]
    BY <2>1, <2>2 DEF Flows
  <2> QED
    BY <1>1, <2>1, <2>3, FlowsKeep
<1> QED
  BY <1>2, <1>3, <1>4

LEMMA RolledBackKeeps ==
  ASSUME IInv, NEW a \in asking, SaveUserRolledBack(a)
  PROVE  IInv'
<1>1. UNCHANGED <<key, byMail, verified, active, closure, linked, owner, session, link, outdated, asker,
                 sending, inbox, who, nonce, entering>>
  BY DEF SaveUserRolledBack, accounts, challenges, mails, sessions
<1>2. asking' \subseteq asking
  BY DEF SaveUserRolledBack
<1> QED
  BY <1>1, <1>2, FlowsKeep

LEMMA SaveUserKeeps ==
  ASSUME IInv, NEW a \in asking, NEW u \in Users, SaveUser(a, u)
  PROVE  IInv'
<1> DEFINE en == [browser |-> a.browser, user |-> u, mailed |-> FALSE]
<1>1. a.identity \in Identities /\ a.browser \in Browsers /\ GoogleMail[a.identity] \in Emails
  BY MembersAssumption DEF IInv, TypeOK, Flows
<1>2. CreateRow(u, GoogleMail[a.identity], FALSE) /\ ~Taken(GoogleMail[a.identity])
  BY DEF SaveUser, UniqueKeys
<1>3. /\ linked' = [linked EXCEPT ![a.identity] = u]
      /\ asking' = asking \ {a} /\ entering' = entering \cup {en}
      /\ UNCHANGED <<owner, session, link, outdated, asker, sending, inbox, who, nonce>>
  BY DEF SaveUser, challenges, mails
<1>4. UNCHANGED <<active, closure>>
  BY <1>2 DEF CreateRow
<1>5. /\ key' \in [Users -> Emails \cup {None}]
      /\ byMail' \in [Users -> BOOLEAN] /\ verified' \in [Users -> BOOLEAN]
      /\ key'[u] = GoogleMail[a.identity] /\ key'[u] # None
      /\ \A v \in Users \ {u} : byMail'[v] = byMail[v]
      /\ \A v \in Users : key'[v] = None => active[v] /\ ~byMail'[v]
      /\ \A v \in Users : key[v] # None => key'[v] # None
      /\ \A c \in Links : owner[c] # u
      /\ \A v, w \in Users : key'[v] = key'[w] /\ key'[v] # None => v = w
      /\ \A g \in Identities : linked[g] # None => key'[linked[g]] = GoogleMail[g]
      /\ \A f \in asking : f.user # None => key'[f.user] = GoogleMail[f.identity]
  <2>1. PICK e \in Emails : e = GoogleMail[a.identity]
    BY <1>1
  <2>2. CreateRow(u, e, FALSE) /\ ~Taken(e)
    BY <2>1, <1>2
  <2>3. /\ key' \in [Users -> Emails \cup {None}]
        /\ byMail' \in [Users -> BOOLEAN] /\ verified' \in [Users -> BOOLEAN]
        /\ key'[u] = e /\ e # None
        /\ \A v \in Users \ {u} : byMail'[v] = byMail[v]
        /\ \A v \in Users : key'[v] = None => active[v] /\ ~byMail'[v]
        /\ \A v \in Users : key[v] # None => key'[v] # None
    BY <2>2, RowCreated
  <2>4. /\ \A c \in Links : owner[c] # u
        /\ \A v, w \in Users : key'[v] = key'[w] /\ key'[v] # None => v = w
        /\ \A g \in Identities : linked[g] # None => key'[linked[g]] = GoogleMail[g]
        /\ \A f \in asking : f.user # None => key'[f.user] = GoogleMail[f.identity]
    BY <2>2, RowCreated
  <2> QED
    BY <2>1, <2>3, <2>4
<1>6. en \in Logins /\ en.user = u
  BY <1>1 DEF Logins
<1> HIDE DEF en
<1>7. linked' \in [Identities -> Users \cup {None}]
  BY <1>1, <1>3 DEF IInv, TypeOK
<1>8. asking' \subseteq Flows /\ entering' \subseteq Logins
  BY <1>3, <1>6 DEF IInv, TypeOK
<1>9. TypeOK'
  BY <1>3, <1>4, <1>5, <1>7, <1>8 DEF IInv, TypeOK, Flows, Logins
<1>10. LinksDie'
  BY <1>3, <1>4, <1>5 DEF IInv, TypeOK, LinksDie
<1>11. AddressOwned'
  BY <1>1, <1>3, <1>5 DEF IInv, TypeOK, AddressOwned
<1>12. Existing'
  <2>1. \A c \in Links : owner'[c] # None => key'[owner'[c]] # None
    BY <1>3, <1>5 DEF IInv, TypeOK, Existing
  <2>2. \A b \in Browsers : who'[b] # None => key'[who'[b]] # None
    BY <1>3, <1>5 DEF IInv, TypeOK, Existing
  <2>3. \A e \in entering' : key'[e.user] # None
    BY <1>3, <1>5, <1>6 DEF IInv, TypeOK, Logins, Existing
  <2> QED
    BY <2>1, <2>2, <2>3, <1>4, <1>5 DEF Existing
<1>13. InOrder' /\ Bound' /\ Matching'
  BY <1>3, <1>5 DEF IInv, InOrder, Bound, Matching
<1> QED
  BY <1>9, <1>10, <1>11, <1>12, <1>13 DEF IInv

LEMMA SaveConnectionKeeps ==
  ASSUME IInv, NEW a \in asking, SaveConnection(a)
  PROVE  IInv'
<1>1. UNCHANGED <<key, byMail, verified, active, closure, owner, session, link, outdated, asker,
                 sending, inbox, who, nonce, entering>>
  BY DEF SaveConnection, accounts, challenges, mails, sessions
<1>2. /\ linked' = [linked EXCEPT ![a.identity] = IF @ = None THEN a.user ELSE @]
      /\ asking' = asking \ {a}
      /\ a.user \in Users /\ a.identity \in Identities /\ key[a.user] = GoogleMail[a.identity]
  BY DEF IInv, TypeOK, Flows, Matching, SaveConnection
<1>3. TypeOK'
  BY <1>1, <1>2 DEF IInv, TypeOK, Flows, Logins
<1>4. AddressOwned'
  BY <1>1, <1>2 DEF IInv, TypeOK, AddressOwned
<1> QED
  BY <1>1, <1>2, <1>3, <1>4 DEF IInv, LinksDie, Existing, InOrder, Bound, Matching

LEMMA CloseKeeps ==
  ASSUME IInv, NEW b \in Browsers, Close(b)
  PROVE  IInv'
<1> DEFINE u == who[b]
<1>1. UNCHANGED <<key, byMail, verified, linked, owner, session, outdated, asker, sending, inbox, asking,
                 entering>>
  BY DEF Close, mails
<1>2. u \in Users /\ key[u] # None
  BY DEF IInv, TypeOK, Existing, Close, SignedIn
<1>3. /\ closure' = [closure EXCEPT ![u] = "pending"] /\ active' = [active EXCEPT ![u] = FALSE]
      /\ who' = [who EXCEPT ![b] = None] /\ nonce' = [nonce EXCEPT ![b] = 0]
      /\ link' = Burn(u)
  BY DEF Close
<1> HIDE DEF u
<1>4. /\ link' \in [Links -> {"none", "live", "expired", "used"}]
      /\ \A c \in Links : link'[c] = "none" <=> link[c] = "none"
      /\ \A c \in Links : link'[c] \in {"live", "expired"} => link'[c] = link[c] /\ owner[c] # u
  <2>1. link \in [Links -> {"none", "live", "expired", "used"}]
    BY DEF IInv, TypeOK
  <2> QED
    BY <2>1, <1>3 DEF Burn, Unused
<1>5. /\ closure' \in [Users -> {"none", "pending", "reviewed"}] /\ active' \in [Users -> BOOLEAN]
      /\ who' \in [Browsers -> Users \cup {None}] /\ nonce' \in [Browsers -> 0..MaxLinks]
  <2>1. closure' \in [Users -> {"none", "pending", "reviewed"}] /\ who' \in [Browsers -> Users \cup {None}]
    BY <1>3 DEF IInv, TypeOK
  <2>2. active' \in [Users -> BOOLEAN]
    BY <1>3 DEF IInv, TypeOK
  <2>3. nonce' \in [Browsers -> 0..MaxLinks]
    BY <1>3, MembersAssumption DEF IInv, TypeOK
  <2> QED
    BY <2>1, <2>2, <2>3
<1>6. TypeOK'
  BY <1>1, <1>4, <1>5 DEF IInv, TypeOK, Flows, Logins
<1>7. LinksDie'
  BY <1>1, <1>3, <1>4 DEF IInv, TypeOK, LinksDie
<1>8. Existing'
  BY <1>1, <1>2, <1>3 DEF IInv, TypeOK, Existing
<1>9. InOrder' /\ Bound'
  BY <1>1, <1>3, <1>4 DEF IInv, TypeOK, InOrder, Bound
<1> QED
  BY <1>1, <1>6, <1>7, <1>8, <1>9 DEF IInv, AddressOwned, Matching

LEMMA ReviewKeeps ==
  ASSUME IInv, NEW u \in Users, MarkClosureReviewed(u)
  PROVE  IInv'
<1>1. UNCHANGED <<key, byMail, verified, active, linked, owner, session, link, outdated, asker, sending,
                 inbox, asking, who, nonce, entering>>
  BY DEF MarkClosureReviewed, challenges, mails, sessions
<1>2. closure' \in [Users -> {"none", "pending", "reviewed"}]
  BY DEF IInv, TypeOK, MarkClosureReviewed
<1>3. TypeOK'
  BY <1>1, <1>2 DEF IInv, TypeOK, Flows, Logins
<1> QED
  BY <1>1, <1>3 DEF IInv, LinksDie, AddressOwned, Existing, InOrder, Bound, Matching

-----------------------------------------------------------------------------
LEMMA StepIInv == IInv /\ [Next]_vars => IInv'
<1> SUFFICES ASSUME IInv, [Next]_vars PROVE IInv'
  OBVIOUS
<1>1. CASE UNCHANGED vars
  <2>1. UNCHANGED <<key, byMail, verified, active, closure, linked, owner, session, link, outdated, asker,
                   sending, inbox, asking, who, nonce, entering>>
    BY <1>1 DEF vars, accounts, challenges, mails, sessions
  <2> QED
    BY <2>1, FlowsKeep
<1>2. ASSUME NEW b \in Browsers, Browser(b) PROVE IInv'
  BY <1>2, RequestKnownKeeps, RequestNewKeeps, ConfirmKeeps, GoogleKeeps, LogoutKeeps, CloseKeeps DEF Browser
<1>3. ASSUME NEW c \in Links, Arrive(c) \/ SendReturns(c) \/ SendFails(c) \/ Expire(c) PROVE IInv'
  BY <1>3, MailKeeps, SpentKeeps
<1>4. ASSUME NEW en \in entering, Enter(en) PROVE IInv'
  BY <1>4, EnterKeeps
<1>5. ASSUME NEW a \in asking,
             SaveConnection(a) \/ SaveUserRolledBack(a) \/ \E u \in Users : SaveUser(a, u)
      PROVE  IInv'
  BY <1>5, SaveConnectionKeeps, RolledBackKeeps, SaveUserKeeps
<1>6. ASSUME NEW u \in Users, MarkClosureReviewed(u) PROVE IInv'
  BY <1>6, ReviewKeeps
<1> QED
  BY <1>1, <1>2, <1>3, <1>4, <1>5, <1>6 DEF Next

LEMMA Inductive == Spec => []IInv
BY InitIInv, StepIInv, PTL DEF Spec

\* Every row and session of the accounts keeps its shape, and refers to rows that are there.
THEOREM MembersTypeCorrect == Spec => []TypeOK
<1>1. IInv => TypeOK
  BY DEF IInv
<1> QED
  BY Inductive, <1>1, PTL

\* request_email and request_account_closure: an unused link is the newest of an open account that has
\* email login.
THEOREM LinksInvalidated == Spec => []LinksDie
<1>1. IInv => LinksDie
  BY DEF IInv
<1> QED
  BY Inductive, <1>1, PTL

\* pre_social_login, save_user and the unique keys: an address is one account's, and a Google identity
\* opens the account of its own address only.
THEOREM OneAccountPerAddress == Spec => []AddressOwned
<1>1. IInv => AddressOwned
  BY DEF IInv
<1> QED
  BY Inductive, <1>1, PTL

-----------------------------------------------------------------------------
(* Which step does what: links are only consumed by Confirm, and accounts only entered by three steps. *)

LEMMA ConsumedBy ==
  ASSUME IInv, Next, NEW b \in Browsers, NEW c \in Links, Consumes(b, c)
  PROVE  Confirm(b, c)
<1>1. link[c] # "used" /\ link'[c] = "used" /\ ~(entering' \subseteq entering)
  BY DEF Consumes
<1>2. link' # link
  BY <1>1
<1>3. \E a \in Browsers, d \in Links : Confirm(a, d)
  <2>1. ASSUME NEW a \in Browsers, Browser(a)
        PROVE \E d \in Links : Confirm(a, d)
    BY <2>1, <1>1, <1>2
    DEF Browser, RequestKnown, RequestNew, Issue, GoogleLogin, GoogleSignup, Connect, Logout, Close,
        challenges, sessions
  <2>2. ASSUME NEW d \in Links, Arrive(d) \/ SendReturns(d) \/ SendFails(d) \/ Expire(d) PROVE FALSE
    BY <2>2, <1>1 DEF Arrive, SendReturns, SendFails, Expire, sessions
  <2>3. ASSUME NEW en \in entering, Enter(en) PROVE FALSE
    BY <2>3, <1>1 DEF Enter
  <2>4. ASSUME NEW a \in asking,
               SaveConnection(a) \/ SaveUserRolledBack(a) \/ \E u \in Users : SaveUser(a, u)
        PROVE  FALSE
    BY <2>4, <1>2 DEF SaveConnection, SaveUserRolledBack, SaveUser, challenges
  <2>5. ASSUME NEW u \in Users, MarkClosureReviewed(u) PROVE FALSE
    BY <2>5, <1>2 DEF MarkClosureReviewed, challenges
  <2> QED
    BY <2>1, <2>2, <2>3, <2>4, <2>5 DEF Next
<1>4. PICK a \in Browsers, d \in Links : Confirm(a, d)
  BY <1>3
<1>5. d = c
  BY <1>1, <1>4 DEF Confirm, IInv, TypeOK
<1>6. a = b
  <2>1. [browser |-> b, user |-> owner[c], mailed |-> TRUE] = [browser |-> a, user |-> owner[d], mailed |-> TRUE]
    BY <1>4 DEF Confirm, Consumes
  <2> QED
    BY <2>1
<1> QED
  BY <1>4, <1>5, <1>6

\* consume_email: a link lets in the browser that asked for it, while it is the newest of its account
\* and nobody has logged in to it since.
THEOREM LinksFit == Spec => LinkFits
<1>1. IInv /\ [Next]_vars =>
        [\A b \in Browsers, c \in Links : Consumes(b, c) =>
           /\ asker[c] = b /\ link[c] = "live" /\ c \notin outdated
           /\ \A d \in Links : d > c => owner[d] # owner[c]]_vars
  <2> SUFFICES ASSUME IInv, Next, NEW b \in Browsers, NEW c \in Links, Consumes(b, c)
               PROVE  /\ asker[c] = b /\ link[c] = "live" /\ c \notin outdated
                      /\ \A d \in Links : d > c => owner[d] # owner[c]
    OBVIOUS
  <2>1. link[c] = "live" /\ c \notin outdated /\ session[c] = nonce[b] /\ nonce[b] # 0
    BY ConsumedBy DEF Confirm
  <2>2. owner[c] # None
    BY <2>1 DEF IInv, TypeOK
  <2>3. asker[session[c]] = asker[c] /\ asker[nonce[b]] = b
    BY <2>1, <2>2 DEF IInv, Bound
  <2> QED
    BY <2>1, <2>3 DEF IInv, LinksDie
<1> QED
  BY <1>1, Inductive, PTL DEF Spec, LinkFits

\* request_account_closure: a closed account stays closed; nobody is authenticated for it any more and no
\* link is issued for it.
THEOREM ClosedStaysClosed == Spec => ClosedForGood
<1> DEFINE Shut(u) == /\ ~active'[u]
                      /\ \A en \in entering' \ entering : en.user # u
                      /\ \A c \in Links : owner'[c] = u => owner[c] = u
<1>1. IInv /\ [Next]_vars => [\A u \in Users : ~active[u] => Shut(u)]_vars
  <2> SUFFICES ASSUME IInv, Next, NEW u \in Users, ~active[u] PROVE Shut(u)
    OBVIOUS
  <2>1. \A v \in Users : active[v] => v # u
    OBVIOUS
  <2>2. ASSUME NEW b \in Browsers, Browser(b) PROVE Shut(u)
    <3>1. CASE \E v \in Users, c \in Links : RequestKnown(b, v, c)
      <4>1. PICK v \in Users, c \in Links : RequestKnown(b, v, c)
        BY <3>1
      <4>2. active[v] /\ UNCHANGED <<active, entering>> /\ owner' = [owner EXCEPT ![c] = v]
        BY <4>1 DEF RequestKnown, Issue, accounts
      <4> QED
        BY <4>2 DEF IInv, TypeOK
    <3>2. CASE \E e \in Emails, v \in Users, c \in Links : RequestNew(b, e, v, c)
      <4>1. PICK e \in Emails, v \in Users, c \in Links : RequestNew(b, e, v, c)
        BY <3>2
      <4>2. key[v] = None /\ UNCHANGED <<active, entering>> /\ owner' = [owner EXCEPT ![c] = v]
        BY <4>1 DEF RequestNew, CreateRow, Issue
      <4>3. active[v]
        BY <4>2 DEF IInv, Existing
      <4> QED
        BY <4>2, <4>3 DEF IInv, TypeOK
    <3>3. CASE \E c \in Links : Confirm(b, c)
      <4>1. PICK c \in Links : Confirm(b, c)
        BY <3>3
      <4>2. /\ active[owner[c]] /\ UNCHANGED <<active, owner>>
            /\ entering' = entering \cup {[browser |-> b, user |-> owner[c], mailed |-> TRUE]}
        BY <4>1 DEF Confirm
      <4> QED
        BY <4>2
    <3>4. CASE \E g \in Identities : GoogleLogin(b, g)
      <4>1. PICK g \in Identities : GoogleLogin(b, g)
        BY <3>4
      <4>2. /\ active[linked[g]] /\ UNCHANGED <<active, owner>>
            /\ entering' = entering \cup {[browser |-> b, user |-> linked[g], mailed |-> FALSE]}
        BY <4>1 DEF GoogleLogin, accounts, challenges
      <4> QED
        BY <4>2
    <3>5. CASE (\E g \in Identities : GoogleSignup(b, g) \/ Connect(b, g)) \/ Logout(b)
      <4>1. UNCHANGED <<active, owner, entering>>
        BY <3>5 DEF GoogleSignup, Connect, Logout, accounts, challenges, sessions
      <4> QED
        BY <4>1
    <3>6. CASE Close(b)
      <4>1. UNCHANGED <<owner, entering>> /\ active' = [active EXCEPT ![who[b]] = FALSE]
        BY <3>6 DEF Close
      <4>2. ~active'[u]
        BY <4>1 DEF IInv, TypeOK
      <4> QED
        BY <4>1, <4>2
    <3> QED
      BY <2>2, <3>1, <3>2, <3>3, <3>4, <3>5, <3>6 DEF Browser
  <2>3. ASSUME NEW c \in Links, Arrive(c) \/ SendReturns(c) \/ SendFails(c) \/ Expire(c) PROVE Shut(u)
    <3>1. UNCHANGED <<active, owner, entering>>
      BY <2>3 DEF Arrive, SendReturns, SendFails, Expire, accounts, challenges, sessions
    <3> QED
      BY <3>1
  <2>4. ASSUME NEW en \in entering, Enter(en) PROVE Shut(u)
    <3>1. UNCHANGED <<active, owner>> /\ entering' \subseteq entering
      BY <2>4 DEF Enter, accounts
    <3> QED
      BY <3>1
  <2>5. ASSUME NEW a \in asking, SaveConnection(a) \/ SaveUserRolledBack(a) PROVE Shut(u)
    <3>1. UNCHANGED <<active, owner, entering>>
      BY <2>5 DEF SaveConnection, SaveUserRolledBack, accounts, challenges, sessions
    <3> QED
      BY <3>1
  <2>6. ASSUME NEW a \in asking, NEW v \in Users, SaveUser(a, v) PROVE Shut(u)
    <3>1. /\ key[v] = None /\ UNCHANGED <<active, owner>>
          /\ entering' = entering \cup {[browser |-> a.browser, user |-> v, mailed |-> FALSE]}
      BY <2>6 DEF SaveUser, CreateRow, challenges
    <3>2. active[v]
      BY <3>1 DEF IInv, Existing
    <3> QED
      BY <3>1, <3>2
  <2>7. ASSUME NEW v \in Users, MarkClosureReviewed(v) PROVE Shut(u)
    <3>1. UNCHANGED <<active, owner, entering>>
      BY <2>7 DEF MarkClosureReviewed, challenges, sessions
    <3> QED
      BY <3>1
  <2> QED
    BY <2>2, <2>3, <2>4, <2>5, <2>6, <2>7 DEF Next
<1> QED
  BY <1>1, Inductive, PTL DEF Spec, ClosedForGood

\* Accounts, addresses and links, however requests, sign-ups and closures interleave.
THEOREM OwnersHeld == Spec => []OneOwner
BY MembersTypeCorrect, LinksInvalidated, OneAccountPerAddress, PTL DEF OneOwner

\* Who gets in, and that nobody gets into a closed account.
THEOREM DoorsHeld == Spec => DoorsHold
BY LinksFit, ClosedStaysClosed, PTL DEF DoorsHold
=============================================================================
