------------------------------- MODULE Profiles -------------------------------
(***************************************************************************)
(* What members keep about themselves: the nickname and the consent given  *)
(* with it at the first sign-in (onboarding and complete_profile), the     *)
(* nickname changed later, the picture, and the mail about answers         *)
(* (thai_platform/members/views.py, forms.py, services.py).                *)
(*                                                                         *)
(* A form is checked against the database before the transaction that      *)
(* writes, and other requests come in between; a transaction is one step.  *)
(* Operators have a user row with a name of their own and no profile.      *)
(* Left out: which nicknames are well formed, the texts consented to, and  *)
(* a closed account, which keeps its names.                                *)
(***************************************************************************)
EXTENDS Integers, FiniteSets

CONSTANTS
  Members, Operators,
  Names, Fold(_),     \* nicknames, and casefold of one
  OperatorName(_),
  Tabs,               \* requests under way at once
  MONTH,              \* days between two changes: 30
  LastDay,            \* bound: of the clock
  Never, None

VARIABLES
  day,
  username,           \* of each user; a member's first one is generated
  nickname_key,       \* None until onboarding
  nickname_changed_at,
  picture,            \* "icon", "photo"
  email_answer_notifications,
  verified,           \* the member's address is the user's and a verified one of allauth
  request             \* of each tab: a form that passed its checks, or None

profiles == <<username, nickname_key, nickname_changed_at, picture, email_answer_notifications>>
vars == <<day, profiles, verified, request>>

Users == Members \cup Operators
Form == [kind : {"onboarding", "nickname"}, member : Members, nickname : Names, now : 0..LastDay]

is_complete(m) == nickname_key[m] # None

Init ==
  /\ day = 0
  /\ username = [u \in Users |-> IF u \in Operators THEN OperatorName(u) ELSE u]
  /\ nickname_key = [m \in Members |-> None]
  /\ nickname_changed_at = [m \in Members |-> Never]
  /\ picture = [m \in Members |-> "icon"]
  /\ email_answer_notifications = [m \in Members |-> FALSE]
  /\ verified \in [Members -> BOOLEAN]
  /\ request = [t \in Tabs |-> None]

-----------------------------------------------------------------------------
(* The forms. *)

\* clean_nickname: no other member has the key and no other user the name, in any case.
clean_nickname(m, nickname) ==
  /\ \A n \in Members \ {m} : nickname_key[n] # Fold(nickname)
  /\ \A u \in Users \ {m} : Fold(username[u]) # Fold(nickname)

\* onboarding, up to its transaction; consent is ticked, or the form is shown again.
Onboarding(t, m, nickname) ==
  /\ request[t] = None /\ ~is_complete(m)
  /\ clean_nickname(m, nickname)
  /\ request' = [request EXCEPT ![t] =
       [kind |-> "onboarding", member |-> m, nickname |-> nickname, now |-> day]]
  /\ UNCHANGED <<day, profiles, verified>>

\* _edit_nickname, up to its transaction.
EditNickname(t, m, nickname) ==
  /\ request[t] = None /\ is_complete(m)
  /\ clean_nickname(m, nickname) /\ nickname # username[m]
  /\ request' = [request EXCEPT ![t] =
       [kind |-> "nickname", member |-> m, nickname |-> nickname, now |-> day]]
  /\ UNCHANGED <<day, profiles, verified>>

-----------------------------------------------------------------------------
(* The transactions. *)

\* Both columns are unique: nickname_key among the profiles, username among the users.
UniqueNames(m, nickname) ==
  /\ \A n \in Members \ {m} : nickname_key[n] # Fold(nickname)
  /\ \A u \in Users \ {m} : username[u] # nickname

TakeName(m, nickname) ==
  /\ username' = [username EXCEPT ![m] = nickname]
  /\ nickname_key' = [nickname_key EXCEPT ![m] = Fold(nickname)]

Done(t) == request' = [request EXCEPT ![t] = None]

\* complete_profile: nothing is left to do when another tab was first.
complete_profile(t) ==
  LET f == request[t]
  IN  /\ f # None /\ f.kind = "onboarding" /\ Done(t)
      /\ IF ~is_complete(f.member) /\ UniqueNames(f.member, f.nickname)
         THEN TakeName(f.member, f.nickname) ELSE UNCHANGED <<username, nickname_key>>
      /\ UNCHANGED <<day, nickname_changed_at, picture, email_answer_notifications, verified>>

\* Faulty variant: the condition without its thirty days.
AnyTime(m, now) == nickname_changed_at[m] = Never \/ nickname_changed_at[m] <= now

\* The condition of the UPDATE itself, on the row as it is then.
MonthPassed(m, now) ==
  nickname_changed_at[m] = Never \/ nickname_changed_at[m] <= now - MONTH

UpdateNickname(t) ==
  LET f == request[t]
  IN  /\ f # None /\ f.kind = "nickname" /\ Done(t)
      /\ IF MonthPassed(f.member, f.now) /\ UniqueNames(f.member, f.nickname)
         THEN /\ TakeName(f.member, f.nickname)
              /\ nickname_changed_at' = [nickname_changed_at EXCEPT ![f.member] = f.now]
         ELSE UNCHANGED <<username, nickname_key, nickname_changed_at>>
      /\ UNCHANGED <<day, picture, email_answer_notifications, verified>>

\* edit_avatar: choosing an icon drops the photo.
edit_avatar(m) ==
  /\ is_complete(m)
  /\ picture' = [picture EXCEPT ![m] = "icon"]
  /\ UNCHANGED <<day, username, nickname_key, nickname_changed_at, email_answer_notifications,
                 verified, request>>

\* profile_image: a photo that can be read replaces the icon until it is removed.
profile_image(m, kind) ==
  /\ is_complete(m)
  /\ picture' = [picture EXCEPT ![m] = kind]
  /\ UNCHANGED <<day, username, nickname_key, nickname_changed_at, email_answer_notifications,
                 verified, request>>

\* profile: mail about answers is switched on for a verified address only.
SetAnswerEmail(m, enabled) ==
  /\ is_complete(m) /\ (enabled => verified[m])
  /\ email_answer_notifications' = [email_answer_notifications EXCEPT ![m] = enabled]
  /\ UNCHANGED <<day, username, nickname_key, nickname_changed_at, picture, verified, request>>

NextDay ==
  /\ day < LastDay /\ day' = day + 1
  /\ UNCHANGED <<profiles, verified, request>>

Next ==
  \/ \E t \in Tabs, m \in Members, n \in Names : Onboarding(t, m, n) \/ EditNickname(t, m, n)
  \/ \E t \in Tabs : complete_profile(t) \/ UpdateNickname(t)
  \/ \E m \in Members :
       \/ edit_avatar(m)
       \/ \E kind \in {"icon", "photo"} : profile_image(m, kind)
       \/ \E enabled \in BOOLEAN : SetAnswerEmail(m, enabled)
  \/ NextDay
Spec == Init /\ [][Next]_vars

-----------------------------------------------------------------------------
(* Properties. *)

(* A name is known to everyone who saw it: however requests overlap, a       *)
(* member takes no name another user has in any case of letters, and a       *)
(* nickname once changed stays for a month ("닉네임은 30일마다 변경할 수     *)
(* 있습니다", members/views.py).                                             *)
NamesStay ==
  [][\A m \in Members : username'[m] # username[m] =>
       /\ \A u \in Users \ {m} : Fold(username'[u]) # Fold(username'[m])
       /\ nickname_changed_at[m] # Never => day - nickname_changed_at[m] >= MONTH]_vars
=============================================================================
