-------------------------- MODULE ModerationProofs --------------------------
(***************************************************************************)
(* Proofs about Moderation, for any posts, comments, members, threshold    *)
(* and number of reports and appeals, and about what is checked beside it: *)
(* the posts of the boards (Boards), what readers see of their comments    *)
(* (Talk) and the reader's list of news (NewsFeed).                        *)
(*                                                                         *)
(* TrailKept is what makes the review of a post independent: resolve_appeal*)
(* trusts the audit trail to name who hid the post, so the trail must name *)
(* the last one who did, and no purge may take that event away.            *)
(***************************************************************************)
EXTENDS MCModeration, FiniteSetTheorems, SequenceTheorems, TLAPS

IInv == TypeOK /\ TrailKept

-----------------------------------------------------------------------------
(* The audit trail. *)

\* target_type keeps the rows of the tables apart, whatever their primary keys.
LEMMA Targets ==
  /\ \A c, d \in Contents : Content(c) = Content(d) => c = d
  /\ \A c \in Contents, i \in Reports : Content(c) # Report(i)
  /\ \A i, k \in Reports : Report(i) = Report(k) => i = k
<1>1. \A c, d \in Contents : Content(c) = Content(d) => c = d
  BY ModerationAssumption
<1>2. \A c \in Contents, i \in Reports : Content(c) # Report(i)
  BY DEF Content, Report, TypeOf
<1>3. \A i, k \in Reports : Report(i) = Report(k) => i = k
  BY DEF Report
<1> QED
  BY <1>1, <1>2, <1>3

\* Logging a hiding makes it the only one of that content and leaves every other event alone.
LEMMA LoggedHide ==
  ASSUME trail \subseteq Events, NEW c \in Contents, NEW u \in Members, trail' = HideLogged(c, u)
  PROVE  /\ trail' \subseteq Events
         /\ HideEvents(c)' = {Event(Content(c), "content.hide", u)}
         /\ \A d \in Contents \ {c} : HideEvents(d)' = HideEvents(d)
         /\ \A i \in Reports : {e \in trail' : e.of = Report(i)} = {e \in trail : e.of = Report(i)}
<1> DEFINE new == Event(Content(c), "content.hide", u)
<1>1. new \in Events /\ new.of = Content(c) /\ new.action = "content.hide"
  BY DEF Events, Event
<1>2. trail' = {e \in trail : ~(e.of = Content(c) /\ e.action = "content.hide")} \cup {new}
  BY DEF HideLogged, HideEvents
<1> HIDE DEF new
<1>3. trail' \subseteq Events
  BY <1>1, <1>2
<1>4. HideEvents(c)' = {new}
  BY <1>1, <1>2 DEF HideEvents
<1>5. ASSUME NEW d \in Contents \ {c} PROVE HideEvents(d)' = HideEvents(d)
  <2>1. Content(d) # Content(c)
    BY <1>5, Targets
  <2> QED
    BY <2>1, <1>1, <1>2 DEF HideEvents
<1>6. ASSUME NEW i \in Reports
      PROVE  {e \in trail' : e.of = Report(i)} = {e \in trail : e.of = Report(i)}
  <2>1. Report(i) # Content(c)
    BY Targets
  <2> QED
    BY <2>1, <1>1, <1>2
<1> QED
  BY <1>3, <1>4, <1>5, <1>6 DEF new

-----------------------------------------------------------------------------
(* The parts of TypeOK that Hide and Unhide disturb. *)

ContentsOK ==
  /\ status \in [Contents -> {"published", "hidden", "deleted"}]
  /\ hider \in [Contents -> Members \cup {Nobody}]
  /\ how \in [Contents -> {"none", "auto", "report", "moderate", "operator"}]
  /\ restored \subseteq Comments
  /\ \A c \in Contents : status[c] = "hidden" <=> hider[c] # Nobody

LEMMA HideOK ==
  ASSUME ContentsOK, NEW c \in Contents, NEW u \in Members,
         NEW by \in {"auto", "report", "moderate", "operator"}, Hide(c, u, by)
  PROVE  ContentsOK'
BY ModerationAssumption DEF ContentsOK, Hide

LEMMA UnhideOK ==
  ASSUME ContentsOK, NEW c \in Contents, NEW to \in {"published", "deleted"}, Unhide(c, to),
         restored' \subseteq Comments
  PROVE  ContentsOK'
BY DEF ContentsOK, Unhide

RowsOK ==
  /\ rstatus \in [Reports -> {"none", "open", "closed", "purged"}]
  /\ about \in [Reports -> Contents \cup {Nobody}]
  /\ reporter \in [Reports -> Members \cup {Nobody}]
  /\ astatus \in [Appeals -> {"none", "pending", "upheld", "restored"}]
  /\ appealed \in [Appeals -> Contents \cup {Nobody}]
  /\ reviewer \in [Appeals -> Moderators \cup {Nobody}]
  /\ \A i \in Reports : rstatus[i] # "none" => about[i] \in Contents /\ reporter[i] \in Members
  /\ \A j \in Appeals : astatus[j] # "none" => appealed[j] \in Contents

LEMMA TypeParts == TypeOK <=> ContentsOK /\ RowsOK /\ trail \subseteq Events
BY DEF TypeOK, ContentsOK, RowsOK

LEMMA TypePartsNext == TypeOK' <=> ContentsOK' /\ RowsOK' /\ trail' \subseteq Events
BY DEF TypeOK, ContentsOK, RowsOK, Events

-----------------------------------------------------------------------------
HidesNamed ==
  \A c \in Posts \cup NewsComments : status[c] = "hidden" =>
    HideEvents(c) = {Event(Content(c), "content.hide", hider[c])}

ReportsLogged ==
  \A i \in Reports : rstatus[i] \in {"open", "closed"} <=> \E e \in trail : e.of = Report(i)

LEMMA InitIInv == Init => IInv
<1> SUFFICES ASSUME Init PROVE IInv
  OBVIOUS
<1>1. TypeOK
  BY ModerationAssumption DEF Init, TypeOK
<1>2. TrailKept
  BY DEF Init, TrailKept, Contents
<1> QED
  BY <1>1, <1>2 DEF IInv

\* A content is hidden and the hiding logged, as three of the operations do it.
LEMMA LoggedHideKeeps ==
  ASSUME IInv, NEW c \in Contents, NEW u \in Members, NEW by \in {"report", "moderate", "operator"},
         Hide(c, u, by), trail' = HideLogged(c, u)
  PROVE  ContentsOK' /\ trail' \subseteq Events /\ HidesNamed'
         /\ \A i \in Reports : (\E e \in trail' : e.of = Report(i)) <=> \E e \in trail : e.of = Report(i)
<1>1. ContentsOK /\ trail \subseteq Events
  BY TypeParts DEF IInv
<1>2. ContentsOK'
  BY <1>1, HideOK
<1>3. /\ trail' \subseteq Events
      /\ HideEvents(c)' = {Event(Content(c), "content.hide", u)}
      /\ \A d \in Contents \ {c} : HideEvents(d)' = HideEvents(d)
      /\ \A i \in Reports : {e \in trail' : e.of = Report(i)} = {e \in trail : e.of = Report(i)}
  BY <1>1, LoggedHide
<1>4. HidesNamed'
  <2> SUFFICES ASSUME NEW d \in Posts \cup NewsComments, status'[d] = "hidden"
               PROVE  HideEvents(d)' = {Event(Content(d), "content.hide", hider'[d])}
    BY DEF HidesNamed, Event, Content
  <2>1. CASE d = c
    BY <2>1, <1>1, <1>3 DEF Hide, ContentsOK
  <2>2. CASE d # c
    BY <2>2, <1>1, <1>3 DEF Hide, ContentsOK, IInv, TrailKept, Contents
  <2> QED
    BY <2>1, <2>2
<1>5. ASSUME NEW i \in Reports
      PROVE  (\E e \in trail' : e.of = Report(i)) <=> \E e \in trail : e.of = Report(i)
  BY <1>3
<1> QED
  BY <1>2, <1>3, <1>4, <1>5

\* A content is published again or deleted: one hider less to account for.
LEMMA UnhideKeeps ==
  ASSUME IInv, NEW c \in Contents, NEW to \in {"published", "deleted"}, Unhide(c, to),
         restored' \subseteq Comments, UNCHANGED trail
  PROVE  ContentsOK' /\ trail' \subseteq Events /\ HidesNamed'
<1>1. ContentsOK /\ trail \subseteq Events
  BY TypeParts DEF IInv
<1>2. ContentsOK'
  BY <1>1, UnhideOK
<1>3. HidesNamed'
  BY <1>1 DEF HidesNamed, IInv, TrailKept, HideEvents, Event, Content, Unhide, ContentsOK, Contents
<1> QED
  BY <1>1, <1>2, <1>3

\* What remains to show of a step, split the way the operations touch it.
LEMMA Combine ==
  ASSUME ContentsOK', RowsOK', trail' \subseteq Events, HidesNamed', ReportsLogged'
  PROVE  IInv'
<1>1. TypeOK'
  BY TypePartsNext
<1>2. TrailKept'
  BY DEF TrailKept, HidesNamed, ReportsLogged, HideEvents
<1> QED
  BY <1>1, <1>2 DEF IInv

LEMMA Known == IInv => ContentsOK /\ RowsOK /\ trail \subseteq Events /\ HidesNamed /\ ReportsLogged
BY TypeParts DEF IInv, TrailKept, HidesNamed, ReportsLogged

LEMMA CreateReportIInv ==
  ASSUME IInv, NEW u \in Members, NEW c \in Posts \cup Comments, NEW i \in Reports,
         CreateReport(u, c, i)
  PROVE  IInv'
<1> DEFINE new == Event(Report(i), "report", u)
<1>1. ContentsOK /\ RowsOK /\ trail \subseteq Events /\ HidesNamed /\ ReportsLogged
  BY Known
<1>2. trail' = trail \cup {new} /\ new \in Events /\ new.of = Report(i) /\ new.action = "report"
  BY DEF CreateReport, Events, Event
<1> HIDE DEF new
<1>3. ContentsOK'
  <2>1. CASE c \in Comments /\ Reached(c, u)
    BY <2>1, <1>1, HideOK DEF CreateReport, Contents
  <2>2. CASE ~(c \in Comments /\ Reached(c, u))
    BY <2>2, <1>1 DEF CreateReport, ContentsOK, history
  <2> QED
    BY <2>1, <2>2
<1>4. RowsOK'
  BY <1>1 DEF CreateReport, RowsOK, appealRows, Contents
<1>5. trail' \subseteq Events
  BY <1>1, <1>2
<1>6. HidesNamed'
  <2> SUFFICES ASSUME NEW d \in Posts \cup NewsComments, status'[d] = "hidden"
               PROVE  HideEvents(d)' = {Event(Content(d), "content.hide", hider'[d])}
    BY DEF HidesNamed, Event, Content
  <2>1. HideEvents(d)' = HideEvents(d)
    BY <1>2 DEF HideEvents
  <2>2. d \notin Comments
    BY ModerationAssumption
  <2>3. status'[d] = status[d] /\ hider'[d] = hider[d]
    BY <2>2, <1>1 DEF CreateReport, Hide, history, ContentsOK, Contents
  <2> QED
    BY <2>1, <2>3, <1>1 DEF HidesNamed
<1>7. ReportsLogged'
  <2> SUFFICES ASSUME NEW k \in Reports
               PROVE  rstatus'[k] \in {"open", "closed"} <=> \E e \in trail' : e.of = Report(k)
    BY DEF ReportsLogged, Report
  <2>1. CASE k = i
    BY <2>1, <1>1, <1>2 DEF CreateReport, RowsOK
  <2>2. CASE k # i
    BY <2>2, <1>1, <1>2, Targets DEF CreateReport, RowsOK, ReportsLogged
  <2> QED
    BY <2>1, <2>2
<1> QED
  BY <1>3, <1>4, <1>5, <1>6, <1>7, Combine

LEMMA ResolveReportIInv ==
  ASSUME IInv, NEW i \in Reports, ResolveReport(i)
  PROVE  IInv'
<1>1. ContentsOK /\ RowsOK /\ trail \subseteq Events /\ HidesNamed /\ ReportsLogged
  BY Known
<1>2. ContentsOK' /\ trail' \subseteq Events /\ HidesNamed'
  BY <1>1 DEF ResolveReport, history, ContentsOK, HidesNamed, HideEvents
<1>3. RowsOK'
  BY <1>1 DEF ResolveReport, RowsOK, appealRows
<1>4. ReportsLogged'
  BY <1>1 DEF ResolveReport, RowsOK, ReportsLogged, Report
<1> QED
  BY <1>1, <1>2, <1>3, <1>4, Combine

LEMMA HideReportedContentIInv ==
  ASSUME IInv, NEW m \in Moderators, NEW i \in Reports, HideReportedContent(m, i)
  PROVE  IInv'
<1>1. ContentsOK /\ RowsOK /\ trail \subseteq Events /\ HidesNamed /\ ReportsLogged
  BY Known
<1>2. about[i] \in Contents /\ m \in Members
  BY <1>1, ModerationAssumption DEF HideReportedContent, RowsOK
<1>3. ContentsOK' /\ trail' \subseteq Events /\ HidesNamed'
      /\ \A k \in Reports : (\E e \in trail' : e.of = Report(k)) <=> \E e \in trail : e.of = Report(k)
  BY <1>2, LoggedHideKeeps DEF HideReportedContent
<1>4. RowsOK'
  BY <1>1 DEF HideReportedContent, RowsOK, appealRows
<1>5. ReportsLogged'
  <2> SUFFICES ASSUME NEW k \in Reports
               PROVE  rstatus'[k] \in {"open", "closed"} <=> \E e \in trail' : e.of = Report(k)
    BY DEF ReportsLogged, Report
  <2>1. rstatus'[k] \in {"open", "closed"} <=> rstatus[k] \in {"open", "closed"}
    BY <1>1 DEF HideReportedContent, RowsOK
  <2> QED
    BY <2>1, <1>1, <1>3 DEF ReportsLogged
<1> QED
  BY <1>3, <1>4, <1>5, Combine

LEMMA PurgeIInv ==
  ASSUME IInv, PurgeExpiredReports
  PROVE  IInv'
<1>1. PICK S \in SUBSET {i \in Reports : rstatus[i] = "closed"} : Purge(S)
  BY DEF PurgeExpiredReports
<1>2. ContentsOK /\ RowsOK /\ trail \subseteq Events /\ HidesNamed /\ ReportsLogged
  BY Known
<1>3. trail' \subseteq trail
  BY <1>1 DEF Purge
<1>4. ContentsOK'
  BY <1>1, <1>2 DEF Purge, history, ContentsOK
<1>5. RowsOK'
  BY <1>1, <1>2 DEF Purge, RowsOK, appealRows
<1>6. HidesNamed'
  <2> SUFFICES ASSUME NEW d \in Posts \cup NewsComments, status'[d] = "hidden"
               PROVE  HideEvents(d)' = {Event(Content(d), "content.hide", hider'[d])}
    BY DEF HidesNamed, Event, Content
  <2>1. Content(d) \notin {Report(i) : i \in S}
    BY <1>1, Targets DEF Contents
  <2>2. HideEvents(d)' = HideEvents(d)
    BY <2>1, <1>1 DEF Purge, HideEvents
  <2> QED
    BY <2>2, <1>1, <1>2 DEF Purge, history, HidesNamed
<1>7. ReportsLogged'
  <2> SUFFICES ASSUME NEW k \in Reports
               PROVE  rstatus'[k] \in {"open", "closed"} <=> \E e \in trail' : e.of = Report(k)
    BY DEF ReportsLogged, Report
  <2>1. CASE k \in S
    BY <2>1, <1>1 DEF Purge
  <2>2. CASE k \notin S
    <3>1. Report(k) \notin {Report(i) : i \in S}
      BY <2>2, <1>1, Targets
    <3> QED
      BY <3>1, <2>2, <1>1, <1>2 DEF Purge, ReportsLogged
  <2> QED
    BY <2>1, <2>2
<1> QED
  BY <1>2, <1>3, <1>4, <1>5, <1>6, <1>7, Combine

\* Hiding and publishing again, outside reports.
LEMMA VisibilityIInv ==
  ASSUME IInv, UNCHANGED <<reportRows, appealRows>>, NEW c \in Contents,
         \/ /\ c \in Comments /\ UNCHANGED trail
            /\ \E m \in Members : Hide(c, m, "moderate")
         \/ /\ c \in Posts \cup NewsComments
            /\ \E u \in Members, by \in {"moderate", "operator"} : Hide(c, u, by) /\ trail' = HideLogged(c, u)
         \/ UNCHANGED trail /\ restored' \subseteq Comments
            /\ \E to \in {"published", "deleted"} : Unhide(c, to)
  PROVE  IInv'
<1>1. ContentsOK /\ RowsOK /\ trail \subseteq Events /\ HidesNamed /\ ReportsLogged
  BY Known
<1>2. RowsOK'
  BY <1>1 DEF RowsOK, reportRows, appealRows
<1>3. CASE c \in Comments /\ UNCHANGED trail /\ \E m \in Members : Hide(c, m, "moderate")
  <2>1. ContentsOK'
    BY <1>3, <1>1, HideOK
  <2>2. \A d \in Posts \cup NewsComments : d # c
    BY <1>3, ModerationAssumption
  <2>3. HidesNamed'
    BY <2>2, <1>3, <1>1 DEF HidesNamed, HideEvents, Event, Content, Hide, ContentsOK, Contents
  <2>4. ReportsLogged'
    BY <1>3, <1>1 DEF ReportsLogged, reportRows, Report
  <2> QED
    BY <2>1, <2>3, <2>4, <1>1, <1>2, <1>3, Combine
<1>4. CASE \E u \in Members, by \in {"moderate", "operator"} : Hide(c, u, by) /\ trail' = HideLogged(c, u)
  <2>1. ContentsOK' /\ trail' \subseteq Events /\ HidesNamed'
        /\ \A k \in Reports : (\E e \in trail' : e.of = Report(k)) <=> \E e \in trail : e.of = Report(k)
    BY <1>4, LoggedHideKeeps
  <2>2. ReportsLogged'
    BY <2>1, <1>1 DEF ReportsLogged, reportRows, Report
  <2> QED
    BY <2>1, <2>2, <1>2, Combine
<1>5. CASE UNCHANGED trail /\ restored' \subseteq Comments
           /\ \E to \in {"published", "deleted"} : Unhide(c, to)
  <2>1. ContentsOK' /\ trail' \subseteq Events /\ HidesNamed'
    BY <1>5, UnhideKeeps
  <2>2. ReportsLogged'
    BY <1>5, <1>1 DEF ReportsLogged, reportRows, Report
  <2> QED
    BY <2>1, <2>2, <1>2, Combine
<1> QED
  BY <1>3, <1>4, <1>5

LEMMA ModerateIInv ==
  ASSUME IInv, NEW m \in Moderators, NEW c \in Contents,
         ModerateComment(m, c) \/ ModerateNewsComment(m, c)
  PROVE  IInv'
<1>1. m \in Members
  BY ModerationAssumption
<1>2. restored' \subseteq Comments /\ UNCHANGED <<reportRows, appealRows>>
  BY Known DEF ModerateComment, ModerateNewsComment, Restore, Hide, ContentsOK
<1>3. CASE ModerateComment(m, c)
  BY <1>1, <1>2, <1>3, VisibilityIInv DEF ModerateComment, Restore
<1>4. CASE ModerateNewsComment(m, c)
  BY <1>1, <1>2, <1>4, VisibilityIInv DEF ModerateNewsComment, Restore
<1> QED
  BY <1>3, <1>4

LEMMA PostIInv ==
  ASSUME IInv, NEW o \in Operators, NEW p \in Posts, OperatorPostAction(o, p) \/ DeletePost(p)
  PROVE  IInv'
<1>1. o \in Members /\ p \in Contents
  BY ModerationAssumption DEF Contents
<1>2. restored' \subseteq Comments /\ UNCHANGED <<reportRows, appealRows>>
  BY Known DEF OperatorPostAction, DeletePost, Restore, Hide, ContentsOK
<1>3. CASE OperatorPostAction(o, p)
  BY <1>1, <1>2, <1>3, VisibilityIInv DEF OperatorPostAction, Restore
<1>4. CASE DeletePost(p)
  BY <1>1, <1>2, <1>4, VisibilityIInv DEF DeletePost
<1> QED
  BY <1>3, <1>4

LEMMA CreateAppealIInv ==
  ASSUME IInv, NEW c \in Posts \cup Comments, NEW j \in Appeals, CreateAppeal(c, j)
  PROVE  IInv'
<1>1. ContentsOK /\ RowsOK /\ trail \subseteq Events /\ HidesNamed /\ ReportsLogged
  BY Known
<1>2. ContentsOK' /\ trail' \subseteq Events /\ HidesNamed'
  BY <1>1 DEF CreateAppeal, history, ContentsOK, HidesNamed, HideEvents
<1>3. RowsOK'
  BY <1>1 DEF CreateAppeal, RowsOK, reportRows, Contents
<1>4. ReportsLogged'
  BY <1>1 DEF CreateAppeal, reportRows, ReportsLogged, Report
<1> QED
  BY <1>2, <1>3, <1>4, Combine

LEMMA ResolveAppealIInv ==
  ASSUME IInv, NEW m \in Moderators, NEW j \in Appeals, NEW outcome \in {"upheld", "restored"},
         ResolveAppeal(m, j, outcome)
  PROVE  IInv'
<1>1. ContentsOK /\ RowsOK /\ trail \subseteq Events /\ HidesNamed /\ ReportsLogged
  BY Known
<1>2. appealed[j] \in Contents
  BY <1>1 DEF ResolveAppeal, RowsOK
<1>3. ContentsOK' /\ trail' \subseteq Events /\ HidesNamed'
  <2>1. CASE outcome = "restored"
    <3>1. restored' \subseteq Comments /\ Unhide(appealed[j], "published") /\ UNCHANGED trail
      BY <2>1, <1>1 DEF ResolveAppeal, Restore, ContentsOK
    <3> QED
      BY <3>1, <1>2, UnhideKeeps
  <2>2. CASE outcome = "upheld"
    BY <2>2, <1>1 DEF ResolveAppeal, history, ContentsOK, HidesNamed, HideEvents
  <2> QED
    BY <2>1, <2>2
<1>4. RowsOK'
  BY <1>1 DEF ResolveAppeal, RowsOK, reportRows
<1>5. ReportsLogged'
  BY <1>1 DEF ResolveAppeal, reportRows, ReportsLogged, Report
<1> QED
  BY <1>3, <1>4, <1>5, Combine

LEMMA NextIInv == IInv /\ [Next]_vars => IInv'
<1> SUFFICES ASSUME IInv, [Next]_vars PROVE IInv'
  OBVIOUS
<1>1. CASE \E u \in Members, c \in Posts \cup Comments, i \in Reports : CreateReport(u, c, i)
  BY <1>1, CreateReportIInv
<1>2. ASSUME NEW m \in Moderators, Moderator(m) PROVE IInv'
  <2>1. CASE \E i \in Reports : HideReportedContent(m, i)
    BY <2>1, HideReportedContentIInv
  <2>2. CASE \E c \in Contents : ModerateComment(m, c) \/ ModerateNewsComment(m, c)
    BY <2>2, ModerateIInv
  <2>3. CASE \E j \in Appeals, outcome \in {"upheld", "restored"} : ResolveAppeal(m, j, outcome)
    BY <2>3, ResolveAppealIInv
  <2> QED
    BY <1>2, <2>1, <2>2, <2>3 DEF Moderator
<1>3. CASE \E o \in Operators, p \in Posts : OperatorPostAction(o, p)
  BY <1>3, PostIInv
<1>4. ASSUME NEW p \in Posts, DeletePost(p) PROVE IInv'
  <2>1. CASE Operators # {}
    BY <1>4, <2>1, PostIInv
  <2>2. CASE Operators = {}
    <3>1. p \in Contents /\ restored' \subseteq Comments
      BY <1>4, Known DEF Contents, DeletePost, ContentsOK
    <3> QED
      BY <3>1, <1>4, VisibilityIInv DEF DeletePost
  <2> QED
    BY <2>1, <2>2
<1>5. CASE \E c \in Posts \cup Comments, j \in Appeals : CreateAppeal(c, j)
  BY <1>5, CreateAppealIInv
<1>6. CASE \E i \in Reports : ResolveReport(i)
  BY <1>6, ResolveReportIInv
<1>7. CASE PurgeExpiredReports
  BY <1>7, PurgeIInv
<1>8. CASE UNCHANGED vars
  <2>1. UNCHANGED <<status, reportRows, appealRows, trail, history>>
    BY <1>8 DEF vars
  <2>2. ContentsOK' /\ RowsOK' /\ trail' \subseteq Events /\ HidesNamed' /\ ReportsLogged'
    BY <2>1, Known DEF ContentsOK, RowsOK, HidesNamed, HideEvents, Event, Content, ReportsLogged, Report,
       reportRows, appealRows, history
  <2> QED
    BY <2>2, Combine
<1> QED
  BY <1>1, <1>2, <1>3, <1>4, <1>5, <1>6, <1>7, <1>8 DEF Next

-----------------------------------------------------------------------------
(* Every row keeps its shape and is about a content; only what is hidden has a hider. *)
THEOREM ModerationTypeCorrect == Spec => []TypeOK
<1>1. IInv => TypeOK
  BY DEF IInv
<1> QED
  BY <1>1, InitIInv, NextIInv, PTL DEF Spec

(* resolve_appeal can always find out who hid a post, whatever purge_expired_reports has removed. *)
THEOREM HidingAccounted == Spec => []TrailKept
<1>1. IInv => TrailKept
  BY DEF IInv
<1> QED
  BY <1>1, InitIInv, NextIInv, PTL DEF Spec

(* resolve_appeal: whoever hid a post does not decide the appeal against it. *)
THEOREM PostsReviewedIndependently == Spec => PostReviewIndependent
<1>1. IInv /\ [Next]_vars => [\A c \in Posts, j \in Appeals : Independent(c, j)]_vars
  <2> SUFFICES ASSUME IInv, Next, NEW c \in Posts, NEW j \in Appeals,
                      astatus[j] = "pending", astatus'[j] # "pending", appealed[j] = c
               PROVE  reviewer'[j] # hider[c]
    BY DEF Independent
  <2>1. RowsOK /\ HidesNamed
    BY Known
  <2>2. PICK m \in Moderators, k \in Appeals, outcome \in {"upheld", "restored"} : ResolveAppeal(m, k, outcome)
    <3>1. ASSUME NEW d \in Posts \cup Comments, NEW k \in Appeals PROVE ~CreateAppeal(d, k)
      BY <2>1 DEF CreateAppeal, RowsOK
    <3>2. astatus' # astatus
      OBVIOUS
    <3> QED
      BY <3>1, <3>2 DEF Next, Moderator, CreateReport, HideReportedContent, ModerateComment, ModerateNewsComment,
         OperatorPostAction, DeletePost, ResolveReport, PurgeExpiredReports, Purge, appealRows
  <2>3. k = j /\ reviewer'[j] = m
    BY <2>1, <2>2 DEF ResolveAppeal, RowsOK
  <2>4. HideEvents(c) = {Event(Content(c), "content.hide", hider[c])} /\ \A e \in HideEvents(c) : e.actor # m
    BY <2>1, <2>2, <2>3 DEF ResolveAppeal, HidesNamed
  <2> QED
    BY <2>3, <2>4 DEF Event
<1> QED
  BY <1>1, InitIInv, NextIInv, PTL DEF Spec, PostReviewIndependent

(* The tables only move forward: no sequence of operations brings back a deleted post, reopens a closed *)
(* report or decides an appeal twice.                                                                  *)
THEOREM DecisionsStand == Spec => NoWayBack
<1>1. IInv /\ [Next]_vars =>
        [/\ \A c \in Contents : status[c] = "deleted" => status'[c] = "deleted"
         /\ \A i \in Reports : /\ rstatus[i] = "closed" => rstatus'[i] # "open"
                               /\ rstatus[i] = "open" => rstatus'[i] # "purged"
         /\ \A j \in Appeals : astatus[j] \in {"upheld", "restored"} =>
                                 astatus'[j] = astatus[j] /\ reviewer'[j] = reviewer[j]]_vars
  <2> SUFFICES ASSUME IInv, Next
               PROVE  /\ \A c \in Contents : status[c] = "deleted" => status'[c] = "deleted"
                      /\ \A i \in Reports : /\ rstatus[i] = "closed" => rstatus'[i] # "open"
                                            /\ rstatus[i] = "open" => rstatus'[i] # "purged"
                      /\ \A j \in Appeals : astatus[j] \in {"upheld", "restored"} =>
                                              astatus'[j] = astatus[j] /\ reviewer'[j] = reviewer[j]
    OBVIOUS
  <2>1. ContentsOK /\ RowsOK
    BY Known
  <2>2. ASSUME NEW c \in Contents, status[c] = "deleted" PROVE status'[c] = "deleted"
    <3>1. \A m \in Moderators : Moderator(m) => status'[c] = "deleted"
      BY <2>1, <2>2 DEF Moderator, HideReportedContent, ModerateComment, ModerateNewsComment, ResolveAppeal,
         Hide, Restore, Unhide, ContentsOK, history
    <3> QED
      BY <3>1, <2>1, <2>2 DEF Next, CreateReport, Visible, OperatorPostAction, DeletePost, CreateAppeal,
         ResolveReport, PurgeExpiredReports, Purge, Hide, Restore, Unhide, ContentsOK, history
  <2>3. ASSUME NEW i \in Reports
        PROVE  /\ rstatus[i] = "closed" => rstatus'[i] # "open"
               /\ rstatus[i] = "open" => rstatus'[i] # "purged"
    <3>1. \A m \in Moderators : Moderator(m) => rstatus'[i] \in {rstatus[i], "closed"}
      BY <2>1 DEF Moderator, HideReportedContent, ModerateComment, ModerateNewsComment, ResolveAppeal,
         reportRows, RowsOK
    <3>2. PurgeExpiredReports => rstatus'[i] = rstatus[i] \/ (rstatus[i] = "closed" /\ rstatus'[i] = "purged")
      BY DEF PurgeExpiredReports, Purge
    <3> QED
      BY <3>1, <3>2, <2>1 DEF Next, CreateReport, OperatorPostAction, DeletePost, CreateAppeal,
         ResolveReport, reportRows, RowsOK
  <2>4. ASSUME NEW j \in Appeals, astatus[j] \in {"upheld", "restored"}
        PROVE  astatus'[j] = astatus[j] /\ reviewer'[j] = reviewer[j]
    <3>1. \A m \in Moderators : Moderator(m) => astatus'[j] = astatus[j] /\ reviewer'[j] = reviewer[j]
      BY <2>1, <2>4 DEF Moderator, HideReportedContent, ModerateComment, ModerateNewsComment, ResolveAppeal,
         appealRows, RowsOK
    <3> QED
      BY <3>1, <2>1, <2>4 DEF Next, CreateReport, OperatorPostAction, DeletePost, CreateAppeal,
         ResolveReport, PurgeExpiredReports, Purge, appealRows, RowsOK
  <2> QED
    BY <2>2, <2>3, <2>4
<1> QED
  BY <1>1, InitIInv, NextIInv, PTL DEF Spec, NoWayBack

-----------------------------------------------------------------------------
(* Counting reporters.  A row without a report is about nothing, so Accusers only ever grows. *)

RowsBlank == \A i \in Reports : rstatus[i] = "none" => about[i] = Nobody

Counted == IInv /\ RowsBlank /\ NotAlone /\ ThresholdActs

\* Every operation but create_report leaves what reports are about alone, closes reports and opens none,
\* and hides nothing by their number.
LEMMA OtherSteps ==
  ASSUME IInv, [Next]_vars,
         ~ \E u \in Members, c \in Posts \cup Comments, i \in Reports : CreateReport(u, c, i)
  PROVE  /\ UNCHANGED <<about, reporter>>
         /\ \A i \in Reports : /\ rstatus'[i] = "open" => rstatus[i] = "open"
                               /\ rstatus'[i] = "none" => rstatus[i] = "none"
         /\ \A c \in Comments : status'[c] = "hidden" /\ how'[c] = "auto" => status[c] = "hidden" /\ how[c] = "auto"
         /\ \A c \in Comments \ restored' : status'[c] = "published" => status[c] = "published" /\ c \notin restored
<1> DEFINE Goal == /\ UNCHANGED <<about, reporter>>
                   /\ \A i \in Reports : /\ rstatus'[i] = "open" => rstatus[i] = "open"
                                         /\ rstatus'[i] = "none" => rstatus[i] = "none"
                   /\ \A c \in Comments : status'[c] = "hidden" /\ how'[c] = "auto" =>
                                            status[c] = "hidden" /\ how[c] = "auto"
                   /\ \A c \in Comments \ restored' :
                        status'[c] = "published" => status[c] = "published" /\ c \notin restored
<1>1. ContentsOK /\ RowsOK /\ Comments \subseteq Contents /\ Posts \cap Comments = {}
  BY Known, ModerationAssumption DEF Contents
<1>2. ASSUME NEW m \in Moderators, Moderator(m) PROVE Goal
  <2>1. CASE \E i \in Reports : HideReportedContent(m, i)
    BY <2>1, <1>1 DEF HideReportedContent, Hide, ContentsOK, RowsOK
  <2>2. CASE \E c \in Contents : ModerateComment(m, c) \/ ModerateNewsComment(m, c)
    BY <2>2, <1>1 DEF ModerateComment, ModerateNewsComment, Hide, Restore, Unhide, reportRows, ContentsOK
  <2>3. CASE \E j \in Appeals, outcome \in {"upheld", "restored"} : ResolveAppeal(m, j, outcome)
    BY <2>3, <1>1 DEF ResolveAppeal, Restore, Unhide, reportRows, history, ContentsOK
  <2> QED
    BY <1>2, <2>1, <2>2, <2>3 DEF Moderator
<1>3. CASE (\E o \in Operators, p \in Posts : OperatorPostAction(o, p)) \/ (\E p \in Posts : DeletePost(p))
  BY <1>3, <1>1 DEF OperatorPostAction, DeletePost, Hide, Restore, Unhide, reportRows, ContentsOK
<1>4. CASE \E c \in Posts \cup Comments, j \in Appeals : CreateAppeal(c, j)
  BY <1>4 DEF CreateAppeal, reportRows, history
<1>5. CASE (\E i \in Reports : ResolveReport(i)) \/ PurgeExpiredReports
  BY <1>5, <1>1 DEF ResolveReport, PurgeExpiredReports, Purge, history, RowsOK
<1>6. CASE UNCHANGED vars
  BY <1>6 DEF vars, reportRows, history
<1> QED
  BY <1>2, <1>3, <1>4, <1>5, <1>6 DEF Next

LEMMA FiniteReporters ==
  ASSUME IInv, RowsBlank, NEW c \in Contents
  PROVE  /\ Accusers(c) \subseteq Members /\ IsFiniteSet(Accusers(c))
         /\ OpenReporters(c) \subseteq Members /\ IsFiniteSet(OpenReporters(c))
<1>1. RowsOK /\ c # Nobody
  BY Known, ModerationAssumption
<1>2. Accusers(c) \subseteq Members
  BY <1>1 DEF Accusers, RowsBlank, RowsOK
<1>3. OpenReporters(c) \subseteq Members
  BY <1>1 DEF OpenReporters, RowsOK
<1> QED
  BY <1>2, <1>3, FS_Subset, ModerationAssumption

\* The same after a step.
LEMMA FiniteReportersNext ==
  ASSUME IInv', RowsBlank', NEW c \in Contents
  PROVE  /\ Accusers(c)' \subseteq Members /\ IsFiniteSet(Accusers(c)')
         /\ OpenReporters(c)' \subseteq Members /\ IsFiniteSet(OpenReporters(c)')
<1>1. RowsOK' /\ c # Nobody
  BY TypePartsNext, ModerationAssumption DEF IInv
<1>2. Accusers(c)' \subseteq Members
  BY <1>1 DEF Accusers, RowsBlank, RowsOK
<1>3. OpenReporters(c)' \subseteq Members
  BY <1>1 DEF OpenReporters, RowsOK
<1> QED
  BY <1>2, <1>3, FS_Subset, ModerationAssumption

LEMMA InitCounted == Init => Counted
<1> SUFFICES ASSUME Init PROVE Counted
  OBVIOUS
<1>1. RowsBlank
  BY DEF Init, RowsBlank
<1>2. NotAlone
  BY DEF Init, NotAlone, Contents
<1>3. \A c \in Comments : OpenReporters(c) = {}
  BY DEF Init, OpenReporters
<1> QED
  BY <1>1, <1>2, <1>3, InitIInv DEF Counted, ThresholdActs

LEMMA NextCounted == Counted /\ [Next]_vars => Counted'
<1> SUFFICES ASSUME Counted, [Next]_vars PROVE Counted'
  OBVIOUS
<1>1. IInv /\ RowsBlank /\ RowsOK /\ ContentsOK /\ Comments \subseteq Contents
  BY Known DEF Counted, Contents
<1>2. IInv'
  BY <1>1, NextIInv
<1>3. CASE \E u \in Members, c \in Posts \cup Comments, i \in Reports : CreateReport(u, c, i)
  <2> PICK u \in Members, c \in Posts \cup Comments, i \in Reports : CreateReport(u, c, i)
    BY <1>3
  <2>1. RowsBlank'
    BY <1>1 DEF RowsBlank, CreateReport, RowsOK
  <2>2. \A d \in Contents : Accusers(d) \subseteq Accusers(d)'
    BY <1>1, ModerationAssumption DEF Accusers, CreateReport, RowsBlank, RowsOK
  <2>3. \A d \in Contents : IsFiniteSet(Accusers(d)') /\ IsFiniteSet(Accusers(d))
    BY <1>1, <1>2, <2>1, FiniteReporters, FiniteReportersNext
  <2>4. OpenReporters(c)' = OpenReporters(c) \cup {u}
    BY <1>1 DEF OpenReporters, CreateReport, RowsOK
  <2>5. \A d \in Contents \ {c} : OpenReporters(d)' = OpenReporters(d)
    BY <1>1 DEF OpenReporters, CreateReport, RowsOK
  <2>6. OpenReporters(c)' \subseteq Accusers(c)'
    BY <1>2 DEF OpenReporters, Accusers
  <2>7. NotAlone'
    <3> SUFFICES ASSUME NEW d \in Comments, status'[d] = "hidden", how'[d] = "auto"
                 PROVE  Cardinality(Accusers(d)') >= Threshold
      BY DEF NotAlone, Accusers
    <3>1. /\ Cardinality(Accusers(d)') \in Nat /\ Cardinality(Accusers(d)) \in Nat
          /\ Cardinality(Accusers(d)) <= Cardinality(Accusers(d)')
      BY <1>1, <2>2, <2>3, FS_Subset, FS_CardinalityType
    <3>2. CASE d = c /\ Reached(c, u)
      <4>1. Cardinality(OpenReporters(c)') <= Cardinality(Accusers(c)')
            /\ Cardinality(OpenReporters(c)') \in Nat
        BY <1>1, <2>3, <2>6, <3>2, FS_Subset, FS_CardinalityType
      <4> QED
        BY <4>1, <3>1, <3>2, <2>4, ModerationAssumption DEF Reached
    <3>3. CASE ~(d = c /\ Reached(c, u))
      <4>1. status[d] = "hidden" /\ how[d] = "auto"
        BY <3>3, <1>1 DEF CreateReport, Hide, history, ContentsOK
      <4>2. Cardinality(Accusers(d)) >= Threshold
        BY <4>1 DEF Counted, NotAlone
      <4> QED
        BY <4>2, <3>1, ModerationAssumption
    <3> QED
      BY <3>2, <3>3
  <2>8. ThresholdActs'
    <3> SUFFICES ASSUME NEW d \in Comments \ restored', status'[d] = "published"
                 PROVE  OpenReporters(d)' = {} \/ Cardinality(OpenReporters(d)') < Threshold
      BY DEF ThresholdActs, OpenReporters
    <3>1. CASE d = c
      <4>1. ~Reached(c, u)
        BY <3>1, <1>1 DEF CreateReport, Hide, ContentsOK
      <4>2. Cardinality(OpenReporters(c)') \in Nat
        BY <1>1, <1>2, <2>1, <3>1, FiniteReportersNext, FS_CardinalityType
      <4> QED
        BY <4>1, <4>2, <2>4, <3>1, ModerationAssumption DEF Reached
    <3>2. CASE d # c
      BY <3>2, <2>5, <1>1 DEF Counted, ThresholdActs, CreateReport, Hide, history, ContentsOK
    <3> QED
      BY <3>1, <3>2
  <2> QED
    BY <1>2, <2>1, <2>7, <2>8 DEF Counted
<1>4. CASE ~ \E u \in Members, c \in Posts \cup Comments, i \in Reports : CreateReport(u, c, i)
  <2>1. /\ UNCHANGED <<about, reporter>>
        /\ \A i \in Reports : /\ rstatus'[i] = "open" => rstatus[i] = "open"
                              /\ rstatus'[i] = "none" => rstatus[i] = "none"
        /\ \A c \in Comments : status'[c] = "hidden" /\ how'[c] = "auto" => status[c] = "hidden" /\ how[c] = "auto"
        /\ \A c \in Comments \ restored' : status'[c] = "published" => status[c] = "published" /\ c \notin restored
    BY <1>1, <1>4, OtherSteps
  <2>2. RowsBlank' /\ NotAlone'
    BY <2>1 DEF Counted, RowsBlank, NotAlone, Accusers
  <2>3. ThresholdActs'
    <3> SUFFICES ASSUME NEW d \in Comments \ restored', status'[d] = "published"
                 PROVE  OpenReporters(d)' = {} \/ Cardinality(OpenReporters(d)') < Threshold
      BY DEF ThresholdActs, OpenReporters
    <3>1. OpenReporters(d)' \subseteq OpenReporters(d)
      BY <2>1 DEF OpenReporters
    <3>2. OpenReporters(d) = {} \/ Cardinality(OpenReporters(d)) < Threshold
      BY <2>1 DEF Counted, ThresholdActs
    <3>3. /\ Cardinality(OpenReporters(d)) \in Nat /\ Cardinality(OpenReporters(d)') \in Nat
          /\ Cardinality(OpenReporters(d)') <= Cardinality(OpenReporters(d))
      BY <1>1, <3>1, FiniteReporters, FS_Subset, FS_CardinalityType
    <3> QED
      BY <3>1, <3>2, <3>3, ModerationAssumption
  <2> QED
    BY <1>2, <2>2, <2>3 DEF Counted
<1> QED
  BY <1>3, <1>4

(* create_report: a comment its reports have hidden was reported by Threshold different members. *)
THEOREM NobodyHidesAlone == Spec => []NotAlone
<1>1. Counted => NotAlone
  BY DEF Counted
<1> QED
  BY <1>1, InitCounted, NextCounted, PTL DEF Spec

(* create_report: a comment stays up under Threshold open reporters only if somebody published it again. *)
THEOREM ReportsTakeEffect == Spec => []ThresholdActs
<1>1. Counted => ThresholdActs
  BY DEF Counted
<1> QED
  BY <1>1, InitCounted, NextCounted, PTL DEF Spec

\* Hiding is accounted for and takes enough members, for any contents, reports and threshold.
THEOREM HidingHeldFair == Spec => []HidingFair
BY ModerationTypeCorrect, HidingAccounted, NobodyHidesAlone, ReportsTakeEffect, PTL DEF HidingFair

\* Decisions stand and posts are reviewed by somebody else, for any contents, reports and appeals.
THEOREM ReviewsHeld == Spec => ReviewsStand
BY DecisionsStand, PostsReviewedIndependently, PTL DEF ReviewsStand


-----------------------------------------------------------------------------
(* The other components of the run, one lane each. *)

LEMMA TalkLane == [LaneNext]_allVars => [talk!Next]_talkVars
<1> SUFFICES ASSUME [LaneNext]_allVars PROVE talk!Next \/ UNCHANGED talkVars
  OBVIOUS
<1>1. CASE LaneNext
  BY <1>1 DEF LaneNext, ModerationStep, BoardsStep, TalkStep, FeedStep, talk!Next
<1>2. CASE UNCHANGED allVars
  BY <1>2 DEF allVars
<1> QED
  BY <1>1, <1>2

-----------------------------------------------------------------------------
(* Comments, replies and notifications (Talk.tla).  A reply answers a comment that *)
(* stands and answers nothing itself, and a notification is about a comment that   *)
(* stands: with that, each page's own query comes to the same.                     *)

TalkRows == [author : Talkers, parent : Slots \cup {None}, status : {"published", "hidden", "deleted"}]

TalkInv ==
  /\ talk_comment \in [Slots -> TalkRows \cup {None}]
  /\ \A c \in talk!Standing : talk_comment[c].parent # None =>
       /\ talk_comment[c].parent \in talk!Standing
       /\ talk_comment[talk_comment[c].parent].parent = None
  /\ talk_notes \subseteq [to : {Author}, comment : Slots, read : BOOLEAN]
  /\ \A n \in talk_notes : n.comment \in talk!Standing

\* The rows stay where they are and answer what they answered; a status may change.
LEMMA TalkInvStands ==
  ASSUME TalkInv, talk_comment' \in [Slots -> TalkRows \cup {None}],
         \A c \in talk!Standing : talk_comment'[c] # None /\ talk_comment'[c].parent = talk_comment[c].parent,
         \A c \in Slots \ talk!Standing : talk_comment'[c] = None,
         talk_notes' = talk_notes
  PROVE  TalkInv'
<1>1. talk!Standing' = talk!Standing
  BY DEF talk!Standing
<1> QED
  BY <1>1 DEF TalkInv, TalkRows

LEMMA TalkNext ==
  ASSUME TalkInv, [talk!Next]_talkVars
  PROVE  TalkInv'
<1>1. ASSUME NEW u \in Talkers, NEW c \in Slots, NEW parent \in {None} \cup Slots,
             talk!create_comment(u, c, parent)
      PROVE  TalkInv'
  <2> DEFINE row == [author |-> u, parent |-> parent, status |-> "published"]
  <2>1. row \in TalkRows /\ row # None /\ row.parent = parent
    BY TalkAssumption DEF TalkRows
  <2>2. talk_comment' = [talk_comment EXCEPT ![c] = row] /\ talk_comment[c] = None
    BY <1>1 DEF talk!create_comment
  <2>3. parent # None => /\ parent \in talk!Standing /\ talk_comment[parent].parent = None
                         /\ parent # c
    BY <1>1 DEF talk!create_comment, talk!visible_comments, talk!Standing
  <2>4. talk_notes' = talk_notes \/ talk_notes' = talk_notes \cup {[to |-> Author, comment |-> c, read |-> FALSE]}
    BY <1>1 DEF talk!create_comment, talk!Reply
  <2> HIDE DEF row
  <2>5. talk_comment' \in [Slots -> TalkRows \cup {None}]
    BY <2>1, <2>2 DEF TalkInv
  <2>6. talk!Standing' = talk!Standing \cup {c} /\ c \notin talk!Standing
    BY <2>1, <2>2 DEF talk!Standing, TalkInv
  <2>7. \A d \in Slots : talk_comment'[d] = IF d = c THEN row ELSE talk_comment[d]
    BY <2>2 DEF TalkInv
  <2>8. ASSUME NEW d \in talk!Standing', talk_comment'[d].parent # None
        PROVE  talk_comment'[d].parent \in talk!Standing'
               /\ talk_comment'[talk_comment'[d].parent].parent = None
    <3>1. d \in Slots
      BY DEF talk!Standing
    <3>2. CASE d = c
      <4>1. talk_comment'[d].parent = parent /\ parent \in talk!Standing /\ parent \in Slots
        BY <3>2, <2>1, <2>3, <2>7, <2>8 DEF talk!Standing
      <4> QED
        BY <4>1, <2>3, <2>6, <2>7, <2>8
    <3>3. CASE d # c
      <4>1. d \in talk!Standing /\ talk_comment'[d] = talk_comment[d]
        BY <3>1, <3>3, <2>6, <2>7
      <4>2. /\ talk_comment[d].parent \in talk!Standing
            /\ talk_comment[talk_comment[d].parent].parent = None
        BY <4>1, <2>8 DEF TalkInv
      <4>3. talk_comment[d].parent \in Slots /\ talk_comment[d].parent # c
        BY <4>2, <2>6 DEF talk!Standing
      <4> QED
        BY <4>1, <4>2, <4>3, <2>6, <2>7
    <3> QED
      BY <3>2, <3>3
  <2>9. /\ talk_notes' \subseteq [to : {Author}, comment : Slots, read : BOOLEAN]
        /\ \A n \in talk_notes' : n.comment \in talk!Standing'
    <3> DEFINE note == [to |-> Author, comment |-> c, read |-> FALSE]
    <3>1. note \in [to : {Author}, comment : Slots, read : BOOLEAN] /\ note.comment = c
      OBVIOUS
    <3>2. talk_notes' = talk_notes \/ talk_notes' = talk_notes \cup {note}
      BY <2>4
    <3> HIDE DEF note
    <3>3. talk_notes' \subseteq [to : {Author}, comment : Slots, read : BOOLEAN]
      BY <3>1, <3>2 DEF TalkInv
    <3>4. \A n \in talk_notes : n.comment \in talk!Standing'
      BY <2>6 DEF TalkInv
    <3> QED
      BY <3>1, <3>2, <3>3, <3>4, <2>6
  <2> QED
    BY <2>5, <2>8, <2>9 DEF TalkInv, TalkRows
<1>2. ASSUME NEW u \in Talkers, NEW n \in talk_notes, talk!notification_read(u, n) PROVE TalkInv'
  <2>1. /\ talk_notes' = (talk_notes \ {n}) \cup {[n EXCEPT !.read = TRUE]}
        /\ talk_comment' = talk_comment
    BY <1>2 DEF talk!notification_read
  <2>2. talk!Standing' = talk!Standing
    BY <2>1 DEF talk!Standing
  <2>3. /\ [n EXCEPT !.read = TRUE] \in [to : {Author}, comment : Slots, read : BOOLEAN]
        /\ [n EXCEPT !.read = TRUE].comment = n.comment
    BY DEF TalkInv
  <2>4. talk_notes' \subseteq [to : {Author}, comment : Slots, read : BOOLEAN]
    BY <2>1, <2>3 DEF TalkInv
  <2>5. \A m \in talk_notes' : m.comment \in talk!Standing'
    BY <2>1, <2>2, <2>3 DEF TalkInv
  <2> QED
    BY <2>1, <2>2, <2>4, <2>5 DEF TalkInv, TalkRows
<1>3. ASSUME UNCHANGED <<talk_comment, talk_notes>> PROVE TalkInv'
  BY <1>3 DEF TalkInv, TalkRows, talk!Standing
<1>4. ASSUME NEW u \in Talkers, NEW kind \in {"bookmarks", "helpful"}, talk!engagement_action(u, kind)
      PROVE  TalkInv'
  BY <1>3, <1>4 DEF talk!engagement_action, talk!Toggle
<1>5. ASSUME NEW u \in Talkers, NEW c \in Slots, talk!comment_like(u, c) PROVE TalkInv'
  BY <1>3, <1>5 DEF talk!comment_like, talk!Toggle
<1>6. ASSUME NEW u \in Talkers, NEW v \in Talkers, talk!Block(u, v) PROVE TalkInv'
  BY <1>3, <1>6 DEF talk!Block
<1>7. ASSUME NEW c \in Slots, NEW to \in {"published", "hidden"}, talk!Moderate(c, to) PROVE TalkInv'
  <2>1. c \in talk!Standing /\ talk_comment' = [talk_comment EXCEPT ![c].status = to]
        /\ talk_notes' = talk_notes
    BY <1>7 DEF talk!Moderate, talk!Standing
  <2>2. talk_comment[c] \in TalkRows
    BY <2>1 DEF TalkInv, talk!Standing
  <2> DEFINE row == [talk_comment[c] EXCEPT !.status = to]
  <2>3. row \in TalkRows /\ row.parent = talk_comment[c].parent
    BY <2>2 DEF TalkRows
  <2>4. row # None
    BY <2>3, TalkAssumption DEF TalkRows
  <2>5. talk_comment' = [talk_comment EXCEPT ![c] = row]
    BY <2>1 DEF TalkInv
  <2> HIDE DEF row
  <2>6. talk_comment' \in [Slots -> TalkRows \cup {None}]
    BY <2>3, <2>5 DEF TalkInv
  <2>7. \A d \in Slots : talk_comment'[d] = IF d = c THEN row ELSE talk_comment[d]
    BY <2>5 DEF TalkInv
  <2>8. talk!Standing \subseteq Slots /\ \A d \in talk!Standing : talk_comment[d] # None
    BY DEF talk!Standing
  <2>9. \A d \in talk!Standing : talk_comment'[d] # None /\ talk_comment'[d].parent = talk_comment[d].parent
    BY <2>3, <2>4, <2>7, <2>8
  <2>10. \A d \in Slots \ talk!Standing : talk_comment'[d] = None
    BY <2>1, <2>7 DEF talk!Standing
  <2> QED
    BY <2>1, <2>6, <2>9, <2>10, TalkInvStands
<1>8. ASSUME NEW to \in talk!Status, talk!ModeratePost(to) PROVE TalkInv'
  BY <1>3, <1>8 DEF talk!ModeratePost
<1>9. CASE UNCHANGED talkVars
  BY <1>3, <1>9 DEF talkVars
<1> QED
  BY <1>1, <1>2, <1>4, <1>5, <1>6, <1>7, <1>8, <1>9 DEF talk!Next

\* What a member may see at all is on the page of the post.
LEMMA SeenOnThePage ==
  ASSUME TalkInv, NEW u \in Talkers, NEW c \in talk!visible_comments(u)
  PROVE  talk!visible_posts(u) /\ c \in talk!post_detail(u)
<1>1. /\ c \in talk!Standing /\ c \in Slots /\ talk_post = "published"
      /\ Author \notin talk!blocked_member_ids(u)
  BY DEF talk!visible_comments, talk!Standing
<1>2. talk!visible_posts(u)
  BY <1>1 DEF talk!visible_posts
<1>3. CASE talk_comment[c].parent = None
  BY <1>2, <1>3 DEF talk!post_detail, talk!Answers
<1>4. CASE talk_comment[c].parent # None
  <2> DEFINE p == talk_comment[c].parent
  <2>1. p \in talk!Standing /\ talk_comment[p].parent = None
    BY <1>1, <1>4 DEF TalkInv
  <2>2. talk!Shown(p) /\ talk_comment[p].author \notin talk!blocked_member_ids(u)
    BY <1>4 DEF talk!visible_comments
  <2>3. p \in talk!visible_comments(u)
    BY <2>1, <2>2, <1>1 DEF talk!visible_comments
  <2>4. p \in talk!Answers(u)
    BY <2>1, <2>3, <1>2 DEF talk!Answers
  <2>5. c \in talk!Replies(u)
    BY <2>4 DEF talk!Replies
  <2> QED
    BY <2>5, <1>2 DEF talk!post_detail
<1> QED
  BY <1>2, <1>3, <1>4

LEMMA TalkCounts == \A S : talk!Cardinality(S) = Cardinality(S)
BY DEF talk!Cardinality, Cardinality

LEMMA TalkPagesAgree ==
  ASSUME TalkInv
  PROVE  talk!PagesAgree
<1> SUFFICES ASSUME NEW u \in Talkers
             PROVE  /\ \A n \in talk!visible_notifications(u) : n.comment \in talk!post_detail(u)
                    /\ talk!ApiComments(u) = talk!post_detail(u)
                    /\ \A kind \in {"posts", "bookmarks", "helpful"} :
                         talk!activity(u, kind) # {} => talk!visible_posts(u)
                    /\ talk!activity(u, "comments") \subseteq talk!post_detail(u)
                    /\ talk!member_home(u).answers <= talk!Cardinality(talk!post_detail(u))
  BY DEF talk!PagesAgree
<1>1. ASSUME NEW n \in talk!visible_notifications(u) PROVE n.comment \in talk!post_detail(u)
  <2>1. n.comment \in talk!Standing /\ n \in talk_notes
    BY DEF talk!visible_notifications, TalkInv
  <2>2. n.comment \in talk!visible_comments(u)
    BY <2>1 DEF talk!visible_notifications, talk!visible_comments, talk!invalid_reply
  <2> QED
    BY <2>2, SeenOnThePage
<1>2. talk!post_detail(u) \subseteq talk!visible_comments(u)
  BY DEF talk!post_detail, talk!Answers, talk!Replies
<1>3. talk!ApiComments(u) = talk!post_detail(u)
  <2>1. CASE talk!visible_posts(u)
    BY <2>1, <1>2, SeenOnThePage DEF talk!ApiComments
  <2>2. CASE ~talk!visible_posts(u)
    BY <2>2 DEF talk!ApiComments, talk!post_detail, talk!Answers, talk!Replies
  <2> QED
    BY <2>1, <2>2
<1>4. ASSUME NEW kind \in {"posts", "bookmarks", "helpful"}, talk!activity(u, kind) # {}
      PROVE  talk!visible_posts(u)
  BY <1>4 DEF talk!activity
<1>5. talk!activity(u, "comments") \subseteq talk!post_detail(u)
  <2>1. talk!activity(u, "comments") \subseteq talk!visible_comments(u)
    BY DEF talk!activity
  <2> QED
    BY <2>1, SeenOnThePage
<1>6. talk!member_home(u).answers <= talk!Cardinality(talk!post_detail(u))
  <2>1. IsFiniteSet(talk!post_detail(u))
    <3>1. talk!post_detail(u) \subseteq Slots
      BY <1>2 DEF talk!visible_comments, talk!Standing
    <3> QED
      BY <3>1, FS_Subset, TalkAssumption
  <2>2. Cardinality(talk!activity(u, "comments")) <= Cardinality(talk!post_detail(u))
    BY <2>1, <1>5, FS_Subset
  <2> QED
    BY <2>2, TalkCounts DEF talk!member_home
<1> QED
  BY <1>1, <1>3, <1>4, <1>5, <1>6

\* Whatever was written, hidden, shown again or blocked, the pages that list comments, replies and
\* notifications agree about what a member may see.  Assumed: TalkAssumption.
THEOREM PagesAlwaysAgree == LaneSpec => []PagesAgree
<1>1. talk!Init => TalkInv
  BY DEF talk!Init, TalkInv, talk!Standing
<1>2. TalkInv /\ [talk!Next]_talkVars => TalkInv'
  BY TalkNext
<1>3. TalkInv => PagesAgree
  BY TalkPagesAgree DEF PagesAgree
<1>4. LaneInit => talk!Init
  BY DEF LaneInit
<1> QED
  BY <1>1, <1>2, <1>3, <1>4, TalkLane, PTL DEF LaneSpec

-----------------------------------------------------------------------------
(* The open list of news (NewsFeed.tla). *)

LEMMA FeedLane == [LaneNext]_allVars => [feed!Next]_feedVars
<1> SUFFICES ASSUME [LaneNext]_allVars PROVE feed!Next \/ UNCHANGED feedVars
  OBVIOUS
<1>1. CASE LaneNext
  BY <1>1 DEF LaneNext, ModerationStep, BoardsStep, TalkStep, FeedStep, feed!Next
<1>2. CASE UNCHANGED allVars
  BY <1>2 DEF allVars
<1> QED
  BY <1>1, <1>2

LEMMA FeedCounts == \A S : feed!Cardinality(S) = Cardinality(S)
BY DEF feed!Cardinality, Cardinality

\* Every number from 0 on is the rank of one story: how many of S are above it.
LEMMA Ranks ==
  ASSUME NEW S \in SUBSET FeedStories
  PROVE  /\ IsFiniteSet(S) /\ Cardinality(S) \in Nat
         /\ \A s \in S : Cardinality({t \in S : t > s}) \in 0 .. Cardinality(S) - 1
         /\ \A i \in 0 .. Cardinality(S) - 1 : \E s \in S : Cardinality({t \in S : t > s}) = i
         /\ \A s, u \in S : Cardinality({t \in S : t > s}) = Cardinality({t \in S : t > u}) => s = u
<1> DEFINE n == Cardinality(S)
           Above(s) == {t \in S : t > s}
           f == [s \in S |-> Cardinality(Above(s))]
<1>1. IsFiniteSet(S) /\ n \in Nat /\ S \subseteq Nat
  BY FeedAssumption, FS_Subset, FS_CardinalityType
<1>2. ASSUME NEW s \in S
      PROVE  IsFiniteSet(Above(s)) /\ Cardinality(Above(s)) \in 0 .. n - 1
  <2>1. IsFiniteSet(S \ {s}) /\ Cardinality(S \ {s}) = n - 1
    BY <1>1, FS_RemoveElement
  <2>2. Above(s) \subseteq S \ {s}
    BY <1>1
  <2>3. IsFiniteSet(Above(s)) /\ Cardinality(Above(s)) <= n - 1
    BY <2>1, <2>2, FS_Subset
  <2>4. Cardinality(Above(s)) \in Nat
    BY <2>3, FS_CardinalityType
  <2> QED
    BY <1>1, <2>3, <2>4
<1>3. ASSUME NEW s \in S, NEW u \in S, s < u PROVE Cardinality(Above(s)) # Cardinality(Above(u))
  <2>1. Above(u) \subseteq Above(s) /\ u \in Above(s) /\ u \notin Above(u)
    <3>1. \A t \in S : t > u => t > s
      BY <1>1, <1>3
    <3>2. u > s /\ ~(u > u)
      BY <1>1, <1>3
    <3> QED
      BY <3>1, <3>2, Zenon
  <2>2. Above(u) # Above(s)
    BY <2>1
  <2> HIDE DEF Above
  <2> QED
    BY <1>2, <2>1, <2>2, FS_Subset
<1>4. \A s, u \in S : Cardinality(Above(s)) = Cardinality(Above(u)) => s = u
  <2> SUFFICES ASSUME NEW s \in S, NEW u \in S, s # u PROVE Cardinality(Above(s)) # Cardinality(Above(u))
    OBVIOUS
  <2>1. s < u \/ u < s
    BY <1>1
  <2> QED
    BY <1>3, <2>1
<1>5. f \in Injection(S, 0 .. n - 1)
  <2> HIDE DEF Above
  <2>1. f \in [S -> 0 .. n - 1] /\ \A s \in S : f[s] = Cardinality(Above(s))
    BY <1>2
  <2>2. \A s, u \in S : f[s] = f[u] => s = u
    BY <2>1, <1>4
  <2> HIDE DEF f
  <2> QED
    BY <2>1, <2>2 DEF Injection, IsInjective
<1>6. f \in Surjection(S, 0 .. n - 1)
  <2>1. IsFiniteSet(0 .. n - 1) /\ Cardinality(0 .. n - 1) = n
    <3> HIDE DEF n
    <3>1. 0 \in Int /\ n - 1 \in Int /\ (IF 0 > n - 1 THEN 0 ELSE (n - 1) - 0 + 1) = n
      BY <1>1
    <3> QED
      BY <3>1, FS_Interval
  <2> HIDE DEF f, n
  <2> QED
    BY <2>1, <1>5, FS_Injection DEF n
<1>7. \A i \in 0 .. n - 1 : \E s \in S : Cardinality(Above(s)) = i
  BY <1>6 DEF Surjection
<1> QED
  BY <1>1, <1>2, <1>4, <1>7

\* A sequence of stories, none of them twice.
NoStoryTwice(s) ==
  /\ s \in Seq(FeedStories)
  /\ \A i, j \in 1 .. Len(s) : s[i] = s[j] => i = j
On(s) == {s[i] : i \in 1 .. Len(s)}

\* Descending lists each story of a set once.
LEMMA DescendingWhole ==
  ASSUME NEW S \in SUBSET FeedStories
  PROVE  NoStoryTwice(feed!Descending(S)) /\ On(feed!Descending(S)) = S
<1> DEFINE n == Cardinality(S)
           Rank(s) == Cardinality({t \in S : t > s})
           d == [i \in 1 .. n |-> CHOOSE s \in S : Rank(s) = i - 1]
<1>1. /\ n \in Nat
      /\ \A s \in S : Rank(s) \in 0 .. n - 1
      /\ \A i \in 0 .. n - 1 : \E s \in S : Rank(s) = i
      /\ \A s, u \in S : Rank(s) = Rank(u) => s = u
  BY Ranks
<1>2. feed!Descending(S) = d
  BY DEF feed!Descending, feed!Cardinality, Cardinality
<1> HIDE DEF n, Rank
<1>3. ASSUME NEW i \in 1 .. n PROVE d[i] \in S /\ Rank(d[i]) = i - 1
  <2>1. i - 1 \in 0 .. n - 1
    BY <1>1
  <2>2. \E s \in S : Rank(s) = i - 1
    BY <1>1, <2>1
  <2> QED
    BY <2>2
<1>4. d = [i \in 1 .. n |-> d[i]]
  OBVIOUS
<1> HIDE DEF d
<1>5. d \in Seq(FeedStories) /\ Len(d) = n
  <2>1. d \in [1 .. n -> FeedStories]
    BY <1>3, <1>4
  <2> QED
    BY <2>1, <1>1
<1>6. \A i, j \in 1 .. n : d[i] = d[j] => i = j
  BY <1>1, <1>3
<1>7. S \subseteq On(d)
  <2> SUFFICES ASSUME NEW s \in S PROVE s \in On(d)
    OBVIOUS
  <2>1. Rank(s) + 1 \in 1 .. n
    BY <1>1
  <2>2. Rank(d[Rank(s) + 1]) = Rank(s) /\ d[Rank(s) + 1] \in S
    BY <1>1, <1>3, <2>1
  <2> QED
    BY <1>1, <1>5, <2>1, <2>2 DEF On
<1>8. On(d) \subseteq S
  BY <1>3, <1>5 DEF On
<1> QED
  BY <1>2, <1>5, <1>6, <1>7, <1>8 DEF NoStoryTwice

\* There is a newest story, and Newest finds it.
LEMMA NewestIs ==
  ASSUME NEW S \in SUBSET FeedStories, S # {}
  PROVE  feed!Newest(S) \in S /\ \A t \in S : t <= feed!Newest(S)
<1>1. IsFiniteSet(S) /\ Cardinality(S) \in Nat /\ S \subseteq Nat /\ Cardinality(S) # 0
  BY Ranks, FS_EmptySet, FeedAssumption
<1>2. 0 \in 0 .. Cardinality(S) - 1
  BY <1>1
<1>3. PICK s \in S : Cardinality({t \in S : t > s}) = 0
  BY <1>2, Ranks
<1>4. {t \in S : t > s} = {}
  <2>1. IsFiniteSet({t \in S : t > s})
    BY <1>1, FS_Subset
  <2> QED
    BY <2>1, <1>3, FS_EmptySet
<1>5. \A t \in S : t <= s
  BY <1>1, <1>4
<1> QED
  BY <1>5 DEF feed!Newest

\* One list after another, of other stories.
LEMMA JoinedWhole ==
  ASSUME NEW s, NEW t, NoStoryTwice(s), NoStoryTwice(t), On(s) \cap On(t) = {}
  PROVE  NoStoryTwice(s \o t) /\ On(s \o t) = On(s) \cup On(t)
<1> DEFINE r == s \o t
<1>1. /\ Len(s) \in Nat /\ Len(t) \in Nat
      /\ r \in Seq(FeedStories) /\ Len(r) = Len(s) + Len(t)
      /\ \A i \in 1 .. Len(s) + Len(t) : r[i] = IF i <= Len(s) THEN s[i] ELSE t[i - Len(s)]
  BY DEF NoStoryTwice
<1>2. ASSUME NEW i \in 1 .. Len(r)
      PROVE  \/ i \in 1 .. Len(s) /\ r[i] = s[i]
             \/ i - Len(s) \in 1 .. Len(t) /\ r[i] = t[i - Len(s)]
  BY <1>1
<1>3. /\ \A i \in 1 .. Len(s) : i \in 1 .. Len(r) /\ r[i] = s[i]
      /\ \A i \in 1 .. Len(t) : i + Len(s) \in 1 .. Len(r) /\ r[i + Len(s)] = t[i]
  <2>1. ASSUME NEW i \in 1 .. Len(s) PROVE i \in 1 .. Len(r) /\ r[i] = s[i]
    BY <1>1
  <2>2. ASSUME NEW i \in 1 .. Len(t) PROVE i + Len(s) \in 1 .. Len(r) /\ r[i + Len(s)] = t[i]
    <3>1. i + Len(s) \in 1 .. Len(r) /\ ~(i + Len(s) <= Len(s)) /\ (i + Len(s)) - Len(s) = i
      BY <1>1
    <3> QED
      BY <1>1, <3>1
  <2> QED
    BY <2>1, <2>2
<1> HIDE DEF r
<1>4. ASSUME NEW i \in 1 .. Len(r), NEW j \in 1 .. Len(r), r[i] = r[j] PROVE i = j
  <2>1. CASE i \in 1 .. Len(s) /\ r[i] = s[i] /\ j \in 1 .. Len(s) /\ r[j] = s[j]
    BY <2>1, <1>4 DEF NoStoryTwice
  <2>2. CASE i - Len(s) \in 1 .. Len(t) /\ r[i] = t[i - Len(s)]
             /\ j - Len(s) \in 1 .. Len(t) /\ r[j] = t[j - Len(s)]
    <3>1. i - Len(s) = j - Len(s)
      BY <2>2, <1>4 DEF NoStoryTwice
    <3> QED
      BY <3>1, <1>1
  <2>3. \A k \in 1 .. Len(s), l \in 1 .. Len(t) : s[k] # t[l]
    BY DEF On
  <2> QED
    BY <2>1, <2>2, <2>3, <1>2, <1>4
<1>5. On(r) = On(s) \cup On(t)
  <2>1. ASSUME NEW x \in On(r) PROVE x \in On(s) \cup On(t)
    <3>1. PICK i \in 1 .. Len(r) : x = r[i]
      BY DEF On
    <3> QED
      BY <1>2, <3>1 DEF On
  <2>2. On(s) \subseteq On(r) /\ On(t) \subseteq On(r)
    BY <1>3 DEF On
  <2> QED
    BY <2>1, <2>2
<1> QED
  BY <1>1, <1>4, <1>5 DEF NoStoryTwice, r

FeedInv ==
  /\ NoStoryTwice(feed_list)
  /\ feed_seen \subseteq On(feed_list) \cup feed_pending \cup feed_passedOver
  /\ feed_pending \subseteq FeedStories /\ feed_passedOver \subseteq FeedStories
  /\ feed_cursor \in Nat /\ \A s \in feed_passedOver : s <= feed_cursor
  /\ feed_loading \notin {None, Asked} => feed_loading.rows \subseteq FeedStories
  /\ feed_busy \notin {None, Asked} => feed_busy.rows \subseteq FeedStories

LEMMA ShownIsOn == feed!Shown = On(feed_list)
BY DEF feed!Shown, On

LEMMA PageRows ==
  ASSUME NEW page
  PROVE  feed!list_articles(page).rows \subseteq FeedStories
BY DEF feed!list_articles, feed!Visible

LEMMA FeedInit ==
  ASSUME feed!Init
  PROVE  FeedInv
<1>1. NoStoryTwice(feed_list)
  BY PageRows, DescendingWhole DEF feed!Init
<1>2. On(feed_list) \subseteq FeedStories
  BY <1>1 DEF NoStoryTwice, On
<1>3. feed_cursor \in Nat
  <2>1. CASE feed!Shown = {}
    BY <2>1, FeedAssumption DEF feed!Init
  <2>2. CASE feed!Shown # {}
    BY <1>2, <2>2, NewestIs, ShownIsOn, FeedAssumption DEF feed!Init
  <2> QED
    BY <2>1, <2>2
<1> QED
  BY <1>1, <1>3, ShownIsOn DEF feed!Init, FeedInv

LEMMA FeedNext ==
  ASSUME FeedInv, [feed!Next]_feedVars
  PROVE  FeedInv'
<1>1. ASSUME UNCHANGED <<feed_list, feed_seen, feed_pending, feed_passedOver, feed_cursor>>,
             UNCHANGED feed_loading \/ feed_loading' \in {None, Asked} \/ feed_loading'.rows \subseteq FeedStories,
             UNCHANGED feed_busy \/ feed_busy' \in {None, Asked} \/ feed_busy'.rows \subseteq FeedStories
      PROVE  FeedInv'
  BY <1>1 DEF FeedInv, NoStoryTwice, On
<1>2. ASSUME UNCHANGED <<feed_list, feed_more, feed_loading, feed!unread>> PROVE FeedInv'
  BY <1>1, <1>2 DEF feed!unread
<1>3. ASSUME NEW s \in FeedStories,
             feed!Collect(s) \/ feed!Translate(s) \/ feed!Age(s) \/ feed!Hide(s) \/ feed!Keep(s)
      PROVE  FeedInv'
  BY <1>2, <1>3 DEF feed!Collect, feed!Translate, feed!Age, feed!Hide, feed!Keep, feed!Unread
<1>4. ASSUME feed!SwitchRule \/ \E o \in (SUBSET FeedSources) \cup {None} : feed!SwitchSource(o)
      PROVE  FeedInv'
  BY <1>2, <1>4 DEF feed!SwitchRule, feed!SwitchSource, feed!Unread
<1>5. ASSUME feed!ClickMore \/ feed!LoadFails \/ feed!Poll \/ feed!PollFails PROVE FeedInv'
  BY <1>1, <1>5 DEF feed!ClickMore, feed!LoadFails, feed!Poll, feed!PollFails, feed!unread
<1>6. ASSUME feed!AnswerMore PROVE FeedInv'
  BY <1>1, <1>6, PageRows DEF feed!AnswerMore, feed!unread
<1>7. ASSUME feed!AnswerPoll PROVE FeedInv'
  BY <1>1, <1>7, PageRows DEF feed!AnswerPoll
<1>8. ASSUME feed!AppendPage PROVE FeedInv'
  <2> DEFINE X == feed_loading.rows \ On(feed_list)
  <2>1. /\ feed_list' = feed_list \o feed!Descending(X) /\ feed_loading' = None
        /\ UNCHANGED <<feed_seen, feed_pending, feed_passedOver, feed_cursor, feed_busy>>
    BY <1>8, ShownIsOn DEF feed!AppendPage, feed!unread
  <2>2. X \in SUBSET FeedStories
    BY <1>8 DEF feed!AppendPage, FeedInv
  <2>3. NoStoryTwice(feed!Descending(X)) /\ On(feed!Descending(X)) = X
    BY <2>2, DescendingWhole
  <2>4. NoStoryTwice(feed_list') /\ On(feed_list') = On(feed_list) \cup X
    BY <2>1, <2>3, JoinedWhole DEF FeedInv
  <2> QED
    BY <2>1, <2>4 DEF FeedInv, NoStoryTwice, On
<1>9. ASSUME feed!Take PROVE FeedInv'
  <2> DEFINE rows == feed_busy.rows
  <2>1. /\ UNCHANGED <<feed_list, feed_cursor, feed_loading>> /\ feed_busy' = None
        /\ feed_seen' = feed_seen \cup rows /\ rows \subseteq FeedStories
    BY <1>9 DEF feed!Take, FeedInv
  <2>2. CASE feed_baselineReady
    <3>1. feed_pending' = feed_pending \cup (rows \ feed_seen) /\ feed_passedOver' = feed_passedOver
      BY <1>9, <2>2 DEF feed!Take, feed!Fresh
    <3> QED
      BY <2>1, <3>1 DEF FeedInv, NoStoryTwice, On
  <2>3. CASE ~feed_baselineReady
    <3> DEFINE offer == {s \in rows \ feed_seen : s > feed_cursor}
    <3>1. /\ feed_pending' = feed_pending \cup offer
          /\ feed_passedOver' = feed_passedOver \cup (rows \ (feed_seen \cup offer))
      BY <1>9, <2>3 DEF feed!Take, feed!FirstOffer
    <3>2. \A s \in feed_passedOver' : s <= feed_cursor
      <4>1. \A s \in feed_passedOver : s <= feed_cursor
        BY DEF FeedInv
      <4>2. \A s \in rows \ (feed_seen \cup offer) : s \in Nat /\ ~(s > feed_cursor)
        BY <2>1, FeedAssumption
      <4>3. feed_cursor \in Nat
        BY DEF FeedInv
      <4>4. \A s \in rows \ (feed_seen \cup offer) : s <= feed_cursor
        BY <4>2, <4>3
      <4> HIDE DEF offer
      <4> QED
        BY <3>1, <4>1, <4>4
    <3> QED
      BY <2>1, <3>1, <3>2 DEF FeedInv, NoStoryTwice, On
  <2> QED
    BY <2>2, <2>3
<1>10. ASSUME feed!ShowPending PROVE FeedInv'
  <2> DEFINE X == feed_pending \ On(feed_list)
  <2>1. /\ feed_list' = feed!Descending(X) \o feed_list /\ feed_seen' = feed_seen \cup X
        /\ feed_cursor' = feed!Newest({feed_cursor} \cup X) /\ feed_pending' = {}
        /\ UNCHANGED <<feed_loading, feed_busy, feed_passedOver>>
    BY <1>10, ShownIsOn DEF feed!ShowPending
  <2>2. X \in SUBSET FeedStories
    BY DEF FeedInv
  <2>3. NoStoryTwice(feed!Descending(X)) /\ On(feed!Descending(X)) = X
    BY <2>2, DescendingWhole
  <2>4. NoStoryTwice(feed_list') /\ On(feed_list') = X \cup On(feed_list)
    BY <2>1, <2>3, JoinedWhole DEF FeedInv
  <2>5. feed_cursor' \in Nat /\ feed_cursor <= feed_cursor'
    <3>1. \E s \in {feed_cursor} \cup X : \A t \in {feed_cursor} \cup X : t <= s
      <4>1. CASE X = {}
        BY <4>1 DEF FeedInv
      <4>2. CASE X # {}
        <5> DEFINE m == feed!Newest(X)
        <5>1. m \in X /\ \A t \in X : t <= m
          BY <2>2, <4>2, NewestIs
        <5>2. feed_cursor \in Nat /\ m \in Nat /\ X \subseteq Nat
          BY <2>2, <5>1, FeedAssumption DEF FeedInv
        <5> HIDE DEF m, X
        <5>3. CASE feed_cursor <= m
          BY <5>1, <5>3
        <5>4. CASE m <= feed_cursor
          BY <5>1, <5>2, <5>4
        <5> QED
          BY <5>2, <5>3, <5>4
      <4> QED
        BY <4>1, <4>2
    <3>2. feed_cursor' \in {feed_cursor} \cup X /\ \A t \in {feed_cursor} \cup X : t <= feed_cursor'
      BY <2>1, <3>1 DEF feed!Newest
    <3> QED
      BY <2>2, <3>2, FeedAssumption DEF FeedInv
  <2>6. \A s \in feed_passedOver' : s <= feed_cursor'
    <3>1. feed_cursor \in Nat /\ \A s \in feed_passedOver : s \in Nat /\ s <= feed_cursor
      BY FeedAssumption DEF FeedInv
    <3>2. \A s \in feed_passedOver : s <= feed_cursor'
      <4> SUFFICES ASSUME NEW s \in feed_passedOver PROVE s <= feed_cursor'
        OBVIOUS
      <4>1. s \in Nat /\ s <= feed_cursor
        BY <3>1
      <4>2. feed_cursor' \in Nat /\ feed_cursor <= feed_cursor'
        BY <2>5
      <4> HIDE DEF X
      <4> QED
        BY <3>1, <4>1, <4>2
    <3> QED
      BY <2>1, <3>2
  <2> QED
    BY <2>1, <2>4, <2>5, <2>6 DEF FeedInv, NoStoryTwice, On
<1>11. CASE UNCHANGED feedVars
  BY <1>1, <1>11 DEF feedVars
<1> QED
  BY <1>3, <1>4, <1>5, <1>6, <1>7, <1>8, <1>9, <1>10, <1>11 DEF feed!Next

LEMMA FeedListWhole ==
  ASSUME FeedInv
  PROVE  feed!ListWhole
<1> DEFINE n == Len(feed_list)
<1>1. n \in Nat /\ feed_list \in [1 .. n -> On(feed_list)]
  BY DEF FeedInv, NoStoryTwice, On
<1>2. feed_list \in Bijection(1 .. n, On(feed_list))
  BY <1>1 DEF FeedInv, NoStoryTwice, On, Bijection, Injection, IsInjective, Surjection
<1>3. IsFiniteSet(1 .. n) /\ Cardinality(1 .. n) = n
  <2> HIDE DEF n
  <2>1. 1 \in Int /\ n \in Int /\ (IF 1 > n THEN 0 ELSE n - 1 + 1) = n
    BY <1>1
  <2> QED
    BY <2>1, FS_Interval
<1>4. Cardinality(On(feed_list)) = n
  BY <1>2, <1>3, FS_Bijection DEF ExistsBijection
<1> QED
  BY <1>4, ShownIsOn, FeedCounts DEF FeedInv, feed!ListWhole

\* The two scripts share the list without spoiling it, whatever the database does behind the
\* reader's back and in whatever order the answers come.  Assumed: FeedAssumption.
THEOREM TwoScriptsOneList == LaneSpec => []ListWhole
<1>1. feed!Init => FeedInv
  BY FeedInit
<1>2. FeedInv /\ [feed!Next]_feedVars => FeedInv'
  BY FeedNext
<1>3. FeedInv => ListWhole
  BY FeedListWhole DEF ListWhole
<1>4. LaneInit => feed!Init
  BY DEF LaneInit
<1> QED
  BY <1>1, <1>2, <1>3, <1>4, FeedLane, PTL DEF LaneSpec

-----------------------------------------------------------------------------
(* Posts and their edits (Boards.tla). *)

LEMMA BoardsLane == [LaneNext]_allVars => [boards!Next]_boardsVars
<1> SUFFICES ASSUME [LaneNext]_allVars PROVE boards!Next \/ UNCHANGED boardsVars
  OBVIOUS
<1>1. CASE LaneNext
  BY <1>1 DEF LaneNext, ModerationStep, BoardsStep, TalkStep, FeedStep, boards!Next
<1>2. CASE UNCHANGED allVars
  BY <1>2 DEF allVars
<1> QED
  BY <1>1, <1>2

LEMMA BoardsCounts == \A S : boards!Cardinality(S) = Cardinality(S)
BY DEF boards!Cardinality, Cardinality

Boards5 == {"notice", "free", "market", "jobs", "living"}
Fields3 == {"market", "jobs", "foodtravel"}

IsPost(p) ==
  p = [author |-> p.author, status |-> p.status, category |-> p.category, updated_at |-> p.updated_at,
       text |-> p.text, rows |-> p.rows, fields |-> p.fields, bcat |-> p.bcat, pinned |-> p.pinned,
       resolved |-> p.resolved, images |-> p.images, inline |-> p.inline, next_key |-> p.next_key]

\* Its text is in one place and nothing of another board is there.
PlacesOK(p) ==
  /\ p.category \in BoardCategories \cup {"living"}
  /\ boards!Display(p) # None
  /\ p.text # None <=> boards!Table(p.category) = None
  /\ \A b \in Boards5 : p.rows[b] # None => b = boards!Table(p.category)
  /\ \A b \in Fields3 : p.fields[b] # None => b = p.category
  /\ boards!validate_board_category(p.category, p.bcat)

FlagsOK(p) ==
  /\ p.pinned \in BOOLEAN /\ p.resolved \in BOOLEAN
  /\ p.resolved => p.category \in boards!RESOLUTION_CATEGORIES
  /\ p.pinned => p.category = "notice"
  /\ p.category = "notice" => p.author \in Staff

\* A key is given to one file only, and none above the counter is in use.
PicturesOK(p) ==
  /\ p.next_key \in Nat
  /\ IsFiniteSet(p.images) /\ Cardinality(p.images) <= MaxPostImages
  /\ \A i \in p.images : i.key \in Nat /\ i.key < p.next_key
  /\ \A r \in p.inline : r.key \in Nat /\ r.key < p.next_key
  /\ \A i, j \in p.images : i.key = j.key => i.file = j.file
  /\ \A r \in p.inline, i \in p.images : r.key = i.key => r.file = i.file

PostOK(p) ==
  IsPost(p) /\ p.updated_at \in Nat /\ PlacesOK(p) /\ FlagsOK(p) /\ PicturesOK(p)

\* What update_post writes, column by column.
LEMMA Updated ==
  ASSUME NEW p, NEW in, IsPost(p)
  PROVE  LET q == boards!update_post(p, in)
             category == IF in.category = Absent THEN p.category
                         ELSE boards!canonical_life_category(in.category)
             text == boards!Given(in.text, boards!Display(p))
         IN  /\ IsPost(q)
             /\ q.author = p.author /\ q.status = p.status /\ q.category = category
             /\ q.updated_at = p.updated_at + 1
             /\ q.text = IF boards!Table(category) = None THEN text ELSE None
             /\ q.rows = boards!_sync_board_content(p, category, text)
             /\ q.fields = boards!FieldsAfter(p, category, in.fields)
             /\ q.bcat = boards!Given(in.bcat, p.bcat) /\ q.pinned = boards!Given(in.pinned, p.pinned)
             /\ q.resolved = (p.resolved /\ category \in boards!RESOLUTION_CATEGORIES)
             /\ q.images = p.images /\ q.inline = p.inline /\ q.next_key = p.next_key
<1> DEFINE q == boards!update_post(p, in)
           category == IF in.category = Absent THEN p.category
                       ELSE boards!canonical_life_category(in.category)
           text == boards!Given(in.text, boards!Display(p))
           text2 == IF boards!Table(category) = None THEN text ELSE None
           rows == boards!_sync_board_content(p, category, text)
           fields == boards!FieldsAfter(p, category, in.fields)
           resolved == p.resolved /\ category \in boards!RESOLUTION_CATEGORIES
           bcat == boards!Given(in.bcat, p.bcat)
           pinned == boards!Given(in.pinned, p.pinned)
           e == [author |-> p.author, status |-> p.status, category |-> category,
                 updated_at |-> p.updated_at + 1, text |-> text2, rows |-> rows, fields |-> fields,
                 bcat |-> bcat, pinned |-> pinned, resolved |-> resolved, images |-> p.images,
                 inline |-> p.inline, next_key |-> p.next_key]
<1>1. q = [p EXCEPT !.category = category, !.updated_at = p.updated_at + 1, !.text = text2, !.rows = rows,
                    !.fields = fields, !.bcat = bcat, !.pinned = pinned, !.resolved = resolved]
  BY DEF boards!update_post
<1> HIDE DEF q, category, text, text2, rows, fields, resolved, bcat, pinned
<1>2. q = e
  BY <1>1 DEF IsPost
<1>3. IsPost(q)
  BY <1>2 DEF IsPost
<1>4. /\ q.author = p.author /\ q.status = p.status /\ q.category = category
      /\ q.updated_at = p.updated_at + 1 /\ q.text = text2 /\ q.rows = rows /\ q.fields = fields
      /\ q.bcat = bcat /\ q.pinned = pinned /\ q.resolved = resolved
      /\ q.images = p.images /\ q.inline = p.inline /\ q.next_key = p.next_key
  BY <1>2
<1> QED
  BY <1>3, <1>4 DEF q, category, text, text2, rows, fields, resolved, bcat, pinned

\* What the pictures of a request leave as it is.
LEMMA Pictured ==
  ASSUME NEW p, NEW in, IsPost(p)
  PROVE  LET q == boards!WithImages(p, in)
             images == {i \in p.images : i.key \notin in.remove} \cup boards!Uploaded(p, in.uploads)
         IN  /\ IsPost(q)
             /\ q.author = p.author /\ q.status = p.status /\ q.category = p.category
             /\ q.updated_at = p.updated_at /\ q.text = p.text /\ q.rows = p.rows /\ q.fields = p.fields
             /\ q.bcat = p.bcat /\ q.pinned = p.pinned /\ q.resolved = p.resolved
             /\ q.images = images /\ q.next_key = p.next_key + in.uploads
             /\ \A r \in q.inline : r \in p.inline \/ \E i \in images : r.key = i.key /\ r.file = i.file
<1> DEFINE q == boards!WithImages(p, in)
           s == boards!save_post_images(p, in)
           images == {i \in p.images : i.key \notin in.remove} \cup boards!Uploaded(p, in.uploads)
           next == p.next_key + in.uploads
           marks == boards!replace_inline_upload_markers(s, in)
           e == [author |-> p.author, status |-> p.status, category |-> p.category,
                 updated_at |-> p.updated_at, text |-> p.text, rows |-> p.rows, fields |-> p.fields,
                 bcat |-> p.bcat, pinned |-> p.pinned, resolved |-> p.resolved, images |-> images,
                 inline |-> p.inline, next_key |-> next]
<1>1. s = [p EXCEPT !.images = images, !.next_key = next]
  BY DEF boards!save_post_images
<1>2. q = [s EXCEPT !.inline = s.inline \cup marks]
  BY DEF boards!WithImages, boards!finalize_inline_images
<1>3. \A r \in marks : \E i \in s.images : r = [file |-> i.file, key |-> i.key]
  BY DEF boards!replace_inline_upload_markers
<1> HIDE DEF q, s, images, next, marks
<1>4. s = e
  BY <1>1 DEF IsPost
<1>5. s.images = images /\ s.inline = p.inline
  BY <1>4
<1>6. q = [e EXCEPT !.inline = p.inline \cup marks]
  BY <1>2, <1>4, <1>5
<1>7. q = [author |-> p.author, status |-> p.status, category |-> p.category,
           updated_at |-> p.updated_at, text |-> p.text, rows |-> p.rows, fields |-> p.fields,
           bcat |-> p.bcat, pinned |-> p.pinned, resolved |-> p.resolved, images |-> images,
           inline |-> p.inline \cup marks, next_key |-> next]
  BY <1>6
<1>8. IsPost(q)
  BY <1>7 DEF IsPost
<1>9. /\ q.author = p.author /\ q.status = p.status /\ q.category = p.category
      /\ q.updated_at = p.updated_at /\ q.text = p.text /\ q.rows = p.rows /\ q.fields = p.fields
      /\ q.bcat = p.bcat /\ q.pinned = p.pinned /\ q.resolved = p.resolved
      /\ q.images = images /\ q.next_key = next /\ q.inline = p.inline \cup marks
  BY <1>7
<1>10. \A r \in q.inline : r \in p.inline \/ \E i \in images : r.key = i.key /\ r.file = i.file
  BY <1>3, <1>5, <1>9
<1> QED
  BY <1>8, <1>9, <1>10 DEF q, images, next

LEMMA UploadsCounted ==
  ASSUME NEW p, p.next_key \in Nat, NEW n \in Nat
  PROVE  /\ IsFiniteSet(boards!Uploaded(p, n)) /\ Cardinality(boards!Uploaded(p, n)) <= n
         /\ \A i \in boards!Uploaded(p, n) : i.key \in Nat /\ p.next_key <= i.key /\ i.key < p.next_key + n
         /\ \A i, j \in boards!Uploaded(p, n) : i.key = j.key => i.file = j.file
<1> DEFINE Row(i) == [key |-> p.next_key + i, file |-> <<p.updated_at, i>>]
           f == [i \in 0 .. n - 1 |-> Row(i)]
           U == boards!Uploaded(p, n)
<1>1. U = {Row(i) : i \in 0 .. n - 1}
  BY DEF boards!Uploaded
<1>2. \A i : Row(i).key = p.next_key + i /\ Row(i).file = <<p.updated_at, i>>
  OBVIOUS
<1> HIDE DEF Row, U
<1>3. f \in Surjection(0 .. n - 1, U)
  BY <1>1 DEF Surjection
<1>4. IsFiniteSet(0 .. n - 1) /\ Cardinality(0 .. n - 1) = n
  <2>1. 0 \in Int /\ n - 1 \in Int /\ (IF 0 > n - 1 THEN 0 ELSE (n - 1) - 0 + 1) = n
    OBVIOUS
  <2> QED
    BY <2>1, FS_Interval
<1> HIDE DEF f
<1>5. IsFiniteSet(U) /\ Cardinality(U) <= n
  BY <1>3, <1>4, FS_Surjection
<1>6. \A x \in U : x.key \in Nat /\ p.next_key <= x.key /\ x.key < p.next_key + n
  BY <1>1, <1>2
<1>7. ASSUME NEW x \in U, NEW y \in U, x.key = y.key PROVE x.file = y.file
  <2>1. PICK i \in 0 .. n - 1 : x = Row(i)
    BY <1>1
  <2>2. PICK j \in 0 .. n - 1 : y = Row(j)
    BY <1>1
  <2>3. p.next_key + i = p.next_key + j
    BY <2>1, <2>2, <1>2, <1>7
  <2>4. i = j
    BY <2>3
  <2> QED
    BY <2>1, <2>2, <2>4
<1> QED
  BY <1>5, <1>6, <1>7 DEF U

\* Pictures removed and added within the limit.
LEMMA PicturedOK ==
  ASSUME NEW p, NEW in, PostOK(p), in.uploads \in Nat,
         Cardinality({i \in p.images : i.key \notin in.remove}) + in.uploads <= MaxPostImages
  PROVE  PostOK(boards!WithImages(p, in))
<1> DEFINE q == boards!WithImages(p, in)
           left == {i \in p.images : i.key \notin in.remove}
           new == boards!Uploaded(p, in.uploads)
<1>1. /\ IsPost(q)
      /\ q.author = p.author /\ q.status = p.status /\ q.category = p.category
      /\ q.updated_at = p.updated_at /\ q.text = p.text /\ q.rows = p.rows /\ q.fields = p.fields
      /\ q.bcat = p.bcat /\ q.pinned = p.pinned /\ q.resolved = p.resolved
      /\ q.images = left \cup new /\ q.next_key = p.next_key + in.uploads
      /\ \A r \in q.inline : r \in p.inline \/ \E i \in left \cup new : r.key = i.key /\ r.file = i.file
  BY Pictured DEF PostOK
<1>2. /\ IsFiniteSet(new) /\ Cardinality(new) <= in.uploads
      /\ \A i \in new : i.key \in Nat /\ p.next_key <= i.key /\ i.key < p.next_key + in.uploads
      /\ \A i, j \in new : i.key = j.key => i.file = j.file
  BY UploadsCounted DEF PostOK, PicturesOK
<1>3. left \subseteq p.images /\ IsFiniteSet(left) /\ Cardinality(left) + in.uploads <= MaxPostImages
  BY FS_Subset DEF PostOK, PicturesOK
<1> HIDE DEF q, left, new
<1>4. IsFiniteSet(left \cup new) /\ Cardinality(left \cup new) <= MaxPostImages
  <2>1. /\ IsFiniteSet(left \cup new)
        /\ Cardinality(left \cup new) = Cardinality(left) + Cardinality(new) - Cardinality(left \cap new)
    BY <1>2, <1>3, FS_Union
  <2>2. IsFiniteSet(left \cap new)
    BY <1>2, FS_Subset
  <2>3. /\ Cardinality(left \cap new) \in Nat /\ Cardinality(left) \in Nat /\ Cardinality(new) \in Nat
    BY <1>2, <1>3, <2>2, FS_CardinalityType
  <2> QED
    BY <1>2, <1>3, <2>1, <2>3, BoardsAssumption
<1>5. /\ p.next_key \in Nat /\ q.next_key \in Nat /\ p.next_key <= q.next_key
      /\ \A i \in left : i.key \in Nat /\ i.key < p.next_key
      /\ \A r \in p.inline : r.key \in Nat /\ r.key < p.next_key
      /\ \A i, j \in left : i.key = j.key => i.file = j.file
      /\ \A r \in p.inline, i \in left : r.key = i.key => r.file = i.file
  BY <1>1, <1>3 DEF PostOK, PicturesOK
<1>6. \A i \in q.images : i.key \in Nat /\ i.key < q.next_key
  BY <1>1, <1>2, <1>5
<1>7. \A r \in q.inline : r.key \in Nat /\ r.key < q.next_key
  <2> SUFFICES ASSUME NEW r \in q.inline PROVE r.key \in Nat /\ r.key < q.next_key
    OBVIOUS
  <2>1. CASE r \in p.inline
    BY <2>1, <1>5
  <2>2. CASE \E i \in left \cup new : r.key = i.key /\ r.file = i.file
    BY <2>2, <1>1, <1>6
  <2> QED
    BY <2>1, <2>2, <1>1
<1>8. \A i \in left, j \in new : i.key # j.key
  BY <1>2, <1>5
<1>9. \A i, j \in q.images : i.key = j.key => i.file = j.file
  BY <1>1, <1>2, <1>5, <1>8
<1>10. \A r \in q.inline, i \in q.images : r.key = i.key => r.file = i.file
  <2> SUFFICES ASSUME NEW r \in q.inline, NEW i \in q.images, r.key = i.key PROVE r.file = i.file
    OBVIOUS
  <2>1. CASE r \in p.inline
    <3>1. i \notin new
      BY <2>1, <1>2, <1>5
    <3> QED
      BY <2>1, <3>1, <1>1, <1>5
  <2>2. CASE \E j \in left \cup new : r.key = j.key /\ r.file = j.file
    BY <2>2, <1>1, <1>9
  <2> QED
    BY <2>1, <2>2, <1>1
<1>11. PicturesOK(q)
  BY <1>1, <1>4, <1>5, <1>6, <1>7, <1>9, <1>10 DEF PicturesOK
<1>12. PlacesOK(q)
  BY <1>1 DEF PostOK, PlacesOK, boards!Display
<1>13. FlagsOK(q)
  BY <1>1 DEF PostOK, FlagsOK
<1> QED
  BY <1>1, <1>11, <1>12, <1>13 DEF PostOK, q

LEMMA Canonical ==
  /\ \A c \in BoardCategories \cup {"living"} :
       boards!canonical_life_category(c) \in BoardCategories \cup {"living"}
  /\ \A c : boards!canonical_life_category(boards!canonical_life_category(c))
              = boards!canonical_life_category(c)
  /\ \A c : boards!canonical_life_category(c) = "notice" <=> c = "notice"
  /\ \A c : boards!Table(c) \in Boards5 \cup {None}
  /\ None \notin Boards5
BY BoardsAssumption
   DEF boards!canonical_life_category, boards!LIFE_BOARD_CATEGORIES, boards!Table,
       boards!BOARD_CONTENT_MODELS, Boards5

\* An update that is not refused leaves the post whole.
LEMMA UpdatedOK ==
  ASSUME NEW p, NEW in, NEW u \in Writers, PostOK(p), ~boards!UpdateRefused(u, p, in),
         in.category \in BoardCategories \cup {Absent}, in.text \in PostTexts \cup {Absent},
         in.pinned \in BOOLEAN \cup {Absent}
  PROVE  /\ PostOK(boards!update_post(p, in))
         /\ boards!update_post(p, in).updated_at = p.updated_at + 1
         /\ boards!update_post(p, in).images = p.images
<1> DEFINE q == boards!update_post(p, in)
           category == IF in.category = Absent THEN p.category
                       ELSE boards!canonical_life_category(in.category)
           text == boards!Given(in.text, boards!Display(p))
           given == boards!Given(in.category, p.category)
           bcat == boards!Given(in.bcat, p.bcat)
           pinned == boards!Given(in.pinned, p.pinned)
<1>1. /\ IsPost(q)
      /\ q.author = p.author /\ q.status = p.status /\ q.category = category
      /\ q.updated_at = p.updated_at + 1
      /\ q.text = IF boards!Table(category) = None THEN text ELSE None
      /\ q.rows = boards!_sync_board_content(p, category, text)
      /\ q.fields = boards!FieldsAfter(p, category, in.fields)
      /\ q.bcat = bcat /\ q.pinned = pinned
      /\ q.resolved = (p.resolved /\ category \in boards!RESOLUTION_CATEGORIES)
      /\ q.images = p.images /\ q.inline = p.inline /\ q.next_key = p.next_key
  BY Updated DEF PostOK
<1>2. /\ boards!require_owner(u, p)
      /\ ~(in.category = "notice" /\ u \notin Staff)
      /\ boards!validate_board_category(given, bcat)
      /\ pinned => given = "notice"
  BY DEF boards!UpdateRefused
<1>3. /\ category \in BoardCategories \cup {"living"} /\ text # None
      /\ boards!canonical_life_category(given) = boards!canonical_life_category(category)
      /\ category = "notice" => in.category = "notice" \/ p.category = "notice"
      /\ given = "notice" => category = "notice"
  BY Canonical, BoardsAssumption DEF boards!Given, PostOK, PlacesOK
<1>4. boards!validate_board_category(category, bcat)
  BY <1>2, <1>3 DEF boards!validate_board_category
<1>5. \A b \in Boards5 : q.rows[b] = IF b = boards!Table(category) THEN text
                                     ELSE IF b = boards!Table(p.category) THEN None ELSE p.rows[b]
  BY <1>1 DEF boards!_sync_board_content, boards!BOARD_CONTENT_MODELS, Boards5
<1>6. \A b \in Fields3 : b # category => q.fields[b] = IF b = p.category THEN None ELSE p.fields[b]
  BY <1>1 DEF boards!FieldsAfter, boards!BoardFields, Fields3
<1>7. pinned \in BOOLEAN
  BY DEF boards!Given, PostOK, FlagsOK
<1> HIDE DEF q, category, text, given, bcat, pinned
<1>8. PlacesOK(q)
  <2>1. boards!Display(q) # None /\ (q.text # None <=> boards!Table(q.category) = None)
    BY <1>1, <1>3, <1>5, Canonical DEF boards!Display
  <2>2. \A b \in Boards5 : q.rows[b] # None => b = boards!Table(q.category)
    BY <1>1, <1>5 DEF PostOK, PlacesOK
  <2>3. \A b \in Fields3 : q.fields[b] # None => b = q.category
    BY <1>1, <1>6 DEF PostOK, PlacesOK
  <2> QED
    BY <2>1, <2>2, <2>3, <1>1, <1>3, <1>4 DEF PlacesOK
<1>9. FlagsOK(q)
  <2>1. q.pinned \in BOOLEAN /\ (q.pinned => q.category = "notice")
    BY <1>1, <1>2, <1>3, <1>7
  <2>2. q.resolved \in BOOLEAN /\ (q.resolved => q.category \in boards!RESOLUTION_CATEGORIES)
    BY <1>1
  <2>3. q.category = "notice" => q.author \in Staff
    BY <1>1, <1>2, <1>3 DEF boards!require_owner, PostOK, FlagsOK
  <2> QED
    BY <2>1, <2>2, <2>3 DEF FlagsOK
<1>10. PicturesOK(q)
  BY <1>1 DEF PostOK, PicturesOK
<1> QED
  BY <1>1, <1>8, <1>9, <1>10 DEF PostOK, q

LEMMA CreatedOK ==
  ASSUME NEW in, NEW u \in Writers, ~boards!CreateRefused(u, in),
         in.category \in BoardCategories \cup {Absent}, in.text \in PostTexts \cup {Absent},
         in.pinned \in BOOLEAN \cup {Absent}
  PROVE  PostOK(boards!create_post(u, in)) /\ boards!create_post(u, in).images = {}
<1> DEFINE q == boards!create_post(u, in)
           given == boards!Given(in.category, "living")
           category == boards!canonical_life_category(given)
           text == IF boards!Table(category) = None THEN in.text ELSE None
           rows == [b \in boards!BOARD_CONTENT_MODELS |-> IF b = boards!Table(category) THEN in.text ELSE None]
           fields == [b \in boards!BoardFields |-> IF b = category THEN boards!Given(in.fields, None) ELSE None]
           bcat == boards!Given(in.bcat, None)
           pinned == boards!Given(in.pinned, FALSE)
<1>1. q = [author |-> u, status |-> "published", category |-> category, updated_at |-> 1, text |-> text,
           rows |-> rows, fields |-> fields, bcat |-> bcat, pinned |-> pinned, resolved |-> FALSE,
           images |-> {}, inline |-> {}, next_key |-> 1]
  BY DEF boards!create_post
<1>2. /\ in.text # Absent /\ boards!validate_board_category(given, bcat)
      /\ ~(in.category = "notice" /\ u \notin Staff)
      /\ ~(in.pinned = TRUE /\ in.category # "notice")
  BY DEF boards!CreateRefused
<1>3. /\ category \in BoardCategories \cup {"living"} /\ in.text # None
      /\ category = "notice" <=> in.category = "notice"
  BY <1>2, Canonical, BoardsAssumption DEF boards!Given
<1>4. boards!validate_board_category(category, bcat)
  BY <1>2, Canonical DEF boards!validate_board_category
<1>5. pinned \in BOOLEAN /\ (pinned => category = "notice")
  BY <1>2, <1>3 DEF boards!Given
<1>6. \A b \in Boards5 : rows[b] = IF b = boards!Table(category) THEN in.text ELSE None
  BY DEF boards!BOARD_CONTENT_MODELS, Boards5
<1>7. \A b \in Fields3 : b # category => fields[b] = None
  BY DEF boards!BoardFields, Fields3
<1> HIDE DEF q, given, category, rows, fields, bcat, pinned
<1>8. IsPost(q)
  BY <1>1 DEF IsPost
<1>9. /\ q.author = u /\ q.category = category /\ q.updated_at = 1 /\ q.text = text /\ q.rows = rows
      /\ q.fields = fields /\ q.bcat = bcat /\ q.pinned = pinned /\ q.resolved = FALSE
      /\ q.images = {} /\ q.inline = {} /\ q.next_key = 1
  BY <1>1
<1> HIDE DEF text
<1>10. PlacesOK(q)
  <2>1. boards!Display(q) # None /\ (q.text # None <=> boards!Table(q.category) = None)
    BY <1>3, <1>6, <1>9, Canonical DEF boards!Display, text
  <2> QED
    BY <2>1, <1>3, <1>4, <1>6, <1>7, <1>9 DEF PlacesOK
<1>11. FlagsOK(q)
  BY <1>2, <1>3, <1>5, <1>9 DEF FlagsOK
<1>12. PicturesOK(q)
  BY <1>9, FS_EmptySet, BoardsAssumption DEF PicturesOK
<1> QED
  BY <1>8, <1>9, <1>10, <1>11, <1>12 DEF PostOK, q

\* The pages and the API find a post by what it is.
LEMMA FoundOK ==
  ASSUME PostOK(boards_post)
  PROVE  boards!FoundAsShown
<1> DEFINE p == boards_post
<1> SUFFICES ASSUME NEW x \in PostTexts, NEW in,
                    in = [category |-> p.category, bcat |-> p.bcat, q |-> x,
                          resolution |-> IF p.category \in boards!RESOLUTION_CATEGORIES THEN p.resolved ELSE None]
             PROVE  /\ boards!post_list(in) = (boards!Published /\ boards!Display(p) = x)
                    /\ boards!get_queryset(in) = (boards!Published /\ boards!Display(p) = x)
  BY DEF boards!FoundAsShown
<1>1. /\ in.category = p.category /\ in.bcat = p.bcat /\ in.q = x
      /\ in.resolution = IF p.category \in boards!RESOLUTION_CATEGORIES THEN p.resolved ELSE None
  OBVIOUS
<1>2. boards!HasCategory(in)
  BY <1>1 DEF boards!HasCategory, boards!category_filter_values
<1>3. boards!Matches(in) <=> boards!Display(p) = x
  <2>1. p.category \in DOMAIN boards!SearchRelation => boards!SearchRelation[p.category] = boards!Table(p.category)
    BY DEF boards!SearchRelation, boards!Table, boards!canonical_life_category, boards!LIFE_BOARD_CATEGORIES,
           boards!BOARD_CONTENT_MODELS
  <2>2. p.category \in DOMAIN boards!SearchRelation <=> boards!Table(p.category) # None
    BY BoardsAssumption DEF boards!SearchRelation, boards!Table, boards!canonical_life_category,
       boards!LIFE_BOARD_CATEGORIES, boards!BOARD_CONTENT_MODELS
  <2>3. boards!SearchText(p) = boards!Display(p)
    BY <2>1, <2>2 DEF boards!SearchText, boards!Display
  <2>4. x # None
    BY BoardsAssumption
  <2> QED
    BY <2>3, <2>4, <1>1 DEF boards!Matches
<1>4. p.category # None /\ (p.bcat # None => p.bcat = boards!canonical_life_category(p.category))
  BY BoardsAssumption DEF PostOK, PlacesOK, boards!validate_board_category
<1>5. in.resolution # None => p.category \in boards!RESOLUTION_CATEGORIES /\ p.resolved = in.resolution
  BY <1>1
<1>6. boards!post_list(in) <=> (boards!Published /\ boards!Display(p) = x)
  BY <1>1, <1>2, <1>3, <1>4, <1>5 DEF boards!post_list
<1>7. boards!get_queryset(in) <=> (boards!Published /\ boards!Display(p) = x)
  BY <1>1, <1>2, <1>3, <1>4, <1>5 DEF boards!get_queryset
<1> QED
  BY <1>6, <1>7 DEF boards!post_list, boards!get_queryset

LEMMA WholeOK ==
  ASSUME PostOK(boards_post)
  PROVE  boards!PostWhole
BY BoardsCounts DEF PostOK, PlacesOK, FlagsOK, PicturesOK, boards!PostWhole, boards!BOARD_CONTENT_MODELS,
   boards!BoardFields, Boards5, Fields3

\* A tab, and the version it carries: the one of the post it shows.
IsTab(d) == d = [user |-> d.user, kind |-> d.kind, seen |-> d.seen, sent |-> d.sent, version |-> d.version]

\* A key that is left out, an empty row and a closed tab are none of the things they stand beside.
NoneIsNothing ==
  /\ \A p : IsPost(p) => p # None
  /\ \A d : IsTab(d) => d # None
  /\ \A c, n, f : <<c, n, f>> # Absent

TabOK(d, p) ==
  /\ IsTab(d) /\ d.user \in Writers /\ d.version = boards!board_data_version(d.seen)
  /\ d.seen.updated_at \in Nat /\ d.seen.updated_at <= p.updated_at
  /\ d.seen.updated_at = p.updated_at => d.seen = p

\* Nothing is written yet, or there is a post.
BoardsInv ==
  /\ boards_tab = [t \in BoardTabs |-> boards_tab[t]]
  /\ boards_post # None => PostOK(boards_post)
  /\ \A t \in BoardTabs : boards_tab[t] # None => boards_post # None /\ TabOK(boards_tab[t], boards_post)

LEMMA BoardsRigid ==
  /\ PostOK(boards_post)' <=> PostOK(boards_post')
  /\ \A t : TabOK(boards_tab[t], boards_post)' <=> TabOK(boards_tab'[t], boards_post')
<1>1. PostOK(boards_post)' <=> PostOK(boards_post')
  BY DEF PostOK, IsPost, PlacesOK, FlagsOK, PicturesOK, boards!Display, boards!Table,
     boards!validate_board_category, boards!canonical_life_category, boards!LIFE_BOARD_CATEGORIES,
     boards!BOARD_CONTENT_MODELS, boards!RESOLUTION_CATEGORIES, Boards5, Fields3
<1>2. \A t : TabOK(boards_tab[t], boards_post)' <=> TabOK(boards_tab'[t], boards_post')
  BY DEF TabOK, IsTab, boards!board_data_version
<1> QED
  BY <1>1, <1>2

LEMMA BoardsKept ==
  ASSUME boards_tab' = [t \in BoardTabs |-> boards_tab'[t]],
         boards_post' # None => PostOK(boards_post'),
         \A t \in BoardTabs : boards_tab'[t] # None =>
           boards_post' # None /\ TabOK(boards_tab'[t], boards_post')
  PROVE  BoardsInv'
BY BoardsRigid DEF BoardsInv

\* A later version replaces the post; tabs keep what they show, or go.
LEMMA LaterVersion ==
  ASSUME NoneIsNothing, BoardsInv, boards_post # None, PostOK(boards_post'),
         boards_post'.updated_at = boards_post.updated_at + 1,
         boards_tab' = [t \in BoardTabs |-> boards_tab'[t]],
         \A t \in BoardTabs : boards_tab'[t] \in {None, boards_tab[t]}
  PROVE  BoardsInv'
<1>1. boards_post.updated_at \in Nat /\ boards_post' # None
  BY DEF BoardsInv, PostOK, NoneIsNothing
<1>2. ASSUME NEW t \in BoardTabs, boards_tab'[t] # None PROVE TabOK(boards_tab'[t], boards_post')
  <2>1. boards_tab'[t] = boards_tab[t] /\ TabOK(boards_tab[t], boards_post)
    BY <1>2 DEF BoardsInv
  <2>2. TabOK(boards_tab[t], boards_post')
    BY <1>1, <2>1 DEF TabOK
  <2> QED
    BY <2>1, <2>2
<1> QED
  BY <1>1, <1>2, BoardsKept

\* The post stays; one tab shows it, or what it showed before.
LEMMA SamePost ==
  ASSUME BoardsInv, boards_post # None, boards_post' = boards_post, NEW t \in BoardTabs, NEW d,
         boards_tab' = [boards_tab EXCEPT ![t] = d], IsTab(d), d.user \in Writers,
         d.version = boards!board_data_version(d.seen),
         d.seen = boards_post \/ (boards_tab[t] # None /\ d.seen = boards_tab[t].seen)
  PROVE  BoardsInv'
<1>1. PostOK(boards_post) /\ \A s \in BoardTabs : boards_tab[s] # None => TabOK(boards_tab[s], boards_post)
  BY DEF BoardsInv
<1>2. boards_post.updated_at \in Nat
  BY <1>1 DEF PostOK
<1>3. TabOK(d, boards_post)
  BY <1>1, <1>2 DEF TabOK
<1>4. boards_tab' = [s \in BoardTabs |-> boards_tab'[s]]
      /\ \A s \in BoardTabs : boards_tab'[s] = IF s = t THEN d ELSE boards_tab[s]
  BY DEF BoardsInv
<1> QED
  BY <1>1, <1>3, <1>4, BoardsKept

\* A tab whose request is sent, or has come back refused.
LEMMA TabSent ==
  ASSUME NEW e, IsTab(e), NEW sent, NEW version
  PROVE  /\ [e EXCEPT !.sent = sent] =
              [user |-> e.user, kind |-> e.kind, seen |-> e.seen, sent |-> sent, version |-> e.version]
         /\ [[e EXCEPT !.version = version] EXCEPT !.sent = sent] =
              [user |-> e.user, kind |-> e.kind, seen |-> e.seen, sent |-> sent, version |-> version]
<1>1. PICK u, k, p, s, v : e = [user |-> u, kind |-> k, seen |-> p, sent |-> s, version |-> v]
  BY Zenon DEF IsTab
<1>2. e.user = u /\ e.kind = k /\ e.seen = p /\ e.version = v
  BY <1>1
<1>3. [e EXCEPT !.sent = sent] = [user |-> u, kind |-> k, seen |-> p, sent |-> sent, version |-> v]
  BY <1>1
<1>4. [e EXCEPT !.version = version] = [user |-> u, kind |-> k, seen |-> p, sent |-> s, version |-> version]
  BY <1>1
<1>5. [[e EXCEPT !.version = version] EXCEPT !.sent = sent]
        = [user |-> u, kind |-> k, seen |-> p, sent |-> sent, version |-> version]
  <2> DEFINE f == [e EXCEPT !.version = version]
  <2>1. f = [user |-> u, kind |-> k, seen |-> p, sent |-> s, version |-> version]
    BY <1>4
  <2> HIDE DEF f
  <2>2. [f EXCEPT !.sent = sent] = [user |-> u, kind |-> k, seen |-> p, sent |-> sent, version |-> version]
    BY <2>1
  <2> QED
    BY <2>2 DEF f
<1> QED
  BY <1>2, <1>3, <1>5

\* What the requests of a tab may hold.
LEMMA FormHolds ==
  ASSUME NEW t \in BoardTabs, NEW in \in boards!FormInputs(t)
  PROVE  /\ in.category \in BoardCategories \cup {Absent} /\ in.text \in PostTexts \cup {Absent}
         /\ in.pinned \in BOOLEAN \cup {Absent} /\ in.uploads \in Nat
         /\ in.version = boards_tab[t].version
BY DEF boards!FormInputs

LEMMA ApiHolds ==
  ASSUME NEW u, NEW versions, NEW in \in boards!ApiInputs(u, versions)
  PROVE  /\ in.category \in BoardCategories \cup {Absent} /\ in.text \in PostTexts \cup {Absent}
         /\ in.pinned \in BOOLEAN \cup {Absent} /\ in.uploads = 0 /\ in.remove = {} /\ in.markers = {}
         /\ in.version \in versions \cup {Absent}
BY DEF boards!ApiInputs

\* An update that is not refused, with or without pictures.
LEMMA UpdateStep ==
  ASSUME NoneIsNothing, BoardsInv, boards_post # None, NEW u \in Writers, NEW in,
         ~boards!UpdateRefused(u, boards_post, in),
         in.category \in BoardCategories \cup {Absent}, in.text \in PostTexts \cup {Absent},
         in.pinned \in BOOLEAN \cup {Absent},
         \/ boards_post' = boards!update_post(boards_post, in)
         \/ /\ boards_post' = boards!WithImages(boards!update_post(boards_post, in), in)
            /\ in.uploads \in Nat /\ ~boards!SaveRefused(boards_post, in),
         UNCHANGED boards_tab \/ \E t \in BoardTabs : boards_tab' = [boards_tab EXCEPT ![t] = None]
  PROVE  BoardsInv'
<1> DEFINE p == boards_post
           q == boards!update_post(p, in)
<1>1. PostOK(p)
  BY DEF BoardsInv
<1>2. PostOK(q) /\ q.updated_at = p.updated_at + 1 /\ q.images = p.images
  BY <1>1, UpdatedOK
<1> HIDE DEF q
<1>3. PostOK(boards_post') /\ boards_post'.updated_at = p.updated_at + 1
  <2>1. CASE boards_post' = q
    BY <2>1, <1>2
  <2>2. CASE boards_post' = boards!WithImages(q, in) /\ in.uploads \in Nat /\ ~boards!SaveRefused(p, in)
    <3> DEFINE left == {i \in p.images : i.key \notin in.remove}
    <3>1. ~(Cardinality(left) + in.uploads > MaxPostImages)
      BY <2>2, BoardsCounts DEF boards!SaveRefused
    <3>2. IsFiniteSet(left)
      BY <1>1, FS_Subset DEF PostOK, PicturesOK
    <3>3. Cardinality(left) \in Nat
      BY <3>2, FS_CardinalityType
    <3> HIDE DEF left
    <3>4. Cardinality(left) + in.uploads <= MaxPostImages
      BY <3>1, <3>3, <2>2, BoardsAssumption
    <3>5. left = {i \in q.images : i.key \notin in.remove}
      BY <1>2 DEF left
    <3>6. PostOK(boards_post')
      BY <1>2, <2>2, <3>4, <3>5, PicturedOK
    <3>7. boards_post'.updated_at = q.updated_at
      BY <1>2, <2>2, Pictured DEF PostOK
    <3> QED
      BY <3>6, <3>7, <1>2
  <2> QED
    BY <2>1, <2>2 DEF q
<1>4. /\ boards_tab' = [t \in BoardTabs |-> boards_tab'[t]]
      /\ \A t \in BoardTabs : boards_tab'[t] \in {None, boards_tab[t]}
  <2>1. boards_tab = [t \in BoardTabs |-> boards_tab[t]]
    BY DEF BoardsInv
  <2> QED
    BY <2>1
<1> QED
  BY <1>3, <1>4, LaterVersion

LEMMA CreateStep ==
  ASSUME NoneIsNothing, BoardsInv, boards_post = None, NEW u \in Writers, NEW in,
         boards!Created(u, in), UNCHANGED boards_tab,
         in.category \in BoardCategories \cup {Absent}, in.text \in PostTexts \cup {Absent},
         in.pinned \in BOOLEAN \cup {Absent}, in.uploads \in Nat, in.uploads <= MaxPostImages
  PROVE  BoardsInv'
<1> DEFINE c == boards!create_post(u, in)
<1>1. PostOK(c) /\ c.images = {} /\ boards_post' = boards!WithImages(c, in)
  BY CreatedOK DEF boards!Created
<1> HIDE DEF c
<1>2. {i \in c.images : i.key \notin in.remove} = {}
  BY <1>1
<1>3. Cardinality({i \in c.images : i.key \notin in.remove}) = 0
  BY <1>2, FS_EmptySet
<1>4. Cardinality({i \in c.images : i.key \notin in.remove}) + in.uploads <= MaxPostImages
  BY <1>3
<1>5. PostOK(boards_post')
  BY <1>1, <1>4, PicturedOK
<1>6. boards_tab' = [t \in BoardTabs |-> boards_tab'[t]] /\ \A t \in BoardTabs : boards_tab'[t] = None
  BY DEF BoardsInv
<1> QED
  BY <1>5, <1>6, BoardsKept

\* An operator or the owner changes a status or a resolution.
LEMMA ColumnStep ==
  ASSUME NoneIsNothing, BoardsInv, boards_post # None, UNCHANGED boards_tab, NEW to, NEW resolved \in BOOLEAN,
         \/ boards_post' = [boards_post EXCEPT !.status = to, !.updated_at = @ + 1]
         \/ boards_post.category \in boards!RESOLUTION_CATEGORIES
            /\ boards_post' = [boards_post EXCEPT !.resolved = resolved, !.updated_at = @ + 1]
  PROVE  BoardsInv'
<1> DEFINE p == boards_post
           q == boards_post'
<1>1. PostOK(p)
  BY DEF BoardsInv
<1>2. /\ IsPost(q) /\ q.author = p.author /\ q.category = p.category
      /\ q.updated_at = p.updated_at + 1 /\ q.text = p.text /\ q.rows = p.rows /\ q.fields = p.fields
      /\ q.bcat = p.bcat /\ q.pinned = p.pinned
      /\ q.images = p.images /\ q.inline = p.inline /\ q.next_key = p.next_key
      /\ \/ q.resolved = p.resolved
         \/ q.resolved \in BOOLEAN /\ p.category \in boards!RESOLUTION_CATEGORIES
  <2>1. IsPost(p)
    BY <1>1 DEF PostOK
  <2> QED
    BY <2>1 DEF IsPost
<1> HIDE DEF p, q
<1>3. PlacesOK(q) /\ FlagsOK(q) /\ PicturesOK(q)
  BY <1>1, <1>2 DEF PostOK, PlacesOK, FlagsOK, PicturesOK, boards!Display
<1>4. PostOK(q)
  BY <1>1, <1>2, <1>3 DEF PostOK
<1>5. /\ boards_tab' = [t \in BoardTabs |-> boards_tab'[t]]
      /\ \A t \in BoardTabs : boards_tab'[t] \in {None, boards_tab[t]}
  BY DEF BoardsInv
<1> QED
  BY <1>2, <1>4, <1>5, LaterVersion DEF p, q

LEMMA BoardsNext ==
  ASSUME NoneIsNothing, BoardsInv, [boards!Next]_boardsVars
  PROVE  BoardsInv'
<1>1. ASSUME NEW u \in Writers, boards!PostCreate(u) PROVE BoardsInv'
  <2>1. PICK in : /\ boards!Created(u, in) /\ in.category \in BoardCategories /\ in.text \in PostTexts
                  /\ in.pinned \in BOOLEAN \cup {Absent} /\ in.uploads \in Nat /\ in.uploads <= MaxPostImages
    BY <1>1 DEF boards!PostCreate
  <2> QED
    BY <1>1, <2>1, CreateStep DEF boards!PostCreate
<1>2. ASSUME NEW u \in Writers, boards!ApiCreate(u) PROVE BoardsInv'
  <2>1. PICK in \in boards!ApiInputs(u, {}) : boards!Created(u, in)
    BY <1>2 DEF boards!ApiCreate
  <2>2. in.uploads \in Nat /\ in.uploads <= MaxPostImages
    BY ApiHolds, BoardsAssumption
  <2> QED
    BY <1>2, <2>1, <2>2, ApiHolds, CreateStep DEF boards!ApiCreate
<1>3. ASSUME NEW u \in Writers, boards!BlindUpdate(u) PROVE BoardsInv'
  <2>1. PICK in \in boards!ApiInputs(u, {}) :
          ~boards!UpdateRefused(u, boards_post, in) /\ boards_post' = boards!update_post(boards_post, in)
    BY <1>3 DEF boards!BlindUpdate
  <2> QED
    BY <1>3, <2>1, ApiHolds, UpdateStep DEF boards!BlindUpdate, boards!Published
<1>4. ASSUME NEW u \in Writers, boards!set_resolution(u) PROVE BoardsInv'
  <2>1. /\ boards_post # None /\ boards_post.category \in boards!RESOLUTION_CATEGORIES
        /\ boards_post' = [boards_post EXCEPT !.resolved = ~boards_post.resolved, !.updated_at = @ + 1]
        /\ UNCHANGED boards_tab
    BY <1>4 DEF boards!set_resolution, boards!Published
  <2>2. (~boards_post.resolved) \in BOOLEAN
    OBVIOUS
  <2> QED
    BY <2>1, <2>2, ColumnStep
<1>5. ASSUME NEW t \in BoardTabs, NEW u \in Writers, NEW kind \in {"form", "api"}, boards!Open(t, u, kind)
      PROVE  BoardsInv'
  <2> DEFINE d == [user |-> u, kind |-> kind, seen |-> boards_post, sent |-> FALSE,
                   version |-> boards!board_data_version(boards_post)]
  <2>1. boards_post # None /\ boards_tab' = [boards_tab EXCEPT ![t] = d] /\ boards_post' = boards_post
    BY <1>5 DEF boards!Open, boards!Published
  <2>2. IsTab(d) /\ d.user = u /\ d.seen = boards_post /\ d.version = boards!board_data_version(d.seen)
    BY DEF IsTab
  <2> HIDE DEF d
  <2> QED
    BY <2>1, <2>2, SamePost
<1>6. ASSUME NEW t \in BoardTabs, boards!Send(t) PROVE BoardsInv'
  <2> DEFINE e == boards_tab[t]
             d == [user |-> e.user, kind |-> e.kind, seen |-> e.seen, sent |-> TRUE, version |-> e.version]
  <2>1. boards_post # None /\ e # None /\ boards_post' = boards_post
    BY <1>6 DEF boards!Send, boards!Published
  <2>2. TabOK(e, boards_post)
    BY <2>1 DEF BoardsInv
  <2>3. boards_tab' = [boards_tab EXCEPT ![t] = d]
    <3>1. boards_tab' = [boards_tab EXCEPT ![t].sent = TRUE] /\ boards_tab = [s \in BoardTabs |-> boards_tab[s]]
      BY <1>6 DEF boards!Send, BoardsInv
    <3>2. [e EXCEPT !.sent = TRUE] = d
      BY <2>2, TabSent DEF TabOK
    <3>3. boards_tab' = [boards_tab EXCEPT ![t] = [e EXCEPT !.sent = TRUE]]
      BY <3>1
    <3> QED
      BY <3>2, <3>3
  <2>4. IsTab(d) /\ d.user = e.user /\ d.seen = e.seen /\ d.version = e.version
    BY DEF IsTab
  <2> HIDE DEF d
  <2>5. d.user \in Writers /\ d.version = boards!board_data_version(d.seen)
    BY <2>2, <2>4 DEF TabOK
  <2> QED
    BY <2>1, <2>3, <2>4, <2>5, SamePost
<1>7. ASSUME NEW t \in BoardTabs, boards!PostEdit(t) PROVE BoardsInv'
  <2> DEFINE e == boards_tab[t]
  <2>1. boards_post # None /\ e # None /\ TabOK(e, boards_post)
    BY <1>7 DEF boards!PostEdit, BoardsInv
  <2>2. PICK in \in boards!FormInputs(t) :
          IF boards!FormRefused(boards_post, in) \/ boards!UpdateRefused(e.user, boards_post, in)
             \/ boards!SaveRefused(boards_post, in)
          THEN /\ boards_tab' = [boards_tab EXCEPT ![t].version = boards!RenderedVersion(t), ![t].sent = FALSE]
               /\ boards_post' = boards_post
          ELSE /\ boards_post' = boards!WithImages(boards!update_post(boards_post, in), in)
               /\ boards_tab' = [boards_tab EXCEPT ![t] = None]
    BY <1>7 DEF boards!PostEdit
  <2>3. CASE boards!FormRefused(boards_post, in) \/ boards!UpdateRefused(e.user, boards_post, in)
             \/ boards!SaveRefused(boards_post, in)
    <3> DEFINE d == [user |-> e.user, kind |-> e.kind, seen |-> e.seen, sent |-> FALSE, version |-> e.version]
    <3>1. boards!RenderedVersion(t) = e.version
      BY DEF boards!RenderedVersion
    <3>2. boards_tab' = [boards_tab EXCEPT ![t] = d]
      <4>1. boards_tab' = [boards_tab EXCEPT ![t].version = e.version, ![t].sent = FALSE]
            /\ boards_tab = [s \in BoardTabs |-> boards_tab[s]]
        BY <2>2, <2>3, <3>1 DEF BoardsInv
      <4>2. [[e EXCEPT !.version = e.version] EXCEPT !.sent = FALSE] = d
        BY <2>1, TabSent DEF TabOK
      <4> HIDE DEF e
      <4>3. boards_tab' = [boards_tab EXCEPT ![t] = [[e EXCEPT !.version = e.version] EXCEPT !.sent = FALSE]]
        BY <4>1 DEF e
      <4> QED
        BY <4>2, <4>3
    <3>3. IsTab(d) /\ d.user = e.user /\ d.seen = e.seen /\ d.version = e.version
      BY DEF IsTab
    <3> HIDE DEF d
    <3>4. d.user \in Writers /\ d.version = boards!board_data_version(d.seen)
      BY <2>1, <3>3 DEF TabOK
    <3> QED
      BY <2>1, <2>2, <2>3, <3>2, <3>3, <3>4, SamePost
  <2>4. CASE ~(boards!FormRefused(boards_post, in) \/ boards!UpdateRefused(e.user, boards_post, in)
               \/ boards!SaveRefused(boards_post, in))
    <3>1. e.user \in Writers
      BY <2>1 DEF TabOK
    <3> QED
      BY <2>1, <2>2, <2>4, <3>1, FormHolds, UpdateStep
  <2> QED
    BY <2>3, <2>4
<1>8. ASSUME NEW t \in BoardTabs, boards!PartialUpdate(t) PROVE BoardsInv'
  <2> DEFINE e == boards_tab[t]
  <2>1. boards_post # None /\ e # None /\ TabOK(e, boards_post)
    BY <1>8 DEF boards!PartialUpdate, BoardsInv
  <2>2. PICK in \in boards!ApiInputs(e.user, {e.version}) :
          IF boards!UpdateRefused(e.user, boards_post, in)
          THEN boards_tab' = [boards_tab EXCEPT ![t].sent = FALSE] /\ boards_post' = boards_post
          ELSE /\ boards_post' = boards!update_post(boards_post, in)
               /\ boards_tab' = [boards_tab EXCEPT ![t] = None]
    BY <1>8 DEF boards!PartialUpdate
  <2>3. CASE boards!UpdateRefused(e.user, boards_post, in)
    <3> DEFINE d == [user |-> e.user, kind |-> e.kind, seen |-> e.seen, sent |-> FALSE, version |-> e.version]
    <3>1. boards_tab' = [boards_tab EXCEPT ![t] = d]
      <4>1. boards_tab' = [boards_tab EXCEPT ![t].sent = FALSE] /\ boards_tab = [s \in BoardTabs |-> boards_tab[s]]
        BY <2>2, <2>3 DEF BoardsInv
      <4>2. [e EXCEPT !.sent = FALSE] = d
        BY <2>1, TabSent DEF TabOK
      <4>3. boards_tab' = [boards_tab EXCEPT ![t] = [e EXCEPT !.sent = FALSE]]
        BY <4>1
      <4> QED
        BY <4>2, <4>3
    <3>2. IsTab(d) /\ d.user = e.user /\ d.seen = e.seen /\ d.version = e.version
      BY DEF IsTab
    <3> HIDE DEF d
    <3>3. d.user \in Writers /\ d.version = boards!board_data_version(d.seen)
      BY <2>1, <3>2 DEF TabOK
    <3> QED
      BY <2>1, <2>2, <2>3, <3>1, <3>2, <3>3, SamePost
  <2>4. CASE ~boards!UpdateRefused(e.user, boards_post, in)
    <3>1. e.user \in Writers
      BY <2>1 DEF TabOK
    <3> QED
      BY <2>1, <2>2, <2>4, <3>1, ApiHolds, UpdateStep
  <2> QED
    BY <2>3, <2>4
<1>9. ASSUME NEW from, NEW to, boards!SetStatus(from, to) PROVE BoardsInv'
  BY <1>9, ColumnStep DEF boards!SetStatus
<1>10. CASE UNCHANGED boardsVars
  BY <1>10, BoardsKept DEF boardsVars, BoardsInv
<1> QED
  BY <1>1, <1>2, <1>3, <1>4, <1>5, <1>6, <1>7, <1>8, <1>9, <1>10 DEF boards!Next

\* However often it is edited and moved, a post is one thing, and is found as what it shows.
\* Assumed: BoardsAssumption, and that None and Absent are none of the values beside them.
THEOREM PostsStayWhole ==
  ASSUME NoneIsNothing
  PROVE  LaneSpec => []PostWhole
<1>1. boards!Init => BoardsInv
  BY DEF boards!Init, BoardsInv
<1>2. BoardsInv /\ [boards!Next]_boardsVars => BoardsInv'
  BY BoardsNext
<1>3. BoardsInv => PostWhole
  BY WholeOK, FoundOK DEF BoardsInv, PostWhole, boards!PostWhole, boards!FoundAsShown
<1>4. LaneInit => boards!Init
  BY DEF LaneInit
<1> QED
  BY <1>1, <1>2, <1>3, <1>4, BoardsLane, PTL DEF LaneSpec

\* A step that takes a tab's request takes it over the version the tab shows.
LEMMA SavedOverSeen ==
  ASSUME NoneIsNothing, BoardsInv, [boards!Next]_boardsVars, NEW t \in BoardTabs, boards!Sent(t)
  PROVE  /\ boards_tab[t].kind = "form" => boards_tab[t].seen = boards_post
         /\ \A b \in boards!BoardFields : boards_post.fields[b] # None /\ boards_post'.category # b
              => boards_tab[t].seen.fields = boards_post.fields
<1> DEFINE e == boards_tab[t]
           p == boards_post
<1>1. /\ e # None /\ boards_tab'[t] = None /\ p # None /\ TabOK(e, p) /\ PostOK(p)
      /\ boards_tab = [s \in BoardTabs |-> boards_tab[s]]
  BY DEF boards!Sent, BoardsInv
<1>2. e.version # Absent
  BY <1>1 DEF TabOK, boards!board_data_version, NoneIsNothing
<1>3. ASSUME e.version = boards!board_data_version(p) PROVE e.seen = p
  BY <1>1, <1>3 DEF TabOK, boards!board_data_version
<1>4. ASSUME UNCHANGED boards_tab PROVE FALSE
  BY <1>1, <1>4
<1>5. ASSUME NEW s \in BoardTabs, NEW d, boards_tab' = [boards_tab EXCEPT ![s] = d], s # t PROVE FALSE
  BY <1>1, <1>5
<1>6. ASSUME boards!PostEdit(t) PROVE e.seen = p
  <2>1. PICK in \in boards!FormInputs(t) :
          IF boards!FormRefused(p, in) \/ boards!UpdateRefused(e.user, p, in) \/ boards!SaveRefused(p, in)
          THEN boards_tab' = [boards_tab EXCEPT ![t].version = boards!RenderedVersion(t), ![t].sent = FALSE]
          ELSE TRUE
    BY <1>6 DEF boards!PostEdit
  <2>2. CASE boards!FormRefused(p, in) \/ boards!UpdateRefused(e.user, p, in) \/ boards!SaveRefused(p, in)
    <3> DEFINE d == [user |-> e.user, kind |-> e.kind, seen |-> e.seen, sent |-> FALSE,
                     version |-> boards!RenderedVersion(t)]
    <3>1. [[e EXCEPT !.version = boards!RenderedVersion(t)] EXCEPT !.sent = FALSE] = d
      BY <1>1, TabSent DEF TabOK
    <3>2. boards_tab'[t] = [[e EXCEPT !.version = boards!RenderedVersion(t)] EXCEPT !.sent = FALSE]
      BY <1>1, <2>1, <2>2
    <3>3. IsTab(d)
      BY DEF IsTab
    <3> HIDE DEF d
    <3> QED
      BY <1>1, <3>1, <3>2, <3>3 DEF NoneIsNothing
  <2>3. CASE ~boards!UpdateRefused(e.user, p, in)
    BY <1>2, <1>3, <2>3, FormHolds DEF boards!UpdateRefused
  <2> QED
    BY <2>2, <2>3
<1>7. ASSUME boards!PartialUpdate(t)
      PROVE  /\ e.kind = "api"
             /\ \A b \in boards!BoardFields : p.fields[b] # None /\ boards_post'.category # b
                  => e.seen.fields = p.fields
  <2>1. PICK in \in boards!ApiInputs(e.user, {e.version}) :
          IF boards!UpdateRefused(e.user, p, in)
          THEN boards_tab' = [boards_tab EXCEPT ![t].sent = FALSE]
          ELSE boards_post' = boards!update_post(p, in)
    BY <1>7 DEF boards!PartialUpdate
  <2>2. CASE boards!UpdateRefused(e.user, p, in)
    <3> DEFINE d == [user |-> e.user, kind |-> e.kind, seen |-> e.seen, sent |-> FALSE, version |-> e.version]
    <3>1. [e EXCEPT !.sent = FALSE] = d
      BY <1>1, TabSent DEF TabOK
    <3>2. boards_tab'[t] = [e EXCEPT !.sent = FALSE]
      BY <1>1, <2>1, <2>2
    <3>3. IsTab(d)
      BY DEF IsTab
    <3> HIDE DEF d
    <3> QED
      BY <1>1, <3>1, <3>2, <3>3 DEF NoneIsNothing
  <2>3. CASE ~boards!UpdateRefused(e.user, p, in)
    <3>1. boards_post'.category = IF in.category = Absent THEN p.category
                                  ELSE boards!canonical_life_category(in.category)
      BY <1>1, <2>1, <2>3, Updated DEF PostOK
    <3>2. ~boards!RemovalUnapproved(p, in)
      BY <2>3 DEF boards!UpdateRefused
    <3>3. ASSUME NEW b \in boards!BoardFields, p.fields[b] # None, boards_post'.category # b
          PROVE  e.seen.fields = p.fields
      <4>1. b = p.category
        BY <1>1, <3>3 DEF PostOK, PlacesOK, Fields3, boards!BoardFields
      <4>2. boards!canonical_life_category(boards!Given(in.category, p.category)) # p.category
        BY <3>1, <3>3, <4>1 DEF boards!Given, boards!canonical_life_category, boards!LIFE_BOARD_CATEGORIES,
           boards!BoardFields
      <4>3. in.version = boards!board_data_version(p)
        BY <3>2, <3>3, <4>1, <4>2 DEF boards!RemovalUnapproved
      <4>4. in.version # Absent
        BY <4>3 DEF boards!board_data_version, NoneIsNothing
      <4>5. e.version = boards!board_data_version(p)
        BY <4>3, <4>4, ApiHolds
      <4> QED
        BY <1>3, <4>5
    <3> QED
      BY <1>7, <3>3 DEF boards!PartialUpdate
  <2> QED
    BY <2>2, <2>3
<1>8. ASSUME NEW u \in Writers,
             boards!PostCreate(u) \/ boards!ApiCreate(u) \/ boards!BlindUpdate(u) \/ boards!set_resolution(u)
      PROVE  FALSE
  BY <1>4, <1>8 DEF boards!PostCreate, boards!ApiCreate, boards!BlindUpdate, boards!set_resolution
<1>9. ASSUME NEW from, NEW to, boards!SetStatus(from, to) PROVE FALSE
  BY <1>4, <1>9 DEF boards!SetStatus
<1>10. ASSUME NEW s \in BoardTabs, NEW u \in Writers, NEW kind \in {"form", "api"}, boards!Open(s, u, kind)
       PROVE  FALSE
  BY <1>1, <1>5, <1>10 DEF boards!Open
<1>11. ASSUME NEW s \in BoardTabs, boards!Send(s) PROVE FALSE
  <2>1. CASE s = t
    <3> DEFINE d == [user |-> e.user, kind |-> e.kind, seen |-> e.seen, sent |-> TRUE, version |-> e.version]
    <3>1. [e EXCEPT !.sent = TRUE] = d
      BY <1>1, TabSent DEF TabOK
    <3>2. boards_tab'[t] = [e EXCEPT !.sent = TRUE]
      BY <1>1, <1>11, <2>1 DEF boards!Send
    <3>3. IsTab(d)
      BY DEF IsTab
    <3> HIDE DEF d
    <3> QED
      BY <1>1, <3>1, <3>2, <3>3 DEF NoneIsNothing
  <2>2. CASE s # t
    BY <1>1, <1>11, <2>2 DEF boards!Send
  <2> QED
    BY <2>1, <2>2
<1>12. ASSUME NEW s \in BoardTabs, s # t, boards!PostEdit(s) \/ boards!PartialUpdate(s) PROVE FALSE
  <2>1. boards_tab'[t] = boards_tab[t]
    BY <1>1, <1>12 DEF boards!PostEdit, boards!PartialUpdate
  <2> QED
    BY <1>1, <2>1
<1>13. CASE UNCHANGED boardsVars
  BY <1>4, <1>13 DEF boardsVars
<1> QED
  BY <1>6, <1>7, <1>8, <1>9, <1>10, <1>11, <1>12, <1>13 DEF boards!Next

\* A save replaces only what its sender has seen, for any members, tabs and number of refusals.
\* Assumed: as above.
THEOREM SavesReplaceWhatWasSeen ==
  ASSUME NoneIsNothing
  PROVE  LaneSpec => NothingUnseenLost
<1>1. boards!Init => BoardsInv
  BY DEF boards!Init, BoardsInv
<1>2. BoardsInv /\ [boards!Next]_boardsVars => BoardsInv'
  BY BoardsNext
<1>3. BoardsInv /\ [boards!Next]_boardsVars =>
        [\A t \in BoardTabs : boards!Sent(t) =>
           /\ boards_tab[t].kind = "form" => boards_tab[t].seen = boards_post
           /\ \A b \in boards!BoardFields : boards_post.fields[b] # None /\ boards_post'.category # b
                => boards_tab[t].seen.fields = boards_post.fields]_(boards!vars)
  BY SavedOverSeen
<1>4. LaneInit => boards!Init
  BY DEF LaneInit
<1> QED
  BY <1>1, <1>2, <1>3, <1>4, BoardsLane, PTL DEF LaneSpec, NothingUnseenLost, boards!NothingUnseenLost
=============================================================================
