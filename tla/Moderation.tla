----------------------------- MODULE Moderation -----------------------------
(***************************************************************************)
(* Reports, hiding and appeals of the community: create_report,            *)
(* resolve_report, hide_reported_content, moderate_comment,                *)
(* moderate_news_comment, operator_post_action, delete_post, create_appeal *)
(* and resolve_appeal of thai_platform/community/services.py, and          *)
(* purge_expired_reports of retention.py.                                  *)
(*                                                                         *)
(* Each of them is one transaction of one SQLite database, whose           *)
(* transactions are serializable, and reads again what it was handed: an   *)
(* operation is one action, and what can go wrong is a sequence of legal   *)
(* operations of different people.                                         *)
(*                                                                         *)
(* Left out: notifications, wording, the checks of require_active (only    *)
(* active members act), and writing posts and comments: the contents are   *)
(* there from the start, published.  A report is closed whether it was     *)
(* resolved or dismissed, which no operation tells apart.  Of the audit    *)
(* trail only what is read or purged again is kept: the latest             *)
(* content.hide of each content, and a report's events as one.             *)
(***************************************************************************)
EXTENDS Naturals, FiniteSets

CONSTANTS
  Posts, Comments, NewsComments,  \* what can be hidden
  PostOf,                         \* the post a comment belongs to
  Pk,                             \* primary keys, one numbering per table
  Members,                        \* active accounts
  Moderators, Operators,          \* group "Report moderators"; is_staff
  Nobody,
  Threshold,                      \* distinct reporters that hide a comment: 10 in the code
  MaxReports, MaxAppeals          \* bounds

Contents == Posts \cup Comments \cup NewsComments
Reports == 1..MaxReports
Appeals == 1..MaxAppeals
\* AuditEvent.target_type and target_id
TypeOf(c) == IF c \in Posts THEN "post" ELSE IF c \in Comments THEN "comment" ELSE "newscomment"
Content(c) == <<TypeOf(c), Pk[c]>>
Report(i) == <<"report", i>>

ASSUME ModerationAssumption ==
  /\ Posts \cap Comments = {} /\ (Posts \cup Comments) \cap NewsComments = {}
  /\ PostOf \in [Comments -> Posts]
  /\ Pk \in [Contents -> Nat]
  /\ \A c, d \in Contents : Content(c) = Content(d) => c = d
  /\ Moderators \subseteq Operators /\ Operators \subseteq Members
  /\ IsFiniteSet(Members) /\ Nobody \notin Members \cup Contents
  /\ Threshold \in Nat /\ MaxReports \in Nat /\ MaxAppeals \in Nat

VARIABLES
  status,                           \* of each content
  rstatus, about, reporter,         \* Report rows; "none" before and "purged" after
  astatus, appealed, reviewer,      \* ModerationAppeal rows
  trail,                            \* AuditEvent rows
  hider, how,                       \* history: who hid a hidden content, and by what
  restored                          \* history: comments that were published again

reportRows == <<rstatus, about, reporter>>
appealRows == <<astatus, appealed, reviewer>>
history == <<hider, how, restored>>
vars == <<status, reportRows, appealRows, trail, history>>

Init ==
  /\ status = [c \in Contents |-> "published"]
  /\ rstatus = [i \in Reports |-> "none"]
  /\ about = [i \in Reports |-> Nobody] /\ reporter = [i \in Reports |-> Nobody]
  /\ astatus = [j \in Appeals |-> "none"]
  /\ appealed = [j \in Appeals |-> Nobody] /\ reviewer = [j \in Appeals |-> Nobody]
  /\ trail = {}
  /\ hider = [c \in Contents |-> Nobody] /\ how = [c \in Contents |-> "none"]
  /\ restored = {}

-----------------------------------------------------------------------------
(* Small parts of the operations. *)

Event(target, action, actor) == [of |-> target, action |-> action, actor |-> actor]

HideEvents(c) == {e \in trail : e.of = Content(c) /\ e.action = "content.hide"}

HideLogged(c, u) == (trail \ HideEvents(c)) \cup {Event(Content(c), "content.hide", u)}

Hide(c, u, by) ==
  /\ status' = [status EXCEPT ![c] = "hidden"]
  /\ hider' = [hider EXCEPT ![c] = u]
  /\ how' = [how EXCEPT ![c] = by]
  /\ UNCHANGED restored

Unhide(c, to) ==
  /\ status' = [status EXCEPT ![c] = to]
  /\ hider' = [hider EXCEPT ![c] = Nobody]
  /\ how' = [how EXCEPT ![c] = "none"]

Restore(c) == Unhide(c, "published") /\ restored' = restored \cup ({c} \cap Comments)

-----------------------------------------------------------------------------
(* Reports. *)

Visible(c) ==
  /\ status[c] = "published"
  /\ c \in Comments => status[PostOf[c]] = "published"

OpenReporters(c) == {reporter[i] : i \in {k \in Reports : rstatus[k] = "open" /\ about[k] = c}}

\* The report that is being created counts.
Reached(c, u) == Cardinality(OpenReporters(c) \cup {u}) >= Threshold

CreateReport(u, c, i) ==
  /\ Visible(c)
  /\ rstatus[i] = "none" /\ \A k \in 1..(i - 1) : rstatus[k] # "none"
  /\ rstatus' = [rstatus EXCEPT ![i] = "open"]
  /\ about' = [about EXCEPT ![i] = c]
  /\ reporter' = [reporter EXCEPT ![i] = u]
  /\ trail' = trail \cup {Event(Report(i), "report", u)}
  /\ IF c \in Comments /\ Reached(c, u)
       THEN Hide(c, u, "auto")
       ELSE UNCHANGED <<status, history>>
  /\ UNCHANGED appealRows

ResolveReport(i) ==
  /\ rstatus[i] = "open"
  /\ rstatus' = [rstatus EXCEPT ![i] = "closed"]
  /\ UNCHANGED <<status, about, reporter, appealRows, trail, history>>

HideReportedContent(m, i) ==
  /\ rstatus[i] = "open"
  /\ status[about[i]] = "published"
  /\ Hide(about[i], m, "report")
  /\ rstatus' = [rstatus EXCEPT ![i] = "closed"]
  /\ trail' = HideLogged(about[i], m)
  /\ UNCHANGED <<about, reporter, appealRows>>

\* Faulty variant: target_id alone picks the events.
PurgeByPk(S) ==
  /\ rstatus' = [i \in Reports |-> IF i \in S THEN "purged" ELSE rstatus[i]]
  /\ trail' = {e \in trail : e.of[2] \notin S}
  /\ UNCHANGED <<status, about, reporter, appealRows, history>>

\* The rows of purged reports remain as history.
Purge(S) ==
  /\ rstatus' = [i \in Reports |-> IF i \in S THEN "purged" ELSE rstatus[i]]
  /\ trail' = {e \in trail : e.of \notin {Report(i) : i \in S}}
  /\ UNCHANGED <<status, about, reporter, appealRows, history>>

\* Any of the closed reports may have been closed 90 days ago.
PurgeExpiredReports ==
  \E S \in SUBSET {i \in Reports : rstatus[i] = "closed"} : S # {} /\ Purge(S)

-----------------------------------------------------------------------------
(* Moderators, operators and authors. *)

ModerateComment(m, c) ==
  /\ c \in Comments
  /\ \/ status[c] = "published" /\ Hide(c, m, "moderate")
     \/ status[c] = "hidden" /\ Restore(c)
  /\ UNCHANGED <<reportRows, appealRows, trail>>

ModerateNewsComment(m, c) ==
  /\ c \in NewsComments
  /\ \/ status[c] = "published" /\ Hide(c, m, "moderate") /\ trail' = HideLogged(c, m)
     \/ status[c] = "hidden" /\ Restore(c) /\ UNCHANGED trail
  /\ UNCHANGED <<reportRows, appealRows>>

\* Faulty variant: the event is logged under the action's own name.
OperatorUnlogged(o, p) ==
  /\ \/ status[p] = "published" /\ Hide(p, o, "operator")
     \/ status[p] = "hidden" /\ Restore(p)
  /\ UNCHANGED <<reportRows, appealRows, trail>>

OperatorPostAction(o, p) ==
  /\ \/ status[p] = "published" /\ Hide(p, o, "operator") /\ trail' = HideLogged(p, o)
     \/ status[p] = "hidden" /\ Restore(p) /\ UNCHANGED trail
  /\ UNCHANGED <<reportRows, appealRows>>

\* delete_post by its author, or the operator's delete: in every state.
DeletePost(p) ==
  /\ status[p] # "deleted"
  /\ Unhide(p, "deleted")
  /\ UNCHANGED <<reportRows, appealRows, trail, restored>>

-----------------------------------------------------------------------------
(* Appeals, of posts and comments; several of one content may be pending. *)

CreateAppeal(c, j) ==
  /\ status[c] = "hidden"
  /\ astatus[j] = "none" /\ \A k \in 1..(j - 1) : astatus[k] # "none"
  /\ astatus' = [astatus EXCEPT ![j] = "pending"]
  /\ appealed' = [appealed EXCEPT ![j] = c]
  /\ UNCHANGED <<status, reportRows, reviewer, trail, history>>

ResolveAppeal(m, j, outcome) ==
  /\ astatus[j] = "pending"
  /\ status[appealed[j]] = "hidden"
  /\ HideEvents(appealed[j]) # {} /\ \A e \in HideEvents(appealed[j]) : e.actor # m
  /\ astatus' = [astatus EXCEPT ![j] = outcome]
  /\ reviewer' = [reviewer EXCEPT ![j] = m]
  /\ IF outcome = "restored" THEN Restore(appealed[j]) ELSE UNCHANGED <<status, history>>
  /\ UNCHANGED <<reportRows, appealed, trail>>

-----------------------------------------------------------------------------
Moderator(m) ==
  \/ \E i \in Reports : HideReportedContent(m, i)
  \/ \E c \in Contents : ModerateComment(m, c) \/ ModerateNewsComment(m, c)
  \/ \E j \in Appeals, outcome \in {"upheld", "restored"} : ResolveAppeal(m, j, outcome)

Next ==
  \/ \E u \in Members, c \in Posts \cup Comments, i \in Reports : CreateReport(u, c, i)
  \/ \E m \in Moderators : Moderator(m)
  \/ \E o \in Operators, p \in Posts : OperatorPostAction(o, p)
  \/ \E p \in Posts : DeletePost(p)
  \/ \E c \in Posts \cup Comments, j \in Appeals : CreateAppeal(c, j)
  \/ \E i \in Reports : ResolveReport(i)
  \/ PurgeExpiredReports

Spec == Init /\ [][Next]_vars

-----------------------------------------------------------------------------
(* Properties. *)

Events == [of : {Content(c) : c \in Contents} \cup {Report(i) : i \in Reports},
           action : {"content.hide", "report"}, actor : Members]

\* The shape of the tables; every row is about a content, and only what is hidden has a hider.
TypeOK ==
  /\ status \in [Contents -> {"published", "hidden", "deleted"}]
  /\ rstatus \in [Reports -> {"none", "open", "closed", "purged"}]
  /\ about \in [Reports -> Contents \cup {Nobody}]
  /\ reporter \in [Reports -> Members \cup {Nobody}]
  /\ astatus \in [Appeals -> {"none", "pending", "upheld", "restored"}]
  /\ appealed \in [Appeals -> Contents \cup {Nobody}]
  /\ reviewer \in [Appeals -> Moderators \cup {Nobody}]
  /\ trail \subseteq Events
  /\ hider \in [Contents -> Members \cup {Nobody}]
  /\ how \in [Contents -> {"none", "auto", "report", "moderate", "operator"}]
  /\ restored \subseteq Comments
  /\ \A i \in Reports : rstatus[i] # "none" => about[i] \in Contents /\ reporter[i] \in Members
  /\ \A j \in Appeals : astatus[j] # "none" => appealed[j] \in Contents
  /\ \A c \in Contents : status[c] = "hidden" <=> hider[c] # Nobody

\* The trail accounts for what it must: a hidden post or news comment names who hid it, whatever was
\* purged since, and exactly the reports the table still holds have their events.
TrailKept ==
  /\ \A c \in Posts \cup NewsComments : status[c] = "hidden" =>
       HideEvents(c) = {Event(Content(c), "content.hide", hider[c])}
  /\ \A i \in Reports :
       rstatus[i] \in {"open", "closed"} <=> \E e \in trail : e.of = Report(i)

\* "Repeated reports by one account do not increase the threshold": a comment hidden by its reports was
\* reported by as many different members, however often each of them did.
Accusers(c) == {reporter[i] : i \in {k \in Reports : about[k] = c}}
NotAlone ==
  \A c \in Comments : status[c] = "hidden" /\ how[c] = "auto" => Cardinality(Accusers(c)) >= Threshold

\* A comment nobody has published again does not stay up once enough members have open reports of it,
\* whatever was resolved and dismissed in between.
ThresholdActs ==
  \A c \in Comments \ restored : status[c] = "published" =>
    OpenReporters(c) = {} \/ Cardinality(OpenReporters(c)) < Threshold

\* Decisions stand: a deleted post, a closed report and a decided appeal never come back, and the purge
\* takes no open report.
NoWayBack ==
  [][/\ \A c \in Contents : status[c] = "deleted" => status'[c] = "deleted"
     /\ \A i \in Reports : /\ rstatus[i] = "closed" => rstatus'[i] # "open"
                           /\ rstatus[i] = "open" => rstatus'[i] # "purged"
     /\ \A j \in Appeals : astatus[j] \in {"upheld", "restored"} =>
                             astatus'[j] = astatus[j] /\ reviewer'[j] = reviewer[j]]_vars

\* Separation of duties: the appeal that is being decided is not decided by the one who hid it.
Independent(c, j) ==
  astatus[j] = "pending" /\ astatus'[j] # "pending" /\ appealed[j] = c => reviewer'[j] # hider[c]

\* Posts are hidden by reports and operators only, both leave the event resolve_appeal looks for: whoever
\* hid a post last does not decide about it, even in an appeal against an earlier hiding.
PostReviewIndependent == [][\A c \in Posts, j \in Appeals : Independent(c, j)]_vars

\* "The moderator who hid this content cannot review its appeal."  For comments moderate_comment hides
\* without that event, and an earlier event of somebody else is taken for it.
ReviewIndependent == [][\A c \in Posts \cup Comments, j \in Appeals : Independent(c, j)]_vars

\* The tables have their shape, the trail tells who hid what, and reports hide a comment when enough
\* members made them, and only then.
HidingFair == TypeOK /\ TrailKept /\ NotAlone /\ ThresholdActs

\* Decisions stand, and whoever hid a post last does not decide the appeal about it.
ReviewsStand == NoWayBack /\ PostReviewIndependent
=============================================================================
