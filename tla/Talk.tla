-------------------------------- MODULE Talk --------------------------------
(***************************************************************************)
(* What is said under a post, and who gets to see it: comments and replies,*)
(* notifications and their e-mail, bookmarks and votes of                  *)
(* thai_platform/community/services.py, and the pages of web.py and api.py *)
(* that read them.  The e-mail about an answer is left out.                *)
(*                                                                         *)
(* Visibility is never stored.  Every page computes it from the status of  *)
(* the post, of the comment and of the comment it answers, and from the    *)
(* blocks of the one who looks, in queries written one by one; all of it   *)
(* changes at any time.  The model has one post; deleting is a hiding that *)
(* is not undone, and a service call is one transaction and one action.    *)
(***************************************************************************)
EXTENDS Naturals, FiniteSets

CONSTANTS
  Members, Author,   \* active accounts, and the one who wrote the post
  Slots,             \* comment rows, numbers
  MaxMarks,          \* bound: bookmarks, votes and likes at a time
  None

VARIABLES
  post,      \* the post's status
  comment,   \* Comment rows
  blocks,    \* MemberBlock rows, <<blocker, blocked>>
  notes,     \* Notification rows of kind REPLY
  marks      \* Bookmark, Helpful and CommentLike rows

vars == <<post, comment, blocks, notes, marks>>

Status == {"published", "hidden", "deleted"}
Standing == {c \in Slots : comment[c] # None}

Init ==
  /\ post = "published"
  /\ comment = [c \in Slots |-> None]
  /\ blocks = {} /\ notes = {} /\ marks = {}

-----------------------------------------------------------------------------
(* The queries. *)

blocked_member_ids(u) == {v \in Members : <<u, v>> \in blocks}

visible_posts(u) == post = "published" /\ Author \notin blocked_member_ids(u)

Shown(c) == comment[c].status = "published"

\* Faulty variant: only the reply's own author counts.
CommentsByAuthor(u) ==
  {c \in Standing : /\ post = "published" /\ Author \notin blocked_member_ids(u)
                    /\ Shown(c) /\ comment[c].author \notin blocked_member_ids(u)
                    /\ comment[c].parent # None => Shown(comment[c].parent)}
visible_comments(u) ==
  {c \in Standing :
     /\ post = "published" /\ Shown(c)
     /\ comment[c].parent # None => Shown(comment[c].parent)
     /\ comment[c].author \notin blocked_member_ids(u) /\ Author \notin blocked_member_ids(u)
     /\ comment[c].parent # None => comment[comment[c].parent].author \notin blocked_member_ids(u)}

invalid_reply(n) ==
  \/ ~Shown(n.comment) \/ post # "published"
  \/ comment[n.comment].parent # None /\ ~Shown(comment[n.comment].parent)

visible_notifications(u) ==
  {n \in notes :
     /\ n.to = u /\ ~invalid_reply(n)
     /\ comment[n.comment].author \notin blocked_member_ids(u)
     /\ Author \notin blocked_member_ids(u)
     /\ comment[n.comment].parent # None
          => comment[comment[n.comment].parent].author \notin blocked_member_ids(u)}

\* activity and my_activity.
activity(u, kind) ==
  CASE kind = "posts" -> IF u = Author /\ visible_posts(u) THEN {"post"} ELSE {}
    [] kind = "comments" -> {c \in visible_comments(u) : comment[c].author = u}
    [] OTHER -> IF visible_posts(u) /\ <<kind, u, None>> \in marks THEN {"post"} ELSE {}

\* post_detail: the answers, and under each its replies.
Answers(u) == IF visible_posts(u) THEN {c \in visible_comments(u) : comment[c].parent = None} ELSE {}
Replies(u) == {c \in visible_comments(u) : comment[c].parent \in Answers(u)}
post_detail(u) == Answers(u) \cup Replies(u)

\* The numbers of the start page: own answers, unread answers.
member_home(u) ==
  [answers |-> Cardinality(activity(u, "comments")),
   unread |-> Cardinality({n \in visible_notifications(u) : ~n.read})]

\* Every comment the API lists under the post.
ApiComments(u) == IF visible_posts(u) THEN visible_comments(u) ELSE {}

-----------------------------------------------------------------------------
(* The operations. *)

\* create_comment, behind a page that showed the post.
\* The Notification row about a comment.
Reply(c) == [to |-> Author, comment |-> c, read |-> FALSE]

create_comment(u, c, parent) ==
  /\ visible_posts(u)
  /\ comment[c] = None /\ \A d \in Slots : d < c => comment[d] # None
  /\ parent # None => /\ parent \in visible_comments(u)
                      /\ comment[parent].parent = None
  /\ comment' = [comment EXCEPT ![c] = [author |-> u, parent |-> parent, status |-> "published"]]
  /\ notes' = IF u = Author THEN notes
              ELSE notes \cup {Reply(c)}
  /\ UNCHANGED <<post, blocks, marks>>

notification_read(u, n) ==
  /\ n \in visible_notifications(u) /\ ~n.read
  /\ notes' = (notes \ {n}) \cup {[n EXCEPT !.read = TRUE]}
  /\ UNCHANGED <<post, comment, blocks, marks>>

\* set_bookmark, set_helpful and comment_like: on, or off again.
Toggle(mark) == (mark \in marks \/ Cardinality(marks) < MaxMarks)
                /\ marks' = (IF mark \in marks THEN marks \ {mark} ELSE marks \cup {mark})
                /\ UNCHANGED <<post, comment, blocks, notes>>
engagement_action(u, kind) == visible_posts(u) /\ Toggle(<<kind, u, None>>)
comment_like(u, c) == visible_posts(u) /\ c \in visible_comments(u) /\ Toggle(<<"like", u, c>>)

Block(u, v) ==
  /\ u # v
  /\ blocks' = IF <<u, v>> \in blocks THEN blocks \ {<<u, v>>} ELSE blocks \cup {<<u, v>>}
  /\ UNCHANGED <<post, comment, notes, marks>>

\* What reports, moderators and owners do to the contents.
Moderate(c, status) ==
  /\ comment[c] # None /\ comment[c].status # status
  /\ comment' = [comment EXCEPT ![c].status = status]
  /\ UNCHANGED <<post, blocks, notes, marks>>
ModeratePost(status) ==
  /\ post \notin {status, "deleted"} /\ post' = status
  /\ UNCHANGED <<comment, blocks, notes, marks>>

Next ==
  \/ \E u \in Members, c \in Slots, parent \in {None} \cup Slots : create_comment(u, c, parent)
  \/ \E u \in Members : \E n \in notes : notification_read(u, n)
  \/ \E u \in Members, kind \in {"bookmarks", "helpful"} : engagement_action(u, kind)
  \/ \E u \in Members, c \in Slots : comment_like(u, c)
  \/ \E u, v \in Members : Block(u, v)
  \/ \E c \in Slots, to \in {"published", "hidden"} : Moderate(c, to)
  \/ \E to \in Status : ModeratePost(to)

Spec == Init /\ [][Next]_vars

-----------------------------------------------------------------------------
(* The pages agree about what a member may see, whatever was hidden, shown   *)
(* again or blocked since it was written: what a notification announces is   *)
(* on the page it leads to, no list shows a reply without its answer, and    *)
(* nothing in a member's own lists leads to a page that refuses it.          *)
PagesAgree ==
  \A u \in Members :
    /\ \A n \in visible_notifications(u) : n.comment \in post_detail(u)
    /\ ApiComments(u) = post_detail(u)
    /\ \A kind \in {"posts", "bookmarks", "helpful"} : activity(u, kind) # {} => visible_posts(u)
    /\ activity(u, "comments") \subseteq post_detail(u)
    /\ member_home(u).answers <= Cardinality(post_detail(u))

=============================================================================
