------------------------------ MODULE Publishing ------------------------------
(***************************************************************************)
(* How built pages reach the places readers are served from:               *)
(*   - vps_update.sh, the operator's command: checks, an isolated build, a *)
(*     look at the staged outputs, then the ticker's assets and the landing*)
(*     page by a temporary file and mv, the news tree and the sections by  *)
(*     cp over the old files;                                              *)
(*   - publish_server_news_pages.py: a build of its own, and the dashboard *)
(*     pages one by one by a temporary file and os.replace.                *)
(* Either may run while the other does and stop at any point; the operator *)
(* starts one command at a time.                                           *)
(*                                                                         *)
(* A place stands for the files one step publishes together.  Left out:    *)
(* how the active roots are found, owners and modes, the final look at the *)
(* public addresses, which changes nothing.                                *)
(***************************************************************************)
EXTENDS Naturals, Sequences

CONSTANTS
  Runs,
  Kind(_),      \* of a run: "update" or "seed"
  Commit(_),    \* of the tree an update publishes: names its temporary files
  None          \* no file

Places == {"ticker", "landing", "news", "sections", "thai"}

VARIABLES
  served,       \* of each place: the run that built what is there, and whether it is whole
  temp,         \* of each temporary name: what it holds, or None
  complete,     \* of each run: its build has every output
  stage,        \* of each run: "new", "built", "publish", "end"
  step,         \* of each run: the number of the place it publishes
  copied        \* of each run: "no", "half", "yes": the copy of that place

vars == <<served, temp, complete, stage, step, copied>>

\* PUBLISHED_PAGES, and the publishing part of the script, in their order.
Order(r) == IF Kind(r) = "seed" THEN <<"news", "thai">>
                                ELSE <<"ticker", "landing", "news", "sections">>

\* Faulty variant: every page is copied over the one being served.
Copied(r, place) == FALSE

\* The page takes the place of the old one at once, by a rename.
Renamed(r, place) == Kind(r) = "seed" \/ place \in {"ticker", "landing"}

\* NamedTemporaryFile names each file anew; the script names it after the commit.
TempName(r, place) == IF Kind(r) = "seed" THEN <<r, place>> ELSE <<Commit(r), place>>
TempNames == {TempName(r, p) : r \in Runs, p \in Places}

Publishes(r) == stage[r] = "publish"
Place(r) == Order(r)[step[r]]
Ended(r) == stage[r] \in {"new", "end"}

Init ==
  /\ served = [p \in Places |-> [build |-> "before", whole |-> TRUE]]
  /\ temp = [n \in TempNames |-> None]
  /\ complete = [r \in Runs |-> FALSE]
  /\ stage = [r \in Runs |-> "new"] /\ step = [r \in Runs |-> 1]
  /\ copied = [r \in Runs |-> "no"]

-----------------------------------------------------------------------------
(* The page checks, the roots and the build; a build may leave outputs out. *)
Build(r) ==
  /\ stage[r] = "new"
  /\ Kind(r) = "update" => \A q \in Runs : Kind(q) = "update" => Ended(q)
  /\ \E whole \in BOOLEAN : complete' = [complete EXCEPT ![r] = whole]
  /\ stage' = [stage EXCEPT ![r] = "built"]
  /\ UNCHANGED <<served, temp, step, copied>>

\* A missing staged output ends the run before anything is published.
Staged(r) ==
  /\ stage[r] = "built"
  /\ stage' = [stage EXCEPT ![r] = IF complete[r] THEN "publish" ELSE "end"]
  /\ UNCHANGED <<served, temp, complete, step, copied>>

Target(r, whole) ==
  LET file == [build |-> r, whole |-> whole]
  IN  IF Renamed(r, Place(r))
        THEN temp' = [temp EXCEPT ![TempName(r, Place(r))] = file] /\ UNCHANGED served
        ELSE served' = [served EXCEPT ![Place(r)] = file] /\ UNCHANGED temp

Copy(r) ==
  /\ Publishes(r) /\ copied[r] # "yes"
  /\ Target(r, copied[r] = "half")
  /\ copied' = [copied EXCEPT ![r] = IF @ = "no" THEN "half" ELSE "yes"]
  /\ UNCHANGED <<complete, stage, step>>

Last(r) == step[r] = Len(Order(r))

Move(r) ==
  /\ Publishes(r) /\ copied[r] = "yes"
  /\ IF Renamed(r, Place(r))
       THEN /\ served' = [served EXCEPT ![Place(r)] = temp[TempName(r, Place(r))]]
            /\ temp' = [temp EXCEPT ![TempName(r, Place(r))] = None]
       ELSE UNCHANGED <<served, temp>>
  /\ stage' = [stage EXCEPT ![r] = IF Last(r) THEN "end" ELSE @]
  /\ step' = [step EXCEPT ![r] = IF Last(r) THEN @ ELSE @ + 1]
  /\ copied' = [copied EXCEPT ![r] = "no"]
  /\ UNCHANGED complete

\* set -e, a broken connection, a kill.  The error path of publish() removes its temporary
\* file, a kill leaves it; the trap of the script removes the build alone.
Stop(r) ==
  /\ ~Ended(r) /\ stage' = [stage EXCEPT ![r] = "end"]
  /\ \/ UNCHANGED temp
     \/ /\ Publishes(r) /\ Kind(r) = "seed"
        /\ temp' = [temp EXCEPT ![TempName(r, Place(r))] = None]
  /\ UNCHANGED <<served, complete, step, copied>>

Next == \E r \in Runs : Build(r) \/ Staged(r) \/ Copy(r) \/ Move(r) \/ Stop(r)
Spec == Init /\ [][Next]_vars

-----------------------------------------------------------------------------
(* Properties. *)

(* A reader never gets a page of a build with outputs missing, nor half a    *)
(* page of those that are renamed into place, wherever a run stopped and     *)
(* whatever another left behind (the first line of publish_server_news_pages *)
(* and "nothing was published" of the script).                               *)
ServedWhole ==
  \A p \in Places :
    /\ served[p].build = "before" \/ complete[served[p].build]
    /\ p \in {"ticker", "landing", "thai"} => served[p].whole
=============================================================================
