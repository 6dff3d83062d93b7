------------------------------ MODULE Syllabus ------------------------------
(***************************************************************************)
(* One syllabus of the web app, its topics in chapters, and what each batch *)
(* that follows it has covered.  A topic carries a number; chapters appear  *)
(* in the order of their first topic.  The topic form and the two arrows    *)
(* renumber the topics (frontend/src/features/topics), the roll call and    *)
(* the checklist move the coverage rows of a batch on.                      *)
(*                                                                         *)
(* Names, hours and dates are left out.  A subject and grade with no topics *)
(* stand for every other syllabus a batch may be moved to.                  *)
(* Op_Fault is Op with one fault, to show that a property depends on Op.    *)
(***************************************************************************)
EXTENDS Integers

CONSTANTS
  Topic, Chapter, Batch,
  MaxOrder,          \* bound on the numbers given out
  None               \* no row

Coverage == {"Not Started", "In Progress", "Completed"}

VARIABLES
  topics,      \* Topic.chapter and Topic.order of each topic, or None
  follows,     \* the batches whose subject and grade have this syllabus
  coverage     \* the coverage row of a batch and topic, or None

vars == <<topics, follows, coverage>>

Present == {t \in Topic : topics[t] # None}
Status(b, t) == IF coverage[<<b, t>>] = None THEN "Not Started" ELSE coverage[<<b, t>>]

(* The last number in use among ts, or zero. *)
Last(ts) == CHOOSE n \in 0..MaxOrder : /\ n = 0 \/ \E t \in ts : topics[t].order = n
                                       /\ \A t \in ts : topics[t].order <= n

(* Where a topic goes when it joins a chapter: after the chapter's last     *)
(* topic, or at the end when the chapter is new.                            *)
InsertionOrder(c, t) ==
  LET others == Present \ {t}
      inChapter == {u \in others : topics[u].chapter = c}
  IN IF inChapter # {} THEN Last(inChapter) + 1 ELSE Last(others) + 1

Inserted_InPlace(c, t) ==
  [topics EXCEPT ![t] = [chapter |-> c, order |-> InsertionOrder(c, t)]]
(* Topic t put there, and everything from there on shifted down by one. *)
Inserted(c, t) ==
  LET n == InsertionOrder(c, t)
  IN [u \in Topic |->
        IF u = t THEN [chapter |-> c, order |-> n]
        ELSE IF topics[u] # None /\ topics[u].order >= n
          THEN [topics[u] EXCEPT !.order = @ + 1]
        ELSE topics[u]]

(* The next topic of the same chapter in a direction. *)
Neighbours(t, dir) ==
  {u \in Present : /\ topics[u].chapter = topics[t].chapter
                   /\ dir * (topics[u].order - topics[t].order) > 0}
Nearest(t, us, dir) ==
  {u \in us : \A x \in us : dir * (topics[x].order - topics[u].order) >= 0}

Init ==
  /\ topics = [t \in Topic |-> None]
  /\ follows = {}
  /\ coverage = [p \in Batch \X Topic |-> None]

Room == \A t \in Present : topics[t].order < MaxOrder

AddTopic(t, c) ==
  /\ t \notin Present /\ Room
  /\ topics' = Inserted(c, t)
  /\ coverage' = [p \in Batch \X Topic |->
                    IF p[2] = t /\ p[1] \in follows THEN "Not Started" ELSE coverage[p]]
  /\ UNCHANGED <<follows>>

(* The form only renumbers a topic that changes chapter. *)
EditTopic(t, c) ==
  /\ t \in Present /\ topics[t].chapter # c /\ Room
  /\ topics' = Inserted(c, t)
  /\ UNCHANGED <<follows, coverage>>

Move(t, dir) ==
  /\ t \in Present
  /\ \E u \in Nearest(t, Neighbours(t, dir), dir) :
       topics' = [topics EXCEPT ![t].order = topics[u].order, ![u].order = topics[t].order]
  /\ UNCHANGED <<follows, coverage>>

DeleteTopic_KeepRows(t) ==
  /\ t \in Present
  /\ topics' = [topics EXCEPT ![t] = None]
  /\ UNCHANGED <<follows, coverage>>
DeleteTopic(t) ==
  /\ t \in Present
  /\ topics' = [topics EXCEPT ![t] = None]
  /\ coverage' = [p \in Batch \X Topic |-> IF p[2] = t THEN None ELSE coverage[p]]
  /\ UNCHANGED <<follows>>

(* Adding a batch, or changing its subject or grade, adds no coverage row. *)
Follow(b) == follows' = follows \cup {b} /\ UNCHANGED <<topics, coverage>>
Unfollow(b) == follows' = follows \ {b} /\ UNCHANGED <<topics, coverage>>

SetCoverage(b, t, st) ==
  /\ b \in follows /\ t \in Present /\ Status(b, t) # st
  /\ coverage' = [coverage EXCEPT ![<<b, t>>] = st]
  /\ UNCHANGED <<topics, follows>>

(* Saving a register: the topics taught that have a row, and have not been  *)
(* started, are in progress from now on.                                    *)
SaveSession(b, ts) ==
  /\ b \in follows /\ ts \subseteq Present
  /\ coverage' = [p \in Batch \X Topic |->
                    IF p[1] = b /\ p[2] \in ts /\ coverage[p] = "Not Started"
                    THEN "In Progress" ELSE coverage[p]]
  /\ UNCHANGED <<topics, follows>>

Next ==
  \/ \E t \in Topic : \/ DeleteTopic(t)
                      \/ \E c \in Chapter : AddTopic(t, c) \/ EditTopic(t, c)
                      \/ \E dir \in {-1, 1} : Move(t, dir)
  \/ \E b \in Batch : \/ Follow(b) \/ Unfollow(b)
                      \/ \E t \in Topic, st \in Coverage : SetCoverage(b, t, st)
                      \/ \E ts \in SUBSET Topic : SaveSession(b, ts)

Spec == Init /\ [][Next]_vars

-----------------------------------------------------------------------------
(* Numbers are positive, and a row belongs to a topic that exists. *)
TypeOK ==
  /\ topics \in [Topic -> {None} \cup [chapter : Chapter, order : 1..MaxOrder]]
  /\ follows \subseteq Batch
  /\ coverage \in [Batch \X Topic -> {None} \cup Coverage]
  /\ \A p \in Batch \X Topic : coverage[p] # None => p[2] \in Present

(* No two topics have the same number, so the order on every screen is the  *)
(* same whatever the sort does with ties.                                   *)
OrdersDistinct ==
  \A t, u \in Present : t # u => topics[t].order # topics[u].order

(* A chapter is never split: between two of its topics there are only its   *)
(* own, so its topics stay together on screen.                              *)
ChaptersTogether ==
  \A t, u, v \in Present :
    topics[t].chapter = topics[u].chapter /\ topics[t].order < topics[v].order
      /\ topics[v].order < topics[u].order => topics[v].chapter = topics[t].chapter
=============================================================================
