------------------------------ MODULE TopicPages ------------------------------
(***************************************************************************)
(* GetForumTopics (internal/telegram/topics.go): the topics of a forum are *)
(* fetched page after page.  The offset is that of the last topic of a     *)
(* page that is not deleted; deleted topics count as entries of the page.  *)
(* A topic is known by the message that created it, its id; the server     *)
(* orders topics by creation or by last message and says which.            *)
(***************************************************************************)
EXTENDS ServerList

CONSTANTS
  Gone,     \* deleted topics that the server still lists
  Dateless  \* topics whose last message is not among the page's messages

TopicConstants ==
  /\ IsFiniteSet(Items) /\ Items \subseteq Nat \ {0} /\ Items # {}
  /\ \A t \in Items : t <= Cardinality(Items)
  /\ Gone \subseteq Items /\ Dateless \subseteq Items
  /\ Limit \in Nat \ {0} /\ MaxChanges \in Nat

VARIABLES
  pc,          \* "paging", "done" or "failed"
  byCreation,  \* OrderByCreateDate
  offset,      \* date, message and topic of the next request
  found        \* the result

vars == <<server, pc, byCreation, offset, found>>

Created == [t \in Items |-> t]

Key == IF byCreation THEN Created ELSE top

Pages == Firsts(Limit, Key, offset.date)

\* Where in a page its live topics are.
Live(page) == {k \in DOMAIN page : page[k] \notin Gone}

\* A slip for a mutant: topics that come again are taken again.
appendAllTopics(result, topics) == result \o SelectSeq(topics, LAMBDA t : t \notin Gone)

Skipped(result, t) == t \in Gone \/ \E k \in DOMAIN result : result[k] = t

\* Live topics that were not seen yet.
appendForumTopics(result, topics) ==
  LET added[n \in 0..Len(topics)] ==
        IF n = 0 THEN result
        ELSE IF Skipped(added[n - 1], topics[n]) THEN added[n - 1]
        ELSE Append(added[n - 1], topics[n])
  IN  added[Len(topics)]

\* messageDateByID of the last message, or the topic's own date.
OffsetDate(t) == IF byCreation \/ t \in Dateless THEN Created[t] ELSE top[t]

LastLive(page) == page[CHOOSE k \in Live(page) : \A j \in Live(page) : j <= k]

nextForumTopicOffset(page) ==
  LET t == LastLive(page)
  IN  [date |-> OffsetDate(t), id |-> top[t], topic |-> t]

\* A slip for a mutant: the page is measured without its deleted topics.
EndsLive(page) == Cardinality(Live(page)) < Limit

Ends(page) ==
  \/ Live(page) = {}
  \/ Len(page) < Limit
  \/ nextForumTopicOffset(page) = offset

\* A slip for a mutant: the loop keeps its offset.
AdvanceNot(page) == UNCHANGED offset

Advance(page) == offset' = nextForumTopicOffset(page)

FetchPage ==
  /\ pc = "paging"
  /\ \E page \in Pages :
       /\ found' = appendForumTopics(found, page)
       /\ IF Ends(page)
          THEN pc' = "done" /\ UNCHANGED offset
          ELSE Advance(page) /\ UNCHANGED pc
  /\ UNCHANGED <<server, byCreation>>

\* The peer is unknown, a pause is cut short or a request fails.
Fail ==
  /\ pc = "paging"
  /\ pc' = "failed"
  /\ found' = <<>>
  /\ UNCHANGED <<server, byCreation, offset>>

Init ==
  /\ ServerInit
  /\ pc = "paging"
  /\ byCreation \in BOOLEAN
  /\ offset = [date |-> 0, id |-> 0, topic |-> 0]
  /\ found = <<>>

Reordered ==
  pc = "paging" /\ Changes(Items \ Gone) /\ UNCHANGED <<pc, byCreation, offset, found>>

Next == FetchPage \/ Fail \/ Reordered

-----------------------------------------------------------------------------
(* Properties *)

TypeOK ==
  /\ ServerTypeOK
  /\ pc \in {"paging", "done", "failed"}
  /\ offset.topic \in Items \cup {0}
  /\ ToSet(found) \subseteq Items \ Gone

\* However the topics are reordered while they are fetched, each is listed
\* once: sync would fetch, save and mark it twice.
ListedOnce == IsInjective(found)

\* A complete listing misses a live topic only if a message moved it over the
\* pages to come, if the offset of a listed topic had to be taken from its
\* creation although the list is ordered by last message, or if a whole page
\* was deleted topics.
OnlyCutsLoseTopics ==
  pc = "done" =>
    \A t \in Items \ (Gone \cup ToSet(found)) :
      \/ t \in raised
      \/ ~byCreation /\ Dateless \cap ToSet(found) # {}
      \/ Cardinality(Gone) >= Limit
=============================================================================
