-------------------------- MODULE HistoryFetchProofs --------------------------
(***************************************************************************)
(* What the two walks promise for every history, batch size, limit, cursor *)
(* and range, and whatever the server takes an offset of 0 for: types, no  *)
(* hole below (by cursor) or above (by date) a fetched message, a stopped  *)
(* walk by cursor keeps what it received, one request at most after a      *)
(* stop, and a bounded number of steps.                                    *)
(***************************************************************************)
EXTENDS HistoryFetch, FiniteSetTheorems, WellFoundedInduction, TLAPS

\* A name for a field of ask.
USE DEF LastRead

-----------------------------------------------------------------------------
(* Sets of message ids *)

LEMMA IdsFinite ==
  ASSUME NEW S \in SUBSET Ids
  PROVE  IsFiniteSet(S) /\ Cardinality(S) \in Nat
<1>1. IsFiniteSet(Ids)
  BY FetchAssumption, FS_Interval DEF Ids
<1>2. IsFiniteSet(S)
  BY <1>1, FS_Subset
<1> QED
  BY <1>2, FS_CardinalityType

\* A nonempty set of ids has a largest element: the least distance to MaxId
\* is attained, because < is well-founded on the naturals.
LEMMA LargestProperties ==
  ASSUME NEW S \in SUBSET Ids, S # {}
  PROVE  Largest(S) \in S /\ \A y \in S : y <= Largest(S)
<1> DEFINE T == {n \in Nat : MaxId - n \in S}
           R == {ss \in Nat \X Nat : ss[1] < ss[2]}
<1>1. \A x \in S : x \in Int /\ MaxId - x \in T
  BY FetchAssumption DEF Ids
<1>2. PICK d \in T : \A e \in T : ~(<<e, d>> \in R)
  <2>1. T \subseteq Nat /\ T # {}
    BY <1>1
  <2>2. IsWellFoundedOn(R, Nat)
    BY NatLessThanWellFounded DEF OpToRel
  <2> HIDE DEF T, R
  <2> QED
    BY <2>1, <2>2, WFMin
<1>3. \A e \in T : d <= e
  <2> SUFFICES ASSUME NEW e \in T, e < d PROVE FALSE
    OBVIOUS
  <2>1. <<e, d>> \in Nat \X Nat /\ <<e, d>>[1] < <<e, d>>[2]
    OBVIOUS
  <2>2. <<e, d>> \in R
    BY <2>1
  <2> QED
    BY <1>2, <2>2
<1>4. \A y \in S : y <= MaxId - d
  BY <1>1, <1>3, FetchAssumption
<1>5. \E x \in S : \A y \in S : y <= x
  BY <1>4
<1> QED
  BY <1>5 DEF Largest

\* It has a smallest element too: the naturals are well-founded.
LEMMA SmallestProperties ==
  ASSUME NEW S \in SUBSET Ids, S # {}
  PROVE  Smallest(S) \in S /\ \A y \in S : Smallest(S) <= y
<1> DEFINE R == {ss \in Nat \X Nat : ss[1] < ss[2]}
<1>1. S \subseteq Nat
  BY DEF Ids
<1>2. PICK x \in S : \A y \in S : ~(<<y, x>> \in R)
  <2>1. IsWellFoundedOn(R, Nat)
    BY NatLessThanWellFounded DEF OpToRel
  <2> HIDE DEF R
  <2> QED
    BY <1>1, <2>1, WFMin
<1>3. \A y \in S : x <= y
  <2> SUFFICES ASSUME NEW y \in S, y < x PROVE FALSE
    BY <1>1
  <2>1. <<y, x>> \in Nat \X Nat /\ <<y, x>>[1] < <<y, x>>[2]
    BY <1>1
  <2>2. <<y, x>> \in R
    BY <2>1
  <2> QED
    BY <1>2, <2>2
<1> QED
  BY <1>3 DEF Smallest

\* Taking the lowest n of a set of ids leaves no hole: it holds every member
\* of the set below one it holds.
LEMMA LowestProperties ==
  ASSUME NEW S \in SUBSET Ids, NEW n \in Int
  PROVE  /\ Lowest(S, n) \subseteq S
         /\ \A x \in Lowest(S, n) : \A y \in S : y <= x => y \in Lowest(S, n)
<1>1. Lowest(S, n) \subseteq S
  BY DEF Lowest
<1>2. ASSUME NEW x \in Lowest(S, n), NEW y \in S, y <= x
      PROVE  y \in Lowest(S, n)
  <2> DEFINE Upto(z) == {w \in S : w <= z}
  <2>1. S \subseteq Int /\ x \in S
    BY <1>1 DEF Ids
  <2>2. Upto(y) \subseteq Upto(x) /\ Upto(x) \subseteq Ids
    <3>1. \A w \in S : w <= y => w <= x
      BY <1>2, <2>1
    <3> QED
      BY <3>1
  <2>3. Cardinality(Upto(y)) <= Cardinality(Upto(x))
    BY <2>2, IdsFinite, FS_Subset
  <2>4. Cardinality(Upto(x)) <= n
    BY DEF Lowest
  <2>5. Cardinality(Upto(x)) \in Nat /\ Cardinality(Upto(y)) \in Nat
    BY <2>2, IdsFinite
  <2>6. Cardinality(Upto(y)) <= n
    BY <2>3, <2>4, <2>5
  <2> QED
    BY <2>6 DEF Lowest
<1> QED
  BY <1>1, <1>2

\* Taking the highest n leaves none above one it holds.
LEMMA HighestProperties ==
  ASSUME NEW S \in SUBSET Ids, NEW n \in Int
  PROVE  /\ Highest(S, n) \subseteq S
         /\ \A x \in Highest(S, n) : \A y \in S : x <= y => y \in Highest(S, n)
<1>1. Highest(S, n) \subseteq S
  BY DEF Highest
<1>2. ASSUME NEW x \in Highest(S, n), NEW y \in S, x <= y
      PROVE  y \in Highest(S, n)
  <2> DEFINE From(z) == {w \in S : w >= z}
  <2>1. S \subseteq Int /\ x \in S
    BY <1>1 DEF Ids
  <2>2. From(y) \subseteq From(x) /\ From(x) \subseteq Ids
    <3>1. \A w \in S : w >= y => w >= x
      BY <1>2, <2>1
    <3> QED
      BY <3>1
  <2>3. Cardinality(From(y)) <= Cardinality(From(x))
    BY <2>2, IdsFinite, FS_Subset
  <2>4. Cardinality(From(x)) <= n
    BY DEF Highest
  <2>5. Cardinality(From(x)) \in Nat /\ Cardinality(From(y)) \in Nat
    BY <2>2, IdsFinite
  <2>6. Cardinality(From(y)) <= n
    BY <2>3, <2>4, <2>5
  <2> QED
    BY <2>6 DEF Highest
<1> QED
  BY <1>1, <1>2

-----------------------------------------------------------------------------
(* Types *)

LEMMA PageTypes ==
  ASSUME TypeOK
  PROVE  /\ Kept \subseteq page /\ Kept \subseteq Ids
         /\ Ahead \subseteq present /\ Ahead \subseteq Ids
         /\ Behind \subseteq present /\ Behind \subseteq Ids
         /\ Cardinality(Kept) \in Nat
<1>1. /\ Kept \subseteq page /\ Kept \subseteq Ids
      /\ Ahead \subseteq present /\ Ahead \subseteq Ids
      /\ Behind \subseteq present /\ Behind \subseteq Ids
  BY DEF TypeOK, Kept, Ahead, Behind
<1> QED
  BY <1>1, IdsFinite

\* Both ends of a batch and of a page are part of it.
LEMMA PartTypes ==
  ASSUME TypeOK, NEW n \in Int
  PROVE  /\ Taken(n) \subseteq Kept
         /\ PageOf(n) \subseteq present
  BY PageTypes, LowestProperties, HighestProperties DEF Taken, PageOf

\* The oldest message of a first page from the newest end is one of the page.
LEMMA FirstType ==
  ASSUME TypeOK, page' \subseteq Ids,
         first' = IF FromNewest /\ page' # {} THEN Smallest(page') ELSE first
  PROVE  first' \in 0..MaxId
<1>1. CASE FromNewest /\ page' # {}
  <2>1. Smallest(page') \in Ids
    BY <1>1, SmallestProperties
  <2> QED
    BY <1>1, <2>1, FetchAssumption DEF Ids
<1>2. CASE ~(FromNewest /\ page' # {})
  BY <1>2 DEF TypeOK
<1> QED
  BY <1>1, <1>2

LEMMA NextOffsetType == TypeOK /\ page # {} => NextOffset \in page
  BY LargestProperties, SmallestProperties DEF TypeOK, NextOffset

LEMMA TypeInit == Init => TypeOK
<1> SUFFICES ASSUME Init PROVE TypeOK
  OBVIOUS
<1>1. ask \in Asked /\ MaxId \in Nat
  BY FetchAssumption DEF Init, Asked
<1>2. LastRead \in 0..MaxId
  BY <1>1 DEF Asked
<1>3. top \in 0..MaxId /\ present \subseteq Ids /\ offsetID \in 0..MaxId
  BY <1>1, <1>2 DEF Init, Ids
<1>4. first \in 0..MaxId
  BY <1>1 DEF Init
<1> QED
  BY <1>1, <1>3, <1>4 DEF Init, TypeOK

LEMMA TypeStep == TypeOK /\ [Next]_vars => TypeOK'
<1> SUFFICES ASSUME TypeOK, [Next]_vars
             PROVE  TypeOK'
  OBVIOUS
<1> USE DEF TypeOK, server, control
<1>1. ASSUME NEW id \in Ids, Arrive(id)
      PROVE  TypeOK'
  BY <1>1, FetchAssumption DEF Arrive, Ids
<1>2. ASSUME NEW id \in Ids, Delete(id)
      PROVE  TypeOK'
  BY <1>2 DEF Delete
<1>3. CASE RequestStop
  BY <1>3 DEF RequestStop
<1>4. CASE Cancel
  BY <1>4 DEF Cancel
<1>5. CASE Resolve
  <2>1. CASE pc' = "loop" /\ UNCHANGED <<fetched, count, truncated, outcome>>
    BY <1>5, <2>1 DEF Resolve
  <2>2. CASE Fail
    BY <1>5, <2>2 DEF Resolve, Fail, Finish
  <2> QED
    BY <1>5, <2>1, <2>2 DEF Resolve
<1>6. CASE CheckStop
  BY <1>6 DEF CheckStop, Finish
<1>7. CASE PaceDone
  BY <1>7 DEF PaceDone
<1>8. CASE PaceAborted
  <2>1. CASE stop
    BY <1>8, <2>1 DEF PaceAborted, Finish
  <2>2. CASE ~stop
    <3>1. Fail
      BY <1>8, <2>2 DEF PaceAborted
    <3>2. UNCHANGED <<server, control, offsetID, page, answered, first, late>>
      BY <1>8 DEF PaceAborted
    <3> QED
      BY <3>1, <3>2 DEF Fail, Finish
  <2> QED
    BY <2>1, <2>2
<1>9. CASE Answer
  <2>1. PICK n \in Int : page' = PageOf(n)
    BY <1>9, FetchAssumption DEF Answer
  <2>2. page' \subseteq Ids
    BY <2>1, PartTypes
  <2>3. first' \in 0..MaxId
    BY <1>9, <2>2, FirstType DEF Answer
  <2> QED
    BY <1>9, <2>2, <2>3 DEF Answer
<1>10. CASE RequestFailed
  BY <1>10 DEF RequestFailed, Fail, Finish
<1>11. CASE ProcessEmpty
  BY <1>11 DEF ProcessEmpty, Finish
<1>12. CASE ProcessLimit
  <2> DEFINE taken == Taken(Limit - count)
  <2>1. Limit - count \in Int
    BY FetchAssumption
  <2>2. taken \subseteq Ids /\ Cardinality(taken) \in Nat
    BY <2>1, PartTypes, PageTypes, IdsFinite
  <2> HIDE DEF taken
  <2>3. fetched' = fetched \cup taken /\ count' = count + Cardinality(taken)
    BY <1>12 DEF ProcessLimit, taken
  <2> QED
    BY <1>12, <2>2, <2>3 DEF ProcessLimit, Finish
<1>13. CASE ProcessBatch
  <2>1. Kept \subseteq Ids /\ Cardinality(Kept) \in Nat
    BY PageTypes
  <2>2. NextOffset \in Ids
    BY <1>13, NextOffsetType DEF ProcessBatch
  <2>3. offsetID' \in 0..MaxId
    BY <1>13, <2>2 DEF ProcessBatch, Ids
  <2>4. pc' \in {"done", "loop"} /\ outcome' \in {outcome, "stopped", "complete"}
    BY <1>13 DEF ProcessBatch, Finish
  <2> QED
    BY <1>13, <2>1, <2>3, <2>4 DEF ProcessBatch
<1>14. CASE UNCHANGED vars
  BY <1>14 DEF vars
<1> QED
  BY <1>1, <1>2, <1>3, <1>4, <1>5, <1>6, <1>7, <1>8, <1>9, <1>10, <1>11,
     <1>12, <1>13, <1>14 DEF Next, Outside, Walk, Reply, Process

\* Every variable keeps its type: the offset stays among the ids and the
\* counters are natural numbers.
THEOREM TypeCorrect == Spec => []TypeOK
  BY TypeInit, TypeStep, PTL DEF Spec

-----------------------------------------------------------------------------
(* Coverage of a walk by cursor *)

\* What the server has given out so far bounds every id the walk holds, so
\* that a message which arrives later is above all of them.
BelowTop ==
  /\ present \subseteq 1..top
  /\ page \subseteq 1..top
  /\ fetched \subseteq 1..top
  /\ offsetID <= top

\* An answer has no hole: what exists ahead of the offset, not below the first
\* page from the newest end, and below one of its messages is in it.
PageHasNoHole ==
  pc = "process" =>
    \A y \in page :
      /\ offsetID <= y
      /\ \A id \in present :
           id > LastRead /\ ~BelowFirstPage(id) /\ offsetID < id /\ id <= y => id \in page

\* The walk never goes back, so it asks with 0 only when nothing was read.
PastCursor == LastRead <= offsetID

\* Between answers the walk stands at the end of what it has processed.
PageBehind == pc \in {"resolve", "loop", "pace", "request"} => \A y \in page : y <= offsetID

FetchedBehind == pc # "done" => \A m \in fetched : m <= offsetID

\* All that is wanted up to the offset is fetched.
Covered ==
  outcome # "error" =>
    \A id \in present : Unread(id) /\ id <= offsetID => id \in fetched

\* The inductive invariant of a walk by cursor: NoUnreadSkipped alone is not
\* inductive, as it does not say what the answer in hand and the offset stand
\* for.
CursorInv ==
  /\ ~ByDate
  /\ TypeOK
  /\ BelowTop
  /\ PastCursor
  /\ PageHasNoHole
  /\ PageBehind
  /\ FetchedBehind
  /\ Covered
  /\ (pc = "done") = (outcome # "none")
  /\ NoUnreadSkipped
  /\ StoppedKeepsBatch

LEMMA InitCursor == Init /\ ~ByDate => CursorInv
<1> SUFFICES ASSUME Init, ~ByDate PROVE CursorInv
  OBVIOUS
<1>1. TypeOK
  BY TypeInit
<1>2. BelowTop /\ offsetID = LastRead
  BY <1>1, FetchAssumption DEF Init, BelowTop, ByDate
<1>3. Covered
  BY <1>1, <1>2 DEF Covered, Unread, BelowFirstPage, Wanted, ByDate, Ids, TypeOK
<1>4. PastCursor
  BY <1>1, <1>2 DEF PastCursor, TypeOK
<1> QED
  BY <1>1, <1>2, <1>3, <1>4
     DEF Init, CursorInv, PageHasNoHole, PageBehind, FetchedBehind,
         NoUnreadSkipped, StoppedKeepsBatch

\* The steps of the server and of the two signals.
LEMMA OutsideKeepsCursor == CursorInv /\ TypeOK' /\ Outside => CursorInv'
<1> SUFFICES ASSUME CursorInv, TypeOK', Outside PROVE CursorInv'
  OBVIOUS
<1> USE DEF CursorInv, TypeOK, BelowTop, Ids
<1>1. ASSUME NEW id \in Ids, Arrive(id)
      PROVE  CursorInv'
  <2> USE <1>1 DEF Arrive, control, ByDate
  <2>1. BelowTop'
    OBVIOUS
  <2>2. PastCursor' /\ PageHasNoHole' /\ PageBehind' /\ FetchedBehind'
    BY DEF PastCursor, BelowFirstPage, PageHasNoHole, PageBehind, FetchedBehind
  <2>3. Covered'
    BY DEF Covered, Unread, BelowFirstPage, Wanted, ByDate
  <2>4. NoUnreadSkipped'
    BY DEF NoUnreadSkipped, Unread, BelowFirstPage, Wanted, ByDate
  <2>5. StoppedKeepsBatch'
    BY DEF StoppedKeepsBatch, Unread, BelowFirstPage, Wanted, ByDate
  <2> QED
    BY <2>1, <2>2, <2>3, <2>4, <2>5
<1>2. ASSUME NEW id \in Ids, Delete(id)
      PROVE  CursorInv'
  BY <1>2 DEF Delete, control, PastCursor, PageHasNoHole, PageBehind, FetchedBehind,
     Covered, Unread, BelowFirstPage, Wanted, ByDate, NoUnreadSkipped, StoppedKeepsBatch
<1>3. CASE RequestStop \/ Cancel
  BY <1>3 DEF RequestStop, Cancel, server, PastCursor, PageHasNoHole, PageBehind,
     FetchedBehind, Covered, Unread, BelowFirstPage, Wanted, ByDate, NoUnreadSkipped,
     StoppedKeepsBatch
<1> QED
  BY <1>1, <1>2, <1>3 DEF Outside

\* A failure leaves an empty result, about which there is nothing to show.
LEMMA FailKeepsCursor ==
  CursorInv /\ TypeOK' /\ Fail /\ UNCHANGED <<server, control, offsetID, page, first>>
  => CursorInv'
  BY DEF CursorInv, Fail, Finish, server, control, ByDate, TypeOK, BelowTop, PastCursor,
     PageHasNoHole, PageBehind, FetchedBehind, Covered, NoUnreadSkipped, StoppedKeepsBatch

\* A walk that ends with what it has at the end of a processed page.
LEMMA FinishKeepsCursor ==
  ASSUME NEW how \in {"stopped", "complete"}
  PROVE  CursorInv /\ TypeOK' /\ pc \in {"loop", "pace"} /\ Finish(how)
         /\ UNCHANGED <<server, control, offsetID, page, first, fetched, count, truncated>>
         => CursorInv'
  BY DEF CursorInv, Finish, Unread, BelowFirstPage, Wanted, server, control, ByDate, TypeOK,
     BelowTop, PastCursor, PageHasNoHole, PageBehind, FetchedBehind, Covered,
     NoUnreadSkipped, StoppedKeepsBatch

\* A first answer from the newest end has no hole from its oldest message on.
LEMMA NewestAnswerKeepsCursor == CursorInv /\ TypeOK' /\ Answer /\ FromNewest => CursorInv'
<1> SUFFICES ASSUME CursorInv, TypeOK', Answer, FromNewest PROVE CursorInv'
  OBVIOUS
<1> USE DEF CursorInv
<1>1. PICK n \in Int : page' = Highest(Ahead, n)
  BY FetchAssumption DEF Answer, PageOf
<1>2. Ahead \subseteq present /\ Ahead \in SUBSET Ids
  BY PageTypes
<1>3. /\ page' \subseteq Ahead
      /\ \A y \in page' : \A id \in Ahead : y <= id => id \in page'
  BY <1>1, <1>2, HighestProperties
<1>4. /\ UNCHANGED <<ask, present, top, offsetID, fetched, outcome>>
      /\ pc = "request" /\ pc' = "process" /\ outcome = "none"
      /\ page' # {} => first' = Smallest(page')
  BY DEF Answer, server, control, TypeOK
<1>5. page' # {} => first' \in page'
  BY <1>2, <1>3, <1>4, SmallestProperties
<1>6. PageHasNoHole'
  <2>1. LastRead = 0 /\ ZeroIsNewest
    BY DEF FromNewest, PastCursor, TypeOK, Asked
  <2> QED
    BY <1>3, <1>4, <1>5, <2>1 DEF PageHasNoHole, BelowFirstPage, Ahead, TypeOK, Ids
<1>7. BelowTop'
  BY <1>2, <1>3, <1>4 DEF BelowTop
<1>8. fetched = {} /\ offsetID = 0
  BY <1>4 DEF FromNewest, FetchedBehind, TypeOK, Ids
<1> QED
  BY <1>4, <1>6, <1>7, <1>8 DEF PastCursor, PageBehind, FetchedBehind, Covered, TypeOK, Ids,
     ByDate, NoUnreadSkipped, StoppedKeepsBatch

\* Any other answer is the lowest part of what is ahead, so it has no hole.
LEMMA OldestAnswerKeepsCursor == CursorInv /\ TypeOK' /\ Answer /\ ~FromNewest => CursorInv'
<1> SUFFICES ASSUME CursorInv, TypeOK', Answer, ~FromNewest PROVE CursorInv'
  OBVIOUS
<1> USE DEF CursorInv
<1>1. PICK n \in Int : page' = Lowest(Ahead, n)
  BY FetchAssumption DEF Answer, PageOf
<1>2. Ahead \subseteq present /\ Ahead \in SUBSET Ids
  BY PageTypes
<1>3. /\ page' \subseteq Ahead
      /\ \A y \in page' : \A id \in Ahead : id <= y => id \in page'
  BY <1>1, <1>2, LowestProperties
<1>4. /\ UNCHANGED <<ask, present, top, offsetID, fetched, outcome, first>>
      /\ pc = "request" /\ pc' = "process"
  BY DEF Answer, server, control
<1>5. PageHasNoHole'
  BY <1>3, <1>4 DEF PageHasNoHole, BelowFirstPage, Ahead, TypeOK, Ids
<1>6. BelowTop'
  BY <1>2, <1>3, <1>4 DEF BelowTop
<1> QED
  BY <1>4, <1>5, <1>6 DEF PastCursor, PageBehind, FetchedBehind, Covered, Unread,
     BelowFirstPage, Wanted, ByDate, NoUnreadSkipped, StoppedKeepsBatch

\* What is unread up to a message of the page is fetched before it or kept.
LEMMA PageCovered ==
  ASSUME CursorInv, pc = "process", NEW y \in page, NEW id \in present,
         Unread(id), id <= y
  PROVE  id \in fetched \cup Kept
<1> USE DEF CursorInv, TypeOK, Ids, Unread
<1>1. CASE id <= offsetID
  BY <1>1 DEF Covered
<1>2. CASE offsetID < id
  BY <1>2 DEF PageHasNoHole, Wanted, ByDate, Kept, TooOld
<1> QED
  BY <1>1, <1>2

LEMMA ProcessLimitKeepsCursor == CursorInv /\ TypeOK' /\ ProcessLimit => CursorInv'
<1> SUFFICES ASSUME CursorInv, TypeOK', ProcessLimit PROVE CursorInv'
  OBVIOUS
<1> USE DEF CursorInv
<1> DEFINE taken == Lowest(Kept, Limit - count)
<1>1. Limit - count \in Int
  BY FetchAssumption DEF TypeOK
<1>2. Kept \in SUBSET Ids /\ Kept \subseteq page
  BY PageTypes
<1>3. /\ taken \subseteq Kept
      /\ \A x \in taken : \A y \in Kept : y <= x => y \in taken
  BY <1>1, <1>2, LowestProperties
<1>4. fetched' = fetched \cup taken
  BY DEF ProcessLimit, Taken
<1> HIDE DEF taken
<1>5. /\ UNCHANGED <<ask, present, top, offsetID, page, first>>
      /\ pc = "process" /\ pc' = "done" /\ outcome = "none" /\ outcome' = "complete"
  BY DEF ProcessLimit, Finish, server, control, TypeOK
<1>6. NoUnreadSkipped'
  <2> SUFFICES ASSUME NEW m \in fetched', NEW id \in present, Unread(id), id <= m
               PROVE  id \in fetched'
    BY <1>5 DEF NoUnreadSkipped, Unread, BelowFirstPage, Wanted, ByDate
  <2>1. CASE m \in fetched
    BY <2>1, <1>4 DEF NoUnreadSkipped
  <2>2. CASE m \in taken
    BY <2>2, <1>2, <1>3, <1>4, <1>5, PageCovered
  <2> QED
    BY <2>1, <2>2, <1>4
<1>7. BelowTop'
  BY <1>2, <1>3, <1>4, <1>5 DEF BelowTop
<1> QED
  BY <1>4, <1>5, <1>6, <1>7 DEF PastCursor, PageHasNoHole, PageBehind, FetchedBehind,
     Covered, Unread, BelowFirstPage, Wanted, ByDate, StoppedKeepsBatch

LEMMA ProcessBatchKeepsCursor == CursorInv /\ TypeOK' /\ ProcessBatch => CursorInv'
<1> SUFFICES ASSUME CursorInv, TypeOK', ProcessBatch PROVE CursorInv'
  OBVIOUS
<1> USE DEF CursorInv
<1>1. /\ fetched' = fetched \cup Kept
      /\ UNCHANGED <<ask, present, top, page, first>>
      /\ pc = "process" /\ outcome = "none"
      /\ Kept \subseteq page
      /\ ~ReachedSince
  BY PageTypes DEF ProcessBatch, server, control, TypeOK, ReachedSince, TooOld
<1>2. page # {} /\ page \in SUBSET Ids
  BY DEF ProcessBatch, TypeOK
<1>3. NextOffset \in page /\ \A y \in page : y <= NextOffset
  BY <1>2, LargestProperties DEF NextOffset
<1>4. NoUnreadSkipped'
  <2> SUFFICES ASSUME NEW m \in fetched', NEW id \in present, Unread(id), id <= m
               PROVE  id \in fetched'
    BY <1>1 DEF NoUnreadSkipped, Unread, BelowFirstPage, Wanted, ByDate
  <2>1. CASE m \in fetched
    BY <2>1, <1>1 DEF NoUnreadSkipped
  <2>2. CASE m \in page
    BY <2>2, <1>1, PageCovered
  <2> QED
    BY <2>1, <2>2, <1>1
<1>5. CASE stop
  <2>1. offsetID' = offsetID /\ pc' = "done" /\ outcome' = "stopped"
    BY <1>5 DEF ProcessBatch, Finish
  <2>2. BelowTop'
    BY <2>1, <1>1 DEF BelowTop
  <2>3. StoppedKeepsBatch'
    BY <1>1, <2>1, PageCovered DEF StoppedKeepsBatch, Covered, Unread, BelowFirstPage,
       Wanted, ByDate
  <2> QED
    BY <1>1, <1>4, <2>1, <2>2, <2>3 DEF PastCursor, PageHasNoHole, PageBehind,
       FetchedBehind, Covered, Unread, BelowFirstPage, Wanted, ByDate
<1>6. CASE ~stop
  <2>1. /\ offsetID' = NextOffset
        /\ \/ pc' = "done" /\ outcome' = "complete"
           \/ pc' = "loop" /\ outcome' = "none"
    BY <1>1, <1>6 DEF ProcessBatch, Finish
  <2>2. Covered'
    BY <1>1, <1>3, <2>1, PageCovered DEF Covered, Unread, BelowFirstPage, Wanted, ByDate
  <2>3. PastCursor' /\ FetchedBehind' /\ PageBehind'
    <3>1. \A m \in fetched : m <= NextOffset
      BY <1>1, <1>3 DEF FetchedBehind, PageHasNoHole, TypeOK, Ids
    <3>2. LastRead <= NextOffset
      <4>1. LastRead \in Int /\ offsetID \in Int /\ NextOffset \in Int
        BY <1>2, <1>3 DEF TypeOK, Asked, Ids
      <4>2. LastRead <= offsetID /\ offsetID <= NextOffset
        BY <1>1, <1>3 DEF PastCursor, PageHasNoHole
      <4> QED
        BY <4>1, <4>2
    <3> QED
      BY <1>1, <1>3, <2>1, <3>1, <3>2 DEF PastCursor, FetchedBehind, PageBehind
  <2>4. BelowTop'
    BY <1>1, <1>3, <2>1 DEF BelowTop
  <2> QED
    BY <1>1, <1>4, <2>1, <2>2, <2>3, <2>4 DEF PageHasNoHole, StoppedKeepsBatch, ByDate
<1> QED
  BY <1>5, <1>6

LEMMA StepCursor == CursorInv /\ [Next]_vars => CursorInv'
<1> SUFFICES ASSUME CursorInv, [Next]_vars PROVE CursorInv'
  OBVIOUS
<1>0. TypeOK'
  BY TypeStep DEF CursorInv
<1>1. CASE Outside
  BY <1>0, <1>1, OutsideKeepsCursor
<1>2. CASE Resolve
  <2>1. CASE Fail
    BY <1>0, <1>2, <2>1, FailKeepsCursor DEF Resolve
  <2>2. CASE pc' = "loop" /\ UNCHANGED <<fetched, count, truncated, outcome>>
    BY <1>0, <1>2, <2>2 DEF Resolve, server, control, CursorInv, BelowTop, PastCursor,
       PageHasNoHole, PageBehind, FetchedBehind, Covered, Unread, BelowFirstPage, Wanted,
       ByDate, NoUnreadSkipped, StoppedKeepsBatch
  <2> QED
    BY <1>2, <2>1, <2>2 DEF Resolve
<1>3. CASE CheckStop
  <2>1. CASE stop
    BY <1>0, <1>3, <2>1, FinishKeepsCursor DEF CheckStop
  <2>2. CASE ~stop
    BY <1>0, <1>3, <2>2 DEF CheckStop, server, control, CursorInv, BelowTop, PastCursor,
       PageHasNoHole, PageBehind, FetchedBehind, Covered, Unread, BelowFirstPage, Wanted,
       ByDate, NoUnreadSkipped, StoppedKeepsBatch
  <2> QED
    BY <2>1, <2>2
<1>4. CASE PaceDone
  BY <1>0, <1>4 DEF PaceDone, server, control, CursorInv, BelowTop, PastCursor,
     PageHasNoHole, PageBehind, FetchedBehind, Covered, Unread, BelowFirstPage, Wanted,
     ByDate, NoUnreadSkipped, StoppedKeepsBatch
<1>5. CASE PaceAborted
  <2>1. CASE stop
    BY <1>0, <1>5, <2>1, FinishKeepsCursor DEF PaceAborted
  <2>2. CASE ~stop
    BY <1>0, <1>5, <2>2, FailKeepsCursor DEF PaceAborted
  <2> QED
    BY <2>1, <2>2
<1>6. CASE RequestFailed
  BY <1>0, <1>6, FailKeepsCursor DEF RequestFailed
<1>7. CASE ProcessEmpty
  BY <1>0, <1>7 DEF ProcessEmpty, Finish, server, control, CursorInv, TypeOK, BelowTop,
     PastCursor, PageHasNoHole, PageBehind, FetchedBehind, Covered, Unread, BelowFirstPage,
     Wanted, ByDate, NoUnreadSkipped, StoppedKeepsBatch
<1>8. CASE UNCHANGED vars
  BY <1>0, <1>8 DEF vars, CursorInv, BelowTop, PastCursor, PageHasNoHole, PageBehind,
     FetchedBehind, Covered, Unread, BelowFirstPage, Wanted, ByDate, NoUnreadSkipped,
     StoppedKeepsBatch
<1> QED
  BY <1>0, <1>1, <1>2, <1>3, <1>4, <1>5, <1>6, <1>7, <1>8, NewestAnswerKeepsCursor,
     OldestAnswerKeepsCursor, ProcessLimitKeepsCursor, ProcessBatchKeepsCursor DEF Next,
     Walk, Reply, Process

-----------------------------------------------------------------------------
(* Coverage of a walk by date *)

\* An answer has no hole: what is due below the offset and above one of its
\* messages is in it.
DatePageHasNoHole ==
  pc = "process" =>
    \A y \in page : \A id \in present :
      Due(id) /\ (offsetID = 0 \/ id < offsetID) /\ y <= id => id \in page

\* What is due from the offset on is fetched.
DateCovered ==
  outcome # "error" /\ offsetID # 0 =>
    \A id \in present : Due(id) /\ offsetID <= id => id \in fetched

\* Before the first answer nothing is fetched: what is due is settled by it.
NothingBefore == offsetID = 0 /\ pc \notin {"process", "done"} => fetched = {}

\* The inductive invariant of a walk by date.
DateInv ==
  /\ ByDate
  /\ TypeOK
  /\ present \cup answered \subseteq 1..top
  /\ DatePageHasNoHole
  /\ DateCovered
  /\ NothingBefore
  /\ (pc = "done") = (outcome # "none")
  /\ NewestPartFirst

LEMMA InitDate == Init /\ ByDate => DateInv
<1> SUFFICES ASSUME Init, ByDate PROVE DateInv
  OBVIOUS
<1>1. TypeOK
  BY TypeInit
<1>2. offsetID = 0
  BY DEF Init, ByDate
<1> QED
  BY <1>1, <1>2
     DEF Init, DateInv, DatePageHasNoHole, DateCovered, NothingBefore, NewestPartFirst

\* What is due only gets less while the range and the first answer stay: a
\* message that arrives is not, one that is deleted is not any more.
LEMMA DueShrinks ==
  ASSUME DateInv, UNCHANGED <<ask, answered>>,
         \/ present' \subseteq present
         \/ \E id \in Ids : id > top /\ present' = present \cup {id}
  PROVE  \A id \in present' : Due(id)' => id \in present /\ Due(id)
<1> SUFFICES ASSUME NEW id \in present', Due(id)' PROVE id \in present /\ Due(id)
  OBVIOUS
<1>1. id \in answered /\ Wanted(id) /\ ~LastSecond(id)
  BY DEF Due, Wanted, ByDate, LastSecond
<1>2. id \in 1..top
  BY <1>1 DEF DateInv
<1>3. id \in present
  BY <1>2 DEF DateInv, TypeOK, Ids
<1> QED
  BY <1>1, <1>3 DEF Due

\* A step that only moves on, or ends with what it has or with nothing.
LEMMA QuietKeepsDate ==
  ASSUME DateInv, TypeOK', UNCHANGED <<ask, answered, offsetID, page>>,
         present' \cup answered' \subseteq 1..top',
         \/ present' \subseteq present
         \/ \E id \in Ids : id > top /\ present' = present \cup {id},
         \/ fetched' = fetched
         \/ fetched' = {} /\ outcome' = "error",
         pc' \in {pc, "done"} \/ (pc # "process" /\ pc' # "process" /\ pc # "done"),
         (pc' = "done") = (outcome' # "none"),
         outcome = "error" => outcome' = "error"
  PROVE  DateInv'
<1>1. \A id \in present' : Due(id)' => id \in present /\ Due(id)
  BY DueShrinks
<1> USE DEF DateInv
<1>2. DatePageHasNoHole'
  BY <1>1 DEF DatePageHasNoHole
<1>3. DateCovered'
  BY <1>1 DEF DateCovered
<1>4. NothingBefore'
  BY DEF NothingBefore
<1>5. NewestPartFirst'
  BY <1>1 DEF NewestPartFirst, ByDate
<1> QED
  BY <1>2, <1>3, <1>4, <1>5 DEF ByDate

LEMMA OutsideKeepsDate == DateInv /\ TypeOK' /\ Outside => DateInv'
<1> SUFFICES ASSUME DateInv, TypeOK', Outside PROVE DateInv'
  OBVIOUS
<1> USE DEF DateInv, control, server
<1>1. ASSUME NEW id \in Ids, Arrive(id)
      PROVE  DateInv'
  <2>1. present' \cup answered' \subseteq 1..top'
    BY <1>1 DEF Arrive, TypeOK, Ids
  <2> QED
    BY <1>1, <2>1, QuietKeepsDate DEF Arrive
<1>2. ASSUME NEW id \in Ids, Delete(id)
      PROVE  DateInv'
  <2>1. present' \cup answered' \subseteq 1..top' /\ present' \subseteq present
    BY <1>2 DEF Delete
  <2> QED
    BY <1>2, <2>1, QuietKeepsDate DEF Delete
<1>3. CASE RequestStop \/ Cancel
  BY <1>3, QuietKeepsDate DEF RequestStop, Cancel
<1> QED
  BY <1>1, <1>2, <1>3 DEF Outside

\* What is due in a first answer is behind the end of the range, and what is
\* due in a later one and below the offset is behind that.
LEMMA DueIsBehind ==
  ASSUME TypeOK, ByDate, UNCHANGED <<ask, present>>,
         NEW id \in present, Due(id)', offsetID = 0 \/ id < offsetID
  PROVE  id \in Behind
<1>1. CASE offsetID # 0
  BY <1>1 DEF Behind
<1>2. CASE offsetID = 0
  <2>1. DateOf[id] <= ask.until /\ (DateInclusive \/ DateOf[id] # ask.until)
    BY DEF Due, Wanted, ByDate, LastSecond
  <2>2. DateOf[id] \in Int /\ ask.until \in Int
    BY FetchAssumption DEF TypeOK, Asked
  <2> QED
    BY <1>2, <2>1, <2>2 DEF Behind
<1> QED
  BY <1>1, <1>2

\* The answer is the highest part of what is behind the offset, so it has no hole.
LEMMA AnswerKeepsDate == DateInv /\ TypeOK' /\ Answer => DateInv'
<1> SUFFICES ASSUME DateInv, TypeOK', Answer PROVE DateInv'
  OBVIOUS
<1> USE DEF DateInv
<1>1. PICK n \in Int : page' = Highest(Behind, n)
  BY FetchAssumption DEF Answer, PageOf
<1>2. Behind \in SUBSET Ids
  BY PageTypes
<1>3. \A y \in page' : \A id \in Behind : y <= id => id \in page'
  BY <1>1, <1>2, HighestProperties
<1>4. /\ UNCHANGED <<ask, present, top, offsetID, fetched, outcome>>
      /\ pc = "request" /\ pc' = "process"
      /\ answered' = IF offsetID # 0 THEN answered ELSE present
  BY DEF Answer, server, control
<1>5. \A id \in present :
        Due(id)' /\ (offsetID = 0 \/ id < offsetID) => id \in Behind
  BY <1>4, DueIsBehind
<1>6. DatePageHasNoHole'
  BY <1>3, <1>4, <1>5 DEF DatePageHasNoHole
<1>7. CASE offsetID = 0
  <2>1. fetched' = {}
    BY <1>4, <1>7 DEF NothingBefore
  <2> QED
    BY <1>4, <1>6, <1>7, <2>1 DEF DateCovered, NothingBefore, NewestPartFirst, ByDate
<1>8. CASE offsetID # 0
  <2>1. \A id \in present : Due(id)' => Due(id)
    BY <1>4, <1>8 DEF Due, Wanted, ByDate, LastSecond
  <2> QED
    BY <1>4, <1>6, <1>8, <2>1 DEF DateCovered, NothingBefore, NewestPartFirst, ByDate
<1> QED
  BY <1>7, <1>8

\* What is due above a message the batch keeps is fetched before it or kept.
LEMMA BatchCovered ==
  ASSUME DateInv, pc = "process", outcome = "none",
         NEW y \in page, NEW id \in present, Due(id), y <= id,
         \A old \in page : TooOld(old) => y > old
  PROVE  id \in fetched \cup Kept
<1> USE DEF DateInv
<1>1. CASE offsetID # 0 /\ offsetID <= id
  BY <1>1 DEF DateCovered
<1>2. CASE offsetID = 0 \/ id < offsetID
  <2>1. id \in page
    BY <1>2 DEF DatePageHasNoHole
  <2>2. \A old \in page : TooOld(old) => id > old
    BY DEF TypeOK, Ids
  <2> QED
    BY <2>1, <2>2 DEF Kept, Due
<1> QED
  BY <1>1, <1>2 DEF TypeOK, Ids

LEMMA ProcessLimitKeepsDate == DateInv /\ TypeOK' /\ ProcessLimit => DateInv'
<1> SUFFICES ASSUME DateInv, TypeOK', ProcessLimit PROVE DateInv'
  OBVIOUS
<1> USE DEF DateInv
<1> DEFINE taken == Highest(Kept, Limit - count)
<1>1. Limit - count \in Int
  BY FetchAssumption DEF TypeOK
<1>2. Kept \in SUBSET Ids /\ Kept \subseteq page
  BY PageTypes
<1>3. /\ taken \subseteq Kept
      /\ \A x \in taken : \A y \in Kept : x <= y => y \in taken
  BY <1>1, <1>2, HighestProperties
<1>4. fetched' = fetched \cup taken
  BY DEF ProcessLimit, Taken
<1> HIDE DEF taken
<1>5. /\ UNCHANGED <<ask, present, top, offsetID, page, answered>>
      /\ pc = "process" /\ pc' = "done" /\ outcome = "none" /\ outcome' = "complete"
  BY DEF ProcessLimit, Finish, server, control
<1>6. \A id \in present : Due(id)' => Due(id)
  BY <1>5, DueShrinks
<1>7. NewestPartFirst'
  <2> SUFFICES ASSUME NEW m \in fetched', NEW id \in present, Due(id), m <= id
               PROVE  id \in fetched'
    BY <1>5, <1>6 DEF NewestPartFirst
  <2>1. CASE m \in fetched
    BY <2>1, <1>4 DEF NewestPartFirst
  <2>2. CASE m \in taken
    <3>1. m \in page /\ \A old \in page : TooOld(old) => m > old
      BY <2>2, <1>3 DEF Kept
    <3> QED
      BY <2>2, <3>1, <1>3, <1>4, <1>5, BatchCovered
  <2> QED
    BY <2>1, <2>2, <1>4
<1> QED
  BY <1>4, <1>5, <1>6, <1>7 DEF DatePageHasNoHole, DateCovered, NothingBefore, ByDate

LEMMA ProcessBatchKeepsDate == DateInv /\ TypeOK' /\ ProcessBatch => DateInv'
<1> SUFFICES ASSUME DateInv, TypeOK', ProcessBatch PROVE DateInv'
  OBVIOUS
<1> USE DEF DateInv
<1>1. /\ fetched' = fetched \cup Kept
      /\ UNCHANGED <<ask, present, top, page, answered>>
      /\ pc = "process" /\ outcome = "none"
  BY DEF ProcessBatch, server, control
<1>2. page # {} /\ page \in SUBSET Ids
  BY DEF ProcessBatch, TypeOK
<1>3. NextOffset \in page /\ \A y \in page : NextOffset <= y
  BY <1>2, SmallestProperties DEF NextOffset
<1>4. \A id \in present : Due(id)' => Due(id)
  BY <1>1, DueShrinks
<1>5. NewestPartFirst'
  <2> SUFFICES ASSUME NEW m \in fetched', NEW id \in present, Due(id), m <= id
               PROVE  id \in fetched'
    BY <1>1, <1>4 DEF NewestPartFirst
  <2>1. CASE m \in fetched
    BY <2>1, <1>1 DEF NewestPartFirst
  <2>2. CASE m \in Kept
    BY <2>2, <1>1, BatchCovered DEF Kept
  <2> QED
    BY <2>1, <2>2, <1>1
<1>6. CASE stop \/ ReachedSince
  <2>1. offsetID' = offsetID /\ pc' = "done" /\ outcome' \in {"stopped", "complete"}
    BY <1>6 DEF ProcessBatch, Finish
  <2> QED
    BY <1>1, <1>4, <1>5, <2>1 DEF DatePageHasNoHole, DateCovered, NothingBefore, ByDate
<1>7. CASE ~stop /\ ~ReachedSince
  <2>1. /\ offsetID' = NextOffset
        /\ \/ pc' = "done" /\ outcome' = "complete"
           \/ pc' = "loop" /\ outcome' = "none"
    BY <1>1, <1>7 DEF ProcessBatch, Finish
  <2>2. DateCovered'
    BY <1>1, <1>3, <1>4, <1>7, <2>1, BatchCovered DEF DateCovered, ReachedSince
  <2>3. offsetID' # 0
    BY <1>2, <1>3, <2>1 DEF Ids
  <2> QED
    BY <1>1, <1>5, <2>1, <2>2, <2>3 DEF DatePageHasNoHole, NothingBefore, ByDate
<1> QED
  BY <1>6, <1>7

LEMMA StepDate == DateInv /\ [Next]_vars => DateInv'
<1> SUFFICES ASSUME DateInv, [Next]_vars PROVE DateInv'
  OBVIOUS
<1>0. TypeOK'
  BY TypeStep DEF DateInv
<1>1. CASE Outside
  BY <1>0, <1>1, OutsideKeepsDate
<1>2. CASE Resolve
  BY <1>0, <1>2, QuietKeepsDate DEF Resolve, Fail, Finish, server, control, DateInv
<1>3. CASE CheckStop
  BY <1>0, <1>3, QuietKeepsDate DEF CheckStop, Finish, server, control, DateInv
<1>4. CASE PaceDone
  BY <1>0, <1>4, QuietKeepsDate DEF PaceDone, server, control, DateInv
<1>5. CASE PaceAborted
  BY <1>0, <1>5, QuietKeepsDate DEF PaceAborted, Fail, Finish, server, control, DateInv
<1>6. CASE RequestFailed
  BY <1>0, <1>6, QuietKeepsDate DEF RequestFailed, Fail, Finish, server, control, DateInv
<1>7. CASE ProcessEmpty
  BY <1>0, <1>7, QuietKeepsDate DEF ProcessEmpty, Finish, server, control, DateInv
<1>8. CASE UNCHANGED vars
  BY <1>0, <1>8, QuietKeepsDate DEF vars, DateInv
<1> QED
  BY <1>0, <1>1, <1>2, <1>3, <1>4, <1>5, <1>6, <1>7, <1>8, AnswerKeepsDate,
     ProcessLimitKeepsDate, ProcessBatchKeepsDate DEF Next, Walk, Reply, Process

-----------------------------------------------------------------------------
(* Coverage of both *)

\* What a walk is for is settled when it starts.
IInv == CursorInv \/ DateInv

LEMMA InitIInv == Init => IInv
  BY InitCursor, InitDate DEF IInv

LEMMA StepIInv == IInv /\ [Next]_vars => IInv'
  BY StepCursor, StepDate DEF IInv

\* However the history changes between two answers, and wherever the walk is
\* stopped, truncated or fails, no unread text below a fetched one is missing
\* from the result: the newest fetched id is a safe read cursor.  What a chat
\* that was never read has below a first page from the newest end is all that
\* is excepted: nothing for a cursor above 0, whatever the server reads in 0.
THEOREM NothingSkipped == Spec => []NoUnreadSkipped
<1>1. IInv => NoUnreadSkipped
  BY DEF IInv, CursorInv, DateInv, NoUnreadSkipped
<1> QED
  BY <1>1, InitIInv, StepIInv, PTL DEF Spec

\* The result of a stopped walk, which the code calls safe to mark as read,
\* has every unread text up to the end of the last answer it received, with
\* the same exception.
THEOREM StoppedPrefixSafe == Spec => []StoppedKeepsBatch
<1>1. IInv => StoppedKeepsBatch
  BY DEF IInv, CursorInv, DateInv, StoppedKeepsBatch
<1> QED
  BY <1>1, InitIInv, StepIInv, PTL DEF Spec

\* A walk by date that the limit or a stop cuts short misses only what is older
\* than all it has, also when messages arrive or go while it is under way.
THEOREM NewestPart == Spec => []NewestPartFirst
<1>1. IInv => NewestPartFirst
  BY DEF IInv, CursorInv, DateInv, NewestPartFirst
<1> QED
  BY <1>1, InitIInv, StepIInv, PTL DEF Spec

-----------------------------------------------------------------------------
(* A walk that ends by itself has everything *)

\* A part that is smaller than asked for is all of the set: the largest
\* element that is missing would have fitted in.
LEMMA ShortHighestIsAll ==
  ASSUME NEW S \in SUBSET Ids, NEW n \in Nat, Cardinality(Highest(S, n)) < n
  PROVE  Highest(S, n) = S
<1> DEFINE H == Highest(S, n)
           x == Largest(S \ H)
           From == {y \in S : y >= x}
<1> SUFFICES ASSUME S \ H # {} PROVE FALSE
  BY DEF Highest
<1>1. x \in S \ H /\ \A y \in S \ H : y <= x
  BY LargestProperties
<1>2. From \subseteq H \cup {x}
  <2> HIDE DEF x, H
  <2>1. ASSUME NEW y \in S, y >= x, y \notin H PROVE y = x
    <3>1. x \in Int /\ y \in Int
      BY <1>1 DEF Ids
    <3>2. y <= x
      BY <1>1, <2>1
    <3> QED
      BY <2>1, <3>1, <3>2
  <2> QED
    BY <2>1
<1>3. H \in SUBSET Ids /\ IsFiniteSet(H) /\ x \notin H
  BY <1>1, IdsFinite DEF Highest
<1>4. Cardinality(H \cup {x}) = Cardinality(H) + 1 /\ IsFiniteSet(H \cup {x})
  BY <1>3, FS_AddElement
<1>5. Cardinality(From) <= Cardinality(H \cup {x})
  BY <1>2, <1>4, FS_Subset
<1>6. Cardinality(H) \in Nat /\ Cardinality(From) \in Nat
  BY <1>3, IdsFinite
<1>7. Cardinality(From) <= n
  BY <1>4, <1>5, <1>6
<1> QED
  BY <1>1, <1>7 DEF Highest

\* The same for the other end.
LEMMA ShortLowestIsAll ==
  ASSUME NEW S \in SUBSET Ids, NEW n \in Nat, Cardinality(Lowest(S, n)) < n
  PROVE  Lowest(S, n) = S
<1> DEFINE L == Lowest(S, n)
           x == Smallest(S \ L)
           Upto == {y \in S : y <= x}
<1> SUFFICES ASSUME S \ L # {} PROVE FALSE
  BY DEF Lowest
<1>1. x \in S \ L /\ \A y \in S \ L : x <= y
  BY SmallestProperties
<1>2. Upto \subseteq L \cup {x}
  <2> HIDE DEF x, L
  <2>1. ASSUME NEW y \in S, y <= x, y \notin L PROVE y = x
    <3>1. x \in Int /\ y \in Int
      BY <1>1 DEF Ids
    <3>2. x <= y
      BY <1>1, <2>1
    <3> QED
      BY <2>1, <3>1, <3>2
  <2> QED
    BY <2>1
<1>3. L \in SUBSET Ids /\ IsFiniteSet(L) /\ x \notin L
  BY <1>1, IdsFinite DEF Lowest
<1>4. Cardinality(L \cup {x}) = Cardinality(L) + 1 /\ IsFiniteSet(L \cup {x})
  BY <1>3, FS_AddElement
<1>5. Cardinality(Upto) <= Cardinality(L \cup {x})
  BY <1>2, <1>4, FS_Subset
<1>6. Cardinality(L) \in Nat /\ Cardinality(Upto) \in Nat
  BY <1>3, IdsFinite
<1>7. Cardinality(Upto) <= n
  BY <1>4, <1>5, <1>6
<1> QED
  BY <1>1, <1>7 DEF Lowest

\* An answer that is not full has all that is ahead of the offset but for what
\* the server kept back.
LEMMA ShortAnswer ==
  ASSUME TypeOK, TypeOK', PastCursor, Answer, ~ByDate, Cardinality(page') < BatchSize,
         NEW id \in Ahead, ~BelowFirstPage(id)', ~KeptBack(id)'
  PROVE  id \in page'
<1>1. PICK n \in 1..BatchSize : page' = PageOf(n) /\ (~ShortPages => n = BatchSize)
  BY FetchAssumption DEF Answer
<1>2. BatchSize \in Nat /\ n \in Nat /\ Ahead \in SUBSET Ids /\ page' \in SUBSET Ids
  BY PageTypes, FetchAssumption DEF TypeOK
<1>3. CASE Cardinality(page') < n
  BY <1>1, <1>2, <1>3, ShortLowestIsAll, ShortHighestIsAll DEF PageOf
<1>4. CASE ~(Cardinality(page') < n)
  <2>1. ShortPages /\ page' # {}
    BY <1>1, <1>2, <1>4, FS_EmptySet
  <2>2. CASE FromNewest
    <3>1. first' = Smallest(page') /\ page' = Highest(Ahead, n)
      BY <1>1, <2>1, <2>2 DEF Answer, PageOf
    <3>2. first' \in page'
      BY <1>2, <2>1, <3>1, SmallestProperties
    <3>3. LastRead' = 0 /\ ZeroIsNewest
      BY <2>2 DEF FromNewest, PastCursor, Answer, control, TypeOK, Asked
    <3>4. first' <= id
      BY <1>2, <3>2, <3>3 DEF BelowFirstPage, Ids
    <3> QED
      BY <1>2, <3>1, <3>2, <3>4, HighestProperties
  <2>3. CASE ~FromNewest
    <3>1. page' = Lowest(Ahead, n)
      BY <1>1, <2>3 DEF PageOf
    <3>2. ~(Largest(page') < id) /\ Largest(page') \in page'
      <4>1. ~ByDate'
        BY DEF ByDate, Answer, control
      <4>2. Largest(page') \in page'
        BY <1>2, <2>1, LargestProperties
      <4> QED
        BY <2>1, <4>1, <4>2 DEF KeptBack
    <3>3. id \in Int /\ Largest(page') \in Int
      <4>1. page' \subseteq Int /\ Ahead \subseteq Int
        BY <1>2 DEF Ids
      <4> QED
        BY <3>2, <4>1
    <3>4. id <= Largest(page')
      BY <3>2, <3>3
    <3> QED
      BY <1>2, <3>1, <3>2, <3>4, LowestProperties
  <2> QED
    BY <2>2, <2>3
<1> QED
  BY <1>3, <1>4

\* By date it has all that is behind the offset but for what was kept back.
LEMMA ShortDateAnswer ==
  ASSUME TypeOK, TypeOK', Answer, ByDate, Cardinality(page') < BatchSize,
         NEW id \in Behind, ~KeptBack(id)'
  PROVE  id \in page'
<1>1. PICK n \in 1..BatchSize : page' = Highest(Behind, n) /\ (~ShortPages => n = BatchSize)
  BY FetchAssumption DEF Answer, PageOf
<1>2. BatchSize \in Nat /\ n \in Nat /\ Behind \in SUBSET Ids /\ page' \in SUBSET Ids
  BY PageTypes, FetchAssumption DEF TypeOK
<1>3. CASE Cardinality(page') < n
  BY <1>1, <1>2, <1>3, ShortHighestIsAll
<1>4. CASE ~(Cardinality(page') < n)
  <2>1. ShortPages /\ page' # {}
    BY <1>1, <1>2, <1>4, FS_EmptySet
  <2>2. ~(id < Smallest(page')) /\ Smallest(page') \in page'
    <3>1. ByDate'
      BY DEF ByDate, Answer, control
    <3>2. Smallest(page') \in page'
      BY <1>2, <2>1, SmallestProperties
    <3> QED
      BY <2>1, <3>1, <3>2 DEF KeptBack
  <2>3. Smallest(page') <= id
    <3>1. page' \subseteq Int /\ Behind \subseteq Int
      BY <1>2 DEF Ids
    <3>2. id \in Int /\ Smallest(page') \in Int
      BY <2>2, <3>1
    <3> QED
      BY <2>2, <3>2
  <2> QED
    BY <1>1, <1>2, <2>2, <2>3, HighestProperties
<1> QED
  BY <1>3, <1>4

\* An answer by cursor that is not full has all that was ahead of the offset and
\* was not kept back, and what was not ahead is fetched.
ShortPageIsLast ==
  pc = "process" /\ ~ByDate =>
    /\ \A id \in answered : Unread(id) /\ id <= offsetID => id \in fetched
    /\ Cardinality(page) < BatchSize =>
         \A id \in answered :
           Unread(id) /\ offsetID < id /\ ~KeptBack(id) => id \in page

\* One by date has all that is due behind the offset and was not kept back.
ShortDatePageIsLast ==
  pc = "process" /\ ByDate /\ Cardinality(page) < BatchSize =>
    \A id \in present :
      Due(id) /\ (offsetID = 0 \/ id < offsetID) /\ ~KeptBack(id) => id \in page

\* What a page that ends the walk stands for: with it CompleteHasAll is inductive.
CompleteInv ==
  /\ IInv
  /\ ShortPageIsLast
  /\ ShortDatePageIsLast
  /\ CompleteHasAll

LEMMA InitComplete == Init => CompleteInv
  BY InitIInv DEF Init, CompleteInv, ShortPageIsLast, ShortDatePageIsLast, CompleteHasAll

\* Steps that settle nothing about the result: what is due only gets less.
LEMMA QuietKeepsComplete ==
  ASSUME CompleteInv, IInv',
         UNCHANGED <<ask, answered, offsetID, page, first, truncated>>,
         \/ present' \subseteq present
         \/ \E id \in Ids : id > top /\ present' = present \cup {id},
         pc' = "process" => pc = "process",
         fetched' = fetched,
         outcome' = "complete" => outcome = "complete"
  PROVE  CompleteInv'
<1> USE DEF CompleteInv
<1>1. CASE ByDate
  <2>1. DateInv
    BY <1>1 DEF IInv, CursorInv
  <2>2. \A id \in present' : Due(id)' => id \in present /\ Due(id)
    BY <2>1, DueShrinks
  <2> QED
    BY <1>1, <2>2 DEF ShortPageIsLast, ShortDatePageIsLast, CompleteHasAll, KeptBack, ByDate
<1>2. CASE ~ByDate
  BY <1>2 DEF ShortPageIsLast, ShortDatePageIsLast, CompleteHasAll, KeptBack, Unread,
     BelowFirstPage, Wanted, ByDate
<1> QED
  BY <1>1, <1>2

LEMMA FailKeepsComplete ==
  CompleteInv /\ IInv' /\ Fail => CompleteInv'
  BY DEF Fail, Finish, CompleteInv, ShortPageIsLast, ShortDatePageIsLast, CompleteHasAll

LEMMA AnswerKeepsComplete == CompleteInv /\ IInv' /\ Answer => CompleteInv'
<1> SUFFICES ASSUME CompleteInv, IInv', Answer PROVE CompleteInv'
  OBVIOUS
<1> USE DEF CompleteInv
<1>1. /\ UNCHANGED <<ask, present, offsetID, fetched, outcome>>
      /\ pc = "request" /\ pc' = "process"
      /\ answered' = IF ByDate /\ offsetID # 0 THEN answered ELSE present
  BY DEF Answer, server, control
<1>2. TypeOK /\ TypeOK' /\ outcome = "none"
  BY <1>1 DEF IInv, CursorInv, DateInv
<1>3. CompleteHasAll'
  BY <1>1, <1>2 DEF CompleteHasAll
<1>4. CASE ~ByDate
  <2>1. CursorInv /\ CursorInv'
    BY <1>1, <1>4 DEF IInv, DateInv, ByDate
  <2>2. \A id \in present :
          Unread(id)' /\ offsetID < id => id \in Ahead /\ ~BelowFirstPage(id)'
    BY <1>1, <1>4 DEF Ahead, Unread, Wanted, ByDate
  <2>3. Cardinality(page') < BatchSize =>
          \A id \in present :
            Unread(id)' /\ offsetID < id /\ ~KeptBack(id)' => id \in page'
    BY <1>2, <1>4, <2>1, <2>2, ShortAnswer DEF CursorInv
  <2>4. \A id \in present : Unread(id)' /\ id <= offsetID => id \in fetched
    BY <1>1, <1>2, <2>1 DEF CursorInv, Covered
  <2>5. ShortPageIsLast'
    BY <1>1, <1>4, <2>3, <2>4 DEF ShortPageIsLast
  <2> QED
    BY <1>1, <1>3, <1>4, <2>5 DEF ShortDatePageIsLast, ByDate
<1>5. CASE ByDate
  <2>1. \A id \in present : Due(id)' /\ (offsetID = 0 \/ id < offsetID) => id \in Behind
    BY <1>1, <1>2, <1>5, DueIsBehind
  <2>2. ShortDatePageIsLast'
    BY <1>1, <1>2, <1>5, <2>1, ShortDateAnswer DEF ShortDatePageIsLast
  <2> QED
    BY <1>1, <1>3, <1>5, <2>2 DEF ShortPageIsLast, ByDate
<1> QED
  BY <1>4, <1>5

\* A batch that ends the walk is the last: the server had no more, or what it
\* has is older than the range.
LEMMA BatchKeepsComplete == CompleteInv /\ IInv' /\ ProcessBatch => CompleteInv'
<1> SUFFICES ASSUME CompleteInv, IInv', ProcessBatch PROVE CompleteInv'
  OBVIOUS
<1> USE DEF CompleteInv
<1>1. /\ UNCHANGED <<ask, present, page, answered, first>>
      /\ pc = "process" /\ pc' # "process" /\ page # {}
      /\ fetched' = fetched \cup Kept
      /\ outcome' = "complete" => outcome = "complete" \/ ReachedSince \/ PageIsLast
  BY DEF ProcessBatch, Finish, server, control
<1>2. TypeOK /\ outcome = "none"
  BY <1>1 DEF IInv, CursorInv, DateInv
<1>3. ShortPageIsLast' /\ ShortDatePageIsLast'
  BY <1>1 DEF ShortPageIsLast, ShortDatePageIsLast
<1>4. CASE ~ByDate
  <2> SUFFICES ASSUME NEW id \in answered, Unread(id), ~KeptBack(id), PageIsLast
               PROVE  id \in fetched \cup Kept
    BY <1>1, <1>2, <1>3, <1>4 DEF CompleteHasAll, KeptBack, Unread, BelowFirstPage, Wanted,
       ByDate, ReachedSince, TooOld
  <2> QED
    BY <1>1, <1>2, <1>4 DEF ShortPageIsLast, Unread, PageIsLast, Kept, TooOld, TypeOK, Ids
<1>5. CASE ByDate
  <2>1. DateInv
    BY <1>5 DEF IInv, CursorInv
  <2>2. \A id \in present : Due(id)' => Due(id)
    BY <1>1, <2>1, DueShrinks
  <2> SUFFICES ASSUME NEW id \in present, Due(id), ~KeptBack(id), PageIsLast \/ ReachedSince
               PROVE  id \in fetched \cup Kept
    BY <1>1, <1>2, <1>3, <1>5, <2>2 DEF CompleteHasAll, KeptBack, ByDate
  <2>3. \A old \in page : TooOld(old) => id > old
    BY <1>2, <1>5, FetchAssumption DEF Due, Wanted, TooOld, TypeOK, Ids, Asked
  <2>4. CASE offsetID # 0 /\ offsetID <= id
    BY <1>2, <2>1, <2>4 DEF DateInv, DateCovered
  <2>5. CASE offsetID = 0 \/ id < offsetID
    <3>1. id \in page
      <4>1. CASE PageIsLast
        BY <1>1, <1>5, <2>5, <4>1 DEF ShortDatePageIsLast, PageIsLast
      <4>2. CASE ReachedSince
        <5>1. PICK old \in page : id > old
          BY <2>3, <4>2 DEF ReachedSince
        <5> QED
          BY <1>1, <1>2, <2>1, <2>5, <5>1 DEF DateInv, DatePageHasNoHole, TypeOK, Ids
      <4> QED
        BY <4>1, <4>2
    <3> QED
      BY <2>3, <3>1 DEF Kept, Due
  <2> QED
    BY <1>2, <2>4, <2>5 DEF TypeOK, Ids
<1> QED
  BY <1>4, <1>5

\* An empty answer has nothing that is missing.
LEMMA EmptyKeepsComplete == CompleteInv /\ IInv' /\ ProcessEmpty => CompleteInv'
<1> SUFFICES ASSUME CompleteInv, IInv', ProcessEmpty PROVE CompleteInv'
  OBVIOUS
<1> USE DEF CompleteInv
<1>1. /\ UNCHANGED <<ask, present, page, answered, first, offsetID, fetched>>
      /\ pc = "process" /\ pc' = "done" /\ page = {}
  BY DEF ProcessEmpty, Finish, server, control
<1>2. TypeOK /\ outcome = "none"
  BY <1>1 DEF IInv, CursorInv, DateInv
<1>3. Cardinality(page) < BatchSize
  BY <1>1, FS_EmptySet, FetchAssumption
<1>4. CASE ~ByDate
  BY <1>1, <1>2, <1>3, <1>4 DEF ShortPageIsLast, ShortDatePageIsLast, CompleteHasAll,
     KeptBack, Unread, BelowFirstPage, Wanted, ByDate, TypeOK, Ids
<1>5. CASE ByDate
  <2>1. DateInv
    BY <1>5 DEF IInv, CursorInv
  <2>2. \A id \in present : Due(id)' => Due(id)
    BY <1>1, <2>1, DueShrinks
  <2>3. \A id \in present : Due(id) => id \in fetched
    BY <1>1, <1>2, <1>3, <1>5, <2>1 DEF ShortDatePageIsLast, KeptBack, DateInv, DateCovered,
       TypeOK, Ids
  <2> QED
    BY <1>1, <1>5, <2>2, <2>3
       DEF ShortPageIsLast, ShortDatePageIsLast, CompleteHasAll, ByDate
<1> QED
  BY <1>4, <1>5

LEMMA StepComplete == CompleteInv /\ [Next]_vars => CompleteInv'
<1> SUFFICES ASSUME CompleteInv, [Next]_vars PROVE CompleteInv'
  OBVIOUS
<1>0. IInv'
  BY StepIInv DEF CompleteInv
<1>1. CASE Outside
  <2>1. ASSUME NEW id \in Ids, Arrive(id) \/ Delete(id)
        PROVE  CompleteInv'
    BY <1>0, <2>1, QuietKeepsComplete DEF Arrive, Delete, control
  <2>2. CASE RequestStop \/ Cancel
    BY <1>0, <2>2, QuietKeepsComplete DEF RequestStop, Cancel, server
  <2> QED
    BY <1>1, <2>1, <2>2 DEF Outside
<1>2. CASE Resolve
  BY <1>0, <1>2, QuietKeepsComplete, FailKeepsComplete DEF Resolve, server, control
<1>3. CASE CheckStop
  BY <1>0, <1>3, QuietKeepsComplete DEF CheckStop, Finish, server, control
<1>4. CASE PaceDone
  BY <1>0, <1>4, QuietKeepsComplete DEF PaceDone, server, control
<1>5. CASE PaceAborted
  BY <1>0, <1>5, QuietKeepsComplete, FailKeepsComplete
     DEF PaceAborted, Finish, server, control
<1>6. CASE RequestFailed
  BY <1>0, <1>6, FailKeepsComplete DEF RequestFailed
<1>7. CASE ProcessLimit
  BY <1>0, <1>7 DEF ProcessLimit, Finish, CompleteInv, ShortPageIsLast,
     ShortDatePageIsLast, CompleteHasAll
<1>8. CASE UNCHANGED vars
  BY <1>0, <1>8, QuietKeepsComplete DEF vars
<1> QED
  BY <1>0, <1>1, <1>2, <1>3, <1>4, <1>5, <1>6, <1>7, <1>8, AnswerKeepsComplete,
     BatchKeepsComplete, EmptyKeepsComplete DEF Next, Walk, Reply, Process

\* A walk that ends by itself and is not truncated has all it was to find.  The
\* code takes a page that is not full for the last one: what a server kept back
\* from such a page is all that may be missing, and nothing of a server that
\* fills its pages; and a chat that was never read, if it is answered from the
\* newest end, lacks what is older than the first page.
THEOREM CompleteWalk == Spec => []CompleteHasAll
<1>1. CompleteInv => CompleteHasAll
  BY DEF CompleteInv
<1> QED
  BY <1>1, InitComplete, StepComplete, PTL DEF Spec

-----------------------------------------------------------------------------
(* Stopping *)

\* A request after the stop is the last step but the end of the walk.
LateInv ==
  /\ TypeOK
  /\ late <= 1
  /\ late = 1 => stop /\ pc \in {"request", "process", "done"}

\* The user's stop costs one more request at most: it is looked at before
\* every pause and after every answer.
THEOREM StopIsPrompt == Spec => []OneRequestAfterStop
<1>1. Init => LateInv
  BY TypeInit DEF Init, LateInv
<1>2. LateInv /\ [Next]_vars => LateInv'
  <2> SUFFICES ASSUME LateInv, [Next]_vars PROVE LateInv'
    OBVIOUS
  <2>1. TypeOK'
    BY TypeStep DEF LateInv
  <2> USE DEF LateInv, TypeOK
  <2>2. CASE Outside
    BY <2>1, <2>2 DEF Outside, Arrive, Delete, RequestStop, Cancel, control
  <2>3. CASE Resolve
    BY <2>1, <2>3 DEF Resolve, control
  <2>4. CASE CheckStop
    BY <2>1, <2>4 DEF CheckStop, control
  <2>5. CASE PaceDone
    BY <2>1, <2>5 DEF PaceDone, control
  <2>6. CASE PaceAborted
    BY <2>1, <2>6 DEF PaceAborted, control
  <2>7. CASE Reply
    BY <2>1, <2>7 DEF Reply, Answer, RequestFailed, Fail, Finish, control
  <2>8. CASE ProcessEmpty \/ ProcessLimit
    BY <2>1, <2>8 DEF ProcessEmpty, ProcessLimit, Finish, control
  <2>9. CASE ProcessBatch
    BY <2>1, <2>9 DEF ProcessBatch, Finish, control
  <2>10. CASE UNCHANGED vars
    BY <2>1, <2>10 DEF vars
  <2> QED
    BY <2>2, <2>3, <2>4, <2>5, <2>6, <2>7, <2>8, <2>9, <2>10 DEF Next, Walk, Process
<1>3. LateInv => OneRequestAfterStop
  BY DEF LateInv, OneRequestAfterStop
<1> QED
  BY <1>1, <1>2, <1>3, PTL DEF Spec
-----------------------------------------------------------------------------
(* The limit *)

\* A part has as many elements as asked for when the set has: not fewer, or it
\* would be the whole set, and not more, as its last element has no more than n
\* up to it.
LEMMA HighestSize ==
  ASSUME NEW S \in SUBSET Ids, NEW n \in Nat, n <= Cardinality(S)
  PROVE  Cardinality(Highest(S, n)) = n
<1> DEFINE H == Highest(S, n)
<1>1. H \in SUBSET Ids /\ H \subseteq S
  BY HighestProperties
<1>2. IsFiniteSet(S) /\ Cardinality(H) \in Nat /\ Cardinality(S) \in Nat
  BY <1>1, IdsFinite
<1>3. Cardinality(H) >= n
  BY <1>2, ShortHighestIsAll
<1>4. CASE H = {}
  BY <1>2, <1>3, <1>4, FS_EmptySet
<1>5. CASE H # {}
  <2> DEFINE x == Smallest(H)
             From == {y \in S : y >= x}
  <2>1. x \in H /\ H \subseteq From
    <3>1. x \in H /\ \A y \in H : x <= y
      BY <1>1, <1>5, SmallestProperties
    <3>2. H \subseteq Int
      BY <1>1 DEF Ids
    <3> HIDE DEF x, H
    <3> QED
      BY <1>1, <3>1, <3>2
  <2>2. Cardinality(From) <= n
    BY <2>1 DEF Highest
  <2>3. Cardinality(H) <= Cardinality(From) /\ Cardinality(From) \in Nat
    BY <2>1, IdsFinite, FS_Subset
  <2> QED
    BY <1>2, <1>3, <2>2, <2>3
<1> QED
  BY <1>4, <1>5

LEMMA LowestSize ==
  ASSUME NEW S \in SUBSET Ids, NEW n \in Nat, n <= Cardinality(S)
  PROVE  Cardinality(Lowest(S, n)) = n
<1> DEFINE L == Lowest(S, n)
<1>1. L \in SUBSET Ids /\ L \subseteq S
  BY LowestProperties
<1>2. IsFiniteSet(S) /\ Cardinality(L) \in Nat /\ Cardinality(S) \in Nat
  BY <1>1, IdsFinite
<1>3. Cardinality(L) >= n
  BY <1>2, ShortLowestIsAll
<1>4. CASE L = {}
  BY <1>2, <1>3, <1>4, FS_EmptySet
<1>5. CASE L # {}
  <2> DEFINE x == Largest(L)
             Upto == {y \in S : y <= x}
  <2>1. x \in L /\ L \subseteq Upto
    <3>1. x \in L /\ \A y \in L : y <= x
      BY <1>1, <1>5, LargestProperties
    <3>2. L \subseteq Int
      BY <1>1 DEF Ids
    <3> HIDE DEF x, L
    <3> QED
      BY <1>1, <3>1, <3>2
  <2>2. Cardinality(Upto) <= n
    BY <2>1 DEF Lowest
  <2>3. Cardinality(L) <= Cardinality(Upto) /\ Cardinality(Upto) \in Nat
    BY <2>1, IdsFinite, FS_Subset
  <2> QED
    BY <1>2, <1>3, <2>2, <2>3
<1> QED
  BY <1>4, <1>5

\* Until it ends a walk is below its limit.
LimitInv ==
  /\ TypeOK
  /\ pc # "done" => ~truncated /\ (Limit > 0 => count < Limit)
  /\ LimitExact

LEMMA StepLimit == LimitInv /\ [Next]_vars => LimitInv'
<1> SUFFICES ASSUME LimitInv, [Next]_vars PROVE LimitInv'
  OBVIOUS
<1>0. TypeOK' /\ TypeOK /\ Limit \in Nat
  BY TypeStep, FetchAssumption DEF LimitInv
<1> USE DEF LimitInv, LimitExact
<1>1. ASSUME UNCHANGED <<count, truncated>>, pc # "done" \/ pc' = pc
      PROVE  LimitInv'
  BY <1>0, <1>1 DEF TypeOK
<1>2. CASE Outside
  BY <1>1, <1>2 DEF Outside, Arrive, Delete, RequestStop, Cancel
<1>3. ASSUME Fail PROVE LimitInv'
  BY <1>0, <1>3 DEF Fail, Finish
<1>4. CASE Resolve \/ CheckStop \/ PaceDone \/ PaceAborted \/ Reply \/ ProcessEmpty
  BY <1>1, <1>3, <1>4
     DEF Resolve, CheckStop, PaceDone, PaceAborted, Reply, Answer, RequestFailed, ProcessEmpty
<1>5. CASE ProcessLimit
  <2> DEFINE n == Limit - count
  <2>1. LimitReached /\ ~truncated /\ truncated' /\ pc' = "done" /\ Limit > 0 /\ count < Limit
    BY <1>5 DEF ProcessLimit, Finish, LimitReached
  <2>2. n \in Nat /\ Kept \in SUBSET Ids /\ Cardinality(Kept) \in Nat
    BY <1>0, <2>1, PageTypes DEF TypeOK
  <2>3. n <= Cardinality(Kept)
    BY <1>0, <2>1, <2>2 DEF LimitReached, TypeOK
  <2> HIDE DEF n
  <2>4. Cardinality(Taken(n)) = n
    BY <2>2, <2>3, HighestSize, LowestSize DEF Taken
  <2>5. count' = count + n
    BY <1>5, <2>4 DEF ProcessLimit, n
  <2>6. count' = Limit
    BY <1>0, <2>5 DEF n, TypeOK
  <2> QED
    BY <1>0, <2>1, <2>6
<1>6. CASE ProcessBatch
  <2>1. Cardinality(Kept) \in Nat
    BY <1>0, PageTypes
  <2>2. /\ ~LimitReached /\ ~truncated /\ ~truncated'
        /\ count' = count + Cardinality(Kept)
    BY <1>6 DEF ProcessBatch
  <2>3. Limit > 0 => count' < Limit
    BY <1>0, <2>1, <2>2 DEF LimitReached, TypeOK
  <2> QED
    BY <1>0, <2>2, <2>3 DEF TypeOK
<1>7. CASE UNCHANGED vars
  BY <1>1, <1>7 DEF vars
<1> QED
  BY <1>2, <1>4, <1>5, <1>6, <1>7 DEF Next, Walk, Process

\* A result is called truncated exactly when it has as many messages as the
\* limit allows, and never has more: of the batch that reaches the limit just
\* what is left is taken.
THEOREM LimitIsExact == Spec => []LimitExact
<1>1. Init => LimitInv
  BY TypeInit, FetchAssumption DEF Init, LimitInv, LimitExact
<1>2. LimitInv => LimitExact
  BY DEF LimitInv
<1> QED
  BY <1>1, <1>2, StepLimit, PTL DEF Spec

-----------------------------------------------------------------------------
(* Counting *)

\* Not yet gone past.
Beyond(id) == IF ByDate THEN offsetID = 0 \/ id < offsetID ELSE id > offsetID

\* With a server whose offset is exclusive, an answer has nothing of what is
\* fetched: the offset is between the two.
CountInv ==
  /\ ~OffsetInclusive
  /\ TypeOK
  /\ pc # "done" => \A m \in fetched : ~Beyond(m)
  /\ pc = "process" => \A m \in page : Beyond(m)
  /\ CountsOnce

LEMMA AddedCount ==
  ASSUME TypeOK, CountsOnce, NEW batch \in SUBSET Ids, batch \cap fetched = {},
         fetched' = fetched \cup batch, count' = count + Cardinality(batch)
  PROVE  CountsOnce'
<1>1. IsFiniteSet(batch) /\ IsFiniteSet(fetched)
  BY IdsFinite DEF TypeOK
<1>2. Cardinality(fetched \cup batch) =
        Cardinality(fetched) + Cardinality(batch) - Cardinality(fetched \cap batch)
  BY <1>1, FS_Union
<1>3. Cardinality(fetched \cap batch) = 0
  BY FS_EmptySet
<1>4. Cardinality(batch) \in Nat /\ Cardinality(fetched) \in Nat
  BY IdsFinite DEF TypeOK
<1> QED
  BY <1>2, <1>3, <1>4 DEF CountsOnce

LEMMA StepCount == CountInv /\ [Next]_vars => CountInv'
<1> SUFFICES ASSUME CountInv, [Next]_vars PROVE CountInv'
  OBVIOUS
<1>0. TypeOK' /\ TypeOK
  BY TypeStep DEF CountInv
<1> USE DEF CountInv
<1>1. ASSUME UNCHANGED <<ask, offsetID, page, fetched, count>>,
             pc # "done" \/ pc' = pc, pc' = "process" => pc = "process"
      PROVE  CountInv'
  BY <1>0, <1>1 DEF Beyond, ByDate, CountsOnce
<1>2. ASSUME Fail PROVE CountInv'
  BY <1>0, <1>2, FS_EmptySet DEF Fail, Finish, CountsOnce
<1>3. CASE Outside
  BY <1>1, <1>3 DEF Outside, Arrive, Delete, RequestStop, Cancel, control
<1>4. CASE Resolve \/ CheckStop \/ PaceDone \/ PaceAborted \/ RequestFailed \/ ProcessEmpty
  BY <1>1, <1>2, <1>4
     DEF Resolve, CheckStop, PaceDone, PaceAborted, RequestFailed, ProcessEmpty, Finish,
     control
<1>5. CASE Answer
  <2>1. UNCHANGED <<ask, offsetID, fetched, count>> /\ pc = "request" /\ pc' = "process"
    BY <1>5 DEF Answer, control
  <2>2. PICK n \in Int : page' = PageOf(n)
    BY <1>5, FetchAssumption DEF Answer
  <2>3. page' \subseteq IF ByDate THEN Behind ELSE Ahead
    BY <1>0, <2>2, PageTypes, HighestProperties, LowestProperties DEF PageOf
  <2>4. \A m \in page' : Beyond(m)
    BY <2>3 DEF Behind, Ahead, Beyond
  <2> QED
    BY <1>0, <2>1, <2>4 DEF Beyond, ByDate, CountsOnce
<1>6. ASSUME pc = "process" PROVE page \cap fetched = {}
  BY <1>6
<1>7. CASE ProcessLimit
  <2> DEFINE batch == Taken(Limit - count)
  <2>1. Limit - count \in Int
    BY <1>0, FetchAssumption DEF TypeOK
  <2>2. batch \subseteq Kept /\ Kept \subseteq page /\ Kept \subseteq Ids
    BY <1>0, <2>1, PartTypes, PageTypes
  <2>3. /\ fetched' = fetched \cup batch /\ count' = count + Cardinality(batch)
        /\ pc = "process" /\ pc' = "done"
    BY <1>7 DEF ProcessLimit, Finish
  <2> HIDE DEF batch
  <2>4. CountsOnce'
    BY <1>0, <1>6, <2>2, <2>3, AddedCount
  <2> QED
    BY <1>0, <2>3, <2>4
<1>8. CASE ProcessBatch
  <2>1. /\ fetched' = fetched \cup Kept /\ count' = count + Cardinality(Kept)
        /\ UNCHANGED ask /\ page # {}
        /\ pc = "process" /\ pc' # "process"
        /\ pc' # "done" => offsetID' = NextOffset
    BY <1>8 DEF ProcessBatch, Finish, control
  <2>2. Kept \subseteq page /\ Kept \subseteq Ids
    BY <1>0, PageTypes
  <2>3. CountsOnce'
    BY <1>0, <1>6, <2>1, <2>2, AddedCount
  <2>4. ASSUME pc' # "done", NEW m \in fetched' PROVE ~Beyond(m)'
    <3>1. page \subseteq Int /\ fetched \subseteq Int /\ offsetID \in Int /\ NextOffset \in page
      BY <1>0, <2>1, NextOffsetType DEF TypeOK, Ids
    <3>2. NextOffset # 0 /\ m \in Int
      BY <1>0, <2>1, <2>2, <2>4, <3>1 DEF TypeOK, Ids
    <3>3. \A y \in page : IF ByDate THEN NextOffset <= y ELSE y <= NextOffset
      BY <1>0, <2>1, LargestProperties, SmallestProperties DEF NextOffset, TypeOK
    <3>4. CASE m \in page
      BY <2>1, <2>4, <3>1, <3>2, <3>3, <3>4 DEF Beyond, ByDate
    <3>5. CASE m \in fetched
      <4>1. Beyond(NextOffset) /\ ~Beyond(m)
        BY <2>1, <3>1, <3>5
      <4> QED
        BY <2>1, <2>4, <3>1, <3>2, <4>1 DEF Beyond, ByDate
    <3> QED
      BY <2>1, <2>2, <2>4, <3>4, <3>5
  <2> QED
    BY <1>0, <2>1, <2>3, <2>4
<1>9. CASE UNCHANGED vars
  BY <1>1, <1>9 DEF vars
<1> QED
  BY <1>3, <1>4, <1>5, <1>7, <1>8, <1>9 DEF Next, Walk, Reply, Process

\* With a server whose offset is exclusive no message is counted twice, however
\* the history changes: the count of a run's record is that of its messages.
THEOREM CountedOnce == Spec /\ ~OffsetInclusive => []CountsOnce
<1>1. Init /\ ~OffsetInclusive => CountInv
  BY TypeInit, FS_EmptySet DEF Init, CountInv, CountsOnce
<1>2. CountInv => CountsOnce
  BY DEF CountInv
<1> QED
  BY <1>1, <1>2, StepCount, PTL DEF Spec

-----------------------------------------------------------------------------
(* What the end of a walk rests on *)

\* An answer lies beyond the offset, or at it when that is inclusive.
PageBeyond ==
  pc = "process" =>
    \A id \in page :
      \/ OffsetInclusive /\ id = offsetID
      \/ IF ByDate THEN offsetID = 0 \/ id < offsetID ELSE id > offsetID

VariantInv == TypeOK /\ PageBeyond

LEMMA StepVariantInv == VariantInv /\ [Next]_vars => VariantInv'
<1> SUFFICES ASSUME VariantInv, [Next]_vars PROVE VariantInv'
  OBVIOUS
<1>0. TypeOK'
  BY TypeStep DEF VariantInv
<1>1. ASSUME UNCHANGED <<ask, page, offsetID>>, pc' # "process" \/ pc = "process"
      PROVE  VariantInv'
  BY <1>0, <1>1 DEF VariantInv, PageBeyond, ByDate
<1>2. CASE Outside
  BY <1>1, <1>2 DEF Outside, Arrive, Delete, RequestStop, Cancel, control
<1>3. CASE Resolve \/ CheckStop \/ PaceDone \/ PaceAborted \/ RequestFailed
           \/ ProcessEmpty \/ ProcessLimit
  BY <1>1, <1>3
     DEF Resolve, CheckStop, PaceDone, PaceAborted, RequestFailed, ProcessEmpty, ProcessLimit,
         Fail, Finish, control
<1>4. CASE ProcessBatch
  BY <1>0, <1>4 DEF ProcessBatch, Finish, VariantInv, PageBeyond
<1>5. CASE Answer
  <2>1. PICK n \in Int : page' = PageOf(n)
    BY <1>5, FetchAssumption DEF Answer
  <2>2. page' \subseteq IF ByDate THEN Behind ELSE Ahead
    BY <2>1, PageTypes, HighestProperties, LowestProperties DEF PageOf, VariantInv
  <2>3. UNCHANGED <<ask, offsetID>>
    BY <1>5 DEF Answer, control
  <2> QED
    BY <1>0, <2>2, <2>3 DEF VariantInv, PageBeyond, ByDate, Ahead, Behind
<1>6. CASE UNCHANGED vars
  BY <1>1, <1>6 DEF vars
<1> QED
  BY <1>2, <1>3, <1>4, <1>5, <1>6 DEF Next, Walk, Reply, Process

\* A page of two messages has one that is not at the offset.
LEMMA FullPageGoesOn ==
  ASSUME VariantInv, pc = "process", page # {}, ~PageIsLast
  PROVE  IF ByDate THEN offsetID = 0 \/ NextOffset < offsetID ELSE NextOffset > offsetID
<1>0. page \in SUBSET Ids /\ page \subseteq Int /\ offsetID \in 0..MaxId
  BY DEF VariantInv, TypeOK, Ids
<1>1. /\ NextOffset \in page
      /\ \A y \in page : IF ByDate THEN NextOffset <= y ELSE y <= NextOffset
  BY <1>0, LargestProperties, SmallestProperties DEF NextOffset
<1>2. \E y \in page : ~(OffsetInclusive /\ y = offsetID)
  <2> SUFFICES ASSUME OffsetInclusive, page \subseteq {offsetID} PROVE FALSE
    OBVIOUS
  <2>1. Cardinality(page) <= Cardinality({offsetID}) /\ Cardinality(page) \in Nat
    BY <1>0, IdsFinite, FS_Singleton, FS_Subset
  <2>2. Cardinality({offsetID}) = 1
    BY FS_Singleton
  <2>3. BatchSize \in Nat /\ BatchSize > 1
    BY FetchAssumption
  <2> QED
    BY <2>1, <2>2, <2>3 DEF PageIsLast
<1>3. PICK y \in page : IF ByDate THEN offsetID = 0 \/ y < offsetID ELSE y > offsetID
  BY <1>2 DEF VariantInv, PageBeyond
<1> QED
  BY <1>0, <1>1, <1>3

\* Where the loop is, from its end.
Rank ==
  [at \in {"done", "process", "request", "pace", "loop", "resolve"} |->
     CASE at = "done" -> 0 [] at = "process" -> 1 [] at = "request" -> 2
       [] at = "pace" -> 3 [] at = "loop" -> 4 [] at = "resolve" -> 5]

\* How much of the ids is on the other side of the offset.
IdsLeft ==
  IF ~ByDate THEN MaxId - offsetID
  ELSE IF offsetID = 0 THEN MaxId + 1
  ELSE offsetID

\* How many steps a walk may still take, at most.
StepsLeft == IF pc = "done" THEN 0 ELSE 6 * IdsLeft + Rank[pc]

\* Every step of the walk leaves fewer, and nothing from outside leaves more.
StepsRunOut ==
  /\ StepsLeft \in Nat
  /\ StepsLeft' <= StepsLeft
  /\ Walk => StepsLeft' < StepsLeft

LEMMA StepsAreNat ==
  ASSUME TypeOK
  PROVE  IdsLeft \in Nat /\ Rank[pc] \in Nat /\ StepsLeft \in Nat
<1>1. MaxId \in Nat /\ offsetID \in 0..MaxId
  BY FetchAssumption DEF TypeOK
<1>2. IdsLeft \in Nat
  BY <1>1 DEF IdsLeft
<1>3. Rank[pc] \in Nat
  BY DEF Rank, TypeOK
<1> QED
  BY <1>2, <1>3 DEF StepsLeft

LEMMA Nearer ==
  ASSUME NEW m \in Nat, NEW i \in 0..m, NEW j \in 0..m, j > i
  PROVE  m - j \in Nat /\ m - j < m - i
OBVIOUS

\* One id less makes up for going back to the head of the loop.
LEMMA OneLess ==
  ASSUME NEW i \in Nat, NEW j \in Nat, j < i
  PROVE  6 * j + 4 < 6 * i + 1
OBVIOUS

LEMMA WalkRunsOut ==
  ASSUME VariantInv, TypeOK', Walk
  PROVE  StepsLeft' < StepsLeft
<1>0. TypeOK /\ IdsLeft \in Nat /\ ask' = ask
  BY StepsAreNat
     DEF VariantInv, Walk, Resolve, CheckStop, PaceDone, PaceAborted, Reply, Answer,
         RequestFailed, Process, ProcessEmpty, ProcessLimit, ProcessBatch, control
<1>1. ASSUME pc # "done", pc' = "done" PROVE StepsLeft' < StepsLeft
  <2>1. StepsLeft' = 0
    BY <1>1 DEF StepsLeft
  <2>2. Rank[pc] > 0 /\ Rank[pc] \in Nat
    BY <1>0, <1>1 DEF Rank, TypeOK
  <2> QED
    BY <1>0, <1>1, <2>1, <2>2 DEF StepsLeft
<1>2. ASSUME UNCHANGED offsetID, pc # "done", pc' # "done", Rank[pc'] < Rank[pc]
      PROVE  StepsLeft' < StepsLeft
  <2>1. IdsLeft' = IdsLeft
    BY <1>0, <1>2 DEF IdsLeft, ByDate
  <2>2. Rank[pc] \in Nat /\ Rank[pc'] \in Nat
    BY <1>0, StepsAreNat DEF Rank, TypeOK
  <2> QED
    BY <1>0, <1>2, <2>1, <2>2 DEF StepsLeft
<1>3. CASE Resolve
  BY <1>1, <1>2, <1>3 DEF Resolve, Fail, Finish, Rank
<1>4. CASE CheckStop
  BY <1>1, <1>2, <1>4 DEF CheckStop, Finish, Rank
<1>5. CASE PaceDone
  BY <1>2, <1>5 DEF PaceDone, Rank
<1>6. CASE PaceAborted
  BY <1>1, <1>6 DEF PaceAborted, Fail, Finish
<1>7. CASE Answer
  BY <1>2, <1>7 DEF Answer, Rank
<1>8. CASE RequestFailed \/ ProcessEmpty \/ ProcessLimit
  BY <1>1, <1>8 DEF RequestFailed, Fail, ProcessEmpty, ProcessLimit, Finish
<1>9. CASE ProcessBatch
  <2>1. pc = "process" /\ page # {}
    BY <1>9 DEF ProcessBatch
  <2>2. CASE pc' = "done"
    BY <1>1, <2>1, <2>2
  <2>3. CASE pc' # "done"
    <3>1. pc' = "loop" /\ offsetID' = NextOffset /\ ~PageIsLast
      BY <1>9, <2>3 DEF ProcessBatch, Finish
    <3>2. IF ByDate THEN offsetID = 0 \/ offsetID' < offsetID ELSE offsetID' > offsetID
      BY <2>1, <3>1, FullPageGoesOn
    <3>3. offsetID' \in Ids
      <4>1. page \in SUBSET Ids /\ page \subseteq Int
        BY <1>0 DEF TypeOK, Ids
      <4>2. NextOffset \in page
        BY <2>1, <4>1, LargestProperties, SmallestProperties DEF NextOffset
      <4> QED
        BY <3>1, <4>1, <4>2
    <3>4. MaxId \in Nat /\ offsetID \in 0..MaxId
      BY <1>0, FetchAssumption DEF TypeOK
    <3>5. IdsLeft' \in Nat /\ IdsLeft' < IdsLeft
      <4>1. ByDate' = ByDate /\ offsetID' \in 1..MaxId
        BY <1>0, <3>3 DEF ByDate, Ids
      <4>2. CASE ByDate
        <5>1. IdsLeft' = offsetID'
          BY <3>4, <4>1, <4>2 DEF IdsLeft
        <5>2. IdsLeft = IF offsetID = 0 THEN MaxId + 1 ELSE offsetID
          BY <4>2 DEF IdsLeft
        <5> QED
          BY <3>2, <3>4, <4>1, <4>2, <5>1, <5>2
      <4>3. CASE ~ByDate
        <5>1. IdsLeft' = MaxId - offsetID' /\ IdsLeft = MaxId - offsetID
          BY <4>1, <4>3 DEF IdsLeft
        <5> QED
          <6>1. /\ MaxId \in Nat /\ offsetID \in 0..MaxId /\ offsetID' \in 0..MaxId
                /\ offsetID' > offsetID
            BY <3>2, <3>4, <4>1, <4>3
          <6>2. MaxId - offsetID' \in Nat /\ MaxId - offsetID' < MaxId - offsetID
            BY <6>1, Nearer
          <6> QED
            BY <5>1, <6>2
      <4> QED
        BY <4>2, <4>3
    <3>6. Rank["loop"] = 4 /\ Rank["process"] = 1
      BY DEF Rank
    <3>7. StepsLeft' = 6 * IdsLeft' + 4 /\ StepsLeft = 6 * IdsLeft + 1
      BY <2>1, <3>1, <3>6 DEF StepsLeft
    <3> QED
      BY <1>0, <3>5, <3>7, OneLess
  <2> QED
    BY <2>2, <2>3
<1> QED
  BY <1>3, <1>4, <1>5, <1>6, <1>7, <1>8, <1>9 DEF Walk, Reply, Process

LEMMA StepsRunOutStep ==
  ASSUME VariantInv, TypeOK', [Next]_vars
  PROVE  StepsRunOut
<1>1. StepsLeft \in Nat
  BY StepsAreNat DEF VariantInv
<1>2. CASE Walk
  <2>1. StepsLeft' < StepsLeft
    BY <1>2, WalkRunsOut
  <2>2. StepsLeft' \in Nat
    <3>1. MaxId \in Nat /\ offsetID' \in 0..MaxId
      BY FetchAssumption DEF TypeOK
    <3>2. IdsLeft' \in Nat /\ Rank[pc'] \in Nat
      BY <3>1 DEF IdsLeft, Rank, TypeOK
    <3> QED
      BY <3>2 DEF StepsLeft
  <2> QED
    BY <1>1, <2>1, <2>2 DEF StepsRunOut
<1>3. CASE ~Walk
  <2>1. UNCHANGED <<pc, offsetID, ask>>
    BY <1>3 DEF Next, Outside, Arrive, Delete, RequestStop, Cancel, control, vars
  <2>2. StepsLeft' = StepsLeft
    BY <2>1 DEF StepsLeft, IdsLeft, ByDate
  <2> QED
    BY <1>1, <1>3, <2>2 DEF StepsRunOut
<1> QED
  BY <1>2, <1>3

\* A walk takes a bounded number of steps, whatever arrives, is deleted or is
\* signalled meanwhile: each request starts strictly beyond the one before it.
\* This is what WalkEnds rests on, without its fairness.
THEOREM BoundedWalk == Spec => [][StepsRunOut]_vars
<1>1. Init => VariantInv
  BY TypeInit DEF Init, VariantInv, PageBeyond
<1>2. VariantInv /\ VariantInv' /\ [Next]_vars => StepsRunOut
  BY StepsRunOutStep DEF VariantInv
<1> QED
  BY <1>1, <1>2, StepVariantInv, PTL DEF Spec
=============================================================================
