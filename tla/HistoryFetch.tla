----------------------------- MODULE HistoryFetch -----------------------------
(***************************************************************************)
(* The two walks over the history of one chat or forum topic, run against  *)
(* a history that grows and shrinks under them, a user who may ask them to *)
(* stop and a context that may be cancelled.                               *)
(*                                                                         *)
(* By cursor: fetchMessagesForward with the closures of                    *)
(* GetUnreadMessagesWithOptions and GetTopicMessagesWithOptions goes from  *)
(* the read cursor to newer messages; what may later be marked as read is  *)
(* decided from its answers alone.  By date: fetchMessages with those of   *)
(* GetMessagesByDateWithOptions and GetTopicMessagesByDateWithOptions goes *)
(* from the end of a range of dates to older ones.  The loops have the     *)
(* same steps: what differs is in the data each of them works on.          *)
(***************************************************************************)
EXTENDS Integers, FiniteSets

CONSTANTS
  MaxId,           \* the largest message id the history reaches (a bound)
  KindOf,          \* what each message id is, see Kinds
  General,         \* TRUE for topic 1 of a forum, whose history has the threads too
  DateOf,          \* the second in which each message is sent
  Cursors,         \* read cursors from which walks by cursor start, 0 when never read
  Ranges,          \* pairs of since and until, for walks by date
  BatchSize,       \* messages asked for in one request (100 in the code)
  Limit,           \* MessageLimit of the options, 0 for none
  OffsetInclusive, \* whether the server's answer may start at OffsetID itself
  ZeroIsNewest,    \* whether the server takes OffsetID 0 for the end of the history
  DateInclusive,   \* whether an answer may hold messages of OffsetDate's second
  ShortPages       \* whether the server may answer fewer messages than it has

Ids == 1..MaxId

Kinds == {"text", "media", "outgoing", "service", "threaded"}

ASSUME FetchAssumption ==
  /\ MaxId \in Nat
  /\ KindOf \in [Ids -> Kinds]
  /\ General \in BOOLEAN
  \* the server dates a message when it gives it the next id
  /\ DateOf \in [Ids -> Nat]
  /\ \A i, j \in Ids : i <= j => DateOf[i] <= DateOf[j]
  /\ Cursors \subseteq 0..MaxId
  /\ Ranges \subseteq Nat \X Nat
  /\ BatchSize \in Nat \ {0}
  /\ Limit \in Nat
  /\ OffsetInclusive \in BOOLEAN
  /\ ZeroIsNewest \in BOOLEAN
  /\ DateInclusive \in BOOLEAN
  /\ ShortPages \in BOOLEAN
  \* with one message a page an inclusive offset would return it for ever
  /\ OffsetInclusive => BatchSize > 1

VARIABLES
  present,   \* server: ids of the messages that exist now
  top,       \* server: the largest id given out so far
  ask,       \* what the walk is for: its read cursor, or its range of dates
  pc,        \* where the walk is
  offsetID,  \* the last message the walk has gone past, 0 before any by date
  page,      \* the answer being processed
  fetched,   \* ids of allMessages
  count,     \* len(allMessages)
  truncated, \* the limit cut the walk short
  outcome,   \* how the walk ended
  stop,      \* the stop channel is closed
  cancelled, \* the context is done
  answered,  \* history: what existed when the last request was answered, by
             \* date the first one
  first,     \* history: the oldest message of a first page that was asked for
             \* from the newest end, 0 when there is none
  late       \* history: requests sent after stop was closed

server  == <<present, top>>
control == <<ask, stop, cancelled>>
vars == <<present, top, ask, pc, offsetID, page, fetched, count, truncated, outcome,
          stop, cancelled, answered, first, late>>

Asked == [by : {"cursor", "date"}, last : 0..MaxId, since : Nat, until : Nat]

TypeOK ==
  /\ ask \in Asked
  /\ present \subseteq Ids
  /\ top \in 0..MaxId
  /\ pc \in {"resolve", "loop", "pace", "request", "process", "done"}
  /\ offsetID \in 0..MaxId
  /\ page \subseteq Ids
  /\ fetched \subseteq Ids
  /\ count \in Nat
  /\ truncated \in BOOLEAN
  /\ outcome \in {"none", "complete", "stopped", "error"}
  /\ stop \in BOOLEAN
  /\ cancelled \in BOOLEAN
  /\ answered \subseteq Ids
  /\ first \in 0..MaxId
  /\ late \in Nat

-----------------------------------------------------------------------------
(* The data the walks work on. *)

ByDate == ask.by = "date"

\* lastReadID.
LastRead == ask.last

\* Incoming text; General leaves out what belongs to another topic's thread.
IsText(id) == KindOf[id] = "text" \/ (KindOf[id] = "threaded" /\ ~General)

\* The filter closures: the messages of the result.
Wanted(id) ==
  /\ IsText(id)
  /\ IF ByDate THEN ask.since <= DateOf[id] /\ DateOf[id] <= ask.until
     ELSE id > LastRead

\* The filter closure by date ends the walk; threads of other topics are
\* skipped before and service messages never get to it.
TooOld(id) ==
  /\ ByDate
  /\ KindOf[id] # "service" /\ ~(General /\ KindOf[id] = "threaded")
  /\ DateOf[id] < ask.since

\* The n largest and the n smallest elements of S: all of them when it has no
\* more than n.
Highest(S, n) == {x \in S : Cardinality({y \in S : y >= x}) <= n}

Lowest(S, n) == {x \in S : Cardinality({y \in S : y <= x}) <= n}

Largest(S) == CHOOSE x \in S : \A y \in S : y <= x

Smallest(S) == CHOOSE x \in S : \A y \in S : x <= y

\* Mutant: the walk asks again from the message it stopped at.
AheadFromOffset == {id \in present : id > LastRead /\ id >= offsetID}

\* What the server has for OffsetID, AddOffset = -Limit and MinID = LastRead.
Ahead == {id \in present : /\ id > LastRead
                           /\ id > offsetID \/ (OffsetInclusive /\ id = offsetID)}

\* A chat that was never read has the cursor 0, which goes out as OffsetID: to
\* the server it may mean no offset at all, as it does in a walk by date.
FromNewest == ~ByDate /\ offsetID = 0 /\ ZeroIsNewest

\* What it has for OffsetDate = until in the first request, for OffsetID in
\* the others.
Behind ==
  {id \in present :
     IF offsetID = 0
     THEN DateOf[id] < ask.until \/ (DateInclusive /\ DateOf[id] = ask.until)
     ELSE id < offsetID \/ (OffsetInclusive /\ id = offsetID)}

\* A page: the newest messages behind, or the oldest ahead, but without an
\* offset to be ahead of the newest.
PageOf(n) ==
  IF ByDate THEN Highest(Behind, n)
  ELSE IF FromNewest THEN Highest(Ahead, n)
  ELSE Lowest(Ahead, n)

-----------------------------------------------------------------------------
(* The history on the server and the two signals from outside. *)

\* Message ids only grow; a deleted message's id is not used again.
Arrive(id) ==
  /\ id > top
  /\ top' = id
  /\ present' = present \cup {id}
  /\ UNCHANGED <<control, pc, offsetID, page, fetched, count, truncated, outcome,
                 answered, first, late>>

Delete(id) ==
  /\ id \in present
  /\ present' = present \ {id}
  /\ UNCHANGED <<top, control, pc, offsetID, page, fetched, count, truncated,
                 outcome, answered, first, late>>

RequestStop ==
  /\ ~stop
  /\ pc # "done"
  /\ stop' = TRUE
  /\ UNCHANGED <<server, ask, pc, offsetID, page, fetched, count, truncated,
                 outcome, cancelled, answered, first, late>>

Cancel ==
  /\ ~cancelled
  /\ pc # "done"
  /\ cancelled' = TRUE
  /\ UNCHANGED <<server, ask, pc, offsetID, page, fetched, count, truncated,
                 outcome, stop, answered, first, late>>

-----------------------------------------------------------------------------
(* The walk. *)

Finish(how) ==
  /\ pc' = "done"
  /\ outcome' = how

\* An error returns MessageFetchResult{}: what was fetched before is dropped.
Fail ==
  /\ Finish("error")
  /\ fetched' = {}
  /\ count' = 0
  /\ truncated' = FALSE

\* resolvePeer finds the chat's input peer, or the call fails at once.
Resolve ==
  /\ pc = "resolve"
  /\ \/ /\ pc' = "loop"
        /\ UNCHANGED <<fetched, count, truncated, outcome>>
     \/ Fail
  /\ UNCHANGED <<server, control, offsetID, page, answered, first, late>>

\* The head of the loop: leave with what there is when stop is closed.
CheckStop ==
  /\ pc = "loop"
  /\ IF stop
     THEN Finish("stopped")
     ELSE pc' = "pace" /\ UNCHANGED outcome
  /\ UNCHANGED <<server, control, offsetID, page, fetched, count, truncated,
                 answered, first, late>>

\* The pacer's timer fired first, even if stop or the context was ready too.
PaceDone ==
  /\ pc = "pace"
  /\ pc' = "request"
  /\ late' = IF stop THEN late + 1 ELSE late
  /\ UNCHANGED <<server, control, offsetID, page, fetched, count, truncated,
                 outcome, answered, first>>

\* The pacer's context ended. Stop, when it is closed by now, is not an error.
PaceAborted ==
  /\ pc = "pace"
  /\ stop \/ cancelled
  /\ IF stop
     THEN Finish("stopped") /\ UNCHANGED <<fetched, count, truncated>>
     ELSE Fail
  /\ UNCHANGED <<server, control, offsetID, page, answered, first, late>>

\* The server answers with the messages next to the offset.
Answer ==
  /\ pc = "request"
  /\ \E n \in IF ShortPages THEN 1..BatchSize ELSE {BatchSize} : page' = PageOf(n)
  /\ pc' = "process"
  /\ answered' = IF ByDate /\ offsetID # 0 THEN answered ELSE present
  /\ first' = IF FromNewest /\ page' # {} THEN Smallest(page') ELSE first
  /\ UNCHANGED <<server, control, offsetID, fetched, count, truncated, outcome, late>>

\* Mutant: a failed request is tried again.
RequestRetried ==
  /\ pc = "request"
  /\ pc' = "pace"
  /\ UNCHANGED <<server, control, offsetID, page, fetched, count, truncated,
                 outcome, answered, first, late>>

RequestFailed ==
  /\ pc = "request"
  /\ Fail
  /\ UNCHANGED <<server, control, offsetID, page, answered, first, late>>

\* Mutant: the batch that was in flight when stop came is thrown away.
KeptUnlessStopped == {id \in page : Wanted(id) /\ ~stop}

\* processMessageBatch: what the filter keeps of the page before it stops.
Kept == {id \in page : Wanted(id) /\ \A old \in page : TooOld(old) => id > old}

ReachedSince == \E id \in page : TooOld(id)

\* Mutant: a batch that just fits is not recognised as reaching the limit.
LimitExceeded == Limit > 0 /\ count + Cardinality(Kept) > Limit

\* The batch reaches the limit: only what is left of it is taken.
LimitReached == Limit > 0 /\ count + Cardinality(Kept) >= Limit

\* Mutant: the batch of a walk by date is cut at the wrong end.
TakenOldest(n) == Lowest(Kept, n)

Taken(n) == IF ByDate THEN Highest(Kept, n) ELSE Lowest(Kept, n)

\* Mutant: a full page ends the walk.
PageIsLastWhenFull == Cardinality(page) <= BatchSize

PageIsLast == Cardinality(page) < BatchSize

\* Mutants: the offset stays behind, or goes one too far.
OffsetKept == offsetID
OffsetPastPage == Largest(page) + 1

\* lastID of processMessageBatch counts the dropped messages too.
NextOffset == IF ByDate THEN Smallest(page) ELSE Largest(page)

ProcessEmpty ==
  /\ pc = "process"
  /\ page = {}
  /\ Finish("complete")
  /\ UNCHANGED <<server, control, offsetID, page, fetched, count, truncated,
                 answered, first, late>>

ProcessLimit ==
  /\ pc = "process"
  /\ page # {}
  /\ LimitReached
  /\ LET taken == Taken(Limit - count)
     IN  /\ fetched' = fetched \cup taken
         /\ count' = count + Cardinality(taken)
  /\ truncated' = TRUE
  /\ Finish("complete")
  /\ UNCHANGED <<server, control, offsetID, page, answered, first, late>>

\* The whole batch is kept; stop is looked at before since, and since before
\* the length of the page.
ProcessBatch ==
  /\ pc = "process"
  /\ page # {}
  /\ ~LimitReached
  /\ fetched' = fetched \cup Kept
  /\ count' = count + Cardinality(Kept)
  /\ \/ stop /\ Finish("stopped") /\ UNCHANGED offsetID
     \/ ~stop /\ ReachedSince /\ Finish("complete") /\ UNCHANGED offsetID
     \/ /\ ~stop /\ ~ReachedSince
        /\ offsetID' = NextOffset
        /\ IF PageIsLast
           THEN Finish("complete")
           ELSE pc' = "loop" /\ UNCHANGED outcome
  /\ UNCHANGED <<server, control, page, truncated, answered, first, late>>

-----------------------------------------------------------------------------
Init ==
  /\ \/ \E last \in Cursors :
          ask = [by |-> "cursor", last |-> last, since |-> 0, until |-> 0]
     \/ \E r \in Ranges :
          ask = [by |-> "date", last |-> 0, since |-> r[1], until |-> r[2]]
  /\ offsetID = LastRead
  /\ top \in LastRead..MaxId
  /\ present \in SUBSET (1..top)
  /\ pc = "resolve"
  /\ page = {}
  /\ fetched = {}
  /\ count = 0
  /\ truncated = FALSE
  /\ outcome = "none"
  /\ stop = FALSE
  /\ cancelled = FALSE
  /\ answered = {}
  /\ first = 0
  /\ late = 0

Outside == \/ \E id \in Ids : Arrive(id) \/ Delete(id)
           \/ RequestStop
           \/ Cancel

\* A request is answered or fails: the client gives up on its own at last.
Reply == Answer \/ RequestFailed

Process == ProcessEmpty \/ ProcessLimit \/ ProcessBatch

Walk == Resolve \/ CheckStop \/ PaceDone \/ PaceAborted \/ Reply \/ Process

Next == Outside \/ Walk

Spec == Init /\ [][Next]_vars

\* One goroutine runs the walk: while it can take a step it takes one.
FairSpec == Spec /\ WF_vars(Walk)

-----------------------------------------------------------------------------
(* Properties *)

\* A walk that was answered from the newest end never comes back to what is
\* older than its first page.
BelowFirstPage(id) == ZeroIsNewest /\ LastRead = 0 /\ id < first

\* What a walk by cursor is to find.  The exception is real: in a chat that was
\* never read and has more than a page these texts are unread as well.
Unread(id) == Wanted(id) /\ ~BelowFirstPage(id)

\* An unread text older than something fetched is fetched too: a cursor moved
\* to the newest fetched message never passes an unsaved one, however the
\* history changes between two pages and wherever the walk is cut short.  Only
\* what a chat that was never read has below its first page is passed.
NoUnreadSkipped ==
  ~ByDate =>
    \A m \in fetched : \A id \in present :
      Unread(id) /\ id <= m => id \in fetched

\* A server whose OffsetDate is exclusive keeps back the texts of the very
\* second in which the range ends.
LastSecond(id) == ~DateInclusive /\ DateOf[id] = ask.until

\* What a walk by date is to find: it existed when the walk began and has not
\* been deleted.
Due(id) == id \in answered \cap present /\ Wanted(id) /\ ~LastSecond(id)

\* A walk by date returns the newest part of the range without a hole: when
\* the limit or a stop cuts it short, everything it misses is older than
\* everything it has, whatever arrives or is deleted between two pages.
NewestPartFirst ==
  ByDate => \A m \in fetched : \A id \in present : Due(id) /\ m <= id => id \in fetched

\* A page that is not full is taken for the last one, also when the server kept
\* something back: then what lies beyond its end is missed.
KeptBack(id) ==
  /\ ShortPages
  /\ page # {} /\ Cardinality(page) < BatchSize
  /\ IF ByDate THEN id < Smallest(page) ELSE Largest(page) < id

\* A walk that ends by itself and is not truncated has everything: by cursor
\* all that existed when its last request was answered, what came later stays
\* unread; by date all of the range that existed from the first answer on.  It
\* misses only what a short last page kept back, and what a chat that was never
\* read has below its first page.
CompleteHasAll ==
  outcome = "complete" /\ ~truncated =>
    IF ByDate THEN \A id \in present : Due(id) /\ ~KeptBack(id) => id \in fetched
    ELSE \A id \in answered : Unread(id) /\ ~KeptBack(id) => id \in fetched

\* The user's stop is obeyed after the current request: at most one more
\* request goes out, when the pacer's timer beats the stop signal.
OneRequestAfterStop == late <= 1

\* The limit is exact: the result is called truncated exactly when it holds
\* Limit messages, and it never holds more.
LimitExact ==
  /\ Limit > 0 => count <= Limit
  /\ pc = "done" => (truncated <=> (Limit > 0 /\ count = Limit))

\* A stopped walk by cursor (PartialReadSafe) has dropped nothing it had received: all
\* unread texts up to the last message of the last answer are in the result, but
\* for what a chat that was never read has below its first page.
StoppedKeepsBatch ==
  ~ByDate /\ outcome = "stopped" =>
    \A x \in page \cup {offsetID} : \A id \in present :
      Unread(id) /\ id <= x => id \in fetched

\* No message is counted twice, so the saved count in a run's record is the
\* number of messages; it needs a server whose offset is exclusive.
CountsOnce == count = Cardinality(fetched)

\* The walk ends, whatever arrives, is deleted or is signalled meanwhile.
WalkEnds == <>(pc = "done")
=============================================================================
