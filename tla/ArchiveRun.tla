------------------------------ MODULE ArchiveRun ------------------------------
(***************************************************************************)
(* The archiving pipeline of the three online entry points: sync, history  *)
(* with --id, and the fetches of the interactive program.  A process loads *)
(* the dialogs, picks chats and topics, fetches each, saves the result in  *)
(* several transactions, marks it as read and records what it did, while   *)
(* messages arrive, the user reads elsewhere, calls fail, the context is   *)
(* cancelled or the process dies.                                          *)
(*                                                                         *)
(* A fetch is one step here: it returns what has no hole above its cursor, *)
(* as HistoryFetch shows but for one case.  Ids are counted from the place *)
(* the user has read to when the behaviour begins, so 0 is that place and  *)
(* not a chat that was never read.  Of such a chat with more than a page   *)
(* of messages, whose history a server gives from the newest end, this     *)
(* module says nothing.                                                    *)
(***************************************************************************)
EXTENDS Integers, FiniteSets

CONSTANTS
  Procs,        \* processes, each running one command after another
  Plain,        \* chats without topics
  Forums,       \* chats with topics
  Topics,       \* the topics every forum has, numbers above 0
  MaxId,        \* the largest message id (a bound)
  Text,         \* which ids are incoming texts with a body
  Commands,     \* the entry points a process may use
  ChatLimit,    \* --chat-limit, 0 for none
  MessageLimit, \* --message-limit, 0 for none
  MaxFaults,    \* failures, interrupts and crashes in one behaviour (a bound)
  NoChat        \* no --id was given

Chats == Plain \cup Forums
Targets == (Plain \X {0}) \cup (Forums \X Topics)

ASSUME RunAssumption ==
  /\ Plain \cap Forums = {}
  /\ NoChat \notin Chats
  /\ Topics \subseteq Nat \ {0}
  /\ MaxId \in Nat
  /\ Text \subseteq 1..MaxId
  /\ Commands \subseteq {"sync", "history", "tui"}
  /\ ChatLimit \in Nat
  /\ MessageLimit \in Nat
  /\ MaxFaults \in Nat

\* A listing is a finite list: what the end of a command rests on.
ASSUME FiniteAssumption ==
  IsFiniteSet(Plain) /\ IsFiniteSet(Forums) /\ IsFiniteSet(Topics)

VARIABLES
  posted,    \* Telegram: the newest message of each target
  readTo,    \* Telegram: the read cursor of each target
  elsewhere, \* history: how far the user has read in another client
  saved,     \* SQLite: the texts of each target
  row,       \* SQLite: the sync_runs row of each process's run, with its items
  proc,      \* the state of each process
  faults     \* failures, interrupts and crashes so far

vars == <<posted, readTo, elsewhere, saved, row, proc, faults>>

-----------------------------------------------------------------------------
(* The data *)

NoBatch == [ids |-> {}, truncated |-> FALSE, stopped |-> FALSE, safe |-> FALSE]

Batches == [ids : SUBSET Text, truncated : BOOLEAN, stopped : BOOLEAN, safe : BOOLEAN]

\* chat, topics and target: what of the selected chat is being worked on;
\* snap: the cursors the process was given; mark: what markMessagesAsRead did;
\* total, err: totalSaved, firstErr.
Idle == [pc |-> "idle", cmd |-> "none", dates |-> FALSE, only |-> NoChat,
         topic |-> 0, ctxDone |-> FALSE, chats |-> {}, chat |-> NoChat,
         topics |-> {}, target |-> <<NoChat, 0>>,
         snap |-> [t \in Targets |-> 0], batch |-> NoBatch, mark |-> "none",
         total |-> 0, err |-> FALSE]

\* wrote, goal and cut are not columns: how many texts of each target this run
\* committed, what it set out to fetch, and whether its row was left open.
NoRow == [mode |-> "none", status |-> "none", items |-> {},
          wrote |-> [t \in Targets |-> 0], goal |-> {}, cut |-> FALSE]

Item(target, n, mark, failed) ==
  [target |-> target, saved |-> n, mark |-> mark, failed |-> failed]

Unread(t) == readTo[t] < posted[t]

ChatUnread(c) ==
  IF c \in Forums THEN \E k \in Topics : Unread(<<c, k>>) ELSE Unread(<<c, 0>>)

Available(t) == Text \cap 1..posted[t]

Largest(S) == CHOOSE x \in S : \A y \in S : y <= x

Upto(S, h) == {id \in S : id <= h}

\* A call on behalf of p fails: the context is done, or one of the failures
\* that Telegram, the network or the database may have.
Fault(p) ==
  \/ proc[p].ctxDone /\ UNCHANGED faults
  \/ faults < MaxFaults /\ faults' = faults + 1

At(p, pc) == proc[p].pc = pc

Become(p, next) == proc' = [proc EXCEPT ![p] = next]

Goto(p, pc) == Become(p, [proc[p] EXCEPT !.pc = pc])

telegram == <<posted, readTo, elsewhere>>

-----------------------------------------------------------------------------
(* Telegram and the user's other clients *)

Post(t) ==
  /\ posted[t] < MaxId
  /\ posted' = [posted EXCEPT ![t] = @ + 1]
  /\ UNCHANGED <<readTo, elsewhere, saved, row, proc, faults>>

ReadElsewhere(t) ==
  \E id \in readTo[t] + 1 .. posted[t] :
    /\ readTo' = [readTo EXCEPT ![t] = id]
    /\ elsewhere' = [elsewhere EXCEPT ![t] = id]
    /\ UNCHANGED <<posted, saved, row, proc, faults>>

-----------------------------------------------------------------------------
(* Starting a command *)

\* sync takes any chat or all of them; the others work on one chat, and on a
\* forum only with a topic.  Only they have a date range.
Launch(p) ==
  /\ At(p, "idle")
  /\ \E cmd \in Commands, only \in Chats \cup {NoChat},
        topic \in Topics \cup {0}, dates \in BOOLEAN :
       /\ dates => cmd # "sync"
       /\ topic # 0 => only \in Forums
       /\ cmd # "sync" => only # NoChat /\ (only \in Forums => topic # 0)
       /\ Become(p, [Idle EXCEPT !.pc = "dialogs", !.cmd = cmd, !.only = only,
                                 !.topic = topic, !.dates = dates])
  /\ row' = [row EXCEPT ![p] = NoRow]
  /\ UNCHANGED <<telegram, saved, faults>>

\* syncChats: unread chats only, at most ChatLimit of them. The dialogs come
\* sorted by their unread counts, so any of them may come first.
SyncSelections(only) ==
  LET unread == {c \in Chats : ChatUnread(c)}
  IN  IF only # NoChat THEN {unread \cap {only}}
      ELSE {S \in SUBSET unread :
              IF ChatLimit = 0 \/ Cardinality(unread) <= ChatLimit
              THEN S = unread ELSE Cardinality(S) = ChatLimit}

\* GetDialogsWithEntities, with the SaveUsers and SaveChats that sync and
\* history do next.
LoadDialogs(p) ==
  /\ At(p, "dialogs")
  /\ LET me == proc[p]
         cursors == [t \in Targets |-> IF t[1] \in Plain THEN readTo[t] ELSE 0]
     IN  \/ /\ ~me.ctxDone
            /\ \E chosen \in IF me.cmd = "sync" THEN SyncSelections(me.only)
                             ELSE {{me.only}} :
                 Become(p, IF chosen = {} THEN Idle
                           ELSE [me EXCEPT !.snap = cursors, !.chats = chosen,
                                           !.pc = IF me.cmd = "sync" THEN "start" ELSE "next"])
            /\ UNCHANGED faults
         \/ Fault(p) /\ Become(p, Idle)
  /\ UNCHANGED <<telegram, saved, row>>

\* StartRun inserts a row with status "running".
StartRun(p) ==
  /\ At(p, "start")
  /\ \/ /\ ~proc[p].ctxDone
        /\ row' = [row EXCEPT ![p] = [NoRow EXCEPT !.mode = proc[p].cmd, !.status = "running",
                     !.goal = IF proc[p].cmd = "history" THEN {proc[p].target} ELSE {}]]
        /\ Goto(p, IF proc[p].cmd = "sync" THEN "next" ELSE "fetch")
        /\ UNCHANGED faults
     \/ Fault(p) /\ Become(p, Idle) /\ UNCHANGED row
  /\ UNCHANGED <<telegram, saved>>

-----------------------------------------------------------------------------
(* Going through the chats and topics *)

\* Where a single fetch goes: history opens its run first.
Begin(p) == IF proc[p].cmd = "history" THEN "start" ELSE "fetch"

\* A run means to fetch every chat and topic it has selected.
AddGoals(p, new) ==
  row' = IF proc[p].cmd = "sync" THEN [row EXCEPT ![p].goal = @ \cup new] ELSE row

NextChat(p) ==
  /\ At(p, "next")
  /\ \E c \in proc[p].chats :
       LET me == [proc[p] EXCEPT !.chats = @ \ {c}, !.chat = c, !.target = <<c, 0>>]
       IN  IF c \in Forums
           THEN Become(p, [me EXCEPT !.pc = "topics"]) /\ UNCHANGED row
           ELSE Become(p, [me EXCEPT !.pc = Begin(p)]) /\ AddGoals(p, {<<c, 0>>})
  /\ UNCHANGED <<telegram, saved, faults>>

ChatsDone(p) ==
  /\ At(p, "next")
  /\ proc[p].chats = {}
  /\ Goto(p, "finish")
  /\ UNCHANGED <<telegram, saved, row, faults>>

\* GetForumTopics, SaveTopics and the choice of topics: syncTopics takes the
\* unread ones, the other commands the one that was asked for.
LoadTopics(p) ==
  /\ At(p, "topics")
  /\ LET me == proc[p]
         cursors == [t \in Targets |-> IF t[1] = me.chat THEN readTo[t] ELSE me.snap[t]]
         asked == IF me.topic = 0 THEN Topics ELSE {me.topic}
         unread == {k \in asked : Unread(<<me.chat, k>>)}
     IN  \/ /\ ~me.ctxDone
            /\ IF me.cmd = "sync"
               THEN /\ Become(p, [me EXCEPT !.snap = cursors, !.topics = unread,
                                            !.pc = "nextTopic"])
                    /\ AddGoals(p, {<<me.chat, k>> : k \in unread})
               ELSE /\ Become(p, [me EXCEPT !.snap = cursors, !.pc = Begin(p),
                                            !.target = <<me.chat, me.topic>>])
                    /\ UNCHANGED row
            /\ UNCHANGED faults
         \/ /\ Fault(p)
            /\ UNCHANGED row
            \* A failed request gets a run item, a failed SaveTopics does not.
            /\ IF me.cmd = "sync"
               THEN \/ Goto(p, "failed")
                    \/ Become(p, [me EXCEPT !.err = TRUE, !.pc = "next"])
               ELSE Become(p, Idle)
  /\ UNCHANGED <<telegram, saved>>

\* A slip for a mutant: the topic is not taken off the list.
NextTopicKept(p) ==
  /\ At(p, "nextTopic")
  /\ \E k \in proc[p].topics :
       Become(p, [proc[p] EXCEPT !.pc = "fetch", !.target = <<proc[p].chat, k>>])
  /\ UNCHANGED <<telegram, saved, row, faults>>

NextTopic(p) ==
  /\ At(p, "nextTopic")
  /\ \E k \in proc[p].topics :
       Become(p, [proc[p] EXCEPT !.topics = @ \ {k}, !.pc = "fetch",
                                 !.target = <<proc[p].chat, k>>])
  /\ UNCHANGED <<telegram, saved, row, faults>>

TopicsDone(p) ==
  /\ At(p, "nextTopic")
  /\ proc[p].topics = {}
  /\ Goto(p, "next")
  /\ UNCHANGED <<telegram, saved, row, faults>>

-----------------------------------------------------------------------------
(* One chat or topic: fetch, save, mark, record *)

\* An error before the messages are saved: sync records it and goes on,
\* history closes its run with it, the interactive program shows it.
\* Slips for mutants: history returns with its run open, a failed save is
\* followed by the marking.
TargetFailsOpen(p) ==
  CASE proc[p].cmd = "sync" -> Goto(p, "failed")
    [] OTHER                -> Become(p, Idle)

TargetFailsMarked(p) == Goto(p, "mark")

TargetFails(p) ==
  CASE proc[p].cmd = "sync"    -> Goto(p, "failed")
    [] proc[p].cmd = "history" -> Become(p, [proc[p] EXCEPT !.err = TRUE, !.pc = "finish"])
    [] OTHER                   -> Become(p, Idle)

\* What a fetch may return.  From a cursor: all that is unread, or its oldest
\* part when the limit or the user's stop cut it.  From dates: some range.
Results(p) ==
  LET me == proc[p]
      wanted == {id \in Available(me.target) : id > me.snap[me.target]}
      full(ids) == MessageLimit > 0 /\ Cardinality(ids) = MessageLimit
  IN  {b \in Batches :
         /\ MessageLimit > 0 => Cardinality(b.ids) <= MessageLimit
         /\ b.truncated = full(b.ids)
         /\ b.stopped => me.cmd = "tui" /\ ~b.truncated
         /\ b.safe = (b.stopped /\ ~me.dates)
         /\ IF me.dates
            THEN \E lo, hi \in 0..MaxId :
                   b.ids = {id \in Available(me.target) : lo <= id /\ id <= hi}
            ELSE /\ \E h \in 0..MaxId : b.ids = Upto(wanted, h)
                 /\ b.truncated \/ b.stopped \/ b.ids = wanted}

Fetch(p) ==
  /\ At(p, "fetch")
  /\ \/ /\ \E b \in Results(p) :
             Become(p, [proc[p] EXCEPT !.batch = b, !.pc = "entities"])
        /\ UNCHANGED faults
     \/ Fault(p) /\ TargetFails(p)
  /\ UNCHANGED <<telegram, saved, row>>

\* SaveUsers, SaveChats and SaveTopics, a transaction each.  Their rows are
\* not modelled here, only that the messages are not reached when one fails.
SaveEntities(p) ==
  /\ At(p, "entities")
  /\ \/ ~proc[p].ctxDone /\ Goto(p, "messages") /\ UNCHANGED faults
     \/ Fault(p) /\ TargetFails(p)
  /\ UNCHANGED <<telegram, saved, row>>

\* SaveMessages commits all of the batch or nothing; a row that is there
\* already is updated.  The count it returns is the length of the batch.
SaveMessages(p) ==
  /\ At(p, "messages")
  /\ LET me == proc[p]
         n == Cardinality(me.batch.ids)
     IN  \/ /\ ~me.ctxDone
            /\ saved' = [saved EXCEPT ![me.target] = @ \cup me.batch.ids]
            /\ row' = IF me.cmd = "tui" THEN row ELSE [row EXCEPT ![p].wrote[me.target] = @ + n]
            /\ Become(p, [me EXCEPT !.total = @ + n, !.pc = "mark"])
            /\ UNCHANGED faults
         \/ Fault(p) /\ TargetFails(p) /\ UNCHANGED <<saved, row>>
  /\ UNCHANGED telegram

\* markMessagesAsRead gives up before it asks Telegram for anything.
\* A slip for a mutant: marking after a date range too.
MarkSkippedDates(me) ==
  \/ me.batch.stopped /\ ~me.batch.safe
  \/ me.batch.truncated
  \/ me.batch.ids = {}

MarkSkipped(me) ==
  \/ me.dates
  \/ me.batch.stopped /\ ~me.batch.safe
  \/ me.batch.truncated
  \/ me.batch.ids = {}

\* The newest message that was fetched is what is marked.  Slips for mutants:
\* one id further, and the newest message of the chat.
MarkIdPast(me) == Largest(me.batch.ids) + 1

MarkTop(me) == posted[me.target]

MarkId(me) == Largest(me.batch.ids)

\* What happens after the marking: only runs have items.
Marked(p, mark) ==
  Become(p, IF proc[p].cmd = "tui" THEN Idle
            ELSE [proc[p] EXCEPT !.mark = mark, !.pc = "item"])

SkipMark(p) ==
  /\ At(p, "mark")
  /\ MarkSkipped(proc[p])
  /\ Marked(p, IF ~proc[p].dates /\ proc[p].batch.truncated THEN "skipped" ELSE "none")
  /\ UNCHANGED <<telegram, saved, row, faults>>

\* Telegram moves a cursor forward only.
MoveCursor(t, id) == readTo' = [readTo EXCEPT ![t] = IF id > @ THEN id ELSE @]

\* MarkAsRead or MarkTopicAsRead: when it fails Telegram may still have done
\* it.  The failure becomes a warning and never an error.
MarkRead(p) ==
  /\ At(p, "mark")
  /\ ~MarkSkipped(proc[p])
  /\ \/ /\ MoveCursor(proc[p].target, MarkId(proc[p]))
        /\ \/ Marked(p, "read") /\ UNCHANGED faults
           \/ Marked(p, "failed") /\ Fault(p)
     \/ UNCHANGED readTo /\ Marked(p, "failed") /\ Fault(p)
  /\ UNCHANGED <<posted, elsewhere, saved, row>>

\* The loop goes on with the next topic or chat; history is at its end.
Continue(me) ==
  IF me.cmd = "history" THEN "finish"
  ELSE IF me.chat \in Forums THEN "nextTopic" ELSE "next"

\* A plausible slip for a mutant: the item gets the total of the run so far.
SavedSoFar(me) == me.total

SavedCount(me) == Cardinality(me.batch.ids)

AddItem(p) ==
  /\ At(p, "item")
  /\ LET me == proc[p]
         item == Item(me.target, SavedCount(me), me.mark, FALSE)
         next == [me EXCEPT !.batch = NoBatch, !.mark = "none", !.pc = Continue(me)]
     IN  \/ /\ ~me.ctxDone
            /\ row' = [row EXCEPT ![p].items = @ \cup {item}]
            /\ Become(p, next)
            /\ UNCHANGED faults
         \/ Fault(p) /\ Become(p, [next EXCEPT !.err = TRUE]) /\ UNCHANGED row
  /\ UNCHANGED <<telegram, saved>>

\* The item of a failed chat or topic; its own failure is ignored.
AddFailedItem(p) ==
  /\ At(p, "failed")
  /\ LET me == proc[p]
     IN  /\ Become(p, [me EXCEPT !.batch = NoBatch, !.err = TRUE, !.pc = Continue(me)])
         /\ \/ /\ ~me.ctxDone
               /\ row' = [row EXCEPT ![p].items = @ \cup {Item(me.target, 0, "none", TRUE)}]
               /\ UNCHANGED faults
            \/ Fault(p) /\ UNCHANGED row
  /\ UNCHANGED <<telegram, saved>>

-----------------------------------------------------------------------------
(* The end of a command *)

\* sync calls a run with errors partial if anything was saved.
\* A slip for a mutant: any error makes the status "error".
StatusOfError(me) == IF me.err THEN "error" ELSE "ok"

Status(me) ==
  IF ~me.err THEN "ok"
  ELSE IF me.cmd = "sync" /\ me.total > 0 THEN "partial" ELSE "error"

FinishRun(p) ==
  /\ At(p, "finish")
  /\ \/ /\ ~proc[p].ctxDone
        /\ row' = [row EXCEPT ![p].status = Status(proc[p])]
        /\ UNCHANGED faults
     \/ Fault(p) /\ row' = [row EXCEPT ![p].cut = TRUE]
  /\ Become(p, Idle)
  /\ UNCHANGED <<telegram, saved>>

\* The user's interrupt: the context given to every call is done.
Cancel(p) ==
  /\ ~At(p, "idle")
  /\ ~proc[p].ctxDone
  /\ faults < MaxFaults
  /\ faults' = faults + 1
  /\ Become(p, [proc[p] EXCEPT !.ctxDone = TRUE])
  /\ UNCHANGED <<telegram, saved, row>>

\* The process dies between two calls; its row stays as it is.
Crash(p) ==
  /\ ~At(p, "idle")
  /\ faults < MaxFaults
  /\ faults' = faults + 1
  /\ Become(p, Idle)
  /\ row' = [row EXCEPT ![p].cut = (@ \/ row[p].status = "running")]
  /\ UNCHANGED <<telegram, saved>>

-----------------------------------------------------------------------------
Init ==
  /\ posted \in [Targets -> 0..MaxId]
  /\ readTo = [t \in Targets |-> 0]
  /\ elsewhere = [t \in Targets |-> 0]
  /\ saved = [t \in Targets |-> {}]
  /\ row = [p \in Procs |-> NoRow]
  /\ proc = [p \in Procs |-> Idle]
  /\ faults = 0

Work(p) ==
  \/ LoadDialogs(p) \/ StartRun(p) \/ NextChat(p) \/ ChatsDone(p)
  \/ LoadTopics(p) \/ NextTopic(p) \/ TopicsDone(p)
  \/ Fetch(p) \/ SaveEntities(p) \/ SaveMessages(p) \/ SkipMark(p) \/ MarkRead(p)
  \/ AddItem(p) \/ AddFailedItem(p) \/ FinishRun(p)

Interrupt(p) == Cancel(p) \/ Crash(p)

Next ==
  \/ \E t \in Targets : Post(t) \/ ReadElsewhere(t)
  \/ \E p \in Procs : Launch(p) \/ Work(p) \/ Interrupt(p)

Spec == Init /\ [][Next]_vars

\* A process that runs a command takes its next step at last.
FairSpec == Spec /\ \A p \in Procs : WF_vars(Work(p))

-----------------------------------------------------------------------------
(* Properties *)

PCs == {"idle", "dialogs", "start", "next", "topics", "nextTopic", "fetch",
        "entities", "messages", "mark", "item", "failed", "finish"}

Marks == {"none", "skipped", "read", "failed"}

Items == [target : (Chats \X {0}) \cup Targets, saved : Nat, mark : Marks, failed : BOOLEAN]

Rows == [mode : {"none", "sync", "history"},
         status : {"none", "running", "ok", "partial", "error"},
         items : SUBSET Items, wrote : [Targets -> Nat], goal : SUBSET Targets, cut : BOOLEAN]

Processes ==
  [pc : PCs, cmd : {"none", "sync", "history", "tui"}, dates : BOOLEAN,
   only : Chats \cup {NoChat}, topic : Topics \cup {0}, ctxDone : BOOLEAN,
   chats : SUBSET Chats, chat : Chats \cup {NoChat}, topics : SUBSET Topics,
   target : ((Chats \cup {NoChat}) \X {0}) \cup Targets,
   snap : [Targets -> 0..MaxId], batch : Batches, mark : Marks, total : Nat,
   err : BOOLEAN]

TypeOK ==
  /\ posted \in [Targets -> 0..MaxId]
  /\ readTo \in [Targets -> 0..MaxId]
  /\ elsewhere \in [Targets -> 0..MaxId]
  /\ saved \in [Targets -> SUBSET Text]
  /\ row \in [Procs -> Rows]
  /\ proc \in [Procs -> Processes]
  /\ faults \in Nat

\* The archive this pipeline implements.  Its posts, cursors and texts are
\* those of the pipeline; the runs, their rows and the processes' state are
\* details it knows nothing of.
A == INSTANCE Archive WITH
       Targets <- Targets, MaxId <- MaxId, Text <- Text,
       posted <- posted, readTo <- readTo, elsewhere <- elsewhere, saved <- saved

\* Every step of every process, with its failures, interrupts and crashes, is
\* a step the archive allows or changes nothing of it.
ImplementsArchive == A!Spec

\* A text at or below the read cursor is in the database, or the user read it.
ReadIsSaved == A!ReadIsSaved

\* The status of a finished run tells the truth about it: "ok" means that all
\* it selected was fetched and recorded, "error" of a sync that no text was
\* saved, "partial" that some was.
StatusIsTrue ==
  \A p \in Procs :
    /\ row[p].status = "ok" =>
         \A t \in row[p].goal : \E i \in row[p].items : i.target = t /\ ~i.failed
    /\ row[p].status = "error" /\ row[p].mode = "sync" =>
         \A t \in Targets : row[p].wrote[t] = 0
    /\ row[p].status = "partial" => \E t \in Targets : row[p].wrote[t] > 0

\* The saved count of an item is what its run committed for the target: there
\* is no commit behind a failed item, and none is recorded twice.
ItemsAreTrue ==
  \A p \in Procs : \A i \in row[p].items :
    i.target \in Targets => i.saved = row[p].wrote[i.target]

\* A run is left "running" only by a crash or a failed FinishRun.
RunIsClosed ==
  \A p \in Procs : At(p, "idle") /\ row[p].status = "running" => row[p].cut

\* A launched command ends.
CommandEnds == \A p \in Procs : ~At(p, "idle") ~> At(p, "idle")

\* Someone who keeps running sync over all chats, and whose failures end.
KeepsSyncing(p) == Launch(p) /\ proc'[p].cmd = "sync" /\ proc'[p].only = NoChat

PatientSpec == FairSpec /\ \A p \in Procs : SF_vars(KeepsSyncing(p))

\* Without limits every text that arrives is saved at last, or was read by the
\* user: no failure, crash or interrupt makes sync skip it for good.
EveryTextArchived ==
  \A t \in Targets : \A id \in Text :
    posted[t] >= id ~> (id \in saved[t] \/ id <= elsewhere[t])
=============================================================================
