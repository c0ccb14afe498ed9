---------------------------- MODULE FetchRowsProofs ---------------------------
(***************************************************************************)
(* For any number of processes, chats, topics and messages: a message has  *)
(* the rows of its chat and topic, an export is exact and the list of      *)
(* chats adds up.                                                          *)
(***************************************************************************)
EXTENDS FetchRows, TLAPS, SequenceTheorems

AnyTarget == Targets \cup {<<None, None>>}

PCs == {"idle", "listed", "ready", "saving"}

ProcRecords ==
  [pc : PCs, saves : BOOLEAN, listing : BOOLEAN,
   target : AnyTarget, chats : SUBSET Chats, ids : SUBSET Ids, step : Int]

RowsOk ==
  /\ chatRows \subseteq Chats
  /\ topicRows \subseteq Topics
  /\ proc \in [Procs -> ProcRecords]

\* What a process has already saved of its fetch is there.
SavedSoFar(p) ==
  proc[p].pc = "saving" =>
    /\ proc[p].target \in Targets /\ proc[p].step \in 1..3
    /\ proc[p].step >= 2 => proc[p].target[1] \in chatRows
    /\ proc[p].step >= 3 => proc[p].target[2] = None \/ proc[p].target[2] \in topicRows

IInv == RowsOk /\ (\A p \in Procs : SavedSoFar(p)) /\ SavedIsListed

LEMMA OrderFacts ==
  /\ Len(Order) = 3
  /\ Order[1] = "chats" /\ Order[2] = "topics" /\ Order[3] = "messages"
  BY DEF Order

(* The records that commands go on with *)

Ready(pc, saves) == [Idle EXCEPT !.pc = pc, !.saves = saves, !.listing = TRUE]

Saving(r, pc, step, t, chats, ids) ==
  [r EXCEPT !.pc = pc, !.step = step, !.target = t, !.chats = chats, !.ids = ids]

NextStep(r) == [r EXCEPT !.step = @ + 1, !.chats = {}]

LEMMA IdleRecord == Idle \in ProcRecords /\ Idle.pc = "idle"
  BY DEF Idle, AnyTarget, ProcRecords, PCs

LEMMA ReadyRecord ==
  ASSUME NEW pc \in PCs, NEW saves \in BOOLEAN
  PROVE  Ready(pc, saves) \in ProcRecords /\ Ready(pc, saves).pc = pc
<1>1. ASSUME NEW r \in ProcRecords
      PROVE  LET next == [r EXCEPT !.pc = pc, !.saves = saves, !.listing = TRUE]
             IN  next \in ProcRecords /\ next.pc = pc
  BY DEF ProcRecords
<1> QED
  BY <1>1, IdleRecord DEF Ready

LEMMA SavingRecord ==
  ASSUME NEW r \in ProcRecords, NEW pc \in PCs, NEW step \in Int, NEW t \in AnyTarget,
         NEW chats \in SUBSET Chats, NEW ids \in SUBSET Ids
  PROVE  /\ Saving(r, pc, step, t, chats, ids) \in ProcRecords
         /\ Saving(r, pc, step, t, chats, ids).step = step
         /\ Saving(r, pc, step, t, chats, ids).target = t
  BY DEF ProcRecords, Saving

LEMMA NextRecord ==
  ASSUME NEW r \in ProcRecords
  PROVE  /\ NextStep(r) \in ProcRecords /\ NextStep(r).pc = r.pc
         /\ NextStep(r).target = r.target /\ NextStep(r).step = r.step + 1
<1>1. r.step + 1 \in Int /\ {} \in SUBSET Chats
  BY DEF ProcRecords
<1>2. ASSUME NEW step \in Int, NEW chats \in SUBSET Chats
      PROVE  LET next == [r EXCEPT !.step = step, !.chats = chats]
             IN  /\ next \in ProcRecords /\ next.pc = r.pc
                 /\ next.target = r.target /\ next.step = step
  BY DEF ProcRecords
<1> QED
  BY <1>1, <1>2 DEF NextStep

LEMMA InitIInv == Init => IInv
<1> SUFFICES ASSUME Init PROVE IInv
  OBVIOUS
<1>1. proc \in [Procs -> ProcRecords] /\ \A p \in Procs : proc[p] = Idle
  BY IdleRecord DEF Init
<1> QED
  BY <1>1, IdleRecord DEF Init, IInv, RowsOk, SavedSoFar, SavedIsListed

-----------------------------------------------------------------------------
(* A process's step *)

\* Rows are only added, and no message without its rows: it is enough to look
\* at the process that moves.
LEMMA MovePreserves ==
  ASSUME IInv, NEW p \in Procs, NEW next \in ProcRecords, Become(p, next),
         chatRows \subseteq chatRows', chatRows' \subseteq Chats,
         topicRows \subseteq topicRows', topicRows' \subseteq Topics,
         next.pc = "saving" =>
           /\ next.target \in Targets /\ next.step \in 1..3
           /\ next.step >= 2 => next.target[1] \in chatRows'
           /\ next.step >= 3 => next.target[2] = None \/ next.target[2] \in topicRows',
         \A m \in messages' \ messages :
           m[1] \in chatRows' /\ (m[2] = None \/ m[2] \in topicRows')
  PROVE  IInv'
<1>1. RowsOk'
  BY DEF IInv, RowsOk, Become
<1>2. \A q \in Procs : SavedSoFar(q)'
  <2> SUFFICES ASSUME NEW q \in Procs PROVE SavedSoFar(q)'
    OBVIOUS
  <2>1. CASE q = p
    BY <2>1 DEF Become, IInv, RowsOk, SavedSoFar
  <2>2. CASE q # p
    <3>1. proc'[q] = proc[q]
      BY <2>2 DEF Become, IInv, RowsOk
    <3> QED
      BY <3>1 DEF IInv, SavedSoFar
  <2> QED
    BY <2>1, <2>2
<1>3. SavedIsListed'
  BY DEF IInv, SavedIsListed
<1> QED
  BY <1>1, <1>2, <1>3 DEF IInv

\* The state that NextSave leads to.
Saved(p) ==
  IF proc[p].step = Len(Order) THEN Ready("ready", proc[p].saves) ELSE NextStep(proc[p])

LEMMA SavedFacts ==
  ASSUME IInv, NEW p \in Procs, proc[p].pc = "saving"
  PROVE  /\ Saved(p) \in ProcRecords
         /\ proc[p].step = 3 => Saved(p).pc = "ready"
         /\ proc[p].step # 3 =>
              /\ Saved(p).pc = "saving" /\ Saved(p).target = proc[p].target
              /\ Saved(p).step = proc[p].step + 1
<1>1. proc[p] \in ProcRecords /\ proc[p].saves \in BOOLEAN /\ "ready" \in PCs
  BY DEF IInv, RowsOk, ProcRecords, PCs
<1> QED
  BY <1>1, OrderFacts, ReadyRecord, NextRecord DEF Saved

LEMMA StepIInv ==
  ASSUME IInv, NEW p \in Procs, Step(p)
  PROVE  IInv'
<1>0. proc[p] \in ProcRecords /\ SavedSoFar(p) /\ RowsOk
  BY DEF IInv, RowsOk
<1>1. CASE ListDialogs(p)
  <2>1. PICK saves \in BOOLEAN : Become(p, Ready(IF saves THEN "listed" ELSE "ready", saves))
    BY <1>1 DEF ListDialogs, Ready
  <2> DEFINE pc == IF saves THEN "listed" ELSE "ready"
  <2>2. pc \in PCs /\ pc # "saving"
    BY DEF PCs
  <2>3. UNCHANGED db
    BY <1>1 DEF ListDialogs
  <2> HIDE DEF pc
  <2>4. Ready(pc, saves) \in ProcRecords /\ Ready(pc, saves).pc # "saving"
    BY <2>2, ReadyRecord
  <2>5. Become(p, Ready(pc, saves))
    BY <2>1 DEF pc
  <2> QED
    BY <1>0, <2>3, <2>4, <2>5, MovePreserves DEF db, RowsOk
<1>2. CASE SaveDialogs(p)
  <2> DEFINE next == [proc[p] EXCEPT !.pc = "ready"]
  <2>1. Become(p, next) /\ chatRows' = Chats /\ UNCHANGED <<topicRows, messages>>
    BY <1>2 DEF SaveDialogs
  <2>2. next \in ProcRecords /\ next.pc # "saving"
    BY <1>0 DEF ProcRecords, PCs
  <2> HIDE DEF next
  <2> QED
    BY <1>0, <2>1, <2>2, MovePreserves DEF RowsOk
<1>3. CASE SaveTopics(p)
  BY <1>0, <1>3 DEF SaveTopics, IInv, RowsOk, SavedSoFar, SavedIsListed
<1>4. CASE Fetch(p)
  <2>1. PICK t \in Targets, chats \in SUBSET Chats, ids \in SUBSET Ids :
          Become(p, Saving(proc[p], "saving", 1, t, chats, ids))
    BY <1>4 DEF Fetch, Saving
  <2>2. "saving" \in PCs /\ t \in AnyTarget
    BY DEF PCs, AnyTarget
  <2> DEFINE next == Saving(proc[p], "saving", 1, t, chats, ids)
  <2>3. next \in ProcRecords /\ next.step = 1 /\ next.target = t
    <3>1. proc[p] \in ProcRecords /\ 1 \in Int
      BY <1>0
    <3> QED
      BY <2>2, <3>1, SavingRecord
  <2>4. Become(p, next) /\ UNCHANGED db
    BY <1>4, <2>1 DEF Fetch
  <2> HIDE DEF next
  <2> QED
    BY <1>0, <2>3, <2>4, MovePreserves DEF db, RowsOk
<1>5. CASE SaveChats(p) \/ SaveTopic(p) \/ SaveMessages(p)
  <2>1. /\ proc[p].pc = "saving" /\ proc[p].target \in Targets
        /\ proc[p].step \in 1..3 /\ Become(p, Saved(p))
    BY <1>0, <1>5 DEF SaveChats, SaveTopic, SaveMessages, Saves, NextSave, Saved, Ready, NextStep, SavedSoFar
  <2>2. proc[p].target[1] \in Chats /\ proc[p].target[2] \in Topics \cup {None}
    BY <2>1 DEF Targets, Chats
  <2>3. CASE SaveChats(p)
    <3>1. /\ proc[p].step = 1 /\ UNCHANGED <<topicRows, messages>>
          /\ chatRows' = chatRows \cup {proc[p].target[1]} \cup proc[p].chats
      BY <2>1, <2>3, OrderFacts DEF SaveChats, Saves
    <3>2. proc[p].chats \subseteq Chats
      BY <1>0 DEF ProcRecords
    <3> QED
      BY <1>0, <2>1, <2>2, <3>1, <3>2, SavedFacts, MovePreserves DEF RowsOk
  <2>4. CASE SaveTopic(p)
    <3>1. /\ proc[p].step = 2 /\ UNCHANGED <<chatRows, messages>>
          /\ topicRows' = topicRows \cup ({proc[p].target[2]} \ {None})
      BY <2>1, <2>4, OrderFacts DEF SaveTopic, Saves
    <3> QED
      BY <1>0, <2>1, <2>2, <3>1, SavedFacts, MovePreserves DEF RowsOk, SavedSoFar
  <2>5. CASE SaveMessages(p)
    <3>1. /\ proc[p].step = 3 /\ UNCHANGED <<chatRows, topicRows>>
          /\ messages' = messages \cup
               {<<proc[p].target[1], proc[p].target[2], id>> : id \in proc[p].ids}
      BY <2>1, <2>5, OrderFacts DEF SaveMessages, Saves
    <3>2. \A m \in messages' \ messages :
            m[1] \in chatRows' /\ (m[2] = None \/ m[2] \in topicRows')
      BY <1>0, <2>1, <3>1 DEF SavedSoFar
    <3> QED
      BY <1>0, <2>1, <3>1, <3>2, SavedFacts, MovePreserves DEF RowsOk
  <2> QED
    BY <1>5, <2>3, <2>4, <2>5
<1>6. CASE Finish(p) \/ Abort(p)
  <2>1. Become(p, Idle) /\ UNCHANGED db
    BY <1>6 DEF Finish, Abort
  <2>2. Idle \in ProcRecords /\ Idle.pc # "saving"
    BY IdleRecord
  <2> QED
    BY <1>0, <2>1, <2>2, MovePreserves DEF db, RowsOk
<1> QED
  BY <1>1, <1>2, <1>3, <1>4, <1>5, <1>6 DEF Step

\* The offline commands, and another user, change none of the rows.
Offline == StartExport \/ FindChat \/ SelectMessages \/ ListChats \/ ListTopics \/ EndOffline

LEMMA OfflineReads == ASSUME Offline \/ OtherUser PROVE UNCHANGED <<db, proc, sentAt>>
  BY DEF Offline, OtherUser, StartExport, FindChat, SelectMessages, ListChats, ListTopics, EndOffline

LEMMA NextIInv == IInv /\ [Next]_vars => IInv'
<1> SUFFICES ASSUME IInv, [Next]_vars PROVE IInv'
  OBVIOUS
<1>1. CASE \E p \in Procs : Step(p)
  BY <1>1, StepIInv
<1>2. CASE UNCHANGED <<db, proc>>
  BY <1>2 DEF db, IInv, RowsOk, SavedSoFar, SavedIsListed
<1> QED
  BY <1>1, <1>2, OfflineReads DEF Next, Offline, vars

\* No message without the rows of its chat and topic, wherever the four
\* transactions of a fetch are cut and whoever saves in between.
THEOREM RowsFirst == Spec => []SavedIsListed
<1>1. IInv => SavedIsListed
  BY DEF IInv
<1> QED
  BY InitIInv, NextIInv, <1>1, PTL DEF Spec

-----------------------------------------------------------------------------
(* The offline commands *)

AllMessages == {<<t[1], t[2], id>> : t \in Targets, id \in Ids}

OfflinePCs == {"idle", "chat", "messages", "exported", "topics", "failed", "noaccount"}

Dates == 0..Len(Midnight) - 1

AnyTopic == Topics \cup {None}

AnyChat == Chats \cup {None}

OfflineRecords ==
  [pc : OfflinePCs, chat : AnyChat, topic : AnyTopic, since : Dates, until : Dates,
   asked : SUBSET AllMessages, got : SUBSET AllMessages, inTopics : SUBSET AllMessages,
   left : SUBSET AnyChat]

\* What is asked for stays what the query selects, until it is selected.
AskedIsThere ==
  offline.pc \in {"chat", "messages"} =>
    \A m \in offline.asked :
      /\ m \in messages /\ m[1] = offline.chat /\ offline.topic \in {None, m[2]}
      /\ InDays(m, offline.since, offline.until)

\* What is counted for a chat is in the database.
CountedIsThere == offline.pc = "topics" => offline.got \subseteq messages

OfflineInv ==
  /\ messages \subseteq AllMessages
  /\ sentAt \in [Ids -> Hours]
  /\ offline \in OfflineRecords
  /\ AskedIsThere /\ CountedIsThere
  /\ ExportIsExact
  /\ TopicsAddUp

\* The records the commands go through.
Exporting(r, pc, chat, topic, since, until, asked) ==
  [r EXCEPT !.pc = pc, !.chat = chat, !.topic = topic, !.since = since, !.until = until,
            !.asked = asked]

Moved(r, pc) == [r EXCEPT !.pc = pc]

Exported(r, pc, got) == [r EXCEPT !.pc = pc, !.got = got]

Listing(r, pc, left, got) == [r EXCEPT !.pc = pc, !.left = left, !.got = got]

Listed(r, left, inTopics) == [r EXCEPT !.left = left, !.inTopics = inTopics]

LEMMA NoCommandRecord == NoCommand \in OfflineRecords /\ NoCommand.pc = "idle"
<1>1. 0 \in Dates
  BY RowsAssumption, LenProperties DEF Dates
<1> QED
  BY <1>1 DEF NoCommand, OfflineRecords, OfflinePCs, AnyTopic, AnyChat

LEMMA ExportingRecord ==
  ASSUME NEW r \in OfflineRecords, NEW pc \in OfflinePCs, NEW chat \in AnyChat,
         NEW topic \in AnyTopic, NEW since \in Dates, NEW until \in Dates,
         NEW asked \in SUBSET AllMessages
  PROVE  LET next == Exporting(r, pc, chat, topic, since, until, asked)
         IN  /\ next \in OfflineRecords /\ next.pc = pc /\ next.chat = chat
             /\ next.topic = topic /\ next.since = since /\ next.until = until
             /\ next.asked = asked
  BY DEF OfflineRecords, Exporting

LEMMA MovedRecord ==
  ASSUME NEW r \in OfflineRecords, NEW pc \in OfflinePCs
  PROVE  LET next == Moved(r, pc)
         IN  /\ next \in OfflineRecords /\ next.pc = pc /\ next.chat = r.chat
             /\ next.topic = r.topic /\ next.since = r.since /\ next.until = r.until
             /\ next.asked = r.asked
  BY DEF OfflineRecords, Moved

LEMMA ExportedRecord ==
  ASSUME NEW r \in OfflineRecords, NEW pc \in OfflinePCs, NEW got \in SUBSET AllMessages
  PROVE  LET next == Exported(r, pc, got)
         IN  /\ next \in OfflineRecords /\ next.pc = pc /\ next.got = got
             /\ next.since = r.since /\ next.until = r.until /\ next.asked = r.asked
  BY DEF OfflineRecords, Exported

LEMMA ListingRecord ==
  ASSUME NEW r \in OfflineRecords, NEW pc \in OfflinePCs, NEW left \in SUBSET AnyChat,
         NEW got \in SUBSET AllMessages
  PROVE  LET next == Listing(r, pc, left, got)
         IN  next \in OfflineRecords /\ next.pc = pc /\ next.left = left /\ next.got = got
  BY DEF OfflineRecords, Listing

LEMMA ListedRecord ==
  ASSUME NEW r \in OfflineRecords, NEW left \in SUBSET AnyChat,
         NEW inTopics \in SUBSET AllMessages
  PROVE  LET next == Listed(r, left, inTopics)
         IN  /\ next \in OfflineRecords /\ next.pc = r.pc /\ next.left = left
             /\ next.got = r.got /\ next.inTopics = inTopics
  BY DEF OfflineRecords, Listed

-----------------------------------------------------------------------------
LEMMA InitOffline == Init => OfflineInv
<1> SUFFICES ASSUME Init PROVE OfflineInv
  OBVIOUS
<1>1. offline \in OfflineRecords /\ offline.pc = "idle" /\ messages = {}
  BY NoCommandRecord DEF Init
<1> QED
  BY <1>1 DEF Init, OfflineInv, AskedIsThere, CountedIsThere, ExportIsExact, TopicsAddUp

\* A process only adds messages.
LEMMA ProcessKeepsOffline ==
  ASSUME OfflineInv, IInv, NEW p \in Procs, Step(p)
  PROVE  OfflineInv'
<1>1. UNCHANGED <<sentAt, offline>>
  BY DEF Step, ListDialogs, SaveDialogs, SaveTopics, Fetch, SaveChats, SaveTopic, SaveMessages,
         Finish, Abort
<1>2. messages \subseteq messages' /\ messages' \subseteq AllMessages
  <2>1. CASE SaveMessages(p)
    <3>1. proc[p].target \in Targets /\ proc[p].ids \subseteq Ids
      BY <2>1 DEF SaveMessages, Saves, IInv, RowsOk, SavedSoFar, ProcRecords
    <3> QED
      BY <2>1, <3>1 DEF SaveMessages, OfflineInv, AllMessages
  <2>2. CASE ~SaveMessages(p)
    BY <2>2 DEF Step, ListDialogs, SaveDialogs, SaveTopics, Fetch, SaveChats, SaveTopic,
                Finish, Abort, db, OfflineInv
  <2> QED
    BY <2>1, <2>2
<1> QED
  BY <1>1, <1>2 DEF OfflineInv, AskedIsThere, CountedIsThere, ExportIsExact, TopicsAddUp, InDays

\* A command without an account, and one that has not begun, claims nothing.
LEMMA NothingClaimed ==
  ASSUME OfflineInv, UNCHANGED <<messages, sentAt>>, offline' \in OfflineRecords,
         offline'.pc \in {"idle", "noaccount"}
  PROVE  OfflineInv'
  BY DEF OfflineInv, AskedIsThere, CountedIsThere, ExportIsExact, TopicsAddUp

LEMMA ExportStep ==
  ASSUME OfflineInv, IInv, StartExport \/ FindChat \/ SelectMessages
  PROVE  OfflineInv'
<1>0. /\ UNCHANGED <<messages, sentAt>> /\ offline \in OfflineRecords
      /\ messages \subseteq AllMessages
  BY OfflineReads DEF Offline, db, OfflineInv
<1>1. CASE StartExport
  <2>1. PICK named \in BOOLEAN, chat \in Chats, topic \in Topics \cup {None}, range \in Ranges :
          offline' = IF Resolves(named)
                     THEN Exporting(NoCommand, "chat", chat, topic, range[1], range[2],
                                    AskedFor(chat, topic, range[1], range[2]))
                     ELSE Moved(NoCommand, "noaccount")
    BY <1>1 DEF StartExport, Exporting, Moved
  <2> DEFINE asked == AskedFor(chat, topic, range[1], range[2])
  <2>2. "noaccount" \in OfflinePCs /\ "chat" \in OfflinePCs
    BY DEF OfflinePCs
  <2>3. CASE ~Resolves(named)
    BY <1>0, <2>1, <2>2, <2>3, NoCommandRecord, MovedRecord, NothingClaimed
  <2>4. CASE Resolves(named)
    <3>1. /\ range[1] \in Dates /\ range[2] \in Dates /\ asked \in SUBSET AllMessages
          /\ chat \in AnyChat /\ topic \in AnyTopic
      BY <1>0, RowsAssumption DEF Dates, AnyChat, AnyTopic, AskedFor
    <3>2. offline' = Exporting(NoCommand, "chat", chat, topic, range[1], range[2], asked)
      BY <2>1, <2>4
    <3>3. \A m \in asked : /\ m \in messages /\ m[1] = chat /\ topic \in {None, m[2]}
                            /\ InDays(m, range[1], range[2])
      BY DEF AskedFor
    <3> HIDE DEF asked
    <3>4. /\ offline' \in OfflineRecords /\ offline'.pc = "chat" /\ offline'.chat = chat
          /\ offline'.topic = topic /\ offline'.since = range[1] /\ offline'.until = range[2]
          /\ offline'.asked = asked
      BY <2>2, <3>1, <3>2, NoCommandRecord, ExportingRecord
    <3>5. AskedIsThere'
      BY <1>0, <3>3, <3>4 DEF AskedIsThere, InDays
    <3> QED
      BY <1>0, <3>4, <3>5 DEF OfflineInv, CountedIsThere, ExportIsExact, TopicsAddUp
  <2> QED
    BY <2>3, <2>4
<1>2. CASE FindChat
  <2> DEFINE pc == IF offline.chat \in chatRows THEN "messages" ELSE "failed"
  <2>1. offline' = Moved(offline, pc) /\ offline.pc = "chat"
    BY <1>2 DEF FindChat, Moved
  <2>2. pc \in OfflinePCs /\ (pc = "messages" \/ pc = "failed")
    BY DEF OfflinePCs
  <2>3. pc = "failed" => offline.asked = {}
    BY <2>1 DEF IInv, SavedIsListed, OfflineInv, AskedIsThere
  <2> HIDE DEF pc
  <2>4. /\ offline' \in OfflineRecords /\ offline'.pc = pc /\ offline'.chat = offline.chat
        /\ offline'.topic = offline.topic /\ offline'.since = offline.since
        /\ offline'.until = offline.until /\ offline'.asked = offline.asked
    BY <1>0, <2>1, <2>2, MovedRecord
  <2>5. AskedIsThere'
    BY <1>0, <2>1, <2>4 DEF OfflineInv, AskedIsThere, InDays
  <2> QED
    BY <1>0, <2>2, <2>3, <2>4, <2>5 DEF OfflineInv, CountedIsThere, ExportIsExact, TopicsAddUp
\* What was asked for and is not selected is cut off by the last hour of a day.
<1>3. CASE SelectMessages
  <2> DEFINE got == {m \in messages : Matches(m)}
  <2>1. offline' = Exported(offline, "exported", got) /\ offline.pc = "messages"
    BY <1>3 DEF SelectMessages, Exported
  <2>2. "exported" \in OfflinePCs /\ got \in SUBSET AllMessages
    BY <1>0 DEF OfflinePCs
  <2>3. /\ offline' \in OfflineRecords /\ offline'.pc = "exported" /\ offline'.got = got
        /\ offline'.since = offline.since /\ offline'.until = offline.until
        /\ offline'.asked = offline.asked
    <3> HIDE DEF got
    <3> QED
      BY <1>0, <2>1, <2>2, ExportedRecord
  <2>4. /\ offline.until \in Dates
        /\ offline.until # 0 => /\ Midnight[offline.until] \in Int
                               /\ Midnight[offline.until + 1] \in Int
    BY <1>0, RowsAssumption, LenProperties DEF OfflineRecords, Dates
  <2>5. \A m \in messages : sentAt[m[3]] \in Int
    <3>1. \A m \in AllMessages : m[3] \in Ids
      BY DEF AllMessages
    <3>2. Hours \subseteq Int
      BY RowsAssumption
    <3> QED
      BY <1>0, <3>1, <3>2 DEF OfflineInv
  <2>6. \A m \in offline.asked \ got :
          offline.until # 0 /\ sentAt[m[3]] >= Midnight[offline.until] + 24
    BY <2>1, <2>4, <2>5 DEF OfflineInv, AskedIsThere, InDays, Matches, Until
  <2>7. \A m \in got :
          /\ offline.since # 0 => sentAt[m[3]] >= Midnight[offline.since]
          /\ \/ InDays(m, offline.since, offline.until)
             \/ /\ offline.until # 0
                /\ sentAt[m[3]] >= Midnight[offline.until + 1]
                /\ sentAt[m[3]] < Midnight[offline.until] + 24
    BY <2>4, <2>5 DEF InDays, Matches, Until
  <2> HIDE DEF got
  <2> QED
    BY <1>0, <2>3, <2>6, <2>7 DEF OfflineInv, AskedIsThere, CountedIsThere, ExportIsExact, TopicsAddUp, InDays
<1> QED
  BY <1>1, <1>2, <1>3

LEMMA ListStep ==
  ASSUME OfflineInv, IInv, ListChats \/ ListTopics \/ EndOffline
  PROVE  OfflineInv'
<1>0. /\ UNCHANGED <<messages, sentAt>> /\ offline \in OfflineRecords
      /\ messages \subseteq AllMessages /\ chatRows \subseteq AnyChat
  BY OfflineReads DEF Offline, db, OfflineInv, IInv, RowsOk, AnyChat
<1>1. CASE ListChats
  <2> DEFINE got == {m \in messages : m[1] \in chatRows}
  <2>1. PICK named \in BOOLEAN :
          offline' = IF Resolves(named) THEN Listing(NoCommand, "topics", chatRows, got)
                     ELSE Moved(NoCommand, "noaccount")
    BY <1>1 DEF ListChats, Listing, Moved
  <2>2. "noaccount" \in OfflinePCs /\ "topics" \in OfflinePCs /\ got \in SUBSET AllMessages
    BY <1>0 DEF OfflinePCs
  <2>3. got \subseteq messages /\ \A m \in got : m[1] \in chatRows
    OBVIOUS
  <2> HIDE DEF got
  <2>4. CASE ~Resolves(named)
    BY <1>0, <2>1, <2>2, <2>4, NoCommandRecord, MovedRecord, NothingClaimed
  <2>5. CASE Resolves(named)
    <3>1. /\ offline' \in OfflineRecords /\ offline'.pc = "topics"
          /\ offline'.left = chatRows /\ offline'.got = got
      BY <1>0, <2>1, <2>2, <2>5, NoCommandRecord, ListingRecord
    <3> QED
      BY <1>0, <2>3, <3>1 DEF OfflineInv, AskedIsThere, CountedIsThere, ExportIsExact, TopicsAddUp
  <2> QED
    BY <2>4, <2>5
\* A message that is in the database when the topics of its chat are read has a
\* row of its topic by then.
<1>2. CASE ListTopics
  <2>1. PICK chat \in offline.left :
          offline' = Listed(offline, offline.left \ {chat}, offline.inTopics \cup
                            {m \in messages : m[1] = chat /\ m[2] \in topicRows})
    BY <1>2 DEF ListTopics, Listed
  <2> DEFINE more == {m \in messages : m[1] = chat /\ m[2] \in topicRows}
             left == offline.left \ {chat}
             inTopics == offline.inTopics \cup more
  <2>2. left \in SUBSET AnyChat /\ inTopics \in SUBSET AllMessages
    BY <1>0 DEF OfflineRecords
  <2>3. /\ offline' \in OfflineRecords /\ offline'.pc = offline.pc /\ offline'.left = left
        /\ offline'.got = offline.got /\ offline'.inTopics = inTopics
    <3>1. offline' = Listed(offline, left, inTopics)
      BY <2>1
    <3> HIDE DEF left, inTopics
    <3> QED
      BY <1>0, <2>2, <3>1, ListedRecord
  <2>4. offline.pc = "topics"
    BY <1>2 DEF ListTopics
  <2>5. \A m \in offline.got : m[1] \in left \/ m[2] = None \/ m \in inTopics
    BY <2>4 DEF OfflineInv, CountedIsThere, TopicsAddUp, IInv, SavedIsListed
  <2> HIDE DEF left, inTopics
  <2> QED
    BY <1>0, <2>3, <2>4, <2>5 DEF OfflineInv, AskedIsThere, CountedIsThere, ExportIsExact, TopicsAddUp
<1>3. CASE EndOffline
  BY <1>0, <1>3, NoCommandRecord, NothingClaimed DEF EndOffline
<1> QED
  BY <1>1, <1>2, <1>3

LEMMA NextOffline == OfflineInv /\ IInv /\ [Next]_vars => OfflineInv'
<1> SUFFICES ASSUME OfflineInv, IInv, [Next]_vars PROVE OfflineInv'
  OBVIOUS
<1>1. CASE \E p \in Procs : Step(p)
  BY <1>1, ProcessKeepsOffline
<1>2. CASE UNCHANGED <<messages, sentAt, offline>>
  BY <1>2 DEF OfflineInv, AskedIsThere, CountedIsThere, ExportIsExact, TopicsAddUp, InDays
<1>3. CASE StartExport \/ FindChat \/ SelectMessages
  BY <1>3, ExportStep
<1>4. CASE ListChats \/ ListTopics \/ EndOffline
  BY <1>4, ListStep
<1>5. CASE OtherUser
  BY <1>2, <1>5 DEF OtherUser, db
<1> QED
  BY <1>1, <1>2, <1>3, <1>4, <1>5 DEF Next, vars, db

\* An export has what was saved of the days asked for and nothing else, but for
\* the hour by which the last local day is longer or shorter than 24: nothing sent
\* before --since is in it, whoever saves between its queries.
THEOREM ExportExact == Spec => []ExportIsExact
<1>1. OfflineInv => ExportIsExact
  BY DEF OfflineInv
<1> QED
  BY InitIInv, NextIInv, InitOffline, NextOffline, <1>1, PTL DEF Spec

\* The messages of a forum are all accounted for by the topics listed with it.
THEOREM ListAddsUp == Spec => []TopicsAddUp
<1>1. OfflineInv => TopicsAddUp
  BY DEF OfflineInv
<1> QED
  BY InitIInv, NextIInv, InitOffline, NextOffline, <1>1, PTL DEF Spec

=============================================================================
