--------------------------- MODULE ArchiveRunProofs ---------------------------
(***************************************************************************)
(* The archiving pipeline implements the archive, for any number of        *)
(* processes, chats, topics, message ids, limits and faults; so no text    *)
(* falls below a read cursor unsaved.  In its second part: the rows of the *)
(* runs tell the truth.  In its third: a command runs out of steps.        *)
(*                                                                         *)
(* The inductive invariant relates what a process remembers to what        *)
(* Telegram and the database hold: its cursors are not ahead of            *)
(* Telegram's, its batch has no hole above its cursor, and when it marks,  *)
(* the batch is in the database.                                           *)
(***************************************************************************)
EXTENDS ArchiveRun, FiniteSetTheorems, WellFoundedInduction, TLAPS

\* Which chat, topic and target a process may have at each point.
Located(me) ==
  /\ me.pc # "idle" => me.cmd \in {"sync", "history", "tui"}
  /\ me.pc = "dialogs" /\ me.cmd # "sync" =>
       me.only \in Chats /\ (me.only \in Forums => me.topic \in Topics)
  /\ me.pc \in {"start", "item", "failed"} => me.cmd \in {"sync", "history"}
  /\ me.pc = "next" /\ me.cmd # "sync" =>
       \A c \in me.chats : c \in Forums => me.topic \in Topics
  /\ me.pc = "topics" => me.chat \in Forums /\ (me.cmd # "sync" => me.topic \in Topics)
  /\ me.pc = "nextTopic" => me.chat \in Forums /\ me.cmd = "sync"
  /\ me.pc \in {"topics", "failed", "item"} => me.target \in (Chats \X {0}) \cup Targets
  /\ me.pc = "start" /\ me.cmd = "history" => me.target \in Targets
  /\ me.pc \in {"fetch", "entities", "messages", "mark"} => me.target \in Targets

\* The cursors a process was given are not ahead of Telegram's.
SnapOld(me) == \A t \in Targets : me.snap[t] <= readTo[t]

\* A fetched batch exists, and one fetched from a cursor has no hole above it.
Fetched(me) ==
  me.pc \in {"entities", "messages", "mark"} =>
    /\ me.batch.ids \subseteq Available(me.target)
    /\ ~me.dates => \A h \in me.batch.ids : \A i \in Text :
                      me.snap[me.target] < i /\ i <= h => i \in me.batch.ids

\* A process marks only after its batch is committed.
Committed(me) == me.pc = "mark" => me.batch.ids \subseteq saved[me.target]

ProcInv(me) == Located(me) /\ SnapOld(me) /\ Fetched(me) /\ Committed(me)

Cursors == \A t \in Targets : elsewhere[t] <= readTo[t] /\ readTo[t] <= posted[t]

IInv ==
  /\ TypeOK
  /\ Cursors
  /\ \A p \in Procs : ProcInv(proc[p])
  /\ ReadIsSaved

-----------------------------------------------------------------------------
(* Sets of texts *)

LEMMA TextFinite ==
  ASSUME NEW S \in SUBSET Text
  PROVE  IsFiniteSet(S) /\ Cardinality(S) \in Nat
<1>1. IsFiniteSet(1..MaxId)
  BY RunAssumption, FS_Interval
<1>2. IsFiniteSet(S)
  BY <1>1, FS_Subset, RunAssumption
<1> QED
  BY <1>2, FS_CardinalityType

\* A nonempty set of texts has a newest one: the least distance to MaxId is
\* attained, because < is well-founded on the naturals.
LEMMA LargestProperties ==
  ASSUME NEW S \in SUBSET Text, S # {}
  PROVE  Largest(S) \in S /\ \A y \in S : y <= Largest(S)
<1> DEFINE T == {n \in Nat : MaxId - n \in S}
           R == {ss \in Nat \X Nat : ss[1] < ss[2]}
<1>1. \A x \in S : x \in Int /\ MaxId - x \in T
  BY RunAssumption
<1>2. PICK d \in T : \A e \in T : ~(<<e, d>> \in R)
  <2>1. T \subseteq Nat /\ T # {}
    BY <1>1
  <2>2. IsWellFoundedOn(R, Nat)
    BY NatLessThanWellFounded DEF OpToRel
  <2> HIDE DEF T, R
  <2> QED
    BY <2>1, <2>2, WFMin
<1>3. \A e \in T : d <= e
  <2> SUFFICES ASSUME NEW e \in T, e < d PROVE FALSE
    OBVIOUS
  <2>1. <<e, d>> \in Nat \X Nat /\ <<e, d>>[1] < <<e, d>>[2]
    OBVIOUS
  <2>2. <<e, d>> \in R
    BY <2>1
  <2> QED
    BY <1>2, <2>2
<1>4. ASSUME NEW y \in S PROVE y <= MaxId - d
  <2>1. y \in Int /\ d <= MaxId - y
    BY <1>1, <1>3
  <2> QED
    BY <2>1, RunAssumption
<1>5. \E x \in S : \A y \in S : y <= x
  BY <1>4 DEF T
<1> QED
  BY <1>5 DEF Largest

-----------------------------------------------------------------------------
(* Steps that leave Telegram and the messages alone *)

\* Such a step keeps the invariant when the process that takes it does.
LEMMA QuietStep ==
  ASSUME IInv, NEW p \in Procs, NEW next \in Processes, ProcInv(next),
         proc' = [proc EXCEPT ![p] = next],
         UNCHANGED <<telegram, saved>>, row' \in [Procs -> Rows], faults' \in Nat
  PROVE  IInv'
<1>1. TypeOK'
  BY DEF IInv, TypeOK, telegram
<1>2. Cursors' /\ ReadIsSaved'
  BY DEF IInv, Cursors, ReadIsSaved, A!ReadIsSaved, A!Accounted, telegram
<1>3. ASSUME NEW q \in Procs PROVE ProcInv(proc[q])'
  <2>1. proc'[q] \in {proc[q], next}
    BY DEF IInv, TypeOK
  <2>2. ProcInv(proc'[q])
    BY <2>1 DEF IInv
  <2> QED
    BY <2>2 DEF ProcInv, Located, SnapOld, Fetched, Committed, Available, telegram
<1> QED
  BY <1>1, <1>2, <1>3 DEF IInv

LEMMA IdleOK == Idle \in Processes /\ (TypeOK => ProcInv(Idle))
<1>1. NoBatch \in Batches
  BY DEF NoBatch, Batches
<1>2. [t \in Targets |-> 0] \in [Targets -> 0..MaxId]
  BY RunAssumption
<1>3. Idle \in Processes
  BY <1>1, <1>2, RunAssumption DEF Idle, Processes, PCs, Marks
<1>4. TypeOK => ProcInv(Idle)
  BY RunAssumption DEF Idle, ProcInv, Located, SnapOld, Fetched, Committed, TypeOK
<1> QED
  BY <1>3, <1>4

LEMMA NoRowOK == NoRow \in Rows
BY DEF NoRow, Rows

LEMMA FaultType ==
  ASSUME TypeOK, NEW p \in Procs, Fault(p)
  PROVE  faults' \in Nat
BY DEF Fault, TypeOK

LEMMA Me ==
  ASSUME IInv, NEW p \in Procs
  PROVE  proc[p] \in Processes /\ ProcInv(proc[p])
BY DEF IInv, TypeOK

\* Giving up: the process is idle again.
LEMMA GiveUp ==
  ASSUME IInv, NEW p \in Procs, Become(p, Idle), UNCHANGED <<telegram, saved>>,
         row' \in [Procs -> Rows], faults' \in Nat
  PROVE  IInv'
BY IdleOK, QuietStep DEF Become, IInv

LEMMA LaunchStep ==
  ASSUME IInv, NEW p \in Procs, Launch(p)
  PROVE  IInv'
<1>1. PICK cmd \in Commands, only \in Chats \cup {NoChat},
           topic \in Topics \cup {0}, dates \in BOOLEAN :
         /\ cmd \in {"sync", "history", "tui"}
         /\ cmd # "sync" => only # NoChat /\ (only \in Forums => topic # 0)
         /\ Become(p, [Idle EXCEPT !.pc = "dialogs", !.cmd = cmd, !.only = only,
                                   !.topic = topic, !.dates = dates])
  BY RunAssumption DEF Launch
<1> DEFINE next == [Idle EXCEPT !.pc = "dialogs", !.cmd = cmd, !.only = only,
                                !.topic = topic, !.dates = dates]
<1>2. next \in Processes
  BY IdleOK, RunAssumption DEF Processes, PCs
<1>3. ProcInv(next)
  BY <1>1, RunAssumption DEF Idle, ProcInv, Located, SnapOld, Fetched, Committed, IInv, TypeOK
<1>4. row' \in [Procs -> Rows] /\ faults' \in Nat /\ UNCHANGED <<telegram, saved>>
  BY NoRowOK DEF Launch, IInv, TypeOK
<1> QED
  BY <1>1, <1>2, <1>3, <1>4, QuietStep DEF Become

LEMMA LoadDialogsStep ==
  ASSUME IInv, NEW p \in Procs, LoadDialogs(p)
  PROVE  IInv'
<1> DEFINE me == proc[p]
           cursors == [t \in Targets |-> IF t[1] \in Plain THEN readTo[t] ELSE 0]
<1>1. row' \in [Procs -> Rows] /\ UNCHANGED <<telegram, saved>>
  BY DEF LoadDialogs, IInv, TypeOK
<1>2. CASE Fault(p) /\ Become(p, Idle)
  BY <1>1, <1>2, FaultType, GiveUp DEF IInv
<1>3. ASSUME NEW chosen \in IF me.cmd = "sync" THEN SyncSelections(me.only) ELSE {{me.only}},
             Become(p, IF chosen = {} THEN Idle
                       ELSE [me EXCEPT !.snap = cursors, !.chats = chosen,
                                       !.pc = IF me.cmd = "sync" THEN "start" ELSE "next"]),
             UNCHANGED faults
      PROVE  IInv'
  <2>1. CASE chosen = {}
    BY <1>1, <1>3, <2>1, GiveUp DEF IInv, TypeOK
  <2>2. CASE chosen # {}
    <3> DEFINE to == IF me.cmd = "sync" THEN "start" ELSE "next"
               next == [me EXCEPT !.snap = cursors, !.chats = chosen, !.pc = to]
    <3>1. me \in Processes /\ ProcInv(me) /\ me.pc = "dialogs"
      BY Me DEF LoadDialogs, At
    <3>2. cursors \in [Targets -> 0..MaxId] /\ \A t \in Targets : cursors[t] <= readTo[t]
      BY RunAssumption DEF IInv, TypeOK
    <3>3. /\ me.cmd \in {"sync", "history", "tui"}
          /\ me.cmd # "sync" => me.only \in Chats /\ (me.only \in Forums => me.topic \in Topics)
      BY <3>1 DEF ProcInv, Located
    <3>4. chosen \subseteq Chats
      <4>1. CASE me.cmd = "sync"
        BY <1>3, <4>1 DEF SyncSelections
      <4>2. CASE me.cmd # "sync"
        BY <1>3, <3>3, <4>2
      <4> QED
        BY <4>1, <4>2
    <3>a. to \in PCs
      BY DEF PCs
    <3> HIDE DEF cursors, to
    <3>5. next \in Processes
      BY <3>1, <3>2, <3>4, <3>a DEF Processes
    <3>6. next.pc \in {"start", "next"} /\ next.snap = cursors /\ next.cmd = me.cmd
          /\ next.topic = me.topic /\ next.chats = chosen
          /\ (next.pc = "start" <=> me.cmd = "sync")
      BY <3>1 DEF Processes, to
    <3>7. me.cmd # "sync" => chosen = {me.only}
      BY <1>3
    <3> HIDE DEF next
    <3>8. ProcInv(next)
      BY <3>2, <3>3, <3>6, <3>7 DEF ProcInv, Located, SnapOld, Fetched, Committed
    <3> QED
      BY <1>1, <1>3, <2>2, <3>5, <3>8, QuietStep DEF Become, next, to, IInv, TypeOK
  <2> QED
    BY <2>1, <2>2
<1> QED
  BY <1>2, <1>3 DEF LoadDialogs

LEMMA StartRunStep ==
  ASSUME IInv, NEW p \in Procs, StartRun(p)
  PROVE  IInv'
<1> DEFINE me == proc[p]
<1>1. UNCHANGED <<telegram, saved>>
  BY DEF StartRun
<1>2. CASE Fault(p) /\ Become(p, Idle) /\ UNCHANGED row
  BY <1>1, <1>2, FaultType, GiveUp DEF IInv, TypeOK
<1>3. CASE /\ row' = [row EXCEPT ![p] = [NoRow EXCEPT !.mode = me.cmd, !.status = "running",
                        !.goal = IF me.cmd = "history" THEN {me.target} ELSE {}]]
           /\ Goto(p, IF me.cmd = "sync" THEN "next" ELSE "fetch")
           /\ UNCHANGED faults
  <2> DEFINE next == [me EXCEPT !.pc = IF me.cmd = "sync" THEN "next" ELSE "fetch"]
  <2>1. me \in Processes /\ ProcInv(me) /\ me.pc = "start"
    BY Me DEF StartRun, At
  <2>2. me.cmd \in {"sync", "history"} /\ (me.cmd = "history" => me.target \in Targets)
    BY <2>1 DEF ProcInv, Located
  <2>3. [NoRow EXCEPT !.mode = me.cmd, !.status = "running",
           !.goal = IF me.cmd = "history" THEN {me.target} ELSE {}] \in Rows
    BY <2>2, NoRowOK DEF Rows
  <2>4. row' \in [Procs -> Rows]
    BY <1>3, <2>3 DEF IInv, TypeOK
  <2>5. next \in Processes
    BY <2>1 DEF Processes, PCs
  <2>6. ProcInv(next)
    BY <2>1, <2>2 DEF ProcInv, Located, SnapOld, Fetched, Committed, Processes
  <2> QED
    BY <1>1, <1>3, <2>4, <2>5, <2>6, QuietStep DEF Goto, Become, IInv, TypeOK
<1> QED
  BY <1>2, <1>3 DEF StartRun

\* A forum's row has no target; the targets of the rest are what they seem.
LEMMA TargetTypes ==
  /\ Targets \subseteq (Chats \X {0}) \cup Targets
  /\ \A c \in Chats : <<c, 0>> \in (Chats \X {0}) \cup Targets
  /\ \A c \in Chats : c \notin Forums => <<c, 0>> \in Targets
  /\ \A c \in Forums : \A k \in Topics : <<c, k>> \in Targets
BY DEF Targets, Chats

LEMMA GoalsType ==
  ASSUME IInv, NEW p \in Procs, NEW new \in SUBSET Targets, AddGoals(p, new)
  PROVE  row' \in [Procs -> Rows]
<1>1. row[p] \in Rows
  BY DEF IInv, TypeOK
<1>2. [row[p] EXCEPT !.goal = @ \cup new] \in Rows
  BY <1>1 DEF Rows
<1> QED
  BY <1>2 DEF AddGoals, IInv, TypeOK

LEMMA NextChatStep ==
  ASSUME IInv, NEW p \in Procs, NextChat(p)
  PROVE  IInv'
<1> DEFINE me == proc[p]
<1>1. PICK c \in me.chats :
        LET new == [me EXCEPT !.chats = @ \ {c}, !.chat = c, !.target = <<c, 0>>]
        IN  IF c \in Forums
            THEN Become(p, [new EXCEPT !.pc = "topics"]) /\ UNCHANGED row
            ELSE Become(p, [new EXCEPT !.pc = Begin(p)]) /\ AddGoals(p, {<<c, 0>>})
  BY DEF NextChat
<1>2. me \in Processes /\ ProcInv(me) /\ me.pc = "next"
  BY Me DEF NextChat, At
<1>3. UNCHANGED <<telegram, saved>> /\ faults' \in Nat
  BY DEF NextChat, IInv, TypeOK
<1>4. c \in Chats
  BY <1>2 DEF Processes
<1> DEFINE new(to) == [me EXCEPT !.chats = @ \ {c}, !.chat = c, !.target = <<c, 0>>, !.pc = to]
<1>5. ASSUME NEW to \in PCs
      PROVE  /\ new(to) \in Processes
             /\ new(to).pc = to /\ new(to).chat = c /\ new(to).target = <<c, 0>>
             /\ new(to).cmd = me.cmd /\ new(to).topic = me.topic /\ new(to).snap = me.snap
  BY <1>2, <1>4, TargetTypes DEF Processes
<1>6. CASE c \in Forums
  <2>1. me.cmd # "sync" => me.topic \in Topics
    BY <1>2, <1>6 DEF ProcInv, Located
  <2>2. "topics" \in PCs
    BY DEF PCs
  <2> HIDE DEF new
  <2>3. ProcInv(new("topics"))
    BY <1>2, <1>4, <1>5, <1>6, <2>1, <2>2, TargetTypes
       DEF ProcInv, Located, SnapOld, Fetched, Committed
  <2>4. Become(p, new("topics")) /\ UNCHANGED row
    BY <1>1, <1>2, <1>6 DEF new, Processes
  <2> QED
    BY <1>3, <1>5, <2>2, <2>3, <2>4, QuietStep DEF Become, IInv, TypeOK
<1>7. CASE c \notin Forums
  <2>1. Begin(p) \in PCs /\ (Begin(p) = "fetch" \/ (Begin(p) = "start" /\ me.cmd = "history"))
    BY DEF Begin, PCs
  <2>2. <<c, 0>> \in Targets
    BY <1>4, <1>7, TargetTypes
  <2>3. row' \in [Procs -> Rows]
    BY <1>1, <1>7, <2>2, GoalsType
  <2> HIDE DEF new
  <2>4. ProcInv(new(Begin(p)))
    BY <1>2, <1>4, <1>5, <2>1, <2>2
       DEF ProcInv, Located, SnapOld, Fetched, Committed
  <2>5. Become(p, new(Begin(p)))
    BY <1>1, <1>2, <1>7 DEF new, Processes
  <2> QED
    BY <1>3, <1>5, <2>1, <2>3, <2>4, <2>5, QuietStep DEF Become
<1> QED
  BY <1>6, <1>7

\* Only the place of the process changes, to one where its batch is not used.
LEMMA GotoStep ==
  ASSUME IInv, NEW p \in Procs, NEW to \in {"finish", "next", "failed"}, Goto(p, to),
         to = "next" => proc[p].pc = "nextTopic" /\ proc[p].cmd = "sync",
         to = "failed" => /\ proc[p].target \in (Chats \X {0}) \cup Targets
                          /\ proc[p].cmd = "sync",
         proc[p].pc # "idle",
         UNCHANGED <<telegram, saved>>, row' \in [Procs -> Rows], faults' \in Nat
  PROVE  IInv'
<1> DEFINE next == [proc[p] EXCEPT !.pc = to]
<1>1. proc[p] \in Processes /\ ProcInv(proc[p])
  BY Me
<1>2. next \in Processes
  BY <1>1 DEF Processes, PCs
<1>3. ProcInv(next)
  BY <1>1 DEF ProcInv, Located, SnapOld, Fetched, Committed, Processes
<1> QED
  BY <1>2, <1>3, QuietStep DEF Goto, Become

LEMMA ChatsDoneStep ==
  ASSUME IInv, NEW p \in Procs, ChatsDone(p)
  PROVE  IInv'
BY GotoStep DEF ChatsDone, At, IInv, TypeOK

LEMMA TopicsDoneStep ==
  ASSUME IInv, NEW p \in Procs, TopicsDone(p)
  PROVE  IInv'
<1>1. proc[p].cmd = "sync" /\ proc[p].pc = "nextTopic"
  BY Me DEF ProcInv, Located, TopicsDone, At
<1> QED
  BY <1>1, GotoStep DEF TopicsDone, IInv, TypeOK

LEMMA NextTopicStep ==
  ASSUME IInv, NEW p \in Procs, NextTopic(p)
  PROVE  IInv'
<1> DEFINE me == proc[p]
<1>1. PICK k \in me.topics :
        Become(p, [me EXCEPT !.topics = @ \ {k}, !.pc = "fetch", !.target = <<me.chat, k>>])
  BY DEF NextTopic
<1> DEFINE next == [me EXCEPT !.topics = @ \ {k}, !.pc = "fetch", !.target = <<me.chat, k>>]
<1>2. me \in Processes /\ ProcInv(me) /\ me.pc = "nextTopic"
  BY Me DEF NextTopic, At
<1>3. <<me.chat, k>> \in Targets
  BY <1>2, TargetTypes DEF ProcInv, Located, Processes
<1>4. next \in Processes
  BY <1>2, <1>3 DEF Processes, PCs
<1>5. next.pc = "fetch" /\ next.cmd = me.cmd /\ next.snap = me.snap /\ next.target = <<me.chat, k>>
  BY <1>2 DEF Processes
<1> HIDE DEF next
<1>6. ProcInv(next)
  BY <1>2, <1>3, <1>5 DEF ProcInv, Located, SnapOld, Fetched, Committed
<1> QED
  BY <1>1, <1>4, <1>6, QuietStep DEF next, Become, NextTopic, IInv, TypeOK

LEMMA LoadTopicsStep ==
  ASSUME IInv, NEW p \in Procs, LoadTopics(p)
  PROVE  IInv'
<1> DEFINE me == proc[p]
           cursors == [t \in Targets |-> IF t[1] = me.chat THEN readTo[t] ELSE me.snap[t]]
           asked == IF me.topic = 0 THEN Topics ELSE {me.topic}
           unread == {k \in asked : Unread(<<me.chat, k>>)}
<1>1. me \in Processes /\ ProcInv(me) /\ me.pc = "topics" /\ me.chat \in Forums
  BY Me DEF LoadTopics, At, ProcInv, Located
<1>2. cursors \in [Targets -> 0..MaxId] /\ \A t \in Targets : cursors[t] <= readTo[t]
  BY <1>1 DEF IInv, TypeOK, Processes, ProcInv, SnapOld
<1>3. unread \in SUBSET Topics
  BY <1>1 DEF Processes
<1>4. UNCHANGED <<telegram, saved>>
  BY DEF LoadTopics
<1>5. CASE /\ me.cmd = "sync"
           /\ Become(p, [me EXCEPT !.snap = cursors, !.topics = unread, !.pc = "nextTopic"])
           /\ AddGoals(p, {<<me.chat, k>> : k \in unread})
           /\ UNCHANGED faults
  <2> DEFINE next == [me EXCEPT !.snap = cursors, !.topics = unread, !.pc = "nextTopic"]
  <2>1. row' \in [Procs -> Rows]
    <3>1. {<<me.chat, k>> : k \in unread} \subseteq Targets
      BY <1>1, <1>3, TargetTypes
    <3> QED
      BY <1>5, <3>1, GoalsType
  <2> HIDE DEF cursors, unread
  <2>2. next \in Processes
    BY <1>1, <1>2, <1>3 DEF Processes, PCs
  <2>3. next.pc = "nextTopic" /\ next.chat = me.chat /\ next.cmd = me.cmd /\ next.snap = cursors
    BY <1>1 DEF Processes
  <2> HIDE DEF next
  <2>4. ProcInv(next)
    BY <1>1, <1>2, <1>5, <2>3 DEF ProcInv, Located, SnapOld, Fetched, Committed
  <2> QED
    BY <1>4, <1>5, <2>1, <2>2, <2>4, QuietStep DEF next, Become, IInv, TypeOK
<1>6. CASE /\ me.cmd # "sync"
           /\ Become(p, [me EXCEPT !.snap = cursors, !.pc = Begin(p),
                                   !.target = <<me.chat, me.topic>>])
           /\ UNCHANGED row
           /\ UNCHANGED faults
  <2> DEFINE to == Begin(p)
             next == [me EXCEPT !.snap = cursors, !.pc = to, !.target = <<me.chat, me.topic>>]
  <2>1. to \in PCs /\ (to = "fetch" \/ (to = "start" /\ me.cmd = "history"))
    BY DEF Begin, PCs
  <2>2. <<me.chat, me.topic>> \in Targets
    BY <1>1, <1>6, TargetTypes DEF ProcInv, Located
  <2> HIDE DEF cursors, to
  <2>3. next \in Processes
    BY <1>1, <1>2, <2>1, <2>2 DEF Processes
  <2>4. /\ next.pc = to /\ next.target = <<me.chat, me.topic>> /\ next.cmd = me.cmd
        /\ next.snap = cursors
    BY <1>1 DEF Processes
  <2> HIDE DEF next
  <2>5. ProcInv(next)
    BY <1>1, <1>2, <1>6, <2>1, <2>2, <2>4 DEF ProcInv, Located, SnapOld, Fetched, Committed
  <2> QED
    BY <1>4, <1>6, <2>3, <2>5, QuietStep DEF next, to, Become, IInv, TypeOK
<1>7. CASE Fault(p) /\ UNCHANGED row /\ Become(p, Idle)
  BY <1>4, <1>7, FaultType, GiveUp DEF IInv, TypeOK
<1>8. CASE Fault(p) /\ UNCHANGED row /\ me.cmd = "sync" /\ Goto(p, "failed")
  <2>1. me.target \in (Chats \X {0}) \cup Targets
    BY <1>1 DEF ProcInv, Located
  <2> QED
    BY <1>1, <1>4, <1>8, <2>1, FaultType, GotoStep DEF IInv, TypeOK
<1>9. CASE Fault(p) /\ UNCHANGED row /\ me.cmd = "sync"
           /\ Become(p, [me EXCEPT !.err = TRUE, !.pc = "next"])
  <2> DEFINE next == [me EXCEPT !.err = TRUE, !.pc = "next"]
  <2>1. next \in Processes
    BY <1>1 DEF Processes, PCs
  <2>2. ProcInv(next)
    BY <1>1, <1>9 DEF ProcInv, Located, SnapOld, Fetched, Committed, Processes
  <2> QED
    BY <1>4, <1>9, <2>1, <2>2, FaultType, QuietStep DEF Become, IInv, TypeOK
<1> QED
  BY <1>5, <1>6, <1>7, <1>8, <1>9 DEF LoadTopics

-----------------------------------------------------------------------------
(* One chat or topic *)

\* An error before the messages are saved leaves nothing to mark.
LEMMA TargetFailsStep ==
  ASSUME IInv, NEW p \in Procs, TargetFails(p), proc[p].pc # "idle",
         proc[p].target \in Targets,
         UNCHANGED <<telegram, saved, row>>, faults' \in Nat
  PROVE  IInv'
<1> DEFINE me == proc[p]
<1>1. me \in Processes /\ ProcInv(me)
  BY Me
<1>2. row' \in [Procs -> Rows]
  BY DEF IInv, TypeOK
<1>3. CASE me.cmd = "sync" /\ Goto(p, "failed")
  BY <1>2, <1>3, GotoStep
<1>4. CASE Become(p, [me EXCEPT !.err = TRUE, !.pc = "finish"])
  <2> DEFINE next == [me EXCEPT !.err = TRUE, !.pc = "finish"]
  <2>1. next \in Processes
    BY <1>1 DEF Processes, PCs
  <2>2. ProcInv(next)
    BY <1>1 DEF ProcInv, Located, SnapOld, Fetched, Committed, Processes
  <2> QED
    BY <1>2, <1>4, <2>1, <2>2, QuietStep DEF Become
<1>5. CASE Become(p, Idle)
  BY <1>2, <1>5, GiveUp
<1> QED
  BY <1>3, <1>4, <1>5 DEF TargetFails

\* What a fetch from a cursor returns has no hole above the cursor.
LEMMA ResultsProperties ==
  ASSUME TypeOK, NEW p \in Procs, proc[p].target \in Targets, NEW b \in Results(p)
  PROVE  /\ b \in Batches
         /\ b.ids \subseteq Available(proc[p].target)
         /\ ~proc[p].dates =>
              \A h \in b.ids : \A i \in Text :
                proc[p].snap[proc[p].target] < i /\ i <= h => i \in b.ids
<1> DEFINE me == proc[p]
           wanted == {id \in Available(me.target) : id > me.snap[me.target]}
<1>1. b \in Batches
  BY DEF Results
<1>2. CASE me.dates
  BY <1>1, <1>2 DEF Results
<1>3. CASE ~me.dates
  <2>1. PICK h \in 0..MaxId : b.ids = Upto(wanted, h)
    BY <1>3 DEF Results
  <2>2. b.ids \subseteq wanted
    BY <2>1 DEF Upto
  <2>3. ASSUME NEW x \in b.ids, NEW i \in Text, me.snap[me.target] < i, i <= x
        PROVE  i \in b.ids
    <3>1. x \in 1..posted[me.target] /\ x <= h /\ x \in Int /\ i \in Int /\ 1 <= i
      BY <2>1, RunAssumption DEF Upto, Available
    <3>2. i \in Available(me.target)
      <4>1. posted[me.target] \in Int
        BY RunAssumption DEF TypeOK
      <4> QED
        BY <2>3, <3>1, <4>1 DEF Available
    <3>3. i > me.snap[me.target] /\ i <= h
      <4>1. me.snap[me.target] \in Int
        BY RunAssumption DEF TypeOK, Processes
      <4> QED
        BY <2>3, <3>1, <4>1
    <3> QED
      BY <2>1, <3>2, <3>3 DEF Upto
  <2> QED
    BY <1>1, <1>3, <2>2, <2>3
<1> QED
  BY <1>2, <1>3

LEMMA FetchStep ==
  ASSUME IInv, NEW p \in Procs, Fetch(p)
  PROVE  IInv'
<1> DEFINE me == proc[p]
<1>1. me \in Processes /\ ProcInv(me) /\ me.pc = "fetch" /\ me.target \in Targets
  BY Me DEF Fetch, At, ProcInv, Located
<1>2. UNCHANGED <<telegram, saved, row>>
  BY DEF Fetch
<1>3. ASSUME NEW b \in Results(p),
             Become(p, [me EXCEPT !.batch = b, !.pc = "entities"]), UNCHANGED faults
      PROVE  IInv'
  <2> DEFINE next == [me EXCEPT !.batch = b, !.pc = "entities"]
  <2>1. /\ b \in Batches /\ b.ids \subseteq Available(me.target)
        /\ ~me.dates => \A h \in b.ids : \A i \in Text :
             me.snap[me.target] < i /\ i <= h => i \in b.ids
    BY <1>1, ResultsProperties DEF IInv
  <2>2. next \in Processes
    BY <1>1, <2>1 DEF Processes, PCs
  <2>3. /\ next.pc = "entities" /\ next.batch = b /\ next.cmd = me.cmd
        /\ next.snap = me.snap /\ next.target = me.target /\ next.dates = me.dates
    BY <1>1 DEF Processes
  <2> HIDE DEF next
  <2>4. ProcInv(next)
    BY <1>1, <2>1, <2>3 DEF ProcInv, Located, SnapOld, Fetched, Committed
  <2> QED
    BY <1>2, <1>3, <2>2, <2>4, QuietStep DEF next, Become, IInv, TypeOK
<1>4. CASE Fault(p) /\ TargetFails(p)
  BY <1>1, <1>2, <1>4, FaultType, TargetFailsStep DEF IInv
<1> QED
  BY <1>3, <1>4 DEF Fetch

LEMMA SaveEntitiesStep ==
  ASSUME IInv, NEW p \in Procs, SaveEntities(p)
  PROVE  IInv'
<1> DEFINE me == proc[p]
<1>1. me \in Processes /\ ProcInv(me) /\ me.pc = "entities" /\ me.target \in Targets
  BY Me DEF SaveEntities, At, ProcInv, Located
<1>2. UNCHANGED <<telegram, saved, row>>
  BY DEF SaveEntities
<1>3. CASE Goto(p, "messages") /\ UNCHANGED faults
  <2> DEFINE next == [me EXCEPT !.pc = "messages"]
  <2>1. next \in Processes
    BY <1>1 DEF Processes, PCs
  <2>2. ProcInv(next)
    BY <1>1 DEF ProcInv, Located, SnapOld, Fetched, Committed, Processes
  <2> QED
    BY <1>2, <1>3, <2>1, <2>2, QuietStep DEF Goto, Become, IInv, TypeOK
<1>4. CASE Fault(p) /\ TargetFails(p)
  BY <1>1, <1>2, <1>4, FaultType, TargetFailsStep DEF IInv
<1> QED
  BY <1>3, <1>4 DEF SaveEntities

\* The commit: what any process knows to be saved stays saved.
LEMMA SaveMessagesStep ==
  ASSUME IInv, NEW p \in Procs, SaveMessages(p)
  PROVE  IInv'
<1> DEFINE me == proc[p]
           n == Cardinality(me.batch.ids)
<1>1. me \in Processes /\ ProcInv(me) /\ me.pc = "messages" /\ me.target \in Targets
  BY Me DEF SaveMessages, At, ProcInv, Located
<1>2. UNCHANGED telegram
  BY DEF SaveMessages
<1>3. CASE Fault(p) /\ TargetFails(p) /\ UNCHANGED <<saved, row>>
  BY <1>1, <1>2, <1>3, FaultType, TargetFailsStep DEF IInv, telegram
<1>4. CASE /\ saved' = [saved EXCEPT ![me.target] = @ \cup me.batch.ids]
           /\ row' = IF me.cmd = "tui" THEN row ELSE [row EXCEPT ![p].wrote[me.target] = @ + n]
           /\ Become(p, [me EXCEPT !.total = @ + n, !.pc = "mark"])
           /\ UNCHANGED faults
  <2> DEFINE sum == me.total + n
             next == [me EXCEPT !.total = sum, !.pc = "mark"]
  <2>1. me.batch.ids \in SUBSET Text /\ n \in Nat
    BY <1>1, TextFinite DEF Processes, Batches
  <2> HIDE DEF n
  <2>a. sum \in Nat
    BY <1>1, <2>1 DEF Processes
  <2> HIDE DEF sum
  <2>2. next \in Processes
    BY <1>1, <2>a DEF Processes, PCs
  <2>3. /\ next.pc = "mark" /\ next.cmd = me.cmd /\ next.batch = me.batch
        /\ next.snap = me.snap /\ next.target = me.target /\ next.dates = me.dates
    BY <1>1 DEF Processes
  <2>4. saved' \in [Targets -> SUBSET Text] /\ \A t \in Targets : saved[t] \subseteq saved'[t]
    BY <1>4, <2>1 DEF IInv, TypeOK
  <2>5. me.batch.ids \subseteq saved'[me.target]
    BY <1>1, <1>4 DEF IInv, TypeOK
  <2>6. row' \in [Procs -> Rows]
    <3>1. row[p] \in Rows
      BY DEF IInv, TypeOK
    <3>2. [row[p] EXCEPT !.wrote[me.target] = @ + n] \in Rows
      BY <1>1, <2>1, <3>1 DEF Rows
    <3> QED
      BY <1>4, <3>2 DEF IInv, TypeOK
  <2>7. proc' = [proc EXCEPT ![p] = next]
    BY <1>4 DEF Become, sum
  <2> HIDE DEF next
  <2>8. TypeOK'
    BY <1>2, <1>4, <2>2, <2>4, <2>6, <2>7 DEF IInv, TypeOK, telegram
  <2>9. Cursors' /\ ReadIsSaved'
    BY <1>2, <2>4 DEF IInv, Cursors, ReadIsSaved, A!ReadIsSaved, A!Accounted, telegram
  <2>10. ASSUME NEW q \in Procs PROVE ProcInv(proc[q])'
    <3>1. CASE q = p
      <4>1. proc'[q] = next
        BY <2>7, <3>1 DEF IInv, TypeOK
      <4> QED
        BY <1>1, <1>2, <2>3, <2>5, <4>1
           DEF ProcInv, Located, SnapOld, Fetched, Committed, Available, telegram
    <3>2. CASE q # p
      <4>1. proc'[q] = proc[q] /\ ProcInv(proc[q])
        BY <2>7, <3>2 DEF IInv, TypeOK
      <4> QED
        BY <1>2, <2>4, <4>1
           DEF ProcInv, Located, SnapOld, Fetched, Committed, Available, telegram
    <3> QED
      BY <3>1, <3>2
  <2> QED
    BY <2>8, <2>9, <2>10 DEF IInv
<1> QED
  BY <1>3, <1>4 DEF SaveMessages

\* After the marking only sync and history go on, to their item.
LEMMA MarkedType ==
  ASSUME IInv, NEW p \in Procs, NEW mark \in Marks, At(p, "mark"), Marked(p, mark)
  PROVE  \E next \in Processes :
           /\ proc' = [proc EXCEPT ![p] = next]
           /\ Located(next) /\ next.pc \in {"idle", "item"}
           /\ next.snap \in {proc[p].snap, Idle.snap}
<1> DEFINE me == proc[p]
<1>1. me \in Processes /\ ProcInv(me) /\ me.pc = "mark"
  BY Me DEF At
<1>2. CASE me.cmd = "tui"
  <2>1. Become(p, Idle)
    BY <1>2 DEF Marked
  <2>2. Idle \in Processes /\ Located(Idle) /\ Idle.pc = "idle"
    BY IdleOK DEF ProcInv, IInv, Idle
  <2> QED
    BY <2>1, <2>2 DEF Become
<1>3. CASE me.cmd # "tui"
  <2> DEFINE next == [me EXCEPT !.mark = mark, !.pc = "item"]
  <2>1. next \in Processes
    BY <1>1 DEF Processes, PCs
  <2>2. next.pc = "item" /\ next.cmd = me.cmd /\ next.snap = me.snap /\ next.target = me.target
    BY <1>1 DEF Processes
  <2> HIDE DEF next
  <2>3. Located(next)
    BY <1>1, <1>3, <2>2, TargetTypes DEF ProcInv, Located
  <2>4. proc' = [proc EXCEPT ![p] = next]
    BY <1>3 DEF Marked, Become, next
  <2> QED
    BY <2>1, <2>2, <2>3, <2>4
<1> QED
  BY <1>2, <1>3

LEMMA SkipMarkStep ==
  ASSUME IInv, NEW p \in Procs, SkipMark(p)
  PROVE  IInv'
<1>1. PICK next \in Processes :
           /\ proc' = [proc EXCEPT ![p] = next]
           /\ Located(next) /\ next.pc \in {"idle", "item"}
           /\ next.snap \in {proc[p].snap, Idle.snap}
  BY MarkedType DEF SkipMark, Marks
<1>2. SnapOld(next)
  BY <1>1, Me, IdleOK DEF ProcInv, SnapOld, IInv
<1>3. ProcInv(next)
  BY <1>1, <1>2 DEF ProcInv, Fetched, Committed
<1> QED
  BY <1>1, <1>3, QuietStep DEF SkipMark, IInv, TypeOK

\* What a batch from a cursor proves about its newest message: it exists, and
\* every text up to it is in the database or was read by the user.
LEMMA MarkIdAccounted ==
  ASSUME IInv, NEW p \in Procs, At(p, "mark"), ~MarkSkipped(proc[p])
  PROVE  LET t == proc[p].target
             id == MarkId(proc[p])
         IN  /\ t \in Targets /\ id \in 1..posted[t]
             /\ \A i \in Text : i <= id => A!Accounted(t, i)
<1> DEFINE me == proc[p]
           t == me.target
           id == MarkId(me)
<1>1. me \in Processes /\ ProcInv(me) /\ me.pc = "mark" /\ t \in Targets
  BY Me DEF At, ProcInv, Located
<1>2. me.batch.ids \in SUBSET Text /\ me.batch.ids # {} /\ ~me.dates
  BY <1>1 DEF MarkSkipped, Processes, Batches
<1>3. id \in me.batch.ids
  BY <1>2, LargestProperties DEF MarkId
<1>4. id \in 1..posted[t]
  BY <1>1, <1>3 DEF ProcInv, Fetched, Available
<1>5. ASSUME NEW i \in Text, i <= id PROVE A!Accounted(t, i)
  <2>1. CASE i <= me.snap[t]
    <3>1. me.snap[t] \in Int /\ readTo[t] \in Int /\ i \in Int /\ me.snap[t] <= readTo[t]
      BY <1>1, RunAssumption DEF ProcInv, SnapOld, IInv, TypeOK, Processes
    <3>2. i <= readTo[t]
      BY <2>1, <3>1
    <3> QED
      BY <1>1, <3>2 DEF IInv, ReadIsSaved, A!ReadIsSaved
  <2>2. CASE ~(i <= me.snap[t])
    <3>1. me.snap[t] < i
      BY <1>1, <2>2, RunAssumption DEF Processes
    <3>2. i \in me.batch.ids
      BY <1>1, <1>2, <1>3, <1>5, <3>1 DEF ProcInv, Fetched
    <3> QED
      BY <1>1, <3>2 DEF ProcInv, Committed, A!Accounted
  <2> QED
    BY <2>1, <2>2
<1> QED
  BY <1>1, <1>4, <1>5

\* A cursor moves over accounted texts: the program's, or the user's own.
Covers(t, id) ==
  /\ \/ elsewhere' = elsewhere
     \/ id > readTo[t] /\ elsewhere' = [elsewhere EXCEPT ![t] = id]
  /\ \A i \in Text : i <= id => i \in saved[t] \/ i <= elsewhere'[t]

\* Such a cursor keeps the invariant.
LEMMA CursorStep ==
  ASSUME IInv, NEW t \in Targets, NEW id \in 1..posted[t],
         MoveCursor(t, id), Covers(t, id),
         UNCHANGED <<posted, saved>>
  PROVE  /\ readTo' \in [Targets -> 0..MaxId] /\ Cursors' /\ ReadIsSaved'
         /\ \A u \in Targets : readTo[u] <= readTo'[u]
<1>1. posted[t] \in 0..MaxId /\ readTo[t] \in 0..MaxId /\ id \in 0..MaxId
  BY RunAssumption DEF IInv, TypeOK
<1>2. readTo' \in [Targets -> 0..MaxId]
  BY <1>1 DEF MoveCursor, IInv, TypeOK
<1>3. \A u \in Targets : readTo[u] <= readTo'[u]
  BY <1>1, RunAssumption DEF MoveCursor, IInv, TypeOK
<1>4. Cursors'
  BY <1>1, <1>3, RunAssumption DEF MoveCursor, Covers, IInv, TypeOK, Cursors
<1>a. \A u \in Targets : /\ elsewhere[u] \in Int /\ elsewhere'[u] \in Int
                         /\ elsewhere[u] <= elsewhere'[u]
  BY <1>1, RunAssumption DEF Covers, IInv, TypeOK, Cursors
<1>5. ASSUME NEW u \in Targets, NEW i \in Text, i <= readTo'[u]
      PROVE  A!Accounted(u, i)'
  <2>1. i \in Int
    BY RunAssumption
  <2>2. CASE u = t /\ readTo'[u] = id
    BY <1>5, <2>2 DEF Covers, A!Accounted
  <2>3. CASE readTo'[u] = readTo[u]
    <3>1. A!Accounted(u, i)
      BY <1>5, <2>3 DEF IInv, ReadIsSaved, A!ReadIsSaved
    <3> QED
      BY <1>a, <2>1, <3>1 DEF A!Accounted
  <2> QED
    BY <2>2, <2>3 DEF MoveCursor, IInv, TypeOK
<1> QED
  BY <1>2, <1>3, <1>4, <1>5 DEF ReadIsSaved, A!ReadIsSaved

LEMMA MarkReadStep ==
  ASSUME IInv, NEW p \in Procs, MarkRead(p)
  PROVE  IInv'
<1> DEFINE me == proc[p]
<1>1. UNCHANGED <<posted, elsewhere, saved, row>> /\ At(p, "mark") /\ ~MarkSkipped(me)
  BY DEF MarkRead
<1>2. PICK t \in Targets : \E n \in 1..posted[t] :
        t = me.target /\ n = MarkId(me) /\ \A i \in Text : i <= n => A!Accounted(t, i)
  BY <1>1, MarkIdAccounted
<1>a. PICK id \in 1..posted[t] :
        t = me.target /\ id = MarkId(me) /\ \A i \in Text : i <= id => A!Accounted(t, i)
  BY <1>2
<1>3. PICK next \in Processes :
           /\ proc' = [proc EXCEPT ![p] = next]
           /\ Located(next) /\ next.pc \in {"idle", "item"}
           /\ next.snap \in {me.snap, Idle.snap}
  BY <1>1, MarkedType DEF MarkRead, Marks
<1>4. /\ readTo' \in [Targets -> 0..MaxId] /\ Cursors' /\ ReadIsSaved'
      /\ \A u \in Targets : readTo[u] <= readTo'[u]
  <2>1. CASE MoveCursor(t, id)
    <3>1. Covers(t, id)
      BY <1>1, <1>a DEF Covers, A!Accounted
    <3>2. UNCHANGED <<posted, saved>>
      BY <1>1
    <3>3. t \in Targets /\ id \in 1..posted[t]
      BY <1>2, <1>a
    <3> QED
      BY <2>1, <3>1, <3>2, <3>3, CursorStep
  <2>2. CASE UNCHANGED readTo
    <3>1. \A u \in Targets : readTo[u] \in Int
      BY RunAssumption DEF IInv, TypeOK
    <3> QED
      BY <1>1, <2>2, <3>1
         DEF IInv, TypeOK, Cursors, ReadIsSaved, A!ReadIsSaved, A!Accounted
  <2> QED
    BY <1>a, <2>1, <2>2 DEF MarkRead
<1>5. faults' \in Nat
  BY FaultType DEF MarkRead, IInv, TypeOK
<1>6. TypeOK'
  BY <1>1, <1>3, <1>4, <1>5 DEF IInv, TypeOK
<1>7. ASSUME NEW q \in Procs PROVE ProcInv(proc[q])'
  <2>1. \A u \in Targets : readTo[u] \in Int /\ readTo'[u] \in Int
    BY <1>4, RunAssumption DEF IInv, TypeOK
  <2>2. CASE q = p
    <3>1. proc'[q] = next
      BY <1>3, <2>2 DEF IInv, TypeOK
    <3>2. \A u \in Targets : next.snap[u] \in Int /\ next.snap[u] <= readTo[u]
      BY <1>3, Me, IdleOK, RunAssumption DEF ProcInv, SnapOld, IInv, Processes
    <3> QED
      BY <1>3, <1>4, <2>1, <3>1, <3>2 DEF ProcInv, Located, SnapOld, Fetched, Committed
  <2>3. CASE q # p
    <3>1. proc'[q] = proc[q]
      BY <1>3, <2>3 DEF IInv, TypeOK
    <3>2. ProcInv(proc[q]) /\ \A u \in Targets : proc[q].snap[u] \in Int
      BY Me, RunAssumption DEF Processes
    <3>3. SnapOld(proc[q])'
      BY <1>4, <2>1, <3>1, <3>2 DEF ProcInv, SnapOld
    <3> QED
      BY <1>1, <3>1, <3>2, <3>3 DEF ProcInv, Located, SnapOld, Fetched, Committed, Available
  <2> QED
    BY <2>2, <2>3
<1> QED
  BY <1>4, <1>6, <1>7 DEF IInv

\* The loop goes on where its target came from.
LEMMA ContinueStep ==
  ASSUME IInv, NEW p \in Procs, NEW next \in Processes, Become(p, next),
         proc[p].pc \in {"item", "failed"},
         next.pc = Continue(proc[p]), next.cmd = proc[p].cmd,
         next.chat = proc[p].chat, next.snap = proc[p].snap,
         UNCHANGED <<telegram, saved>>, row' \in [Procs -> Rows], faults' \in Nat
  PROVE  IInv'
<1>1. ProcInv(proc[p]) /\ proc[p].cmd \in {"sync", "history"}
  BY Me DEF ProcInv, Located
<1>2. \/ next.pc = "finish"
      \/ next.pc = "nextTopic" /\ next.cmd = "sync" /\ next.chat \in Forums
      \/ next.pc = "next" /\ next.cmd = "sync"
  BY <1>1 DEF Continue
<1>3. next.cmd \in {"sync", "history"} /\ SnapOld(next)
  BY <1>1 DEF ProcInv, SnapOld
<1>4. ProcInv(next)
  BY <1>2, <1>3 DEF ProcInv, Located, Fetched, Committed
<1> QED
  BY <1>4, QuietStep DEF Become

LEMMA ItemType ==
  ASSUME IInv, NEW p \in Procs, NEW i \in Items
  PROVE  [row EXCEPT ![p].items = @ \cup {i}] \in [Procs -> Rows]
<1>1. row[p] \in Rows
  BY DEF IInv, TypeOK
<1>2. [row[p] EXCEPT !.items = @ \cup {i}] \in Rows
  BY <1>1 DEF Rows
<1> QED
  BY <1>2 DEF IInv, TypeOK

LEMMA ContinueType == ASSUME NEW me PROVE Continue(me) \in PCs
BY DEF Continue, PCs

LEMMA AddItemStep ==
  ASSUME IInv, NEW p \in Procs, AddItem(p)
  PROVE  IInv'
<1> DEFINE me == proc[p]
           item == Item(me.target, SavedCount(me), me.mark, FALSE)
           next(e) == [me EXCEPT !.batch = NoBatch, !.mark = "none", !.pc = Continue(me), !.err = e]
<1>1. me \in Processes /\ ProcInv(me) /\ me.pc = "item"
  BY Me DEF AddItem, At
<1>2. item \in Items
  <2>1. me.target \in (Chats \X {0}) \cup Targets
    BY <1>1 DEF ProcInv, Located
  <2>2. SavedCount(me) \in Nat
    BY <1>1, TextFinite DEF SavedCount, Processes, Batches
  <2> QED
    BY <1>1, <2>1, <2>2 DEF Item, Items, Processes
<1>3. NoBatch \in Batches /\ "none" \in Marks
  BY DEF NoBatch, Batches, Marks
<1>4. ASSUME NEW e \in BOOLEAN
      PROVE  /\ next(e) \in Processes
             /\ next(e).pc = Continue(me) /\ next(e).cmd = me.cmd
             /\ next(e).chat = me.chat /\ next(e).snap = me.snap
  BY <1>1, <1>3, ContinueType DEF Processes
<1>5. UNCHANGED <<telegram, saved>>
  BY DEF AddItem
<1>6. CASE /\ row' = [row EXCEPT ![p].items = @ \cup {item}]
           /\ Become(p, [me EXCEPT !.batch = NoBatch, !.mark = "none", !.pc = Continue(me)])
           /\ UNCHANGED faults
  <2>1. Become(p, next(me.err))
    BY <1>1, <1>6 DEF Become, Processes
  <2>2. row' \in [Procs -> Rows]
    BY <1>2, <1>6, ItemType
  <2>3. me.err \in BOOLEAN
    BY <1>1 DEF Processes
  <2> HIDE DEF next
  <2> QED
    BY <1>1, <1>4, <1>5, <1>6, <2>1, <2>2, <2>3, ContinueStep DEF IInv, TypeOK
<1>7. CASE /\ Fault(p) /\ UNCHANGED row
           /\ Become(p, [[me EXCEPT !.batch = NoBatch, !.mark = "none", !.pc = Continue(me)]
                           EXCEPT !.err = TRUE])
  <2>1. Become(p, next(TRUE))
    BY <1>7
  <2> HIDE DEF next
  <2> QED
    BY <1>1, <1>4, <1>5, <1>7, <2>1, FaultType, ContinueStep DEF IInv, TypeOK
<1> QED
  BY <1>6, <1>7 DEF AddItem

LEMMA AddFailedItemStep ==
  ASSUME IInv, NEW p \in Procs, AddFailedItem(p)
  PROVE  IInv'
<1> DEFINE me == proc[p]
           next == [me EXCEPT !.batch = NoBatch, !.err = TRUE, !.pc = Continue(me)]
<1>1. me \in Processes /\ ProcInv(me) /\ me.pc = "failed"
  BY Me DEF AddFailedItem, At
<1>2. Item(me.target, 0, "none", TRUE) \in Items
  BY <1>1 DEF ProcInv, Located, Item, Items, Marks
<1>3. NoBatch \in Batches
  BY DEF NoBatch, Batches
<1>4. /\ next \in Processes
      /\ next.pc = Continue(me) /\ next.cmd = me.cmd
      /\ next.chat = me.chat /\ next.snap = me.snap
  BY <1>1, <1>3, ContinueType DEF Processes
<1>5. UNCHANGED <<telegram, saved>> /\ Become(p, next)
  BY DEF AddFailedItem
<1>6. row' \in [Procs -> Rows]
  <2>1. row' = row \/ row' = [row EXCEPT ![p].items = @ \cup {Item(me.target, 0, "none", TRUE)}]
    BY DEF AddFailedItem
  <2>2. row \in [Procs -> Rows]
    BY DEF IInv, TypeOK
  <2>3. [row EXCEPT ![p].items = @ \cup {Item(me.target, 0, "none", TRUE)}] \in [Procs -> Rows]
    BY <1>2, ItemType
  <2> QED
    BY <2>1, <2>2, <2>3
<1>7. faults' \in Nat
  BY FaultType DEF AddFailedItem, IInv, TypeOK
<1> HIDE DEF next
<1> QED
  BY <1>1, <1>4, <1>5, <1>6, <1>7, ContinueStep

-----------------------------------------------------------------------------
(* The end of a command, and the steps of Telegram *)

LEMMA FinishRunStep ==
  ASSUME IInv, NEW p \in Procs, FinishRun(p)
  PROVE  IInv'
<1>1. row[p] \in Rows
  BY DEF IInv, TypeOK
<1>2. Status(proc[p]) \in {"ok", "partial", "error"}
  BY DEF Status
<1>3. [row[p] EXCEPT !.status = Status(proc[p])] \in Rows /\ [row[p] EXCEPT !.cut = TRUE] \in Rows
  BY <1>1, <1>2 DEF Rows
<1>4. row' \in [Procs -> Rows]
  BY <1>3 DEF FinishRun, IInv, TypeOK
<1>5. faults' \in Nat
  BY FaultType DEF FinishRun, IInv, TypeOK
<1> QED
  BY <1>4, <1>5, GiveUp DEF FinishRun

LEMMA CancelStep ==
  ASSUME IInv, NEW p \in Procs, Cancel(p)
  PROVE  IInv'
<1> DEFINE next == [proc[p] EXCEPT !.ctxDone = TRUE]
<1>1. proc[p] \in Processes /\ ProcInv(proc[p])
  BY Me
<1>2. next \in Processes
  BY <1>1 DEF Processes
<1>3. ProcInv(next)
  BY <1>1 DEF ProcInv, Located, SnapOld, Fetched, Committed, Processes
<1>4. UNCHANGED <<telegram, saved>> /\ row' \in [Procs -> Rows] /\ faults' \in Nat
  BY DEF Cancel, IInv, TypeOK
<1>5. proc' = [proc EXCEPT ![p] = next]
  BY DEF Cancel, Become
<1> HIDE DEF next
<1> QED
  BY <1>2, <1>3, <1>4, <1>5, QuietStep

LEMMA CrashStep ==
  ASSUME IInv, NEW p \in Procs, Crash(p)
  PROVE  IInv'
<1>1. row[p] \in Rows
  BY DEF IInv, TypeOK
<1>2. [row[p] EXCEPT !.cut = (@ \/ row[p].status = "running")] \in Rows
  BY <1>1 DEF Rows
<1>3. row' \in [Procs -> Rows]
  BY <1>2 DEF Crash, IInv, TypeOK
<1> QED
  BY <1>3, GiveUp DEF Crash, IInv, TypeOK

LEMMA PostStep ==
  ASSUME IInv, NEW t \in Targets, Post(t)
  PROVE  IInv'
<1>1. posted[t] \in 0..MaxId /\ posted[t] < MaxId
  BY DEF IInv, TypeOK, Post
<1>2. posted' \in [Targets -> 0..MaxId] /\ \A u \in Targets : posted[u] <= posted'[u]
  BY <1>1, RunAssumption DEF IInv, TypeOK, Post
<1>3. UNCHANGED <<readTo, elsewhere, saved, row, proc, faults>>
  BY DEF Post
<1>4. TypeOK'
  BY <1>2, <1>3 DEF IInv, TypeOK
<1>5. \A u \in Targets : posted[u] \in Int /\ posted'[u] \in Int /\ readTo[u] \in Int
  BY <1>2, RunAssumption DEF IInv, TypeOK
<1>6. Cursors' /\ ReadIsSaved'
  BY <1>2, <1>3, <1>5 DEF IInv, Cursors, ReadIsSaved, A!ReadIsSaved, A!Accounted
<1>7. ASSUME NEW q \in Procs PROVE ProcInv(proc[q])'
  <2>1. ProcInv(proc[q])
    BY DEF IInv
  <2>2. \A u \in Targets : Available(u) \subseteq Available(u)'
    BY <1>2, <1>5, RunAssumption DEF Available
  <2>3. Located(proc[q])' /\ SnapOld(proc[q])' /\ Committed(proc[q])'
    BY <1>3, <2>1 DEF ProcInv, Located, SnapOld, Committed
  <2>4. Fetched(proc[q])'
    BY <1>3, <2>1, <2>2 DEF ProcInv, Located, Fetched
  <2> QED
    BY <2>3, <2>4 DEF ProcInv
<1> QED
  BY <1>4, <1>6, <1>7 DEF IInv

LEMMA ReadElsewhereStep ==
  ASSUME IInv, NEW t \in Targets, ReadElsewhere(t)
  PROVE  IInv'
<1>1. PICK id \in readTo[t] + 1 .. posted[t] :
        readTo' = [readTo EXCEPT ![t] = id] /\ elsewhere' = [elsewhere EXCEPT ![t] = id]
  BY DEF ReadElsewhere
<1>2. UNCHANGED <<posted, saved, row, proc, faults>>
  BY DEF ReadElsewhere
<1>3. readTo[t] \in 0..MaxId /\ posted[t] \in 0..MaxId /\ id \in 1..posted[t] /\ id > readTo[t]
  BY RunAssumption DEF IInv, TypeOK
<1>4. /\ readTo' \in [Targets -> 0..MaxId] /\ Cursors' /\ ReadIsSaved'
      /\ \A u \in Targets : readTo[u] <= readTo'[u]
  <2>1. Covers(t, id)
    BY <1>1, <1>3 DEF Covers, IInv, TypeOK
  <2>2. MoveCursor(t, id)
    BY <1>1, <1>3 DEF MoveCursor
  <2> QED
    BY <1>1, <1>2, <1>3, <2>1, <2>2, CursorStep
<1>5. elsewhere' \in [Targets -> 0..MaxId]
  BY <1>1, <1>3, RunAssumption DEF IInv, TypeOK
<1>6. TypeOK'
  BY <1>2, <1>4, <1>5 DEF IInv, TypeOK
<1>7. ASSUME NEW q \in Procs PROVE ProcInv(proc[q])'
  <2>1. proc[q] \in Processes /\ ProcInv(proc[q])
    BY Me
  <2>2. \A u \in Targets : proc[q].snap[u] \in Int /\ readTo[u] \in Int /\ readTo'[u] \in Int
    BY <1>4, <2>1, RunAssumption DEF Processes, IInv, TypeOK
  <2>3. SnapOld(proc[q])'
    BY <1>2, <1>4, <2>1, <2>2 DEF ProcInv, SnapOld
  <2>4. Located(proc[q])' /\ Fetched(proc[q])' /\ Committed(proc[q])'
    BY <1>2, <2>1 DEF ProcInv, Located, Fetched, Committed, Available
  <2> QED
    BY <2>3, <2>4 DEF ProcInv
<1> QED
  BY <1>4, <1>6, <1>7 DEF IInv

-----------------------------------------------------------------------------
(* The theorems *)

LEMMA InitIInv == Init => IInv
<1> SUFFICES ASSUME Init PROVE IInv
  OBVIOUS
<1>1. TypeOK
  BY IdleOK, NoRowOK, RunAssumption DEF Init, TypeOK
<1>2. Cursors
  BY RunAssumption DEF Init, Cursors
<1>3. \A p \in Procs : ProcInv(proc[p])
  BY <1>1, IdleOK DEF Init
<1>4. ReadIsSaved
  BY RunAssumption DEF Init, ReadIsSaved, A!ReadIsSaved, A!Accounted
<1> QED
  BY <1>1, <1>2, <1>3, <1>4 DEF IInv

LEMMA StepIInv == IInv /\ [Next]_vars => IInv'
<1> SUFFICES ASSUME IInv, [Next]_vars PROVE IInv'
  OBVIOUS
<1>1. CASE UNCHANGED vars
  <2>1. \A q \in Procs : ProcInv(proc[q])'
    BY <1>1 DEF vars, IInv, ProcInv, Located, SnapOld, Fetched, Committed, Available
  <2> QED
    BY <1>1, <2>1
       DEF vars, IInv, TypeOK, Cursors, ReadIsSaved, A!ReadIsSaved, A!Accounted
<1>2. ASSUME NEW t \in Targets, Post(t) \/ ReadElsewhere(t) PROVE IInv'
  BY <1>2, PostStep, ReadElsewhereStep
<1>3. ASSUME NEW p \in Procs, Launch(p) \/ Interrupt(p) PROVE IInv'
  BY <1>3, LaunchStep, CancelStep, CrashStep DEF Interrupt
<1>4. ASSUME NEW p \in Procs, Work(p) PROVE IInv'
  BY <1>4, LoadDialogsStep, StartRunStep, NextChatStep, ChatsDoneStep, LoadTopicsStep,
     NextTopicStep, TopicsDoneStep, FetchStep, SaveEntitiesStep, SaveMessagesStep,
     SkipMarkStep, MarkReadStep, AddItemStep, AddFailedItemStep, FinishRunStep
     DEF Work
<1> QED
  BY <1>1, <1>2, <1>3, <1>4 DEF Next

LEMMA Inductive == Spec => []IInv
BY InitIInv, StepIInv, PTL DEF Spec

\* The state of every process, of Telegram and of the database keeps its type
\* whatever the commands do.
THEOREM TypeCorrect == Spec => []TypeOK
<1>1. IInv => TypeOK
  BY DEF IInv
<1> QED
  BY <1>1, Inductive, PTL

\* A text at or below the read cursor is in the database or was read by the
\* user: markMessagesAsRead never marks what saveFetchResult has not saved.
THEOREM ReadTextsAreSaved == Spec => []ReadIsSaved
<1>1. IInv => ReadIsSaved
  BY DEF IInv
<1> QED
  BY <1>1, Inductive, PTL

\* Every step that leaves the cursors and the messages alone is a stutter of
\* the archive; the commit is its Save, the marking its MarkRead.
LEMMA StepImplements == IInv /\ [Next]_vars => [A!Next]_(A!vars)
<1> SUFFICES ASSUME IInv, [Next]_vars PROVE [A!Next]_(A!vars)
  OBVIOUS
<1>1. CASE UNCHANGED <<telegram, saved>>
  BY <1>1 DEF A!vars, telegram
<1>2. ASSUME NEW t \in Targets, Post(t) \/ ReadElsewhere(t)
      PROVE  A!Next
  BY <1>2 DEF Post, ReadElsewhere, A!Next, A!Post, A!ReadElsewhere
<1>3. ASSUME NEW p \in Procs, SaveMessages(p)
      PROVE  [A!Next]_(A!vars)
  <2> DEFINE me == proc[p]
  <2>1. CASE UNCHANGED saved
    BY <1>1, <1>3, <2>1 DEF SaveMessages
  <2>2. CASE saved' = [saved EXCEPT ![me.target] = @ \cup me.batch.ids]
    <3>1. me.target \in Targets /\ me.batch.ids \subseteq Text \cap 1..posted[me.target]
      BY <1>3, Me DEF SaveMessages, At, ProcInv, Located, Fetched, Available
    <3>2. A!Save(me.target)
      BY <1>3, <2>2, <3>1 DEF SaveMessages, A!Save, telegram
    <3> QED
      BY <3>1, <3>2 DEF A!Next
  <2> QED
    BY <1>3, <2>1, <2>2 DEF SaveMessages
<1>4. ASSUME NEW p \in Procs, MarkRead(p)
      PROVE  [A!Next]_(A!vars)
  <2> DEFINE t == proc[p].target
             id == MarkId(proc[p])
  <2>1. /\ t \in Targets /\ id \in 1..posted[t]
        /\ \A i \in Text : i <= id => A!Accounted(t, i)
    BY <1>4, MarkIdAccounted DEF MarkRead
  <2>2. readTo \in [Targets -> 0..MaxId] /\ readTo[t] \in Int /\ posted[t] \in Int
    BY <2>1, RunAssumption DEF IInv, TypeOK
  <2>3. UNCHANGED <<posted, elsewhere, saved>>
    BY <1>4 DEF MarkRead
  <2> HIDE DEF id, t
  <2>4. CASE readTo' = [readTo EXCEPT ![t] = id] /\ id > readTo[t]
    <3>1. id \in readTo[t] + 1 .. posted[t]
      BY <2>1, <2>2, <2>4
    <3>2. A!MarkRead(t)
      BY <2>1, <2>3, <2>4, <3>1 DEF A!MarkRead
    <3> QED
      BY <2>1, <3>2 DEF A!Next
  <2>5. CASE readTo' = [readTo EXCEPT ![t] = readTo[t]]
    <3>1. readTo' = readTo
      BY <2>2, <2>5
    <3> QED
      BY <2>3, <3>1 DEF A!vars
  <2>6. CASE readTo' = readTo
    BY <2>3, <2>6 DEF A!vars
  <2> QED
    BY <1>4, <2>4, <2>5, <2>6 DEF MarkRead, MoveCursor, t, id
<1>5. ASSUME NEW p \in Procs, Launch(p) \/ Interrupt(p) PROVE UNCHANGED <<telegram, saved>>
  BY <1>5 DEF Launch, Interrupt, Cancel, Crash
<1>6. ASSUME NEW p \in Procs, Work(p), ~SaveMessages(p), ~MarkRead(p)
      PROVE  UNCHANGED <<telegram, saved>>
  BY <1>6 DEF Work, LoadDialogs, StartRun, NextChat, ChatsDone, LoadTopics, NextTopic,
              TopicsDone, Fetch, SaveEntities, SkipMark, AddItem, AddFailedItem, FinishRun
<1>7. CASE UNCHANGED vars
  BY <1>1, <1>7 DEF vars, telegram
<1> QED
  BY <1>1, <1>2, <1>3, <1>4, <1>5, <1>6, <1>7 DEF Next

\* The pipeline of sync, history and the interactive program implements the
\* archive: whatever the processes do, fail at or die in, each step is one the
\* archive allows.
THEOREM Implementation == Spec => ImplementsArchive
<1>1. Init => A!Init
  BY DEF Init, A!Init
<1> QED
  BY <1>1, StepImplements, Inductive, PTL DEF Spec, ImplementsArchive, A!Spec

-----------------------------------------------------------------------------
(* The rows of the runs tell the truth: the status, the items, and that a    *)
(* row is left open only by a crash or a failed FinishRun.                   *)
(*                                                                           *)
(* A row is written by its process alone, so the inductive invariant relates *)
(* what a process has before it to what its row holds: targets still to come *)
(* have no texts and no items, what is selected and not recorded is still to *)
(* be done, and the total is zero while nothing is committed.                *)

Working == {"fetch", "entities", "messages", "mark", "item", "failed"}

\* Where in its lists of chats and topics a process is.
Listed(me) ==
  /\ me.chat \notin me.chats
  /\ me.pc = "dialogs" => me.chat = NoChat
  /\ \/ me.cmd # "sync" \/ me.chat \notin Forums
     \/ me.pc \in {"dialogs", "start", "next", "topics", "finish"}
     => me.topics = {}
  /\ me.pc \in Working \cup {"topics"} \/ (me.pc = "start" /\ me.cmd = "history") =>
       me.target[1] = me.chat /\ me.target[2] \notin me.topics
  /\ me.pc = "item" => me.target \in Targets

\* Targets of which nothing is committed or recorded yet.
ToCome(me) ==
  {t \in Targets : \/ t[1] \in me.chats
                   \/ t[1] = me.chat /\ (me.pc = "topics" \/ t[2] \in me.topics)
                   \/ t = me.target /\ me.pc \in {"start", "fetch", "entities", "messages", "failed"}}

Untouched(me, r) ==
  \A t \in ToCome(me) : r.wrote[t] = 0 /\ \A i \in r.items : i.target # t

\* Between the commit and the item the row has the one without the other.
Counted(me, r) ==
  me.pc \in {"mark", "item"} /\ me.cmd # "tui" =>
    /\ r.wrote[me.target] = Cardinality(me.batch.ids)
    /\ \A i \in r.items : i.target # me.target

\* Selected targets that a run has not come to or not finished with.
ToDo(me) ==
  {t \in Targets : \/ t[1] = me.chat /\ t[2] \in me.topics
                   \/ t = me.target /\ me.pc \in Working}

Recorded(t, r) == \E i \in r.items : i.target = t /\ ~i.failed

NothingForgotten(me, r) == me.err \/ \A t \in r.goal : t \in ToDo(me) \/ Recorded(t, r)

TotalTells(me, r) ==
  me.cmd # "tui" => (me.total = 0 <=> \A t \in Targets : r.wrote[t] = 0)

\* The interactive program has no run, and a run begins with its row.
NotBegun(me) ==
  \/ me.pc \in {"dialogs", "start"} \/ me.cmd = "tui"
  \/ me.cmd = "history" /\ me.pc \in {"next", "topics"}

Begun(me, r) ==
  /\ NotBegun(me) => r = NoRow
  /\ NotBegun(me) /\ me.cmd # "tui" => me.total = 0
  /\ r.status \in {"none", "running"}
  /\ r.mode = "sync" => me.cmd = "sync"

ItemsTell(r) == \A i \in r.items : i.target \in Targets => i.saved = r.wrote[i.target]

StatusTells(r) ==
  /\ r.status = "ok" => \A t \in r.goal : Recorded(t, r)
  /\ r.status = "error" /\ r.mode = "sync" => \A t \in Targets : r.wrote[t] = 0
  /\ r.status = "partial" => \E t \in Targets : r.wrote[t] > 0

RunOf(me, r) ==
  /\ ItemsTell(r) /\ StatusTells(r)
  /\ me.pc = "idle" => (r.status = "running" => r.cut)
  /\ me.pc # "idle" =>
       /\ Listed(me) /\ Untouched(me, r) /\ Counted(me, r) /\ NothingForgotten(me, r)
       /\ TotalTells(me, r) /\ Begun(me, r)

Runs == \A p \in Procs : RunOf(proc[p], row[p])

-----------------------------------------------------------------------------
(* Steps of one process *)

LEMMA IdleFacts ==
  /\ Idle.pc = "idle" /\ Idle.cmd = "none" /\ Idle.chats = {} /\ Idle.topics = {}
  /\ Idle.chat = NoChat /\ Idle.target = <<NoChat, 0>> /\ Idle.total = 0 /\ ~Idle.err
BY DEF Idle

LEMMA NoRowFacts ==
  /\ NoRow.mode = "none" /\ NoRow.status = "none" /\ NoRow.items = {} /\ NoRow.goal = {}
  /\ \A t \in Targets : NoRow.wrote[t] = 0
BY DEF NoRow

\* The end of a command whose row is closed, was never opened, or is cut.
LEMMA IdleRun ==
  ASSUME NEW r, ItemsTell(r), StatusTells(r), r.status = "running" => r.cut
  PROVE  RunOf(Idle, r)
BY IdleFacts DEF RunOf

LEMMA NoRowTells == ItemsTell(NoRow) /\ StatusTells(NoRow) /\ NoRow.status # "running"
BY NoRowFacts DEF ItemsTell, StatusTells

\* Steps after which a process has the same before it and its row is the same.
LEMMA SameRow ==
  ASSUME NEW me \in Processes, NEW next \in Processes, NEW r, RunOf(me, r),
         me.pc # "idle", next.pc # "idle",
         next.cmd = me.cmd, next.chats = me.chats, next.chat = me.chat,
         next.topics = me.topics, next.target = me.target, next.total = me.total,
         next.err = me.err,
         \/ next.pc = me.pc /\ next.batch = me.batch
         \/ /\ me.pc \in {"fetch", "entities", "messages"}
            /\ next.pc \in {"entities", "messages", "failed"}
         \/ /\ me.pc = "mark" /\ next.pc = "item" /\ next.batch = me.batch
            /\ me.target \in Targets
  PROVE  RunOf(next, r)
<1>0. /\ Listed(me) /\ Untouched(me, r) /\ Counted(me, r) /\ NothingForgotten(me, r)
      /\ TotalTells(me, r) /\ Begun(me, r)
  BY DEF RunOf
<1>1. Listed(next)
  BY <1>0 DEF Listed, Working
<1>2. Untouched(next, r)
  <2>1. ToCome(next) \subseteq ToCome(me)
    BY DEF ToCome
  <2> QED
    BY <1>0, <2>1 DEF Untouched
<1>3. Counted(next, r)
  BY <1>0 DEF Counted
<1>4. NothingForgotten(next, r)
  <2>1. ToDo(next) = ToDo(me)
    BY DEF ToDo, Working
  <2> QED
    BY <1>0, <2>1 DEF NothingForgotten
<1>5. TotalTells(next, r) /\ Begun(next, r)
  BY <1>0 DEF TotalTells, Begun, NotBegun
<1> QED
  BY <1>1, <1>2, <1>3, <1>4, <1>5 DEF RunOf

\* A process that has no run has no row either, and may end at any time.
LEMMA EndWithoutRun ==
  ASSUME NEW me, NEW r, RunOf(me, r), me.pc # "idle", NotBegun(me)
  PROVE  RunOf(Idle, r)
<1>1. r = NoRow
  BY DEF RunOf, Begun
<1> QED
  BY <1>1, NoRowTells, IdleRun

-----------------------------------------------------------------------------
(* The steps *)

LEMMA Types ==
  ASSUME IInv, Runs, NEW p \in Procs
  PROVE  /\ proc[p] \in Processes /\ row[p] \in Rows
         /\ Located(proc[p]) /\ RunOf(proc[p], row[p])
         /\ \A next : Become(p, next) => proc'[p] = next
BY DEF IInv, TypeOK, ProcInv, Runs, Become

LEMMA LaunchRun ==
  ASSUME IInv, Runs, NEW p \in Procs, Launch(p)
  PROVE  RunOf(proc'[p], row'[p])
<1>1. PICK cmd \in Commands, only \in Chats \cup {NoChat},
           topic \in Topics \cup {0}, dates \in BOOLEAN :
        proc'[p] = [Idle EXCEPT !.pc = "dialogs", !.cmd = cmd, !.only = only,
                                !.topic = topic, !.dates = dates]
  BY Types DEF Launch
<1> DEFINE next == proc'[p]
<1>2. row'[p] = NoRow
  BY DEF Launch, IInv, TypeOK
<1>3. /\ next.pc = "dialogs" /\ next.cmd = cmd /\ next.chats = {} /\ next.chat = NoChat
      /\ next.topics = {} /\ next.target = <<NoChat, 0>> /\ next.total = 0
  BY <1>1 DEF Idle
<1>4. \A t \in Targets : t[1] # NoChat /\ t # <<NoChat, 0>>
  BY RunAssumption DEF Targets, Chats
<1> HIDE DEF next
<1>5. Listed(next)
  BY <1>3 DEF Listed, Working
<1>6. Untouched(next, NoRow) /\ Counted(next, NoRow) /\ NothingForgotten(next, NoRow)
  BY <1>3, <1>4, NoRowFacts DEF Untouched, ToCome, Counted, NothingForgotten
<1>7. TotalTells(next, NoRow) /\ Begun(next, NoRow)
  BY <1>3, NoRowFacts DEF TotalTells, Begun
<1> QED
  BY <1>2, <1>3, <1>5, <1>6, <1>7, NoRowTells DEF RunOf, next

LEMMA LoadDialogsRun ==
  ASSUME IInv, Runs, NEW p \in Procs, LoadDialogs(p)
  PROVE  RunOf(proc'[p], row'[p])
<1> DEFINE me == proc[p]
<1>1. /\ me \in Processes /\ RunOf(me, row[p]) /\ Located(me) /\ me.pc = "dialogs"
      /\ row'[p] = row[p]
  BY Types DEF LoadDialogs, At
<1>2. CASE proc'[p] = Idle
  BY <1>1, <1>2, EndWithoutRun DEF NotBegun
<1>3. ASSUME NEW chosen \in IF me.cmd = "sync" THEN SyncSelections(me.only) ELSE {{me.only}},
             NEW cursors, chosen # {},
             proc'[p] = [me EXCEPT !.snap = cursors, !.chats = chosen,
                                   !.pc = IF me.cmd = "sync" THEN "start" ELSE "next"]
      PROVE  RunOf(proc'[p], row'[p])
  <2> DEFINE next == proc'[p]
  <2>1. chosen \subseteq Chats
    <3>1. CASE me.cmd = "sync"
      BY <1>3, <3>1 DEF SyncSelections
    <3>2. CASE me.cmd # "sync"
      BY <1>1, <1>3, <3>2 DEF Located
    <3> QED
      BY <3>1, <3>2
  <2>2. /\ next.pc = IF me.cmd = "sync" THEN "start" ELSE "next"
        /\ next.chats = chosen /\ next.cmd = me.cmd /\ next.chat = me.chat
        /\ next.topics = me.topics /\ next.target = me.target /\ next.total = me.total
        /\ next.err = me.err
    BY <1>1, <1>3 DEF Processes
  <2>3. /\ me.chat = NoChat /\ me.topics = {} /\ row[p] = NoRow
        /\ me.cmd # "tui" => me.total = 0
    BY <1>1 DEF RunOf, Listed, Begun, NotBegun
  <2>4. NoChat \notin Chats /\ me.cmd \in {"sync", "history", "tui"}
    BY <1>1, RunAssumption DEF Located
  <2> HIDE DEF next
  <2>5. Listed(next)
    BY <2>1, <2>2, <2>3, <2>4 DEF Listed, Working
  <2>6. Untouched(next, NoRow) /\ Counted(next, NoRow) /\ NothingForgotten(next, NoRow)
    BY <2>2, NoRowFacts DEF Untouched, ToCome, Counted, NothingForgotten
  <2>7. TotalTells(next, NoRow) /\ Begun(next, NoRow)
    BY <2>2, <2>3, <2>4, NoRowFacts DEF TotalTells, Begun
  <2> QED
    BY <1>1, <2>2, <2>3, <2>5, <2>6, <2>7, NoRowTells DEF RunOf, next
<1> QED
  BY <1>2, <1>3, Types DEF LoadDialogs

LEMMA StartRunRun ==
  ASSUME IInv, Runs, NEW p \in Procs, StartRun(p)
  PROVE  RunOf(proc'[p], row'[p])
<1> DEFINE me == proc[p]
<1>1. me \in Processes /\ RunOf(me, row[p]) /\ Located(me) /\ me.pc = "start"
  BY Types DEF StartRun, At
<1>2. CASE proc'[p] = Idle /\ row'[p] = row[p]
  BY <1>1, <1>2, EndWithoutRun DEF NotBegun
<1>3. CASE /\ row'[p] = [NoRow EXCEPT !.mode = me.cmd, !.status = "running",
                           !.goal = IF me.cmd = "history" THEN {me.target} ELSE {}]
           /\ proc'[p] = [me EXCEPT !.pc = IF me.cmd = "sync" THEN "next" ELSE "fetch"]
  <2> DEFINE next == proc'[p]
             r == row'[p]
  <2>1. /\ next.pc = IF me.cmd = "sync" THEN "next" ELSE "fetch"
        /\ next.chats = me.chats /\ next.cmd = me.cmd /\ next.chat = me.chat
        /\ next.topics = me.topics /\ next.target = me.target /\ next.total = me.total
        /\ next.err = me.err
    BY <1>1, <1>3 DEF Processes
  <2>2. /\ r.mode = me.cmd /\ r.status = "running" /\ r.items = {}
        /\ r.goal = IF me.cmd = "history" THEN {me.target} ELSE {}
        /\ \A t \in Targets : r.wrote[t] = 0
    BY <1>3 DEF NoRow
  <2>3. /\ me.cmd \in {"sync", "history"} /\ (me.cmd = "history" => me.target \in Targets)
        /\ Listed(me) /\ me.total = 0
    BY <1>1 DEF RunOf, Located, Begun, NotBegun
  <2> HIDE DEF next, r
  <2>4. Listed(next)
    <3>1. CASE me.cmd = "sync"
      <4>1. next.pc = "next" /\ next.topics = {} /\ me.chat \notin me.chats
        BY <1>1, <2>1, <2>3, <3>1 DEF Listed
      <4> QED
        BY <2>1, <4>1 DEF Listed, Working
    <3>2. CASE me.cmd = "history"
      <4>1. /\ next.pc = "fetch" /\ next.topics = {} /\ me.chat \notin me.chats
            /\ me.target[1] = me.chat
        BY <1>1, <2>1, <2>3, <3>2 DEF Listed
      <4> QED
        BY <2>1, <4>1 DEF Listed, Working
    <3> QED
      BY <2>3, <3>1, <3>2
  <2>5. Untouched(next, r) /\ Counted(next, r) /\ ItemsTell(r) /\ StatusTells(r)
    BY <2>1, <2>2 DEF Untouched, ToCome, Counted, ItemsTell, StatusTells
  <2>6. NothingForgotten(next, r)
    BY <2>1, <2>2, <2>3 DEF NothingForgotten, ToDo, Working
  <2>7. TotalTells(next, r) /\ Begun(next, r)
    BY <2>1, <2>2, <2>3 DEF TotalTells, Begun, NotBegun
  <2> QED
    BY <2>1, <2>4, <2>5, <2>6, <2>7 DEF RunOf, next, r
<1> QED
  BY <1>2, <1>3, Types DEF StartRun, Goto, IInv, TypeOK

\* What a run adds to its goals before it works on them.
LEMMA GoalsAdded ==
  ASSUME IInv, NEW p \in Procs, NEW new, AddGoals(p, new)
  PROVE  /\ row'[p].items = row[p].items /\ row'[p].wrote = row[p].wrote
         /\ row'[p].status = row[p].status /\ row'[p].mode = row[p].mode
         /\ row'[p].cut = row[p].cut
         /\ proc[p].cmd = "sync" => row'[p].goal = row[p].goal \cup new
         /\ proc[p].cmd # "sync" => row'[p] = row[p]
<1>1. row[p] \in Rows /\ row \in [Procs -> Rows]
  BY DEF IInv, TypeOK
<1>2. CASE proc[p].cmd = "sync"
  <2>1. row'[p] = [row[p] EXCEPT !.goal = @ \cup new]
    BY <1>1, <1>2 DEF AddGoals
  <2> QED
    BY <1>1, <1>2, <2>1 DEF Rows
<1>3. CASE proc[p].cmd # "sync"
  BY <1>3 DEF AddGoals
<1> QED
  BY <1>2, <1>3

\* A row to which only goals were added, while its run goes on.
LEMMA GoalsTell ==
  ASSUME NEW r, NEW s, ItemsTell(r), r.status \in {"none", "running"},
         s.items = r.items, s.wrote = r.wrote, s.status = r.status
  PROVE  ItemsTell(s) /\ StatusTells(s)
BY DEF ItemsTell, StatusTells

LEMMA NextChatRun ==
  ASSUME IInv, Runs, NEW p \in Procs, NextChat(p)
  PROVE  RunOf(proc'[p], row'[p])
<1> DEFINE me == proc[p]
           r == row[p]
           next == proc'[p]
           s == row'[p]
<1>1. /\ me \in Processes /\ RunOf(me, r) /\ Located(me) /\ me.pc = "next"
  BY Types DEF NextChat, At
<1>2. PICK c \in me.chats :
        LET new == [me EXCEPT !.chats = @ \ {c}, !.chat = c, !.target = <<c, 0>>]
        IN  IF c \in Forums
            THEN Become(p, [new EXCEPT !.pc = "topics"]) /\ UNCHANGED row
            ELSE Become(p, [new EXCEPT !.pc = Begin(p)]) /\ AddGoals(p, {<<c, 0>>})
  BY DEF NextChat
<1>3. /\ next.pc = IF c \in Forums THEN "topics" ELSE Begin(p)
      /\ next.chats = me.chats \ {c} /\ next.chat = c /\ next.target = <<c, 0>>
      /\ next.cmd = me.cmd /\ next.topics = me.topics /\ next.total = me.total
      /\ next.err = me.err
  <2>1. CASE c \in Forums
    <3>1. next = [[me EXCEPT !.chats = @ \ {c}, !.chat = c, !.target = <<c, 0>>]
                    EXCEPT !.pc = "topics"]
      BY <1>2, <2>1, Types
    <3> QED
      BY <1>1, <2>1, <3>1 DEF Processes
  <2>2. CASE c \notin Forums
    <3>1. next = [[me EXCEPT !.chats = @ \ {c}, !.chat = c, !.target = <<c, 0>>]
                    EXCEPT !.pc = Begin(p)]
      BY <1>2, <2>2, Types
    <3> QED
      BY <1>1, <2>2, <3>1 DEF Processes
  <2> QED
    BY <2>1, <2>2
<1>4. /\ \/ Begin(p) = "start" /\ me.cmd = "history"
         \/ Begin(p) = "fetch" /\ me.cmd # "history"
      /\ me.cmd \in {"sync", "history", "tui"}
  BY <1>1 DEF Begin, Located
<1>5. /\ me.topics = {} /\ c \in Chats
      /\ Listed(me) /\ Untouched(me, r) /\ NothingForgotten(me, r) /\ TotalTells(me, r)
      /\ Begun(me, r) /\ ItemsTell(r) /\ StatusTells(r)
  BY <1>1 DEF RunOf, Listed, Processes
<1>6. /\ s.items = r.items /\ s.wrote = r.wrote /\ s.status = r.status /\ s.mode = r.mode
      /\ me.cmd # "sync" => s = r
      /\ \A t \in s.goal : t \in r.goal \/ (c \notin Forums /\ me.cmd = "sync" /\ t = <<c, 0>>)
  <2>1. CASE c \in Forums
    BY <1>2, <2>1
  <2>2. CASE c \notin Forums
    BY <1>2, <2>2, GoalsAdded
  <2> QED
    BY <2>1, <2>2
<1> HIDE DEF next, s
<1>7. Listed(next)
  <2>1. c \notin next.chats /\ next.topics = {}
    BY <1>3, <1>5
  <2> QED
    BY <1>3, <1>4, <2>1 DEF Listed, Working
<1>8. Untouched(next, s)
  <2>1. ToCome(next) \subseteq ToCome(me)
    BY <1>1, <1>3, <1>4, <1>5 DEF ToCome
  <2> QED
    BY <1>5, <1>6, <2>1 DEF Untouched
<1>9. Counted(next, s) /\ TotalTells(next, s)
  BY <1>3, <1>4, <1>5, <1>6 DEF Counted, TotalTells
<1>10. NothingForgotten(next, s)
  <2>1. ToDo(me) = {}
    BY <1>1, <1>5 DEF ToDo, Working
  <2>2. ASSUME NEW t \in s.goal, ~me.err PROVE t \in ToDo(next) \/ Recorded(t, s)
    <3>1. CASE t \in r.goal
      BY <1>5, <1>6, <2>1, <2>2, <3>1 DEF NothingForgotten, Recorded
    <3>2. CASE c \notin Forums /\ me.cmd = "sync" /\ t = <<c, 0>>
      <4>1. t \in Targets
        BY <1>5, <3>2, TargetTypes
      <4>2. next.pc = "fetch" /\ next.target = t
        BY <1>3, <1>4, <3>2
      <4> QED
        BY <4>1, <4>2 DEF ToDo, Working
    <3> QED
      BY <1>6, <3>1, <3>2
  <2> QED
    BY <1>3, <2>2 DEF NothingForgotten
<1>11. Begun(next, s)
  <2>1. NotBegun(next) => NotBegun(me)
    BY <1>1, <1>3, <1>4 DEF NotBegun
  <2>2. NotBegun(me) => me.cmd # "sync"
    BY <1>1 DEF NotBegun
  <2> QED
    BY <1>3, <1>5, <1>6, <2>1, <2>2 DEF Begun
<1>12. ItemsTell(s) /\ StatusTells(s)
  BY <1>5, <1>6, GoalsTell DEF Begun
<1> QED
  BY <1>3, <1>4, <1>7, <1>8, <1>9, <1>10, <1>11, <1>12 DEF RunOf, next, s

LEMMA ChatsDoneRun ==
  ASSUME IInv, Runs, NEW p \in Procs, ChatsDone(p)
  PROVE  RunOf(proc'[p], row'[p])
<1> DEFINE me == proc[p]
           r == row[p]
           next == proc'[p]
<1>1. /\ me \in Processes /\ RunOf(me, r) /\ me.pc = "next" /\ row'[p] = r
      /\ next = [me EXCEPT !.pc = "finish"]
  BY Types DEF ChatsDone, At, Goto
<1>2. /\ next.pc = "finish" /\ next.cmd = me.cmd /\ next.chats = me.chats
      /\ next.chat = me.chat /\ next.topics = me.topics /\ next.target = me.target
      /\ next.total = me.total /\ next.err = me.err
  BY <1>1 DEF Processes
<1> HIDE DEF next
<1>3. Listed(next)
  BY <1>1, <1>2 DEF RunOf, Listed, Working
<1>4. ToCome(next) \subseteq ToCome(me) /\ ToDo(next) = ToDo(me)
  BY <1>1, <1>2 DEF ToCome, ToDo, Working
<1>5. Untouched(next, r) /\ NothingForgotten(next, r) /\ Counted(next, r)
  BY <1>1, <1>2, <1>4 DEF RunOf, Untouched, NothingForgotten, Counted
<1>6. TotalTells(next, r) /\ Begun(next, r)
  BY <1>1, <1>2 DEF RunOf, TotalTells, Begun, NotBegun
<1> QED
  BY <1>1, <1>2, <1>3, <1>5, <1>6 DEF RunOf, next

LEMMA TopicsRun ==
  ASSUME IInv, Runs, NEW p \in Procs, NextTopic(p) \/ TopicsDone(p)
  PROVE  RunOf(proc'[p], row'[p])
<1> DEFINE me == proc[p]
           r == row[p]
           next == proc'[p]
<1>1. /\ me \in Processes /\ RunOf(me, r) /\ me.pc = "nextTopic" /\ row'[p] = r
      /\ me.chat \in Forums /\ me.cmd = "sync"
  BY Types DEF NextTopic, TopicsDone, At, Located
<1>2. /\ next.cmd = me.cmd /\ next.chats = me.chats /\ next.chat = me.chat
      /\ next.total = me.total /\ next.err = me.err
      /\ \/ next.pc = "next" /\ me.topics = {} /\ next.topics = me.topics
         \/ /\ next.pc = "fetch"
            /\ \E k \in me.topics : next.topics = me.topics \ {k} /\ next.target = <<me.chat, k>>
  <2>1. CASE NextTopic(p)
    <3>1. PICK k \in me.topics :
            next = [me EXCEPT !.topics = @ \ {k}, !.pc = "fetch", !.target = <<me.chat, k>>]
      BY <2>1, Types DEF NextTopic
    <3> QED
      BY <1>1, <3>1 DEF Processes
  <2>2. CASE TopicsDone(p)
    <3>1. next = [me EXCEPT !.pc = "next"] /\ me.topics = {}
      BY <2>2, Types DEF TopicsDone, Goto
    <3> QED
      BY <1>1, <3>1 DEF Processes
  <2> QED
    BY <2>1, <2>2
<1> HIDE DEF next
<1>3. Listed(next)
  BY <1>1, <1>2 DEF RunOf, Listed, Working
<1>4. ToCome(next) \subseteq ToCome(me)
  BY <1>1, <1>2 DEF ToCome
<1>5. ToDo(me) \subseteq ToDo(next)
  <2> SUFFICES ASSUME NEW t \in ToDo(me) PROVE t \in ToDo(next)
    OBVIOUS
  <2>1. t \in Targets /\ t[1] = me.chat /\ t[2] \in me.topics
    BY <1>1 DEF ToDo, Working
  <2>2. t = <<me.chat, t[2]>>
    BY <2>1 DEF Targets
  <2> QED
    BY <1>2, <2>1, <2>2 DEF ToDo, Working
<1>6. Untouched(next, r) /\ NothingForgotten(next, r) /\ Counted(next, r)
  BY <1>1, <1>2, <1>4, <1>5 DEF RunOf, Untouched, NothingForgotten, Counted
<1>7. TotalTells(next, r) /\ Begun(next, r)
  BY <1>1, <1>2 DEF RunOf, TotalTells, Begun, NotBegun
<1> QED
  BY <1>1, <1>2, <1>3, <1>6, <1>7 DEF RunOf, next

LEMMA LoadTopicsRun ==
  ASSUME IInv, Runs, NEW p \in Procs, LoadTopics(p)
  PROVE  RunOf(proc'[p], row'[p])
<1> DEFINE me == proc[p]
           r == row[p]
           next == proc'[p]
           s == row'[p]
           cursors == [t \in Targets |-> IF t[1] = me.chat THEN readTo[t] ELSE me.snap[t]]
           asked == IF me.topic = 0 THEN Topics ELSE {me.topic}
           unread == {k \in asked : Unread(<<me.chat, k>>)}
<1>1. /\ me \in Processes /\ RunOf(me, r) /\ Located(me) /\ me.pc = "topics"
      /\ me.chat \in Forums /\ (me.cmd # "sync" => me.topic \in Topics)
      /\ me.cmd \in {"sync", "history", "tui"}
  BY Types DEF LoadTopics, At, Located
<1>2. /\ Listed(me) /\ Untouched(me, r) /\ NothingForgotten(me, r) /\ TotalTells(me, r)
      /\ Begun(me, r) /\ ItemsTell(r) /\ StatusTells(r) /\ me.topics = {}
  BY <1>1 DEF RunOf, Listed
\* The topics of a run: all of them are new to it.
<1>3. CASE /\ me.cmd = "sync"
           /\ Become(p, [me EXCEPT !.snap = cursors, !.topics = unread, !.pc = "nextTopic"])
           /\ AddGoals(p, {<<me.chat, k>> : k \in unread})
  <2>1. unread \subseteq Topics
    BY <1>1 DEF Processes
  <2> HIDE DEF unread, cursors
  <2>2. next = [me EXCEPT !.snap = cursors, !.topics = unread, !.pc = "nextTopic"]
    BY <1>3, Types
  <2>3. /\ next.pc = "nextTopic" /\ next.topics = unread /\ next.cmd = me.cmd
        /\ next.chats = me.chats /\ next.chat = me.chat /\ next.total = me.total
        /\ next.err = me.err
    BY <1>1, <2>2 DEF Processes
  <2>4. /\ s.items = r.items /\ s.wrote = r.wrote /\ s.status = r.status /\ s.mode = r.mode
        /\ s.goal = r.goal \cup {<<me.chat, k>> : k \in unread}
    BY <1>3, GoalsAdded
  <2> HIDE DEF next, s
  <2>5. Listed(next)
    BY <1>1, <1>2, <1>3, <2>3 DEF Listed, Working
  <2>6. Untouched(next, s)
    <3>1. ToCome(next) \subseteq ToCome(me)
      BY <1>1, <2>3 DEF ToCome
    <3> QED
      BY <1>2, <2>4, <3>1 DEF Untouched
  <2>7. Counted(next, s) /\ TotalTells(next, s) /\ Begun(next, s)
    BY <1>2, <1>3, <2>3, <2>4 DEF Counted, TotalTells, Begun, NotBegun
  <2>8. NothingForgotten(next, s)
    <3>1. ToDo(me) = {}
      BY <1>1, <1>2 DEF ToDo, Working
    <3>2. ASSUME NEW t \in s.goal, ~me.err PROVE t \in ToDo(next) \/ Recorded(t, s)
      <4>1. CASE t \in r.goal
        BY <1>2, <2>4, <3>1, <3>2, <4>1 DEF NothingForgotten, Recorded
      <4>2. CASE \E k \in unread : t = <<me.chat, k>>
        BY <1>1, <2>1, <2>3, <4>2, TargetTypes DEF ToDo
      <4> QED
        BY <2>4, <4>1, <4>2
    <3> QED
      BY <2>3, <3>2 DEF NothingForgotten
  <2>9. ItemsTell(s) /\ StatusTells(s)
    BY <1>2, <2>4, GoalsTell DEF Begun
  <2> QED
    BY <2>3, <2>5, <2>6, <2>7, <2>8, <2>9 DEF RunOf, next, s
<1>4. CASE /\ me.cmd # "sync" /\ UNCHANGED row
           /\ Become(p, [me EXCEPT !.snap = cursors, !.pc = Begin(p),
                                   !.target = <<me.chat, me.topic>>])
  <2> HIDE DEF cursors
  <2>1. next = [me EXCEPT !.snap = cursors, !.pc = Begin(p), !.target = <<me.chat, me.topic>>]
    BY <1>4, Types
  <2>2. /\ next.pc = Begin(p) /\ next.topics = me.topics /\ next.cmd = me.cmd
        /\ next.chats = me.chats /\ next.chat = me.chat /\ next.total = me.total
        /\ next.err = me.err /\ next.target = <<me.chat, me.topic>>
    BY <1>1, <2>1 DEF Processes
  <2>3. r = NoRow /\ s = r
    BY <1>1, <1>2, <1>4 DEF Begun, NotBegun
  <2>4. \/ Begin(p) = "start" /\ me.cmd = "history"
        \/ Begin(p) = "fetch" /\ me.cmd = "tui"
    BY <1>1, <1>4 DEF Begin
  <2> HIDE DEF next, s
  <2>5. Listed(next)
    BY <1>1, <1>2, <2>2, <2>4 DEF Listed, Working
  <2>6. Untouched(next, NoRow) /\ Counted(next, NoRow) /\ NothingForgotten(next, NoRow)
    BY <2>2, <2>4, NoRowFacts DEF Untouched, ToCome, Counted, NothingForgotten
  <2>7. TotalTells(next, NoRow)
    BY <1>1, <1>2, <1>4, <2>2, <2>3, NoRowFacts DEF TotalTells, Begun, NotBegun
  <2>8. Begun(next, NoRow)
    BY <1>1, <1>2, <1>4, <2>2, <2>3, NoRowFacts DEF Begun, NotBegun
  <2> QED
    BY <2>2, <2>3, <2>4, <2>5, <2>6, <2>7, <2>8, NoRowTells DEF RunOf, next, s
\* A failed request, or a failed SaveTopics.
<1>5. CASE me.cmd = "sync" /\ UNCHANGED row /\ Goto(p, "failed")
  <2>1. next = [me EXCEPT !.pc = "failed"] /\ s = r
    BY <1>5, Types DEF Goto
  <2>2. /\ next.pc = "failed" /\ next.topics = me.topics /\ next.cmd = me.cmd
        /\ next.chats = me.chats /\ next.chat = me.chat /\ next.total = me.total
        /\ next.err = me.err /\ next.target = me.target
    BY <1>1, <2>1 DEF Processes
  <2>3. me.target[1] = me.chat
    BY <1>1, <1>2 DEF Listed
  <2> HIDE DEF next
  <2>4. Listed(next)
    BY <1>2, <1>5, <2>2, <2>3 DEF Listed, Working
  <2>5. ToCome(next) \subseteq ToCome(me) /\ ToDo(me) \subseteq ToDo(next)
    BY <1>1, <2>2, <2>3 DEF ToCome, ToDo, Working
  <2>6. Untouched(next, r) /\ Counted(next, r) /\ NothingForgotten(next, r)
    BY <1>2, <2>2, <2>5 DEF Untouched, Counted, NothingForgotten
  <2>7. TotalTells(next, r) /\ Begun(next, r)
    BY <1>2, <1>5, <2>2 DEF TotalTells, Begun, NotBegun
  <2> QED
    BY <1>2, <2>1, <2>2, <2>4, <2>6, <2>7 DEF RunOf, next
<1>6. CASE me.cmd = "sync" /\ UNCHANGED row /\ Become(p, [me EXCEPT !.err = TRUE, !.pc = "next"])
  <2>1. next = [me EXCEPT !.err = TRUE, !.pc = "next"] /\ s = r
    BY <1>6, Types
  <2>2. /\ next.pc = "next" /\ next.topics = me.topics /\ next.cmd = me.cmd
        /\ next.chats = me.chats /\ next.chat = me.chat /\ next.total = me.total
        /\ next.err
    BY <1>1, <2>1 DEF Processes
  <2> HIDE DEF next
  <2>3. Listed(next) /\ NothingForgotten(next, r)
    BY <1>2, <2>2 DEF Listed, NothingForgotten, Working
  <2>4. ToCome(next) \subseteq ToCome(me)
    BY <1>1, <2>2 DEF ToCome
  <2>5. Untouched(next, r) /\ Counted(next, r)
    BY <1>2, <2>2, <2>4 DEF Untouched, Counted
  <2>6. TotalTells(next, r) /\ Begun(next, r)
    BY <1>2, <1>6, <2>2 DEF TotalTells, Begun, NotBegun
  <2> QED
    BY <1>2, <2>1, <2>2, <2>3, <2>5, <2>6 DEF RunOf, next
<1>7. CASE me.cmd # "sync" /\ UNCHANGED row /\ Become(p, Idle)
  <2>1. NotBegun(me)
    BY <1>1, <1>7 DEF NotBegun
  <2> QED
    BY <1>1, <1>7, <2>1, Types, EndWithoutRun
<1> QED
  BY <1>3, <1>4, <1>5, <1>6, <1>7 DEF LoadTopics

\* An error before the commit: a failed item is to come, history ends with an
\* error, the interactive program has no row.
LEMMA TargetFailsRun ==
  ASSUME IInv, Runs, NEW p \in Procs, TargetFails(p), row'[p] = row[p],
         proc[p].pc \in {"fetch", "entities", "messages"}
  PROVE  RunOf(proc'[p], row'[p])
<1> DEFINE me == proc[p]
           r == row[p]
           next == proc'[p]
<1>1. me \in Processes /\ RunOf(me, r) /\ me.cmd \in {"sync", "history", "tui"}
  BY Types DEF Located
<1>2. CASE me.cmd = "sync"
  <2>1. next = [me EXCEPT !.pc = "failed"]
    BY <1>2, Types DEF TargetFails, Goto
  <2>2. next \in Processes
    BY <1>1, <2>1 DEF Processes, PCs
  <2>3. /\ next.pc = "failed" /\ next.cmd = me.cmd /\ next.chats = me.chats
        /\ next.chat = me.chat /\ next.topics = me.topics /\ next.target = me.target
        /\ next.total = me.total /\ next.err = me.err
    BY <1>1, <2>1 DEF Processes
  <2> HIDE DEF next
  <2> QED
    BY <1>1, <2>2, <2>3, SameRow DEF next
<1>3. CASE me.cmd = "history"
  <2>1. next = [me EXCEPT !.err = TRUE, !.pc = "finish"]
    BY <1>3, Types DEF TargetFails
  <2>2. /\ next.pc = "finish" /\ next.cmd = me.cmd /\ next.chats = me.chats
        /\ next.chat = me.chat /\ next.topics = me.topics /\ next.total = me.total
        /\ next.err
    BY <1>1, <2>1 DEF Processes
  <2> HIDE DEF next
  <2>3. Listed(next) /\ NothingForgotten(next, r)
    BY <1>1, <1>3, <2>2 DEF RunOf, Listed, NothingForgotten, Working
  <2>4. ToCome(next) \subseteq ToCome(me)
    BY <2>2 DEF ToCome
  <2>5. Untouched(next, r) /\ Counted(next, r) /\ TotalTells(next, r) /\ Begun(next, r)
    BY <1>1, <2>2, <2>4 DEF RunOf, Untouched, Counted, TotalTells, Begun, NotBegun
  <2> QED
    BY <1>1, <2>2, <2>3, <2>5 DEF RunOf, next
<1>4. CASE me.cmd = "tui"
  <2>1. next = Idle /\ NotBegun(me)
    BY <1>4, Types DEF TargetFails, NotBegun
  <2> QED
    BY <1>1, <2>1, EndWithoutRun
<1> QED
  BY <1>1, <1>2, <1>3, <1>4

LEMMA FetchRun ==
  ASSUME IInv, Runs, NEW p \in Procs, Fetch(p) \/ SaveEntities(p)
  PROVE  RunOf(proc'[p], row'[p])
<1> DEFINE me == proc[p]
           next == proc'[p]
<1>1. /\ me \in Processes /\ RunOf(me, row[p]) /\ me.pc \in {"fetch", "entities"}
      /\ row'[p] = row[p]
  BY Types DEF Fetch, SaveEntities, At
<1>2. CASE TargetFails(p)
  BY <1>1, <1>2, TargetFailsRun
<1>3. ASSUME NEW b \in Batches, NEW pc \in {"entities", "messages"},
             next = [me EXCEPT !.batch = b, !.pc = pc]
      PROVE  RunOf(next, row'[p])
  <2>1. next \in Processes
    BY <1>1, <1>3 DEF Processes, PCs
  <2>2. /\ next.pc = pc /\ next.cmd = me.cmd /\ next.chats = me.chats
        /\ next.chat = me.chat /\ next.topics = me.topics /\ next.target = me.target
        /\ next.total = me.total /\ next.err = me.err
    BY <1>1, <1>3 DEF Processes
  <2> HIDE DEF next
  <2> QED
    BY <1>1, <2>1, <2>2, SameRow
<1>4. CASE SaveEntities(p) /\ Goto(p, "messages")
  <2>1. next = [me EXCEPT !.pc = "messages"] /\ me.batch \in Batches
    BY <1>1, <1>4, Types DEF Goto, Processes
  <2>2. next = [me EXCEPT !.batch = me.batch, !.pc = "messages"]
    BY <1>1, <2>1 DEF Processes
  <2> QED
    BY <1>3, <2>1, <2>2
<1>5. CASE \E b \in Results(p) : Become(p, [me EXCEPT !.batch = b, !.pc = "entities"])
  BY <1>3, <1>5, Types DEF Results
<1> QED
  BY <1>2, <1>4, <1>5 DEF Fetch, SaveEntities

\* The commit: the row counts what is committed, the total with it.
LEMMA SaveMessagesRun ==
  ASSUME IInv, Runs, NEW p \in Procs, SaveMessages(p)
  PROVE  RunOf(proc'[p], row'[p])
<1> DEFINE me == proc[p]
           r == row[p]
           next == proc'[p]
           s == row'[p]
           n == Cardinality(me.batch.ids)
<1>1. /\ me \in Processes /\ r \in Rows /\ RunOf(me, r) /\ me.pc = "messages"
      /\ me.target \in Targets /\ me.cmd \in {"sync", "history", "tui"}
  BY Types DEF SaveMessages, At, Located
<1>2. CASE TargetFails(p) /\ row'[p] = row[p]
  BY <1>1, <1>2, TargetFailsRun
<1>3. CASE /\ row' = IF me.cmd = "tui" THEN row ELSE [row EXCEPT ![p].wrote[me.target] = @ + n]
           /\ Become(p, [me EXCEPT !.total = @ + n, !.pc = "mark"])
  <2>0. n \in Nat
    BY <1>1, TextFinite DEF Processes, Batches
  <2> HIDE DEF n
  <2>1. next = [me EXCEPT !.total = @ + n, !.pc = "mark"]
    BY <1>3, Types
  <2>2. /\ next.pc = "mark" /\ next.cmd = me.cmd /\ next.chats = me.chats
        /\ next.chat = me.chat /\ next.topics = me.topics /\ next.target = me.target
        /\ next.total = me.total + n /\ next.err = me.err /\ next.batch = me.batch
    BY <1>1, <2>1 DEF Processes
  <2>3. /\ Listed(me) /\ Untouched(me, r) /\ NothingForgotten(me, r) /\ TotalTells(me, r)
        /\ Begun(me, r) /\ ItemsTell(r) /\ StatusTells(r)
    BY <1>1 DEF RunOf
  <2>4. /\ r.wrote \in [Targets -> Nat] /\ me.total \in Nat
        /\ r.wrote[me.target] = 0 /\ \A i \in r.items : i.target # me.target
    BY <1>1, <2>3 DEF Rows, Processes, Untouched, ToCome
  <2> HIDE DEF next
  <2>5. Listed(next)
    BY <1>1, <2>2, <2>3 DEF Listed, Working
  <2>6. CASE me.cmd = "tui"
    <3>1. s = NoRow
      BY <1>3, <2>3, <2>6 DEF Begun, NotBegun
    <3>2. Untouched(next, NoRow) /\ Counted(next, NoRow) /\ NothingForgotten(next, NoRow)
      BY <2>2, <2>6, NoRowFacts DEF Untouched, ToCome, Counted, NothingForgotten
    <3>3. TotalTells(next, NoRow) /\ Begun(next, NoRow)
      BY <2>2, <2>6, NoRowFacts DEF TotalTells, Begun
    <3> QED
      BY <2>2, <2>5, <3>1, <3>2, <3>3, NoRowTells DEF RunOf, next
  <2>7. CASE me.cmd # "tui"
    <3>1. s = [r EXCEPT !.wrote = [r.wrote EXCEPT ![me.target] = n]]
      <4>1. row' = [row EXCEPT ![p].wrote[me.target] = @ + n] /\ row \in [Procs -> Rows]
        BY <1>3, <2>7 DEF IInv, TypeOK
      <4>2. s = [r EXCEPT !.wrote[me.target] = @ + n]
        BY <4>1
      <4>3. r.wrote[me.target] + n = n
        BY <2>0, <2>4
      <4> QED
        BY <1>1, <4>2, <4>3 DEF Rows
    <3>2. /\ s.items = r.items /\ s.goal = r.goal /\ s.status = r.status /\ s.mode = r.mode
          /\ s.wrote = [r.wrote EXCEPT ![me.target] = n]
      BY <1>1, <3>1 DEF Rows
    <3> HIDE DEF s
    <3>3. /\ s.wrote[me.target] = n
          /\ \A t \in Targets : t # me.target => s.wrote[t] = r.wrote[t]
      BY <1>1, <2>4, <3>2
    <3>4. Untouched(next, s)
      <4>1. ToCome(next) \subseteq ToCome(me) \ {me.target}
        BY <1>1, <2>2, <2>3 DEF ToCome, Listed, Working
      <4>2. ToCome(me) \subseteq Targets
        BY DEF ToCome
      <4> QED
        BY <2>3, <3>2, <3>3, <4>1, <4>2 DEF Untouched
    <3>5. Counted(next, s)
      BY <2>2, <2>4, <3>2, <3>3 DEF Counted, n
    <3>6. ToDo(next) = ToDo(me)
      BY <1>1, <2>2 DEF ToDo, Working
    <3>7. NothingForgotten(next, s)
      BY <2>2, <2>3, <3>2, <3>6 DEF NothingForgotten, Recorded
    <3>8. TotalTells(next, s)
      <4>1. me.total = 0 <=> \A t \in Targets : r.wrote[t] = 0
        BY <2>3, <2>7 DEF TotalTells
      <4>2. next.total = 0 <=> me.total = 0 /\ n = 0
        BY <2>0, <2>2, <2>4
      <4>3. (\A t \in Targets : s.wrote[t] = 0) <=> (\A t \in Targets : r.wrote[t] = 0) /\ n = 0
        BY <1>1, <2>4, <3>3
      <4> QED
        BY <2>2, <4>1, <4>2, <4>3 DEF TotalTells
    <3>9. Begun(next, s) /\ ItemsTell(s) /\ StatusTells(s)
      <4>1. Begun(next, s)
        BY <1>1, <2>2, <2>3, <2>7, <3>2 DEF Begun, NotBegun
      <4>2. ItemsTell(s)
        BY <2>3, <2>4, <3>2, <3>3 DEF ItemsTell
      <4> QED
        BY <2>3, <3>2, <4>1, <4>2 DEF Begun, StatusTells
    <3> QED
      BY <2>2, <2>5, <3>4, <3>5, <3>7, <3>8, <3>9 DEF RunOf, next, s
  <2> QED
    BY <2>6, <2>7
<1> QED
  BY <1>2, <1>3 DEF SaveMessages

LEMMA MarkRun ==
  ASSUME IInv, Runs, NEW p \in Procs, SkipMark(p) \/ MarkRead(p)
  PROVE  RunOf(proc'[p], row'[p])
<1> DEFINE me == proc[p]
           next == proc'[p]
<1>1. /\ me \in Processes /\ RunOf(me, row[p]) /\ me.pc = "mark"
      /\ row'[p] = row[p] /\ me.target \in Targets
  BY Types DEF SkipMark, MarkRead, At, Located
<1>2. PICK mark \in Marks : Marked(p, mark)
  BY DEF SkipMark, MarkRead, Marks
<1>3. CASE me.cmd = "tui"
  <2>1. next = Idle /\ NotBegun(me)
    BY <1>2, <1>3, Types DEF Marked, NotBegun
  <2> QED
    BY <1>1, <2>1, EndWithoutRun
<1>4. CASE me.cmd # "tui"
  <2>1. next = [me EXCEPT !.mark = mark, !.pc = "item"]
    BY <1>2, <1>4, Types DEF Marked
  <2>2. next \in Processes
    BY <1>1, <2>1 DEF Processes, PCs
  <2>3. /\ next.pc = "item" /\ next.cmd = me.cmd /\ next.chats = me.chats
        /\ next.chat = me.chat /\ next.topics = me.topics /\ next.target = me.target
        /\ next.total = me.total /\ next.err = me.err /\ next.batch = me.batch
    BY <1>1, <2>1 DEF Processes
  <2> HIDE DEF next
  <2> QED
    BY <1>1, <2>2, <2>3, SameRow DEF next
<1> QED
  BY <1>3, <1>4

\* After a target, with its item or without one but with an error.
LEMMA AfterTarget ==
  ASSUME NEW me \in Processes, NEW r, RunOf(me, r), me.pc \in {"item", "failed"},
         me.cmd \in {"sync", "history"},
         NEW next, NEW s,
         next.pc = Continue(me), next.cmd = me.cmd, next.chats = me.chats,
         next.chat = me.chat, next.topics = me.topics, next.total = me.total,
         s.wrote = r.wrote, s.goal = r.goal, s.status = r.status, s.mode = r.mode,
         NEW i, s.items = r.items \/ s.items = r.items \cup {i},
         i.target = me.target,
         i.target \in Targets => i.saved = r.wrote[i.target],
         next.err \/ (~me.err /\ ~i.failed /\ i \in s.items)
  PROVE  RunOf(next, s)
<1>1. /\ Listed(me) /\ Untouched(me, r) /\ NothingForgotten(me, r) /\ TotalTells(me, r)
      /\ Begun(me, r) /\ ItemsTell(r) /\ StatusTells(r)
  BY DEF RunOf
<1>2. /\ next.pc \in {"finish", "nextTopic", "next"}
      /\ next.pc = "finish" => me.cmd = "history"
      /\ next.pc = "next" => me.cmd = "sync" /\ me.chat \notin Forums
  BY DEF Continue
<1>3. me.target[1] = me.chat /\ me.target[2] \notin me.topics
  BY <1>1 DEF Listed, Working
<1>4. Listed(next)
  <2>1. \/ next.cmd # "sync" \/ next.chat \notin Forums
        \/ next.pc \in {"dialogs", "start", "next", "topics", "finish"}
        => next.topics = {}
    BY <1>1, <1>2 DEF Listed
  <2> QED
    BY <1>1, <1>2, <2>1 DEF Listed, Working
<1>5. Untouched(next, s)
  <2>1. ToCome(next) \subseteq ToCome(me) \ {me.target}
    BY <1>1, <1>2, <1>3 DEF ToCome, Listed
  <2> QED
    BY <1>1, <2>1 DEF Untouched
<1>6. Counted(next, s) /\ TotalTells(next, s)
  BY <1>1, <1>2 DEF Counted, TotalTells
<1>7. Begun(next, s)
  BY <1>1, <1>2 DEF Begun, NotBegun
<1>8. NothingForgotten(next, s)
  <2> SUFFICES ASSUME ~next.err, NEW t \in s.goal
               PROVE  t \in ToDo(next) \/ Recorded(t, s)
    BY DEF NothingForgotten
  <2>1. t \in ToDo(me) \/ Recorded(t, r)
    BY <1>1 DEF NothingForgotten
  <2>2. CASE Recorded(t, r)
    BY <2>2 DEF Recorded
  <2>3. CASE t = me.target
    BY <2>3 DEF Recorded
  <2>4. CASE t \in ToDo(me) /\ t # me.target
    BY <2>4 DEF ToDo
  <2> QED
    BY <2>1, <2>2, <2>3, <2>4
<1>9. ItemsTell(s) /\ StatusTells(s)
  BY <1>1 DEF ItemsTell, StatusTells, Begun
<1> QED
  BY <1>2, <1>4, <1>5, <1>6, <1>7, <1>8, <1>9 DEF RunOf

\* A row to which at most an item was added.
LEMMA RowWithItem ==
  ASSUME IInv, NEW p \in Procs, NEW i,
         row' = row \/ row' = [row EXCEPT ![p].items = @ \cup {i}]
  PROVE  /\ row'[p].wrote = row[p].wrote /\ row'[p].goal = row[p].goal
         /\ row'[p].status = row[p].status /\ row'[p].mode = row[p].mode
         /\ row'[p].items = IF row' = row THEN row[p].items ELSE row[p].items \cup {i}
<1>1. row[p] \in Rows /\ row \in [Procs -> Rows]
  BY DEF IInv, TypeOK
<1>2. CASE row' # row
  <2>1. row'[p] = [row[p] EXCEPT !.items = @ \cup {i}]
    BY <1>1, <1>2
  <2> QED
    BY <1>1, <1>2, <2>1 DEF Rows
<1> QED
  BY <1>2

LEMMA AddItemRun ==
  ASSUME IInv, Runs, NEW p \in Procs, AddItem(p)
  PROVE  RunOf(proc'[p], row'[p])
<1> DEFINE me == proc[p]
           r == row[p]
           s == row'[p]
           i == Item(me.target, Cardinality(me.batch.ids), me.mark, FALSE)
           after == [me EXCEPT !.batch = NoBatch, !.mark = "none", !.pc = Continue(me)]
<1>1. /\ me \in Processes /\ RunOf(me, r) /\ me.pc = "item"
      /\ me.cmd \in {"sync", "history"}
  BY Types DEF AddItem, At, Located
<1>2. /\ i.target = me.target /\ i.saved = r.wrote[me.target] /\ ~i.failed
  BY <1>1 DEF Item, RunOf, Counted
<1>3. /\ after.pc = Continue(me) /\ after.cmd = me.cmd /\ after.chats = me.chats
      /\ after.chat = me.chat /\ after.topics = me.topics /\ after.total = me.total
      /\ after.err = me.err
  BY <1>1 DEF Processes
<1> HIDE DEF i
<1>4. CASE row' = [row EXCEPT ![p].items = @ \cup {i}] /\ proc'[p] = after
  <2>1. /\ s.wrote = r.wrote /\ s.goal = r.goal /\ s.status = r.status /\ s.mode = r.mode
        /\ s.items = r.items \cup {i}
    <3>1. row[p] \in Rows /\ row \in [Procs -> Rows]
      BY DEF IInv, TypeOK
    <3>2. s = [r EXCEPT !.items = @ \cup {i}]
      BY <1>4, <3>1
    <3> QED
      BY <3>1, <3>2 DEF Rows
  <2>2. after.err \/ (~me.err /\ ~i.failed /\ i \in s.items)
    BY <1>1, <1>2, <1>3, <2>1 DEF Processes
  <2> HIDE DEF after, s
  <2>3. RunOf(after, s)
    BY <1>1, <1>2, <1>3, <2>1, <2>2, AfterTarget
  <2> QED
    BY <1>4, <2>3 DEF s
<1>5. CASE UNCHANGED row /\ proc'[p] = [after EXCEPT !.err = TRUE]
  <2> DEFINE next == [after EXCEPT !.err = TRUE]
  <2>1. /\ next.pc = Continue(me) /\ next.cmd = me.cmd /\ next.chats = me.chats
        /\ next.chat = me.chat /\ next.topics = me.topics /\ next.total = me.total
        /\ next.err
    BY <1>1 DEF Processes
  <2> HIDE DEF next, after
  <2>2. RunOf(next, r)
    BY <1>1, <1>2, <2>1, AfterTarget
  <2> QED
    BY <1>5, <2>2 DEF next
<1> QED
  BY <1>4, <1>5, Types DEF AddItem, SavedCount, i

LEMMA AddFailedItemRun ==
  ASSUME IInv, Runs, NEW p \in Procs, AddFailedItem(p)
  PROVE  RunOf(proc'[p], row'[p])
<1> DEFINE me == proc[p]
           r == row[p]
           s == row'[p]
           i == Item(me.target, 0, "none", TRUE)
           next == [me EXCEPT !.batch = NoBatch, !.err = TRUE, !.pc = Continue(me)]
<1>1. /\ me \in Processes /\ RunOf(me, r) /\ me.pc = "failed"
      /\ me.cmd \in {"sync", "history"} /\ proc'[p] = next
  BY Types DEF AddFailedItem, At, Located
<1>2. i.target = me.target /\ i.saved = 0
  BY DEF Item
<1>3. me.target \in Targets => r.wrote[me.target] = 0
  BY <1>1 DEF RunOf, Untouched, ToCome
<1>4. /\ next.pc = Continue(me) /\ next.cmd = me.cmd /\ next.chats = me.chats
      /\ next.chat = me.chat /\ next.topics = me.topics /\ next.total = me.total
      /\ next.err
  BY <1>1 DEF Processes
<1>5. row' = row \/ row' = [row EXCEPT ![p].items = @ \cup {i}]
  BY DEF AddFailedItem
<1> HIDE DEF i, next
<1>6. /\ s.wrote = r.wrote /\ s.goal = r.goal /\ s.status = r.status /\ s.mode = r.mode
      /\ s.items = r.items \/ s.items = r.items \cup {i}
  BY <1>5, RowWithItem
<1> HIDE DEF s
<1> QED
  BY <1>1, <1>2, <1>3, <1>4, <1>6, AfterTarget DEF s

\* What the status of a finished run says follows from what is done by then.
LEMMA FinishRunRun ==
  ASSUME IInv, Runs, NEW p \in Procs, FinishRun(p)
  PROVE  RunOf(proc'[p], row'[p])
<1> DEFINE me == proc[p]
           r == row[p]
           s == row'[p]
<1>1. /\ me \in Processes /\ r \in Rows /\ RunOf(me, r) /\ me.pc = "finish"
      /\ proc'[p] = Idle /\ row \in [Procs -> Rows]
  BY Types DEF FinishRun, At, IInv, TypeOK
<1>2. /\ Listed(me) /\ NothingForgotten(me, r) /\ TotalTells(me, r)
      /\ Begun(me, r) /\ ItemsTell(r) /\ StatusTells(r)
  BY <1>1 DEF RunOf
<1>3. CASE row' = [row EXCEPT ![p].status = Status(me)]
  <2>1. s = [r EXCEPT !.status = Status(me)]
    BY <1>1, <1>3
  <2>2. /\ s.items = r.items /\ s.wrote = r.wrote /\ s.goal = r.goal /\ s.mode = r.mode
        /\ s.status = Status(me)
    BY <1>1, <2>1 DEF Rows
  <2> HIDE DEF s
  <2>3. ToDo(me) = {}
    BY <1>1, <1>2 DEF ToDo, Listed, Working
  <2>4. s.status = "ok" => \A t \in s.goal : Recorded(t, s)
    <3> SUFFICES ASSUME s.status = "ok", NEW t \in s.goal PROVE Recorded(t, s)
      OBVIOUS
    <3>1. ~me.err
      BY <2>2 DEF Status
    <3> QED
      BY <1>2, <2>2, <2>3, <3>1 DEF NothingForgotten, Recorded
  <2>5. s.status = "error" /\ s.mode = "sync" => \A t \in Targets : s.wrote[t] = 0
    <3> SUFFICES ASSUME s.status = "error", s.mode = "sync"
                 PROVE  \A t \in Targets : s.wrote[t] = 0
      OBVIOUS
    <3>1. me.cmd = "sync" /\ me.total \in Nat
      BY <1>1, <1>2, <2>2 DEF Begun, Processes
    <3>2. me.total = 0
      BY <2>2, <3>1 DEF Status
    <3> QED
      BY <1>2, <2>2, <3>1, <3>2 DEF TotalTells
  <2>6. s.status = "partial" => \E t \in Targets : s.wrote[t] > 0
    <3> SUFFICES ASSUME s.status = "partial" PROVE \E t \in Targets : s.wrote[t] > 0
      OBVIOUS
    <3>1. me.cmd = "sync" /\ me.total > 0
      BY <2>2 DEF Status
    <3>2. PICK t \in Targets : r.wrote[t] # 0
      BY <1>2, <3>1 DEF TotalTells
    <3>3. r.wrote[t] \in Nat
      BY <1>1 DEF Rows
    <3> QED
      BY <2>2, <3>2, <3>3
  <2>7. ItemsTell(s) /\ StatusTells(s) /\ s.status # "running"
    BY <1>2, <2>2, <2>4, <2>5, <2>6 DEF ItemsTell, StatusTells, Status
  <2> QED
    BY <1>1, <2>7, IdleRun DEF s
<1>4. CASE row' = [row EXCEPT ![p].cut = TRUE]
  <2>1. s = [r EXCEPT !.cut = TRUE]
    BY <1>1, <1>4
  <2>2. /\ s.items = r.items /\ s.wrote = r.wrote /\ s.goal = r.goal /\ s.mode = r.mode
        /\ s.status = r.status /\ s.cut
    BY <1>1, <2>1 DEF Rows
  <2> HIDE DEF s
  <2>3. ItemsTell(s) /\ StatusTells(s)
    BY <1>2, <2>2, GoalsTell DEF Begun
  <2> QED
    BY <1>1, <2>2, <2>3, IdleRun DEF s
<1> QED
  BY <1>3, <1>4 DEF FinishRun

LEMMA InterruptRun ==
  ASSUME IInv, Runs, NEW p \in Procs, Interrupt(p)
  PROVE  RunOf(proc'[p], row'[p])
<1> DEFINE me == proc[p]
           r == row[p]
           s == row'[p]
           next == proc'[p]
<1>1. /\ me \in Processes /\ r \in Rows /\ RunOf(me, r) /\ me.pc # "idle"
      /\ row \in [Procs -> Rows]
  BY Types DEF Interrupt, Cancel, Crash, At, IInv, TypeOK
<1>2. CASE Cancel(p)
  <2>1. next = [me EXCEPT !.ctxDone = TRUE] /\ s = r
    BY <1>2, Types DEF Cancel
  <2>2. next \in Processes
    BY <1>1, <2>1 DEF Processes
  <2>3. /\ next.pc = me.pc /\ next.cmd = me.cmd /\ next.chats = me.chats
        /\ next.chat = me.chat /\ next.topics = me.topics /\ next.target = me.target
        /\ next.total = me.total /\ next.err = me.err /\ next.batch = me.batch
    BY <1>1, <2>1 DEF Processes
  <2> HIDE DEF next
  <2> QED
    BY <1>1, <2>1, <2>2, <2>3, SameRow DEF next
<1>3. CASE Crash(p)
  <2>1. next = Idle /\ s = [r EXCEPT !.cut = (@ \/ r.status = "running")]
    BY <1>1, <1>3, Types DEF Crash
  <2>2. /\ s.items = r.items /\ s.wrote = r.wrote /\ s.goal = r.goal /\ s.mode = r.mode
        /\ s.status = r.status /\ (s.status = "running" => s.cut)
    BY <1>1, <2>1 DEF Rows
  <2> HIDE DEF s
  <2>3. ItemsTell(s) /\ StatusTells(s)
    BY <1>1, <2>2, GoalsTell DEF RunOf, Begun
  <2> QED
    BY <2>1, <2>2, <2>3, IdleRun DEF s
<1> QED
  BY <1>2, <1>3 DEF Interrupt

-----------------------------------------------------------------------------
(* The theorems *)

LEMMA InitRuns == Init => Runs
BY NoRowTells, IdleRun DEF Init, Runs

LEMMA StepRuns == IInv /\ Runs /\ [Next]_vars => Runs'
<1> SUFFICES ASSUME IInv, Runs, [Next]_vars PROVE Runs'
  OBVIOUS
<1>1. CASE UNCHANGED <<proc, row>>
  BY <1>1 DEF Runs
<1>2. ASSUME NEW p \in Procs, Launch(p) \/ Work(p) \/ Interrupt(p) PROVE Runs'
  <2>1. RunOf(proc'[p], row'[p])
    BY <1>2, LaunchRun, LoadDialogsRun, StartRunRun, NextChatRun, ChatsDoneRun, LoadTopicsRun,
       TopicsRun, FetchRun, SaveMessagesRun, MarkRun, AddItemRun, AddFailedItemRun,
       FinishRunRun, InterruptRun
       DEF Work
  <2>2. ASSUME NEW q \in Procs, q # p PROVE proc'[q] = proc[q] /\ row'[q] = row[q]
    <3>1. \E next : proc' = [proc EXCEPT ![p] = next]
      BY <1>2 DEF Launch, Work, Interrupt, LoadDialogs, StartRun, NextChat, ChatsDone, LoadTopics,
         NextTopic, TopicsDone, Fetch, SaveEntities, SaveMessages, SkipMark, MarkRead, AddItem,
         AddFailedItem, FinishRun, Cancel, Crash, TargetFails, Marked, Become, Goto
    <3>2. \E r : row' = [row EXCEPT ![p] = r] \/ row' = row
      BY <1>2 DEF Launch, Work, Interrupt, LoadDialogs, StartRun, NextChat, ChatsDone, LoadTopics,
         NextTopic, TopicsDone, Fetch, SaveEntities, SaveMessages, SkipMark, MarkRead, AddItem,
         AddFailedItem, FinishRun, Cancel, Crash, AddGoals
    <3> QED
      BY <2>2, <3>1, <3>2 DEF IInv, TypeOK
  <2> QED
    BY <2>1, <2>2 DEF Runs
<1>3. ASSUME NEW t \in Targets, Post(t) \/ ReadElsewhere(t) PROVE Runs'
  BY <1>1, <1>3 DEF Post, ReadElsewhere
<1> QED
  BY <1>1, <1>2, <1>3 DEF Next, vars

LEMMA InductiveRuns == Spec => []Runs
BY Inductive, InitRuns, StepRuns, PTL DEF Spec

\* "ok" means that everything selected was fetched and recorded, "error" of a
\* sync that nothing was saved, "partial" that something was.
THEOREM StatusTellsTheTruth == Spec => []StatusIsTrue
<1>1. Runs => StatusIsTrue
  BY DEF Runs, RunOf, StatusTells, Recorded, StatusIsTrue
<1> QED
  BY <1>1, InductiveRuns, PTL

\* The saved count of an item is what its run has committed for the target.
THEOREM ItemsTellTheTruth == Spec => []ItemsAreTrue
<1>1. Runs => ItemsAreTrue
  BY DEF Runs, RunOf, ItemsTell, ItemsAreTrue
<1> QED
  BY <1>1, InductiveRuns, PTL

\* Only a crash or a failed FinishRun leaves a row "running".
THEOREM RunsAreClosed == Spec => []RunIsClosed
<1>1. Runs => RunIsClosed
  BY DEF Runs, RunOf, RunIsClosed, At
<1> QED
  BY <1>1, InductiveRuns, PTL

-----------------------------------------------------------------------------
(* What the end of a command rests on: a variant. *)

\* What a chat costs at most, and the points of the program by what is left
\* to do from there for the chat or topic at hand.
ChatCost == 6 * Cardinality(Topics) + 10

Rank(pc) ==
  CASE pc = "idle"              -> 0
    [] pc = "finish"            -> 1
    [] pc = "next"              -> 2
    [] pc = "nextTopic"         -> 3
    [] pc \in {"item", "failed"} -> 4
    [] pc = "mark"              -> 5
    [] pc = "messages"          -> 6
    [] pc = "entities"          -> 7
    [] pc = "fetch"             -> 8
    [] pc = "start"             -> 9
    [] pc = "topics"            -> ChatCost
    [] OTHER                    -> ChatCost * Cardinality(Chats) + 10

\* How many steps a command may still take, at most.
StepsLeft(me) ==
  IF me.pc = "idle" THEN 0
  ELSE ChatCost * Cardinality(me.chats) + 6 * Cardinality(me.topics) + Rank(me.pc)

\* Every step of a command leaves it fewer; until it has ended nothing else,
\* of Telegram, of the user or of another process, leaves it more.
CommandsRunOut ==
  \A p \in Procs :
    /\ StepsLeft(proc[p]) \in Nat
    /\ proc[p].pc # "idle" => StepsLeft(proc'[p]) <= StepsLeft(proc[p])
    /\ Work(p) => StepsLeft(proc'[p]) < StepsLeft(proc[p])

LEMMA TimesMonotone ==
  ASSUME NEW w \in Nat, NEW m \in Nat, NEW n \in Nat, m <= n
  PROVE  w * m \in Nat /\ w * n \in Nat /\ w * m <= w * n
OBVIOUS

LEMMA TimesOneLess ==
  ASSUME NEW w \in Nat, NEW n \in Nat
  PROVE  w * (n + 1) = w * n + w
OBVIOUS

LEMMA Finite ==
  /\ ChatCost \in Nat /\ ChatCost >= 10
  /\ Cardinality(Chats) \in Nat /\ Cardinality(Topics) \in Nat
  /\ \A S \in SUBSET Chats :
       IsFiniteSet(S) /\ Cardinality(S) \in Nat /\ Cardinality(S) <= Cardinality(Chats)
  /\ \A S \in SUBSET Topics :
       IsFiniteSet(S) /\ Cardinality(S) \in Nat /\ Cardinality(S) <= Cardinality(Topics)
<1>1. IsFiniteSet(Chats) /\ IsFiniteSet(Topics)
  BY FiniteAssumption, FS_Union DEF Chats
<1>2. Cardinality(Chats) \in Nat /\ Cardinality(Topics) \in Nat
  BY <1>1, FS_CardinalityType
<1>3. \A S \in SUBSET Chats :
        IsFiniteSet(S) /\ Cardinality(S) \in Nat /\ Cardinality(S) <= Cardinality(Chats)
  BY <1>1, FS_Subset, FS_CardinalityType
<1>4. \A S \in SUBSET Topics :
        IsFiniteSet(S) /\ Cardinality(S) \in Nat /\ Cardinality(S) <= Cardinality(Topics)
  BY <1>1, FS_Subset, FS_CardinalityType
<1>5. ChatCost \in Nat /\ ChatCost >= 10
  BY <1>2 DEF ChatCost
<1> QED
  BY <1>2, <1>3, <1>4, <1>5

LEMMA Ranks ==
  /\ Rank("idle") = 0 /\ Rank("finish") = 1 /\ Rank("next") = 2 /\ Rank("nextTopic") = 3
  /\ Rank("item") = 4 /\ Rank("failed") = 4 /\ Rank("mark") = 5 /\ Rank("messages") = 6
  /\ Rank("entities") = 7 /\ Rank("fetch") = 8 /\ Rank("start") = 9
  /\ Rank("topics") = ChatCost /\ Rank("topics") \in Nat /\ Rank("topics") >= 10
  /\ Rank("dialogs") = ChatCost * Cardinality(Chats) + 10
BY Finite DEF Rank

LEMMA StepsAreNat ==
  ASSUME NEW me \in Processes
  PROVE  /\ Rank(me.pc) \in Nat /\ (me.pc # "idle" => Rank(me.pc) > 0)
         /\ Cardinality(me.chats) \in Nat /\ Cardinality(me.topics) \in Nat
         /\ ChatCost * Cardinality(me.chats) \in Nat
         /\ StepsLeft(me) \in Nat /\ (me.pc # "idle" => StepsLeft(me) > 0)
<1>1. me.chats \in SUBSET Chats /\ me.topics \in SUBSET Topics
  BY DEF Processes
<1>2. Cardinality(me.chats) \in Nat /\ Cardinality(me.topics) \in Nat
  BY <1>1, Finite
<1>3. /\ ChatCost * Cardinality(me.chats) \in Nat
      /\ ChatCost * Cardinality(Chats) \in Nat
  BY <1>2, Finite, TimesMonotone
<1>4. Rank(me.pc) \in Nat /\ (me.pc # "idle" => Rank(me.pc) > 0)
  BY <1>3, Ranks DEF Processes, PCs
<1> QED
  BY <1>2, <1>3, <1>4 DEF StepsLeft

\* A step within the chat or topic at hand.
LEMMA StepAhead ==
  ASSUME NEW me \in Processes, NEW you \in Processes, me.pc # "idle",
         \/ you.pc = "idle"
         \/ you.chats = me.chats /\ you.topics = me.topics /\ Rank(you.pc) < Rank(me.pc)
  PROVE  StepsLeft(you) < StepsLeft(me)
<1>1. CASE you.pc = "idle"
  BY <1>1, StepsAreNat DEF StepsLeft
<1>2. CASE you.pc # "idle"
  <2>1. you.chats = me.chats /\ you.topics = me.topics /\ Rank(you.pc) < Rank(me.pc)
    BY <1>2
  <2>2. /\ StepsLeft(me) = ChatCost * Cardinality(me.chats) + 6 * Cardinality(me.topics) + Rank(me.pc)
        /\ StepsLeft(you) = ChatCost * Cardinality(me.chats) + 6 * Cardinality(me.topics) + Rank(you.pc)
    BY <1>2, <2>1 DEF StepsLeft
  <2>3. /\ Rank(me.pc) \in Nat /\ Rank(you.pc) \in Nat
        /\ Cardinality(me.topics) \in Nat /\ ChatCost * Cardinality(me.chats) \in Nat
    BY StepsAreNat
  <2> QED
    BY <2>1, <2>2, <2>3
<1> QED
  BY <1>1, <1>2

\* A chat is taken from the list: what it costs at most is not to come any more.
LEMMA StepToNextChat ==
  ASSUME NEW me \in Processes, NEW you \in Processes, NEW c \in me.chats,
         me.pc = "next", you.chats = me.chats \ {c}, you.topics = me.topics,
         you.pc \in {"topics", "start", "fetch"}
  PROVE  StepsLeft(you) < StepsLeft(me)
<1> DEFINE n == Cardinality(you.chats)
<1>1. IsFiniteSet(me.chats) /\ Cardinality(me.chats) \in Nat
  BY Finite DEF Processes
<1>2. n \in Nat /\ Cardinality(me.chats) = n + 1
  <2>1. n = Cardinality(me.chats) - 1
    BY <1>1, FS_RemoveElement
  <2>2. n \in Nat
    BY StepsAreNat
  <2> QED
    BY <1>1, <2>1, <2>2
<1> HIDE DEF n
<1>3. ChatCost * (n + 1) = ChatCost * n + ChatCost /\ ChatCost * n \in Nat
  BY <1>2, Finite, TimesOneLess, TimesMonotone
<1>4. Rank(you.pc) \in Nat /\ Rank(you.pc) <= ChatCost /\ Rank(me.pc) = 2
  BY Ranks
<1>5. /\ StepsLeft(me) = ChatCost * (n + 1) + 6 * Cardinality(me.topics) + 2
      /\ StepsLeft(you) = ChatCost * n + 6 * Cardinality(me.topics) + Rank(you.pc)
  BY <1>2, <1>4 DEF StepsLeft, n
<1>6. Cardinality(me.topics) \in Nat /\ ChatCost \in Nat
  BY StepsAreNat, Finite
<1> QED
  BY <1>3, <1>4, <1>5, <1>6

\* The topics of a forum are at most all there are.
LEMMA StepToTopics ==
  ASSUME NEW me \in Processes, NEW you \in Processes,
         me.pc = "topics", you.chats = me.chats, you.pc = "nextTopic"
  PROVE  StepsLeft(you) < StepsLeft(me)
<1>1. /\ StepsLeft(me) = ChatCost * Cardinality(me.chats) + 6 * Cardinality(me.topics) + ChatCost
      /\ StepsLeft(you) = ChatCost * Cardinality(me.chats) + 6 * Cardinality(you.topics) + 3
  BY Ranks DEF StepsLeft
<1>2. /\ Cardinality(me.topics) \in Nat /\ Cardinality(you.topics) \in Nat
      /\ ChatCost * Cardinality(me.chats) \in Nat
  BY StepsAreNat
<1>3. Cardinality(you.topics) <= Cardinality(Topics) /\ Cardinality(Topics) \in Nat
  BY Finite DEF Processes
<1> QED
  BY <1>1, <1>2, <1>3 DEF ChatCost

LEMMA StepToNextTopic ==
  ASSUME NEW me \in Processes, NEW you \in Processes, NEW k \in me.topics,
         me.pc = "nextTopic", you.chats = me.chats, you.topics = me.topics \ {k},
         you.pc = "fetch"
  PROVE  StepsLeft(you) < StepsLeft(me)
<1>1. IsFiniteSet(me.topics) /\ Cardinality(me.topics) \in Nat
  BY Finite DEF Processes
<1>2. Cardinality(you.topics) = Cardinality(me.topics) - 1
  BY <1>1, FS_RemoveElement
<1>3. /\ StepsLeft(me) = ChatCost * Cardinality(me.chats) + 6 * Cardinality(me.topics) + 3
      /\ StepsLeft(you) = ChatCost * Cardinality(me.chats) + 6 * Cardinality(you.topics) + 8
  BY Ranks DEF StepsLeft
<1>4. ChatCost * Cardinality(me.chats) \in Nat
  BY StepsAreNat
<1> QED
  BY <1>1, <1>2, <1>3, <1>4

\* The dialogs of a command are at most all there are.
LEMMA StepToChats ==
  ASSUME NEW me \in Processes, NEW you \in Processes,
         me.pc = "dialogs", you.topics = me.topics, you.pc \in {"start", "next"}
  PROVE  StepsLeft(you) < StepsLeft(me)
<1>1. /\ ChatCost * Cardinality(you.chats) <= ChatCost * Cardinality(Chats)
      /\ ChatCost * Cardinality(you.chats) \in Nat /\ ChatCost * Cardinality(Chats) \in Nat
  <2>1. Cardinality(you.chats) \in Nat /\ Cardinality(you.chats) <= Cardinality(Chats)
    BY Finite DEF Processes
  <2> QED
    BY <2>1, Finite, TimesMonotone
<1>2. /\ StepsLeft(me) = ChatCost * Cardinality(me.chats) + 6 * Cardinality(me.topics)
                           + Rank("dialogs")
      /\ StepsLeft(you) = ChatCost * Cardinality(you.chats) + 6 * Cardinality(me.topics)
                            + Rank(you.pc)
  BY DEF StepsLeft
<1>3. Rank("dialogs") = ChatCost * Cardinality(Chats) + 10 /\ Rank(you.pc) \in 0..9
  BY Ranks
<1>4. Cardinality(me.topics) \in Nat /\ ChatCost * Cardinality(me.chats) \in Nat
  BY StepsAreNat
<1> QED
  BY <1>1, <1>2, <1>3, <1>4

\* One step for each action.
LEMMA WorkRunsOut ==
  ASSUME TypeOK, TypeOK', NEW p \in Procs, Work(p)
  PROVE  StepsLeft(proc'[p]) < StepsLeft(proc[p])
<1> DEFINE me == proc[p]
           you == proc'[p]
<1>1. me \in Processes /\ you \in Processes
  BY DEF TypeOK
<1>2. \A next : Become(p, next) => you = next
  BY DEF TypeOK, Become
<1>3. Idle.pc = "idle"
  BY DEF Idle
<1>4. \A to : Goto(p, to) => you.pc = to /\ you.chats = me.chats /\ you.topics = me.topics
  BY <1>1, <1>2 DEF Goto, Processes
<1>5. Continue(me) \in {"finish", "nextTopic", "next"}
  BY DEF Continue
<1> SUFFICES StepsLeft(you) < StepsLeft(me)
  OBVIOUS
<1> HIDE DEF you, me
<1>6. ASSUME me.pc # "idle",
             you.pc = "idle" \/ (you.chats = me.chats /\ you.topics = me.topics
                                   /\ Rank(you.pc) < Rank(me.pc))
      PROVE  StepsLeft(you) < StepsLeft(me)
  BY <1>1, <1>6, StepAhead
<1>7. ASSUME me.pc \in {"fetch", "entities", "messages"}, TargetFails(p)
      PROVE  StepsLeft(you) < StepsLeft(me)
  <2>1. \/ you.pc = "idle"
        \/ you.pc \in {"failed", "finish"} /\ you.chats = me.chats /\ you.topics = me.topics
    BY <1>1, <1>2, <1>3, <1>4, <1>7 DEF TargetFails, me, Processes
  <2> QED
    BY <1>6, <1>7, <2>1, Ranks
<1>8. CASE LoadDialogs(p)
  <2>1. me.pc = "dialogs"
    BY <1>8 DEF LoadDialogs, At, me
  <2>2. \/ you.pc = "idle"
        \/ you.pc \in {"start", "next"} /\ you.topics = me.topics
    BY <1>1, <1>2, <1>3, <1>8 DEF LoadDialogs, me, Processes
  <2> QED
    BY <1>1, <1>6, <2>1, <2>2, StepToChats
<1>9. CASE StartRun(p)
  <2>1. /\ me.pc = "start"
        /\ you.pc = "idle" \/ (you.pc \in {"next", "fetch"} /\ you.chats = me.chats
                                 /\ you.topics = me.topics)
    BY <1>2, <1>3, <1>4, <1>9 DEF StartRun, At, me
  <2> QED
    BY <1>6, <2>1, Ranks
<1>10. CASE NextChat(p)
  <2>1. PICK c \in me.chats :
          \/ you = [[me EXCEPT !.chats = @ \ {c}, !.chat = c, !.target = <<c, 0>>]
                      EXCEPT !.pc = "topics"]
          \/ you = [[me EXCEPT !.chats = @ \ {c}, !.chat = c, !.target = <<c, 0>>]
                      EXCEPT !.pc = Begin(p)]
    BY <1>2, <1>10 DEF NextChat, me
  <2>2. you.chats = me.chats \ {c} /\ you.topics = me.topics
        /\ you.pc \in {"topics", "start", "fetch"}
    BY <1>1, <2>1 DEF Processes, Begin
  <2> QED
    BY <1>1, <1>10, <2>2, StepToNextChat DEF NextChat, At, me
<1>11. CASE ChatsDone(p)
  BY <1>4, <1>6, <1>11, Ranks DEF ChatsDone, At, me
<1>12. CASE LoadTopics(p)
  <2>1. me.pc = "topics"
    BY <1>12 DEF LoadTopics, At, me
  <2>2. \/ you.pc = "idle"
        \/ you.pc = "nextTopic" /\ you.chats = me.chats
        \/ /\ you.pc \in {"start", "fetch", "failed", "next"}
           /\ you.chats = me.chats /\ you.topics = me.topics
    BY <1>1, <1>2, <1>3, <1>4, <1>12 DEF LoadTopics, Begin, me, Processes
  <2>3. \A pc \in {"start", "fetch", "failed", "next"} : Rank(pc) < Rank("topics")
    BY Ranks
  <2> QED
    BY <1>1, <1>6, <2>1, <2>2, <2>3, StepToTopics
<1>13. CASE NextTopic(p)
  <2>1. PICK k \in me.topics :
          you = [me EXCEPT !.topics = @ \ {k}, !.pc = "fetch", !.target = <<me.chat, k>>]
    BY <1>2, <1>13 DEF NextTopic, me
  <2>2. you.pc = "fetch" /\ you.chats = me.chats /\ you.topics = me.topics \ {k}
    BY <1>1, <2>1 DEF Processes
  <2> QED
    BY <1>1, <1>13, <2>2, StepToNextTopic DEF NextTopic, At, me
<1>14. CASE TopicsDone(p)
  BY <1>4, <1>6, <1>14, Ranks DEF TopicsDone, At, me
<1>15. CASE Fetch(p)
  <2>1. me.pc = "fetch"
    BY <1>15 DEF Fetch, At, me
  <2>2. TargetFails(p) \/ (you.pc = "entities" /\ you.chats = me.chats /\ you.topics = me.topics)
    BY <1>1, <1>2, <1>15 DEF Fetch, me, Processes
  <2> QED
    BY <1>6, <1>7, <2>1, <2>2, Ranks
<1>16. CASE SaveEntities(p)
  <2>1. me.pc = "entities"
    BY <1>16 DEF SaveEntities, At, me
  <2>2. TargetFails(p) \/ (you.pc = "messages" /\ you.chats = me.chats /\ you.topics = me.topics)
    BY <1>4, <1>16 DEF SaveEntities
  <2> QED
    BY <1>6, <1>7, <2>1, <2>2, Ranks
<1>17. CASE SaveMessages(p)
  <2>1. me.pc = "messages"
    BY <1>17 DEF SaveMessages, At, me
  <2>2. TargetFails(p) \/ (you.pc = "mark" /\ you.chats = me.chats /\ you.topics = me.topics)
    BY <1>1, <1>2, <1>17 DEF SaveMessages, me, Processes
  <2> QED
    BY <1>6, <1>7, <2>1, <2>2, Ranks
<1>18. CASE SkipMark(p) \/ MarkRead(p)
  <2>1. me.pc = "mark"
    BY <1>18 DEF SkipMark, MarkRead, At, me
  <2>2. PICK mark : Marked(p, mark)
    BY <1>18 DEF SkipMark, MarkRead
  <2>3. you.pc = "idle" \/ (you.pc = "item" /\ you.chats = me.chats /\ you.topics = me.topics)
    BY <1>1, <1>2, <1>3, <2>2 DEF Marked, me, Processes
  <2> QED
    BY <1>6, <2>1, <2>3, Ranks
<1>19. CASE AddItem(p) \/ AddFailedItem(p)
  <2>1. me.pc \in {"item", "failed"}
    BY <1>19 DEF AddItem, AddFailedItem, At, me
  <2>2. you.pc = Continue(me) /\ you.chats = me.chats /\ you.topics = me.topics
    BY <1>1, <1>2, <1>19 DEF AddItem, AddFailedItem, me, Processes
  <2> QED
    BY <1>5, <1>6, <2>1, <2>2, Ranks
<1>20. CASE FinishRun(p)
  BY <1>2, <1>3, <1>6, <1>20 DEF FinishRun, At, me
<1> QED
  BY <1>8, <1>9, <1>10, <1>11, <1>12, <1>13, <1>14, <1>15, <1>16, <1>17, <1>18, <1>19, <1>20
     DEF Work

LEMMA CommandsRunOutStep ==
  ASSUME TypeOK, TypeOK', [Next]_vars
  PROVE  CommandsRunOut
<1> SUFFICES ASSUME NEW p \in Procs
             PROVE  /\ StepsLeft(proc[p]) \in Nat /\ StepsLeft(proc'[p]) \in Nat
                    /\ proc[p].pc # "idle" => StepsLeft(proc'[p]) <= StepsLeft(proc[p])
                    /\ Work(p) => StepsLeft(proc'[p]) < StepsLeft(proc[p])
  BY DEF CommandsRunOut
<1>1. StepsLeft(proc[p]) \in Nat /\ StepsLeft(proc'[p]) \in Nat
  BY StepsAreNat DEF TypeOK
<1>2. CASE Work(p)
  BY <1>1, <1>2, WorkRunsOut
<1>3. CASE ~Work(p) /\ Interrupt(p)
  <2>1. Interrupt(p) => proc[p].pc # "idle"
    BY DEF Interrupt, Cancel, Crash, At
  <2>2. CASE Crash(p)
    <3>1. proc'[p] = Idle
      BY <2>2 DEF Crash, Become, TypeOK
    <3> QED
      BY <1>1, <1>3, <3>1 DEF Idle, StepsLeft
  <2>3. CASE Cancel(p)
    <3>1. proc'[p] = [proc[p] EXCEPT !.ctxDone = TRUE] /\ proc[p] \in Processes
      BY <2>3 DEF Cancel, Become, TypeOK
    <3>2. /\ proc'[p].pc = proc[p].pc /\ proc'[p].chats = proc[p].chats
          /\ proc'[p].topics = proc[p].topics
      BY <3>1 DEF Processes
    <3> QED
      BY <1>1, <1>3, <3>2 DEF StepsLeft
  <2> QED
    BY <1>3, <2>2, <2>3 DEF Interrupt
<1>4. CASE ~Work(p) /\ ~Interrupt(p) /\ proc[p].pc # "idle"
  <2>1. proc'[p] = proc[p]
    <3>1. CASE \E q \in Procs : Launch(q) \/ Work(q) \/ Interrupt(q)
      <4>1. PICK q \in Procs : Launch(q) \/ Work(q) \/ Interrupt(q)
        BY <3>1
      <4>2. q # p
        BY <1>4, <4>1 DEF Launch, At
      <4>3. \E next : proc' = [proc EXCEPT ![q] = next]
        BY <4>1 DEF Launch, Work, Interrupt, LoadDialogs, StartRun, NextChat, ChatsDone,
           LoadTopics, NextTopic, TopicsDone, Fetch, SaveEntities, SaveMessages, SkipMark,
           MarkRead, AddItem, AddFailedItem, FinishRun, Cancel, Crash, TargetFails, Marked,
           Become, Goto
      <4> QED
        BY <4>2, <4>3 DEF TypeOK
    <3>2. CASE \E t \in Targets : Post(t) \/ ReadElsewhere(t)
      BY <3>2 DEF Post, ReadElsewhere
    <3> QED
      BY <3>1, <3>2 DEF Next, vars
  <2> QED
    BY <1>1, <1>4, <2>1
<1> QED
  BY <1>1, <1>2, <1>3, <1>4

\* A command takes a bounded number of steps, whatever arrives, fails or is
\* done by other processes meanwhile: each step leaves it fewer.  This is what
\* CommandEnds rests on, without its fairness.
THEOREM BoundedCommands == Spec => [][CommandsRunOut]_vars
<1>1. TypeOK /\ TypeOK' /\ [Next]_vars => CommandsRunOut
  BY CommandsRunOutStep
<1> QED
  BY <1>1, TypeCorrect, PTL DEF Spec
==============================================================================
