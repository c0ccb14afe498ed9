--------------------------- MODULE TuiSessionProofs ---------------------------
(***************************************************************************)
(* For every set of chats, forums, topics and dates: the promises of the   *)
(* interactive program.  They follow from what is under way on each        *)
(* screen: at most one command that lists or waits for a fetch, whose      *)
(* message the screen that waits for it will get.                          *)
(***************************************************************************)
EXTENDS TuiSession, FiniteSetTheorems, TLAPS

IsPicker(p) ==
  p = [items |-> p.items, filter |-> p.filter, match |-> p.match, cursor |-> p.cursor,
       view |-> p.view, mode |-> p.mode, since |-> p.since, until |-> p.until,
       selected |-> p.selected, done |-> p.done, canceled |-> p.canceled]

IsFetch(f) ==
  /\ f = [pc |-> f.pc, target |-> f.target, dates |-> f.dates, stop |-> f.stop,
          cancelled |-> f.cancelled, result |-> f.result]
  /\ f.pc \in {"none", "running", "returned"}

IsOptions(o) == o = [dates |-> o.dates, since |-> o.since, until |-> o.until]

\* The dates of a range are known where they are used or kept.
DatesKnown(p) ==
  /\ p.mode = "dates" => p.since # 0 /\ p.until # 0
  /\ p.view = "until" => p.since # 0

\* A list that is left for a fetch is not shown again.
LeftForForum(p) == p.done /\ ~p.canceled => p.selected \in Forums
-----------------------------------------------------------------------------
(* The picker *)

LEMMA NewModelFacts ==
  ASSUME NEW mode, NEW since, NEW until
  PROVE  LET p == NewModel(mode, since, until)
         IN  /\ IsPicker(p) /\ p.mode = mode /\ p.since = since /\ p.until = until
             /\ p.view = "list" /\ ~p.done
BY DEF NewModel, IsPicker

LEMMA FirstPickerFacts ==
  ASSUME NEW p \in FirstPickers
  PROVE  IsPicker(p) /\ DatesKnown(p) /\ ~p.done
<1>1. CASE p = NewModel("unread", 0, 0)
  BY <1>1, NewModelFacts DEF DatesKnown
<1>2. CASE \E r \in Days \X Days : p = NewModel("dates", r[1], r[2])
  <2>1. PICK r \in Days \X Days : p = NewModel("dates", r[1], r[2])
    BY <1>2
  <2>2. r[1] # 0 /\ r[2] # 0
    BY PickerAssumption
  <2> QED
    BY <2>1, <2>2, NewModelFacts DEF DatesKnown
<1> QED
  BY <1>1, <1>2 DEF FirstPickers

\* What a key of the chat list changes.
LEMMA ChatListFacts ==
  ASSUME NEW p, IsPicker(p), NEW key, NEW q \in ChatListKeys(p, key)
  PROVE  /\ IsPicker(q) /\ q.mode = p.mode /\ q.since = p.since /\ q.until = p.until
         /\ q.view \in {p.view, "modes"}
         /\ \/ q.done = p.done /\ q.canceled = p.canceled /\ q.selected = p.selected
            \/ q.done /\ q.canceled
            \/ key = "enter"
<1>1. CASE q = Cancel(p)
  BY <1>1 DEF Cancel, IsPicker
<1>2. CASE q = [p EXCEPT !.view = "modes"]
  BY <1>2 DEF IsPicker
<1>3. CASE key = "enter" /\ q = Select(p)
  <2>1. PICK s : q = [p EXCEPT !.done = TRUE, !.selected = s]
    BY <1>3 DEF Select
  <2> QED
    BY <1>3, <2>1 DEF IsPicker
<1>4. CASE q \in HandleMarkAsRead(p)
  <2>1. q = p \/ \E items, match : q = [p EXCEPT !.items = items, !.match = match]
    <3>1. CASE q = p
      BY <3>1
    <3>2. CASE q # p
      <4>1. q = Marked(p, Index(p), SelectedItem(p), TRUE)
        BY <1>4, <3>2 DEF HandleMarkAsRead, Marked
      <4>2. q = [p EXCEPT !.items = [p.items EXCEPT ![Index(p)] =
                                       [chat |-> SelectedItem(p), unread |-> FALSE]],
                          !.match = <<>>]
        BY <4>1 DEF Marked, IsPicker
      <4> QED
        BY <4>2
    <3> QED
      BY <3>1, <3>2
  <2> QED
    BY <2>1 DEF IsPicker
<1>5. CASE q \in UpdateList(p, key)
  <2>1. CASE q = p
    BY <2>1
  <2>2. CASE q = AcceptFilter(p)
    BY <2>2 DEF AcceptFilter, IsPicker
  <2>3. CASE q \in Matches(p)
    BY <2>3 DEF Matches, IsPicker
  <2>4. CASE q = StartFilter(p)
    BY <2>4 DEF StartFilter, IsPicker
  <2>5. CASE q = [p EXCEPT !.cursor = @ + 1] \/ q = [p EXCEPT !.cursor = @ - 1]
    BY <2>5 DEF IsPicker
  <2> QED
    BY <1>5, <2>1, <2>2, <2>3, <2>4, <2>5 DEF UpdateList
<1> QED
  BY <1>1, <1>2, <1>3, <1>4, <1>5 DEF ChatListKeys

\* Whatever key: the dates of a range stay known, and only enter or leaving
\* changes what was selected.
LEMMA PressedFacts ==
  ASSUME NEW p, IsPicker(p), DatesKnown(p), NEW key, NEW q \in Pressed(p, key)
  PROVE  /\ IsPicker(q) /\ DatesKnown(q)
         /\ \/ q.done = p.done /\ q.canceled = p.canceled /\ q.selected = p.selected
            \/ q.done /\ q.canceled
            \/ key = "enter"
<1>1. CASE p.view = "modes"
  <2>1. \/ q = p \/ q = [p EXCEPT !.view = "list"] \/ q = [p EXCEPT !.view = "since"]
        \/ q = [p EXCEPT !.view = "list", !.mode = "unread"]
    BY <1>1 DEF Pressed, ModeListKeys
  <2> QED
    BY <2>1 DEF IsPicker, DatesKnown
<1>2. CASE p.view = "since"
  <2>1. CASE q = p \/ q = [p EXCEPT !.view = "list"]
    BY <2>1 DEF IsPicker, DatesKnown
  <2>2. CASE \E day \in Days : q = SinceEntered(p, day)
    <3>1. PICK day \in Days : q = SinceEntered(p, day)
      BY <2>2
    <3>2. day # 0
      BY PickerAssumption
    <3> QED
      BY <3>1, <3>2 DEF SinceEntered, IsPicker, DatesKnown
  <2> QED
    BY <1>2, <2>1, <2>2 DEF Pressed, SinceInputKeys
<1>3. CASE p.view = "until"
  <2>1. CASE q = p \/ q = [p EXCEPT !.view = "list"]
    BY <2>1 DEF IsPicker, DatesKnown
  <2>2. CASE \E day \in Days \cup {Today} : q = UntilEntered(p, day)
    <3>1. PICK day \in Days \cup {Today} : q = UntilEntered(p, day)
      BY <2>2
    <3>2. day # 0
      BY PickerAssumption
    <3> QED
      BY <1>3, <3>1, <3>2 DEF UntilEntered, IsPicker, DatesKnown
  <2> QED
    BY <1>3, <2>1, <2>2 DEF Pressed, UntilInputKeys
<1>4. CASE p.view \notin {"modes", "since", "until"}
  <2>1. q \in ChatListKeys(p, key)
    BY <1>4 DEF Pressed
  <2> QED
    BY <1>4, <2>1, ChatListFacts DEF DatesKnown
<1> QED
  BY <1>1, <1>2, <1>3, <1>4
-----------------------------------------------------------------------------
(* What is under way *)

\* A fetch is waited for by one command, until its result is handled.
FetchIsAwaited == fetch.pc # "none" <=> "result" \in inbox

\* Chats, topics and a result are never under way together.
OneAtATime ==
  /\ ~("chats" \in inbox /\ "topics" \in inbox)
  /\ ~("chats" \in inbox /\ "result" \in inbox)
  /\ ~("topics" \in inbox /\ "result" \in inbox)

\* A screen that waits has what it waits for, the others have nothing.
ScreenWaits ==
  /\ state = "loadingChats" => "chats" \in inbox
  /\ state = "loadingTopics" => "topics" \in inbox
  /\ state = "progress" => "result" \in inbox
  /\ state = "exit" => "quit" \in inbox \/ ~running
  /\ state \in {"chatList", "topicList", "summary", "message"} =>
       inbox \cap {"chats", "topics", "result"} = {}
  /\ state \in {"loadingChats", "chatList", "loadingTopics", "topicList", "progress",
                "summary", "message", "exit"}

\* What a fetch was started for is still selected.
RequestKept == fetch.pc # "none" => fetch.target = chosen /\ fetch.dates = opts.dates

IInv ==
  /\ IsPicker(picker) /\ DatesKnown(picker) /\ IsFetch(fetch) /\ IsOptions(opts)
  /\ opts.dates => opts.since # 0 /\ opts.until # 0
  /\ FetchIsAwaited /\ OneAtATime /\ ScreenWaits /\ RequestKept
  /\ FetchIsReachable /\ ResultMatchesRequest
  /\ state \in {"chatList", "topicList"} \/ "topics" \in inbox => LeftForForum(picker)

LEMMA InitIInv == Init => IInv
<1> SUFFICES ASSUME Init PROVE IInv
  OBVIOUS
<1>1. IsPicker(picker) /\ DatesKnown(picker) /\ ~picker.done
  BY FirstPickerFacts DEF Init
<1>2. IsFetch(fetch) /\ fetch.pc = "none"
  BY DEF Init, Idle, IsFetch
<1>3. IsOptions(opts) /\ (opts.dates => opts.since # 0 /\ opts.until # 0)
  BY <1>1 DEF Init, IsOptions, DatesKnown
<1>4. state = "loadingChats" /\ inbox = {"chats"}
  BY DEF Init
<1>5. FetchIsAwaited /\ OneAtATime /\ ScreenWaits /\ RequestKept
  BY <1>2, <1>4 DEF FetchIsAwaited, OneAtATime, ScreenWaits, RequestKept
<1>6. FetchIsReachable /\ ResultMatchesRequest
  BY <1>2 DEF Init, FetchIsReachable, ResultMatchesRequest
<1> QED
  BY <1>1, <1>2, <1>3, <1>4, <1>5, <1>6 DEF IInv, LeftForForum

\* The start of a fetch, from a screen where nothing is under way.
LEMMA StartFacts ==
  ASSUME NEW target, NEW dates, StartFetch(target, dates)
  PROVE  /\ fetch' = [pc |-> "running", target |-> target, dates |-> dates, stop |-> FALSE,
                      cancelled |-> FALSE, result |-> "none"]
         /\ handle' = TRUE /\ state' = "progress" /\ inbox' = inbox \cup {"result"}
BY DEF StartFetch, Started, Show, Send, FetchCmds

\* A turn of the chat list, after a key or without one.
LEMMA PickerStep ==
  ASSUME IInv, state = "chatList", UNCHANGED <<topic, saved, running>>,
         IsPicker(picker'), DatesKnown(picker'),
         NEW quits, AfterPicker(picker', quits)
  PROVE  IInv'
<1>0. /\ inbox \cap {"chats", "topics", "result"} = {} /\ fetch.pc = "none"
      /\ ResultMatchesRequest'
  BY DEF IInv, ScreenWaits, FetchIsAwaited, ResultMatchesRequest
<1>1. CASE /\ ~picker'.done /\ inbox' \in {inbox, inbox \cup {"quit"}}
           /\ UNCHANGED <<state, next, chosen, opts, handle, fetch>>
  <2>1. FetchIsAwaited' /\ OneAtATime' /\ ScreenWaits' /\ RequestKept' /\ FetchIsReachable'
    BY <1>0, <1>1 DEF FetchIsAwaited, OneAtATime, ScreenWaits, RequestKept, FetchIsReachable
  <2> QED
    BY <1>0, <1>1, <2>1 DEF IInv, LeftForForum
<1>2. CASE /\ state' = "exit" /\ inbox' = inbox \cup {"quit"}
           /\ UNCHANGED <<chosen, opts, handle, fetch>>
  <2>1. FetchIsAwaited' /\ OneAtATime' /\ ScreenWaits' /\ RequestKept' /\ FetchIsReachable'
    BY <1>0, <1>2 DEF FetchIsAwaited, OneAtATime, ScreenWaits, RequestKept, FetchIsReachable
  <2> QED
    BY <1>0, <1>2, <2>1 DEF IInv
<1>3. CASE /\ state' = "message" /\ inbox' = inbox
           /\ UNCHANGED <<chosen, opts, handle, fetch>>
  <2>1. FetchIsAwaited' /\ OneAtATime' /\ ScreenWaits' /\ RequestKept' /\ FetchIsReachable'
    BY <1>0, <1>3 DEF FetchIsAwaited, OneAtATime, ScreenWaits, RequestKept, FetchIsReachable
  <2> QED
    BY <1>0, <1>3, <2>1 DEF IInv
<1>4. ASSUME opts' = AppliedMode(picker')
      PROVE  IsOptions(opts') /\ (opts'.dates => opts'.since # 0 /\ opts'.until # 0)
  <2>1. CASE picker'.mode = "dates"
    BY <1>4, <2>1 DEF AppliedMode, IsOptions, DatesKnown
  <2>2. CASE picker'.mode # "dates"
    <3>1. opts' = [opts EXCEPT !.dates = FALSE]
      BY <1>4, <2>2 DEF AppliedMode
    <3> QED
      BY <3>1 DEF IInv, IsOptions
  <2> QED
    BY <2>1, <2>2
<1>5. CASE /\ picker'.selected \in Forums /\ opts' = AppliedMode(picker')
           /\ state' = "loadingTopics" /\ inbox' = inbox \cup {"topics"}
           /\ UNCHANGED <<handle, fetch>>
  <2>1. FetchIsAwaited' /\ OneAtATime' /\ ScreenWaits' /\ RequestKept' /\ FetchIsReachable'
    BY <1>0, <1>5 DEF FetchIsAwaited, OneAtATime, ScreenWaits, RequestKept, FetchIsReachable
  <2> QED
    BY <1>0, <1>4, <1>5, <2>1 DEF IInv, LeftForForum
<1>6. CASE opts' = AppliedMode(picker') /\ StartFetch(chosen', opts'.dates)
  <2>1. /\ fetch' = [pc |-> "running", target |-> chosen', dates |-> opts'.dates,
                     stop |-> FALSE, cancelled |-> FALSE, result |-> "none"]
        /\ handle' = TRUE /\ state' = "progress" /\ inbox' = inbox \cup {"result"}
    BY <1>6, StartFacts
  <2>2. IsFetch(fetch') /\ fetch'.pc = "running"
    BY <2>1 DEF IsFetch
  <2>3. FetchIsAwaited' /\ OneAtATime' /\ ScreenWaits' /\ RequestKept' /\ FetchIsReachable'
    BY <1>0, <2>1 DEF FetchIsAwaited, OneAtATime, ScreenWaits, RequestKept, FetchIsReachable
  <2>4. "topics" \notin inbox' /\ state' \notin {"chatList", "topicList"}
    BY <1>0, <2>1
  <2> QED
    BY <1>0, <1>4, <1>6, <2>2, <2>3, <2>4 DEF IInv
<1> QED
  BY <1>1, <1>2, <1>3, <1>5, <1>6 DEF AfterPicker, Show, SetMessage, Send, QuitCmds

LEMMA KeyStep ==
  ASSUME IInv, NEW key \in Keys, Key(key)
  PROVE  IInv'
<1>0. UNCHANGED <<saved, running>> /\ ResultMatchesRequest'
  BY DEF Key, IInv, ResultMatchesRequest
<1>1. CASE ChatListKey(key)
  <2>1. picker' \in Pressed(picker, key) /\ state = "chatList" /\ UNCHANGED topic
    BY <1>1 DEF ChatListKey
  <2>2. IsPicker(picker') /\ DatesKnown(picker')
    BY <2>1, PressedFacts DEF IInv
  <2>3. AfterPicker(picker', QuitsProgram(picker, key))
    BY <1>1 DEF ChatListKey
  <2> QED
    BY <1>0, <2>1, <2>2, <2>3, PickerStep
<1>2. CASE TopicListKey(key)
  <2>0. /\ state = "topicList" /\ UNCHANGED <<picker, opts>>
        /\ inbox \cap {"chats", "topics", "result"} = {} /\ fetch.pc = "none"
    BY <1>2 DEF TopicListKey, IInv, ScreenWaits, FetchIsAwaited
  <2>1. CASE /\ state' \in {"chatList", "message"} /\ inbox' = inbox
             /\ UNCHANGED <<handle, fetch>>
    <3>1. FetchIsAwaited' /\ OneAtATime' /\ ScreenWaits' /\ RequestKept' /\ FetchIsReachable'
      BY <2>0, <2>1 DEF FetchIsAwaited, OneAtATime, ScreenWaits, RequestKept, FetchIsReachable
    <3> QED
      BY <1>0, <2>0, <2>1, <3>1 DEF IInv
  <2>2. CASE StartFetch(chosen', opts.dates)
    <3>1. /\ fetch' = [pc |-> "running", target |-> chosen', dates |-> opts.dates,
                       stop |-> FALSE, cancelled |-> FALSE, result |-> "none"]
          /\ handle' = TRUE /\ state' = "progress" /\ inbox' = inbox \cup {"result"}
      BY <2>2, StartFacts
    <3>2. IsFetch(fetch')
      BY <3>1 DEF IsFetch
    <3>3. FetchIsAwaited' /\ OneAtATime' /\ ScreenWaits' /\ RequestKept' /\ FetchIsReachable'
      BY <1>0, <2>0, <3>1 DEF FetchIsAwaited, OneAtATime, ScreenWaits, RequestKept, FetchIsReachable
    <3>4. "topics" \notin inbox' /\ state' \notin {"chatList", "topicList"}
      BY <2>0, <3>1
    <3> QED
      BY <1>0, <2>0, <3>2, <3>3, <3>4 DEF IInv
  <2> QED
    BY <1>2, <2>1, <2>2 DEF TopicListKey, Show, SetMessage, Send
<1>3. CASE ProgressKey(key)
  <2>1. /\ state = "progress" /\ state' = "progress" /\ inbox' = inbox
        /\ UNCHANGED <<models, chosen, opts, handle>>
        /\ fetch' \in {fetch, [fetch EXCEPT !.stop = TRUE]}
    BY <1>3 DEF ProgressKey, Show, AfterStop, Send
  <2>2. /\ IsFetch(fetch') /\ fetch'.pc = fetch.pc /\ fetch'.target = fetch.target
        /\ fetch'.dates = fetch.dates /\ fetch'.cancelled = fetch.cancelled
    BY <2>1 DEF IInv, IsFetch
  <2>3. FetchIsAwaited' /\ OneAtATime' /\ ScreenWaits' /\ RequestKept' /\ FetchIsReachable'
    BY <1>0, <2>1, <2>2 DEF IInv, FetchIsAwaited, OneAtATime, ScreenWaits, RequestKept, FetchIsReachable
  <2> QED
    BY <1>0, <2>1, <2>2, <2>3 DEF IInv, models
<1>4. CASE ConfirmKey(key)
  <2>1. /\ state \in {"summary", "message"} /\ UNCHANGED <<models, chosen, opts, handle, fetch>>
        /\ \/ state' = "exit" /\ inbox' = inbox \cup {"quit"}
           \/ state' = "loadingChats" /\ inbox' = inbox \cup {"chats"}
    BY <1>4 DEF ConfirmKey, FetchChats, Show, Send, QuitCmds
  <2>2. fetch.pc = "none"
    BY <2>1 DEF IInv, ScreenWaits, FetchIsAwaited
  <2>3. FetchIsAwaited' /\ OneAtATime' /\ ScreenWaits' /\ RequestKept' /\ FetchIsReachable'
    BY <1>0, <2>1, <2>2 DEF IInv, FetchIsAwaited, OneAtATime, ScreenWaits, RequestKept, FetchIsReachable
  <2>4. "topics" \notin inbox' /\ state' \notin {"chatList", "topicList"}
    BY <2>1 DEF IInv, ScreenWaits
  <2> QED
    BY <1>0, <2>1, <2>3, <2>4 DEF IInv, models
<1> QED
  BY <1>1, <1>2, <1>3, <1>4 DEF Key

LEMMA UserStep == IInv /\ User => IInv'
<1> SUFFICES ASSUME IInv, User PROVE IInv'
  OBVIOUS
<1>1. CASE CtrlC
  <2>1. /\ state' = "exit" /\ inbox' = inbox \cup {"quit"}
        /\ UNCHANGED <<models, chosen, opts, saved, running>>
        /\ \/ fetch' = [fetch EXCEPT !.cancelled = TRUE]
           \/ fetch' = fetch /\ ~handle
    BY <1>1 DEF CtrlC, Show, Send, QuitCmds
  <2>2. /\ IsFetch(fetch') /\ fetch'.pc = fetch.pc /\ fetch'.target = fetch.target
        /\ fetch'.dates = fetch.dates /\ (fetch'.pc # "none" => fetch'.cancelled)
    BY <2>1 DEF IInv, IsFetch, FetchIsReachable
  <2>3. FetchIsAwaited' /\ OneAtATime' /\ ScreenWaits' /\ RequestKept' /\ FetchIsReachable'
    BY <2>1, <2>2 DEF IInv, FetchIsAwaited, OneAtATime, ScreenWaits, RequestKept, FetchIsReachable
  <2> QED
    BY <2>1, <2>2, <2>3 DEF IInv, models, ResultMatchesRequest, LeftForForum
<1>2. CASE OtherMessage
  <2>1. AfterPicker(picker', FALSE) /\ state = "chatList" /\ UNCHANGED <<models, saved, running>>
    BY <1>2 DEF OtherMessage, models
  <2>2. IsPicker(picker') /\ DatesKnown(picker')
    BY <2>1 DEF IInv, models
  <2> QED
    BY <2>1, <2>2, PickerStep DEF models
<1>3. CASE \E key \in Keys : Key(key)
  BY <1>3, KeyStep
<1> QED
  BY <1>1, <1>2, <1>3 DEF User

LEMMA ProgramStep == IInv /\ Program => IInv'
<1> SUFFICES ASSUME IInv, Program PROVE IInv'
  OBVIOUS
<1>1. CASE ChatsLoaded
  <2>1. /\ "chats" \in inbox /\ inbox' = inbox \ {"chats"} /\ fetch.pc = "none"
        /\ UNCHANGED <<topic, chosen, opts, handle, fetch, saved, running>>
    BY <1>1 DEF ChatsLoaded, Receive, IInv, FetchIsAwaited, OneAtATime
  <2>2. \/ state' = "message" /\ UNCHANGED picker
        \/ state' = "chatList" /\ IsPicker(picker') /\ DatesKnown(picker') /\ ~picker'.done
    <3>1. CASE opts.dates /\ picker' = NewModel("dates", opts.since, opts.until)
      BY <1>1, <3>1, NewModelFacts DEF ChatsLoaded, Show, SetMessage, DatesKnown, IInv
    <3>2. CASE picker' = NewModel("unread", 0, 0)
      BY <1>1, <3>2, NewModelFacts DEF ChatsLoaded, Show, SetMessage, DatesKnown
    <3> QED
      BY <1>1, <3>1, <3>2 DEF ChatsLoaded, SetMessage, Show
  <2>3. FetchIsAwaited' /\ OneAtATime' /\ ScreenWaits' /\ RequestKept' /\ FetchIsReachable'
    BY <2>1, <2>2 DEF IInv, FetchIsAwaited, OneAtATime, ScreenWaits, RequestKept, FetchIsReachable
  <2>4. "topics" \notin inbox'
    BY <2>1 DEF IInv, OneAtATime
  <2> QED
    BY <2>1, <2>2, <2>3, <2>4 DEF IInv, ResultMatchesRequest, LeftForForum
<1>2. CASE TopicsLoaded
  <2>1. /\ "topics" \in inbox /\ inbox' = inbox \ {"topics"} /\ fetch.pc = "none"
        /\ state' \in {"message", "topicList"}
        /\ UNCHANGED <<picker, chosen, opts, handle, fetch, saved, running>>
    BY <1>2 DEF TopicsLoaded, Receive, IInv, FetchIsAwaited, OneAtATime, SetMessage, Show
  <2>2. FetchIsAwaited' /\ OneAtATime' /\ ScreenWaits' /\ RequestKept' /\ FetchIsReachable'
    BY <2>1 DEF IInv, FetchIsAwaited, OneAtATime, ScreenWaits, RequestKept, FetchIsReachable
  <2> QED
    BY <2>1, <2>2 DEF IInv, ResultMatchesRequest, LeftForForum
<1>3. CASE FetchResult
  <2>1. /\ "result" \in inbox /\ inbox' = inbox \ {"result"} /\ fetch.pc = "returned"
        /\ fetch' = Idle /\ state' \in {"message", "summary"}
        /\ saved' \in {saved, SavedAs(fetch.result)}
        /\ UNCHANGED <<models, chosen, opts, running>>
    BY <1>3 DEF FetchResult, Receive, SetMessage, Show
  <2>2. IsFetch(fetch') /\ fetch'.pc = "none"
    BY <2>1 DEF IsFetch, Idle
  <2>3. FetchIsAwaited' /\ OneAtATime' /\ ScreenWaits' /\ RequestKept' /\ FetchIsReachable'
    BY <2>1, <2>2 DEF IInv, FetchIsAwaited, OneAtATime, ScreenWaits, RequestKept, FetchIsReachable
  <2>4. ResultMatchesRequest'
    <3>1. CASE saved' = saved
      BY <3>1 DEF IInv, ResultMatchesRequest
    <3>2. CASE saved' = SavedAs(fetch.result)
      <4> DEFINE marks == Marks(fetch.result, opts.dates)
      <4>1. fetch.target = chosen /\ fetch.dates = opts.dates
        BY <2>1 DEF IInv, RequestKept
      <4>2. marks => ~opts.dates
        BY DEF Marks
      <4> HIDE DEF marks
      <4>3. saved' = [of |-> fetch.target, ofDates |-> fetch.dates, under |-> chosen,
                      marked |-> marks]
        BY <3>2 DEF SavedAs, marks
      <4>4. /\ saved'.of = fetch.target /\ saved'.ofDates = fetch.dates
            /\ saved'.under = chosen /\ saved'.marked = marks
        BY <4>3
      <4> QED
        BY <4>1, <4>2, <4>4, Zenon DEF ResultMatchesRequest
    <3> QED
      BY <2>1, <3>1, <3>2
  <2>5. "topics" \notin inbox' /\ state' \notin {"chatList", "topicList"}
    BY <2>1 DEF IInv, OneAtATime
  <2> QED
    BY <2>1, <2>2, <2>3, <2>4, <2>5 DEF IInv, models
<1>4. CASE Quit
  <2>1. /\ inbox' = inbox \ {"quit"} /\ ~running'
        /\ UNCHANGED <<models, state, next, chosen, opts, handle, fetch, saved>>
    BY <1>4 DEF Quit, Receive
  <2>2. FetchIsAwaited' /\ OneAtATime' /\ ScreenWaits' /\ RequestKept' /\ FetchIsReachable'
    BY <2>1 DEF IInv, FetchIsAwaited, OneAtATime, ScreenWaits, RequestKept, FetchIsReachable
  <2> QED
    BY <2>1, <2>2 DEF IInv, models, ResultMatchesRequest, LeftForForum
<1>5. CASE FetchReturns
  <2>1. PICK result \in Results : fetch' = [fetch EXCEPT !.pc = "returned", !.result = result]
    BY <1>5 DEF FetchReturns
  <2>2. /\ fetch.pc = "running"
        /\ UNCHANGED <<models, state, next, chosen, opts, handle, inbox, saved, input, running>>
    BY <1>5 DEF FetchReturns
  <2>3. /\ IsFetch(fetch') /\ fetch'.pc = "returned" /\ fetch'.target = fetch.target
        /\ fetch'.dates = fetch.dates /\ fetch'.cancelled = fetch.cancelled
    BY <2>1 DEF IInv, IsFetch
  <2>4. FetchIsAwaited' /\ OneAtATime' /\ ScreenWaits' /\ RequestKept' /\ FetchIsReachable'
    BY <2>2, <2>3 DEF IInv, FetchIsAwaited, OneAtATime, ScreenWaits, RequestKept, FetchIsReachable
  <2> QED
    BY <2>2, <2>3, <2>4 DEF IInv, models, ResultMatchesRequest, LeftForForum
<1> QED
  BY <1>1, <1>2, <1>3, <1>4, <1>5 DEF Program

LEMMA StepIInv == IInv /\ [Next]_vars => IInv'
<1>1. ASSUME IInv, UNCHANGED vars PROVE IInv'
  BY <1>1 DEF IInv, LeftForForum, ResultMatchesRequest, FetchIsAwaited, OneAtATime, ScreenWaits, RequestKept, FetchIsReachable, vars
<1> QED
  BY <1>1, UserStep, ProgramStep DEF Next
-----------------------------------------------------------------------------
(* What follows *)

\* Whatever keys and orders of messages: a result is saved under the chat, the
\* topic and the mode it was fetched for.
THEOREM ResultsMatch == Spec => []ResultMatchesRequest
<1>1. IInv => ResultMatchesRequest
  BY DEF IInv
<1> QED
  BY InitIInv, StepIInv, <1>1, PTL DEF Spec

\* A fetch that runs and was not cancelled is on the screen, with its handle.
THEOREM FetchReachable == Spec => []FetchIsReachable
<1>1. IInv => FetchIsReachable
  BY DEF IInv
<1> QED
  BY InitIInv, StepIInv, <1>1, PTL DEF Spec

\* A screen that waits has a command whose message will come.
THEOREM WaitsAreAnswered == Spec => []NeverStuck
<1>1. IInv => NeverStuck
  BY DEF IInv, ScreenWaits, NeverStuck
<1> QED
  BY InitIInv, StepIInv, <1>1, PTL DEF Spec

\* The unlocked caches of peers have one user at a time.
THEOREM CachesHaveOneUser == Spec => []OneCacheUser
<1>1. IInv => OneCacheUser
  <2> SUFFICES ASSUME IInv PROVE OneCacheUser
    OBVIOUS
  <2>1. /\ fetch.pc # "none" => CacheCommands \subseteq {"fetch"}
        /\ fetch.pc = "none" => CacheCommands = inbox \cap {"chats", "topics"}
    BY DEF CacheCommands, IInv, FetchIsAwaited, OneAtATime
  <2>2. \E m : CacheCommands \subseteq {m}
    <3>1. CASE fetch.pc # "none"
      BY <2>1, <3>1
    <3>2. CASE fetch.pc = "none" /\ "chats" \in inbox
      BY <2>1, <3>2 DEF IInv, OneAtATime
    <3>3. CASE fetch.pc = "none" /\ "chats" \notin inbox
      BY <2>1, <3>3
    <3> QED
      BY <3>1, <3>2, <3>3
  <2>3. Cardinality(CacheCommands) <= 1
    <3>1. PICK m : CacheCommands \subseteq {m}
      BY <2>2
    <3>2. CacheCommands = {} \/ CacheCommands = {m}
      BY <3>1
    <3>3. Cardinality({}) = 0 /\ Cardinality({m}) = 1
      BY FS_EmptySet, FS_Singleton
    <3>4. CASE CacheCommands = {}
      BY <3>3, <3>4
    <3>5. CASE CacheCommands = {m}
      BY <3>3, <3>5
    <3> QED
      BY <3>2, <3>4, <3>5
  <2>4. state = "chatList" \/ fetch.pc = "returned" => CacheCommands = {}
    BY DEF CacheCommands, IInv, ScreenWaits, FetchIsAwaited, OneAtATime
  <2> QED
    BY <2>3, <2>4 DEF OneCacheUser
<1> QED
  BY InitIInv, StepIInv, <1>1, PTL DEF Spec

\* The mode is by date only when both dates are known.
THEOREM RangesAreKnown == Spec => []ModeHasRange
<1>1. IInv => ModeHasRange
  BY DEF IInv, DatesKnown, ModeHasRange
<1> QED
  BY InitIInv, StepIInv, <1>1, PTL DEF Spec

\* Nothing but enter starts a fetch: a list that was left for a chat is never
\* shown again, one that was left for a forum leads to its topics.
THEOREM EnterStartsFetches == Spec => FetchNeedsEnter
<1>1. ASSUME IInv, fetch.pc = "none", fetch'.pc = "running", NEW quits,
             state = "chatList", AfterPicker(picker', quits),
             LeftForForum(picker')
      PROVE  FALSE
  <2>1. fetch' # fetch
    BY <1>1
  <2> QED
    BY <1>1, <2>1 DEF AfterPicker, LeftForForum
<1>2. IInv /\ [Next]_vars => [fetch.pc = "none" /\ fetch'.pc = "running" => input' = "enter"]_vars
  <2> SUFFICES ASSUME IInv, Next, fetch.pc = "none", fetch'.pc = "running"
               PROVE  input' = "enter"
    OBVIOUS
  <2>1. CASE \E key \in Keys : Key(key)
    <3>1. PICK key \in Keys : Key(key)
      BY <2>1
    <3>2. input' = key
      BY <3>1 DEF Key
    <3>3. CASE ChatListKey(key) /\ key # "enter"
      <4>1. state = "chatList" /\ picker' \in Pressed(picker, key)
        BY <3>3 DEF ChatListKey
      <4>2. \/ /\ picker'.done = picker.done /\ picker'.canceled = picker.canceled
               /\ picker'.selected = picker.selected
            \/ picker'.done /\ picker'.canceled
        BY <3>3, <4>1, PressedFacts DEF IInv
      <4>3. LeftForForum(picker')
        BY <4>1, <4>2 DEF IInv, LeftForForum
      <4>4. AfterPicker(picker', QuitsProgram(picker, key))
        BY <3>3 DEF ChatListKey
      <4> QED
        BY <1>1, <4>1, <4>3, <4>4
    <3>4. CASE TopicListKey(key) /\ key # "enter"
      BY <3>4 DEF TopicListKey
    <3>5. CASE ProgressKey(key)
      <4>1. fetch' \in {fetch, [fetch EXCEPT !.stop = TRUE]}
        BY <3>5 DEF ProgressKey
      <4> QED
        BY <4>1 DEF IInv, IsFetch
    <3>6. CASE ConfirmKey(key)
      BY <3>6 DEF ConfirmKey
    <3> QED
      BY <3>1, <3>2, <3>3, <3>4, <3>5, <3>6 DEF Key
  <2>2. CASE OtherMessage
    BY <1>1, <2>2 DEF OtherMessage, models, IInv
  <2>3. CASE CtrlC
    <3>1. fetch' \in {fetch, [fetch EXCEPT !.cancelled = TRUE]}
      BY <2>3 DEF CtrlC
    <3> QED
      BY <3>1 DEF IInv, IsFetch
  <2>4. CASE ChatsLoaded \/ TopicsLoaded \/ Quit \/ FetchReturns
    BY <2>4 DEF ChatsLoaded, TopicsLoaded, Quit, FetchReturns
  <2>5. CASE FetchResult
    BY <2>5 DEF FetchResult, Idle
  <2> QED
    BY <2>1, <2>2, <2>3, <2>4, <2>5 DEF Next, User, Program
<1> QED
  BY InitIInv, StepIInv, <1>2, PTL DEF Spec, FetchNeedsEnter
=============================================================================
