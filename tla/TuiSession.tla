------------------------------ MODULE TuiSession ------------------------------
(***************************************************************************)
(* The interactive program, internal/app appModel: one event loop handles  *)
(* keys and the messages that commands send, one goroutine fetches.  The   *)
(* commands (listing chats or topics, waiting for the fetch, quitting) run *)
(* concurrently and their messages are handled in any order, also after    *)
(* ctrl+c and before the message that ends the program.                    *)
(*                                                                         *)
(* Update is atomic: saving and marking are made inside of it.  Their own  *)
(* steps are in ArchiveRun and FetchRows, the walk in HistoryFetch. The    *)
(* spinner and the progress counters are left out.                         *)
(***************************************************************************)
EXTENDS ChatPicker

CONSTANTS
  Forums,  \* the chats that are forums
  Topics   \* the topics of each

ASSUME SessionAssumption ==
  /\ Forums \subseteq Chats /\ IsFiniteSet(Topics) /\ None \notin Topics
  /\ Topics # {}

VARIABLES
  state,    \* the screen
  next,     \* messageNext
  topic,    \* the topic list: done, canceled
  chosen,   \* selectedChat and selectedTopic
  opts,     \* UseDateRange, Since and Until of the options
  handle,   \* whether fetchHandle is set
  fetch,    \* the fetch goroutine and what it returned
  inbox,    \* messages of commands that were started and not yet handled
  saved,    \* the last result that was saved, and how
  input,    \* the last key or message
  running   \* whether the program runs

vars == <<picker, state, next, topic, chosen, opts, handle, fetch, inbox, saved, input, running>>
models == <<picker, topic>>

NoTarget == [chat |-> None, topic |-> None]
Idle == [pc |-> "none", target |-> NoTarget, dates |-> FALSE, stop |-> FALSE,
         cancelled |-> FALSE, result |-> "none"]
FreshTopic == [done |-> FALSE, canceled |-> FALSE]

\* The results of a fetch: an error, nothing, or texts that are complete, cut
\* by the message limit, or the prefix that was fetched before a stop.
Results == {"error", "none", "complete", "truncated", "stopped"}

\* Commands to be waited for, added to those that are.
Send(messages) == inbox' = inbox \cup messages

\* The message arrives.
Receive(m, messages) == inbox' = (inbox \ {m}) \cup messages

-----------------------------------------------------------------------------
(* Screens *)

Show(screen) == state' = screen /\ UNCHANGED next

SetMessage(then) == state' = "message" /\ next' = then

\* A slip for mutants: a command is not returned.
NoCmds == {}

QuitCmds == {"quit"}

FetchCmds == {"result"}

\* A slip for a mutant: the plan is built before the selection is stored.
StartedEarly(target, dates) ==
  [pc |-> "running", target |-> chosen, dates |-> opts.dates, stop |-> FALSE,
   cancelled |-> FALSE, result |-> "none"]

\* startFetch: buildFetchPlan cannot fail here, a forum has its topic.
Started(target, dates) ==
  [pc |-> "running", target |-> target, dates |-> dates, stop |-> FALSE,
   cancelled |-> FALSE, result |-> "none"]

StartFetch(target, dates) ==
  /\ fetch' = Started(target, dates)
  /\ handle' = TRUE
  /\ Show("progress")
  /\ Send(FetchCmds)

\* applyHistoryMode: without a range the dates of the options stay.
AppliedMode(p) ==
  IF p.mode = "dates" THEN [dates |-> TRUE, since |-> p.since, until |-> p.until]
  ELSE [opts EXCEPT !.dates = FALSE]

-----------------------------------------------------------------------------
(* Keys *)

\* Handled before any screen sees it.  The fetch is told through its context.
CtrlC ==
  /\ fetch' = IF handle THEN [fetch EXCEPT !.cancelled = TRUE] ELSE fetch
  /\ handle' = FALSE
  /\ Show("exit")
  /\ Send(QuitCmds)
  /\ input' = "ctrl+c"
  /\ UNCHANGED <<models, chosen, opts, saved, running>>

\* What the chat list says after a key, or after any other message it gets:
\* nobody resets done, so a list that was left once is left again.
AfterPicker(p, quits) ==
  \/ /\ ~p.done
     /\ Send(IF quits THEN QuitCmds ELSE {})
     /\ UNCHANGED <<state, next, chosen, opts, handle, fetch>>
  \/ /\ p.done /\ p.canceled
     /\ Show("exit") /\ Send(QuitCmds)
     /\ UNCHANGED <<chosen, opts, handle, fetch>>
  \/ /\ p.done /\ ~p.canceled /\ p.selected = None
     /\ SetMessage("exit") /\ Send({})
     /\ UNCHANGED <<chosen, opts, handle, fetch>>
  \/ /\ p.done /\ ~p.canceled /\ p.selected # None
     /\ chosen' = [chat |-> p.selected, topic |-> None]
     /\ opts' = AppliedMode(p)
     /\ \/ /\ p.selected \in Forums
           /\ Show("loadingTopics") /\ Send({"topics"})
           /\ UNCHANGED <<handle, fetch>>
        \/ /\ p.selected \notin Forums
           /\ StartFetch(chosen', opts'.dates)

ChatListKey(key) ==
  /\ state = "chatList"
  /\ picker' \in Pressed(picker, key)
  /\ AfterPicker(picker', QuitsProgram(picker, key))
  /\ UNCHANGED topic

\* The chat list also looks whether it is done after a resize of the window and
\* when its status line is cleared.
OtherMessage ==
  /\ state = "chatList"
  /\ AfterPicker(picker, FALSE)
  /\ input' = "other"
  /\ UNCHANGED <<models, saved, running>>

\* Enter while no topic is shown selects none.
TopicListKey(key) ==
  /\ state = "topicList"
  /\ \/ /\ key \in {"esc", "q"}
        /\ topic' = [done |-> TRUE, canceled |-> TRUE]
        /\ chosen' = [chosen EXCEPT !.topic = None]
        /\ Show("chatList") /\ Send({})
        /\ UNCHANGED <<handle, fetch>>
     \/ /\ key = "enter"
        /\ topic' = [topic EXCEPT !.done = TRUE]
        /\ \/ SetMessage("loadingChats") /\ Send({}) /\ UNCHANGED <<chosen, handle, fetch>>
           \/ \E t \in Topics :
                /\ chosen' = [chosen EXCEPT !.topic = t]
                /\ StartFetch(chosen', opts.dates)
  /\ UNCHANGED <<picker, opts>>

\* A slip for a mutant: q leaves the screen at once.
AfterStopChats == "chatList"

AfterStop == "progress"

\* stopFetch closes the stop channel once; the fetch ends by itself.
ProgressKey(key) ==
  /\ state = "progress" /\ key = "q"
  /\ fetch' = IF handle THEN [fetch EXCEPT !.stop = TRUE] ELSE fetch
  /\ Show(AfterStop) /\ Send({})
  /\ UNCHANGED <<models, chosen, opts, handle>>

\* Slips for mutants: the old list is shown again, or at once.
OldChats == Show("chatList") /\ Send({})
OldChatsMeanwhile == Show("chatList") /\ Send({"chats"})

\* The list is not shown again but fetched anew.
FetchChats == Show("loadingChats") /\ Send({"chats"})

\* From the summary back to the chats, from a message there or out.
ConfirmKey(key) ==
  /\ state \in {"summary", "message"} /\ key \in {"enter", "esc", "q"}
  /\ IF state = "message" /\ next = "exit"
     THEN Show("exit") /\ Send(QuitCmds)
     ELSE FetchChats
  /\ UNCHANGED <<models, chosen, opts, handle, fetch>>

Key(key) ==
  /\ ChatListKey(key) \/ TopicListKey(key) \/ ProgressKey(key) \/ ConfirmKey(key)
  /\ input' = key
  /\ UNCHANGED <<saved, running>>

-----------------------------------------------------------------------------
(* Messages *)

\* newChatModel starts in the mode of the options.
ChatsLoaded ==
  /\ "chats" \in inbox
  /\ \/ SetMessage("exit") /\ UNCHANGED picker
     \/ /\ picker' = IF opts.dates THEN NewModel("dates", opts.since, opts.until)
                     ELSE NewModel("unread", 0, 0)
        /\ Show("chatList")
  /\ Receive("chats", {})
  /\ input' = "chats"
  /\ UNCHANGED <<topic, chosen, opts, handle, fetch, saved, running>>

TopicsLoaded ==
  /\ "topics" \in inbox
  /\ \/ \E then \in {"exit", "loadingChats"} : SetMessage(then) /\ UNCHANGED topic
     \/ topic' = FreshTopic /\ Show("topicList")
  /\ Receive("topics", {})
  /\ input' = "topics"
  /\ UNCHANGED <<picker, chosen, opts, handle, fetch, saved, running>>

\* A stopped walk over unread messages is safe, one by date is not.
Marks(result, dates) == ~dates /\ result \in {"complete", "stopped"}

SavedAs(result) ==
  [of |-> fetch.target, ofDates |-> fetch.dates, under |-> chosen,
   marked |-> Marks(result, opts.dates)]

\* handleFetchResult: the result is saved under what is selected now, and
\* marked by the mode the options have now.  An error of the fetch ends in a
\* message, and so does one of saving.
FetchResult ==
  /\ "result" \in inbox /\ fetch.pc = "returned"
  /\ handle' = FALSE
  /\ fetch' = Idle
  /\ \/ SetMessage("exit") /\ UNCHANGED saved
     \/ /\ fetch.result = "none"
        /\ SetMessage("loadingChats") /\ UNCHANGED saved
     \/ /\ fetch.result \in {"complete", "truncated", "stopped"}
        /\ saved' = SavedAs(fetch.result)
        /\ Show("summary")
  /\ Receive("result", {})
  /\ input' = "result"
  /\ UNCHANGED <<models, chosen, opts, running>>

Quit ==
  /\ "quit" \in inbox
  /\ running' = FALSE
  /\ Receive("quit", {})
  /\ input' = "quit"
  /\ UNCHANGED <<models, state, next, chosen, opts, handle, fetch, saved>>

\* The goroutine: a cancelled walk fails unless it had all its answers, a
\* stopped one may still have been complete.
FetchReturns ==
  /\ fetch.pc = "running"
  /\ \E result \in Results :
       /\ result = "stopped" => fetch.stop
       /\ fetch' = [fetch EXCEPT !.pc = "returned", !.result = result]
  /\ UNCHANGED <<models, state, next, chosen, opts, handle, inbox, saved, input, running>>

-----------------------------------------------------------------------------
Init ==
  /\ picker \in FirstPickers
  /\ opts = [dates |-> picker.mode = "dates", since |-> picker.since, until |-> picker.until]
  /\ state = "loadingChats" /\ next = "loadingChats"
  /\ topic = FreshTopic
  /\ chosen = NoTarget
  /\ handle = FALSE /\ fetch = Idle
  /\ inbox = {"chats"}
  /\ saved = [of |-> NoTarget, ofDates |-> FALSE, under |-> NoTarget, marked |-> FALSE]
  /\ input = "none"
  /\ running = TRUE

User == running /\ (CtrlC \/ OtherMessage \/ \E key \in Keys : Key(key))

Program ==
  running /\ (ChatsLoaded \/ TopicsLoaded \/ FetchResult \/ Quit \/ FetchReturns)

Next == User \/ Program

Spec == Init /\ [][Next]_vars

\* Commands run on their own, the loop takes every message, and a fetch ends
\* (HistoryFetch); keys may come for ever or never.
FairSpec ==
  /\ Spec
  /\ WF_vars(running /\ ChatsLoaded) /\ WF_vars(running /\ TopicsLoaded)
  /\ WF_vars(running /\ FetchReturns) /\ WF_vars(running /\ FetchResult)
  /\ WF_vars(running /\ Quit)

-----------------------------------------------------------------------------
(* Properties *)

Targets == {t \in [chat : Chats \cup {None}, topic : Topics \cup {None}] :
              t.topic # None => t.chat \in Forums}

TypeOK ==
  /\ PickerTypeOK
  /\ state \in {"loadingChats", "chatList", "loadingTopics", "topicList", "progress",
                "summary", "message", "exit"}
  /\ next \in {"loadingChats", "exit"}
  /\ topic \in [done : BOOLEAN, canceled : BOOLEAN]
  /\ chosen \in Targets
  /\ opts \in [dates : BOOLEAN, since : Days \cup {0, Today}, until : Days \cup {0, Today}]
  /\ {handle, running} \subseteq BOOLEAN
  /\ fetch \in [pc : {"none", "running", "returned"}, target : Targets, dates : BOOLEAN,
                stop : BOOLEAN, cancelled : BOOLEAN, result : Results]
  /\ inbox \subseteq {"chats", "topics", "result", "quit"}

\* What is saved was fetched for the chat, the topic and the mode under which
\* it is saved, and nothing that was fetched by date is marked as read: the
\* selection and the options the result meets are those the fetch began with.
ResultMatchesRequest ==
  /\ saved.under = saved.of
  /\ saved.marked => ~saved.ofDates

\* A fetch that was not cancelled can be seen and stopped: its screen is shown
\* and its handle set, so there is never a second one either.
FetchIsReachable == fetch.pc # "none" /\ ~fetch.cancelled => state = "progress" /\ handle

\* The program never waits for a command that nobody has started.
NeverStuck ==
  running /\ state \in {"loadingChats", "loadingTopics", "progress", "exit"} => inbox # {}

\* Those who read and write the caches of peers and channels, two maps without
\* a lock: the commands that list and the fetch.  The chat list (ctrl+r) and
\* the handling of a result (marking) do so inside Update.
CacheCommands == (inbox \cap {"chats", "topics"}) \cup (IF fetch.pc = "running" THEN {"fetch"} ELSE {})

\* No two of them run at once, in whatever order messages and keys come and
\* whatever the user leaves, stops or cancels.
OneCacheUser ==
  /\ Cardinality(CacheCommands) <= 1
  /\ running /\ (state = "chatList" \/ fetch.pc = "returned") => CacheCommands = {}

\* Only enter starts a fetch, which may mark what it saves as read: a list that
\* is still done with an old selection never does so on another key, a resize
\* or a late message.
FetchNeedsEnter ==
  [][fetch.pc = "none" /\ fetch'.pc = "running" => input' = "enter"]_vars

\* q ends the parsing, and the result is handled, unless the program ends.
StopIsAnswered == state = "progress" /\ fetch.stop ~> state # "progress" \/ ~running

\* ctrl+c ends the program, whatever was under way.
CtrlCExits == input = "ctrl+c" ~> ~running
=============================================================================
