------------------------------- MODULE FetchRows ------------------------------
(***************************************************************************)
(* The rows that sync, history and the TUI leave in the chats, topics and  *)
(* messages tables, and what the offline commands, chats and export, find  *)
(* in them.  Each of the save functions is a transaction; between two of   *)
(* them a process may be aborted and others may save or read.  The rows    *)
(* are those of one account: every query names it.                         *)
(*                                                                         *)
(* A row is its key: of what an upsert replaces no property is about more. *)
(* SaveUsers is left out: an export does without a sender's row.           *)
(***************************************************************************)
EXTENDS Integers, Sequences, FiniteSets

CONSTANTS
  Procs,      \* processes that list, fetch and save
  Plain,      \* chats without topics
  Forum,      \* a chat with topics
  Topics,     \* its topics
  Ids,        \* message ids
  None,       \* no row, no topic
  MaxAborts,  \* aborted processes in one behaviour (a bound)
  Midnight,   \* the hours at which the local days begin, the end of the last
  Hours,      \* hours at which messages were sent
  Ranges      \* --since and --until of exports, 0 for an option left out

Chats == Plain \cup {Forum}

ASSUME RowsAssumption ==
  /\ Forum \notin Plain /\ None \notin Topics
  /\ MaxAborts \in Nat
  /\ Midnight \in Seq(Nat) /\ Midnight # <<>>
  /\ \A d \in 1..Len(Midnight) - 1 : Midnight[d + 1] - Midnight[d] \in 23..25
  /\ Hours \subseteq Midnight[1]..Midnight[Len(Midnight)] - 1
  /\ \A range \in Ranges :
       /\ range \in (0..Len(Midnight) - 1) \X (0..Len(Midnight) - 1)
       /\ range[2] # 0 => range[1] <= range[2]

\* What a fetch is for, and the key of its messages.
Targets == (Plain \X {None}) \cup ({Forum} \X Topics)

VARIABLES
  chatRows,  \* the chats with a row
  topicRows, \* the topics with a row
  messages,  \* triples of chat, topic and message id
  proc,      \* the state of each process
  accounts,  \* the accounts in the database: "ours", and one of another user
  sentAt,    \* the hour of each message
  aborts,    \* aborts so far
  offline    \* the state of one chats or export command

db == <<chatRows, topicRows, messages>>
vars == <<db, proc, accounts, sentAt, aborts, offline>>

\* saves: whether the command saves its listing (the TUI does not).  listing:
\* whether it has one.  chats: the entities of the last answer.
Idle == [pc |-> "idle", saves |-> TRUE, listing |-> FALSE,
         target |-> <<None, None>>, chats |-> {}, ids |-> {}, step |-> 1]

Become(p, next) == proc' = [proc EXCEPT ![p] = next]

-----------------------------------------------------------------------------
(* A command *)

\* SetAccount, then GetDialogs.
ListDialogs(p) ==
  /\ proc[p].pc = "idle"
  /\ \E saves \in BOOLEAN :
       Become(p, [Idle EXCEPT !.pc = IF saves THEN "listed" ELSE "ready",
                              !.saves = saves, !.listing = TRUE])
  /\ accounts' = accounts \cup {"ours"}
  /\ UNCHANGED <<db, sentAt, aborts, offline>>

SaveDialogs(p) ==
  /\ proc[p].pc = "listed"
  /\ chatRows' = Chats
  /\ Become(p, [proc[p] EXCEPT !.pc = "ready"])
  /\ UNCHANGED <<topicRows, messages, accounts, sentAt, aborts, offline>>

\* GetForumTopics and SaveTopics, before the topics of a forum are fetched.
SaveTopics(p) ==
  /\ proc[p].pc = "ready" /\ proc[p].saves
  /\ topicRows' = Topics
  /\ UNCHANGED <<chatRows, messages, proc, accounts, sentAt, aborts, offline>>

\* The answer names chats: the one that was asked for, forwards and mentions.
Fetch(p) ==
  /\ proc[p].pc = "ready"
  /\ \E t \in Targets, chats \in SUBSET Chats, ids \in SUBSET Ids :
       /\ proc[p].saves /\ t[1] = Forum => topicRows = Topics
       /\ Become(p, [proc[p] EXCEPT !.pc = "saving", !.step = 1, !.target = t,
                                    !.chats = chats, !.ids = ids])
  /\ UNCHANGED <<db, accounts, sentAt, aborts, offline>>

\* A slip for a mutant: the messages are saved first.
OrderMessagesFirst == <<"messages", "chats", "topics">>

\* The transactions of saveFetchResult.
Order == <<"chats", "topics", "messages">>

Saves(p, table) == proc[p].pc = "saving" /\ Order[proc[p].step] = table

NextSave(p) ==
  Become(p, IF proc[p].step = Len(Order)
            THEN [Idle EXCEPT !.pc = "ready", !.saves = proc[p].saves, !.listing = TRUE]
            ELSE [proc[p] EXCEPT !.step = @ + 1, !.chats = {}])

\* The selected chat as it was listed, then the entities.
SaveChats(p) ==
  /\ Saves(p, "chats")
  /\ chatRows' = chatRows \cup {proc[p].target[1]} \cup proc[p].chats
  /\ NextSave(p)
  /\ UNCHANGED <<topicRows, messages, accounts, sentAt, aborts, offline>>

SaveTopic(p) ==
  /\ Saves(p, "topics")
  /\ topicRows' = topicRows \cup ({proc[p].target[2]} \ {None})
  /\ NextSave(p)
  /\ UNCHANGED <<chatRows, messages, accounts, sentAt, aborts, offline>>

SaveMessages(p) ==
  /\ Saves(p, "messages")
  /\ messages' = messages \cup
       {<<proc[p].target[1], proc[p].target[2], id>> : id \in proc[p].ids}
  /\ NextSave(p)
  /\ UNCHANGED <<chatRows, topicRows, accounts, sentAt, aborts, offline>>

\* The command ends.
Finish(p) ==
  /\ proc[p].pc = "ready"
  /\ Become(p, Idle)
  /\ UNCHANGED <<db, accounts, sentAt, aborts, offline>>

\* It dies, is cancelled or a statement fails: a transaction leaves nothing.
Abort(p) ==
  /\ proc[p].pc \in {"listed", "saving"}
  /\ aborts < MaxAborts
  /\ aborts' = aborts + 1
  /\ Become(p, Idle)
  /\ UNCHANGED <<db, accounts, sentAt, offline>>

-----------------------------------------------------------------------------
(* The offline commands: each query is a step of its own.                   *)

\* asked: what was saved when the command began and is to be in its output;
\* got: what it has read; left: the chats whose topics are still to be listed.
NoCommand == [pc |-> "idle", chat |-> None, topic |-> None, since |-> 0, until |-> 0,
              asked |-> {}, got |-> {}, inTopics |-> {}, left |-> {}]

\* By local days.
InDays(m, since, until) ==
  /\ since # 0 => sentAt[m[3]] >= Midnight[since]
  /\ until # 0 => sentAt[m[3]] < Midnight[until + 1]

\* UseAccount of another user: the same file, rows of its own.
OtherUser ==
  /\ accounts' = accounts \cup {"other"}
  /\ UNCHANGED <<db, proc, sentAt, aborts, offline>>

\* ResolveAccountID: without --account-id there must be one account.  Chats of
\* this account are looked for, so that the other one has none of them.
Resolves(named) == "ours" \in accounts /\ (named \/ accounts = {"ours"})

\* What an export begun now is to contain.
AskedFor(chat, topic, since, until) ==
  {m \in messages : m[1] = chat /\ topic \in {None, m[2]} /\ InDays(m, since, until)}

StartExport ==
  /\ offline.pc = "idle"
  /\ \E named \in BOOLEAN, chat \in Chats, topic \in Topics \cup {None}, range \in Ranges :
       /\ chat # Forum => topic = None
       /\ offline' =
            IF Resolves(named)
            THEN [NoCommand EXCEPT
                    !.pc = "chat", !.chat = chat, !.topic = topic,
                    !.since = range[1], !.until = range[2],
                    !.asked = AskedFor(chat, topic, range[1], range[2])]
            ELSE [NoCommand EXCEPT !.pc = "noaccount"]
  /\ UNCHANGED <<db, proc, accounts, sentAt, aborts>>

\* "chat_id not found" without a row; a topic without a row is exported.
FindChat ==
  /\ offline.pc = "chat"
  /\ offline' = [offline EXCEPT !.pc = IF offline.chat \in chatRows THEN "messages" ELSE "failed"]
  /\ UNCHANGED <<db, proc, accounts, sentAt, aborts>>

\* A slip for a mutant: the day of --until is left out.
UntilMidnight(day) == Midnight[day]

\* --until is the last nanosecond of 24 hours, however long the local day is.
Until(day) == Midnight[day] + 24

\* A slip for a mutant: no topic is taken for topic 0.
MatchesTopicZero(m) ==
  /\ m[1] = offline.chat /\ m[2] = offline.topic
  /\ offline.since # 0 => sentAt[m[3]] >= Midnight[offline.since]
  /\ offline.until # 0 => sentAt[m[3]] < Until(offline.until)

\* A slip for a mutant: --since is left out of the query.
MatchesAnySince(m) ==
  /\ m[1] = offline.chat /\ offline.topic \in {None, m[2]}
  /\ offline.until # 0 => sentAt[m[3]] < Until(offline.until)

\* The WHERE clause of selectMessages; without --topic-id every topic matches.
Matches(m) ==
  /\ m[1] = offline.chat /\ offline.topic \in {None, m[2]}
  /\ offline.since # 0 => sentAt[m[3]] >= Midnight[offline.since]
  /\ offline.until # 0 => sentAt[m[3]] < Until(offline.until)

SelectMessages ==
  /\ offline.pc = "messages"
  /\ offline' = [offline EXCEPT !.pc = "exported", !.got = {m \in messages : Matches(m)}]
  /\ UNCHANGED <<db, proc, accounts, sentAt, aborts>>

\* ListChats: the chats are read with the numbers of their messages.
ListChats ==
  /\ offline.pc = "idle"
  /\ \E named \in BOOLEAN :
       offline' = IF Resolves(named)
                  THEN [NoCommand EXCEPT !.pc = "topics", !.left = chatRows,
                          !.got = {m \in messages : m[1] \in chatRows}]
                  ELSE [NoCommand EXCEPT !.pc = "noaccount"]
  /\ UNCHANGED <<db, proc, accounts, sentAt, aborts>>

\* ListTopicSummaries, a query for each chat: a message is counted with a topic
\* that has a row.
ListTopics ==
  /\ offline.pc = "topics"
  /\ \E chat \in offline.left :
       offline' = [offline EXCEPT !.left = @ \ {chat},
                     !.inTopics = @ \cup {m \in messages : m[1] = chat /\ m[2] \in topicRows}]
  /\ UNCHANGED <<db, proc, accounts, sentAt, aborts>>

EndOffline ==
  /\ \/ offline.pc \in {"exported", "failed", "noaccount"}
     \/ offline.pc = "topics" /\ offline.left = {}
  /\ offline' = NoCommand
  /\ UNCHANGED <<db, proc, accounts, sentAt, aborts>>

-----------------------------------------------------------------------------
Init ==
  /\ chatRows = {}
  /\ topicRows = {}
  /\ messages = {}
  /\ proc = [p \in Procs |-> Idle]
  /\ accounts = {}
  /\ sentAt \in [Ids -> Hours]
  /\ aborts = 0
  /\ offline = NoCommand

Step(p) ==
  \/ ListDialogs(p) \/ SaveDialogs(p) \/ SaveTopics(p) \/ Fetch(p)
  \/ SaveChats(p) \/ SaveTopic(p) \/ SaveMessages(p) \/ Finish(p) \/ Abort(p)

Next ==
  \/ \E p \in Procs : Step(p)
  \/ OtherUser
  \/ StartExport \/ FindChat \/ SelectMessages \/ ListChats \/ ListTopics \/ EndOffline

Spec == Init /\ [][Next]_vars

-----------------------------------------------------------------------------
(* Properties *)

\* What is being fetched was listed before.
TypeOK ==
  /\ chatRows \subseteq Chats
  /\ topicRows \subseteq Topics
  /\ messages \subseteq {<<t[1], t[2], id>> : t \in Targets, id \in Ids}
  /\ aborts \in 0..MaxAborts
  /\ accounts \subseteq {"ours", "other"}
  /\ sentAt \in [Ids -> Hours]
  /\ offline.pc \in {"idle", "chat", "messages", "exported", "topics", "failed", "noaccount"}
  /\ offline.left \subseteq Chats
  /\ \A p \in Procs :
       /\ proc[p].pc \in {"idle", "listed", "ready", "saving"}
       /\ proc[p].step \in DOMAIN Order
       /\ proc[p].pc = "saving" =>
            proc[p].target \in Targets /\ proc[p].listing

\* Wherever a process is aborted, and whatever command saved it, a message has
\* the rows of its chat and its topic: the list of chats shows it and an export
\* finds it.
SavedIsListed ==
  \A m \in messages :
    m[1] \in chatRows /\ (m[2] = None \/ m[2] \in topicRows)

\* An export has every message of the chosen local days that was saved when it
\* began, and none of any other time, although others save between its queries;
\* nothing sent before --since is ever in it.  Only the hour by which the last
\* day is not 24 hours long is wrong: the 25th is missing, and after a day of 23
\* the first hour of the next one is there.  It does not fail when there is any.
ExportIsExact ==
  /\ offline.pc = "failed" => offline.asked = {}
  /\ offline.pc = "exported" =>
       /\ \A m \in offline.asked \ offline.got :
            offline.until # 0 /\ sentAt[m[3]] >= Midnight[offline.until] + 24
       /\ \A m \in offline.got :
            /\ offline.since # 0 => sentAt[m[3]] >= Midnight[offline.since]
            /\ \/ InDays(m, offline.since, offline.until)
               \/ /\ offline.until # 0
                  /\ sentAt[m[3]] >= Midnight[offline.until + 1]
                  /\ sentAt[m[3]] < Midnight[offline.until] + 24

\* The list of chats adds up: a message that is counted for a forum is counted
\* for one of its topics too, which are read later and while others save.
TopicsAddUp ==
  offline.pc = "topics" =>
    \A m \in offline.got :
      m[1] \in offline.left \/ m[2] = None \/ m \in offline.inTopics
=============================================================================
