------------------------------- MODULE Listings -------------------------------
(***************************************************************************)
(* A call of the client that lists: GetDialogs for the chats of the user,  *)
(* GetForumTopics for the topics of a forum.  Both page through a list the *)
(* server reorders meanwhile, and the commands rely on the same promises   *)
(* of both.  Which call it is is chosen at the start: the calls share the  *)
(* client, and no other call of it runs at the same time.                  *)
(***************************************************************************)
EXTENDS Integers, Sequences

CONSTANTS
  Dialogs, Folder, Forbidden, Persons, Nobody, Unread, Twins,
  Silent,     \* dialogs whose last message is not among the page's messages
  Topics, Gone,
  Quiet,      \* topics whose last message is not among the page's messages
  Limit, MaxChanges

VARIABLES
  kind,  \* what is listed: "dialogs" or "topics"
  top, raised, changes, pc, offset, found, hasFolder, cache, byCreation

server == <<top, raised, changes>>
vars == <<kind, server, pc, offset, found, hasFolder, cache, byCreation>>

D == INSTANCE DialogPages WITH Items <- Dialogs, Dateless <- Silent

T == INSTANCE TopicPages WITH Items <- Topics, Dateless <- Quiet

ASSUME ListingAssumption == D!DialogConstants /\ T!TopicConstants

Init ==
  \/ kind = "dialogs" /\ D!Init /\ byCreation = FALSE
  \/ kind = "topics" /\ T!Init /\ hasFolder = FALSE /\ cache = <<>>

GetDialogs == kind = "dialogs" /\ D!FetchPage /\ UNCHANGED <<kind, byCreation>>

GetForumTopics == kind = "topics" /\ T!FetchPage /\ UNCHANGED <<kind, hasFolder, cache>>

Next ==
  \/ GetDialogs
  \/ GetForumTopics
  \/ kind = "dialogs" /\ (D!Fail \/ D!Reordered) /\ UNCHANGED <<kind, byCreation>>
  \/ kind = "topics" /\ (T!Fail \/ T!Reordered) /\ UNCHANGED <<kind, hasFolder, cache>>

\* Nothing waits for another party for ever: a pause ends, a request is
\* answered or fails.
Spec == Init /\ [][Next]_vars /\ WF_vars(GetDialogs) /\ WF_vars(GetForumTopics)

-----------------------------------------------------------------------------
(* Properties *)

TypeOK == IF kind = "dialogs" THEN D!TypeOK ELSE kind = "topics" /\ T!TypeOK

\* However often the list is reordered while it is fetched, a command gets each
\* chat, known by its number, and each topic once: what is listed twice would
\* be fetched, saved, counted and marked twice.
ListedOnce == IF kind = "dialogs" THEN D!ListedOnce ELSE T!ListedOnce

\* A listing that says it is complete misses a dialog or a topic for the named
\* reasons only; what the server deletes meanwhile makes it miss nothing.
OnlyCutsLose ==
  IF kind = "dialogs" THEN D!OnlyCutsLoseDialogs ELSE T!OnlyCutsLoseTopics

\* What is listed can be asked for: the peer cache, which every later answer
\* writes to under bare numbers, still has the peer of each listed chat, unless
\* a user has the number of a channel.
PeersAreTheirs == kind = "dialogs" => D!PeersAreTheirs

\* The loops end, however the list changes and whatever is deleted: no request
\* repeats the offset of the one before it.
ListingEnds == <>(pc # "paging")
=============================================================================
