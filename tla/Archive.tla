------------------------------- MODULE Archive -------------------------------
(***************************************************************************)
(* What the archive promises about unread mode, without saying how: texts  *)
(* are added to the database and never leave it, and the read cursor that  *)
(* Telegram keeps for a chat or topic is moved by the program only over    *)
(* texts that are in the database or that the user read elsewhere.         *)
(* docs/architecture.md: "Unread history and sync mark messages as read    *)
(* only after the DB write succeeds."                                      *)
(***************************************************************************)
EXTENDS Integers

CONSTANTS
  Targets, \* the chats and forum topics that have a read cursor
  MaxId,   \* the largest message id (a bound)
  Text     \* which ids are incoming texts, the others are never saved

VARIABLES
  posted,    \* the newest message of each target
  readTo,    \* the read cursor of each target
  elsewhere, \* how far the user has read in another client
  saved      \* the texts of each target in the database

vars == <<posted, readTo, elsewhere, saved>>

TypeOK ==
  /\ posted \in [Targets -> 0..MaxId]
  /\ readTo \in [Targets -> 0..MaxId]
  /\ elsewhere \in [Targets -> 0..MaxId]
  /\ saved \in [Targets -> SUBSET Text]

Init ==
  /\ posted \in [Targets -> 0..MaxId]
  /\ readTo = [t \in Targets |-> 0]
  /\ elsewhere = [t \in Targets |-> 0]
  /\ saved = [t \in Targets |-> {}]

Post(t) ==
  /\ posted[t] < MaxId
  /\ posted' = [posted EXCEPT ![t] = @ + 1]
  /\ UNCHANGED <<readTo, elsewhere, saved>>

\* The user reads on another device, or marks a chat as read by hand.
ReadElsewhere(t) ==
  \E id \in readTo[t] + 1 .. posted[t] :
    /\ readTo' = [readTo EXCEPT ![t] = id]
    /\ elsewhere' = [elsewhere EXCEPT ![t] = id]
    /\ UNCHANGED <<posted, saved>>

Save(t) ==
  \E ids \in SUBSET (Text \cap 1..posted[t]) :
    /\ saved' = [saved EXCEPT ![t] = @ \cup ids]
    /\ UNCHANGED <<posted, readTo, elsewhere>>

Accounted(t, id) == id \in saved[t] \/ id <= elsewhere[t]

MarkRead(t) ==
  \E id \in readTo[t] + 1 .. posted[t] :
    /\ \A i \in Text : i <= id => Accounted(t, i)
    /\ readTo' = [readTo EXCEPT ![t] = id]
    /\ UNCHANGED <<posted, elsewhere, saved>>

Next == \E t \in Targets : Post(t) \/ ReadElsewhere(t) \/ Save(t) \/ MarkRead(t)

Spec == Init /\ [][Next]_vars

-----------------------------------------------------------------------------
\* Nothing is lost to the read cursor: a text below it is in the database or
\* was read by the user.
ReadIsSaved ==
  \A t \in Targets : \A id \in Text : id <= readTo[t] => Accounted(t, id)
=============================================================================
