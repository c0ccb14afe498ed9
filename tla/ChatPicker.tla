------------------------------ MODULE ChatPicker ------------------------------
(***************************************************************************)
(* The chat list of the TUI, internal/tui Model: the filtered list, the    *)
(* history mode, the two date inputs and ctrl+r.  A picker is a record and *)
(* a key turns it into one of Pressed(picker, key): the session of module  *)
(* TuiSession works with the same operator.                                *)
(*                                                                         *)
(* The list widget of the bubbles library is external: its items, what the *)
(* filter shows of them and the cursor are modelled as this code uses them.*)
(* The matches of a filter text are any of the items, found at once.       *)
(***************************************************************************)
EXTENDS Integers, Sequences, FiniteSets, SequencesExt

CONSTANTS
  Chats,      \* the chats of the list
  None,       \* no chat
  Days,       \* the dates that may be typed, 0 is the zero time
  Today,      \* what an empty end date stands for
  CanFilter,  \* whether the user types filters (a bound)
  CanMark     \* whether the user presses ctrl+r (a bound)

ASSUME PickerAssumption ==
  /\ Chats # {} /\ IsFiniteSet(Chats) /\ None \notin Chats
  /\ Days \subseteq Nat \ {0} /\ Today \in Nat \ {0}
  /\ CanFilter \in BOOLEAN /\ CanMark \in BOOLEAN

VARIABLE picker

Modes == {"unread", "dates"}

\* rune: a letter that means nothing outside the filter; tab: also up and down
\* in the filter, which they leave.
Keys ==
  {"esc", "q", "m", "enter", "down", "up"} \cup
  (IF CanFilter THEN {"/", "rune", "tab"} ELSE {}) \cup (IF CanMark THEN {"ctrl+r"} ELSE {})

NewModel(mode, since, until) ==
  LET chats == SetToSeq(Chats)
  IN [items |-> [k \in DOMAIN chats |-> [chat |-> chats[k], unread |-> TRUE]],
      filter |-> "off", match |-> <<>>, cursor |-> 1,
      view |-> "list", mode |-> mode, since |-> since, until |-> until,
      selected |-> None, done |-> FALSE, canceled |-> FALSE]

-----------------------------------------------------------------------------
(* The list: positions of items, the cursor among those that are shown *)

InOrder(positions) == SetToSortSeq(positions, <)

VisibleItems(p) == IF p.filter = "off" THEN InOrder(DOMAIN p.items) ELSE p.match

SelectedItem(p) ==
  LET shown == VisibleItems(p)
  IN  IF p.cursor \in DOMAIN shown THEN p.items[shown[p.cursor]].chat ELSE None

Index(p) == p.cursor

\* The matches of a new filter text.
Matches(p) == {[p EXCEPT !.match = InOrder(s)] : s \in SUBSET DOMAIN p.items}

StartFilter(p) ==
  [p EXCEPT !.filter = "typing", !.cursor = 1,
            !.match = IF p.filter = "off" THEN InOrder(DOMAIN p.items) ELSE @]

AcceptFilter(p) == [p EXCEPT !.filter = IF p.match = <<>> THEN "off" ELSE "applied"]

Typing(p) == p.filter = "typing"

UpdateList(p, key) ==
  CASE Typing(p) /\ key = "tab"  -> {AcceptFilter(p)}
    [] Typing(p) /\ key \in {"q", "m", "rune"} -> Matches(p)
    [] ~Typing(p) /\ key = "/"   -> {StartFilter(p)}
    [] ~Typing(p) /\ key = "down" /\ p.cursor < Len(VisibleItems(p)) ->
         {[p EXCEPT !.cursor = @ + 1]}
    [] ~Typing(p) /\ key = "up" /\ p.cursor > 1 -> {[p EXCEPT !.cursor = @ - 1]}
    [] OTHER -> {p}

-----------------------------------------------------------------------------
(* Keys of the chat list *)

Cancel(p) == [p EXCEPT !.done = TRUE, !.canceled = TRUE]

\* Enter with nothing highlighted keeps what was selected before.
Select(p) ==
  [p EXCEPT !.done = TRUE, !.selected = IF SelectedItem(p) = None THEN @ ELSE SelectedItem(p)]

\* The item at the cursor's index becomes the marked chat.  The widget drops
\* the matches of its filter and what would find them again is not run.
Marked(p, idx, chat, ok) ==
  IF ok THEN [p EXCEPT !.items[idx] = [chat |-> chat, unread |-> FALSE], !.match = <<>>]
  ELSE p

\* The call to Telegram is made while the program waits; it may fail.
HandleMarkAsRead(p) ==
  IF Typing(p) \/ SelectedItem(p) = None THEN {p}
  ELSE {Marked(p, Index(p), SelectedItem(p), ok) : ok \in BOOLEAN}

ChatListKeys(p, key) ==
  CASE key = "esc" \/ (key = "q" /\ ~Typing(p)) -> {Cancel(p)}
    [] key = "m" /\ ~Typing(p) -> {[p EXCEPT !.view = "modes"]}
    [] key = "enter"  -> {Select(p)}
    [] key = "ctrl+r" -> HandleMarkAsRead(p)
    [] OTHER -> UpdateList(p, key)

-----------------------------------------------------------------------------
(* Keys of the mode list and the date inputs *)

\* Either mode may be highlighted.  The quit key of the widget is not disabled
\* here: see QuitsProgram.
ModeListKeys(p, key) ==
  CASE key = "esc"   -> {[p EXCEPT !.view = "list"]}
    [] key = "enter" -> {[p EXCEPT !.view = "since"],
                         [p EXCEPT !.view = "list", !.mode = "unread"]}
    [] OTHER -> {p}

QuitsProgram(p, key) == p.view = "modes" /\ key = "q"

\* A slip for a mutant: the mode is set with the first date.
SinceEnteredEarly(p, day) == [p EXCEPT !.since = day, !.view = "until", !.mode = "dates"]

SinceEntered(p, day) == [p EXCEPT !.since = day, !.view = "until"]

\* A text that is no date changes nothing.
SinceInputKeys(p, key) ==
  CASE key = "esc"   -> {[p EXCEPT !.view = "list"]}
    [] key = "enter" -> {p} \cup {SinceEntered(p, day) : day \in Days}
    [] OTHER -> {p}

UntilEntered(p, day) == [p EXCEPT !.until = day, !.view = "list", !.mode = "dates"]

UntilInputKeys(p, key) ==
  CASE key = "esc"   -> {[p EXCEPT !.view = "list"]}
    [] key = "enter" ->
         {p, UntilEntered(p, Today)} \cup
         {UntilEntered(p, day) : day \in {d \in Days : d >= p.since}}
    [] OTHER -> {p}

Pressed(p, key) ==
  CASE p.view = "modes" -> ModeListKeys(p, key)
    [] p.view = "since" -> SinceInputKeys(p, key)
    [] p.view = "until" -> UntilInputKeys(p, key)
    [] OTHER -> ChatListKeys(p, key)

-----------------------------------------------------------------------------
(* The picker before any key *)

\* The range of the command line is in order, or there is none.
FirstPickers ==
  {NewModel("unread", 0, 0)} \cup
  {NewModel("dates", r[1], r[2]) : r \in {r \in Days \X Days : r[1] <= r[2]}}

-----------------------------------------------------------------------------
(* Properties *)

PickerTypeOK ==
  /\ \A k \in DOMAIN picker.items : picker.items[k].chat \in Chats
  /\ picker.filter \in {"off", "typing", "applied"}
  /\ picker.view \in {"list", "modes", "since", "until"}
  /\ picker.mode \in Modes
  /\ {picker.since, picker.until} \subseteq Days \cup {0, Today}
  /\ picker.selected \in Chats \cup {None}
  /\ ToSet(picker.match) \subseteq DOMAIN picker.items
  /\ picker.cursor \in Nat \ {0}

\* Whatever path through modes and inputs was taken and left, the mode is
\* "dates" only when both dates were entered or given: a fetch by date never
\* runs from or to the zero time.
ModeHasRange == picker.mode = "dates" => picker.since # 0 /\ picker.until # 0

\* ctrl+r marks the selected chat and no other one: each stays in the list.
ListKeepsChats == {picker.items[k].chat : k \in DOMAIN picker.items} = Chats
=============================================================================
