------------------------------ MODULE ServerList ------------------------------
(***************************************************************************)
(* Telegram's side of a listing that is fetched page by page: items (the   *)
(* dialogs of a user, the topics of a forum) ordered by their last         *)
(* message.  While the pages are fetched messages arrive, which raises     *)
(* their item to the head, and last messages are deleted, which lowers it. *)
(* Message ids are ranks: a later message has a higher id and a later date.*)
(***************************************************************************)
EXTENDS Integers, Sequences, FiniteSets, SequencesExt

CONSTANTS
  Items,      \* what is listed
  Limit,      \* entries of a page (100 in the program)
  MaxChanges  \* changes on the server during one listing (a bound)

VARIABLES
  top,     \* the last message of each item
  raised,  \* items that received a message since the listing began
  changes  \* changes so far

server == <<top, raised, changes>>

Size == Cardinality(Items)

\* Every other id is free: an older message is the last one after a deletion.
ServerInit ==
  /\ top \in {f \in [Items -> {Size + 2 * k : k \in 1..Size}] : IsInjective(f)}
  /\ raised = {}
  /\ changes = 0

Tops == {top[i] : i \in Items}

Arrives(i) ==
  /\ top' = [top EXCEPT ![i] = 1 + CHOOSE m \in Tops : \A n \in Tops : n <= m]
  /\ raised' = raised \cup {i}

Deleted(i) ==
  /\ \E m \in (Size + 1..top[i]) \ Tops : top' = [top EXCEPT ![i] = m]
  /\ UNCHANGED raised

\* The items of S change, the others are left alone.
Changes(S) ==
  /\ changes < MaxChanges
  /\ changes' = changes + 1
  /\ \E i \in S : Arrives(i) \/ Deleted(i)

\* What comes after an offset; 0 means the head of the list.
After(key, offset) == {i \in Items : offset = 0 \/ key[i] < offset}

\* The n items of those that come first under key, or all when there are fewer,
\* in their order.  There is one such page when no two items have one key.
Firsts(n, key, offset) ==
  LET after == After(key, offset)
  IN  {page \in UNION {[1..m -> after] : m \in 0..n} :
         /\ \A j, k \in DOMAIN page : j < k => key[page[k]] < key[page[j]]
         /\ \A i \in after \ ToSet(page), k \in DOMAIN page : key[i] < key[page[k]]
         /\ Len(page) = n \/ ToSet(page) = after}

ServerTypeOK ==
  /\ top \in [Items -> Size + 1..3 * Size + MaxChanges]
  /\ raised \subseteq Items
  /\ changes \in 0..MaxChanges
=============================================================================
