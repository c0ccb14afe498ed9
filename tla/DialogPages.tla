----------------------------- MODULE DialogPages ------------------------------
(***************************************************************************)
(* GetDialogsWithEntities (internal/telegram/dialogs.go): the dialogs of   *)
(* the user are fetched page after page, each page below the last dialog   *)
(* of the one before it, until a page is short or its last entry gives no  *)
(* offset.  Dialogs that come twice are taken once, by their chat id.  The *)
(* entities of every answer go into the client's peer cache (peers.go),    *)
(* where later requests for a listed chat find whom to ask.                *)
(*                                                                         *)
(* One step is one turn of the loop: pause, request, the whole answer.     *)
(***************************************************************************)
EXTENDS ServerList

CONSTANTS
  Folder,     \* the archive folder, an entry of a page that is no dialog
  Forbidden,  \* dialogs of which no answer and no storage has a usable peer
  Persons,    \* dialogs with users, who may also have written a last message
  Nobody,     \* no peer
  Dateless,   \* dialogs whose last message is not among the page's messages
  Unread,     \* dialogs with unread messages
  Twins       \* a user and a channel with one id, or none

DialogConstants ==
  /\ IsFiniteSet(Items) /\ Items # {} /\ Items \cap {Folder, Nobody, "shared"} = {}
  /\ Forbidden \subseteq Items /\ Dateless \subseteq Items /\ Unread \subseteq Items
  /\ Persons \subseteq Items \ Forbidden
  /\ Twins = {} \/ \E u \in Persons, c \in Items \ Persons : Twins = {u, c}
  /\ Limit \in Nat \ {0, 1} /\ MaxChanges \in Nat

VARIABLES
  hasFolder, \* whether the user has an archive folder, the head of the list
  pc,      \* "paging", "done" or "failed"
  offset,  \* OffsetDate, OffsetID and OffsetPeer of the next request, 0 for none
  found,   \* parsedDialogs
  cache    \* peerCache: whose peer is kept under a number

vars == <<server, hasFolder, pc, offset, found, cache>>

\* users.id and channels.id are numbers of their own.
Id(d) == IF d \in Twins THEN "shared" ELSE d

Numbers == {Id(d) : d \in Items}

Pages ==
  IF hasFolder /\ offset = 0
  THEN {<<Folder>> \o page : page \in Firsts(Limit - 1, top, offset)}
  ELSE Firsts(Limit, top, offset)

\* processDialogs: the entries that are dialogs, all but a folder at the head.
processDialogs(page) ==
  IF page # <<>> /\ Head(page) = Folder THEN Tail(page) ELSE page

\* A slip for a mutant: dialogs that come again are taken again.
AddAll(list, batch) == list \o [k \in DOMAIN batch |-> [dialog |-> batch[k], top |-> top[batch[k]]]]

Seen(list, d) == \E k \in DOMAIN list : Id(list[k].dialog) = Id(d)

\* What the batch adds to the list: "seen" knows dialogs by their id.
Add(list, batch) ==
  LET added[n \in 0..Len(batch)] ==
        IF n = 0 THEN list
        ELSE IF Seen(added[n - 1], batch[n]) THEN added[n - 1]
        ELSE Append(added[n - 1], [dialog |-> batch[n], top |-> top[batch[n]]])
  IN  added[Len(batch)]

\* A slip for a mutant: the map is made anew for every answer.
CacheOfPage(named) ==
  [n \in Numbers |-> IF n \in {Id(d) : d \in named} THEN CHOOSE d \in named : Id(d) = n ELSE Nobody]

\* processPeerEntities: the channels and groups an answer names, then its
\* users, each over what was kept under the same number.
CacheWith(named) ==
  [n \in Numbers |->
     LET same == {d \in named : Id(d) = n}
     IN  IF same = {} THEN cache[n]
         ELSE CHOOSE d \in same : same \cap Persons # {} => d \in Persons]

\* A slip for a mutant: a full page is taken for the last one.
EndsEarly(page) ==
  \/ Len(processDialogs(page)) <= Limit
  \/ Last(page) = Folder \/ Last(page) \in Dateless \/ cache'[Id(Last(page))] = Nobody

\* The page's entities are in the cache by now: a forbidden dialog has a peer
\* when another dialog has its number.
Ends(page) ==
  \/ Len(processDialogs(page)) < Limit
  \/ Last(page) = Folder
  \/ Last(page) \in Dateless
  \/ cache'[Id(Last(page))] = Nobody

\* A slip for a mutant: the next request starts where this one did.
NextOffsetSame(page) == offset

NextOffset(page) == top[Last(page)]

\* sort.Slice is not stable: any order with the unread dialogs first.
SortedByUnread(list) ==
  {s \in {[k \in DOMAIN list |-> list[p[k]]] : p \in Bijection(DOMAIN list, DOMAIN list)} :
     \A j, k \in DOMAIN list :
       j < k /\ s[k].dialog \in Unread => s[j].dialog \in Unread}

FetchPage ==
  /\ pc = "paging"
  /\ \E page \in Pages, senders \in SUBSET Persons :
       \E list \in {Add(found, processDialogs(page))} :
         /\ cache' = CacheWith((ToSet(processDialogs(page)) \ Forbidden) \cup senders)
         /\ IF Ends(page)
            THEN pc' = "done" /\ found' \in SortedByUnread(list) /\ UNCHANGED offset
            ELSE found' = list /\ offset' = NextOffset(page) /\ UNCHANGED pc
  /\ UNCHANGED <<server, hasFolder>>

\* A pause is cut short or a request fails: no dialogs are returned.
Fail ==
  /\ pc = "paging"
  /\ pc' = "failed"
  /\ found' = <<>>
  /\ UNCHANGED <<server, hasFolder, offset, cache>>

Init ==
  /\ ServerInit
  /\ hasFolder \in BOOLEAN
  /\ pc = "paging"
  /\ offset = 0
  /\ found = <<>>
  /\ cache = [n \in Numbers |-> Nobody]

Reordered ==
  pc = "paging" /\ Changes(Items) /\ UNCHANGED <<hasFolder, pc, offset, found, cache>>

Next == FetchPage \/ Fail \/ Reordered

-----------------------------------------------------------------------------
(* Properties *)

Listed == {found[k].dialog : k \in DOMAIN found}

TypeOK ==
  /\ ServerTypeOK
  /\ cache \in [Numbers -> Items \cup {Nobody}]
  /\ hasFolder \in BOOLEAN
  /\ pc \in {"paging", "done", "failed"}
  /\ offset \in Nat
  /\ Listed \subseteq Items /\ Len(found) <= Size

\* However often the list is reordered while it is fetched, sync gets a chat
\* once: what is fetched twice would be saved and counted twice.
ListedOnce ==
  \A j, k \in DOMAIN found : j # k => Id(found[j].dialog) # Id(found[k].dialog)

\* d was below a dialog whose position gives no offset, listed or hidden by one
\* with its number: its page may not have been fetched.
CutOff(d) ==
  \E k \in DOMAIN found, e \in Forbidden \cup Dateless :
    Id(found[k].dialog) = Id(e) /\ top[d] < found[k].top

\* d is another chat than one that is listed, with the same number.
Shadowed(d) == d \in Twins /\ Twins \cap Listed # {}

\* d was below the dialogs of the first page, which the archive folder headed.
BelowFolder(d) == hasFolder /\ \E k \in DOMAIN found : top[d] < found[k].top

\* A complete listing misses a dialog for four reasons only: a message moved it
\* over the pages that were still to come, a page ended in a dialog whose
\* position could not be determined, a dialog with the same id was seen, or the
\* archive folder made the first page look short.  Deletions lose nothing.
OnlyCutsLoseDialogs ==
  pc = "done" =>
    \A d \in Items \ Listed : d \in raised \/ CutOff(d) \/ Shadowed(d) \/ BelowFolder(d)

\* Requests for a listed chat go to that chat, whatever later answers named,
\* unless a user has the number of a channel.
PeersAreTheirs ==
  \A d \in Listed \ (Forbidden \cup Twins) : cache[Id(d)] = d
=============================================================================
