---------------------------- MODULE ListingsProofs ----------------------------
(***************************************************************************)
(* For any dialogs, topics, page size and number of changes: what a        *)
(* listing has found while the server reorders it.  The loops over a page  *)
(* are recursive functions; what they compute is shown by the principle of *)
(* the least natural number, which takes a set where the induction rules   *)
(* of the library take an operator.                                        *)
(***************************************************************************)
EXTENDS Listings, FiniteSetTheorems, TLAPS

(* Natural numbers *)

LEMMA LeastNat ==
  ASSUME NEW S, S \subseteq Nat, S # {}
  PROVE  \E n \in S : \A m \in S : n <= m
<1> DEFINE R == OpToRel(<, Nat)
<1>0. \A x, y \in Nat : y < x => <<y, x>> \in R
  BY DEF OpToRel
<1>1. IsWellFoundedOn(R, Nat)
  BY NatLessThanWellFounded, Zenon
<1> HIDE DEF R
<1>2. PICK x \in S : \A y \in S : ~(<<y, x>> \in R)
  BY <1>1, WFMin, Zenon
<1>3. \A y \in S : ~(y < x)
  BY <1>0, <1>2, Zenon
<1>4. \A y \in S : x <= y
  BY <1>3
<1> QED
  BY <1>4

\* A set that has 0 and the successor of each of its numbers has all.
LEMMA SetInduction ==
  ASSUME NEW S, 0 \in S, \A n \in Nat : n \in S => n + 1 \in S
  PROVE  \A n \in Nat : n \in S
<1> SUFFICES ASSUME Nat \ S # {} PROVE FALSE
  OBVIOUS
<1>1. PICK n \in Nat \ S : \A m \in Nat \ S : n <= m
  <2> Nat \ S \subseteq Nat
    OBVIOUS
  <2> QED
    BY LeastNat
<1>2. n # 0 /\ n - 1 \in Nat
  BY <1>1
<1>3. n - 1 \in S
  BY <1>1, <1>2
<1>4. (n - 1) + 1 \in S
  BY <1>2, <1>3
<1> QED
  BY <1>1, <1>4

LEMMA GreatestNat ==
  ASSUME NEW S, NEW b \in Nat, S \subseteq 0..b, S # {}
  PROVE  \E n \in S : \A m \in S : m <= n
<1> DEFINE R == {b - n : n \in S}
<1>1. R \subseteq Nat /\ R # {}
  <2>1. PICK n \in S : TRUE
    OBVIOUS
  <2>2. b - n \in R
    OBVIOUS
  <2>3. R \subseteq Nat
    OBVIOUS
  <2> QED
    BY <2>2, <2>3
<1>2. PICK r \in R : \A q \in R : r <= q
  BY <1>1, LeastNat
<1>3. PICK n \in S : r = b - n
  OBVIOUS
<1>4. ASSUME NEW m \in S PROVE m <= n
  <2>1. b - m \in R
    OBVIOUS
  <2>2. b - n <= b - m
    BY <1>2, <1>3, <2>1
  <2> QED
    BY <2>2
<1> QED
  BY <1>4

-----------------------------------------------------------------------------
(* The loop over the entries of a page *)

\* Whether x is not added to list: it is left out, or its key is there.
Skips(list, x, key, Out) == x \in Out \/ \E k \in DOMAIN list : key[list[k]] = key[x]

\* f[n] is the list after the first n items, all of E.
IsLoop(f, E, list, N, item, key, Out) ==
  /\ f[0] = list
  /\ \A n \in 1..N :
       f[n - 1] \in Seq(E) => f[n] = IF Skips(f[n - 1], item[n], key, Out) THEN f[n - 1]
                                     ELSE Append(f[n - 1], item[n])

\* No two entries have one key.
Distinct(list, key) == \A j, k \in DOMAIN list : j # k => key[list[j]] # key[list[k]]

\* What the list r owes to list and the items up to n.
Collects(r, list, n, item, key, Out) ==
  /\ Distinct(list, key) => Distinct(r, key)
  /\ Len(list) <= Len(r)
  /\ \A k \in 1..Len(list) : r[k] = list[k]
  /\ \A k \in Len(list) + 1..Len(r) : \E m \in 1..n : item[m] \notin Out /\ r[k] = item[m]
  /\ \A m \in 1..n : item[m] \notin Out => \E k \in 1..Len(r) : key[r[k]] = key[item[m]]

\* One turn keeps what is owed.
LEMMA CollectsStep ==
  ASSUME NEW E, NEW list \in Seq(E), NEW n \in Nat, NEW item, item[n + 1] \in E,
         NEW key, NEW Out, NEW q \in Seq(E), Collects(q, list, n, item, key, Out),
         NEW r, r = IF Skips(q, item[n + 1], key, Out) THEN q ELSE Append(q, item[n + 1])
  PROVE  r \in Seq(E) /\ Collects(r, list, n + 1, item, key, Out)
<1> DEFINE x == item[n + 1]
<1>1. CASE Skips(q, x, key, Out)
  <2>1. r = q
    BY <1>1
  <2>2. DOMAIN q = 1..Len(q)
    OBVIOUS
  <2>3. \A k \in Len(list) + 1..Len(r) : \E m \in 1..n + 1 : item[m] \notin Out /\ r[k] = item[m]
    <3> TAKE k \in Len(list) + 1..Len(r)
    <3>1. PICK m \in 1..n : item[m] \notin Out /\ q[k] = item[m]
      BY <2>1 DEF Collects
    <3>2. m \in 1..n + 1
      OBVIOUS
    <3> QED
      BY <2>1, <3>1, <3>2
  <2>4. ASSUME NEW m \in 1..n + 1, item[m] \notin Out
        PROVE  \E k \in 1..Len(r) : key[r[k]] = key[item[m]]
    <3>1. CASE m \in 1..n
      BY <2>1, <2>4, <3>1 DEF Collects
    <3>2. CASE m = n + 1
      <4>1. x \notin Out
        BY <2>4, <3>2
      <4>2. PICK k \in DOMAIN q : key[q[k]] = key[x]
        BY <1>1, <4>1 DEF Skips
      <4> QED
        BY <2>1, <2>2, <3>2, <4>2
    <3> QED
      BY <2>4, <3>1, <3>2
  <2> QED
    BY <2>1, <2>3, <2>4 DEF Collects
<1>2. CASE ~Skips(q, x, key, Out)
  <2>1. r = Append(q, x)
    BY <1>2
  <2>2. /\ r \in Seq(E) /\ Len(r) = Len(q) + 1 /\ Len(q) \in Nat
        /\ \A k \in 1..Len(q) : r[k] = q[k]
        /\ r[Len(q) + 1] = x
        /\ DOMAIN q = 1..Len(q) /\ DOMAIN r = 1..Len(q) + 1
        /\ Len(list) \in Nat
    BY <2>1
  <2>3. ASSUME Distinct(list, key), NEW j \in DOMAIN r, NEW k \in DOMAIN r, j # k
        PROVE  key[r[j]] # key[r[k]]
    <3>1. Distinct(q, key)
      BY <2>3 DEF Collects
    <3>2. \A m \in DOMAIN q : key[q[m]] # key[x]
      BY <1>2 DEF Skips
    <3>3. CASE j \in DOMAIN q /\ k \in DOMAIN q
      BY <2>2, <2>3, <3>1, <3>3 DEF Distinct
    <3>4. CASE j \notin DOMAIN q
      <4>1. r[j] = x /\ k \in DOMAIN q /\ r[k] = q[k]
        BY <2>2, <2>3, <3>4
      <4> QED
        BY <3>2, <4>1
    <3>5. CASE k \notin DOMAIN q
      <4>1. r[k] = x /\ j \in DOMAIN q /\ r[j] = q[j]
        BY <2>2, <2>3, <3>5
      <4> QED
        BY <3>2, <4>1
    <3> QED
      BY <3>3, <3>4, <3>5
  <2>4. Len(list) <= Len(r) /\ \A k \in 1..Len(list) : r[k] = list[k]
    BY <2>2 DEF Collects
  <2>5. ASSUME NEW k \in Len(list) + 1..Len(r)
        PROVE  \E m \in 1..n + 1 : item[m] \notin Out /\ r[k] = item[m]
    <3>1. CASE k = Len(q) + 1
      <4>1. x \notin Out
        BY <1>2 DEF Skips
      <4> QED
        BY <2>2, <3>1, <4>1
    <3>2. CASE k # Len(q) + 1
      <4>1. k \in Len(list) + 1..Len(q) /\ r[k] = q[k]
        BY <2>2, <3>2
      <4>2. PICK m \in 1..n : item[m] \notin Out /\ q[k] = item[m]
        BY <4>1 DEF Collects
      <4> QED
        BY <4>1, <4>2
    <3> QED
      BY <3>1, <3>2
  <2>6. ASSUME NEW m \in 1..n + 1, item[m] \notin Out
        PROVE  \E k \in 1..Len(r) : key[r[k]] = key[item[m]]
    <3>1. CASE m \in 1..n
      <4>1. PICK k \in 1..Len(q) : key[q[k]] = key[item[m]]
        BY <2>6, <3>1 DEF Collects
      <4> QED
        BY <2>2, <4>1
    <3>2. CASE m = n + 1
      <4>1. Len(q) + 1 \in 1..Len(r)
        BY <2>2
      <4>2. item[m] = r[Len(q) + 1]
        BY <2>2, <3>2
      <4>3. key[r[Len(q) + 1]] = key[item[m]]
        BY <4>2
      <4> QED
        BY <4>1, <4>3
    <3> QED
      BY <2>6, <3>1, <3>2
  <2> QED
    BY <2>2, <2>3, <2>4, <2>5, <2>6 DEF Collects, Distinct
<1> QED
  BY <1>1, <1>2

LEMMA LoopCollects ==
  ASSUME NEW E, NEW list \in Seq(E), NEW N \in Nat, NEW item, \A m \in 1..N : item[m] \in E,
         NEW key, NEW Out, NEW f, IsLoop(f, E, list, N, item, key, Out)
  PROVE  f[N] \in Seq(E) /\ Collects(f[N], list, N, item, key, Out)
<1> DEFINE S == {n \in Nat : n <= N => f[n] \in Seq(E) /\ Collects(f[n], list, n, item, key, Out)}
<1>1. 0 \in S
  <2>1. f[0] = list
    BY DEF IsLoop
  <2>2. Collects(list, list, 0, item, key, Out)
    BY DEF Collects
  <2> QED
    BY <2>1, <2>2
<1>2. ASSUME NEW n \in Nat, n \in S PROVE n + 1 \in S
  <2> SUFFICES ASSUME n + 1 <= N
               PROVE  f[n + 1] \in Seq(E) /\ Collects(f[n + 1], list, n + 1, item, key, Out)
    OBVIOUS
  <2>1. f[n] \in Seq(E) /\ Collects(f[n], list, n, item, key, Out)
    BY <1>2
  <2>2. n + 1 \in 1..N /\ (n + 1) - 1 = n
    BY <1>2
  <2>3. f[n + 1] = IF Skips(f[n], item[n + 1], key, Out) THEN f[n]
                   ELSE Append(f[n], item[n + 1])
    BY <2>1, <2>2 DEF IsLoop
  <2>4. item[n + 1] \in E
    BY <2>2
  <2> QED
    BY <1>2, <2>1, <2>3, <2>4, CollectsStep
<1> HIDE DEF S
<1>3. N \in S
  BY <1>1, <1>2, SetInduction
<1> QED
  BY <1>3 DEF S

\* The function that a recursive definition of the loop names.
Turns(f, list, N, item, key, Out) ==
  [n \in 0..N |-> IF n = 0 THEN list
                  ELSE IF Skips(f[n - 1], item[n], key, Out) THEN f[n - 1]
                  ELSE Append(f[n - 1], item[n])]

HasTurns(list, N, item, key, Out) == \E f : f = Turns(f, list, N, item, key, Out)

LEMMA TurnsExist ==
  ASSUME NEW list, NEW N \in Nat, NEW item, NEW key, NEW Out
  PROVE  HasTurns(list, N, item, key, Out)
<1> DEFINE S == {n \in Nat : \E f : f = Turns(f, list, n, item, key, Out)}
<1>1. 0 \in S
  <2> DEFINE f == [n \in 0..0 |-> list]
  <2>1. f = Turns(f, list, 0, item, key, Out)
    BY DEF Turns
  <2> QED
    BY <2>1
<1>2. ASSUME NEW n \in Nat, n \in S PROVE n + 1 \in S
  <2>1. PICK f : f = Turns(f, list, n, item, key, Out)
    BY <1>2
  <2> DEFINE last == IF Skips(f[n], item[n + 1], key, Out) THEN f[n] ELSE Append(f[n], item[n + 1])
             g == [m \in 0..n + 1 |-> IF m = n + 1 THEN last ELSE f[m]]
             h == Turns(g, list, n + 1, item, key, Out)
  <2>2. ASSUME NEW m \in 0..n + 1 PROVE g[m] = h[m]
    <3>1. h[m] = IF m = 0 THEN list
                 ELSE IF Skips(g[m - 1], item[m], key, Out) THEN g[m - 1]
                 ELSE Append(g[m - 1], item[m])
      BY <2>2 DEF Turns
    <3>2. CASE m = n + 1
      <4>1. g[m] = last /\ m # 0 /\ m - 1 = n /\ n \in 0..n + 1 /\ n # n + 1
        BY <1>2, <2>2, <3>2
      <4>2. g[n] = f[n]
        BY <4>1
      <4> HIDE DEF g, h
      <4> QED
        BY <3>1, <3>2, <4>1, <4>2
    <3>3. CASE m # n + 1
      <4>1. m \in 0..n /\ g[m] = f[m]
        BY <1>2, <2>2, <3>3
      <4>2. f[m] = IF m = 0 THEN list
                   ELSE IF Skips(f[m - 1], item[m], key, Out) THEN f[m - 1]
                   ELSE Append(f[m - 1], item[m])
        BY <2>1, <4>1 DEF Turns
      <4>3. m # 0 => g[m - 1] = f[m - 1]
        BY <1>2, <4>1
      <4> HIDE DEF g, h
      <4> QED
        BY <3>1, <4>1, <4>2, <4>3
    <3> QED
      BY <3>2, <3>3
  <2>3. g = [m \in 0..n + 1 |-> g[m]] /\ h = [m \in 0..n + 1 |-> h[m]]
    BY DEF Turns
  <2> HIDE DEF g, h
  <2>4. g = h
    BY <2>2, <2>3
  <2>5. \E e : e = Turns(e, list, n + 1, item, key, Out)
    BY <2>4 DEF h
  <2> QED
    BY <1>2, <2>5
<1> HIDE DEF S
<1>3. N \in S
  BY <1>1, <1>2, SetInduction
<1> QED
  BY <1>3 DEF S, HasTurns

\* It passes through lists of E only.
LEMMA TurnsAreTyped ==
  ASSUME NEW E, NEW list \in Seq(E), NEW N \in Nat, NEW item, \A m \in 1..N : item[m] \in E,
         NEW key, NEW Out, NEW f, f = Turns(f, list, N, item, key, Out)
  PROVE  \A n \in 0..N : f[n] \in Seq(E)
<1> TAKE n \in 0..N
<1>1. n \in Nat /\ \A m \in 1..n : item[m] \in E
  OBVIOUS
<1>2. f[0] = list
  BY DEF Turns
<1>3. ASSUME NEW m \in 1..n
      PROVE  f[m] = IF Skips(f[m - 1], item[m], key, Out) THEN f[m - 1]
                    ELSE Append(f[m - 1], item[m])
  <2>1. m \in 0..N /\ m # 0
    BY <1>3
  <2> QED
    BY <2>1 DEF Turns
<1>4. IsLoop(f, E, list, n, item, key, Out)
  BY <1>2, <1>3 DEF IsLoop
<1> QED
  BY <1>1, <1>4, LoopCollects

-----------------------------------------------------------------------------
(* The invariant *)

\* The list of the server: ids stay positive and grow by one with a message.
ServerInv(Is) ==
  /\ top \in [Is -> Cardinality(Is) + 1..3 * Cardinality(Is) + changes]
  /\ raised \subseteq Is
  /\ changes \in 0..MaxChanges

Entries == [dialog : Dialogs, top : Nat]

Number == [e \in Entries |-> D!Id(e.dialog)]

DialogTypes ==
  /\ ServerInv(Dialogs)
  /\ hasFolder \in BOOLEAN
  /\ pc \in {"paging", "done", "failed"}
  /\ offset \in Nat
  /\ found \in Seq(Entries)
  /\ cache \in [D!Numbers -> Dialogs \cup {Nobody}]

\* The next page is below what is listed, as the server had it then.
ListedAbove ==
  pc = "paging" => \A k \in 1..Len(found) : 0 < offset /\ offset <= found[k].top

In(d, list) == \E k \in 1..Len(list) : list[k].dialog = d

\* What OnlyCutsLoseDialogs allows, of any list.
Excused(d, list) ==
  \/ d \in raised
  \/ \E k \in 1..Len(list), e \in Forbidden \cup Silent :
       D!Id(list[k].dialog) = D!Id(e) /\ top[d] < list[k].top
  \/ d \in Twins /\ \E k \in 1..Len(list) : list[k].dialog \in Twins
  \/ hasFolder /\ \E k \in 1..Len(list) : top[d] < list[k].top

\* What is not listed is still to come or may be missed.
DialogsToCome ==
  pc # "failed" =>
    \A d \in Dialogs :
      \/ In(d, found)
      \/ Excused(d, found)
      \/ pc = "paging" /\ (offset = 0 \/ top[d] < offset)

\* PeersAreTheirs, of any list.
Reaches(list, peers) ==
  \A k \in 1..Len(list) :
    list[k].dialog \notin Forbidden \cup Twins => peers[D!Id(list[k].dialog)] = list[k].dialog

DialogInv ==
  DialogTypes /\ Distinct(found, Number) /\ Reaches(found, cache) /\ ListedAbove /\ DialogsToCome

TopicTypes ==
  /\ ServerInv(Topics)
  /\ byCreation \in BOOLEAN
  /\ pc \in {"paging", "done", "failed"}
  /\ offset \in [date : Nat, id : Nat, topic : Topics \cup {0}]
  /\ found \in Seq(Topics \ Gone)

Itself == [t \in Topics |-> t]

Has(list, t) == \E k \in 1..Len(list) : list[k] = t

\* A listed topic gave its creation for an offset among last messages.
WrongOffset(list) == ~byCreation /\ \E k \in 1..Len(list) : list[k] \in Quiet

\* What is not listed is still to come or may be missed.
TopicsToCome ==
  pc # "failed" =>
    \A t \in Topics \ Gone :
      \/ Has(found, t)
      \/ t \in raised
      \/ WrongOffset(found)
      \/ pc = "done" /\ Cardinality(Gone) >= Limit
      \/ pc = "paging" /\ (offset.date = 0 \/ T!Key[t] < offset.date)

TopicInv == TopicTypes /\ Distinct(found, Itself) /\ TopicsToCome

ListingInv ==
  \/ kind = "dialogs" /\ DialogInv
  \/ kind = "topics" /\ TopicInv

-----------------------------------------------------------------------------
(* The server *)

Sized(Is) == IsFiniteSet(Is) /\ Is # {} /\ Cardinality(Is) \in Nat

\* The instances have their own names for the operators of FiniteSets.
LEMMA SameSizes ==
  ASSUME NEW S
  PROVE  /\ D!Cardinality(S) = Cardinality(S) /\ D!IsFiniteSet(S) = IsFiniteSet(S)
         /\ T!Cardinality(S) = Cardinality(S) /\ T!IsFiniteSet(S) = IsFiniteSet(S)
<1>1. D!Cardinality(S) = Cardinality(S) /\ T!Cardinality(S) = Cardinality(S)
  BY Zenon DEF D!Cardinality, T!Cardinality, Cardinality
<1>2. D!IsFiniteSet(S) = IsFiniteSet(S) /\ T!IsFiniteSet(S) = IsFiniteSet(S)
  BY Zenon DEF D!IsFiniteSet, T!IsFiniteSet, IsFiniteSet
<1> QED
  BY <1>1, <1>2

LEMMA ItemsAreSized == Sized(Dialogs) /\ Sized(Topics)
<1>1. IsFiniteSet(Dialogs) /\ Dialogs # {}
  BY ListingAssumption, SameSizes DEF D!DialogConstants
<1>2. IsFiniteSet(Topics) /\ Topics # {}
  BY ListingAssumption, SameSizes DEF T!TopicConstants
<1> QED
  BY <1>1, <1>2, FS_CardinalityType DEF Sized

\* A change moves the last message of one item, down unless it is raised.
Moves(Is) ==
  \E i \in Is :
    \E m \in Nat :
      /\ top' = [top EXCEPT ![i] = m]
      /\ \/ raised' = raised \cup {i}
         \/ raised' = raised /\ m <= top[i]

\* The last message of all is one of the list's.
LEMMA LastOfAll ==
  ASSUME NEW Is, Sized(Is), ServerInv(Is), changes \in Nat, NEW Ts, Ts = {top[i] : i \in Is}
  PROVE  LET m == CHOOSE m \in Ts : \A n \in Ts : n <= m
         IN  m \in Cardinality(Is) + 1..3 * Cardinality(Is) + changes
<1> DEFINE low == Cardinality(Is) + 1
           high == 3 * Cardinality(Is) + changes
<1>1. Ts \subseteq low..high /\ Ts # {}
  BY DEF ServerInv, Sized
<1>2. high \in Nat /\ low \in Nat
  BY DEF Sized
<1> HIDE DEF low, high
<1>3. Ts \subseteq 0..high
  BY <1>1, <1>2
<1>4. \E m \in Ts : \A n \in Ts : n <= m
  BY <1>1, <1>2, <1>3, GreatestNat
<1>5. (CHOOSE m \in Ts : \A n \in Ts : n <= m) \in Ts
  BY <1>4
<1> QED
  BY <1>1, <1>5 DEF low, high

LEMMA DialogsMove ==
  ASSUME ServerInv(Dialogs), D!Changes(Dialogs)
  PROVE  ServerInv(Dialogs)' /\ Moves(Dialogs)
<1> DEFINE size == Cardinality(Dialogs)
<1>1. /\ top \in [Dialogs -> size + 1..3 * size + changes]
      /\ size \in Nat /\ changes \in Nat /\ changes' = changes + 1
      /\ changes' \in 0..MaxChanges /\ raised \subseteq Dialogs
  BY ItemsAreSized, ListingAssumption DEF ServerInv, Sized, D!Changes, D!DialogConstants
<1> HIDE DEF size
<1>2. ASSUME NEW i \in Dialogs, D!Arrives(i)
      PROVE  ServerInv(Dialogs)' /\ Moves(Dialogs)
  <2> DEFINE m == CHOOSE m \in D!Tops : \A n \in D!Tops : n <= m
  <2>1. D!Tops = {top[d] : d \in Dialogs} /\ Sized(Dialogs) /\ changes \in Nat
    BY <1>1, ItemsAreSized DEF D!Tops
  <2>2. m \in size + 1..3 * size + changes
    BY <2>1, LastOfAll, Zenon DEF size
  <2>3. top' = [top EXCEPT ![i] = 1 + m] /\ raised' = raised \cup {i}
    BY <1>2 DEF D!Arrives
  <2> HIDE DEF m
  <2>4. top' \in [Dialogs -> size + 1..3 * size + changes']
    BY <1>1, <2>2, <2>3
  <2>5. 1 + m \in Nat
    BY <1>1, <2>2
  <2> QED
    BY <1>1, <2>3, <2>4, <2>5 DEF ServerInv, Moves, size
<1>3. ASSUME NEW i \in Dialogs, D!Deleted(i)
      PROVE  ServerInv(Dialogs)' /\ Moves(Dialogs)
  <2>1. PICK m \in size + 1..top[i] : top' = [top EXCEPT ![i] = m]
    BY <1>3, SameSizes DEF D!Deleted, D!Size, size
  <2>2. raised' = raised
    BY <1>3 DEF D!Deleted
  <2>3. top[i] \in size + 1..3 * size + changes
    BY <1>1
  <2>4. top' \in [Dialogs -> size + 1..3 * size + changes'] /\ m \in Nat /\ m <= top[i]
    BY <1>1, <2>1, <2>3
  <2> QED
    BY <1>1, <2>1, <2>2, <2>4 DEF ServerInv, Moves, size
<1> QED
  BY <1>2, <1>3 DEF D!Changes

LEMMA TopicsMove ==
  ASSUME ServerInv(Topics), T!Changes(Topics \ Gone)
  PROVE  ServerInv(Topics)' /\ Moves(Topics)
<1> DEFINE size == Cardinality(Topics)
<1>1. /\ top \in [Topics -> size + 1..3 * size + changes]
      /\ size \in Nat /\ changes \in Nat /\ changes' = changes + 1
      /\ changes' \in 0..MaxChanges /\ raised \subseteq Topics
  BY ItemsAreSized, ListingAssumption DEF ServerInv, Sized, T!Changes, T!TopicConstants
<1> HIDE DEF size
<1>2. ASSUME NEW i \in Topics, T!Arrives(i)
      PROVE  ServerInv(Topics)' /\ Moves(Topics)
  <2> DEFINE m == CHOOSE m \in T!Tops : \A n \in T!Tops : n <= m
  <2>1. T!Tops = {top[d] : d \in Topics} /\ Sized(Topics) /\ changes \in Nat
    BY <1>1, ItemsAreSized DEF T!Tops
  <2>2. m \in size + 1..3 * size + changes
    BY <2>1, LastOfAll, Zenon DEF size
  <2>3. top' = [top EXCEPT ![i] = 1 + m] /\ raised' = raised \cup {i}
    BY <1>2 DEF T!Arrives
  <2> HIDE DEF m
  <2>4. top' \in [Topics -> size + 1..3 * size + changes']
    BY <1>1, <2>2, <2>3
  <2>5. 1 + m \in Nat
    BY <1>1, <2>2
  <2> QED
    BY <1>1, <2>3, <2>4, <2>5 DEF ServerInv, Moves, size
<1>3. ASSUME NEW i \in Topics, T!Deleted(i)
      PROVE  ServerInv(Topics)' /\ Moves(Topics)
  <2>1. PICK m \in size + 1..top[i] : top' = [top EXCEPT ![i] = m]
    BY <1>3, SameSizes DEF T!Deleted, T!Size, size
  <2>2. raised' = raised
    BY <1>3 DEF T!Deleted
  <2>3. top[i] \in size + 1..3 * size + changes
    BY <1>1
  <2>4. top' \in [Topics -> size + 1..3 * size + changes'] /\ m \in Nat /\ m <= top[i]
    BY <1>1, <2>1, <2>3
  <2> QED
    BY <1>1, <2>1, <2>2, <2>4 DEF ServerInv, Moves, size
<1> QED
  BY <1>2, <1>3 DEF T!Changes

\* What is known of a page of the server.
IsPage(page, n, Is, key, from) ==
  /\ page \in Seq(Is)
  /\ Len(page) <= n
  /\ \A k \in 1..Len(page) : from = 0 \/ key[page[k]] < from
  /\ \A j, k \in 1..Len(page) : j < k => key[page[k]] < key[page[j]]
  /\ \A i \in Is :
       \/ \E k \in 1..Len(page) : page[k] = i
       \/ from # 0 /\ ~(key[i] < from)
       \/ Len(page) = n /\ \A k \in 1..Len(page) : key[i] < key[page[k]]

LEMMA DialogPage ==
  ASSUME NEW n \in Nat, NEW key, NEW from, NEW page \in D!Firsts(n, key, from)
  PROVE  IsPage(page, n, Dialogs, key, from)
<1> DEFINE after == D!After(key, from)
<1>1. PICK m \in 0..n : page \in [1..m -> after]
  BY DEF D!Firsts
<1>2. after = {i \in Dialogs : from = 0 \/ key[i] < from}
  BY DEF D!After
<1>3. /\ \A j, k \in DOMAIN page : j < k => key[page[k]] < key[page[j]]
      /\ \A i \in after \ D!ToSet(page), k \in DOMAIN page : key[i] < key[page[k]]
      /\ Len(page) = n \/ D!ToSet(page) = after
  BY DEF D!Firsts
<1> HIDE DEF after
<1>4. m \in Nat /\ page \in Seq(after) /\ Len(page) = m /\ DOMAIN page = 1..m
  BY <1>1
<1>5. page \in Seq(Dialogs)
  BY <1>2, <1>4
<1>6. D!ToSet(page) = {page[k] : k \in 1..m}
  BY <1>4 DEF D!ToSet
<1>7. ASSUME NEW i \in Dialogs
      PROVE  \/ \E k \in 1..Len(page) : page[k] = i
             \/ from # 0 /\ ~(key[i] < from)
             \/ Len(page) = n /\ \A k \in 1..Len(page) : key[i] < key[page[k]]
  BY <1>2, <1>3, <1>4, <1>6
<1>8. \A k \in 1..Len(page) : from = 0 \/ key[page[k]] < from
  BY <1>1, <1>2, <1>4
<1> QED
  BY <1>1, <1>3, <1>4, <1>5, <1>7, <1>8 DEF IsPage

LEMMA TopicPage ==
  ASSUME NEW n \in Nat, NEW key, NEW from, NEW page \in T!Firsts(n, key, from)
  PROVE  IsPage(page, n, Topics, key, from)
<1> DEFINE after == T!After(key, from)
<1>1. PICK m \in 0..n : page \in [1..m -> after]
  BY DEF T!Firsts
<1>2. after = {i \in Topics : from = 0 \/ key[i] < from}
  BY DEF T!After
<1>3. /\ \A j, k \in DOMAIN page : j < k => key[page[k]] < key[page[j]]
      /\ \A i \in after \ T!ToSet(page), k \in DOMAIN page : key[i] < key[page[k]]
      /\ Len(page) = n \/ T!ToSet(page) = after
  BY DEF T!Firsts
<1> HIDE DEF after
<1>4. m \in Nat /\ page \in Seq(after) /\ Len(page) = m /\ DOMAIN page = 1..m
  BY <1>1
<1>5. page \in Seq(Topics)
  BY <1>2, <1>4
<1>6. T!ToSet(page) = {page[k] : k \in 1..m}
  BY <1>4 DEF T!ToSet
<1>7. ASSUME NEW i \in Topics
      PROVE  \/ \E k \in 1..Len(page) : page[k] = i
             \/ from # 0 /\ ~(key[i] < from)
             \/ Len(page) = n /\ \A k \in 1..Len(page) : key[i] < key[page[k]]
  BY <1>2, <1>3, <1>4, <1>6
<1>8. \A k \in 1..Len(page) : from = 0 \/ key[page[k]] < from
  BY <1>1, <1>2, <1>4
<1> QED
  BY <1>1, <1>3, <1>4, <1>5, <1>7, <1>8 DEF IsPage

-----------------------------------------------------------------------------
(* The loops of the program *)

EntryOf(batch) == [n \in 1..Len(batch) |-> [dialog |-> batch[n], top |-> top[batch[n]]]]

LEMMA DialogsAdded ==
  ASSUME top \in [Dialogs -> Nat], NEW list \in Seq(Entries), NEW batch \in Seq(Dialogs)
  PROVE  /\ D!Add(list, batch) \in Seq(Entries)
         /\ Collects(D!Add(list, batch), list, Len(batch), EntryOf(batch), Number, {})
<1> DEFINE N == Len(batch)
           item == EntryOf(batch)
           Body(f) == [n \in 0..N |-> IF n = 0 THEN list
                                      ELSE IF D!Seen(f[n - 1], batch[n]) THEN f[n - 1]
                                      ELSE Append(f[n - 1], [dialog |-> batch[n], top |-> top[batch[n]]])]
           added == CHOOSE f : f = Body(f)
<1>1. N \in Nat /\ \A m \in 1..N : item[m] \in Entries
  BY DEF EntryOf, Entries
<1>2. D!Add(list, batch) = added[N]
  BY DEF D!Add
<1>3. ASSUME NEW q \in Seq(Entries), NEW n \in 1..N
      PROVE  /\ D!Seen(q, batch[n]) = Skips(q, item[n], Number, {})
             /\ item[n] = [dialog |-> batch[n], top |-> top[batch[n]]]
  <2>1. item[n] = [dialog |-> batch[n], top |-> top[batch[n]]] /\ item[n] \in Entries
    BY <1>1, <1>3 DEF EntryOf
  <2>2. Number[item[n]] = D!Id(batch[n])
    BY <2>1 DEF Number
  <2>3. \A k \in DOMAIN q : Number[q[k]] = D!Id(q[k].dialog)
    BY <1>3 DEF Number
  <2>4. Skips(q, item[n], Number, {}) <=> \E k \in DOMAIN q : D!Id(q[k].dialog) = D!Id(batch[n])
    BY <2>2, <2>3 DEF Skips
  <2> QED
    BY <2>1, <2>4 DEF D!Seen, Skips
<1> HIDE DEF item
<1>4. \E f : f = Body(f)
  <2>0. HasTurns(list, N, item, Number, {})
    <3> HIDE DEF N
    <3> QED
      BY <1>1, TurnsExist, Zenon
  <2>1. PICK f : f = Turns(f, list, N, item, Number, {})
    BY <2>0, Zenon DEF HasTurns
  <2>2. \A n \in 0..N : f[n] \in Seq(Entries)
    BY <1>1, <2>1, TurnsAreTyped, Zenon
  <2>3. ASSUME NEW n \in 0..N PROVE f[n] = Body(f)[n]
    <3>1. f[n] = IF n = 0 THEN list
                 ELSE IF Skips(f[n - 1], item[n], Number, {}) THEN f[n - 1]
                 ELSE Append(f[n - 1], item[n])
      BY <2>1, <2>3 DEF Turns
    <3>2. CASE n = 0
      BY <3>1, <3>2, <1>1
    <3>3. CASE n # 0
      <4>1. n \in 1..N /\ n - 1 \in 0..N
        BY <1>1, <2>3, <3>3
      <4>2. f[n - 1] \in Seq(Entries)
        BY <2>2, <4>1
      <4>3. Body(f)[n] = IF D!Seen(f[n - 1], batch[n]) THEN f[n - 1]
                         ELSE Append(f[n - 1], [dialog |-> batch[n], top |-> top[batch[n]]])
        BY <2>3, <3>3
      <4> HIDE DEF Body, N
      <4> QED
        BY <3>1, <3>3, <4>1, <4>2, <4>3, <1>3
    <3> QED
      BY <3>2, <3>3
  <2>4. f = [n \in 0..N |-> f[n]] /\ Body(f) = [n \in 0..N |-> Body(f)[n]]
    BY <2>1 DEF Turns
  <2> HIDE DEF Body, N
  <2>5. f = Body(f)
    BY <2>3, <2>4
  <2> QED
    BY <2>5
<1>5. added = Body(added)
  <2> HIDE DEF Body
  <2> QED
    BY <1>4, Zenon
<1> HIDE DEF added
<1>6. added[0] = list
  <2>1. 0 \in 0..N
    BY <1>1
  <2> HIDE DEF N
  <2> QED
    BY <1>5, <2>1
<1>7. ASSUME NEW n \in 1..N, added[n - 1] \in Seq(Entries)
      PROVE  added[n] = IF Skips(added[n - 1], item[n], Number, {}) THEN added[n - 1]
                        ELSE Append(added[n - 1], item[n])
  <2>1. n \in 0..N /\ n # 0
    BY <1>1, <1>7
  <2>2. added[n] = IF D!Seen(added[n - 1], batch[n]) THEN added[n - 1]
                   ELSE Append(added[n - 1], [dialog |-> batch[n], top |-> top[batch[n]]])
    BY <1>5, <2>1
  <2> HIDE DEF Body, N
  <2> QED
    BY <1>3, <1>7, <2>2
<1>8. IsLoop(added, Entries, list, N, item, Number, {})
  BY <1>6, <1>7 DEF IsLoop
<1> HIDE DEF N
<1>9. added[N] \in Seq(Entries) /\ Collects(added[N], list, N, item, Number, {})
  BY <1>1, <1>8, LoopCollects, Zenon
<1> QED
  BY <1>2, <1>9 DEF N, item

LEMMA TopicsAdded ==
  ASSUME NEW list \in Seq(Topics), NEW page \in Seq(Topics)
  PROVE  /\ T!appendForumTopics(list, page) \in Seq(Topics)
         /\ Collects(T!appendForumTopics(list, page), list, Len(page), page, Itself, Gone)
<1> DEFINE N == Len(page)
           Body(f) == [n \in 0..N |-> IF n = 0 THEN list
                                      ELSE IF T!Skipped(f[n - 1], page[n]) THEN f[n - 1]
                                      ELSE Append(f[n - 1], page[n])]
           added == CHOOSE f : f = Body(f)
<1>1. N \in Nat /\ \A m \in 1..N : page[m] \in Topics
  OBVIOUS
<1>2. T!appendForumTopics(list, page) = added[N]
  BY DEF T!appendForumTopics
<1>3. ASSUME NEW q \in Seq(Topics), NEW n \in 1..N
      PROVE  T!Skipped(q, page[n]) = Skips(q, page[n], Itself, Gone)
  <2>1. Itself[page[n]] = page[n]
    BY <1>1, <1>3 DEF Itself
  <2>2. \A k \in DOMAIN q : Itself[q[k]] = q[k]
    BY <1>3 DEF Itself
  <2> QED
    BY <2>1, <2>2 DEF T!Skipped, Skips
<1>4. \E f : f = Body(f)
  <2>0. HasTurns(list, N, page, Itself, Gone)
    <3> HIDE DEF N
    <3> QED
      BY <1>1, TurnsExist, Zenon
  <2>1. PICK f : f = Turns(f, list, N, page, Itself, Gone)
    BY <2>0, Zenon DEF HasTurns
  <2>2. \A n \in 0..N : f[n] \in Seq(Topics)
    BY <1>1, <2>1, TurnsAreTyped, Zenon
  <2>3. ASSUME NEW n \in 0..N PROVE f[n] = Body(f)[n]
    <3>1. f[n] = IF n = 0 THEN list
                 ELSE IF Skips(f[n - 1], page[n], Itself, Gone) THEN f[n - 1]
                 ELSE Append(f[n - 1], page[n])
      BY <2>1, <2>3 DEF Turns
    <3>2. CASE n = 0
      BY <3>1, <3>2, <1>1
    <3>3. CASE n # 0
      <4>1. n \in 1..N /\ n - 1 \in 0..N
        BY <1>1, <2>3, <3>3
      <4>2. f[n - 1] \in Seq(Topics)
        BY <2>2, <4>1
      <4>3. Body(f)[n] = IF T!Skipped(f[n - 1], page[n]) THEN f[n - 1]
                         ELSE Append(f[n - 1], page[n])
        BY <2>3, <3>3
      <4> HIDE DEF Body, N
      <4> QED
        BY <3>1, <3>3, <4>1, <4>2, <4>3, <1>3
    <3> QED
      BY <3>2, <3>3
  <2>4. f = [n \in 0..N |-> f[n]] /\ Body(f) = [n \in 0..N |-> Body(f)[n]]
    BY <2>1 DEF Turns
  <2> HIDE DEF Body, N
  <2>5. f = Body(f)
    BY <2>3, <2>4
  <2> QED
    BY <2>5
<1>5. added = Body(added)
  <2> HIDE DEF Body
  <2> QED
    BY <1>4, Zenon
<1> HIDE DEF added
<1>6. added[0] = list
  <2>1. 0 \in 0..N
    BY <1>1
  <2> HIDE DEF N
  <2> QED
    BY <1>5, <2>1
<1>7. ASSUME NEW n \in 1..N, added[n - 1] \in Seq(Topics)
      PROVE  added[n] = IF Skips(added[n - 1], page[n], Itself, Gone) THEN added[n - 1]
                        ELSE Append(added[n - 1], page[n])
  <2>1. n \in 0..N /\ n # 0
    BY <1>1, <1>7
  <2>2. added[n] = IF T!Skipped(added[n - 1], page[n]) THEN added[n - 1]
                   ELSE Append(added[n - 1], page[n])
    BY <1>5, <2>1
  <2> HIDE DEF Body, N
  <2> QED
    BY <1>3, <1>7, <2>2
<1>8. IsLoop(added, Topics, list, N, page, Itself, Gone)
  BY <1>6, <1>7 DEF IsLoop
<1> HIDE DEF N
<1>9. added[N] \in Seq(Topics) /\ Collects(added[N], list, N, page, Itself, Gone)
  BY <1>1, <1>8, LoopCollects, Zenon
<1> QED
  BY <1>2, <1>9 DEF N

\* The sort keeps the entries: s is list in another order.
Reorders(s, list) ==
  /\ s \in Seq(Entries) /\ Len(s) = Len(list)
  /\ \A k \in 1..Len(s) : \E j \in 1..Len(list) : s[k] = list[j]
  /\ \A j \in 1..Len(list) : \E k \in 1..Len(s) : s[k] = list[j]
  /\ Distinct(list, Number) => Distinct(s, Number)

LEMMA SortReorders ==
  ASSUME NEW list \in Seq(Entries), NEW s \in D!SortedByUnread(list)
  PROVE  Reorders(s, list)
<1> DEFINE N == Len(list)
<1>1. N \in Nat /\ DOMAIN list = 1..N /\ \A k \in 1..N : list[k] \in Entries
  OBVIOUS
<1> HIDE DEF N
<1>2. PICK p \in D!Bijection(1..N, 1..N) : s = [k \in 1..N |-> list[p[k]]]
  BY <1>1 DEF D!SortedByUnread
<1>3. /\ p \in [1..N -> 1..N]
      /\ \A j, k \in 1..N : p[j] = p[k] => j = k
      /\ \A k \in 1..N : \E j \in 1..N : p[j] = k
  BY <1>2 DEF D!Bijection, D!Injection, D!Surjection, D!IsInjective
<1>4. s \in [1..N -> Entries]
  BY <1>1, <1>2, <1>3
<1>5. s \in Seq(Entries) /\ Len(s) = N /\ DOMAIN s = 1..N
  BY <1>1, <1>4
<1>6. \A k \in 1..N : s[k] = list[p[k]] /\ p[k] \in 1..N
  BY <1>2, <1>3
<1>7. ASSUME Distinct(list, Number), NEW j \in 1..N, NEW k \in 1..N, j # k
      PROVE  Number[s[j]] # Number[s[k]]
  <2>1. p[j] # p[k]
    BY <1>3, <1>7
  <2> QED
    BY <1>1, <1>6, <1>7, <2>1 DEF Distinct
<1>8. \A j \in 1..N : \E k \in 1..N : s[k] = list[j]
  BY <1>3, <1>6
<1> QED
  BY <1>5, <1>6, <1>7, <1>8 DEF Reorders, Distinct, N

-----------------------------------------------------------------------------
(* The dialogs *)

LEMMA DialogAssumption ==
  /\ Dialogs \cap {Folder, Nobody, "shared"} = {} /\ Dialogs # {}
  /\ Forbidden \subseteq Dialogs /\ Silent \subseteq Dialogs
  /\ Persons \subseteq Dialogs /\ Persons \cap Forbidden = {}
  /\ Twins \subseteq Dialogs
  /\ Limit \in Nat /\ Limit > 1 /\ MaxChanges \in Nat
<1> USE ListingAssumption DEF D!DialogConstants
<1>1. Twins \subseteq Dialogs
  OBVIOUS
<1> QED
  BY <1>1

LEMMA IdsAreApart ==
  ASSUME NEW d \in Dialogs, NEW e \in Dialogs, D!Id(d) = D!Id(e)
  PROVE  d = e \/ {d, e} \subseteq Twins
BY DialogAssumption DEF D!Id

\* What the entries of a page are without the folder at its head.
BatchOf(page, batch) ==
  \/ page = batch /\ IsPage(batch, Limit, Dialogs, top, offset)
  \/ /\ hasFolder /\ offset = 0
     /\ IsPage(batch, Limit - 1, Dialogs, top, offset)
     /\ Len(batch) > 0 => D!Last(page) = batch[Len(batch)]

LEMMA BatchOfPage ==
  ASSUME NEW page \in D!Pages
  PROVE  BatchOf(page, D!processDialogs(page))
<1> DEFINE batch == D!processDialogs(page)
<1>1. CASE hasFolder /\ offset = 0
  <2>1. PICK rest \in D!Firsts(Limit - 1, top, offset) : page = <<Folder>> \o rest
    BY <1>1 DEF D!Pages
  <2>2. Limit - 1 \in Nat
    BY DialogAssumption
  <2>3. IsPage(rest, Limit - 1, Dialogs, top, offset)
    BY <2>1, <2>2, DialogPage, Zenon
  <2>4. rest \in Seq(Dialogs)
    BY <2>3 DEF IsPage
  <2>5. page = <<Folder>> \o rest /\ page \in Seq(Dialogs \cup {Folder}) /\ page # <<>>
    BY <2>1, <2>4
  <2>6. Head(page) = Folder /\ Tail(page) = rest /\ Len(page) = Len(rest) + 1
    BY <2>4, <2>5
  <2>7. batch = rest
    BY <2>5, <2>6 DEF D!processDialogs
  <2>8. Len(rest) > 0 => D!Last(page) = rest[Len(rest)]
    BY <2>4, <2>5, <2>6 DEF D!Last
  <2> QED
    BY <1>1, <2>3, <2>7, <2>8 DEF BatchOf
<1>2. CASE ~(hasFolder /\ offset = 0)
  <2>1. page \in D!Firsts(Limit, top, offset)
    BY <1>2 DEF D!Pages
  <2>2. IsPage(page, Limit, Dialogs, top, offset)
    BY <2>1, DialogAssumption, DialogPage, Zenon
  <2>3. page \in Seq(Dialogs)
    BY <2>2 DEF IsPage
  <2>4. page # <<>> => Head(page) # Folder
    BY <2>3, DialogAssumption
  <2>5. batch = page
    BY <2>4 DEF D!processDialogs
  <2> QED
    BY <2>2, <2>5 DEF BatchOf
<1> QED
  BY <1>1, <1>2

\* d is below all of a full page.
Below(d, batch) ==
  /\ offset = 0 \/ top[d] < offset
  /\ Len(batch) = Limit \/ (hasFolder /\ Len(batch) = Limit - 1)
  /\ \A k \in 1..Len(batch) : top[d] < top[batch[k]]

\* What the answer leaves: each dialog is listed, excused or below the page,
\* and then below all that is listed.
Gathers(list, batch) ==
  /\ list \in Seq(Entries)
  /\ Distinct(list, Number)
  /\ \A j \in 1..Len(found) : \E k \in 1..Len(list) : list[k] = found[j]
  /\ \A k \in 1..Len(list) :
       \/ \E j \in 1..Len(found) : list[k] = found[j]
       \/ \E m \in 1..Len(batch) : list[k].dialog = batch[m] /\ list[k].top = top[batch[m]]
  /\ \A m \in 1..Len(batch) :
       \E k \in 1..Len(list) : D!Id(list[k].dialog) = D!Id(batch[m])

LEMMA ExcusesStay ==
  ASSUME NEW a, NEW b, \A j \in 1..Len(a) : \E k \in 1..Len(b) : b[k] = a[j], NEW d
  PROVE  (In(d, a) => In(d, b)) /\ (Excused(d, a) => Excused(d, b))
<1>1. In(d, a) => In(d, b)
  BY DEF In
<1>2. ASSUME NEW k \in 1..Len(a), NEW e \in Forbidden \cup Silent,
             D!Id(a[k].dialog) = D!Id(e) /\ top[d] < a[k].top
      PROVE  \E j \in 1..Len(b), f \in Forbidden \cup Silent :
               D!Id(b[j].dialog) = D!Id(f) /\ top[d] < b[j].top
  <2>1. PICK j \in 1..Len(b) : b[j] = a[k]
    BY <1>2
  <2>2. D!Id(b[j].dialog) = D!Id(e) /\ top[d] < b[j].top
    BY <1>2, <2>1
  <2> QED
    BY <1>2, <2>2
<1>3. ASSUME NEW k \in 1..Len(a), a[k].dialog \in Twins
      PROVE  \E j \in 1..Len(b) : b[j].dialog \in Twins
  BY <1>3
<1>4. ASSUME NEW k \in 1..Len(a), top[d] < a[k].top
      PROVE  \E j \in 1..Len(b) : top[d] < b[j].top
  BY <1>4
<1> QED
  BY <1>1, <1>2, <1>3, <1>4 DEF Excused

LEMMA AnswerGathers ==
  ASSUME DialogTypes, Distinct(found, Number), NEW page, NEW batch, BatchOf(page, batch)
  PROVE  Gathers(D!Add(found, batch), batch)
<1> DEFINE list == D!Add(found, batch)
           item == EntryOf(batch)
<1>1. top \in [Dialogs -> Nat]
  BY ItemsAreSized DEF DialogTypes, ServerInv, Sized
<1>2. batch \in Seq(Dialogs) /\ found \in Seq(Entries)
  BY DEF BatchOf, IsPage, DialogTypes
<1>3. list \in Seq(Entries) /\ Collects(list, found, Len(batch), item, Number, {})
  BY <1>1, <1>2, DialogsAdded
<1>4. \A m \in 1..Len(batch) :
        /\ item[m] \in Entries
        /\ item[m].dialog = batch[m] /\ item[m].top = top[batch[m]]
        /\ Number[item[m]] = D!Id(batch[m])
  BY <1>1, <1>2 DEF EntryOf, Entries, Number
<1>5. Len(found) \in Nat /\ Len(list) \in Nat
  BY <1>2, <1>3
<1> HIDE DEF list, item
<1>6. ASSUME NEW j \in 1..Len(found) PROVE \E k \in 1..Len(list) : list[k] = found[j]
  <2>1. list[j] = found[j] /\ j \in 1..Len(list)
    BY <1>3, <1>5, <1>6 DEF Collects
  <2> QED
    BY <2>1
<1>7. ASSUME NEW k \in 1..Len(list)
      PROVE  \/ \E j \in 1..Len(found) : list[k] = found[j]
             \/ \E m \in 1..Len(batch) : list[k].dialog = batch[m] /\ list[k].top = top[batch[m]]
  <2>1. CASE k \in 1..Len(found)
    BY <1>3, <2>1 DEF Collects
  <2>2. CASE k \in Len(found) + 1..Len(list)
    <3>1. PICK m \in 1..Len(batch) : list[k] = item[m]
      BY <1>3, <2>2 DEF Collects
    <3> QED
      BY <1>4, <3>1
  <2> QED
    BY <1>5, <1>7, <2>1, <2>2
<1>8. ASSUME NEW m \in 1..Len(batch)
      PROVE  \E k \in 1..Len(list) : D!Id(list[k].dialog) = D!Id(batch[m])
  <2>1. PICK k \in 1..Len(list) : Number[list[k]] = Number[item[m]]
    BY <1>3, <1>8 DEF Collects
  <2>2. Number[list[k]] = D!Id(list[k].dialog)
    <3>1. list[k] \in Entries
      BY <1>3, <2>1
    <3> QED
      BY <3>1 DEF Number
  <2> QED
    BY <1>4, <1>8, <2>1, <2>2
<1>9. Distinct(list, Number)
  BY <1>3 DEF Collects
<1> QED
  BY <1>3, <1>6, <1>7, <1>8, <1>9 DEF Gathers, list

\* Below the page is below all that is listed: the list is above the page.
LEMMA BelowAllListed ==
  ASSUME DialogTypes, ListedAbove, pc = "paging", NEW list, NEW batch, Gathers(list, batch),
         NEW d \in Dialogs, Below(d, batch), NEW k \in 1..Len(list)
  PROVE  top[d] < list[k].top
<1>1. CASE \E j \in 1..Len(found) : list[k] = found[j]
  <2>1. PICK j \in 1..Len(found) : list[k] = found[j]
    BY <1>1
  <2>2. 0 < offset /\ offset <= found[j].top
    BY <2>1 DEF ListedAbove
  <2>3. top[d] < offset
    BY <2>2 DEF Below
  <2>4. top[d] \in Int
    BY ItemsAreSized DEF DialogTypes, ServerInv, Sized
  <2>5. offset \in Int /\ found[j].top \in Int
    <3>1. offset \in Nat /\ found \in Seq(Entries)
      BY DEF DialogTypes
    <3>2. found[j] \in Entries
      BY <2>1, <3>1
    <3> QED
      BY <3>1, <3>2 DEF Entries
  <2> QED
    BY <2>1, <2>2, <2>3, <2>4, <2>5
<1>2. CASE \E m \in 1..Len(batch) : list[k].dialog = batch[m] /\ list[k].top = top[batch[m]]
  BY <1>2 DEF Below
<1> QED
  BY <1>1, <1>2 DEF Gathers

LEMMA ListedExcusedOrBelow ==
  ASSUME DialogTypes, DialogsToCome, pc = "paging", NEW page, NEW batch, BatchOf(page, batch),
         NEW list, Gathers(list, batch), NEW d \in Dialogs
  PROVE  In(d, list) \/ Excused(d, list) \/ Below(d, batch)
<1>1. (In(d, found) => In(d, list)) /\ (Excused(d, found) => Excused(d, list))
  <2>1. \A j \in 1..Len(found) : \E k \in 1..Len(list) : list[k] = found[j]
    BY DEF Gathers
  <2> QED
    BY <2>1, ExcusesStay
<1>2. CASE offset # 0 /\ ~(top[d] < offset)
  BY <1>1, <1>2 DEF DialogsToCome
<1>3. CASE \E m \in 1..Len(batch) : batch[m] = d
  <2>1. PICK m \in 1..Len(batch) : batch[m] = d
    BY <1>3
  <2>2. PICK k \in 1..Len(list) : D!Id(list[k].dialog) = D!Id(d)
    BY <2>1 DEF Gathers
  <2>3. list[k].dialog \in Dialogs
    <3>1. list[k] \in Entries
      BY <2>2 DEF Gathers
    <3> QED
      BY <3>1 DEF Entries
  <2>4. list[k].dialog = d \/ {list[k].dialog, d} \subseteq Twins
    BY <2>2, <2>3, IdsAreApart
  <2> QED
    BY <2>2, <2>4 DEF In, Excused
<1>4. CASE /\ Len(batch) = Limit \/ (hasFolder /\ Len(batch) = Limit - 1)
           /\ \A k \in 1..Len(batch) : top[d] < top[batch[k]]
           /\ ~(offset # 0 /\ ~(top[d] < offset))
  BY <1>4 DEF Below
<1> QED
  BY <1>2, <1>3, <1>4 DEF BatchOf, IsPage

\* The last dialog of a page that gave no offset had no peer or no date.
LEMMA CacheNames ==
  ASSUME cache \in [D!Numbers -> Dialogs \cup {Nobody}], NEW named \in SUBSET Dialogs
  PROVE  /\ D!CacheWith(named) \in [D!Numbers -> Dialogs \cup {Nobody}]
         /\ \A d \in named : D!CacheWith(named)[D!Id(d)] \in {e \in named : D!Id(e) = D!Id(d)}
         /\ \A n \in D!Numbers :
              (\A d \in named : D!Id(d) # n) => D!CacheWith(named)[n] = cache[n]
<1> DEFINE same(n) == {d \in named : D!Id(d) = n}
           pick(n) == CHOOSE d \in same(n) : same(n) \cap Persons # {} => d \in Persons
<1>1. ASSUME NEW n \in D!Numbers, same(n) # {} PROVE pick(n) \in same(n)
  <2>1. \E d \in same(n) : same(n) \cap Persons # {} => d \in Persons
    BY <1>1
  <2> HIDE DEF same
  <2> QED
    BY <2>1
<1>2. D!CacheWith(named) = [n \in D!Numbers |-> IF same(n) = {} THEN cache[n] ELSE pick(n)]
  BY DEF D!CacheWith
<1>3. \A n \in D!Numbers : same(n) \subseteq Dialogs
  OBVIOUS
<1>4. \A d \in named : D!Id(d) \in D!Numbers /\ d \in same(D!Id(d))
  BY DEF D!Numbers
<1>5. \A n \in D!Numbers : (\A d \in named : D!Id(d) # n) => same(n) = {}
  OBVIOUS
<1> HIDE DEF same, pick
<1>6. D!CacheWith(named) \in [D!Numbers -> Dialogs \cup {Nobody}]
  BY <1>1, <1>2, <1>3
<1>7. \A d \in named : D!CacheWith(named)[D!Id(d)] \in same(D!Id(d))
  BY <1>1, <1>2, <1>4
<1>8. \A n \in D!Numbers :
        (\A d \in named : D!Id(d) # n) => D!CacheWith(named)[n] = cache[n]
  BY <1>2, <1>5
<1> QED
  BY <1>6, <1>7, <1>8 DEF same

LEMMA DialogsListed ==
  ASSUME found \in Seq(Entries)
  PROVE  /\ D!Listed = {found[k].dialog : k \in 1..Len(found)}
         /\ D!Listed \subseteq Dialogs
<1>1. DOMAIN found = 1..Len(found) /\ \A k \in 1..Len(found) : found[k] \in Entries
  OBVIOUS
<1> QED
  BY <1>1 DEF D!Listed, Entries

LEMMA PeersStay ==
  ASSUME DialogTypes, Reaches(found, cache), NEW batch \in Seq(Dialogs),
         NEW list, Gathers(list, batch), NEW named \in SUBSET Dialogs,
         \A m \in 1..Len(batch) : batch[m] \notin Forbidden => batch[m] \in named
  PROVE  Reaches(list, D!CacheWith(named))
<1> DEFINE peers == D!CacheWith(named)
<1> SUFFICES ASSUME NEW k \in 1..Len(list), list[k].dialog \notin Forbidden \cup Twins
             PROVE  peers[D!Id(list[k].dialog)] = list[k].dialog
  BY DEF Reaches
<1> DEFINE d == list[k].dialog
<1>1. cache \in [D!Numbers -> Dialogs \cup {Nobody}]
  BY DEF DialogTypes
<1>2. d \in Dialogs
  <2>1. list[k] \in Entries
    BY DEF Gathers
  <2> QED
    BY <2>1 DEF Entries
<1> HIDE DEF d
<1>3. D!Id(d) \in D!Numbers
  BY <1>2 DEF D!Numbers
<1>4. ASSUME NEW e \in named, D!Id(e) = D!Id(d) PROVE e = d
  <2>1. e \in Dialogs
    OBVIOUS
  <2> QED
    BY <1>2, <1>4, <2>1, IdsAreApart DEF d
<1>5. CASE d \in named
  <2>1. peers[D!Id(d)] \in {e \in named : D!Id(e) = D!Id(d)}
    BY <1>1, <1>5, CacheNames
  <2> QED
    BY <1>4, <2>1 DEF d
<1>6. CASE d \notin named
  <2>1. \A e \in named : D!Id(e) # D!Id(d)
    BY <1>4, <1>6
  <2>2. peers[D!Id(d)] = cache[D!Id(d)]
    BY <1>1, <1>3, <2>1, CacheNames
  <2>3. \A m \in 1..Len(batch) : batch[m] # d
    BY <1>6 DEF d
  <2>4. PICK j \in 1..Len(found) : list[k] = found[j]
    BY <2>3 DEF Gathers, d
  <2>5. cache[D!Id(d)] = d
    BY <2>4 DEF Reaches, d
  <2> QED
    BY <2>2, <2>5 DEF d
<1> QED
  BY <1>5, <1>6

\* Where the next page would start, or where this one ended.
LEMMA LastOfBatch ==
  ASSUME NEW page, NEW batch, BatchOf(page, batch), Len(batch) > 0
  PROVE  /\ D!Last(page) = batch[Len(batch)]
         /\ Len(batch) \in 1..Len(batch)
         /\ D!Last(page) \in Dialogs
<1>1. batch \in Seq(Dialogs)
  BY DEF BatchOf, IsPage
<1>2. Len(batch) \in 1..Len(batch) /\ batch[Len(batch)] \in Dialogs
  BY <1>1
<1>3. D!Last(page) = batch[Len(batch)]
  BY DEF BatchOf, D!Last
<1> QED
  BY <1>2, <1>3

\* A listing that ends leaves an excuse for what is below its last page.
LEMMA EndExcuses ==
  ASSUME DialogTypes, ListedAbove, pc = "paging", NEW page, NEW batch,
         BatchOf(page, batch), batch = D!processDialogs(page), NEW list, Gathers(list, batch),
         NEW named \in SUBSET Dialogs, cache' = D!CacheWith(named),
         \A m \in 1..Len(batch) : batch[m] \notin Forbidden => batch[m] \in named,
         D!Ends(page), NEW d \in Dialogs, Below(d, batch)
  PROVE  Excused(d, list)
<1>1. Limit \in Nat /\ Limit > 1 /\ Folder \notin Dialogs /\ Nobody \notin Dialogs
  BY DialogAssumption
<1>2. Len(batch) > 0 /\ 1 \in 1..Len(batch)
  BY <1>1 DEF Below
<1>3. \A k \in 1..Len(list) : top[d] < list[k].top
  BY BelowAllListed
<1>4. CASE Len(batch) < Limit
  <2>1. hasFolder
    BY <1>1, <1>4 DEF Below
  <2>2. PICK k \in 1..Len(list) : D!Id(list[k].dialog) = D!Id(batch[1])
    BY <1>2 DEF Gathers
  <2> QED
    BY <1>3, <2>1, <2>2 DEF Excused
<1>5. CASE D!Last(page) \in Forbidden \cup Silent
  <2>1. PICK k \in 1..Len(list) : D!Id(list[k].dialog) = D!Id(D!Last(page))
    BY <1>2, LastOfBatch DEF Gathers
  <2> QED
    BY <1>3, <1>5, <2>1 DEF Excused
<1>6. CASE cache'[D!Id(D!Last(page))] = Nobody /\ D!Last(page) \notin Forbidden
  <2>1. D!Last(page) \in named
    BY <1>2, <1>6, LastOfBatch
  <2>2. cache \in [D!Numbers -> Dialogs \cup {Nobody}]
    BY DEF DialogTypes
  <2>3. cache'[D!Id(D!Last(page))] \in named
    BY <2>1, <2>2, CacheNames
  <2> QED
    BY <1>1, <1>6, <2>3
<1>7. D!Last(page) # Folder
  BY <1>1, <1>2, LastOfBatch
<1> QED
  BY <1>4, <1>5, <1>6, <1>7 DEF D!Ends

LEMMA DialogFetch ==
  ASSUME DialogInv, D!FetchPage
  PROVE  DialogInv'
<1>1. pc = "paging" /\ UNCHANGED <<top, raised, changes, hasFolder>>
  BY DEF D!FetchPage, D!server
<1>2. PICK page \in D!Pages, senders \in SUBSET Persons :
        \E list \in {D!Add(found, D!processDialogs(page))} :
          /\ cache' = D!CacheWith((D!ToSet(D!processDialogs(page)) \ Forbidden) \cup senders)
          /\ IF D!Ends(page)
             THEN pc' = "done" /\ found' \in D!SortedByUnread(list) /\ UNCHANGED offset
             ELSE found' = list /\ offset' = D!NextOffset(page) /\ UNCHANGED pc
  BY DEF D!FetchPage
<1> DEFINE batch == D!processDialogs(page)
           list == D!Add(found, batch)
           named == (D!ToSet(batch) \ Forbidden) \cup senders
<1>3. BatchOf(page, batch)
  BY BatchOfPage
<1>4. batch \in Seq(Dialogs)
  BY <1>3 DEF BatchOf, IsPage
<1>5. Gathers(list, batch)
  BY <1>3, AnswerGathers DEF DialogInv
<1>6. /\ cache' = D!CacheWith(named)
      /\ IF D!Ends(page)
         THEN pc' = "done" /\ found' \in D!SortedByUnread(list) /\ offset' = offset
         ELSE found' = list /\ offset' = top[D!Last(page)] /\ pc' = "paging"
  BY <1>1, <1>2 DEF D!NextOffset
<1>7. batch = D!processDialogs(page)
  OBVIOUS
<1> HIDE DEF batch, list
<1>8. named \in SUBSET Dialogs /\ \A m \in 1..Len(batch) : batch[m] \notin Forbidden => batch[m] \in named
  <2>1. D!ToSet(batch) = {batch[m] : m \in 1..Len(batch)}
    BY <1>4 DEF D!ToSet
  <2>2. senders \subseteq Dialogs
    BY DialogAssumption
  <2> QED
    BY <1>4, <2>1, <2>2
<1> HIDE DEF named
<1>9. cache' \in [D!Numbers -> Dialogs \cup {Nobody}] /\ Reaches(list, cache')
  BY <1>4, <1>5, <1>6, <1>8, CacheNames, PeersStay DEF DialogInv, DialogTypes
<1>10. \A d \in Dialogs : In(d, list) \/ Excused(d, list) \/ Below(d, batch)
  BY <1>1, <1>3, <1>5, ListedExcusedOrBelow DEF DialogInv
<1>11. list \in Seq(Entries) /\ Distinct(list, Number)
  BY <1>5 DEF Gathers
<1>12. ServerInv(Dialogs)' /\ hasFolder' \in BOOLEAN /\ ServerInv(Dialogs)
  BY <1>1 DEF DialogInv, DialogTypes, ServerInv
<1>13. CASE D!Ends(page)
  <2>1. Reorders(found', list)
    BY <1>6, <1>11, <1>13, SortReorders
  <2>2. ASSUME NEW d \in Dialogs PROVE (In(d, found) \/ Excused(d, found))'
    <3>1. In(d, list) \/ Excused(d, list)
      BY <1>1, <1>3, <1>5, <1>6, <1>7, <1>8, <1>10, <1>13, EndExcuses DEF DialogInv
    <3>2. In(d, found') \/ Excused(d, found')
      BY <2>1, <3>1, ExcusesStay DEF Reorders
    <3> QED
      BY <1>1, <3>2 DEF In, Excused
  <2>3. found' \in Seq(Entries) /\ Distinct(found', Number)
    BY <1>11, <2>1 DEF Reorders
  <2>4. Reaches(found', cache')
    BY <1>9, <2>1 DEF Reorders, Reaches
  <2>5. DialogTypes'
    BY <1>6, <1>9, <1>12, <1>13, <2>3 DEF DialogInv, DialogTypes
  <2> QED
    BY <1>6, <1>13, <2>2, <2>3, <2>4, <2>5
    DEF DialogInv, ListedAbove, DialogsToCome, Distinct, Reaches, Number
<1>14. CASE ~D!Ends(page)
  <2>1. found' = list /\ offset' = top[D!Last(page)] /\ pc' = "paging"
    BY <1>6, <1>14
  <2>2. Len(batch) > 0
    BY <1>4, <1>7, <1>14, DialogAssumption DEF D!Ends
  <2>3. D!Last(page) \in Dialogs /\ D!Last(page) = batch[Len(batch)] /\ Len(batch) \in 1..Len(batch)
    BY <1>3, <2>2, LastOfBatch
  <2>4. \A d \in Dialogs : top[d] \in Nat /\ top[d] > 0
    BY ItemsAreSized, <1>12 DEF ServerInv, Sized
  <2>5. offset' \in Nat /\ offset' > 0
    BY <2>1, <2>3, <2>4
  <2>6. ASSUME NEW d \in Dialogs
        PROVE  In(d, found)' \/ Excused(d, found)' \/ top'[d] < offset'
    <3>1. CASE Below(d, batch)
      BY <1>1, <2>1, <2>3, <3>1 DEF Below
    <3>2. CASE In(d, list) \/ Excused(d, list)
      BY <1>1, <2>1, <3>2 DEF In, Excused
    <3> QED
      BY <1>10, <3>1, <3>2
  <2>7. ASSUME NEW k \in 1..Len(list) PROVE offset' <= list[k].top
    <3>1. CASE \E j \in 1..Len(found) : list[k] = found[j]
      <4>1. PICK j \in 1..Len(found) : list[k] = found[j]
        BY <3>1
      <4>2. 0 < offset /\ offset <= found[j].top
        BY <1>1, <4>1 DEF DialogInv, ListedAbove
      <4>3. top[batch[Len(batch)]] < offset
        BY <1>3, <2>3, <4>2 DEF BatchOf, IsPage
      <4>4. found[j] \in Entries /\ offset \in Nat
        BY <4>1 DEF DialogInv, DialogTypes
      <4>5. found[j].top \in Nat
        BY <4>4 DEF Entries
      <4> QED
        BY <2>1, <2>3, <2>5, <4>1, <4>2, <4>3, <4>4, <4>5
    <3>2. CASE \E m \in 1..Len(batch) : list[k].dialog = batch[m] /\ list[k].top = top[batch[m]]
      <4>1. PICK m \in 1..Len(batch) : list[k].top = top[batch[m]]
        BY <3>2
      <4>2. m = Len(batch) \/ m < Len(batch)
        BY <1>4
      <4>3. m < Len(batch) => top[batch[Len(batch)]] < top[batch[m]]
        BY <1>3, <2>3, <4>1 DEF BatchOf, IsPage
      <4>4. batch[m] \in Dialogs
        BY <1>4, <4>1
      <4> QED
        BY <2>1, <2>3, <2>4, <4>1, <4>2, <4>3, <4>4
    <3> QED
      BY <1>5, <3>1, <3>2 DEF Gathers
  <2>8. DialogTypes'
    BY <1>9, <1>11, <1>12, <2>1, <2>5 DEF DialogInv, DialogTypes
  <2>9. Distinct(found, Number)' /\ Reaches(found, cache)'
    BY <1>9, <1>11, <2>1 DEF Distinct, Reaches, Number
  <2>10. ListedAbove'
    BY <2>1, <2>5, <2>7 DEF ListedAbove
  <2>11. DialogsToCome'
    BY <2>6, <2>1 DEF DialogsToCome
  <2> QED
    BY <2>8, <2>9, <2>10, <2>11 DEF DialogInv
<1> QED
  BY <1>13, <1>14

LEMMA DialogStart ==
  ASSUME D!Init
  PROVE  DialogInv
<1> DEFINE size == Cardinality(Dialogs)
<1>1. /\ size \in Nat /\ size = D!Size
      /\ top \in [Dialogs -> {size + 2 * k : k \in 1..size}]
      /\ raised = {} /\ changes = 0 /\ MaxChanges \in Nat
  BY ItemsAreSized, SameSizes, DialogAssumption DEF Sized, D!Init, D!ServerInit, D!Size
<1> HIDE DEF size
<1>2. top \in [Dialogs -> size + 1..3 * size + changes]
  BY <1>1
<1>3. ServerInv(Dialogs)
  BY <1>1, <1>2 DEF ServerInv, size
<1>4. /\ hasFolder \in BOOLEAN /\ pc = "paging" /\ offset = 0 /\ found = <<>>
      /\ cache = [n \in D!Numbers |-> Nobody]
  BY DEF D!Init
<1>5. DialogTypes
  BY <1>3, <1>4 DEF DialogTypes
<1>6. Len(found) = 0 /\ DOMAIN found = 1..0
  BY <1>4
<1>7. Distinct(found, Number) /\ Reaches(found, cache) /\ ListedAbove
  BY <1>6 DEF Distinct, Reaches, ListedAbove
<1>8. DialogsToCome
  BY <1>4 DEF DialogsToCome
<1> QED
  BY <1>5, <1>7, <1>8 DEF DialogInv

LEMMA DialogFail ==
  ASSUME DialogInv, D!Fail
  PROVE  DialogInv'
<1>1. /\ pc' = "failed" /\ found' = <<>>
      /\ UNCHANGED <<top, raised, changes, hasFolder, offset, cache>>
  BY DEF D!Fail, D!server
<1>2. DialogTypes'
  BY <1>1 DEF DialogInv, DialogTypes, ServerInv, Entries
<1>3. Len(found') = 0 /\ DOMAIN found' = 1..0
  BY <1>1
<1>4. Distinct(found, Number)' /\ Reaches(found, cache)' /\ ListedAbove'
  BY <1>1, <1>3 DEF Distinct, Reaches, ListedAbove
<1>5. DialogsToCome'
  BY <1>1 DEF DialogsToCome
<1> QED
  BY <1>2, <1>4, <1>5 DEF DialogInv

LEMMA DialogMove ==
  ASSUME DialogInv, D!Reordered
  PROVE  DialogInv'
<1>1. pc = "paging" /\ UNCHANGED <<hasFolder, pc, offset, found, cache>>
  BY DEF D!Reordered
<1>2. ServerInv(Dialogs)' /\ Moves(Dialogs)
  BY DialogsMove DEF D!Reordered, DialogInv, DialogTypes
<1>3. DialogTypes'
  BY <1>1, <1>2 DEF DialogInv, DialogTypes
<1>4. Distinct(found, Number)' /\ Reaches(found, cache)' /\ ListedAbove'
  BY <1>1 DEF DialogInv, Distinct, Reaches, ListedAbove, Number
<1>5. PICK i \in Dialogs, m \in Nat :
        /\ top' = [top EXCEPT ![i] = m]
        /\ raised' = raised \cup {i} \/ (raised' = raised /\ m <= top[i])
  BY <1>2 DEF Moves
<1>6. top \in [Dialogs -> Nat]
  BY ItemsAreSized DEF DialogInv, DialogTypes, ServerInv, Sized
<1>7. ASSUME NEW d \in Dialogs
      PROVE  In(d, found)' \/ Excused(d, found)' \/ offset = 0 \/ top'[d] < offset
  <2>1. CASE d = i /\ raised' = raised \cup {i}
    BY <2>1 DEF Excused
  <2>2. CASE top'[d] <= top[d] /\ raised \subseteq raised'
    <3>1. top'[d] \in Nat /\ top[d] \in Nat /\ offset \in Nat
      BY <1>5, <1>6 DEF DialogInv, DialogTypes
    <3>2. CASE Excused(d, found)
      <4>1. \A k \in 1..Len(found) : found[k].top \in Nat
        <5>1. found \in Seq(Entries)
          BY DEF DialogInv, DialogTypes
        <5>2. \A k \in 1..Len(found) : found[k] \in Entries
          BY <5>1
        <5> QED
          BY <5>2 DEF Entries
      <4>2. \A k \in 1..Len(found) : top[d] < found[k].top => top'[d] < found[k].top
        BY <2>2, <3>1, <4>1
      <4> QED
        BY <1>1, <2>2, <3>2, <4>2 DEF Excused
    <3>3. CASE In(d, found)
      BY <1>1, <3>3 DEF In
    <3>4. CASE offset = 0 \/ top[d] < offset
      BY <2>2, <3>1, <3>4
    <3> QED
      BY <1>1, <3>2, <3>3, <3>4 DEF DialogInv, DialogsToCome
  <2>3. d # i => top'[d] = top[d]
    BY <1>5, <1>6
  <2>4. top'[i] = m
    BY <1>5, <1>6
  <2>5. top[d] \in Nat
    BY <1>6
  <2> QED
    BY <1>5, <2>1, <2>2, <2>3, <2>4, <2>5
<1>8. DialogsToCome'
  BY <1>1, <1>7 DEF DialogsToCome
<1> QED
  BY <1>3, <1>4, <1>8 DEF DialogInv

\* What the invariant says of the properties of the runs.
LEMMA DialogPromises ==
  ASSUME DialogInv
  PROVE  D!TypeOK /\ D!ListedOnce /\ D!OnlyCutsLoseDialogs /\ D!PeersAreTheirs
<1>1. DialogTypes /\ found \in Seq(Entries) /\ Len(found) \in Nat
  BY DEF DialogInv, DialogTypes
<1>2. DOMAIN found = 1..Len(found) /\ \A k \in 1..Len(found) : found[k] \in Entries
  BY <1>1
<1>3. D!Listed = {found[k].dialog : k \in 1..Len(found)} /\ D!Listed \subseteq Dialogs
  BY <1>1, DialogsListed
<1>4. D!ListedOnce
  <2>1. \A k \in 1..Len(found) : Number[found[k]] = D!Id(found[k].dialog)
    BY <1>2 DEF Number
  <2> QED
    BY <1>2, <2>1 DEF DialogInv, Distinct, D!ListedOnce
<1>5. D!PeersAreTheirs
  <2> SUFFICES ASSUME NEW d \in D!Listed \ (Forbidden \cup Twins) PROVE cache[D!Id(d)] = d
    BY DEF D!PeersAreTheirs
  <2>1. PICK k \in 1..Len(found) : d = found[k].dialog
    BY <1>3
  <2> QED
    BY <2>1 DEF DialogInv, Reaches
<1>6. D!OnlyCutsLoseDialogs
  <2> SUFFICES ASSUME pc = "done", NEW d \in Dialogs \ D!Listed
               PROVE  d \in raised \/ D!CutOff(d) \/ D!Shadowed(d) \/ D!BelowFolder(d)
    BY DEF D!OnlyCutsLoseDialogs
  <2>1. ~In(d, found)
    BY <1>3 DEF In
  <2>2. Excused(d, found)
    BY <2>1 DEF DialogInv, DialogsToCome
  <2>3. ASSUME NEW k \in 1..Len(found), found[k].dialog \in Twins, d \in Twins
        PROVE  D!Shadowed(d)
    BY <1>3, <2>3 DEF D!Shadowed
  <2> QED
    BY <1>2, <2>2, <2>3 DEF Excused, D!CutOff, D!BelowFolder
<1>7. Len(found) <= Cardinality(Dialogs)
  <2> DEFINE f == [k \in 1..Len(found) |-> found[k].dialog]
  <2>1. f \in [1..Len(found) -> Dialogs]
    BY <1>2 DEF Entries
  <2>2. ASSUME NEW j \in 1..Len(found), NEW k \in 1..Len(found), f[j] = f[k] PROVE j = k
    BY <1>2, <1>4, <2>2 DEF D!ListedOnce
  <2>3. IsFiniteSet(1..Len(found)) /\ Cardinality(1..Len(found)) = Len(found)
    BY <1>1, FS_Interval
  <2>4. IsFiniteSet(Dialogs) /\ Cardinality(Dialogs) \in Nat
    BY ItemsAreSized DEF Sized
  <2> HIDE DEF f
  <2>5. CASE Len(found) > Cardinality(Dialogs)
    BY <2>1, <2>2, <2>3, <2>4, <2>5, FS_PigeonHole
  <2> QED
    BY <1>1, <2>4, <2>5
<1>8. D!ServerTypeOK
  <2>1. Cardinality(Dialogs) = D!Size /\ Cardinality(Dialogs) \in Nat /\ MaxChanges \in Nat
    BY SameSizes, ItemsAreSized, DialogAssumption DEF D!Size, Sized
  <2> QED
    BY <1>1, <2>1 DEF DialogTypes, ServerInv, D!ServerTypeOK
<1>9. D!TypeOK
  BY <1>1, <1>3, <1>7, <1>8, SameSizes DEF DialogTypes, D!TypeOK, D!Size
<1> QED
  BY <1>4, <1>5, <1>6, <1>9

-----------------------------------------------------------------------------
(* The topics *)

LEMMA TopicAssumption ==
  /\ Topics \subseteq Nat \ {0} /\ Gone \subseteq Topics /\ Quiet \subseteq Topics
  /\ Limit \in Nat /\ Limit > 0 /\ MaxChanges \in Nat
  /\ IsFiniteSet(Gone) /\ Cardinality(Gone) \in Nat
<1>1. Gone \subseteq Topics /\ IsFiniteSet(Topics)
  BY ListingAssumption, ItemsAreSized DEF T!TopicConstants, Sized
<1>2. IsFiniteSet(Gone) /\ Cardinality(Gone) \in Nat
  BY <1>1, FS_Subset, FS_CardinalityType
<1> QED
  BY <1>2, ListingAssumption DEF T!TopicConstants

LEMMA KeyIsPositive ==
  ASSUME TopicTypes
  PROVE  /\ T!Key \in [Topics -> Nat \ {0}]
         /\ top \in [Topics -> Nat \ {0}]
         /\ T!Created = [t \in Topics |-> t]
<1>1. top \in [Topics -> Nat \ {0}]
  BY ItemsAreSized DEF TopicTypes, ServerInv, Sized
<1>2. T!Created = [t \in Topics |-> t]
  BY DEF T!Created
<1>3. T!Created \in [Topics -> Nat \ {0}]
  BY <1>2, TopicAssumption
<1> QED
  BY <1>1, <1>2, <1>3 DEF T!Key

\* The last live topic of a page is one of them.
LEMMA LastLiveIsLive ==
  ASSUME NEW page \in Seq(Topics), T!Live(page) # {}
  PROVE  \E k \in 1..Len(page) : T!LastLive(page) = page[k] /\ page[k] \notin Gone
<1> DEFINE live == T!Live(page)
           last == CHOOSE k \in live : \A j \in live : j <= k
<1>1. live \subseteq 0..Len(page) /\ Len(page) \in Nat
  BY DEF T!Live
<1>2. live = {k \in 1..Len(page) : page[k] \notin Gone}
  BY DEF T!Live
<1>3. T!LastLive(page) = page[last]
  BY DEF T!LastLive
<1> HIDE DEF live
<1>4. live # {}
  BY DEF live
<1>5. \E k \in live : \A j \in live : j <= k
  BY <1>1, <1>4, GreatestNat
<1>6. last \in live
  BY <1>5
<1> HIDE DEF last
<1> QED
  BY <1>2, <1>3, <1>6

\* A full page of deleted topics takes as many of them.
LEMMA PageOfGone ==
  ASSUME TopicTypes, NEW page, IsPage(page, Limit, Topics, T!Key, offset.date),
         Len(page) = Limit, T!Live(page) = {}
  PROVE  Cardinality(Gone) >= Limit
<1>1. page \in Seq(Topics) /\ Limit \in Nat
  BY TopicAssumption DEF IsPage
<1>2. page \in [1..Limit -> Gone]
  BY <1>1 DEF T!Live
<1>3. ASSUME NEW j \in 1..Limit, NEW k \in 1..Limit, page[j] = page[k] PROVE j = k
  <2>1. ASSUME NEW a \in 1..Limit, NEW b \in 1..Limit, a < b PROVE page[a] # page[b]
    <3>1. T!Key[page[b]] < T!Key[page[a]]
      BY <2>1 DEF IsPage
    <3>2. T!Key[page[a]] \in Nat
      BY <1>1, <2>1, KeyIsPositive
    <3> QED
      BY <3>1, <3>2
  <2> QED
    BY <1>1, <1>3, <2>1
<1>4. IsFiniteSet(1..Limit) /\ Cardinality(1..Limit) = Limit
  BY <1>1, FS_Interval
<1>5. CASE Limit > Cardinality(Gone)
  BY <1>2, <1>3, <1>4, <1>5, TopicAssumption, FS_PigeonHole
<1> QED
  BY <1>5, TopicAssumption

\* What a page leaves to come is below all of it.
BelowTopics(t, page) ==
  /\ offset.date = 0 \/ T!Key[t] < offset.date
  /\ Len(page) = Limit
  /\ \A k \in 1..Len(page) : T!Key[t] < T!Key[page[k]]

LEMMA TopicFetch ==
  ASSUME TopicInv, T!FetchPage
  PROVE  TopicInv'
<1>1. pc = "paging" /\ UNCHANGED <<top, raised, changes, byCreation>>
  BY DEF T!FetchPage, T!server
<1>2. PICK page \in T!Pages :
        /\ found' = T!appendForumTopics(found, page)
        /\ IF T!Ends(page)
           THEN pc' = "done" /\ UNCHANGED offset
           ELSE T!Advance(page) /\ UNCHANGED pc
  BY DEF T!FetchPage
<1>3. IsPage(page, Limit, Topics, T!Key, offset.date)
  BY TopicAssumption, TopicPage, Zenon DEF T!Pages
<1>4. page \in Seq(Topics) /\ Len(page) \in Nat
  BY <1>3 DEF IsPage
<1>5. found \in Seq(Topics \ Gone) /\ found \in Seq(Topics)
  BY DEF TopicInv, TopicTypes
<1>6. found' \in Seq(Topics) /\ Collects(found', found, Len(page), page, Itself, Gone)
  BY <1>2, <1>4, <1>5, TopicsAdded
<1>7. Len(found) \in Nat /\ Len(found') \in Nat /\ Len(found) <= Len(found')
  BY <1>5, <1>6 DEF Collects
<1>8. \A k \in 1..Len(found) : found'[k] = found[k] /\ k \in 1..Len(found')
  BY <1>6, <1>7 DEF Collects
<1>9. ASSUME NEW m \in 1..Len(page), page[m] \notin Gone PROVE Has(found', page[m])
  <2>1. PICK k \in 1..Len(found') : Itself[found'[k]] = Itself[page[m]]
    BY <1>6, <1>9 DEF Collects
  <2>2. found'[k] \in Topics /\ page[m] \in Topics
    BY <1>4, <1>6, <1>9, <2>1
  <2> QED
    BY <2>1, <2>2 DEF Has, Itself
<1>10. found' \in Seq(Topics \ Gone)
  <2>1. ASSUME NEW k \in 1..Len(found') PROVE found'[k] \in Topics \ Gone
    <3>1. CASE k \in 1..Len(found)
      BY <1>5, <1>8, <3>1
    <3>2. CASE k \in Len(found) + 1..Len(found')
      <4>1. \E m \in 1..Len(page) : page[m] \notin Gone /\ found'[k] = page[m]
        BY <1>6, <3>2 DEF Collects
      <4> QED
        BY <1>4, <4>1
    <3> QED
      BY <1>7, <2>1, <3>1, <3>2
  <2> QED
    BY <1>6, <2>1
<1>11. Distinct(found', Itself)
  BY <1>6 DEF Collects, TopicInv
<1>12. ServerInv(Topics)' /\ byCreation' \in BOOLEAN
  BY <1>1 DEF TopicInv, TopicTypes, ServerInv
<1>13. T!Key \in [Topics -> Nat \ {0}] /\ top \in [Topics -> Nat \ {0}] /\ T!Created = [t \in Topics |-> t]
  BY KeyIsPositive DEF TopicInv
<1>14. offset.date \in Nat /\ offset \in [date : Nat, id : Nat, topic : Topics \cup {0}]
  BY DEF TopicInv, TopicTypes
<1>15. WrongOffset(found) => WrongOffset(found')
  BY <1>8 DEF WrongOffset
<1>16. ASSUME NEW t \in Topics \ Gone
       PROVE  Has(found', t) \/ t \in raised \/ WrongOffset(found') \/ BelowTopics(t, page)
  <2>1. Has(found, t) => Has(found', t)
    BY <1>8 DEF Has
  <2>2. CASE \E k \in 1..Len(page) : page[k] = t
    BY <1>9, <2>2
  <2>3. CASE offset.date # 0 /\ ~(T!Key[t] < offset.date)
    BY <1>1, <1>15, <2>1, <2>3 DEF TopicInv, TopicsToCome
  <2>4. CASE /\ Len(page) = Limit /\ \A k \in 1..Len(page) : T!Key[t] < T!Key[page[k]]
             /\ ~(offset.date # 0 /\ ~(T!Key[t] < offset.date))
    BY <2>4 DEF BelowTopics
  <2> QED
    BY <1>3, <2>2, <2>3, <2>4 DEF IsPage
\* The offset after the page is the key of its last live topic, or wrong.
<1>17. ASSUME T!Live(page) # {}
       PROVE  /\ T!nextForumTopicOffset(page) \in [date : Nat, id : Nat, topic : Topics \cup {0}]
              /\ \/ WrongOffset(found')
                 \/ \E k \in 1..Len(page) : T!nextForumTopicOffset(page).date = T!Key[page[k]]
  <2>1. PICK k \in 1..Len(page) : T!LastLive(page) = page[k] /\ page[k] \notin Gone
    BY <1>4, <1>17, LastLiveIsLive
  <2> DEFINE t == page[k]
  <2>2. t \in Topics /\ Has(found', t)
    BY <1>4, <1>9, <2>1
  <2>3. T!nextForumTopicOffset(page) = [date |-> T!OffsetDate(t), id |-> top[t], topic |-> t]
    BY <2>1 DEF T!nextForumTopicOffset
  <2> HIDE DEF t
  <2>4. T!OffsetDate(t) = IF byCreation \/ t \in Quiet THEN t ELSE top[t]
    BY <1>13, <2>2 DEF T!OffsetDate
  <2>5. T!OffsetDate(t) \in Nat /\ top[t] \in Nat
    BY <1>13, <2>2, <2>4, TopicAssumption
  <2>6. CASE ~byCreation /\ t \in Quiet
    BY <1>1, <2>2, <2>3, <2>5, <2>6 DEF WrongOffset, Has
  <2>7. CASE byCreation \/ t \notin Quiet
    <3>1. T!OffsetDate(t) = T!Key[t]
      BY <1>13, <2>2, <2>4, <2>7 DEF T!Key
    <3> QED
      BY <2>2, <2>3, <2>5, <3>1 DEF t
  <2> QED
    BY <2>6, <2>7
<1>18. CASE T!Ends(page)
  <2>1. pc' = "done" /\ offset' = offset
    BY <1>2, <1>18
  <2>2. ASSUME NEW t \in Topics \ Gone
        PROVE  (Has(found, t) \/ t \in raised \/ WrongOffset(found))' \/ Cardinality(Gone) >= Limit
    <3>1. CASE BelowTopics(t, page)
      <4>1. Len(page) = Limit
        BY <3>1 DEF BelowTopics
      <4>2. CASE T!Live(page) = {}
        BY <1>3, <4>1, <4>2, PageOfGone DEF TopicInv
      <4>3. CASE T!Live(page) # {} /\ T!nextForumTopicOffset(page) = offset /\ ~WrongOffset(found')
        <5>1. PICK k \in 1..Len(page) : offset.date = T!Key[page[k]]
          BY <1>17, <4>3
        <5>2. page[k] \in Topics
          BY <1>4, <5>1
        <5>3. offset.date # 0
          BY <1>13, <5>1, <5>2
        <5>4. T!Key[page[k]] < offset.date
          BY <1>3, <5>1, <5>3 DEF IsPage
        <5> QED
          BY <1>14, <5>1, <5>4
      <4>4. Limit \in Nat
        BY TopicAssumption
      <4> QED
        BY <1>1, <1>18, <4>1, <4>2, <4>3, <4>4 DEF T!Ends, WrongOffset
    <3> QED
      BY <1>1, <1>16, <3>1 DEF Has, WrongOffset
  <2>3. TopicTypes'
    BY <1>10, <1>12, <1>14, <2>1 DEF TopicTypes
  <2>4. TopicsToCome'
    BY <2>1, <2>2 DEF TopicsToCome
  <2> QED
    BY <1>11, <2>3, <2>4 DEF TopicInv, Distinct, Itself
<1>19. CASE ~T!Ends(page)
  <2>1. pc' = "paging" /\ offset' = T!nextForumTopicOffset(page)
    BY <1>1, <1>2, <1>19 DEF T!Advance
  <2>2. T!Live(page) # {}
    BY <1>19 DEF T!Ends
  <2>3. offset' \in [date : Nat, id : Nat, topic : Topics \cup {0}]
    BY <1>17, <2>1, <2>2
  <2>4. T!Key' = T!Key
    BY <1>1 DEF T!Key, T!Created
  <2>5. ASSUME NEW t \in Topics \ Gone
        PROVE  (Has(found, t) \/ t \in raised \/ WrongOffset(found))' \/ T!Key[t] < offset'.date
    <3>1. CASE BelowTopics(t, page) /\ ~WrongOffset(found')
      <4>1. PICK k \in 1..Len(page) : offset'.date = T!Key[page[k]]
        BY <1>17, <2>1, <2>2, <3>1
      <4> QED
        BY <3>1, <4>1 DEF BelowTopics
    <3> QED
      BY <1>1, <1>16, <3>1 DEF Has, WrongOffset
  <2>6. TopicTypes'
    BY <1>10, <1>12, <2>1, <2>3 DEF TopicTypes
  <2>7. TopicsToCome'
    BY <2>1, <2>4, <2>5 DEF TopicsToCome
  <2> QED
    BY <1>11, <2>6, <2>7 DEF TopicInv, Distinct, Itself
<1> QED
  BY <1>18, <1>19

LEMMA TopicStart ==
  ASSUME T!Init
  PROVE  TopicInv
<1> DEFINE size == Cardinality(Topics)
<1>1. /\ size \in Nat /\ size = T!Size
      /\ top \in [Topics -> {size + 2 * k : k \in 1..size}]
      /\ raised = {} /\ changes = 0 /\ MaxChanges \in Nat
  BY ItemsAreSized, SameSizes, TopicAssumption DEF Sized, T!Init, T!ServerInit, T!Size
<1> HIDE DEF size
<1>2. top \in [Topics -> size + 1..3 * size + changes]
  BY <1>1
<1>3. ServerInv(Topics)
  BY <1>1, <1>2 DEF ServerInv, size
<1>4. /\ byCreation \in BOOLEAN /\ pc = "paging" /\ found = <<>>
      /\ offset = [date |-> 0, id |-> 0, topic |-> 0]
  BY DEF T!Init
<1>5. TopicTypes
  BY <1>3, <1>4 DEF TopicTypes
<1>6. Distinct(found, Itself)
  BY <1>4 DEF Distinct
<1>7. TopicsToCome
  BY <1>4 DEF TopicsToCome
<1> QED
  BY <1>5, <1>6, <1>7 DEF TopicInv

LEMMA TopicFail ==
  ASSUME TopicInv, T!Fail
  PROVE  TopicInv'
<1>1. /\ pc' = "failed" /\ found' = <<>>
      /\ UNCHANGED <<top, raised, changes, byCreation, offset>>
  BY DEF T!Fail, T!server
<1>2. TopicTypes'
  BY <1>1 DEF TopicInv, TopicTypes, ServerInv
<1>3. Distinct(found, Itself)'
  BY <1>1 DEF Distinct
<1>4. TopicsToCome'
  BY <1>1 DEF TopicsToCome
<1> QED
  BY <1>2, <1>3, <1>4 DEF TopicInv

LEMMA TopicMove ==
  ASSUME TopicInv, T!Reordered
  PROVE  TopicInv'
<1>1. pc = "paging" /\ UNCHANGED <<pc, byCreation, offset, found>>
  BY DEF T!Reordered
<1>2. ServerInv(Topics)' /\ Moves(Topics)
  BY TopicsMove DEF T!Reordered, TopicInv, TopicTypes
<1>3. TopicTypes'
  BY <1>1, <1>2 DEF TopicInv, TopicTypes
<1>4. Distinct(found, Itself)'
  BY <1>1 DEF TopicInv, Distinct, Itself
<1>5. PICK i \in Topics, m \in Nat :
        /\ top' = [top EXCEPT ![i] = m]
        /\ raised' = raised \cup {i} \/ (raised' = raised /\ m <= top[i])
  BY <1>2 DEF Moves
<1>6. top \in [Topics -> Nat] /\ offset.date \in Nat
  BY KeyIsPositive DEF TopicInv, TopicTypes
<1>7. ASSUME NEW t \in Topics \ Gone
      PROVE  (Has(found, t) \/ t \in raised \/ WrongOffset(found)
               \/ offset.date = 0 \/ T!Key[t] < offset.date)'
  <2>1. CASE t \in raised'
    BY <2>1
  <2>2. CASE t \notin raised'
    <3>1. top'[t] <= top[t] /\ top'[t] \in Nat /\ top[t] \in Nat
      BY <1>5, <1>6, <2>2
    <3>2. T!Key'[t] = T!Key[t] \/ (T!Key'[t] = top'[t] /\ T!Key[t] = top[t])
      BY <1>1 DEF T!Key, T!Created
    <3>3. T!Key[t] < offset.date => T!Key'[t] < offset.date
      BY <1>6, <3>1, <3>2
    <3>4. t \notin raised
      BY <1>5, <2>2
    <3> QED
      BY <1>1, <3>3, <3>4 DEF TopicInv, TopicsToCome, Has, WrongOffset
  <2> QED
    BY <2>1, <2>2
<1>8. TopicsToCome'
  BY <1>1, <1>7 DEF TopicsToCome
<1> QED
  BY <1>3, <1>4, <1>8 DEF TopicInv

LEMMA TopicPromises ==
  ASSUME TopicInv
  PROVE  T!TypeOK /\ T!ListedOnce /\ T!OnlyCutsLoseTopics
<1>1. TopicTypes /\ found \in Seq(Topics \ Gone)
  BY DEF TopicInv, TopicTypes
<1>2. /\ DOMAIN found = 1..Len(found)
      /\ \A k \in 1..Len(found) : found[k] \in Topics \ Gone
      /\ T!ToSet(found) = {found[k] : k \in 1..Len(found)}
  BY <1>1 DEF T!ToSet
<1>3. T!ListedOnce
  BY <1>2 DEF TopicInv, Distinct, Itself, T!ListedOnce, T!IsInjective
<1>4. T!OnlyCutsLoseTopics
  <2> SUFFICES ASSUME pc = "done", NEW t \in Topics \ (Gone \cup T!ToSet(found))
               PROVE  \/ t \in raised
                      \/ ~byCreation /\ Quiet \cap T!ToSet(found) # {}
                      \/ Cardinality(Gone) >= Limit
    BY SameSizes DEF T!OnlyCutsLoseTopics
  <2>1. ~Has(found, t)
    BY <1>2 DEF Has
  <2>2. WrongOffset(found) => ~byCreation /\ Quiet \cap T!ToSet(found) # {}
    BY <1>2 DEF WrongOffset
  <2> QED
    BY <2>1, <2>2 DEF TopicInv, TopicsToCome
<1>5. T!ServerTypeOK
  <2>1. Cardinality(Topics) = T!Size /\ Cardinality(Topics) \in Nat /\ MaxChanges \in Nat
    BY SameSizes, ItemsAreSized, TopicAssumption DEF T!Size, Sized
  <2> QED
    BY <1>1, <2>1 DEF TopicTypes, ServerInv, T!ServerTypeOK
<1>6. T!TypeOK
  BY <1>1, <1>2, <1>5 DEF TopicTypes, T!TypeOK
<1> QED
  BY <1>3, <1>4, <1>6

-----------------------------------------------------------------------------
(* What the end of the loops rests on *)

Items == IF kind = "dialogs" THEN Dialogs ELSE Topics

Position == IF kind = "dialogs" THEN offset ELSE offset.date

\* How many requests a listing may still send, at most.
RequestsLeft ==
  IF pc # "paging" THEN 0
  ELSE IF Position = 0 THEN 3 * Cardinality(Items) + MaxChanges + 1
  ELSE Position

\* Every request leaves fewer, and nothing that happens meanwhile leaves more.
RequestsRunOut ==
  /\ RequestsLeft \in Nat /\ RequestsLeft' \in Nat
  /\ RequestsLeft' <= RequestsLeft
  /\ GetDialogs \/ GetForumTopics => RequestsLeft' < RequestsLeft

LEMMA BoundsAreNat ==
  ASSUME ListingInv
  PROVE  /\ 3 * Cardinality(Items) + MaxChanges + 1 \in Nat \ {0}
         /\ Position \in Nat /\ RequestsLeft \in Nat
         /\ pc = "paging" => RequestsLeft > 0
<1>1. Cardinality(Items) \in Nat /\ MaxChanges \in Nat
  BY ItemsAreSized, DialogAssumption DEF Items, Sized
<1>2. 3 * Cardinality(Items) + MaxChanges + 1 \in Nat \ {0}
  BY <1>1
<1>3. Position \in Nat
  BY DEF ListingInv, DialogInv, DialogTypes, TopicInv, TopicTypes, Position
<1> QED
  BY <1>2, <1>3 DEF RequestsLeft

LEMMA DialogsRunOut ==
  ASSUME ListingInv, kind = "dialogs", D!FetchPage, kind' = kind
  PROVE  pc = "paging" /\ (pc' = "paging" => 0 < offset' /\ offset' < RequestsLeft)
<1>1. DialogInv
  BY DEF ListingInv
<1>2. pc = "paging"
  BY DEF D!FetchPage
<1>3. PICK page \in D!Pages : pc' = "paging" => ~D!Ends(page) /\ offset' = top[D!Last(page)]
  BY DEF D!FetchPage, D!NextOffset
<1> DEFINE batch == D!processDialogs(page)
<1>4. BatchOf(page, batch)
  BY BatchOfPage
<1>5. batch \in Seq(Dialogs)
  BY <1>4 DEF BatchOf, IsPage
<1> SUFFICES ASSUME pc' = "paging" PROVE 0 < offset' /\ offset' < RequestsLeft
  BY <1>2
<1>6. Len(batch) > 0
  BY <1>3, <1>5, DialogAssumption DEF D!Ends
<1> HIDE DEF batch
<1>7. /\ D!Last(page) = batch[Len(batch)] /\ Len(batch) \in 1..Len(batch)
      /\ D!Last(page) \in Dialogs
  BY <1>4, <1>6, LastOfBatch
<1>8. offset' = top[batch[Len(batch)]] /\ batch[Len(batch)] \in Dialogs
  BY <1>3, <1>7
<1>9. offset = 0 \/ offset' < offset
  BY <1>4, <1>7, <1>8 DEF BatchOf, IsPage
<1>10. /\ offset' \in Cardinality(Dialogs) + 1..3 * Cardinality(Dialogs) + changes
       /\ changes \in 0..MaxChanges
  BY <1>1, <1>8 DEF DialogInv, DialogTypes, ServerInv
<1>11. Cardinality(Dialogs) \in Nat /\ MaxChanges \in Nat /\ offset \in Nat
  BY <1>1, ItemsAreSized, DialogAssumption DEF Sized, DialogInv, DialogTypes
<1>12. 0 < offset' /\ offset' < 3 * Cardinality(Dialogs) + MaxChanges + 1
  BY <1>10, <1>11
<1>13. Items = Dialogs /\ Position = offset
  BY DEF Items, Position
<1> QED
  BY <1>2, <1>9, <1>12, <1>13 DEF RequestsLeft

LEMMA TopicsRunOut ==
  ASSUME ListingInv, kind = "topics", T!FetchPage, kind' = kind
  PROVE  pc = "paging" /\ (pc' = "paging" => 0 < offset'.date /\ offset'.date < RequestsLeft)
<1>1. TopicInv
  BY DEF ListingInv
<1>2. pc = "paging"
  BY DEF T!FetchPage
<1>3. PICK page \in T!Pages :
        pc' = "paging" => ~T!Ends(page) /\ offset' = T!nextForumTopicOffset(page)
  BY DEF T!FetchPage, T!Advance
<1> SUFFICES ASSUME pc' = "paging" PROVE 0 < offset'.date /\ offset'.date < RequestsLeft
  BY <1>2
<1>4. IsPage(page, Limit, Topics, T!Key, offset.date)
  BY TopicAssumption, TopicPage, Zenon DEF T!Pages
<1>5. page \in Seq(Topics) /\ T!Live(page) # {}
  BY <1>3, <1>4 DEF IsPage, T!Ends
<1>6. PICK k \in 1..Len(page) : T!LastLive(page) = page[k]
  BY <1>5, LastLiveIsLive
<1> DEFINE t == page[k]
           size == Cardinality(Topics)
<1>7. t \in Topics /\ offset'.date = T!OffsetDate(t)
  BY <1>3, <1>5, <1>6 DEF T!nextForumTopicOffset
<1>8. offset.date = 0 \/ T!Key[t] < offset.date
  BY <1>4, <1>6 DEF IsPage
<1> HIDE DEF t, size
<1>9. size \in Nat /\ MaxChanges \in Nat /\ offset.date \in Nat /\ changes \in 0..MaxChanges
  BY <1>1, ItemsAreSized, DialogAssumption
  DEF Sized, TopicInv, TopicTypes, ServerInv, size
<1>10. t \in Nat \ {0} /\ t <= size
  BY <1>7, ListingAssumption, SameSizes, TopicAssumption DEF T!TopicConstants, size
<1>11. top[t] \in size + 1..3 * size + changes
  BY <1>1, <1>7 DEF TopicInv, TopicTypes, ServerInv, size
<1>12. T!Key[t] = IF byCreation THEN t ELSE top[t]
  BY <1>7 DEF T!Key, T!Created
<1>13. T!OffsetDate(t) = IF byCreation \/ t \in Quiet THEN t ELSE top[t]
  BY <1>7 DEF T!OffsetDate, T!Created
\* A topic's creation is before its last message.
<1>14. /\ 0 < T!OffsetDate(t) /\ T!OffsetDate(t) <= T!Key[t]
       /\ T!OffsetDate(t) \in Nat /\ T!Key[t] \in Nat /\ T!Key[t] < 3 * size + MaxChanges + 1
  BY <1>9, <1>10, <1>11, <1>12, <1>13
<1>15. Items = Topics /\ Position = offset.date
  BY DEF Items, Position
<1>16. RequestsLeft = IF offset.date = 0 THEN 3 * size + MaxChanges + 1 ELSE offset.date
  BY <1>2, <1>15 DEF RequestsLeft, size
<1> QED
  BY <1>7, <1>8, <1>9, <1>14, <1>16

LEMMA RequestsRunOutStep ==
  ASSUME ListingInv, ListingInv', [Next]_vars
  PROVE  RequestsRunOut
<1>1. RequestsLeft \in Nat /\ (pc = "paging" => RequestsLeft > 0)
  BY BoundsAreNat
<1>2. RequestsLeft' \in Nat
  <2>1. Cardinality(Items') \in Nat /\ MaxChanges \in Nat
    BY ItemsAreSized, DialogAssumption DEF Items, Sized
  <2>2. Position' \in Nat
    BY DEF ListingInv, DialogInv, DialogTypes, TopicInv, TopicTypes, Position
  <2>3. 3 * Cardinality(Items') + MaxChanges + 1 \in Nat
    BY <2>1
  <2> QED
    BY <2>2, <2>3 DEF RequestsLeft
<1>3. CASE GetDialogs \/ GetForumTopics
  <2>1. kind' = kind
    BY <1>3 DEF GetDialogs, GetForumTopics
  <2>2. pc = "paging" /\ (pc' = "paging" => 0 < Position' /\ Position' < RequestsLeft)
    BY <1>3, <2>1, DialogsRunOut, TopicsRunOut DEF GetDialogs, GetForumTopics, Position
  <2>3. pc' = "paging" => RequestsLeft' = Position'
    BY <2>2 DEF RequestsLeft
  <2>4. pc' # "paging" => RequestsLeft' = 0
    BY DEF RequestsLeft
  <2>5. RequestsLeft' < RequestsLeft
    BY <1>1, <2>2, <2>3, <2>4
  <2> QED
    BY <1>1, <1>2, <2>5 DEF RequestsRunOut
<1>4. CASE ~(GetDialogs \/ GetForumTopics)
  <2>1. UNCHANGED <<kind, offset>> /\ (pc' = pc \/ pc' # "paging")
    BY <1>4 DEF Next, D!Fail, D!Reordered, T!Fail, T!Reordered, vars
  <2>2. Position' = Position /\ Items' = Items
    BY <2>1 DEF Position, Items
  <2>3. RequestsLeft' = RequestsLeft \/ RequestsLeft' = 0
    BY <2>1, <2>2 DEF RequestsLeft
  <2> QED
    BY <1>1, <1>2, <1>4, <2>3 DEF RequestsRunOut
<1> QED
  BY <1>3, <1>4

-----------------------------------------------------------------------------
(* The theorems *)

LEMMA ListingInvInit == Init => ListingInv
  BY DialogStart, TopicStart DEF Init, ListingInv

LEMMA ListingInvNext == ListingInv /\ [Next]_vars => ListingInv'
<1> SUFFICES ASSUME ListingInv, [Next]_vars PROVE ListingInv'
  OBVIOUS
<1>1. CASE kind = "dialogs" /\ DialogInv
  <2>1. CASE GetDialogs
    BY <1>1, <2>1, DialogFetch DEF GetDialogs, ListingInv
  <2>2. CASE (D!Fail \/ D!Reordered) /\ UNCHANGED <<kind, byCreation>>
    BY <1>1, <2>2, DialogFail, DialogMove DEF ListingInv
  <2>3. CASE UNCHANGED vars
    <3>1. UNCHANGED <<kind, top, raised, changes, pc, offset, found, hasFolder, cache, byCreation>>
      BY <2>3 DEF vars, server
    <3>2. DialogTypes'
      BY <1>1, <3>1 DEF DialogInv, DialogTypes, ServerInv
    <3>3. Distinct(found, Number)' /\ Reaches(found, cache)' /\ ListedAbove'
      BY <1>1, <3>1 DEF DialogInv, Distinct, Number, Reaches, ListedAbove
    <3>4. DialogsToCome'
      BY <1>1, <3>1 DEF DialogInv, DialogsToCome, In, Excused
    <3> QED
      BY <1>1, <3>1, <3>2, <3>3, <3>4 DEF DialogInv, ListingInv
  <2> QED
    BY <1>1, <2>1, <2>2, <2>3 DEF Next, GetForumTopics
<1>2. CASE kind = "topics" /\ TopicInv
  <2>1. CASE GetForumTopics
    BY <1>2, <2>1, TopicFetch DEF GetForumTopics, ListingInv
  <2>2. CASE (T!Fail \/ T!Reordered) /\ UNCHANGED <<kind, hasFolder, cache>>
    BY <1>2, <2>2, TopicFail, TopicMove DEF ListingInv
  <2>3. CASE UNCHANGED vars
    <3>1. UNCHANGED <<kind, top, raised, changes, pc, offset, found, hasFolder, cache, byCreation>>
      BY <2>3 DEF vars, server
    <3>2. TopicTypes'
      BY <1>2, <3>1 DEF TopicInv, TopicTypes, ServerInv
    <3>3. Distinct(found, Itself)'
      BY <1>2, <3>1 DEF TopicInv, Distinct, Itself
    <3>4. TopicsToCome'
      BY <1>2, <3>1 DEF TopicInv, TopicsToCome, Has, WrongOffset, T!Key, T!Created
    <3> QED
      BY <1>2, <3>1, <3>2, <3>3, <3>4 DEF TopicInv, ListingInv
  <2> QED
    BY <1>2, <2>1, <2>2, <2>3 DEF Next, GetDialogs
<1> QED
  BY <1>1, <1>2 DEF ListingInv

LEMMA ListingSpec == Spec => []ListingInv
  BY ListingInvInit, ListingInvNext, PTL DEF Spec

\* The state of a listing is of its types, the peer cache and the list included.
THEOREM TypeCorrect == Spec => []TypeOK
<1>1. ListingInv => TypeOK
  BY DialogPromises, TopicPromises DEF ListingInv, TypeOK
<1> QED
  BY <1>1, ListingSpec, PTL

\* GetDialogsWithEntities and GetForumTopics list a chat, by its number, and a
\* topic once, however the server reorders the list between two requests.
THEOREM NothingListedTwice == Spec => []ListedOnce
<1>1. ListingInv => ListedOnce
  BY DialogPromises, TopicPromises DEF ListingInv, ListedOnce
<1> QED
  BY <1>1, ListingSpec, PTL

\* A listing that ended misses nothing but for the named reasons: not by a
\* deletion, not by the loop's end, not by what is skipped as seen.
THEOREM CompleteButForCuts == Spec => []OnlyCutsLose
<1>1. ListingInv => OnlyCutsLose
  BY DialogPromises, TopicPromises DEF ListingInv, OnlyCutsLose
<1> QED
  BY <1>1, ListingSpec, PTL

\* The peer cache has the peer of every listed chat that has one, whatever the
\* later answers wrote over it, unless a user has the number of a channel.
THEOREM ListedCanBeAsked == Spec => []PeersAreTheirs
<1>1. ListingInv => PeersAreTheirs
  BY DialogPromises DEF ListingInv, PeersAreTheirs
<1> QED
  BY <1>1, ListingSpec, PTL

\* A listing sends a bounded number of requests, however the list changes: each
\* page starts strictly below the one before it.  This is what ListingEnds
\* rests on, without its fairness.
THEOREM BoundedListing == Spec => [][RequestsRunOut]_vars
<1>1. ListingInv /\ ListingInv' /\ [Next]_vars => RequestsRunOut
  BY RequestsRunOutStep
<1> QED
  BY <1>1, ListingSpec, PTL DEF Spec
=============================================================================
