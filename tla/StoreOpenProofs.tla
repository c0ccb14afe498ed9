---------------------------- MODULE StoreOpenProofs ----------------------------
(***************************************************************************)
(* For any processes, users, first contents of the file and any number of  *)
(* aborts: no message is lost or moved to another account, whoever         *)
(* migrates, adopts, inserts and saves in which order.                     *)
(*                                                                         *)
(* What protects the rows is the primary key of account 1: migrateV1ToV2   *)
(* inserts that account and is undone when it is there, and whatever is    *)
(* saved under an account is saved after account 1 came into being.        *)
(***************************************************************************)
EXTENDS StoreOpen, TLAPS, FiniteSetTheorems

Owners == Users \cup {Legacy, NoOne}

ProcRecords ==
  [pc : PCs, user : Users \cup {NoOne}, step : Int, id : Int, account : Int,
   version : Int, hit : BOOLEAN]

\* Accounts are given from 1 on and not taken back.
FirstAccountFirst ==
  \A id \in AccountIds : accounts[id] # NoOne => accounts[1] # NoOne

\* An open store has an account, one about to adopt has found one, and both
\* have a user.
HasAccount(p) ==
  /\ proc[p].pc # "closed" => proc[p].user \in Users
  /\ proc[p].pc = "open" =>
       proc[p].account \in AccountIds /\ accounts[proc[p].account] # NoOne
  /\ proc[p].pc = "adopt" =>
       proc[p].id \in AccountIds /\ accounts[proc[p].id] # NoOne

IInv ==
  /\ accounts \in [AccountIds -> Owners]
  /\ proc \in [Procs -> ProcRecords]
  /\ version \in Int
  /\ FirstAccountFirst
  /\ \A p \in Procs : HasAccount(p)
  /\ \A r \in rows : r[2] = 0 \/ accounts[1] # NoOne

LEMMA AccountOne == 1 \in AccountIds /\ AccountIds \subseteq Nat
BY StoreAssumption, FS_CardinalityType DEF AccountIds

LEMMA InitIInv == Init => IInv
<1> SUFFICES ASSUME Init PROVE IInv
  OBVIOUS
<1>1. accounts \in [AccountIds -> Owners] /\ FirstAccountFirst
  BY AccountOne DEF Init, Owners, FirstAccountFirst
<1>2. Closed \in ProcRecords
  BY DEF Closed, ProcRecords, PCs
<1>3. proc \in [Procs -> ProcRecords] /\ \A p \in Procs : proc[p].pc = "closed"
  BY <1>2 DEF Init, Closed
<1>4. version \in Int /\ \A r \in rows : r[2] = 0
  BY StoreAssumption DEF Init, Holds
<1> QED
  BY <1>1, <1>3, <1>4 DEF IInv, HasAccount

\* A step of p that leaves accounts and rows alone, after which p neither is
\* open nor looks at a found account unless it was and did before.
LEMMA QuietStep ==
  ASSUME IInv, NEW p \in Procs, NEW next \in ProcRecords, proc' = [proc EXCEPT ![p] = next],
         next.pc # "closed" => next.user \in Users,
         next.pc = "open" => next.account \in AccountIds /\ accounts[next.account] # NoOne,
         next.pc = "adopt" => next.id \in AccountIds /\ accounts[next.id] # NoOne,
         UNCHANGED <<accounts, rows>>, version' \in Int
  PROVE  IInv'
<1>1. proc' \in [Procs -> ProcRecords]
  BY DEF IInv
<1>2. \A q \in Procs : HasAccount(q)'
  BY DEF IInv, HasAccount
<1> QED
  BY <1>1, <1>2 DEF IInv, FirstAccountFirst

LEMMA MigrationStep ==
  ASSUME IInv, NEW p \in Procs, Migration(p)
  PROVE  IInv'
<1> DEFINE me == proc[p]
<1>1. me \in ProcRecords /\ version \in Int /\ HasAccount(p)
  BY DEF IInv
<1>2. CASE ReadVersion(p)
  <2> DEFINE next == [me EXCEPT !.version = version,
                        !.pc = IF Refused(version) THEN "failed"
                               ELSE IF version < SchemaVersion THEN "probe" ELSE "find"]
  <2>1. /\ next \in ProcRecords /\ next.user = me.user
        /\ next.pc \in {"failed", "probe", "find"} /\ me.pc = "version"
    BY <1>1, <1>2 DEF ReadVersion, At, ProcRecords, PCs
  <2>2. proc' = [proc EXCEPT ![p] = next] /\ UNCHANGED <<accounts, rows, version>>
    BY <1>2 DEF ReadVersion, Become, db
  <2> HIDE DEF next
  <2> QED
    BY <1>1, <2>1, <2>2, QuietStep DEF HasAccount
<1>3. CASE Probe(p)
  <2> DEFINE next == [me EXCEPT !.pc = IF me.version = 0 /\ shape["users"] = "none"
                                       THEN "create" ELSE "migrate"]
  <2>1. /\ next \in ProcRecords /\ next.user = me.user
        /\ next.pc \in {"create", "migrate"} /\ me.pc = "probe"
    BY <1>1, <1>3 DEF Probe, At, ProcRecords, PCs
  <2>2. proc' = [proc EXCEPT ![p] = next] /\ UNCHANGED <<accounts, rows, version>>
    BY <1>3 DEF Probe, Goto, Become, db
  <2> HIDE DEF next
  <2> QED
    BY <1>1, <2>1, <2>2, QuietStep DEF HasAccount
<1>4. CASE Create(p)
  <2> DEFINE next == IF IsLast(me.step) THEN [me EXCEPT !.pc = "stamp"]
                     ELSE [me EXCEPT !.step = me.step + 1]
  <2>1. /\ next \in ProcRecords /\ next.user = me.user
        /\ next.pc \in {"create", "stamp"} /\ me.pc = "create"
    BY <1>1, <1>4 DEF Create, At, ProcRecords, PCs
  <2>2. proc' = [proc EXCEPT ![p] = next] /\ UNCHANGED <<accounts, rows, version>>
    BY <1>4 DEF Create, Become
  <2> HIDE DEF next
  <2> QED
    BY <1>1, <2>1, <2>2, QuietStep DEF HasAccount
<1>5. CASE Stamp(p)
  <2> DEFINE next == [me EXCEPT !.pc = "find"]
  <2>1. next \in ProcRecords /\ next.user = me.user /\ next.pc = "find" /\ me.pc = "stamp"
    BY <1>1, <1>5 DEF Stamp, At, ProcRecords, PCs
  <2>2. proc' = [proc EXCEPT ![p] = next] /\ UNCHANGED <<accounts, rows>> /\ version' \in Int
    BY <1>5 DEF Stamp, Goto, Become, SchemaVersion
  <2> HIDE DEF next
  <2> QED
    BY <1>1, <2>1, <2>2, QuietStep DEF HasAccount
<1>6. CASE Migrate(p) /\ ~CanMigrate
  <2> DEFINE next == [me EXCEPT !.pc = "failed"]
  <2>1. next \in ProcRecords /\ next.user = me.user /\ next.pc = "failed" /\ me.pc = "migrate"
    BY <1>1, <1>6 DEF Migrate, At, ProcRecords, PCs
  <2>2. proc' = [proc EXCEPT ![p] = next] /\ UNCHANGED <<accounts, rows, version>>
    BY <1>6 DEF Migrate, Goto, Become, db
  <2> HIDE DEF next
  <2> QED
    BY <1>1, <2>1, <2>2, QuietStep DEF HasAccount
<1>7. CASE Migrate(p) /\ CanMigrate
  <2> DEFINE next == [me EXCEPT !.pc = "find"]
  <2>1. next \in ProcRecords /\ next.user = me.user /\ next.pc = "find" /\ me.pc = "migrate"
    BY <1>1, <1>7 DEF Migrate, At, ProcRecords, PCs
  <2>2. /\ proc' = [proc EXCEPT ![p] = next]
        /\ accounts' = [accounts EXCEPT ![1] = Legacy]
        /\ version' \in Int
    BY <1>7 DEF Migrate, Goto, Become, NewVersion, SchemaVersion
  <2>3. accounts'[1] = Legacy /\ Legacy # NoOne
    BY <2>2, AccountOne, StoreAssumption DEF IInv
  <2>4. accounts' \in [AccountIds -> Owners] /\ FirstAccountFirst'
    BY <2>2, <2>3 DEF IInv, Owners, FirstAccountFirst
  <2>5. \A id \in AccountIds : accounts[id] # NoOne => accounts'[id] # NoOne
    BY <2>2, <2>3 DEF IInv
  <2> HIDE DEF next
  <2>6. proc' \in [Procs -> ProcRecords]
    BY <2>1, <2>2 DEF IInv
  <2>7. \A q \in Procs : HasAccount(q)'
    BY <1>1, <2>1, <2>2, <2>5 DEF IInv, HasAccount
  <2> QED
    BY <2>2, <2>3, <2>4, <2>6, <2>7 DEF IInv
<1> QED
  BY <1>2, <1>3, <1>4, <1>5, <1>6, <1>7 DEF Migration

LEMMA SetAccountStep ==
  ASSUME IInv, NEW p \in Procs, SetAccount(p)
  PROVE  IInv'
<1> DEFINE me == proc[p]
<1>1. me \in ProcRecords /\ version \in Int /\ HasAccount(p) /\ NoOne \notin Users
  BY StoreAssumption DEF IInv
<1>2. CASE Find(p)
  <2>1. CASE Goto(p, "legacy") /\ UNCHANGED <<db, faults, raced>>
    <3> DEFINE next == [me EXCEPT !.pc = "legacy"]
    <3>1. next \in ProcRecords /\ next.user = me.user /\ next.pc = "legacy" /\ me.pc = "find"
      BY <1>1, <1>2 DEF Find, At, ProcRecords, PCs
    <3>2. proc' = [proc EXCEPT ![p] = next] /\ UNCHANGED <<accounts, rows, version>>
      BY <2>1 DEF Goto, Become, db
    <3> HIDE DEF next
    <3> QED
      BY <1>1, <3>1, <3>2, QuietStep DEF HasAccount
  <2>2. CASE /\ \E id \in IdsOf(me.user) : Become(p, [me EXCEPT !.account = id, !.pc = "open"])
             /\ UNCHANGED <<db, faults, raced>>
    <3>1. PICK id \in IdsOf(me.user) : Become(p, [me EXCEPT !.account = id, !.pc = "open"])
      BY <2>2
    <3> DEFINE next == [me EXCEPT !.account = id, !.pc = "open"]
    <3>2. me.pc = "find" /\ me.user \in Users
      BY <1>1, <1>2 DEF Find, At, HasAccount
    <3>3. id \in AccountIds /\ accounts[id] = me.user /\ id \in Int
      BY AccountOne DEF IdsOf
    <3>4. next \in ProcRecords /\ next.user = me.user /\ next.pc = "open" /\ next.account = id
      BY <1>1, <3>3 DEF ProcRecords, PCs
    <3>5. proc' = [proc EXCEPT ![p] = next] /\ UNCHANGED <<accounts, rows, version>>
      BY <2>2, <3>1 DEF Become, db
    <3> HIDE DEF next
    <3> QED
      BY <1>1, <3>2, <3>3, <3>4, <3>5, QuietStep
  <2> QED
    BY <1>2, <2>1, <2>2 DEF Find
<1>3. CASE FindLegacy(p)
  <2>1. CASE Goto(p, "insert") /\ UNCHANGED <<db, faults, raced>>
    <3> DEFINE next == [me EXCEPT !.pc = "insert"]
    <3>1. next \in ProcRecords /\ next.user = me.user /\ next.pc = "insert" /\ me.pc = "legacy"
      BY <1>1, <1>3 DEF FindLegacy, At, ProcRecords, PCs
    <3>2. proc' = [proc EXCEPT ![p] = next] /\ UNCHANGED <<accounts, rows, version>>
      BY <2>1 DEF Goto, Become, db
    <3> HIDE DEF next
    <3> QED
      BY <1>1, <3>1, <3>2, QuietStep DEF HasAccount
  <2>2. CASE /\ \E id \in Adoptable : Become(p, [me EXCEPT !.id = id, !.pc = "adopt"])
             /\ UNCHANGED <<db, faults, raced>>
    <3>1. PICK id \in Adoptable : Become(p, [me EXCEPT !.id = id, !.pc = "adopt"])
      BY <2>2
    <3> DEFINE next == [me EXCEPT !.id = id, !.pc = "adopt"]
    <3>2. me.pc = "legacy" /\ me.user \in Users
      BY <1>1, <1>3 DEF FindLegacy, At, HasAccount
    <3>3. id \in AccountIds /\ accounts[id] # NoOne /\ id \in Int
      BY AccountOne, StoreAssumption DEF IdsOf, Adoptable
    <3>4. next \in ProcRecords /\ next.user = me.user /\ next.pc = "adopt" /\ next.id = id
      BY <1>1, <3>3 DEF ProcRecords, PCs
    <3>5. proc' = [proc EXCEPT ![p] = next] /\ UNCHANGED <<accounts, rows, version>>
      BY <2>2, <3>1 DEF Become, db
    <3> HIDE DEF next
    <3> QED
      BY <1>1, <3>2, <3>3, <3>4, <3>5, QuietStep
  <2> QED
    BY <1>3, <2>1, <2>2 DEF FindLegacy
<1>4. CASE Adopt(p)
  <2>1. me.pc = "adopt" /\ me.user \in Users /\ me.id \in AccountIds /\ accounts[me.id] # NoOne
    BY <1>1, <1>4 DEF Adopt, At, HasAccount
  <2>2. CASE Goto(p, "failed") /\ UNCHANGED <<accounts, shape, version, rows, faults, raced>>
    <3> DEFINE next == [me EXCEPT !.pc = "failed"]
    <3>1. next \in ProcRecords /\ next.user = me.user /\ next.pc = "failed"
      BY <1>1 DEF ProcRecords, PCs
    <3>2. proc' = [proc EXCEPT ![p] = next] /\ UNCHANGED <<accounts, rows, version>>
      BY <2>2 DEF Goto, Become
    <3> HIDE DEF next
    <3> QED
      BY <1>1, <2>1, <3>1, <3>2, QuietStep
  <2>3. CASE /\ accounts' = [accounts EXCEPT ![me.id] = IF @ = Legacy THEN me.user ELSE @]
             /\ Become(p, [me EXCEPT !.account = me.id, !.pc = "open"])
             /\ UNCHANGED <<shape, version, rows, faults>>
    <3> DEFINE next == [me EXCEPT !.account = me.id, !.pc = "open"]
    <3>1. next \in ProcRecords /\ next.user = me.user /\ next.pc = "open" /\ next.account = me.id
      BY <1>1 DEF ProcRecords, PCs
    <3>2. proc' = [proc EXCEPT ![p] = next]
      BY <2>3 DEF Become
    <3>3. accounts' \in [AccountIds -> Owners]
      BY <2>1, <2>3 DEF IInv, Owners
    <3>4. \A id \in AccountIds : accounts[id] # NoOne => accounts'[id] # NoOne
      BY <1>1, <2>1, <2>3 DEF IInv
    <3>5. accounts'[1] # NoOne
      BY <2>1, <3>4, AccountOne DEF IInv, FirstAccountFirst
    <3> HIDE DEF next
    <3>6. proc' \in [Procs -> ProcRecords]
      BY <3>1, <3>2 DEF IInv
    <3>7. \A q \in Procs : HasAccount(q)'
      BY <2>1, <3>1, <3>2, <3>4 DEF IInv, HasAccount
    <3> QED
      BY <2>3, <3>3, <3>5, <3>6, <3>7 DEF IInv, FirstAccountFirst
  <2> QED
    BY <1>4, <2>2, <2>3 DEF Adopt, NewOwner
<1>5. CASE Insert(p)
  <2>1. me.pc = "insert" /\ me.user \in Users
    BY <1>1, <1>5 DEF Insert, At, HasAccount
  <2>2. CASE Goto(p, "failed") /\ UNCHANGED <<accounts, shape, version, rows, faults, raced>>
    <3> DEFINE next == [me EXCEPT !.pc = "failed"]
    <3>1. next \in ProcRecords /\ next.user = me.user /\ next.pc = "failed"
      BY <1>1 DEF ProcRecords, PCs
    <3>2. proc' = [proc EXCEPT ![p] = next] /\ UNCHANGED <<accounts, rows, version>>
      BY <2>2 DEF Goto, Become
    <3> HIDE DEF next
    <3> QED
      BY <1>1, <2>1, <3>1, <3>2, QuietStep
  <2>3. CASE /\ \E id \in IdsOf(NoOne) :
                  /\ \A other \in IdsOf(NoOne) : id <= other
                  /\ accounts' = [accounts EXCEPT ![id] = me.user]
                  /\ Become(p, [me EXCEPT !.account = id, !.pc = "open"])
             /\ UNCHANGED <<shape, version, rows, faults, raced>>
    <3>1. PICK id \in IdsOf(NoOne) :
            /\ \A other \in IdsOf(NoOne) : id <= other
            /\ accounts' = [accounts EXCEPT ![id] = me.user]
            /\ Become(p, [me EXCEPT !.account = id, !.pc = "open"])
      BY <2>3
    <3> DEFINE next == [me EXCEPT !.account = id, !.pc = "open"]
    <3>2. id \in AccountIds /\ id \in Int /\ accounts[id] = NoOne
      BY AccountOne DEF IdsOf
    <3>3. next \in ProcRecords /\ next.user = me.user /\ next.pc = "open" /\ next.account = id
      BY <1>1, <3>2 DEF ProcRecords, PCs
    <3>4. proc' = [proc EXCEPT ![p] = next]
      BY <3>1 DEF Become
    <3>5. accounts' \in [AccountIds -> Owners] /\ accounts'[id] # NoOne
      BY <1>1, <2>1, <3>1, <3>2 DEF IInv, Owners
    <3>6. \A i \in AccountIds : accounts[i] # NoOne => accounts'[i] # NoOne
      BY <3>1, <3>2 DEF IInv
    \* The lowest free id is 1, or 1 is taken.
    <3>7. accounts'[1] # NoOne
      <4>1. CASE accounts[1] = NoOne
        <5>1. 1 \in IdsOf(NoOne)
          BY <4>1, AccountOne DEF IdsOf
        <5>2. id = 1
          BY <3>1, <3>2, <5>1, AccountOne DEF AccountIds
        <5> QED
          BY <3>5, <5>2
      <4> QED
        BY <3>6, <4>1, AccountOne
    <3> HIDE DEF next
    <3>8. proc' \in [Procs -> ProcRecords]
      BY <3>3, <3>4 DEF IInv
    <3>9. \A q \in Procs : HasAccount(q)'
      BY <2>1, <3>2, <3>3, <3>4, <3>5, <3>6 DEF IInv, HasAccount
    <3> QED
      BY <2>3, <3>5, <3>7, <3>8, <3>9 DEF IInv, FirstAccountFirst
  <2> QED
    BY <1>5, <2>2, <2>3 DEF Insert
<1> QED
  BY <1>2, <1>3, <1>4, <1>5 DEF SetAccount

LEMMA StepIInv == IInv /\ [Next]_vars => IInv'
<1> SUFFICES ASSUME IInv, [Next]_vars PROVE IInv'
  OBVIOUS
<1>1. CASE UNCHANGED vars
  BY <1>1 DEF vars, IInv, FirstAccountFirst, HasAccount
<1>2. ASSUME NEW p \in Procs, Open(p) PROVE IInv'
  <2>1. PICK u \in Users : Become(p, [Closed EXCEPT !.pc = "version", !.user = u])
    BY <1>2 DEF Open
  <2> DEFINE next == [Closed EXCEPT !.pc = "version", !.user = u]
  <2> DEFINE start == [Closed EXCEPT !.pc = "version"]
  <2>2. Closed \in ProcRecords
    BY DEF Closed, ProcRecords, PCs
  <2>3. start \in ProcRecords /\ start.pc = "version"
    BY <2>2 DEF ProcRecords, PCs
  <2>4. next = [start EXCEPT !.user = u]
    BY DEF Closed
  <2> HIDE DEF start
  <2>5. next \in ProcRecords /\ next.user \in Users /\ next.pc = "version"
    BY <2>3, <2>4 DEF ProcRecords
  <2>6. proc' = [proc EXCEPT ![p] = next] /\ UNCHANGED <<accounts, rows, version>>
    BY <1>2, <2>1 DEF Open, Become, db
  <2>7. version \in Int
    BY DEF IInv
  <2> HIDE DEF next
  <2> QED
    BY <2>5, <2>6, <2>7, QuietStep
<1>3. ASSUME NEW p \in Procs, Migration(p) PROVE IInv'
  BY <1>3, MigrationStep
<1>4. ASSUME NEW p \in Procs, SetAccount(p) PROVE IInv'
  BY <1>4, SetAccountStep
<1>5. ASSUME NEW p \in Procs, Save(p) PROVE IInv'
  <2>1. accounts[1] # NoOne
    BY <1>5 DEF Save, At, IInv, HasAccount, FirstAccountFirst
  <2>2. UNCHANGED <<accounts, proc, version>>
    BY <1>5 DEF Save
  <2> QED
    BY <2>1, <2>2 DEF IInv, FirstAccountFirst, HasAccount
<1>6. ASSUME NEW p \in Procs, Close(p) PROVE IInv'
  <2>1. Closed \in ProcRecords /\ Closed.pc = "closed"
    BY DEF Closed, ProcRecords, PCs
  <2>2. proc' = [proc EXCEPT ![p] = Closed] /\ UNCHANGED <<accounts, rows, version>>
    BY <1>6 DEF Close, Become, db
  <2>3. version \in Int
    BY DEF IInv
  <2> QED
    BY <2>1, <2>2, <2>3, QuietStep
<1>7. ASSUME NEW p \in Procs, Abort(p) PROVE IInv'
  <2> DEFINE next == [proc[p] EXCEPT !.pc = "failed", !.hit = TRUE]
  <2>1. proc[p] \in ProcRecords /\ proc[p].user \in Users /\ version \in Int
    BY <1>7 DEF Abort, IInv, HasAccount
  <2>2. next \in ProcRecords /\ next.user \in Users /\ next.pc = "failed"
    BY <2>1 DEF ProcRecords, PCs
  <2>3. proc' = [proc EXCEPT ![p] = next] /\ UNCHANGED <<accounts, rows, version>>
    BY <1>7 DEF Abort, Become, db
  <2> HIDE DEF next
  <2> QED
    BY <2>1, <2>2, <2>3, QuietStep
<1> QED
  BY <1>1, <1>2, <1>3, <1>4, <1>5, <1>6, <1>7 DEF Next

\* For every number of processes, users and aborts: no step of any of them
\* loses a message or gives it to another account, but for the migration of
\* version 1 rows to account 1.
THEOREM NoRowIsLost == Spec => RowsKept
<1> DEFINE Kept == \A r \in rows : r \in rows' \/ (r[2] = 0 /\ <<r[1], 1>> \in rows')
<1>1. IInv /\ [Next]_vars => [Kept]_vars
  <2> SUFFICES ASSUME IInv, Next PROVE Kept
    OBVIOUS
  <2>1. PICK p \in Procs :
          \/ Open(p) \/ Migration(p) \/ SetAccount(p) \/ Save(p) \/ Close(p) \/ Abort(p)
    BY DEF Next
  \* Rows with an account exist only when account 1 does, and then the
  \* migration is undone.
  <2>2. CASE Migrate(p) /\ CanMigrate
    <3>1. \A r \in rows : r[2] = 0
      BY <2>2 DEF IInv, CanMigrate
    <3>2. rows' = {<<r[1], 1>> : r \in rows}
      BY <2>2 DEF Migrate
    <3> QED
      BY <3>1, <3>2
  <2>3. CASE Save(p)
    BY <2>3 DEF Save
  <2>4. CASE ~Save(p) /\ ~(Migrate(p) /\ CanMigrate)
    <3>1. rows' = rows
      BY <2>1, <2>4 DEF Open, Migration, ReadVersion, Probe, Create, Stamp, Migrate, SetAccount,
           Find, FindLegacy, Adopt, Insert, Close, Abort, db
    <3> QED
      BY <3>1
  <2> QED
    BY <2>2, <2>3, <2>4
<1> QED
  BY InitIInv, StepIInv, <1>1, PTL DEF Spec, RowsKept

-----------------------------------------------------------------------------
(* Users are kept apart *)

\* Who uses an account owns it or has lost a race for it, and version 1 has no
\* rows of users.
Apart ==
  /\ \A p \in Procs :
       At(p, "open") => accounts[proc[p].account] = proc[p].user \/ proc[p].user \in raced
  /\ \A r \in rows : r[2] = 0 => r[1] = Legacy
  /\ OnlyRacesMixUsers

LEMMA InitApart == Init => Apart
  BY StoreAssumption DEF Init, Holds, Apart, At, Closed, OnlyRacesMixUsers

\* A step of p after which its store is not open and nothing else has changed.
LEMMA QuietApart ==
  ASSUME Apart, NEW p \in Procs, proc'[p].pc # "open",
         \A q \in Procs \ {p} : proc'[q] = proc[q],
         UNCHANGED <<accounts, rows, raced>>
  PROVE  Apart'
  BY DEF Apart, At, OnlyRacesMixUsers

LEMMA StepApart == IInv /\ Apart /\ [Next]_vars => Apart'
<1> SUFFICES ASSUME IInv, Apart, [Next]_vars PROVE Apart'
  OBVIOUS
<1> USE StoreAssumption
<1>1. CASE UNCHANGED vars
  BY <1>1 DEF vars, Apart, At, OnlyRacesMixUsers
<1>2. ASSUME NEW p \in Procs, Open(p) \/ Close(p) \/ Abort(p) PROVE Apart'
  <2>1. proc'[p].pc # "open" /\ \A q \in Procs \ {p} : proc'[q] = proc[q]
    <3>1. CASE Open(p)
      BY <3>1 DEF Open, Become, Closed, IInv
    <3>2. CASE Close(p)
      BY <3>2 DEF Close, Become, Closed, IInv
    <3>3. CASE Abort(p)
      BY <3>3 DEF Abort, Become, IInv, ProcRecords
    <3> QED
      BY <1>2, <3>1, <3>2, <3>3
  <2> QED
    BY <1>2, <2>1, QuietApart DEF Open, Close, Abort, db
<1>3. ASSUME NEW p \in Procs, Migration(p), ~(Migrate(p) /\ CanMigrate) PROVE Apart'
  <2>1. proc'[p].pc # "open" /\ \A q \in Procs \ {p} : proc'[q] = proc[q]
    <3>0. proc \in [Procs -> ProcRecords]
      BY DEF IInv
    <3> USE DEF At, Goto, Become, ProcRecords
    <3>1. CASE ReadVersion(p)
      BY <3>0, <3>1 DEF ReadVersion
    <3>2. CASE Probe(p)
      BY <3>0, <3>2 DEF Probe
    <3>3. CASE Create(p)
      BY <3>0, <3>3 DEF Create
    <3>4. CASE Stamp(p) \/ (Migrate(p) /\ ~CanMigrate)
      BY <3>0, <3>4 DEF Stamp, Migrate
    <3> QED
      BY <1>3, <3>1, <3>2, <3>3, <3>4 DEF Migration
  <2>2. UNCHANGED <<accounts, rows, raced>>
    BY <1>3 DEF Migration, ReadVersion, Probe, Create, Stamp, Migrate, db
  <2> QED
    BY <2>1, <2>2, QuietApart
\* Nothing is saved under an account yet, and no store is open.
<1>4. ASSUME NEW p \in Procs, Migrate(p), CanMigrate PROVE Apart'
  <2>1. \A r \in rows : r[2] = 0 /\ r[1] = Legacy
    BY <1>4 DEF IInv, CanMigrate, Apart
  <2>2. OnlyRacesMixUsers' /\ \A r \in rows' : r[2] = 0 => r[1] = Legacy
    BY <1>4, <2>1 DEF Migrate, OnlyRacesMixUsers
  <2>3. \A q \in Procs : proc[q].pc # "open"
    BY <1>4 DEF IInv, HasAccount, FirstAccountFirst, CanMigrate
  <2>4. \A q \in Procs : proc'[q].pc # "open"
    BY <1>4, <2>3 DEF Migrate, Goto, Become, IInv, ProcRecords
  <2> QED
    BY <2>2, <2>4 DEF Apart, At
<1>5. ASSUME NEW p \in Procs, Find(p) PROVE Apart'
  <2>1. UNCHANGED <<accounts, rows, raced>> /\ \A q \in Procs \ {p} : proc'[q] = proc[q]
    BY <1>5 DEF Find, Goto, Become, IInv, db
  <2>2. proc'[p].pc = "open" => accounts[proc'[p].account] = proc'[p].user
    <3>0. proc \in [Procs -> ProcRecords]
      BY DEF IInv
    <3>1. ASSUME Goto(p, "legacy") PROVE proc'[p].pc # "open"
      BY <3>0, <3>1 DEF Goto, Become, ProcRecords
    <3>2. ASSUME NEW id \in IdsOf(proc[p].user),
                 Become(p, [proc[p] EXCEPT !.account = id, !.pc = "open"])
          PROVE  accounts[proc'[p].account] = proc'[p].user
      BY <3>0, <3>2 DEF Become, ProcRecords, IdsOf
    <3> QED
      BY <1>5, <3>1, <3>2 DEF Find
  <2> QED
    BY <2>1, <2>2 DEF Apart, At, OnlyRacesMixUsers
<1>6. ASSUME NEW p \in Procs, FindLegacy(p) PROVE Apart'
  <2>0. proc \in [Procs -> ProcRecords]
    BY DEF IInv
  <2>1. proc'[p].pc # "open" /\ \A q \in Procs \ {p} : proc'[q] = proc[q]
    <3>1. CASE Goto(p, "insert")
      BY <2>0, <3>1 DEF Goto, Become, ProcRecords
    <3>2. ASSUME NEW id \in Adoptable,
                 Become(p, [proc[p] EXCEPT !.id = id, !.pc = "adopt"])
          PROVE  proc'[p].pc # "open" /\ \A q \in Procs \ {p} : proc'[q] = proc[q]
      BY <2>0, <3>2 DEF Become, ProcRecords
    <3> QED
      BY <1>6, <3>1, <3>2 DEF FindLegacy
  <2> QED
    BY <1>6, <2>1, QuietApart DEF FindLegacy, db
\* The UPDATE gives the account to its user, or the user has lost the race.
<1>7. ASSUME NEW p \in Procs, Adopt(p) PROVE Apart'
  <2> DEFINE me == proc[p]
  <2>1. /\ me \in ProcRecords /\ me.user \in Users /\ me.id \in AccountIds
        /\ accounts \in [AccountIds -> Owners]
    BY <1>7 DEF Adopt, At, IInv, HasAccount
  <2>2. CASE UNCHANGED <<accounts, raced, rows>> /\ Goto(p, "failed")
    <3>1. proc'[p].pc # "open" /\ \A q \in Procs \ {p} : proc'[q] = proc[q]
      BY <2>1, <2>2 DEF Goto, Become, IInv, ProcRecords
    <3> QED
      BY <2>2, <3>1, QuietApart
  <2>3. CASE /\ accounts' = [accounts EXCEPT ![me.id] = NewOwner(@, me.user)]
             /\ raced' = IF accounts[me.id] \in {Legacy, me.user} THEN raced
                         ELSE raced \cup {me.user}
             /\ Become(p, [me EXCEPT !.account = me.id, !.pc = "open"])
             /\ UNCHANGED rows
    <3>1. /\ \A id \in AccountIds : accounts[id] \in Users => accounts'[id] = accounts[id]
          /\ accounts'[me.id] = me.user \/ me.user \in raced'
          /\ raced \subseteq raced'
      BY <2>1, <2>3 DEF NewOwner
    <3>2. /\ proc'[p].account = me.id /\ proc'[p].user = me.user
          /\ \A q \in Procs \ {p} : proc'[q] = proc[q]
      BY <2>1, <2>3 DEF Become, IInv, ProcRecords
    <3>3. \A q \in Procs : proc[q].pc = "open" => proc[q].user \in Users /\ proc[q].account \in AccountIds
      BY DEF IInv, HasAccount
    <3>4. \A q \in Procs : proc'[q].pc = "open" =>
            accounts'[proc'[q].account] = proc'[q].user \/ proc'[q].user \in raced'
      BY <3>1, <3>2, <3>3 DEF Apart, At
    <3>5. OnlyRacesMixUsers'
      BY <2>1, <2>3, <3>1 DEF Apart, OnlyRacesMixUsers, NewOwner
    <3> QED
      BY <2>3, <3>4, <3>5 DEF Apart, At
  <2> QED
    BY <1>7, <2>2, <2>3 DEF Adopt
<1>8. ASSUME NEW p \in Procs, Insert(p) PROVE Apart'
  <2> DEFINE me == proc[p]
  <2>1. me \in ProcRecords /\ me.user \in Users /\ accounts \in [AccountIds -> Owners]
    BY <1>8 DEF Insert, At, IInv, HasAccount
  <2>2. CASE UNCHANGED accounts /\ Goto(p, "failed")
    <3>1. proc'[p].pc # "open" /\ \A q \in Procs \ {p} : proc'[q] = proc[q]
      BY <2>1, <2>2 DEF Goto, Become, IInv, ProcRecords
    <3> QED
      BY <1>8, <2>2, <3>1, QuietApart DEF Insert
  <2>3. ASSUME NEW id \in IdsOf(NoOne), accounts' = [accounts EXCEPT ![id] = me.user],
               Become(p, [me EXCEPT !.account = id, !.pc = "open"])
        PROVE  Apart'
    <3>1. UNCHANGED <<rows, raced>> /\ id \in AccountIds /\ accounts[id] = NoOne
      BY <1>8 DEF Insert, IdsOf
    <3>2. /\ \A i \in AccountIds : accounts[i] \in Users => accounts'[i] = accounts[i]
          /\ accounts'[id] = me.user
      BY <2>1, <2>3, <3>1
    <3>3. /\ proc'[p].account = id /\ proc'[p].user = me.user
          /\ \A q \in Procs \ {p} : proc'[q] = proc[q]
      BY <2>1, <2>3 DEF Become, IInv, ProcRecords
    <3>4. \A q \in Procs : proc[q].pc = "open" => proc[q].user \in Users /\ proc[q].account \in AccountIds
      BY DEF IInv, HasAccount
    <3>5. \A q \in Procs : proc'[q].pc = "open" =>
            accounts'[proc'[q].account] = proc'[q].user \/ proc'[q].user \in raced'
      BY <3>1, <3>2, <3>3, <3>4 DEF Apart, At
    <3>6. OnlyRacesMixUsers'
      BY <2>1, <2>3, <3>1 DEF Apart, OnlyRacesMixUsers
    <3> QED
      BY <3>1, <3>5, <3>6 DEF Apart, At
  <2> QED
    BY <1>8, <2>2, <2>3 DEF Insert
<1>9. ASSUME NEW p \in Procs, Save(p) PROVE Apart'
  <2>1. proc[p].user \in Users /\ proc[p].account \in AccountIds /\ 0 \notin AccountIds
    BY <1>9 DEF Save, At, IInv, HasAccount, AccountIds
  <2> QED
    BY <1>9, <2>1 DEF Save, Apart, At, OnlyRacesMixUsers
<1> QED
  BY <1>1, <1>2, <1>3, <1>4, <1>5, <1>6, <1>7, <1>8, <1>9 DEF Next, Migration, SetAccount

\* For every number of processes, users and aborts: the messages of a user are
\* under the account of that user, unless the user lost a race for the legacy
\* account.
THEOREM UsersApart == Spec => []OnlyRacesMixUsers
<1>1. Apart => OnlyRacesMixUsers
  BY DEF Apart
<1> QED
  BY InitIInv, StepIInv, InitApart, StepApart, <1>1, PTL DEF Spec

-----------------------------------------------------------------------------
(* A store in use is complete *)

InUse == {"find", "legacy", "adopt", "insert", "open"}

\* What the version says of the tables and rows: only version 1 has tables or
\* rows of version 1, and version 2 has everything.
VersionTells ==
  /\ shape \in [TableNames -> Shapes]
  /\ version \in 0..3
  /\ version # 1 => /\ \A t \in TableNames : shape[t] # "v1"
                    /\ \A r \in rows : r[2] # 0
  /\ version = 1 => shape["users"] # "none"
  /\ version = 2 => \A t \in TableNames : shape[t] = "v2"

\* How far an open may be at this version: whoever creates tables has created
\* the first ones, and none of them is of version 1.
PhaseOf(p) ==
  /\ proc[p].pc \in {"version", "probe"} => proc[p].step = 1
  /\ proc[p].pc \in {"create", "stamp"} => version \in {0, 2}
  /\ proc[p].pc = "create" =>
       /\ proc[p].step \in 1..7
       /\ \A i \in 1..7 : i < proc[p].step => shape[Tables[i]] = "v2"
  /\ proc[p].pc = "stamp" => \A t \in TableNames : shape[t] = "v2"
  /\ proc[p].pc \in InUse => version = 2
  /\ version = 3 => proc[p].pc \in {"closed", "version", "failed"}

Phases == VersionTells /\ \A p \in Procs : PhaseOf(p)

LEMMA TableFacts ==
  /\ Len(Tables) = 7 /\ DOMAIN Tables = 1..7
  /\ TableNames = {Tables[i] : i \in 1..7}
  /\ "users" \in TableNames
<1>1. Len(Tables) = 7 /\ DOMAIN Tables = 1..7 /\ Tables[2] = "users"
  BY DEF Tables
<1> QED
  BY <1>1 DEF TableNames

LEMMA InitPhases == Init => Phases
<1> SUFFICES ASSUME Init PROVE Phases
  OBVIOUS
<1>1. PICK start \in {"empty", "v1", "newer"} : Holds(start)
  BY StoreAssumption DEF Init
<1>2. VersionTells
  <2>1. CASE start = "empty"
    BY <1>1, <2>1, TableFacts DEF Holds, VersionTells, Shapes
  <2>2. CASE start = "v1"
    BY <1>1, <2>2, TableFacts DEF Holds, VersionTells, Shapes
  <2>3. CASE start = "newer"
    BY <1>1, <2>3, TableFacts DEF Holds, VersionTells, Shapes
  <2> QED
    BY <2>1, <2>2, <2>3
<1>3. \A p \in Procs : proc[p].pc = "closed"
  BY DEF Init, Closed
<1> QED
  BY <1>2, <1>3 DEF Phases, PhaseOf, InUse

\* What another process does never takes an open out of its phase: versions go
\* to 2, from where there is no way on, and tables become complete.
LEMMA OthersKeepPhase ==
  ASSUME Phases, NEW q \in Procs, proc'[q] = proc[q],
         version' = version \/ (version' = 2 /\ version # 3),
         \A t \in TableNames : shape[t] = "v2" => shape'[t] = "v2"
  PROVE  PhaseOf(q)'
<1>1. \A i \in 1..7 : Tables[i] \in TableNames
  BY TableFacts
<1> QED
  BY <1>1 DEF Phases, PhaseOf

\* A step of p that changes nothing but p.
LEMMA QuietPhase ==
  ASSUME IInv, Phases, NEW p \in Procs, UNCHANGED <<shape, version, rows>>,
         \A q \in Procs \ {p} : proc'[q] = proc[q],
         PhaseOf(p)'
  PROVE  Phases'
<1>1. VersionTells'
  BY DEF Phases, VersionTells
<1>2. \A q \in Procs \ {p} : PhaseOf(q)'
  BY OthersKeepPhase
<1> QED
  BY <1>1, <1>2 DEF Phases

LEMMA MigrationPhase ==
  ASSUME IInv, Phases, NEW p \in Procs, Migration(p)
  PROVE  Phases'
<1>0. /\ proc \in [Procs -> ProcRecords] /\ proc[p] \in ProcRecords
      /\ VersionTells /\ PhaseOf(p)
  BY DEF IInv, Phases
<1>1. CASE ReadVersion(p)
  <2>1. /\ proc' = [proc EXCEPT ![p] = [proc[p] EXCEPT !.version = version,
                      !.pc = IF Refused(version) THEN "failed"
                             ELSE IF version < SchemaVersion THEN "probe" ELSE "find"]]
        /\ UNCHANGED <<shape, version, rows>> /\ proc[p].pc = "version"
    BY <1>1 DEF ReadVersion, Become, At, db
  <2>2. /\ \A q \in Procs \ {p} : proc'[q] = proc[q]
        /\ proc'[p].step = proc[p].step
        /\ proc'[p].pc = IF version > 2 THEN "failed" ELSE IF version < 2 THEN "probe" ELSE "find"
    BY <1>0, <2>1 DEF Refused, SchemaVersion, ProcRecords
  <2>3. PhaseOf(p)'
    BY <1>0, <2>1, <2>2 DEF PhaseOf, VersionTells, InUse
  <2> QED
    BY <2>1, <2>2, <2>3, QuietPhase
<1>2. CASE Probe(p)
  <2>1. /\ proc' = [proc EXCEPT ![p] = [proc[p] EXCEPT !.pc =
                      IF proc[p].version = 0 /\ shape["users"] = "none"
                      THEN "create" ELSE "migrate"]]
        /\ UNCHANGED <<shape, version, rows>> /\ proc[p].pc = "probe"
    BY <1>2 DEF Probe, Goto, Become, At, db
  <2>2. /\ \A q \in Procs \ {p} : proc'[q] = proc[q]
        /\ proc'[p].step = proc[p].step
        /\ \/ proc'[p].pc = "create" /\ shape["users"] = "none"
           \/ proc'[p].pc = "migrate"
    BY <1>0, <2>1 DEF ProcRecords
  <2>3. version \in {0, 1, 2} /\ (shape["users"] = "none" => version = 0)
    BY <1>0, <2>1, TableFacts DEF PhaseOf, VersionTells
  <2>4. PhaseOf(p)'
    BY <1>0, <2>1, <2>2, <2>3 DEF PhaseOf, InUse
  <2> QED
    BY <2>1, <2>2, <2>4, QuietPhase
<1>3. CASE Create(p)
  <2> DEFINE n == proc[p].step
  <2>1. /\ shape' = [shape EXCEPT ![Tables[n]] = Made(@)]
        /\ proc' = [proc EXCEPT ![p] = IF n = 7 THEN [proc[p] EXCEPT !.pc = "stamp"]
                                       ELSE [proc[p] EXCEPT !.step = n + 1]]
        /\ UNCHANGED <<version, rows>> /\ proc[p].pc = "create"
    BY <1>3, TableFacts DEF Create, Become, IsLast, At
  <2>2. /\ version \in {0, 2} /\ n \in 1..7 /\ Tables[n] \in TableNames
        /\ \A i \in 1..7 : i < n => shape[Tables[i]] = "v2"
    BY <1>0, <2>1, TableFacts DEF PhaseOf
  <2>3. \A t \in TableNames : shape[t] \in {"none", "v2"}
    BY <1>0, <2>2 DEF VersionTells, Shapes
  <2>4. /\ shape' \in [TableNames -> Shapes] /\ shape'[Tables[n]] = "v2"
        /\ \A t \in TableNames : shape[t] = "v2" => shape'[t] = "v2"
        /\ \A t \in TableNames : shape'[t] # "v1"
    BY <1>0, <2>1, <2>2, <2>3 DEF VersionTells, Made, Shapes
  <2>5. VersionTells'
    BY <1>0, <2>1, <2>2, <2>4 DEF VersionTells
  <2>6. /\ \A q \in Procs \ {p} : proc'[q] = proc[q]
        /\ n = 7 => proc'[p].pc = "stamp"
        /\ n # 7 => proc'[p].pc = "create" /\ proc'[p].step = n + 1
    BY <1>0, <2>1 DEF ProcRecords
  <2>7. \A i \in 1..7 : i < n + 1 => shape'[Tables[i]] = "v2"
    BY <2>2, <2>4, TableFacts
  <2>8. PhaseOf(p)'
    <3>1. CASE n = 7
      <4>1. \A t \in TableNames : shape'[t] = "v2"
        BY <2>7, <3>1, TableFacts
      <4> QED
        BY <2>1, <2>2, <2>6, <3>1, <4>1 DEF PhaseOf, InUse
    <3>2. CASE n # 7
      BY <2>1, <2>2, <2>6, <2>7, <3>2 DEF PhaseOf, InUse
    <3> QED
      BY <3>1, <3>2
  <2>9. \A q \in Procs \ {p} : PhaseOf(q)'
    BY <2>1, <2>4, <2>6, OthersKeepPhase
  <2> QED
    BY <2>5, <2>8, <2>9 DEF Phases
<1>4. CASE Stamp(p)
  <2>1. /\ version' = 2 /\ UNCHANGED <<shape, rows>> /\ proc[p].pc = "stamp"
        /\ proc' = [proc EXCEPT ![p] = [proc[p] EXCEPT !.pc = "find"]]
    BY <1>4 DEF Stamp, Goto, Become, At, SchemaVersion
  <2>2. version \in {0, 2} /\ \A t \in TableNames : shape[t] = "v2"
    BY <1>0, <2>1 DEF PhaseOf
  <2>3. VersionTells'
    BY <1>0, <2>1, <2>2 DEF VersionTells
  <2>4. proc'[p].pc = "find" /\ \A q \in Procs \ {p} : proc'[q] = proc[q]
    BY <1>0, <2>1 DEF ProcRecords
  <2>5. PhaseOf(p)'
    BY <2>1, <2>4 DEF PhaseOf, InUse
  <2>6. \A q \in Procs \ {p} : PhaseOf(q)'
    BY <2>1, <2>2, <2>4, OthersKeepPhase
  <2> QED
    BY <2>3, <2>5, <2>6 DEF Phases
<1>5. CASE Migrate(p) /\ CanMigrate
  <2>1. /\ shape' = [t \in TableNames |-> "v2"] /\ version' = 2
        /\ rows' = {<<r[1], 1>> : r \in rows} /\ proc[p].pc = "migrate"
        /\ proc' = [proc EXCEPT ![p] = [proc[p] EXCEPT !.pc = "find"]]
    BY <1>5 DEF Migrate, Goto, Become, At, NewVersion, SchemaVersion
  <2>2. version # 3
    BY <1>0, <2>1 DEF PhaseOf
  <2>3. VersionTells'
    <3>1. \A r \in rows' : r[2] # 0
      BY <2>1
    <3> QED
      BY <2>1, <3>1 DEF VersionTells, Shapes
  <2>4. proc'[p].pc = "find" /\ \A q \in Procs \ {p} : proc'[q] = proc[q]
    BY <1>0, <2>1 DEF ProcRecords
  <2>5. PhaseOf(p)'
    BY <2>1, <2>4 DEF PhaseOf, InUse
  <2>6. \A q \in Procs \ {p} : PhaseOf(q)'
    BY <2>1, <2>2, <2>4, OthersKeepPhase
  <2> QED
    BY <2>3, <2>5, <2>6 DEF Phases
<1>6. CASE Migrate(p) /\ ~CanMigrate
  <2>1. /\ UNCHANGED <<shape, version, rows>>
        /\ proc' = [proc EXCEPT ![p] = [proc[p] EXCEPT !.pc = "failed"]]
    BY <1>6 DEF Migrate, Goto, Become, db
  <2>2. proc'[p].pc = "failed" /\ \A q \in Procs \ {p} : proc'[q] = proc[q]
    BY <1>0, <2>1 DEF ProcRecords
  <2>3. PhaseOf(p)'
    BY <2>2 DEF PhaseOf, InUse
  <2> QED
    BY <2>1, <2>2, <2>3, QuietPhase
<1> QED
  BY <1>1, <1>2, <1>3, <1>4, <1>5, <1>6 DEF Migration

LEMMA StepPhases == IInv /\ Phases /\ [Next]_vars => Phases'
<1> SUFFICES ASSUME IInv, Phases, [Next]_vars PROVE Phases'
  OBVIOUS
<1>0. proc \in [Procs -> ProcRecords]
  BY DEF IInv
<1>1. CASE UNCHANGED vars
  BY <1>1 DEF vars, Phases, VersionTells, PhaseOf
<1>2. ASSUME NEW p \in Procs, Open(p) PROVE Phases'
  <2>1. PICK u \in Users : proc' = [proc EXCEPT ![p] = [Closed EXCEPT !.pc = "version", !.user = u]]
    BY <1>2 DEF Open, Become
  <2>2. /\ \A q \in Procs \ {p} : proc'[q] = proc[q]
        /\ proc'[p].pc = "version" /\ proc'[p].step = 1
    BY <1>0, <2>1 DEF Closed
  <2>3. PhaseOf(p)' /\ UNCHANGED <<shape, version, rows>>
    BY <1>2, <2>2 DEF Open, db, PhaseOf, InUse
  <2> QED
    BY <2>2, <2>3, QuietPhase
<1>3. ASSUME NEW p \in Procs, Migration(p) PROVE Phases'
  BY <1>3, MigrationPhase
\* The statements of SetAccount stay among those that follow Migrate.
<1>4. ASSUME NEW p \in Procs, SetAccount(p) PROVE Phases'
  <2>1. proc[p].pc \in InUse /\ UNCHANGED <<shape, version, rows>>
    BY <1>4 DEF SetAccount, Find, FindLegacy, Adopt, Insert, At, InUse, db
  <2>2. /\ \A q \in Procs \ {p} : proc'[q] = proc[q]
        /\ proc'[p].pc \in InUse \cup {"failed"}
    <3>1. ASSUME NEW pc \in InUse \cup {"failed"}, Goto(p, pc)
          PROVE  /\ \A q \in Procs \ {p} : proc'[q] = proc[q]
                 /\ proc'[p].pc = pc
      BY <1>0, <3>1 DEF Goto, Become, ProcRecords
    <3>2. ASSUME NEW id, Become(p, [proc[p] EXCEPT !.account = id, !.pc = "open"])
          PROVE  /\ \A q \in Procs \ {p} : proc'[q] = proc[q]
                 /\ proc'[p].pc = "open"
      BY <1>0, <3>2 DEF Become, ProcRecords
    <3>3. ASSUME NEW id, Become(p, [proc[p] EXCEPT !.id = id, !.pc = "adopt"])
          PROVE  /\ \A q \in Procs \ {p} : proc'[q] = proc[q]
                 /\ proc'[p].pc = "adopt"
      BY <1>0, <3>3 DEF Become, ProcRecords
    <3>4. CASE Find(p)
      BY <3>1, <3>2, <3>4 DEF Find, InUse
    <3>5. CASE FindLegacy(p)
      BY <3>1, <3>3, <3>5 DEF FindLegacy, InUse
    <3>6. CASE Adopt(p)
      BY <3>1, <3>2, <3>6 DEF Adopt, InUse
    <3>7. CASE Insert(p)
      BY <3>1, <3>2, <3>7 DEF Insert, InUse
    <3> QED
      BY <1>4, <3>4, <3>5, <3>6, <3>7 DEF SetAccount
  <2>3. PhaseOf(p)'
    BY <2>1, <2>2 DEF Phases, PhaseOf, InUse
  <2> QED
    BY <2>1, <2>2, <2>3, QuietPhase
<1>5. ASSUME NEW p \in Procs, Save(p) PROVE Phases'
  <2>1. /\ UNCHANGED <<shape, version, proc>> /\ proc[p].account # 0
        /\ rows' = rows \cup {<<proc[p].user, proc[p].account>>}
    BY <1>5 DEF Save, At, IInv, HasAccount, AccountIds
  <2>2. VersionTells'
    BY <2>1 DEF Phases, VersionTells
  <2> QED
    BY <2>1, <2>2 DEF Phases, PhaseOf
<1>6. ASSUME NEW p \in Procs, Close(p) \/ Abort(p) PROVE Phases'
  <2>1. UNCHANGED <<shape, version, rows>>
    BY <1>6 DEF Close, Abort, db
  <2>2. /\ \A q \in Procs \ {p} : proc'[q] = proc[q]
        /\ proc'[p].pc \in {"closed", "failed"}
    <3>1. CASE Close(p)
      BY <1>0, <3>1 DEF Close, Become, Closed
    <3>2. CASE Abort(p)
      BY <1>0, <3>2 DEF Abort, Become, ProcRecords
    <3> QED
      BY <1>6, <3>1, <3>2
  <2>3. PhaseOf(p)'
    BY <2>2 DEF PhaseOf, InUse
  <2> QED
    BY <2>1, <2>2, <2>3, QuietPhase
<1> QED
  BY <1>1, <1>2, <1>3, <1>4, <1>5, <1>6 DEF Next

\* For every number of processes, users and aborts: a store that has passed
\* Migrate has all tables of version 2 and no row without an account.
THEOREM StoreIsComplete == Spec => []ReadyIsComplete
<1>1. Phases => ReadyIsComplete
  BY DEF Phases, VersionTells, PhaseOf, InUse, ReadyIsComplete, SchemaVersion
<1> QED
  BY InitIInv, StepIInv, InitPhases, StepPhases, <1>1, PTL DEF Spec
=============================================================================
