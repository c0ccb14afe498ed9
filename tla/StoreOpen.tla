------------------------------ MODULE StoreOpen ------------------------------
(***************************************************************************)
(* Opening the SQLite database: Migrate brings it to schema version 2,     *)
(* SetAccount finds, adopts or creates the account of the logged-in user,  *)
(* and what is saved afterwards belongs to that account.  Processes share  *)
(* the file, and any statement may be the last one of a process: it dies,  *)
(* its context is cancelled, the disk is full or the file is locked.       *)
(*                                                                         *)
(* Statements outside a transaction are steps of their own, a transaction  *)
(* is one step.  An aborted process leaves what its statements have done.  *)
(***************************************************************************)
EXTENDS Integers, Sequences, FiniteSets

CONSTANTS
  Procs,     \* processes that open the file, again and again
  Users,     \* Telegram users that log in
  Legacy,    \* the owner of version 1 rows, and of an account nobody adopted
  NoOne,     \* an account row that does not exist
  Starts,    \* what the file may hold first: "empty", "v1" or "newer"
  MaxFaults  \* aborted opens in one behaviour (a bound)

SchemaVersion == 2

\* In the order in which they are created.
Tables == <<"accounts", "users", "chats", "topics", "messages", "sync_runs",
            "sync_run_items">>

TableNames == {Tables[i] : i \in DOMAIN Tables}

V1Tables == TableNames \ {"accounts"}

\* Nobody deletes accounts: one per user, and the legacy one.
AccountIds == 1..Cardinality(Users) + 1

ASSUME StoreAssumption ==
  /\ IsFiniteSet(Users)
  /\ Legacy \notin Users /\ NoOne \notin Users /\ NoOne # Legacy
  /\ Starts \subseteq {"empty", "v1", "newer"}
  /\ MaxFaults \in Nat

VARIABLES
  shape,    \* each table: "none", or the version of its columns
  version,  \* PRAGMA user_version
  accounts, \* the user of each account row
  rows,     \* pairs of who saved a message and its account_id, 0 in version 1
  proc,     \* the state of each process
  faults,   \* aborts so far
  raced     \* history: users that went on with an account another had adopted

vars == <<shape, version, accounts, rows, proc, faults, raced>>
db == <<shape, version, accounts, rows>>

\* step: the next CREATE TABLE; id: the row SetAccount has found; account:
\* the store's accountID; hit: this open was aborted.
Closed == [pc |-> "closed", user |-> NoOne, step |-> 1, id |-> 0, account |-> 0,
           version |-> 0, hit |-> FALSE]

At(p, pc) == proc[p].pc = pc

Become(p, next) == proc' = [proc EXCEPT ![p] = next]

Goto(p, pc) == Become(p, [proc[p] EXCEPT !.pc = pc])

-----------------------------------------------------------------------------
(* Migrate *)

Open(p) ==
  /\ At(p, "closed")
  /\ \E u \in Users : Become(p, [Closed EXCEPT !.pc = "version", !.user = u])
  /\ UNCHANGED <<db, faults, raced>>

Refused(v) == v > SchemaVersion

ReadVersion(p) ==
  /\ At(p, "version")
  /\ Become(p, [proc[p] EXCEPT !.version = version,
                  !.pc = IF Refused(version) THEN "failed"
                         ELSE IF version < SchemaVersion THEN "probe" ELSE "find"])
  /\ UNCHANGED <<db, faults, raced>>

\* A file without a version and without users is new.
Probe(p) ==
  /\ At(p, "probe")
  /\ Goto(p, IF proc[p].version = 0 /\ shape["users"] = "none" THEN "create" ELSE "migrate")
  /\ UNCHANGED <<db, faults, raced>>

\* Slip for a mutant: the last statement is taken to be the one before it.
IsLastEarly(n) == n = Len(Tables) - 1

IsLast(n) == n = Len(Tables)

Made(old) == IF old = "none" THEN "v2" ELSE old

\* createSchemaV2 runs its statements one by one, outside a transaction.
Create(p) ==
  /\ At(p, "create")
  /\ LET n == proc[p].step
     IN  /\ shape' = [shape EXCEPT ![Tables[n]] = Made(@)]
         /\ Become(p, IF IsLast(n) THEN [proc[p] EXCEPT !.pc = "stamp"]
                      ELSE [proc[p] EXCEPT !.step = n + 1])
  /\ UNCHANGED <<version, accounts, rows, faults, raced>>

Stamp(p) ==
  /\ At(p, "stamp")
  /\ version' = SchemaVersion
  /\ Goto(p, "find")
  /\ UNCHANGED <<shape, accounts, rows, faults, raced>>

\* A slip for a mutant: INSERT OR REPLACE of the legacy account.
CanMigrateOver == \A t \in V1Tables : shape[t] # "none"

\* The renames need every old table, the INSERT of account 1 needs its id free.
CanMigrate ==
  /\ \A t \in V1Tables : shape[t] # "none"
  /\ accounts[1] = NoOne

NewVersion == SchemaVersion

\* migrateV1ToV2, a transaction: it fails as a whole or the rows are copied to
\* new tables under account 1.
Migrate(p) ==
  /\ At(p, "migrate")
  /\ IF CanMigrate
     THEN /\ shape' = [t \in TableNames |-> "v2"]
          /\ accounts' = [accounts EXCEPT ![1] = Legacy]
          /\ rows' = {<<r[1], 1>> : r \in rows}
          /\ version' = NewVersion
          /\ Goto(p, "find")
     ELSE Goto(p, "failed") /\ UNCHANGED db
  /\ UNCHANGED <<faults, raced>>

-----------------------------------------------------------------------------
(* SetAccount *)

IdsOf(u) == {id \in AccountIds : accounts[id] = u}

\* SELECT by telegram_user_id; what is found is used.
Find(p) ==
  /\ At(p, "find")
  /\ \/ IdsOf(proc[p].user) = {} /\ Goto(p, "legacy")
     \/ \E id \in IdsOf(proc[p].user) :
          Become(p, [proc[p] EXCEPT !.account = id, !.pc = "open"])
  /\ UNCHANGED <<db, faults, raced>>

Adoptable == IdsOf(Legacy)

FindLegacy(p) ==
  /\ At(p, "legacy")
  /\ \/ Adoptable = {} /\ Goto(p, "insert")
     \/ \E id \in Adoptable :
          /\ \A other \in Adoptable : id <= other
          /\ Become(p, [proc[p] EXCEPT !.id = id, !.pc = "adopt"])
  /\ UNCHANGED <<db, faults, raced>>

\* A slip for a mutant: the UPDATE has the id only.
OwnerReplaced(owner, user) == user

\* The UPDATE has "AND telegram_user_id IS NULL".
NewOwner(owner, user) == IF owner = Legacy THEN user ELSE owner

\* How many rows the UPDATE changed is not looked at: the id is used anyway.
Adopt(p) ==
  /\ At(p, "adopt")
  /\ LET me == proc[p]
         clash == IdsOf(me.user) # {} /\ accounts[me.id] = Legacy
     IN  IF clash
         THEN Goto(p, "failed") /\ UNCHANGED <<accounts, raced>>
         ELSE /\ accounts' = [accounts EXCEPT ![me.id] = NewOwner(@, me.user)]
              /\ raced' = IF accounts[me.id] \in {Legacy, me.user} THEN raced
                          ELSE raced \cup {me.user}
              /\ Become(p, [me EXCEPT !.account = me.id, !.pc = "open"])
  /\ UNCHANGED <<shape, version, rows, faults>>

\* telegram_user_id is UNIQUE; the ids are given in order.
Insert(p) ==
  /\ At(p, "insert")
  /\ \/ /\ IdsOf(proc[p].user) # {}
        /\ Goto(p, "failed")
        /\ UNCHANGED accounts
     \/ /\ IdsOf(proc[p].user) = {}
        /\ \E id \in IdsOf(NoOne) :
             /\ \A other \in IdsOf(NoOne) : id <= other
             /\ accounts' = [accounts EXCEPT ![id] = proc[p].user]
             /\ Become(p, [proc[p] EXCEPT !.account = id, !.pc = "open"])
  /\ UNCHANGED <<shape, version, rows, faults, raced>>

-----------------------------------------------------------------------------
(* Using and leaving the database *)

\* SaveMessages under the account of the store.
Save(p) ==
  /\ At(p, "open")
  /\ rows' = rows \cup {<<proc[p].user, proc[p].account>>}
  /\ UNCHANGED <<shape, version, accounts, proc, faults, raced>>

Close(p) ==
  /\ proc[p].pc \in {"open", "failed"}
  /\ Become(p, Closed)
  /\ UNCHANGED <<db, faults, raced>>

\* The process dies or its next statement fails.
Abort(p) ==
  /\ proc[p].pc \notin {"closed", "open", "failed"}
  /\ faults < MaxFaults
  /\ faults' = faults + 1
  /\ Become(p, [proc[p] EXCEPT !.pc = "failed", !.hit = TRUE])
  /\ UNCHANGED <<db, raced>>

-----------------------------------------------------------------------------
Holds(start) ==
  /\ shape = [t \in TableNames |->
                CASE start = "empty" -> "none"
                  [] start = "v1"    -> IF t = "accounts" THEN "none" ELSE "v1"
                  [] start = "newer" -> "v2"]
  /\ version = CASE start = "empty" -> 0 [] start = "v1" -> 1 [] start = "newer" -> 3
  /\ rows = IF start = "v1" THEN {<<Legacy, 0>>} ELSE {}

Init ==
  /\ \E start \in Starts : Holds(start)
  /\ accounts = [id \in AccountIds |-> NoOne]
  /\ proc = [p \in Procs |-> Closed]
  /\ faults = 0
  /\ raced = {}

Migration(p) == ReadVersion(p) \/ Probe(p) \/ Create(p) \/ Stamp(p) \/ Migrate(p)

SetAccount(p) == Find(p) \/ FindLegacy(p) \/ Adopt(p) \/ Insert(p)

Next ==
  \E p \in Procs :
    Open(p) \/ Migration(p) \/ SetAccount(p) \/ Save(p) \/ Close(p) \/ Abort(p)

Spec == Init /\ [][Next]_vars

-----------------------------------------------------------------------------
(* Properties *)

Shapes == {"none", "v1", "v2"}

PCs == {"closed", "version", "probe", "create", "stamp", "migrate", "find", "legacy",
        "adopt", "insert", "open", "failed"}

\* An open store has an account, and one that looks at a legacy row has its id.
TypeOK ==
  /\ shape \in [TableNames -> Shapes]
  /\ version \in 0..SchemaVersion + 1
  /\ accounts \in [AccountIds -> Users \cup {Legacy, NoOne}]
  /\ rows \subseteq (Users \cup {Legacy}) \X (AccountIds \cup {0})
  /\ faults \in 0..MaxFaults
  /\ raced \subseteq Users
  /\ \A p \in Procs :
       /\ proc[p].pc \in PCs
       /\ proc[p].step \in DOMAIN Tables
       /\ At(p, "open") => proc[p].account \in AccountIds
       /\ At(p, "adopt") => proc[p].id \in AccountIds

\* The file is migrated automatically: an open that nothing disturbs succeeds,
\* whatever happened to earlier ones, unless the file is of a newer program.
OpenSucceeds ==
  \A p \in Procs : At(p, "failed") /\ version <= SchemaVersion => proc[p].hit

\* Past Migrate, every table has its version 2 columns, the version says so,
\* and no row is without an account: the statements that follow rely on it.
ReadyIsComplete ==
  \A p \in Procs :
    proc[p].pc \in {"find", "legacy", "adopt", "insert", "open"} =>
      /\ version = SchemaVersion
      /\ \A t \in TableNames : shape[t] = "v2"
      /\ \A r \in rows : r[2] # 0

\* No step loses a message or moves it to another account, except that the
\* migration gives the rows of version 1 to account 1: not even a process that
\* read the version long before others migrated, logged in and saved.
RowsKept ==
  [][\A r \in rows : r \in rows' \/ (r[2] = 0 /\ <<r[1], 1>> \in rows')]_vars

\* A message of a logged-in user is kept under the account of that user.
AccountsSeparate ==
  \A r \in rows : r[1] \in Users /\ r[2] # 0 => accounts[r[2]] = r[1]

\* Whatever the order of logins, adoptions, aborts and savings, only a user who
\* came second in a race for the legacy account has messages in the account
\* of another one; all other messages are where their user finds them again.
OnlyRacesMixUsers ==
  \A r \in rows : r[1] \in Users \ raced /\ r[2] # 0 => accounts[r[2]] = r[1]
=============================================================================
