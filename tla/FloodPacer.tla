------------------------------ MODULE FloodPacer ------------------------------
(***************************************************************************)
(* The pace of Telegram requests: historyPacer (a pause before each call,  *)
(* doubled with every level), the flood-wait middleware below it (a call   *)
(* that is told to wait is repeated, unless the wait is too long) and the  *)
(* callers that share one client: a sync, whose calls are paced, and       *)
(* the Telegram library, whose own requests (login, updates) pass the same *)
(* middleware without a pause and without being counted as successes.      *)
(*                                                                         *)
(* The mutex of the pacer makes each of its operations one step; between   *)
(* an answer and its RecordSuccess other callers may run.                  *)
(***************************************************************************)
EXTENDS Integers, FiniteSets

CONSTANTS
  Callers,  \* goroutines that send requests
  Paced,    \* the one that runs sync
  Waits,    \* the FLOOD_WAIT seconds the server may ask for
  MaxWait,  \* FLOOD_WAIT_MAX_SECONDS, as loaded
  RawMs     \* what HISTORY_DELAY_MIN_MS and HISTORY_DELAY_MAX_MS may say

MaxHistoryBackoffLevel == 5
SuccessesToReduceDelay == 5
LongFloodWaitThreshold == 60
MinHistoryDelayMs == 500

ASSUME PacerAssumption ==
  /\ Paced \subseteq Callers
  /\ Waits \subseteq Nat
  /\ MaxWait \in Nat
  /\ RawMs \subseteq Int

VARIABLES
  raw,     \* the two settings
  pacer,   \* [level, successes]
  call,    \* where each caller is
  listed,  \* whether sync has its list of dialogs
  pause,   \* the bounds of the last pause of each caller, in ms
  earned   \* ghost: the level after the last flood wait, the successes since

vars == <<raw, pacer, call, listed, pause, earned>>
settled == <<raw, listed>>

Greater(a, b) == IF a > b THEN a ELSE b

Less(a, b) == IF a < b THEN a ELSE b

-----------------------------------------------------------------------------
(* The settings *)

\* config.Load: what is not positive is replaced, what is small is raised.
\* newHistoryPacer would replace it again.
Clamped(ms, default) == IF ms <= 0 THEN default ELSE Greater(ms, MinHistoryDelayMs)

\* A slip for a mutant: reversed settings are not swapped.
BaseAsGiven(r) == [lo |-> Clamped(r.min, 2000), hi |-> Clamped(r.max, 4000)]

Base(r) ==
  LET min == Clamped(r.min, 2000)
      max == Clamped(r.max, 4000)
  IN  [lo |-> Less(min, max), hi |-> Greater(min, max)]

-----------------------------------------------------------------------------
(* The pacer *)

Factor(level) == CASE level = 0 -> 1 [] level = 1 -> 2 [] level = 2 -> 4
                   [] level = 3 -> 8 [] level = 4 -> 16 [] OTHER -> 32

\* A random delay between these bounds.
nextDelay(level) == [lo |-> Base(raw).lo * Factor(level), hi |-> Base(raw).hi * Factor(level)]

\* A slip for a mutant: the count is kept when it has lowered the level.
AfterSuccessKept(p) ==
  IF p.level = 0 THEN [p EXCEPT !.successes = 0]
  ELSE IF p.successes + 1 >= SuccessesToReduceDelay
       THEN [p EXCEPT !.level = @ - 1]
       ELSE [p EXCEPT !.successes = @ + 1]

AfterSuccess(p) ==
  IF p.level = 0 THEN [p EXCEPT !.successes = 0]
  ELSE IF p.successes + 1 >= SuccessesToReduceDelay
       THEN [level |-> p.level - 1, successes |-> 0]
       ELSE [p EXCEPT !.successes = @ + 1]

\* Slips for mutants: the count is kept, the level has no limit.
AfterFloodKept(p, wait) ==
  [p EXCEPT !.level = IF wait >= LongFloodWaitThreshold THEN MaxHistoryBackoffLevel
                      ELSE Less(@ + 1, MaxHistoryBackoffLevel)]

AfterFloodUnlimited(p, wait) ==
  [level |-> IF wait >= LongFloodWaitThreshold THEN MaxHistoryBackoffLevel ELSE p.level + 1,
   successes |-> 0]

AfterFlood(p, wait) ==
  [level |-> IF wait >= LongFloodWaitThreshold THEN MaxHistoryBackoffLevel
             ELSE Less(p.level + 1, MaxHistoryBackoffLevel),
   successes |-> 0]

-----------------------------------------------------------------------------
(* A call *)

\* An error before the dialogs are listed ends sync; after it, the next chat
\* or topic has its turn.
AfterError(c) == IF c \in Paced /\ ~listed THEN "ended" ELSE "idle"

Goto(c, pc) == call' = [call EXCEPT ![c] = pc]

\* Wait: the delay is taken from the level of now.
Begin(c) ==
  /\ c \in Paced
  /\ call[c] = "idle"
  /\ pause' = [pause EXCEPT ![c] = nextDelay(pacer.level)]
  /\ Goto(c, "pausing")
  /\ UNCHANGED <<settled, pacer, earned>>

\* A request of the library.
BeginUnpaced(c) ==
  /\ c \notin Paced
  /\ call[c] = "idle"
  /\ Goto(c, "sent")
  /\ UNCHANGED <<settled, pacer, pause, earned>>

\* The pause is over, or the wait the server asked for: no new pause then.
Send(c) ==
  /\ call[c] \in {"pausing", "flooded"}
  /\ Goto(c, "sent")
  /\ UNCHANGED <<settled, pacer, pause, earned>>

Answer(c) ==
  /\ call[c] = "sent"
  /\ Goto(c, IF c \in Paced THEN "answered" ELSE "idle")
  /\ UNCHANGED <<settled, pacer, pause, earned>>

\* The code reads a wait of 0 as one second.
Seconds(wait) == IF wait = 0 THEN 1 ELSE wait

\* FLOOD_WAIT: recorded, and repeated after the wait unless it is too long.
Flood(c) ==
  /\ call[c] = "sent"
  /\ \E w \in Waits :
       LET wait == Seconds(w)
           long == MaxWait > 0 /\ wait > MaxWait
           next == AfterFlood(pacer, wait)
       IN  /\ pacer' = next
           /\ earned' = [peak |-> next.level, since |-> 0]
           /\ Goto(c, IF long THEN AfterError(c) ELSE "flooded")
  /\ UNCHANGED <<raw, listed, pause>>

\* GetDialogs ends with one of its pages, and is the first to be called.
RecordSuccess(c) ==
  /\ call[c] = "answered"
  /\ \E last \in BOOLEAN : listed' = (listed \/ last)
  /\ pacer' = AfterSuccess(pacer)
  /\ earned' = [earned EXCEPT !.since =
                  Less(@ + 1, SuccessesToReduceDelay * MaxHistoryBackoffLevel)]
  /\ Goto(c, "idle")
  /\ UNCHANGED <<raw, pause>>

\* Another error, or the context is cancelled in a pause or a request.
Fail(c) ==
  /\ call[c] \in {"pausing", "flooded", "sent"}
  /\ Goto(c, AfterError(c))
  /\ UNCHANGED <<settled, pacer, pause, earned>>

Init ==
  /\ raw \in [min : RawMs, max : RawMs]
  /\ pacer = [level |-> 0, successes |-> 0]
  /\ call = [c \in Callers |-> "idle"]
  /\ listed = FALSE
  /\ pause = [c \in Callers |-> nextDelay(0)]
  /\ earned = [peak |-> 0, since |-> 0]

Next ==
  \E c \in Callers :
    \/ Begin(c) \/ BeginUnpaced(c) \/ Send(c) \/ Answer(c)
    \/ Flood(c) \/ RecordSuccess(c) \/ Fail(c)

Spec == Init /\ [][Next]_vars

-----------------------------------------------------------------------------
(* Properties *)

Levels == 0..MaxHistoryBackoffLevel

TypeOK ==
  /\ raw \in [min : RawMs, max : RawMs]
  /\ pacer \in [level : Levels, successes : 0..SuccessesToReduceDelay - 1]
  /\ call \in [Callers -> {"idle", "pausing", "sent", "answered", "flooded", "ended"}]
  /\ listed \in BOOLEAN
  /\ earned \in [peak : Levels, since : 0..SuccessesToReduceDelay * MaxHistoryBackoffLevel]

\* Whatever the callers do in between, the level is the one of the last flood
\* wait less one for every five successful calls since: no success counts that
\* was before the flood, and none counts twice.
LevelIsEarned ==
  pacer.level = Greater(0, earned.peak - earned.since \div SuccessesToReduceDelay)

\* A pause lies between the two settings, in either order, doubled once for
\* each level; settings that make no sense are read as the setup page says.
PausesAsConfigured ==
  \A c \in Callers : \E level \in Levels :
    LET lo == pause[c].lo
        hi == pause[c].hi
        given == {Clamped(raw.min, 2000) * Factor(level), Clamped(raw.max, 4000) * Factor(level)}
    IN  lo <= hi /\ {lo, hi} = given /\ lo >= MinHistoryDelayMs
=============================================================================
