--------------------------- MODULE FloodPacerProofs ---------------------------
(***************************************************************************)
(* For any callers, waits and settings: the variables keep their types and *)
(* the level of the pacer is the one that flood waits and successes have   *)
(* earned.  The level alone does not determine itself after a success: the *)
(* inductive invariant adds what the count of successes stands for.        *)
(***************************************************************************)
EXTENDS FloodPacer, TLAPS

\* The count is what is left of the successes when each five lowered the level.
CountIsEarned ==
  pacer.successes = IF pacer.level = 0 THEN 0 ELSE earned.since % SuccessesToReduceDelay

IInv == TypeOK /\ LevelIsEarned /\ CountIsEarned

\* What the pacer does with a flood wait: the level it reaches is the peak
\* that nothing has been earned back from.
LEMMA FloodStep ==
  ASSUME NEW p \in [level : Levels, successes : 0..SuccessesToReduceDelay - 1],
         NEW wait \in Nat
  PROVE  /\ AfterFlood(p, wait).level \in Levels
         /\ AfterFlood(p, wait) = [level |-> AfterFlood(p, wait).level, successes |-> 0]
BY DEF AfterFlood, Less, Levels, MaxHistoryBackoffLevel, LongFloodWaitThreshold,
       SuccessesToReduceDelay

\* Five successes lower the level by one: the arithmetic of one success.
LEMMA SuccessStep ==
  ASSUME NEW peak \in 0..5, NEW since \in 0..25, NEW level \in 0..5, NEW count \in 0..4,
         level = IF 0 > peak - since \div 5 THEN 0 ELSE peak - since \div 5,
         count = IF level = 0 THEN 0 ELSE since % 5,
         NEW later \in 0..25,
         later = IF since + 1 < 25 THEN since + 1 ELSE 25
  PROVE  /\ level = 0 => 0 >= peak - later \div 5
         /\ level # 0 /\ count + 1 >= 5 =>
              /\ level - 1 = peak - later \div 5
              /\ later % 5 = 0
         /\ level # 0 /\ count + 1 < 5 =>
              /\ level = peak - later \div 5
              /\ later % 5 = count + 1
OBVIOUS

LEMMA InitIInv == Init => IInv
<1> SUFFICES ASSUME Init PROVE IInv
  OBVIOUS
<1>1. 0 \div 5 = 0
  OBVIOUS
<1>2. pacer.level = 0 /\ pacer.successes = 0 /\ earned.peak = 0 /\ earned.since = 0
  BY DEF Init
<1>3. TypeOK
  <2>1. pacer \in [level : 0..5, successes : 0..4] /\ earned \in [peak : 0..5, since : 0..25]
    BY DEF Init
  <2>2. SuccessesToReduceDelay - 1 = 4 /\ SuccessesToReduceDelay * MaxHistoryBackoffLevel = 25
    BY DEF SuccessesToReduceDelay, MaxHistoryBackoffLevel
  <2> QED
    BY <2>1, <2>2 DEF Init, TypeOK, Levels, MaxHistoryBackoffLevel
<1>4. LevelIsEarned /\ CountIsEarned
  BY <1>1, <1>2 DEF LevelIsEarned, CountIsEarned, Greater, SuccessesToReduceDelay
<1> QED
  BY <1>3, <1>4 DEF IInv

LEMMA StepIInv == IInv /\ [Next]_vars => IInv'
<1> SUFFICES ASSUME IInv, [Next]_vars PROVE IInv'
  OBVIOUS
<1> USE DEF IInv
<1>1. CASE UNCHANGED vars
  BY <1>1 DEF vars, TypeOK, LevelIsEarned, CountIsEarned
<1>2. ASSUME NEW c \in Callers,
             Begin(c) \/ BeginUnpaced(c) \/ Send(c) \/ Answer(c) \/ Fail(c)
      PROVE  IInv'
  BY <1>2 DEF Begin, BeginUnpaced, Send, Answer, Fail, AfterError, Goto, settled, TypeOK,
       LevelIsEarned, CountIsEarned
<1>3. ASSUME NEW c \in Callers, Flood(c)
      PROVE  IInv'
  <2>1. PICK wait \in Nat :
          /\ pacer' = AfterFlood(pacer, wait)
          /\ earned' = [peak |-> AfterFlood(pacer, wait).level, since |-> 0]
    BY <1>3, PacerAssumption DEF Flood, Seconds
  <2>2. /\ AfterFlood(pacer, wait).level \in Levels
        /\ AfterFlood(pacer, wait) = [level |-> AfterFlood(pacer, wait).level, successes |-> 0]
    BY FloodStep DEF TypeOK
  <2>3. /\ raw' = raw /\ listed' = listed
        /\ call' \in [Callers -> {"idle", "pausing", "sent", "answered", "flooded", "ended"}]
    BY <1>3 DEF Flood, Goto, AfterError, TypeOK
  <2>4. TypeOK'
    BY <2>1, <2>2, <2>3 DEF TypeOK, Levels, SuccessesToReduceDelay, MaxHistoryBackoffLevel
  <2>5. LevelIsEarned' /\ CountIsEarned'
    BY <2>1, <2>2 DEF LevelIsEarned, CountIsEarned, Greater, Levels,
         SuccessesToReduceDelay, MaxHistoryBackoffLevel
  <2> QED
    BY <2>4, <2>5
<1>4. ASSUME NEW c \in Callers, RecordSuccess(c)
      PROVE  IInv'
  <2> DEFINE later == IF earned.since + 1 < 25 THEN earned.since + 1 ELSE 25
  <2>1. /\ earned.peak \in 0..5 /\ earned.since \in 0..25
        /\ pacer.level \in 0..5 /\ pacer.successes \in 0..4
        /\ pacer = [level |-> pacer.level, successes |-> pacer.successes]
    BY DEF TypeOK, Levels, SuccessesToReduceDelay, MaxHistoryBackoffLevel
  <2>2. /\ pacer' = AfterSuccess(pacer)
        /\ earned' = [peak |-> earned.peak, since |-> later]
    BY <1>4 DEF RecordSuccess, Less, TypeOK, SuccessesToReduceDelay, MaxHistoryBackoffLevel
  <2>3. later \in 0..25
    BY <2>1
  <2>4. /\ pacer.level = 0 => 0 >= earned.peak - later \div 5
        /\ pacer.level # 0 /\ pacer.successes + 1 >= 5 =>
             /\ pacer.level - 1 = earned.peak - later \div 5
             /\ later % 5 = 0
        /\ pacer.level # 0 /\ pacer.successes + 1 < 5 =>
             /\ pacer.level = earned.peak - later \div 5
             /\ later % 5 = pacer.successes + 1
    <3>1. /\ pacer.level = IF 0 > earned.peak - earned.since \div 5 THEN 0
                           ELSE earned.peak - earned.since \div 5
          /\ pacer.successes = IF pacer.level = 0 THEN 0 ELSE earned.since % 5
      BY DEF LevelIsEarned, CountIsEarned, Greater, SuccessesToReduceDelay
    <3> HIDE DEF later
    <3>2. later = IF earned.since + 1 < 25 THEN earned.since + 1 ELSE 25
      BY DEF later
    <3> QED
      BY <2>1, <2>3, <3>1, <3>2, SuccessStep
  <2> HIDE DEF later
  <2>5. /\ pacer'.level \in 0..5 /\ pacer'.successes \in 0..4
        /\ pacer' = [level |-> pacer'.level, successes |-> pacer'.successes]
    BY <2>1, <2>2 DEF AfterSuccess, SuccessesToReduceDelay
  <2>6. TypeOK'
    <3>1. /\ raw' = raw /\ listed' \in BOOLEAN
          /\ call' \in [Callers -> {"idle", "pausing", "sent", "answered", "flooded", "ended"}]
      BY <1>4 DEF RecordSuccess, Goto, TypeOK
    <3>2. earned' \in [peak : 0..5, since : 0..25]
      BY <2>1, <2>2, <2>3
    <3> QED
      BY <2>5, <3>1, <3>2 DEF TypeOK, Levels, SuccessesToReduceDelay, MaxHistoryBackoffLevel
  <2>7. LevelIsEarned' /\ CountIsEarned'
    <3>1. earned'.peak = earned.peak /\ earned'.since = later
      BY <2>2
    <3>2. CASE pacer.level = 0
      BY <2>1, <2>2, <2>3, <2>4, <3>1, <3>2 DEF AfterSuccess, LevelIsEarned, CountIsEarned, Greater,
           SuccessesToReduceDelay
    <3>3. CASE pacer.level # 0 /\ pacer.successes + 1 >= 5
      <4>1. pacer'.level = pacer.level - 1 /\ pacer'.successes = 0
        BY <2>1, <2>2, <3>3 DEF AfterSuccess, SuccessesToReduceDelay
      <4> QED
        BY <2>1, <2>3, <2>4, <3>1, <3>3, <4>1 DEF LevelIsEarned, CountIsEarned, Greater,
             SuccessesToReduceDelay
    <3>4. CASE pacer.level # 0 /\ pacer.successes + 1 < 5
      <4>1. pacer'.level = pacer.level /\ pacer'.successes = pacer.successes + 1
        BY <2>1, <2>2, <3>4 DEF AfterSuccess, SuccessesToReduceDelay
      <4> QED
        BY <2>1, <2>3, <2>4, <3>1, <3>4, <4>1 DEF LevelIsEarned, CountIsEarned, Greater,
             SuccessesToReduceDelay
    <3> QED
      BY <2>1, <3>2, <3>3, <3>4
  <2> QED
    BY <2>6, <2>7
<1> QED
  BY <1>1, <1>2, <1>3, <1>4 DEF Next

\* The variables of the pacer, its callers and its settings keep their types:
\* the level stays between none and the highest.
THEOREM TypeCorrect == Spec => []TypeOK
<1>1. IInv => TypeOK
  BY DEF IInv
<1> QED
  BY InitIInv, StepIInv, <1>1, PTL DEF Spec

\* Whatever callers, waits and settings: the level is the one of the last
\* flood wait less one for every five successful calls since.
THEOREM LevelEarned == Spec => []LevelIsEarned
<1>1. IInv => LevelIsEarned
  BY DEF IInv
<1> QED
  BY InitIInv, StepIInv, <1>1, PTL DEF Spec
-----------------------------------------------------------------------------
(* The pauses *)

\* Every pause was drawn at some level, from the range of the settings.
PauseInv ==
  /\ TypeOK
  /\ pause \in [Callers -> [lo : Int, hi : Int]]
  /\ \A c \in Callers : \E level \in Levels : pause[c] = nextDelay(level)

LEMMA DelayFacts ==
  ASSUME TypeOK, NEW level \in Levels
  PROVE  LET min == Clamped(raw.min, 2000)
             max == Clamped(raw.max, 4000)
             delay == nextDelay(level)
             k == Factor(level)
         IN  /\ delay \in [lo : Int, hi : Int]
             /\ delay.lo <= delay.hi /\ {delay.lo, delay.hi} = {min * k, max * k}
             /\ delay.lo >= MinHistoryDelayMs
<1> DEFINE min == Clamped(raw.min, 2000)
           max == Clamped(raw.max, 4000)
           k == Factor(level)
<1>1. min \in Int /\ max \in Int /\ min >= 500 /\ max >= 500
  <2>1. raw.min \in RawMs /\ raw.max \in RawMs
    BY DEF TypeOK
  <2>2. raw.min \in Int /\ raw.max \in Int
    BY <2>1, PacerAssumption
  <2>3. ASSUME NEW ms \in Int, NEW default \in {2000, 4000}
        PROVE  Clamped(ms, default) \in Int /\ Clamped(ms, default) >= 500
    BY DEF Clamped, Greater, MinHistoryDelayMs
  <2> QED
    BY <2>2, <2>3
<1>2. k \in {1, 2, 4, 8, 16, 32}
  BY DEF Factor, Levels, MaxHistoryBackoffLevel
<1>3. nextDelay(level) = [lo |-> Less(min, max) * k, hi |-> Greater(min, max) * k]
  BY DEF nextDelay, Base
<1> HIDE DEF min, max, k
<1>4. ASSUME NEW f \in {1, 2, 4, 8, 16, 32}
      PROVE  /\ Less(min, max) * f \in Int /\ Greater(min, max) * f \in Int
             /\ Less(min, max) * f <= Greater(min, max) * f
             /\ {Less(min, max) * f, Greater(min, max) * f} = {min * f, max * f}
             /\ Less(min, max) * f >= 500
  <2>1. CASE min < max
    BY <1>1, <1>4, <2>1 DEF Less, Greater
  <2>2. CASE ~(min < max)
    BY <1>1, <1>4, <2>2 DEF Less, Greater
  <2> QED
    BY <2>1, <2>2
<1>5. /\ Less(min, max) * k \in Int /\ Greater(min, max) * k \in Int
      /\ Less(min, max) * k <= Greater(min, max) * k
      /\ {Less(min, max) * k, Greater(min, max) * k} = {min * k, max * k}
      /\ Less(min, max) * k >= 500
  BY <1>2, <1>4
<1> QED
  BY <1>3, <1>5 DEF min, max, k, MinHistoryDelayMs

LEMMA StepPause == IInv /\ PauseInv /\ [Next]_vars => PauseInv'
<1> SUFFICES ASSUME IInv, PauseInv, [Next]_vars PROVE PauseInv'
  OBVIOUS
<1>0. TypeOK' /\ TypeOK
  BY StepIInv DEF IInv
<1>1. ASSUME UNCHANGED <<raw, pause>> PROVE PauseInv'
  BY <1>0, <1>1 DEF PauseInv, nextDelay
<1>2. ASSUME NEW c \in Callers, Begin(c) PROVE PauseInv'
  <2>1. pacer.level \in Levels /\ raw' = raw
    BY <1>0, <1>2 DEF TypeOK, Begin, settled
  <2>2. nextDelay(pacer.level) \in [lo : Int, hi : Int]
    BY <1>0, <2>1, DelayFacts
  <2>3. pause' = [pause EXCEPT ![c] = nextDelay(pacer.level)]
    BY <1>2 DEF Begin
  <2>4. ASSUME NEW level \in Levels PROVE nextDelay(level)' = nextDelay(level)
    BY <2>1 DEF nextDelay
  <2>5. ASSUME NEW d \in Callers PROVE \E level \in Levels : pause'[d] = nextDelay(level)
    BY <2>1, <2>3 DEF PauseInv
  <2> QED
    BY <1>0, <2>2, <2>3, <2>4, <2>5 DEF PauseInv
<1>3. CASE UNCHANGED vars
  BY <1>1, <1>3 DEF vars
<1> QED
  BY <1>1, <1>2, <1>3
     DEF Next, BeginUnpaced, Send, Answer, Flood, RecordSuccess, Fail, settled

\* Whatever the two settings say and in either order: every pause lies between
\* them, doubled once for each level, and is not shorter than the least delay.
THEOREM PausesFollowSettings == Spec => []PausesAsConfigured
<1>1. Init => PauseInv
  <2> SUFFICES ASSUME Init PROVE PauseInv
    OBVIOUS
  <2>1. TypeOK /\ 0 \in Levels
    BY InitIInv DEF IInv, Levels, MaxHistoryBackoffLevel
  <2>2. nextDelay(0) \in [lo : Int, hi : Int]
    BY <2>1, DelayFacts
  <2> QED
    BY <2>1, <2>2 DEF Init, PauseInv
<1>2. PauseInv => PausesAsConfigured
  <2> SUFFICES ASSUME PauseInv, NEW c \in Callers
               PROVE  \E level \in Levels :
                        LET lo == pause[c].lo
                            hi == pause[c].hi
                            given == {Clamped(raw.min, 2000) * Factor(level),
                                      Clamped(raw.max, 4000) * Factor(level)}
                        IN  lo <= hi /\ {lo, hi} = given /\ lo >= MinHistoryDelayMs
    BY DEF PausesAsConfigured
  <2>1. PICK level \in Levels : pause[c] = nextDelay(level)
    BY DEF PauseInv
  <2> QED
    BY <2>1, DelayFacts DEF PauseInv
<1> QED
  BY <1>1, <1>2, InitIInv, StepIInv, StepPause, PTL DEF Spec
=============================================================================
