--------------------------- MODULE LoginPromptProofs ---------------------------
(***************************************************************************)
(* For every timeout and number of prompts: the time of the user is not    *)
(* counted, and a connection that hangs runs out of steps.  The first is   *)
(* a property of the moment of giving up only; the inductive invariant     *)
(* relates what the timer has left to the ticks of waiting, and says when  *)
(* a prompt that lasts has stopped the timer.                              *)
(***************************************************************************)
EXTENDS LoginPrompt, TLAPS

\* The flag is true from the beginning of a prompt to its entry.
FlagIsPrompt == promptActive <=> client \in {"asked", "reading", "typing"}

\* A paused timeout has no timer, and an expired one has used it up.
PausedIsStopped == paused \/ main \in {"expired", "aborting"} => timer.state = "stopped"

\* The main goroutine knows of a prompt or is about to: a token is in the
\* channel or was taken, or the timeout is being looked into.
PromptIsTold ==
  client = "reading" => paused \/ wake \/ main \in {"woken", "expired", "aborting", "returned"}

\* While a user takes time nothing moves.
TypingIsPaused ==
  client = "typing" =>
    main = "select" /\ ~wake /\ paused /\ timer.state = "stopped"

\* The timer has not run for longer than the network was waited for.
TimerIsNetwork ==
  /\ timer.state = "running" => Timeout - timer.left <= network /\ timer.left > 0
  /\ timer.state = "fired" \/ main \in {"expired", "aborting"} => network = Timeout

IInv ==
  /\ TypeOK
  /\ FlagIsPrompt
  /\ PausedIsStopped
  /\ PromptIsTold
  /\ TypingIsPaused
  /\ TimerIsNetwork

LEMMA TimerFields ==
  ASSUME TypeOK
  PROVE  /\ timer = [state |-> timer.state, left |-> timer.left]
         /\ timer.state \in {"running", "stopped", "fired"} /\ timer.left \in 0..Timeout
  BY DEF TypeOK

LEMMA TypeInit == Init => TypeOK
<1> SUFFICES ASSUME Init PROVE TypeOK
  OBVIOUS
<1>1. timer \in [state : {"running", "stopped", "fired"}, left : 0..Timeout]
  BY LoginAssumption DEF Init
<1>2. prompts \in 0..MaxPrompts /\ network \in 0..Timeout
  BY LoginAssumption DEF Init
<1> QED
  BY <1>1, <1>2 DEF Init, TypeOK

LEMMA TypeStep == IInv /\ [Next]_vars => TypeOK'
<1> SUFFICES ASSUME IInv, TypeOK, [Next]_vars PROVE TypeOK'
  BY DEF IInv
<1> USE LoginAssumption DEF mains, clients
<1>1. timer' \in [state : {"running", "stopped", "fired"}, left : 0..Timeout]
  <2>1. CASE UNCHANGED timer
    BY <2>1 DEF TypeOK
  <2>2. CASE setTimeoutPaused \/ TakeTimer
    BY <2>2 DEF setTimeoutPaused, Stopped, Restarted, TakeTimer, TypeOK
  <2>3. CASE Tick
    <3>1. timer.state = "running" => timer.left - 1 \in 0..Timeout
      BY TimerFields DEF IInv, TimerIsNetwork
    <3> QED
      BY <2>3, <3>1 DEF Tick, TypeOK
  <2> QED
    BY <2>1, <2>2, <2>3
       DEF Next, MainStep, Ask, Tell, Enter, Connect, TakeResult, TakeToken, Expire, Abort, vars
<1>2. prompts' \in 0..MaxPrompts /\ network' \in 0..Timeout
  BY DEF Next, MainStep, Ask, Tell, Enter, Connect, TakeResult, TakeToken, setTimeoutPaused,
         TakeTimer, Expire, Abort, Tick, vars, TypeOK
<1>3. /\ main' \in {"select", "woken", "expired", "aborting", "returned"}
      /\ client' \in {"connecting", "asked", "reading", "typing", "entered", "ready"}
  BY DEF Next, MainStep, Ask, Tell, Enter, Connect, TakeResult, TakeToken, setTimeoutPaused,
         TakeTimer, Expire, Abort, Tick, vars, TypeOK
<1>4. promptActive' \in BOOLEAN /\ wake' \in BOOLEAN /\ paused' \in BOOLEAN
  BY DEF Next, MainStep, Ask, Tell, Token, Enter, Connect, TakeResult, TakeToken,
         setTimeoutPaused, TakeTimer, Expire, Abort, Tick, vars, TypeOK
<1> QED
  BY <1>1, <1>2, <1>3, <1>4 DEF TypeOK

LEMMA InitIInv == Init => IInv
<1> SUFFICES ASSUME Init PROVE IInv
  OBVIOUS
<1>1. FlagIsPrompt /\ PausedIsStopped /\ PromptIsTold /\ TypingIsPaused
  BY DEF Init, FlagIsPrompt, PausedIsStopped, PromptIsTold, TypingIsPaused
<1>2. TimerIsNetwork
  BY LoginAssumption DEF Init, TimerIsNetwork
<1> QED
  BY <1>1, <1>2, TypeInit DEF IInv

LEMMA StepIInv == IInv /\ [Next]_vars => IInv'
<1> SUFFICES ASSUME IInv, [Next]_vars PROVE IInv'
  OBVIOUS
<1>0. TypeOK' /\ TypeOK
  BY TypeStep DEF IInv
<1> USE <1>0, LoginAssumption, TimerFields
    DEF IInv, FlagIsPrompt, PausedIsStopped, PromptIsTold, TypingIsPaused,
        TimerIsNetwork, mains, clients
<1>1. CASE Ask
  BY <1>1 DEF Ask
<1>2. CASE Tell
  BY <1>2 DEF Tell, Token
<1>3. CASE Enter
  BY <1>3 DEF Enter
<1>4. CASE Connect
  BY <1>4 DEF Connect
<1>5. CASE TakeResult \/ TakeToken
  BY <1>5 DEF TakeResult, TakeToken
<1>6. CASE setTimeoutPaused
  <2>1. CASE promptActive
    BY <1>6, <2>1 DEF setTimeoutPaused, Stopped
  <2>2. CASE ~promptActive
    <3>1. network \in 0..Timeout
      BY DEF TypeOK
    <3> QED
      BY <1>6, <2>2, <3>1 DEF setTimeoutPaused, Restarted
  <2> QED
    BY <2>1, <2>2
<1>7. CASE TakeTimer
  BY <1>7 DEF TakeTimer
<1>8. CASE Expire \/ Abort
  BY <1>8 DEF Expire, Abort
<1>9. CASE Tick
  <2>0. network \in 0..Timeout
    BY DEF TypeOK
  <2>1. CASE timer.state # "running"
    BY <1>9, <2>0, <2>1 DEF Tick, Waiting
  <2>2. CASE timer.state = "running"
    <3>1. client = "connecting" /\ client' = "connecting" /\ ~paused
      BY <1>9, <2>2 DEF Tick, Waiting
    <3>2. /\ timer'.left = timer.left - 1
          /\ timer'.state = IF timer.left = 1 THEN "fired" ELSE "running"
          /\ network' = IF network = Timeout THEN network ELSE network + 1
          /\ UNCHANGED <<promptActive, wake, main, paused>>
      BY <1>9, <2>2, <3>1 DEF Tick
    <3> QED
      BY <1>9, <2>0, <2>2, <3>1, <3>2 DEF Waiting
  <2> QED
    BY <2>1, <2>2
<1>10. CASE UNCHANGED vars
  BY <1>10 DEF vars
<1> QED
  BY <1>1, <1>2, <1>3, <1>4, <1>5, <1>6, <1>7, <1>8, <1>9, <1>10 DEF Next, MainStep

\* The timer, the flag and the channel keep their types, and the timer never
\* has more than the timeout.
THEOREM TypeCorrect == Spec => []TypeOK
<1>1. IInv => TypeOK
  BY DEF IInv
<1> QED
  BY <1>1, InitIInv, StepIInv, PTL DEF Spec

\* However long the user takes at any prompt, and in whatever order prompts,
\* tokens and the expiry of the timer are seen: a login is given up only after
\* a whole timeout of waiting for Telegram.
THEOREM UserTimeIsFree == Spec => []HumanTimeNotCounted
<1>1. IInv => HumanTimeNotCounted
  BY DEF IInv, TimerIsNetwork, HumanTimeNotCounted
<1> QED
  BY <1>1, InitIInv, StepIInv, PTL DEF Spec

-----------------------------------------------------------------------------
(* No prompt leaves the timeout paused for ever *)

\* The timer is stopped for a prompt or by an expiry only.
StoppedIsPaused == timer.state = "stopped" /\ main \in {"select", "woken"} => paused

\* A token for the end of a prompt may be dropped, but then another is there:
\* who waits for Telegram under a paused timeout has still to hear of it.
EndIsTold ==
  client = "connecting" /\ paused => wake \/ main \in {"woken", "aborting", "returned"}

ResumeInv == IInv /\ StoppedIsPaused /\ EndIsTold

LEMMA StepResumeInv == ResumeInv /\ [Next]_vars => ResumeInv'
<1> SUFFICES ASSUME ResumeInv, [Next]_vars PROVE ResumeInv'
  OBVIOUS
<1>0. IInv /\ IInv' /\ TypeOK
  BY StepIInv DEF ResumeInv, IInv
<1> USE <1>0, TimerFields DEF ResumeInv, StoppedIsPaused, EndIsTold, mains, clients
<1>1. CASE Ask \/ Enter \/ Connect
  BY <1>1 DEF Ask, Enter, Connect
<1>2. CASE Tell
  BY <1>2 DEF Tell, Token
<1>3. CASE TakeResult \/ TakeToken \/ TakeTimer \/ Abort
  BY <1>3 DEF TakeResult, TakeToken, TakeTimer, Abort
<1>4. CASE setTimeoutPaused
  <2>1. promptActive => client # "connecting"
    BY DEF IInv, FlagIsPrompt
  <2> QED
    BY <1>4, <2>1 DEF setTimeoutPaused, Stopped, Restarted
<1>5. CASE Expire
  <2>1. promptActive => client # "connecting"
    BY DEF IInv, FlagIsPrompt
  <2> QED
    BY <1>5, <2>1 DEF Expire
<1>6. CASE Tick
  <2>1. timer'.state = "stopped" => timer.state = "stopped"
    BY <1>6 DEF Tick
  <2> QED
    BY <1>6, <2>1 DEF Tick, Waiting
<1>7. CASE UNCHANGED vars
  BY <1>7 DEF vars
<1> QED
  BY <1>1, <1>2, <1>3, <1>4, <1>5, <1>6, <1>7 DEF Next, MainStep

\* How many steps are left until a connection that hangs is given up, at most.
HangLeft ==
  CASE main = "returned" -> 0
    [] main = "aborting" -> 1
    [] main = "expired"  -> 2
    [] OTHER -> 3 + (IF paused THEN Timeout ELSE timer.left)
                  + (IF main = "woken" THEN 1 ELSE 0) + (IF wake THEN 2 ELSE 0)

\* While the connection hangs every step leaves fewer of them.
HangRunsOut ==
  client = "connecting" /\ client' = "connecting" => HangLeft \in Nat /\ HangLeft' < HangLeft

LEMMA HangRunsOutStep ==
  ASSUME ResumeInv, Next
  PROVE  HangRunsOut
<1> SUFFICES ASSUME client = "connecting", client' = "connecting"
             PROVE  HangLeft \in Nat /\ HangLeft' < HangLeft
  BY DEF HangRunsOut
<1>1. TypeOK /\ timer.left \in Nat /\ Timeout \in Nat /\ ~promptActive
  BY LoginAssumption, TimerFields DEF ResumeInv, IInv, FlagIsPrompt
<1>2. HangLeft \in Nat
  BY <1>1 DEF HangLeft
<1>3. main \in {"select", "woken"} => HangLeft >= 3
  BY <1>1 DEF HangLeft
<1>4. CASE TakeToken
  BY <1>1, <1>2, <1>4 DEF TakeToken, HangLeft
<1>5. CASE setTimeoutPaused
  <2>1. timer' = IF paused THEN Restarted ELSE timer
    BY <1>1, <1>5 DEF setTimeoutPaused
  <2>2. paused => timer'.left = Timeout
    BY <2>1 DEF Restarted
  <2> QED
    BY <1>1, <1>2, <1>5, <2>1, <2>2 DEF setTimeoutPaused, HangLeft, clients
<1>6. CASE TakeTimer \/ Expire \/ Abort
  BY <1>1, <1>2, <1>3, <1>6 DEF TakeTimer, Expire, Abort, HangLeft
<1>7. CASE Tick
  <2>1. main = "select" /\ ~wake /\ timer.state # "fired"
    BY <1>7 DEF Tick, Waiting
  <2>2. ~paused /\ timer.state = "running"
    BY <1>1, <2>1, TimerFields DEF ResumeInv, EndIsTold, StoppedIsPaused
  <2>3. timer'.left = timer.left - 1 /\ UNCHANGED <<main, wake, paused>>
    BY <1>7, <2>2 DEF Tick
  <2> QED
    BY <1>1, <2>1, <2>2, <2>3 DEF HangLeft
<1>8. ~(Ask \/ Tell \/ Enter \/ Connect \/ TakeResult)
  BY DEF Ask, Tell, Enter, Connect, TakeResult
<1> QED
  BY <1>2, <1>4, <1>5, <1>6, <1>7, <1>8 DEF Next, MainStep

\* A connection that hangs is given up after a bounded number of steps: no
\* dropped token leaves the timeout paused, no step lets the loop go round
\* without coming closer to its end.  This is what HangingLoginEnds rests on,
\* without its fairness.
THEOREM BoundedHang == Spec => [][HangRunsOut]_vars
<1>1. Init => ResumeInv
  BY InitIInv DEF Init, ResumeInv, StoppedIsPaused, EndIsTold
<1>2. ResumeInv /\ [Next]_vars => [HangRunsOut]_vars
  BY HangRunsOutStep
<1> QED
  BY <1>1, <1>2, StepResumeInv, PTL DEF Spec
=============================================================================
