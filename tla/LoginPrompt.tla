------------------------------ MODULE LoginPrompt -----------------------------
(***************************************************************************)
(* startClient (internal/telegram/login.go): the client connects in a      *)
(* goroutine that may ask the user for phone, code and password, while the *)
(* main goroutine waits for its result, for a timeout and for a token that *)
(* says that a prompt began or ended.  They share an atomic flag and a     *)
(* channel of one token, which is dropped when one is there.               *)
(*                                                                         *)
(* Time passes in ticks, and only when neither goroutine can go on: a step *)
(* takes microseconds, a tick is a part of the timeout.                    *)
(***************************************************************************)
EXTENDS Integers

CONSTANTS
  Timeout,    \* TG_CONNECT_TIMEOUT_SECONDS in ticks; 0, no timeout, is left out
  MaxPrompts  \* prompts of one login (a bound)

ASSUME LoginAssumption == Timeout \in Nat \ {0} /\ MaxPrompts \in Nat

VARIABLES
  main,          \* "select", "woken", "expired", "aborting", "returned"
  client,        \* "connecting", "asked", "reading", "typing", "entered",
                 \* "ready"; typing when the user has taken a tick
  promptActive,  \* the atomic flag
  wake,          \* whether the channel holds a token
  timer,         \* [state, left]; a fired timer has its value in its channel
  paused,        \* timeoutPaused
  prompts,       \* prompts so far
  network        \* ghost: ticks of waiting since the start or the last entry
                 \* that took time

vars == <<main, client, promptActive, wake, timer, paused, prompts, network>>
mains == <<main, timer, paused>>
clients == <<client, promptActive, wake, prompts>>

-----------------------------------------------------------------------------
(* The client goroutine: ask and setPromptActive *)

\* The flag is stored, then the token is sent.
Ask ==
  /\ client = "connecting" /\ prompts < MaxPrompts
  /\ client' = "asked"
  /\ promptActive' = TRUE
  /\ prompts' = prompts + 1
  /\ UNCHANGED <<mains, wake, network>>

\* A slip for a mutant: only the beginning of a prompt is told.
TokenAtStart == wake \/ promptActive

\* A token, unless there is one.
Token == TRUE

Tell ==
  /\ client \in {"asked", "entered"}
  /\ wake' = Token
  /\ client' = IF client = "asked" THEN "reading" ELSE "connecting"
  /\ UNCHANGED <<mains, promptActive, prompts, network>>

\* The user enters a line; when is up to them.  It may be there already.
Enter ==
  /\ client \in {"reading", "typing"}
  /\ client' = "entered"
  /\ promptActive' = FALSE
  /\ network' = IF client = "typing" THEN 0 ELSE network
  /\ UNCHANGED <<mains, wake, prompts>>

\* The connection is made or fails.
Connect ==
  /\ client = "connecting"
  /\ client' = "ready"
  /\ UNCHANGED <<mains, promptActive, wake, prompts, network>>

-----------------------------------------------------------------------------
(* The main goroutine: the select loop *)

TakeResult ==
  /\ main = "select" /\ client = "ready"
  /\ main' = "returned"
  /\ UNCHANGED <<clients, timer, paused, network>>

TakeToken ==
  /\ main = "select" /\ wake
  /\ main' = "woken"
  /\ wake' = FALSE
  /\ UNCHANGED <<client, promptActive, prompts, timer, paused, network>>

\* A slip for a mutant: the timer runs on.
StoppedNot == timer

\* stopTimer also takes the value of a timer that has fired.
Stopped == [timer EXCEPT !.state = "stopped"]

\* Slip for a mutant: the timer goes on with what was left of it,
\* and never gets the pause back.
RestartedWithRest == [timer EXCEPT !.state = "running"]

Restarted == [state |-> "running", left |-> Timeout]

setTimeoutPaused ==
  /\ main = "woken"
  /\ main' = "select"
  /\ paused' = promptActive
  /\ timer' = IF promptActive THEN IF paused THEN timer ELSE Stopped
              ELSE IF paused THEN Restarted ELSE timer
  /\ UNCHANGED <<clients, network>>

TakeTimer ==
  /\ main = "select" /\ timer.state = "fired"
  /\ main' = "expired"
  /\ timer' = [timer EXCEPT !.state = "stopped"]
  /\ UNCHANGED <<clients, paused, network>>

\* A timer that expires in a prompt waits for its end.
Expire ==
  /\ main = "expired"
  /\ IF promptActive
     THEN main' = "select" /\ paused' = TRUE
     ELSE main' = "aborting" /\ UNCHANGED paused
  /\ UNCHANGED <<clients, timer, network>>

\* cancelClient, and the error; the client goroutine may have gone on.
Abort ==
  /\ main = "aborting"
  /\ main' = "returned"
  /\ UNCHANGED <<clients, timer, paused, network>>

-----------------------------------------------------------------------------
Waiting ==
  /\ main = "select" /\ ~wake /\ timer.state # "fired"
  /\ client \in {"connecting", "reading", "typing"}

\* Beyond the timeout the ghost counts no further.
Tick ==
  /\ Waiting
  /\ timer' = IF timer.state # "running" THEN timer
              ELSE [state |-> IF timer.left = 1 THEN "fired" ELSE "running",
                    left |-> timer.left - 1]
  /\ IF client = "connecting"
     THEN /\ network' = IF network = Timeout THEN network ELSE network + 1
          /\ UNCHANGED client
     ELSE client' = "typing" /\ UNCHANGED network
  /\ UNCHANGED <<promptActive, wake, prompts, main, paused>>

Init ==
  /\ main = "select" /\ client = "connecting"
  /\ promptActive = FALSE /\ wake = FALSE
  /\ timer = [state |-> "running", left |-> Timeout]
  /\ paused = FALSE
  /\ prompts = 0
  /\ network = 0

MainStep == TakeResult \/ TakeToken \/ setTimeoutPaused \/ TakeTimer \/ Expire \/ Abort

Next == Ask \/ Tell \/ Enter \/ Connect \/ MainStep \/ Tick

\* The goroutines are scheduled and time passes.  Nobody has to enter a line
\* and no network has to answer.
Spec == Init /\ [][Next]_vars /\ WF_vars(MainStep) /\ WF_vars(Tell) /\ WF_vars(Tick)

-----------------------------------------------------------------------------
(* Properties *)

TypeOK ==
  /\ main \in {"select", "woken", "expired", "aborting", "returned"}
  /\ client \in {"connecting", "asked", "reading", "typing", "entered", "ready"}
  /\ promptActive \in BOOLEAN /\ wake \in BOOLEAN /\ paused \in BOOLEAN
  /\ timer \in [state : {"running", "stopped", "fired"}, left : 0..Timeout]
  /\ prompts \in 0..MaxPrompts
  /\ network \in 0..Timeout

\* The time the user takes is not counted: the login is given up only after a
\* whole timeout of waiting for Telegram since the last entry that took the
\* user any time, in any order of prompts, tokens and expiry.
HumanTimeNotCounted == main = "aborting" => network = Timeout

\* No prompt leaves the timeout paused for ever: a connection that hangs after
\* the last entry is given up, although tokens may have been dropped.
HangingLoginEnds == <>[](client = "connecting") => <>(main = "returned")
=============================================================================
