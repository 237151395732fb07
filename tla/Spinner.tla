-------------------------------- MODULE Spinner --------------------------------
(***************************************************************************)
(* The progress spinner (internal/output/spinner.go): callers that start,  *)
(* update and stop it from different goroutines, and the ticker goroutine  *)
(* that redraws its line.                                                  *)
(*                                                                         *)
(* A text is the width of the line it makes, for the line on the terminal  *)
(* is overwritten from its first column: a frame covers as many columns as *)
(* it is wide and leaves the others.                                       *)
(***************************************************************************)
EXTENDS Integers

CONSTANTS
    Caller,
    Ticker,      \* the goroutine that Start launches
    None,
    Text,
    MaxCalls     \* bound on the calls of all callers

ASSUME SpinnerAssumption ==
    /\ Ticker \notin Caller
    /\ None \notin Caller \cup {Ticker}
    /\ Text \subseteq Nat \ {0}
    /\ MaxCalls \in Nat

Actor == Caller \cup {Ticker}

VARIABLES
    active,      \* NewSpinner: whether anything is written at all
    mu,          \* who holds the lock
    text,        \* 0: none yet
    started,
    stopped,
    lastWidth,
    closed,      \* stopCh
    wg,
    pc,          \* the next step of an actor
    then,        \* what an actor does when its redraw is over
    line,        \* the line an actor is about to write
    shown,       \* the line last written, 0 if it was cleared
    columns,     \* the columns of the terminal's line that are not blank
    calls

data == <<active, text, started, stopped, closed, wg>>
terminal == <<shown, columns>>
vars == <<data, mu, lastWidth, pc, then, line, terminal, calls>>

Idle == {"idle", "none", "gone"}
Stopping == {"close", "wait", "clear", "wipe"}

TypeOK ==
    /\ active \in BOOLEAN
    /\ mu \in Actor \cup {None}
    /\ text \in Text \cup {0}
    /\ started \in BOOLEAN
    /\ stopped \in BOOLEAN
    /\ lastWidth \in Nat
    /\ closed \in BOOLEAN
    /\ wg \in Int
    /\ pc \in [Actor -> Idle \cup Stopping \cup {"redraw", "write", "spawn", "select"}]
    /\ then \in [Actor -> {"idle", "spawn", "select"}]
    /\ line \in [Actor -> Text \cup {0}]
    /\ shown \in Text \cup {0}
    /\ columns \subseteq Nat
    /\ calls \in 0..MaxCalls

Init ==
    /\ active \in BOOLEAN
    /\ mu = None
    /\ text = 0
    /\ started = FALSE
    /\ stopped = FALSE
    /\ lastWidth = 0
    /\ closed = FALSE
    /\ wg = 0
    /\ pc = [a \in Actor |-> IF a = Ticker THEN "none" ELSE "idle"]
    /\ then = [a \in Actor |-> IF a = Ticker THEN "select" ELSE "idle"]
    /\ line = [a \in Actor |-> 0]
    /\ shown = 0
    /\ columns = {}
    /\ calls = 0

Goto(a, step) == pc' = [pc EXCEPT ![a] = step]
Free == mu = None

-----------------------------------------------------------------------------
(* redraw: everything from the check of stopped to the write is under the  *)
(* lock.                                                                   *)

(* Mutant of Redraw: the lock is released before the write.                *)
RedrawUnlocked(a) ==
    /\ pc[a] = "redraw"
    /\ Free
    /\ IF stopped
       THEN Goto(a, then[a]) /\ UNCHANGED <<lastWidth, line>>
       ELSE /\ line' = [line EXCEPT ![a] = text]
            /\ lastWidth' = text
            /\ Goto(a, "write")
    /\ UNCHANGED <<mu, data, then, terminal, calls>>

Redraw(a) ==
    /\ pc[a] = "redraw"
    /\ Free
    /\ IF stopped
       THEN Goto(a, then[a]) /\ UNCHANGED <<mu, lastWidth, line>>
       ELSE /\ mu' = a
            /\ line' = [line EXCEPT ![a] = text]
            /\ lastWidth' = text
            /\ Goto(a, "write")
    /\ UNCHANGED <<data, then, terminal, calls>>

Write(a) ==
    /\ pc[a] = "write"
    /\ shown' = line[a]
    /\ columns' = columns \cup 1..line[a]
    /\ mu' = None
    /\ Goto(a, then[a])
    /\ UNCHANGED <<data, lastWidth, then, line, calls>>

-----------------------------------------------------------------------------
(* The calls.  One that does nothing is a step that only counts.           *)

Call(c) ==
    /\ pc[c] = "idle"
    /\ Free
    /\ calls < MaxCalls
    /\ calls' = calls + 1
    /\ UNCHANGED <<active, mu, closed, lastWidth, line, terminal>>

Ignored == UNCHANGED <<text, started, stopped, wg, pc, then>>

(* Mutant of Start: the goroutine is not registered before the lock is     *)
(* released.                                                               *)
StartUnregistered(c, t) ==
    /\ Call(c)
    /\ \/ (~active \/ started \/ stopped) /\ Ignored
       \/ /\ active /\ ~started /\ ~stopped
          /\ text' = t
          /\ started' = TRUE
          /\ then' = [then EXCEPT ![c] = "spawn"]
          /\ Goto(c, "redraw")
          /\ UNCHANGED <<stopped, wg>>

Start(c, t) ==
    /\ Call(c)
    /\ \/ (~active \/ started \/ stopped) /\ Ignored
       \/ /\ active /\ ~started /\ ~stopped
          /\ text' = t
          /\ started' = TRUE
          /\ wg' = wg + 1
          /\ then' = [then EXCEPT ![c] = "spawn"]
          /\ Goto(c, "redraw")
          /\ UNCHANGED stopped

Spawn(c) ==
    /\ pc[c] = "spawn"
    /\ pc' = [pc EXCEPT ![c] = "idle", ![Ticker] = "select"]
    /\ then' = [then EXCEPT ![c] = "idle"]
    /\ UNCHANGED <<data, mu, lastWidth, line, terminal, calls>>

Update(c, t) ==
    /\ Call(c)
    /\ \/ (~active \/ stopped) /\ Ignored
       \/ /\ active /\ ~stopped
          /\ text' = t
          /\ Goto(c, "redraw")
          /\ UNCHANGED <<started, stopped, wg, then>>

Stop(c) ==
    /\ Call(c)
    /\ \/ (~active \/ ~started \/ stopped) /\ Ignored
       \/ /\ active /\ started /\ ~stopped
          /\ stopped' = TRUE
          /\ Goto(c, "close")
          /\ UNCHANGED <<text, started, wg, then>>

(* Mutant of Close: the ticker is not told.                                *)
CloseForgotten(c) ==
    /\ pc[c] = "close"
    /\ Goto(c, "wait")
    /\ UNCHANGED <<data, mu, lastWidth, then, line, terminal, calls>>

Close(c) ==
    /\ pc[c] = "close"
    /\ closed' = TRUE
    /\ Goto(c, "wait")
    /\ UNCHANGED <<active, text, started, stopped, wg, mu, lastWidth, then, line, terminal, calls>>

Wait(c) ==
    /\ pc[c] = "wait"
    /\ wg = 0
    /\ Goto(c, "clear")
    /\ UNCHANGED <<data, mu, lastWidth, then, line, terminal, calls>>

Clear(c) ==
    /\ pc[c] = "clear"
    /\ Free
    /\ mu' = c
    /\ Goto(c, "wipe")
    /\ UNCHANGED <<data, lastWidth, then, line, terminal, calls>>

(* As many columns as the last line was wide, and one at least.            *)
Wipe(c) ==
    /\ pc[c] = "wipe"
    /\ shown' = 0
    /\ columns' = columns \ (1..(IF lastWidth > 1 THEN lastWidth ELSE 1))
    /\ mu' = None
    /\ Goto(c, "idle")
    /\ UNCHANGED <<data, lastWidth, then, line, calls>>

-----------------------------------------------------------------------------
(* The ticker: its select takes the closed channel or a tick, at random if *)
(* both are ready.                                                         *)

Tick ==
    /\ pc[Ticker] = "select"
    /\ Goto(Ticker, "redraw")
    /\ UNCHANGED <<data, mu, lastWidth, then, line, terminal, calls>>

Exit ==
    /\ pc[Ticker] = "select"
    /\ closed
    /\ wg' = wg - 1
    /\ Goto(Ticker, "gone")
    /\ UNCHANGED <<active, text, started, stopped, closed, mu, lastWidth, then, line, terminal, calls>>

-----------------------------------------------------------------------------

Finished ==
    /\ calls = MaxCalls
    /\ \A a \in Actor : pc[a] \in Idle
    /\ UNCHANGED vars

Going(a) ==
    \/ Redraw(a) \/ Write(a)
    \/ Spawn(a) \/ Close(a) \/ Wait(a) \/ Clear(a) \/ Wipe(a)

Next ==
    \/ \E a \in Actor : Redraw(a) \/ Write(a)
    \/ \E c \in Caller, t \in Text : Start(c, t) \/ Update(c, t)
    \/ \E c \in Caller : Stop(c)
    \/ \E c \in Caller : Spawn(c) \/ Close(c) \/ Wait(c) \/ Clear(c) \/ Wipe(c)
    \/ Tick
    \/ Exit
    \/ Finished

Spec == Init /\ [][Next]_vars

(* A goroutine that can go on does, and a select that finds the channel    *)
(* closed again and again takes it: Go chooses at random among the cases   *)
(* that are ready.                                                         *)
FairSpec ==
    /\ Spec
    /\ \A a \in Actor : WF_vars(Going(a))
    /\ SF_vars(Exit)

-----------------------------------------------------------------------------
(* Properties.                                                             *)

(* The Stop that stopped it has returned.                                  *)
Over == stopped /\ \A c \in Caller : pc[c] \notin Stopping

(* When Stop has returned the goroutine is gone or was never launched, and *)
(* neither it nor a Start or an Update that was under way draws a frame    *)
(* again: the last line is cleared and stays so (Stop, redraw).            *)
StoppedIsQuiet ==
    Over => /\ pc[Ticker] = "gone"
            /\ wg = 0
            /\ shown = 0
            /\ columns \cap 1..lastWidth = {}

(* As soon as no Start and no Update is under way, the line shows the text *)
(* of the last one: none of them, nor the ticker, writes an older one over *)
(* it (Update, redraw).                                                    *)
LastTextIsShown ==
    ~stopped /\ (\A c \in Caller : pc[c] \notin {"redraw", "write"}) => shown = text

(* Stop returns: the Start it may have overtaken gets to launch the        *)
(* goroutine, that one sees the channel closed, and nobody holds the lock  *)
(* that the last one waits for (Stop, run).                                *)
StopReturns == stopped ~> Over

=============================================================================
