------------------------------ MODULE EventStream ------------------------------
(***************************************************************************)
(* The event stream of an operation (internal/machine/events.go).          *)
(*                                                                         *)
(* A producer calls the stream, which calls the sink on the same goroutine *)
(* and returns an error if the sink fails or panics.  A call is two steps, *)
(* the sink being entered and its verdict, because the sink is arbitrary   *)
(* code: what happens elsewhere while it runs is seen when it returns.     *)
(* Modules with a producer extend this one.                                *)
(***************************************************************************)
EXTENDS Naturals, Sequences

CONSTANTS
    Subject,    \* what an event is about
    None

NonTerminal == {"progress", "record", "warning"}
Terminal == {"completed", "failed", "canceled"}
Event == [kind : {"started"} \cup NonTerminal \cup Terminal, of : Subject]

ASSUME StreamAssumption == None \notin Event

VARIABLES
    sink,           \* whether a sink is configured
    started,
    terminal,
    delivering,     \* the event the sink is working on
    owed,           \* what the call returns if the sink takes that event
    result,         \* what the last call returned to the producer
    delivered       \* the events the sink has been given

stream == <<sink, started, terminal, delivering, owed, result, delivered>>

StreamTypeOK ==
    /\ sink \in BOOLEAN
    /\ started \in BOOLEAN
    /\ terminal \in BOOLEAN
    /\ delivering \in Event \cup {None}
    /\ owed \in {"ok", "error"}
    /\ result \in {"none", "ok", "error"}
    /\ delivered \in Seq(Event)

StreamInit ==
    /\ sink \in BOOLEAN
    /\ started = FALSE
    /\ terminal = FALSE
    /\ delivering = None
    /\ owed = "ok"
    /\ result = "none"
    /\ delivered = <<>>

Idle == delivering = None

-----------------------------------------------------------------------------
(* The emitter.                                                            *)

(* Mutant of Refused: the terminal flag is not looked at.                  *)
RefusedUnlessStarted(kind) == ~sink \/ started = (kind = "started")

(* No sink, an event after the terminal one, a second started event or     *)
(* another one before it.                                                  *)
Refused(kind) == ~sink \/ terminal \/ started = (kind = "started")

(* Both flags are set before the sink is called.                           *)
Hand(kind, x) ==
    /\ started' = TRUE
    /\ terminal' = (kind \in Terminal)
    /\ delivering' = [kind |-> kind, of |-> x]
    /\ delivered' = Append(delivered, delivering')
    /\ UNCHANGED sink

(* A call that hands an event over and would return ans, or is refused: a  *)
(* stream that was never started or has ended tells no one.                *)
Call(kind, x, ans) ==
    /\ Idle
    /\ \/ ~Refused(kind) /\ Hand(kind, x) /\ owed' = ans /\ UNCHANGED result
       \/ Refused(kind) /\ result' = "error"
          /\ UNCHANGED <<sink, started, terminal, delivering, owed, delivered>>

StartEventStream(x) == result = "none" /\ Call("started", x, "ok")
Emit(kind, x) == kind \in NonTerminal /\ Call(kind, x, "ok")
Complete(x) == Call("completed", x, "ok")
Fail(kind, x) == kind \in {"failed", "canceled"} /\ Call(kind, x, "ok")

(* A malformed event or completion ends the stream with a failure.         *)
FailProducer(x) == Call("failed", x, "error")

SinkAccepts ==
    /\ ~Idle
    /\ delivering' = None
    /\ result' = owed
    /\ UNCHANGED <<sink, started, terminal, owed, delivered>>

(* Mutant of SinkRejects: the error is returned without a terminal event.  *)
SinkRejectsQuietly ==
    /\ ~Idle
    /\ delivering' = None
    /\ result' = "error"
    /\ UNCHANGED <<sink, started, terminal, owed, delivered>>

(* An error or a panic of the sink.  The consumer is told with a failed    *)
(* event, unless it was the terminal one it did not take.                  *)
SinkRejects ==
    /\ ~Idle
    /\ \/ /\ terminal
          /\ delivering' = None
          /\ result' = "error"
          /\ UNCHANGED <<sink, started, terminal, owed, delivered>>
       \/ /\ ~terminal
          /\ Hand("failed", delivering.of)
          /\ owed' = "error"
          /\ UNCHANGED result

-----------------------------------------------------------------------------
(* The most general producer: it calls in any order, with malformed events *)
(* and after the end as well.                                              *)

Produce(x) ==
    \/ StartEventStream(x)
    \/ /\ result # "none"
       /\ \/ \E kind \in NonTerminal : Emit(kind, x)
          \/ Complete(x)
          \/ \E kind \in {"failed", "canceled"} : Fail(kind, x)
          \/ FailProducer(x)

AnyProducer == (\E x \in Subject : Produce(x)) \/ SinkAccepts \/ SinkRejects

StreamSpec == StreamInit /\ [][AnyProducer]_stream

-----------------------------------------------------------------------------
(* What a consumer may rely on.                                            *)

Ended == delivered # <<>> /\ delivered[Len(delivered)].kind \in Terminal

(* A sink sees one started event, first, and nothing after a terminal one, *)
(* whatever it does itself and whatever the producer calls                 *)
(* (eventEmitter.emit).                                                    *)
OneStartOneEnd ==
    \A n \in 1..Len(delivered) :
        /\ (delivered[n].kind = "started") <=> n = 1
        /\ delivered[n].kind \in Terminal => n = Len(delivered)

(* A call that returned an error has ended the stream: the sink was told   *)
(* with a terminal event, or there is no sink (failAfterDelivery,          *)
(* failProducer).                                                          *)
ErrorsEndTheStream == Idle /\ result = "error" => Ended \/ ~sink

(* Both: what a consumer may rely on, whoever produces.                    *)
ConsumerIsTold == OneStartOneEnd /\ ErrorsEndTheStream

(* The flags agree with what the sink was given.                           *)
StreamInv ==
    /\ StreamTypeOK
    /\ started = (delivered # <<>>)
    /\ terminal = Ended
    /\ started => sink
    /\ delivering # None => started /\ delivering = delivered[Len(delivered)]
    /\ delivering # None /\ owed = "error" => terminal
    /\ result = "none" => (started <=> ~Idle)
    /\ result = "ok" => started
    /\ result = "error" => terminal \/ ~sink
    /\ OneStartOneEnd

=============================================================================
