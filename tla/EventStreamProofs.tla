--------------------------- MODULE EventStreamProofs ---------------------------
(***************************************************************************)
(* What any step of an event stream preserves, whoever its producer is,    *)
(* for the modules that prove something about a producer, and what the     *)
(* stream promises whatever its producer calls.                            *)
(***************************************************************************)
EXTENDS EventStream, TLAPS

USE StreamAssumption

LEMMA InitStream == StreamInit => StreamInv
<1> SUFFICES ASSUME StreamInit PROVE StreamInv
  OBVIOUS
<1>1. delivered = <<>> /\ Len(delivered) = 0 /\ 1..Len(delivered) = {} /\ delivered \in Seq(Event)
  BY DEF StreamInit
<1>2. OneStartOneEnd /\ ~Ended
  BY <1>1 DEF OneStartOneEnd, Ended
<1>3. StreamTypeOK
  BY <1>1 DEF StreamInit, StreamTypeOK
<1>4. terminal = Ended
  BY <1>1 DEF StreamInit, Ended
<1>5. started = (delivered # <<>>)
  BY <1>1 DEF StreamInit
<1> QED
  BY <1>2, <1>3, <1>4, <1>5 DEF StreamInit, StreamInv, Idle

LEMMA StutterStream == StreamInv /\ UNCHANGED stream => StreamInv'
BY DEF StreamInv, StreamTypeOK, OneStartOneEnd, Ended, Idle, stream

(* Handing over an event that is not refused keeps the order of the        *)
(* delivered events and the flags true to them.                            *)
LEMMA HandStream ==
    ASSUME StreamInv, NEW kind, NEW x \in Subject,
           [kind |-> kind, of |-> x] \in Event,
           ~Refused(kind), Hand(kind, x), result' = result,
           owed' \in {"ok", "error"}, owed' = "error" => kind \in Terminal
    PROVE  StreamInv'
<1> DEFINE e == [kind |-> kind, of |-> x]
<1>1. /\ delivered \in Seq(Event) /\ e \in Event
      /\ delivered' = Append(delivered, e) /\ delivering' = e
  BY DEF StreamInv, StreamTypeOK, Hand
<1>2. /\ delivered' \in Seq(Event) /\ Len(delivered') = Len(delivered) + 1
      /\ delivered'[Len(delivered')] = e /\ delivered' # <<>>
      /\ \A n \in 1..Len(delivered) : delivered'[n] = delivered[n]
  BY <1>1
<1>3. /\ sink /\ ~terminal /\ (started # (kind = "started"))
      /\ started' = TRUE /\ terminal' = (kind \in Terminal) /\ sink' = sink
  BY DEF Refused, Hand, StreamInv, StreamTypeOK
<1>4. e.kind = kind
  OBVIOUS
<1>5. StreamTypeOK'
  BY <1>1, <1>2, <1>3 DEF StreamInv, StreamTypeOK
<1>6. Len(delivered) \in Nat /\ (delivered = <<>> <=> Len(delivered) = 0)
  BY <1>1
<1>7. Ended' = (kind \in Terminal)
  BY <1>2, <1>4 DEF Ended
<1>8. \A n \in 1..Len(delivered) : delivered[n].kind \notin Terminal
  <2> SUFFICES ASSUME NEW n \in 1..Len(delivered), delivered[n].kind \in Terminal
               PROVE  FALSE
    OBVIOUS
  <2>1. n = Len(delivered) /\ delivered # <<>>
    BY <1>6 DEF StreamInv, OneStartOneEnd
  <2>2. ~Ended
    BY <1>3 DEF StreamInv
  <2> QED
    BY <2>1, <2>2 DEF Ended
<1>9. (kind = "started") <=> (Len(delivered) = 0)
  BY <1>3, <1>6 DEF StreamInv, StreamTypeOK
<1>10. OneStartOneEnd'
  <2> SUFFICES ASSUME NEW n \in 1..Len(delivered')
               PROVE  /\ (delivered'[n].kind = "started") <=> n = 1
                      /\ delivered'[n].kind \in Terminal => n = Len(delivered')
    BY DEF OneStartOneEnd
  <2>1. CASE n = Len(delivered')
    BY <2>1, <1>2, <1>4, <1>6, <1>9
  <2>2. CASE n # Len(delivered')
    <3>1. n \in 1..Len(delivered) /\ delivered'[n] = delivered[n]
      BY <2>2, <1>2, <1>6
    <3> QED
      BY <3>1, <1>8, <2>2 DEF StreamInv, OneStartOneEnd
  <2> QED
    BY <2>1, <2>2
<1>11. result' = "error" => terminal' \/ ~sink'
  BY <1>3 DEF StreamInv
<1> QED
  BY <1>1, <1>2, <1>3, <1>5, <1>7, <1>10, <1>11 DEF StreamInv, Idle

LEMMA CallStream ==
    ASSUME StreamInv, NEW kind, NEW x \in Subject, NEW ans,
           [kind |-> kind, of |-> x] \in Event,
           ans \in {"ok", "error"}, ans = "error" => kind \in Terminal,
           kind = "started" <=> result = "none",
           Call(kind, x, ans)
    PROVE  StreamInv'
<1>1. CASE ~Refused(kind) /\ Hand(kind, x) /\ owed' = ans /\ UNCHANGED result
  BY <1>1, HandStream
<1>2. CASE /\ Refused(kind) /\ result' = "error"
           /\ UNCHANGED <<sink, started, terminal, delivering, owed, delivered>>
  <2>1. Idle
    BY DEF Call
  <2>2. started \/ ~sink \/ result = "none"
    BY DEF StreamInv, StreamTypeOK, Ended
  <2>3. result = "none" => ~started /\ ~terminal
    BY <1>1, <2>1 DEF StreamInv, Ended
  <2>4. terminal \/ ~sink
    BY <1>2, <2>2, <2>3 DEF Refused, StreamInv, StreamTypeOK
  <2>5. started \/ ~sink
    BY <2>4 DEF StreamInv, Ended
  <2>6. OneStartOneEnd' /\ Ended' = Ended /\ Idle'
    BY <1>2, <2>1 DEF StreamInv, OneStartOneEnd, Ended, Idle
  <2> QED
    BY <1>2, <2>1, <2>4, <2>5, <2>6 DEF StreamInv, StreamTypeOK
<1> QED
  BY <1>1, <1>2 DEF Call

LEMMA AcceptStream ==
    ASSUME StreamInv, SinkAccepts
    PROVE  StreamInv'
<1>1. delivering # None /\ delivering' = None /\ result' = owed
      /\ UNCHANGED <<sink, started, terminal, owed, delivered>>
  BY DEF SinkAccepts, Idle
<1>2. OneStartOneEnd' /\ Ended' = Ended
  BY <1>1 DEF StreamInv, OneStartOneEnd, Ended
<1> QED
  BY <1>1, <1>2 DEF StreamInv, StreamTypeOK, Idle

LEMMA RejectStream ==
    ASSUME StreamInv, SinkRejects
    PROVE  StreamInv'
<1>1. delivering # None /\ delivering \in Event /\ started /\ sink
  BY DEF SinkRejects, Idle, StreamInv, StreamTypeOK
<1>2. CASE /\ terminal /\ delivering' = None /\ result' = "error"
           /\ UNCHANGED <<sink, started, terminal, owed, delivered>>
  <2>1. OneStartOneEnd' /\ Ended' = Ended
    BY <1>2 DEF StreamInv, OneStartOneEnd, Ended
  <2> QED
    BY <1>1, <1>2, <2>1 DEF StreamInv, StreamTypeOK, Idle
<1>3. CASE ~terminal /\ Hand("failed", delivering.of) /\ owed' = "error" /\ UNCHANGED result
  <2>1. delivering.of \in Subject /\ [kind |-> "failed", of |-> delivering.of] \in Event
    BY <1>1 DEF Event, Terminal
  <2>2. ~Refused("failed")
    BY <1>1, <1>3 DEF Refused
  <2> QED
    BY <1>3, <2>1, <2>2, HandStream DEF Terminal
<1> QED
  BY <1>2, <1>3 DEF SinkRejects

(* An error ends the stream, in any state a producer can meet.             *)
LEMMA ErrorsEnd == StreamInv => ErrorsEndTheStream
BY DEF StreamInv, ErrorsEndTheStream

-----------------------------------------------------------------------------
(* What the calls of a producer that may go on do to the flags and to the  *)
(* last event.                                                             *)

LastKind == delivered[Len(delivered)].kind

(* What the sink was told the progress of.                                 *)
ProgressOf == {delivered[n].of : n \in {m \in DOMAIN delivered : delivered[m].kind = "progress"}}

(* The flags of a stream that is ready for another event.                  *)
Ready == Idle /\ result = "ok" /\ ~terminal

LEMMA ReadyHasSink == StreamInv /\ Ready => sink /\ started /\ (\A kind : Refused(kind) => kind = "started")
BY DEF StreamInv, StreamTypeOK, Ready, Refused

LEMMA HandLast ==
    ASSUME StreamInv, NEW kind, NEW x, Hand(kind, x), [kind |-> kind, of |-> x] \in Event
    PROVE  LastKind' = kind /\ ~Idle'
<1>1. delivered \in Seq(Event) /\ delivered' = Append(delivered, [kind |-> kind, of |-> x])
      /\ delivering' = [kind |-> kind, of |-> x]
  BY DEF StreamInv, StreamTypeOK, Hand
<1>2. delivered'[Len(delivered')] = [kind |-> kind, of |-> x]
  BY <1>1
<1> QED
  BY <1>1, <1>2 DEF LastKind, Idle

LEMMA HandProgress ==
    ASSUME StreamInv, NEW kind, NEW x, Hand(kind, x), [kind |-> kind, of |-> x] \in Event
    PROVE  ProgressOf' = ProgressOf \cup (IF kind = "progress" THEN {x} ELSE {})
<1> DEFINE e == [kind |-> kind, of |-> x]
<1>1. /\ delivered \in Seq(Event) /\ Len(delivered) \in Nat /\ DOMAIN delivered = 1..Len(delivered)
      /\ delivered' = Append(delivered, e)
  BY DEF StreamInv, StreamTypeOK, Hand
<1>2. /\ DOMAIN delivered' = 1..(Len(delivered) + 1)
      /\ delivered'[Len(delivered) + 1] = e
      /\ \A n \in DOMAIN delivered : delivered'[n] = delivered[n]
  BY <1>1
<1>3. e.kind = kind /\ e.of = x
  OBVIOUS
<1> HIDE DEF e
<1>4. \A n \in DOMAIN delivered' :
         delivered'[n] = (IF n \in DOMAIN delivered THEN delivered[n] ELSE e)
  BY <1>1, <1>2
<1>5. ProgressOf' \subseteq ProgressOf \cup (IF kind = "progress" THEN {x} ELSE {})
  BY <1>3, <1>4 DEF ProgressOf
<1>6. DOMAIN delivered \subseteq DOMAIN delivered' /\ Len(delivered) + 1 \in DOMAIN delivered'
  BY <1>1, <1>2
<1>7. ProgressOf \subseteq ProgressOf'
  BY <1>2, <1>6 DEF ProgressOf
<1>8. kind = "progress" => x \in ProgressOf'
  BY <1>2, <1>3, <1>6 DEF ProgressOf
<1> QED
  BY <1>5, <1>7, <1>8

LEMMA SinkEffect ==
    ASSUME StreamInv, SinkAccepts \/ SinkRejects
    PROVE  /\ StreamInv' /\ ~Idle /\ sink /\ sink' = sink
           /\ \/ /\ Idle' /\ terminal' = terminal /\ LastKind' = LastKind
                 /\ result' = "error" \/ result' = owed
                 /\ ~terminal => result' = owed
              \/ /\ ~Idle' /\ ~terminal /\ terminal' /\ LastKind' = "failed"
                 /\ owed' = "error" /\ result' = result
<1>1. StreamInv' /\ ~Idle /\ sink
  BY AcceptStream, RejectStream DEF SinkAccepts, SinkRejects, StreamInv, Idle
<1>2. CASE SinkAccepts
  BY <1>1, <1>2 DEF SinkAccepts, LastKind, Idle
<1>3. CASE SinkRejects
  <2>1. CASE terminal /\ delivering' = None /\ result' = "error"
             /\ UNCHANGED <<sink, started, terminal, owed, delivered>>
    BY <1>1, <2>1 DEF LastKind, Idle
  <2>2. CASE ~terminal /\ Hand("failed", delivering.of) /\ owed' = "error" /\ UNCHANGED result
    <3>1. [kind |-> "failed", of |-> delivering.of] \in Event
      BY <1>1 DEF StreamInv, StreamTypeOK, Event, Terminal, Idle
    <3> QED
      BY <1>1, <2>2, <3>1, HandLast DEF Hand, Terminal
  <2> QED
    BY <1>3, <2>1, <2>2 DEF SinkRejects
<1> QED
  BY <1>2, <1>3

LEMMA SinkProgress ==
    ASSUME StreamInv, SinkAccepts \/ SinkRejects
    PROVE  ProgressOf' = ProgressOf
<1>1. CASE delivered' = delivered
  BY <1>1 DEF ProgressOf
<1>2. CASE Hand("failed", delivering.of)
  <2>1. [kind |-> "failed", of |-> delivering.of] \in Event
    BY DEF SinkAccepts, SinkRejects, StreamInv, StreamTypeOK, Event, Terminal, Idle
  <2> QED
    BY <1>2, <2>1, HandProgress
<1> QED
  BY <1>1, <1>2 DEF SinkAccepts, SinkRejects

(* A call of a producer that may go on.                                    *)
LEMMA CallEffect ==
    ASSUME StreamInv, Ready, NEW kind \in NonTerminal \cup Terminal, NEW x \in Subject, Call(kind, x, "ok")
    PROVE  /\ StreamInv' /\ ~Idle' /\ result' = "ok" /\ sink' = sink /\ sink
           /\ terminal' = (kind \in Terminal) /\ owed' = "ok"
           /\ LastKind' = kind
           /\ ProgressOf' = ProgressOf \cup (IF kind = "progress" THEN {x} ELSE {})
<1>1. kind # "started" /\ [kind |-> kind, of |-> x] \in Event
  BY DEF Event, NonTerminal, Terminal
<1>2. sink /\ ~Refused(kind)
  BY <1>1, ReadyHasSink
<1>3. StreamInv'
  BY <1>1, CallStream DEF Ready
<1>4. Hand(kind, x) /\ result' = result /\ owed' = "ok"
  BY <1>2 DEF Call
<1> QED
  BY <1>1, <1>2, <1>3, <1>4, HandLast, HandProgress DEF Hand, Ready

-----------------------------------------------------------------------------
(* The stream invariant: its flags always agree with what the sink got.    *)
THEOREM StreamInvCorrect == StreamSpec => []StreamInv
<1>1. StreamInit => StreamInv
  BY InitStream
<1>2. StreamInv /\ [AnyProducer]_stream => StreamInv'
  <2> SUFFICES ASSUME StreamInv, [AnyProducer]_stream PROVE StreamInv'
    OBVIOUS
  <2>1. ASSUME NEW x \in Subject, StartEventStream(x) PROVE StreamInv'
    BY <2>1, CallStream DEF StartEventStream, Event
  <2>2. ASSUME NEW x \in Subject, NEW kind \in NonTerminal, result # "none", Emit(kind, x)
        PROVE  StreamInv'
    BY <2>2, CallStream DEF Emit, Event, NonTerminal
  <2>3. ASSUME NEW x \in Subject, result # "none", Complete(x) PROVE StreamInv'
    BY <2>3, CallStream DEF Complete, Event, Terminal
  <2>4. ASSUME NEW x \in Subject, NEW kind \in {"failed", "canceled"}, result # "none", Fail(kind, x)
        PROVE  StreamInv'
    BY <2>4, CallStream DEF Fail, Event, Terminal
  <2>5. ASSUME NEW x \in Subject, result # "none", FailProducer(x) PROVE StreamInv'
    BY <2>5, CallStream DEF FailProducer, Event, Terminal
  <2>6. CASE SinkAccepts
    BY <2>6, AcceptStream
  <2>7. CASE SinkRejects
    BY <2>7, RejectStream
  <2>8. CASE UNCHANGED stream
    BY <2>8, StutterStream
  <2> QED
    BY <2>1, <2>2, <2>3, <2>4, <2>5, <2>6, <2>7, <2>8 DEF AnyProducer, Produce
<1> QED
  BY <1>1, <1>2, PTL DEF StreamSpec

(* Whatever its producer calls and its sink answers, for any number of     *)
(* events: one started event, first, nothing after a terminal one, and an  *)
(* error always ends the stream.                                           *)
THEOREM ConsumersAreTold == StreamSpec => []ConsumerIsTold
<1>1. StreamInv => ConsumerIsTold
  BY ErrorsEnd DEF StreamInv, ConsumerIsTold
<1> QED
  BY <1>1, StreamInvCorrect, PTL

=============================================================================
