--------------------------- MODULE DumpEngineProofs ---------------------------
(***************************************************************************)
(* Proofs about a dump: the operation (DumpEngine), for any products,      *)
(* selections, numbers of records and behaviour of the sink, and the files *)
(* it writes (ArtifactWrite), for any resources and faults and any number  *)
(* of power losses.                                                        *)
(*                                                                         *)
(* EInv is inductive: StreamInv is the stream's, PcInv says what the       *)
(* stream looks like at each step of the operation, and DataInv what has   *)
(* been collected and published by then.  SessionInv and CountInv are      *)
(* inductive given EInv.                                                   *)
(*                                                                         *)
(* WInv, of the files, is inductive: each of its parts has a lemma.        *)
(***************************************************************************)
EXTENDS DumpEngine, ArtifactWrite, EventStreamProofs, FiniteSetTheorems

USE EngineAssumption, StreamAssumption

(* Steps at which the last call is known to have gone well, and steps      *)
(* that look at what the last call returns.                                *)
Quiet == {"next", "session", "progress", "collected", "publish", "publishing"}
Waiting == {"started", "read", "warned", "record"}

PcInv ==
    /\ pc \in {"prepare", "start"} => Idle /\ result = "none"
    /\ pc \in Quiet => Idle /\ result = "ok" /\ ~terminal
    /\ pc \in Waiting =>
          /\ Idle => result # "none"
          /\ terminal => LastKind = "failed" /\ (IF Idle THEN result = "error" ELSE owed = "error")
    /\ pc = "completed" => sink /\ terminal /\ LastKind = "completed" /\ (Idle => result # "none")
    /\ pc \in {"failed", "returned"} /\ sink =>
          /\ terminal
          /\ ret = "canceled" <=> LastKind = "canceled"
          /\ ret = "ok" => LastKind = "completed"
          /\ LastKind = "completed" => pc = "returned" /\ ret \in {"ok", "sink"}
    /\ pc = "returned" => Idle

(* Before a resource is finished, it is neither collected nor failed.      *)
Past == IF pc = "warned" THEN 1..i ELSE 1..(i - 1)
Before == {"prepare", "start"} \cup Waiting \cup {"next", "session", "progress", "collected", "publish"}
After == {"collected", "publish", "publishing", "completed"}

DataInv ==
    /\ pc \in {"session", "progress", "read", "warned", "record"} => i <= Len(plan)
    /\ pc \in Before => entries \cup Failed = Past
    /\ pc \in After => entries \cup Failed = 1..Len(plan)
    /\ errors # {} => continueOnError
    /\ pc \in Before => phase[engine] = "pending"
    /\ phase[engine] \in {"pending", "failure"} => slot # "new"
    /\ phase[engine] = "installed" => slot = "new" /\ replaced[engine] # "new"
    /\ phase[engine] = "success" => slot = "new" /\ pc \notin {"failed"}
    /\ pc = "completed" => phase[engine] = "success"
    /\ pc \in {"failed", "returned"} => phase[engine] # "installed"
    /\ pc = "returned" /\ phase[engine] = "success" => sink /\ LastKind = "completed"
    /\ pc = "returned" /\ sink /\ LastKind = "completed" => phase[engine] = "success"
    /\ slot = "new" => entries \cup Failed = 1..Len(plan)

PublicationTypeOK ==
    /\ slot \in {"old", "new", "nothing"}
    /\ phase \in [{engine} -> {"pending", "installed", "success", "failure", "uncertain"}]
    /\ replaced \in [{engine} -> {"old", "new", "nothing"}]

EInv == TypeOK /\ PublicationTypeOK /\ StreamInv /\ PcInv /\ DataInv

-----------------------------------------------------------------------------
(* What the calls of the stream do, told to the flags and the last event.  *)

LEMMA SubjectsInPlan == TypeOK => Len(plan) \in Nat /\ 0..Len(plan) \subseteq Subject
BY DEF TypeOK

LEMMA FailEffect ==
    ASSUME TypeOK, StreamInv, Ready, NEW kind, FailWith(kind)
    PROVE  /\ StreamInv'
           /\ terminal' /\ ~Idle' /\ result' = "ok" /\ sink' = sink /\ sink
           /\ LastKind' = (IF kind = "canceled" THEN "canceled" ELSE "failed")
           /\ ret' = kind /\ pc' = "failed"
<1> DEFINE k == IF kind = "canceled" THEN "canceled" ELSE "failed"
<1>1. k \in {"failed", "canceled"} /\ 0 \in Subject /\ [kind |-> k, of |-> 0] \in Event
  BY SubjectsInPlan DEF Event, Terminal
<1>2. Call(k, 0, "ok") /\ ret' = kind /\ pc' = "failed"
  BY DEF FailWith, Fail
<1>3. sink /\ ~Refused(k)
  BY <1>1, ReadyHasSink
<1>4. StreamInv'
  BY <1>1, <1>2, CallStream DEF Ready
<1>5. Hand(k, 0) /\ result' = result
  BY <1>2, <1>3 DEF Call
<1> QED
  BY <1>1, <1>2, <1>3, <1>4, <1>5, HandLast DEF Hand, Ready, Terminal

LEMMA CompleteEffect ==
    ASSUME TypeOK, StreamInv, Ready, Complete(0)
    PROVE  /\ StreamInv'
           /\ terminal' /\ ~Idle' /\ sink' = sink /\ sink
           /\ LastKind' = "completed"
<1>1. 0 \in Subject /\ [kind |-> "completed", of |-> 0] \in Event
  BY SubjectsInPlan DEF Event, Terminal
<1>2. sink /\ ~Refused("completed")
  BY ReadyHasSink
<1>3. StreamInv'
  BY <1>1, CallStream DEF Ready, Complete
<1>4. Hand("completed", 0)
  BY <1>2 DEF Call, Complete
<1> QED
  BY <1>1, <1>2, <1>3, <1>4, HandLast DEF Hand, Terminal

LEMMA EmitEffect ==
    ASSUME TypeOK, StreamInv, Ready, NEW kind, NEW x \in 0..Len(plan), Emit(kind, x)
    PROVE  StreamInv' /\ ~terminal' /\ ~Idle' /\ result' = "ok" /\ sink' = sink
<1>1. kind \in NonTerminal /\ x \in Subject /\ [kind |-> kind, of |-> x] \in Event
  BY SubjectsInPlan DEF Event, Emit
<1>2. ~Refused(kind) /\ kind # "started"
  BY <1>1, ReadyHasSink DEF NonTerminal
<1>3. StreamInv'
  BY <1>1, <1>2, CallStream DEF Ready, Emit
<1>4. Hand(kind, x) /\ result' = result
  BY <1>2 DEF Call, Emit
<1> QED
  BY <1>1, <1>3, <1>4, HandLast DEF Hand, Ready, Terminal, NonTerminal

-----------------------------------------------------------------------------
(* The invariant.                                                          *)

LEMMA EInvInit == Init => EInv
<1> SUFFICES ASSUME Init PROVE EInv
  OBVIOUS
<1>1. StreamInv
  BY InitStream DEF Init
<1>2. TypeOK
  BY <1>1 DEF Init, TypeOK, StreamInv
<1>3. PublicationTypeOK
  BY DEF Init, PublicationTypeOK
<1>4. PcInv
  BY DEF Init, StreamInit, PcInv, Idle, Quiet, Waiting
<1>5. DataInv
  BY <1>2 DEF Init, TypeOK, DataInv, Before, After, Waiting, Past, Failed
<1> QED
  BY <1>1, <1>2, <1>3, <1>4, <1>5 DEF EInv

(* Steps that end the operation with a terminal event.                     *)
LEMMA FailStep ==
    ASSUME EInv, NEW kind \in Kinds, Ready, FailWith(kind),
           phase[engine] \notin {"installed", "success"},
           UNCHANGED <<request, ctx, fault, i, batch, left, collected, publication>>,
           session' \in [Product -> {"none", "open", "shared", "closed"}]
    PROVE  EInv'
<1>1. /\ StreamInv' /\ terminal' /\ ~Idle' /\ result' = "ok" /\ sink' = sink /\ sink
      /\ LastKind' = (IF kind = "canceled" THEN "canceled" ELSE "failed")
      /\ ret' = kind /\ pc' = "failed"
  BY FailEffect DEF EInv
<1>2. TypeOK'
  BY <1>1 DEF EInv, TypeOK, StreamInv, Kinds, request, collected
<1>3. PublicationTypeOK'
  BY DEF EInv, PublicationTypeOK, publication
<1>4. PcInv'
  BY <1>1 DEF PcInv, Quiet, Waiting, Kinds
<1>5. DataInv'
  BY <1>1 DEF EInv, DataInv, Before, After, Waiting, Failed, request, collected, publication
<1> QED
  BY <1>1, <1>2, <1>3, <1>4, <1>5 DEF EInv

(* Steps that go on, without the stream.                                   *)
LEMMA QuietStep ==
    ASSUME EInv, pc' \in Quiet, Ready, UNCHANGED <<stream, ret>>
    PROVE  StreamInv' /\ PcInv'
BY StutterStream DEF EInv, PcInv, Ready, Quiet, Waiting, stream, Idle

(* Steps that give up after an event could not be delivered.               *)
LEMMA AbortStep ==
    ASSUME EInv, pc \in Waiting, Idle, result = "error", Abort,
           UNCHANGED <<request, ctx, fault, i, batch, left, session, collected, publication>>
    PROVE  EInv'
<1>1. /\ StreamInv' /\ ret' = "sink" /\ pc' = "failed" /\ UNCHANGED stream
  BY StutterStream DEF EInv, Abort
<1>2. TypeOK'
  BY <1>1 DEF EInv, TypeOK, StreamInv, Kinds, request, collected
<1>3. PublicationTypeOK'
  BY DEF EInv, PublicationTypeOK, publication
<1>4. sink => terminal /\ LastKind = "failed"
  BY DEF EInv, PcInv, StreamInv, StreamTypeOK
<1>5. PcInv'
  BY <1>1, <1>4 DEF PcInv, Quiet, Waiting, LastKind, stream
<1>6. DataInv'
  BY <1>1 DEF EInv, DataInv, Before, After, Waiting, Failed, request, collected, publication
<1> QED
  BY <1>1, <1>2, <1>3, <1>5, <1>6 DEF EInv

LEMMA PrepareStep == ASSUME EInv, Prepare PROVE EInv'
<1>1. StreamInv' /\ UNCHANGED <<stream, ret>> /\ pc = "prepare" /\ pc' = "start"
  BY StutterStream DEF EInv, Prepare
<1>2. TypeOK'
  BY <1>1 DEF EInv, TypeOK, StreamInv, Prepare, Kinds, request, collected
<1>3. PublicationTypeOK'
  BY DEF EInv, PublicationTypeOK, Prepare, publication
<1>4. PcInv'
  BY <1>1 DEF EInv, PcInv, Quiet, Waiting, stream, Idle
<1>5. DataInv'
  BY <1>1 DEF EInv, DataInv, Prepare, Before, After, Waiting, Past, Failed, request, collected, publication
<1> QED
  BY <1>1, <1>2, <1>3, <1>4, <1>5 DEF EInv

LEMMA StartStep == ASSUME EInv, Start PROVE EInv'
<1>1. PICK total \in {0, Len(plan)} : StartEventStream(total)
  BY DEF Start
<1>2. total \in Subject /\ [kind |-> "started", of |-> total] \in Event /\ Len(plan) \in Nat
  BY SubjectsInPlan DEF EInv, Event
<1>3. StreamInv'
  BY <1>1, <1>2, CallStream DEF EInv, StartEventStream
<1>4. \/ ~Idle' /\ ~terminal'
      \/ Idle' /\ result' = "error" /\ UNCHANGED <<terminal, delivered>>
  <2>1. CASE Refused("started") /\ result' = "error"
             /\ UNCHANGED <<sink, started, terminal, delivering, owed, delivered>>
    BY <1>1, <2>1 DEF StartEventStream, Call, Idle
  <2>2. CASE ~Refused("started") /\ Hand("started", total) /\ owed' = "ok" /\ UNCHANGED result
    BY <1>2, <2>2, HandLast DEF EInv, Hand, Terminal
  <2> QED
    BY <1>1, <2>1, <2>2 DEF StartEventStream, Call
<1>5. pc = "start" /\ pc' = "started" /\ ~terminal
  BY DEF Start, EInv, PcInv, StreamInv, Ended
<1>6. TypeOK'
  BY <1>3 DEF EInv, TypeOK, StreamInv, Start, Kinds, request, collected
<1>7. PublicationTypeOK'
  BY DEF EInv, PublicationTypeOK, Start, publication
<1>8. PcInv'
  BY <1>4, <1>5 DEF PcInv, Quiet, Waiting
<1>9. DataInv'
  BY <1>5 DEF EInv, DataInv, Start, Before, After, Waiting, Past, Failed, request, collected, publication
<1> QED
  BY <1>3, <1>6, <1>7, <1>8, <1>9 DEF EInv

LEMMA WaitingReady == EInv /\ pc \in Waiting /\ Idle /\ result = "ok" => Ready
BY DEF EInv, PcInv, Ready

LEMMA QuietReady == EInv /\ pc \in Quiet => Ready
BY DEF EInv, PcInv, Ready

LEMMA NewCollectorStep == ASSUME EInv, NewCollector PROVE EInv'
<1>1. /\ pc = "started" /\ Idle /\ phase[engine] = "pending"
      /\ UNCHANGED <<request, ctx, fault, i, batch, left, session, collected, publication>>
      /\ session' \in [Product -> {"none", "open", "shared", "closed"}]
  BY DEF NewCollector, EInv, DataInv, Before, Waiting, TypeOK
<1>2. CASE result = "error" /\ Abort
  BY <1>1, <1>2, AbortStep DEF Waiting
<1>3. ASSUME NEW kind \in Kinds, result = "ok", FailWith(kind) PROVE EInv'
  BY <1>1, <1>3, FailStep, WaitingReady DEF Waiting
<1>4. CASE result = "ok" /\ pc' = "next" /\ UNCHANGED <<stream, ret>>
  <2>1. Ready
    BY <1>1, <1>4, WaitingReady DEF Waiting
  <2>2. StreamInv' /\ PcInv'
    BY <1>4, <2>1, QuietStep DEF Quiet
  <2>3. TypeOK'
    BY <1>1, <1>4, <2>2 DEF EInv, TypeOK, StreamInv, request, collected
  <2>4. PublicationTypeOK'
    BY <1>1 DEF EInv, PublicationTypeOK, publication
  <2>5. DataInv'
    BY <1>1, <1>4 DEF EInv, DataInv, Before, After, Waiting, Past, Failed, request, collected, publication
  <2> QED
    BY <2>2, <2>3, <2>4, <2>5 DEF EInv
<1>5. fault \in {"none"} \cup Kinds /\ (ctx # "live" => ctx \in Kinds) /\ "setup" \in Kinds
  BY DEF EInv, TypeOK, Kinds
<1> QED
  BY <1>2, <1>3, <1>4, <1>5 DEF NewCollector

LEMMA NextResourceStep == ASSUME EInv, NextResource PROVE EInv'
<1>1. /\ pc = "next" /\ Ready /\ phase[engine] = "pending"
      /\ UNCHANGED <<request, ctx, fault, i, batch, left, session, collected, publication>>
      /\ session' \in [Product -> {"none", "open", "shared", "closed"}]
  BY QuietReady DEF NextResource, EInv, DataInv, Before, Quiet, TypeOK
<1>2. CASE ctx # "live" /\ FailWith(ctx)
  BY <1>1, <1>2, FailStep DEF EInv, TypeOK, Kinds
<1>3. CASE /\ UNCHANGED <<stream, ret>>
           /\ \/ i > Len(plan) /\ pc' = "collected"
              \/ i <= Len(plan) /\ pc' = "session"
  <2>1. StreamInv' /\ PcInv'
    BY <1>1, <1>3, QuietStep DEF Quiet
  <2>2. TypeOK'
    BY <1>1, <1>3, <2>1 DEF EInv, TypeOK, StreamInv, request, collected
  <2>3. PublicationTypeOK'
    BY <1>1 DEF EInv, PublicationTypeOK, publication
  <2>4. i > Len(plan) => 1..(i - 1) = 1..Len(plan)
    BY SubjectsInPlan DEF EInv, TypeOK
  <2>5. DataInv'
    BY <1>1, <1>3, <2>4 DEF EInv, DataInv, Before, After, Waiting, Past, Failed, request, collected, publication
  <2> QED
    BY <2>1, <2>2, <2>3, <2>5 DEF EInv
<1> QED
  BY <1>2, <1>3 DEF NextResource

LEMMA OpenSessionStep == ASSUME EInv, OpenSession PROVE EInv'
<1>1. /\ pc = "session" /\ Ready /\ phase[engine] = "pending"
      /\ UNCHANGED <<request, ctx, fault, i, batch, left, collected, publication>>
      /\ session' \in [Product -> {"none", "open", "shared", "closed"}]
  BY QuietReady DEF OpenSession, EInv, DataInv, Before, Quiet, TypeOK
<1>2. ASSUME NEW cause \in Causes, Failure(cause) PROVE KindOf(cause) \in Kinds
  BY <1>2 DEF EInv, TypeOK, Causes, Failure, KindOf, Kinds
<1>3. ASSUME NEW kind \in Kinds, FailWith(kind) PROVE EInv'
  BY <1>1, <1>3, FailStep
<1>4. CASE pc' = "progress" /\ UNCHANGED <<stream, ret>>
  <2>1. StreamInv' /\ PcInv'
    BY <1>1, <1>4, QuietStep DEF Quiet
  <2>2. TypeOK'
    BY <1>1, <1>4, <2>1 DEF EInv, TypeOK, StreamInv, request, collected
  <2>3. PublicationTypeOK'
    BY <1>1 DEF EInv, PublicationTypeOK, publication
  <2>4. DataInv'
    BY <1>1, <1>4 DEF EInv, DataInv, Before, After, Waiting, Past, Failed, request, collected, publication
  <2> QED
    BY <2>1, <2>2, <2>3, <2>4 DEF EInv
<1> QED
  BY <1>2, <1>3, <1>4 DEF OpenSession, Kinds

(* Steps that hand over an event and wait for the sink.                    *)
LEMMA EmitStep ==
    ASSUME EInv, Ready, pc' \in {"read", "warned", "record"}, NEW kind, Emit(kind, i), i <= Len(plan)
    PROVE  StreamInv' /\ PcInv'
<1>1. i \in 0..Len(plan)
  BY SubjectsInPlan DEF EInv, TypeOK
<1>2. StreamInv' /\ ~terminal' /\ ~Idle' /\ result' = "ok"
  BY <1>1, EmitEffect DEF EInv
<1> QED
  BY <1>2 DEF PcInv, Quiet, Waiting

LEMMA ProgressStep == ASSUME EInv, Progress PROVE EInv'
<1>1. pc = "progress" /\ pc' = "read" /\ Ready /\ i <= Len(plan)
  BY QuietReady DEF Progress, Quiet, EInv, DataInv
<1>2. StreamInv' /\ PcInv'
  BY <1>1, EmitStep DEF Progress
<1>3. TypeOK'
  BY <1>1, <1>2 DEF EInv, TypeOK, StreamInv, Progress, request, collected
<1>4. PublicationTypeOK'
  BY DEF EInv, PublicationTypeOK, Progress, publication
<1>5. DataInv'
  BY <1>1 DEF EInv, DataInv, Progress, Before, After, Waiting, Past, Failed, request, collected, publication
<1> QED
  BY <1>2, <1>3, <1>4, <1>5 DEF EInv

(* A failure that is recorded.                                             *)
LEMMA WarnStep ==
    ASSUME EInv, Ready, pc = "read", continueOnError,
           NEW cause \in Causes \cup {"projection"}, Warn(cause),
           UNCHANGED <<request, ctx, fault, i, batch, left, session, publication>>
    PROVE  EInv'
<1>1. pc' = "warned" /\ i <= Len(plan) /\ i \in 1..Len(plan) /\ Len(plan) \in Nat
  BY SubjectsInPlan DEF Warn, EInv, DataInv, TypeOK
<1>2. StreamInv' /\ PcInv'
  BY <1>1, EmitStep DEF Warn
<1>3. TypeOK'
  BY <1>1, <1>2 DEF EInv, TypeOK, StreamInv, Warn, request
<1>4. PublicationTypeOK'
  BY DEF EInv, PublicationTypeOK, publication
<1>5. Failed' = Failed \cup {i}
  <2> DEFINE e == [resource |-> i, cause |-> cause]
  <2>1. errors' = errors \cup {e} /\ e.resource = i
    BY DEF Warn
  <2> HIDE DEF e
  <2> QED
    BY <2>1, Zenon DEF Failed
<1>6. Past' = Past \cup {i}
  BY <1>1 DEF Past, Warn
<1>7. DataInv'
  BY <1>1, <1>5, <1>6 DEF EInv, DataInv, Warn, Before, After, Waiting, request, publication
<1> QED
  BY <1>2, <1>3, <1>4, <1>7 DEF EInv

LEMMA ReadStep == ASSUME EInv, Read PROVE EInv'
<1>1. /\ pc = "read" /\ Idle /\ phase[engine] = "pending"
      /\ UNCHANGED <<request, ctx, fault, i, session, publication>>
      /\ session' \in [Product -> {"none", "open", "shared", "closed"}]
  BY DEF Read, EInv, DataInv, Before, Waiting, TypeOK
<1>2. CASE result = "error" /\ Abort /\ UNCHANGED <<batch, left, collected>>
  BY <1>1, <1>2, AbortStep DEF Waiting
<1>3. CASE result = "ok" /\ ReadFails /\ UNCHANGED <<batch, left>>
  <2>1. Ready
    BY <1>1, <1>3, WaitingReady DEF Waiting
  <2>2. PICK cause \in Causes :
          \/ ctx # "live" /\ FailWith(ctx) /\ UNCHANGED collected
          \/ ctx = "live" /\ continueOnError /\ Warn(cause)
          \/ /\ ctx = "live" /\ cause # "ended" /\ ~continueOnError
             /\ FailWith(KindOf(cause)) /\ UNCHANGED collected
    BY <1>3 DEF ReadFails
  <2>3. CASE ctx # "live" /\ FailWith(ctx) /\ UNCHANGED collected
    BY <1>1, <1>3, <2>1, <2>3, FailStep DEF EInv, TypeOK, Kinds
  <2>4. CASE ctx = "live" /\ continueOnError /\ Warn(cause)
    BY <1>1, <1>3, <2>1, <2>4, WarnStep
  <2>5. CASE cause # "ended" /\ FailWith(KindOf(cause)) /\ UNCHANGED collected
    <3>1. KindOf(cause) \in Kinds
      BY <2>5 DEF KindOf, Kinds, Causes
    <3> QED
      BY <1>1, <1>3, <2>1, <2>5, <3>1, FailStep
  <2> QED
    BY <2>2, <2>3, <2>4, <2>5
<1>4. CASE result = "ok" /\ ProjectionFails /\ UNCHANGED <<batch, left>>
  <2>1. Ready
    BY <1>1, <1>4, WaitingReady DEF Waiting
  <2>2. CASE continueOnError /\ Warn("projection")
    BY <1>1, <1>4, <2>1, <2>2, WarnStep
  <2>3. CASE FailWith("internal") /\ UNCHANGED collected
    BY <1>1, <1>4, <2>1, <2>3, FailStep DEF Kinds
  <2> QED
    BY <1>4, <2>2, <2>3 DEF ProjectionFails
<1>5. CASE /\ result = "ok" /\ batch' \in 0..MaxRecords /\ left' = batch'
           /\ pc' = "record" /\ UNCHANGED <<stream, collected, ret>>
  <2>1. Ready
    BY <1>1, <1>5, WaitingReady DEF Waiting
  <2>2. StreamInv' /\ PcInv'
    BY <1>5, <2>1, StutterStream DEF EInv, PcInv, Quiet, Waiting, Ready, stream, Idle
  <2>3. TypeOK'
    BY <1>1, <1>5, <2>2 DEF EInv, TypeOK, StreamInv, request, collected
  <2>4. PublicationTypeOK'
    BY <1>1 DEF EInv, PublicationTypeOK, publication
  <2>5. DataInv'
    BY <1>1, <1>5 DEF EInv, DataInv, Before, After, Waiting, Past, Failed, request, collected, publication
  <2> QED
    BY <2>2, <2>3, <2>4, <2>5 DEF EInv
<1> QED
  BY <1>2, <1>3, <1>4, <1>5 DEF Read

LEMMA WarnedStep == ASSUME EInv, Warned PROVE EInv'
<1>1. /\ pc = "warned" /\ Idle /\ phase[engine] = "pending" /\ i <= Len(plan)
      /\ UNCHANGED <<request, ctx, fault, batch, left, session, collected, publication>>
  BY DEF Warned, EInv, DataInv, Before, Waiting
<1>2. CASE result = "error" /\ Abort /\ UNCHANGED i
  BY <1>1, <1>2, AbortStep DEF Waiting
<1>3. CASE result = "ok" /\ i' = i + 1 /\ pc' = "next" /\ UNCHANGED <<stream, ret>>
  <2>1. Ready
    BY <1>1, <1>3, WaitingReady DEF Waiting
  <2>2. StreamInv' /\ PcInv'
    BY <1>3, <2>1, QuietStep DEF Quiet
  <2>3. TypeOK'
    BY <1>1, <1>3, <2>2, SubjectsInPlan DEF EInv, TypeOK, StreamInv, request, collected
  <2>4. PublicationTypeOK'
    BY <1>1 DEF EInv, PublicationTypeOK, publication
  <2>5. Past' = Past
    BY <1>1, <1>3, SubjectsInPlan DEF Past, EInv, TypeOK
  <2>6. DataInv'
    BY <1>1, <1>3, <2>5 DEF EInv, DataInv, Before, After, Waiting, Failed, request, collected, publication
  <2> QED
    BY <2>2, <2>3, <2>4, <2>6 DEF EInv
<1> QED
  BY <1>2, <1>3 DEF Warned

LEMMA RecordStep == ASSUME EInv, Record PROVE EInv'
<1>1. /\ pc = "record" /\ Idle /\ phase[engine] = "pending" /\ i <= Len(plan)
      /\ UNCHANGED <<request, ctx, fault, batch, session, errors, publication>>
  BY DEF Record, EInv, DataInv, Before, Waiting
<1>2. CASE result = "error" /\ Abort /\ UNCHANGED <<i, left, entries, records>>
  BY <1>1, <1>2, AbortStep DEF Waiting, collected
<1>3. CASE /\ result = "ok" /\ left > 0 /\ Emit("record", i) /\ left' = left - 1
           /\ UNCHANGED <<i, entries, records, pc, ret>>
  <2>1. Ready
    BY <1>1, <1>3, WaitingReady DEF Waiting
  <2>2. StreamInv' /\ PcInv'
    BY <1>1, <1>3, <2>1, EmitStep
  <2>3. TypeOK'
    BY <1>1, <1>3, <2>2 DEF EInv, TypeOK, StreamInv, request
  <2>4. PublicationTypeOK'
    BY <1>1 DEF EInv, PublicationTypeOK, publication
  <2>5. DataInv'
    BY <1>1, <1>3 DEF EInv, DataInv, Before, After, Waiting, Past, Failed, request, publication
  <2> QED
    BY <2>2, <2>3, <2>4, <2>5 DEF EInv
<1>4. CASE /\ result = "ok" /\ left = 0 /\ entries' = entries \cup {i} /\ records' = records + batch
           /\ i' = i + 1 /\ pc' = "next" /\ UNCHANGED <<stream, left, ret>>
  <2>1. Ready
    BY <1>1, <1>4, WaitingReady DEF Waiting
  <2>2. StreamInv' /\ PcInv'
    BY <1>4, <2>1, QuietStep DEF Quiet
  <2>3. TypeOK'
    BY <1>1, <1>4, <2>2, SubjectsInPlan DEF EInv, TypeOK, StreamInv, request
  <2>4. PublicationTypeOK'
    BY <1>1 DEF EInv, PublicationTypeOK, publication
  <2>5. Past' = Past \cup {i}
    BY <1>1, <1>4, SubjectsInPlan DEF Past, EInv, TypeOK
  <2>6. DataInv'
    BY <1>1, <1>4, <2>5 DEF EInv, DataInv, Before, After, Waiting, Failed, request, publication
  <2> QED
    BY <2>2, <2>3, <2>4, <2>6 DEF EInv
<1> QED
  BY <1>2, <1>3, <1>4 DEF Record

LEMMA UnwindStep == ASSUME EInv, Unwind PROVE EInv'
<1>1. /\ UNCHANGED <<stream, request, ctx, fault, i, batch, left, collected, ret, publication>>
      /\ Idle
      /\ \/ pc = "collected" /\ pc' = "publish"
         \/ pc = "failed" /\ pc' = "returned"
  BY DEF Unwind
<1>2. StreamInv' /\ Idle' /\ LastKind' = LastKind /\ UNCHANGED <<sink, terminal, result>>
  BY <1>1, StutterStream DEF EInv, stream, Idle, LastKind
<1> session' \in [Product -> {"none", "open", "shared", "closed"}]
  <2>1. session \in [Product -> {"none", "open", "shared", "closed"}]
    BY DEF EInv, TypeOK
  <2> QED
    BY <2>1 DEF Unwind
<1>3. TypeOK'
  BY <1>1, <1>2 DEF EInv, TypeOK, StreamInv, request, collected
<1>4. PublicationTypeOK'
  BY <1>1 DEF EInv, PublicationTypeOK, publication
<1>5. PcInv'
  BY <1>1, <1>2 DEF EInv, PcInv, Quiet, Waiting
<1>6. DataInv'
  BY <1>1, <1>2 DEF EInv, PcInv, DataInv, Before, After, Waiting, Past, Failed, request, collected, publication
<1> QED
  BY <1>2, <1>3, <1>4, <1>5, <1>6 DEF EInv

LEMMA PublishStep == ASSUME EInv, Publish PROVE EInv'
<1>1. /\ pc = "publish" /\ Ready /\ phase[engine] = "pending"
      /\ UNCHANGED <<request, ctx, fault, i, batch, left, session, collected>>
      /\ session' \in [Product -> {"none", "open", "shared", "closed"}]
  BY QuietReady DEF Publish, EInv, DataInv, Before, Quiet, TypeOK
<1>2. CASE ctx # "live" /\ FailWith(ctx) /\ Pub!GiveUp(engine)
  <2>1. ctx \in Kinds /\ (ctx = "canceled" \/ ctx = "deadline")
    BY <1>2 DEF EInv, TypeOK, Kinds
  <2>2. /\ StreamInv' /\ terminal' /\ ~Idle' /\ sink' = sink /\ sink
        /\ LastKind' = (IF ctx = "canceled" THEN "canceled" ELSE "failed")
        /\ ret' = ctx /\ pc' = "failed"
    BY <1>1, <1>2, FailEffect DEF EInv
  <2>3. slot' = slot /\ replaced' = replaced /\ phase' = [phase EXCEPT ![engine] = "failure"]
    BY <1>2 DEF Pub!GiveUp, Pub!Become
  <2>4. TypeOK'
    BY <1>1, <2>1, <2>2 DEF EInv, TypeOK, StreamInv, request, collected
  <2>5. PublicationTypeOK'
    BY <2>3 DEF EInv, PublicationTypeOK
  <2>6. PcInv'
    BY <2>1, <2>2 DEF PcInv, Quiet, Waiting
  <2>7. phase'[engine] = "failure"
    BY <2>3 DEF EInv, PublicationTypeOK
  <2>8. DataInv'
    BY <1>1, <2>2, <2>3, <2>7 DEF EInv, DataInv, Before, After, Waiting, Failed, request, collected
  <2> QED
    BY <2>2, <2>4, <2>5, <2>6, <2>8 DEF EInv
<1>3. CASE pc' = "publishing" /\ UNCHANGED <<stream, ret, publication>>
  <2>1. StreamInv' /\ PcInv'
    BY <1>1, <1>3, QuietStep DEF Quiet
  <2>2. TypeOK'
    BY <1>1, <1>3, <2>1 DEF EInv, TypeOK, StreamInv, request, collected
  <2>3. PublicationTypeOK'
    BY <1>3 DEF EInv, PublicationTypeOK, publication
  <2>4. DataInv'
    BY <1>1, <1>3 DEF EInv, DataInv, Before, After, Waiting, Past, Failed, request, collected, publication
  <2> QED
    BY <2>1, <2>2, <2>3, <2>4 DEF EInv
<1> QED
  BY <1>2, <1>3 DEF Publish

LEMMA PublishingStep == ASSUME EInv, Publishing PROVE EInv'
<1>1. /\ pc = "publishing" /\ pc' = "publishing" /\ Ready
      /\ UNCHANGED <<stream, request, ctx, fault, i, batch, left, session, collected, ret>>
  BY QuietReady DEF Publishing, Quiet
<1>2. StreamInv' /\ PcInv'
  BY <1>1, QuietStep DEF Quiet
<1>3. TypeOK'
  BY <1>1, <1>2 DEF EInv, TypeOK, StreamInv, request, collected
<1>4. /\ PublicationTypeOK'
      /\ phase'[engine] = "failure" => slot' # "new"
      /\ phase'[engine] = "installed" => slot' = "new" /\ replaced'[engine] # "new"
      /\ phase'[engine] = "success" => slot' = "new"
      /\ phase'[engine] # "pending"
  <2>1. CASE Pub!Install(engine) /\ slot' = "new"
    BY <2>1 DEF EInv, PublicationTypeOK, Pub!Install, Pub!Become
  <2>2. CASE Pub!GiveUp(engine)
    BY <2>2 DEF EInv, DataInv, PublicationTypeOK, Pub!GiveUp, Pub!Become
  <2>3. CASE Pub!Undo(engine)
    BY <2>3 DEF EInv, DataInv, PublicationTypeOK, Pub!Undo, Pub!Become
  <2>4. CASE Pub!Report(engine)
    BY <2>4 DEF EInv, DataInv, PublicationTypeOK, Pub!Report, Pub!Become
  <2> QED
    BY <2>1, <2>2, <2>3, <2>4 DEF Publishing
<1>5. DataInv'
  BY <1>1, <1>4 DEF EInv, DataInv, Before, After, Waiting, Failed, request, collected
<1> QED
  BY <1>2, <1>3, <1>4, <1>5 DEF EInv

LEMMA PublishedStep == ASSUME EInv, Published PROVE EInv'
<1>1. /\ pc = "publishing" /\ Ready
      /\ UNCHANGED <<request, ctx, fault, i, batch, left, session, collected, publication>>
      /\ session' \in [Product -> {"none", "open", "shared", "closed"}]
  BY QuietReady DEF Published, EInv, Quiet, TypeOK
<1>2. CASE phase[engine] = "success" /\ Complete(0) /\ pc' = "completed" /\ UNCHANGED ret
  <2>1. StreamInv' /\ terminal' /\ ~Idle' /\ sink' = sink /\ sink /\ LastKind' = "completed"
    BY <1>1, <1>2, CompleteEffect DEF EInv
  <2>2. TypeOK'
    BY <1>1, <1>2, <2>1 DEF EInv, TypeOK, StreamInv, request, collected
  <2>3. PublicationTypeOK'
    BY <1>1 DEF EInv, PublicationTypeOK, publication
  <2>4. PcInv'
    BY <1>2, <2>1 DEF PcInv, Quiet, Waiting
  <2>5. DataInv'
    BY <1>1, <1>2 DEF EInv, DataInv, Before, After, Waiting, Failed, request, collected, publication
  <2> QED
    BY <2>1, <2>2, <2>3, <2>4, <2>5 DEF EInv
<1>3. CASE /\ phase[engine] \in {"failure", "uncertain"}
           /\ \E kind \in {"internal"} \cup ({ctx} \ {"live"}) : FailWith(kind)
  <2>1. PICK kind \in {"internal"} \cup ({ctx} \ {"live"}) : FailWith(kind)
    BY <1>3
  <2>2. kind \in Kinds
    BY <2>1 DEF EInv, TypeOK, Kinds
  <2> QED
    BY <1>1, <1>3, <2>1, <2>2, FailStep
<1> QED
  BY <1>2, <1>3 DEF Published

LEMMA CompletedStep == ASSUME EInv, Completed PROVE EInv'
<1>1. /\ pc = "completed" /\ pc' = "returned" /\ Idle
      /\ ret' = (IF result = "ok" THEN "ok" ELSE "sink")
      /\ UNCHANGED <<stream, request, ctx, fault, i, batch, left, session, collected, publication>>
  BY DEF Completed
<1>2. StreamInv' /\ Idle' /\ LastKind' = LastKind /\ UNCHANGED <<sink, terminal, result>>
  BY <1>1, StutterStream DEF EInv, stream, Idle, LastKind
<1>3. TypeOK'
  BY <1>1, <1>2 DEF EInv, TypeOK, StreamInv, request, collected, Kinds
<1>4. PublicationTypeOK'
  BY <1>1 DEF EInv, PublicationTypeOK, publication
<1>5. PcInv'
  BY <1>1, <1>2 DEF EInv, PcInv, Quiet, Waiting
<1>6. DataInv'
  BY <1>1, <1>2 DEF EInv, PcInv, DataInv, Before, After, Waiting, Past, Failed, request, collected, publication
<1> QED
  BY <1>2, <1>3, <1>4, <1>5, <1>6 DEF EInv

LEMMA SinkStep == ASSUME EInv, Sink PROVE EInv'
<1>1. /\ UNCHANGED <<request, ctx, pc, fault, i, batch, left, session, collected, ret, publication>>
      /\ SinkAccepts \/ SinkRejects
  BY DEF Sink
<1>2. /\ StreamInv' /\ ~Idle /\ sink /\ sink' = sink
      /\ \/ /\ Idle' /\ terminal' = terminal /\ LastKind' = LastKind
            /\ result' = "error" \/ result' = owed
            /\ ~terminal => result' = owed
         \/ /\ ~Idle' /\ ~terminal /\ terminal' /\ LastKind' = "failed"
            /\ owed' = "error" /\ result' = result
  BY <1>1, SinkEffect DEF EInv
<1>3. TypeOK'
  BY <1>1, <1>2 DEF EInv, TypeOK, StreamInv, request, collected
<1>4. PublicationTypeOK'
  BY <1>1 DEF EInv, PublicationTypeOK, publication
<1>5. owed \in {"ok", "error"}
  BY DEF EInv, StreamInv, StreamTypeOK
<1>6. PcInv'
  BY <1>1, <1>2, <1>5 DEF EInv, PcInv, Quiet, Waiting
<1>7. pc # "returned"
  BY <1>2 DEF EInv, PcInv
<1>8. DataInv'
  BY <1>1, <1>7 DEF EInv, DataInv, Before, After, Waiting, Past, Failed, request, collected, publication
<1> QED
  BY <1>2, <1>3, <1>4, <1>6, <1>8 DEF EInv

LEMMA OtherStep ==
    ASSUME EInv, ctx' \in {"live", "canceled", "deadline"},
           UNCHANGED <<stream, request, pc, fault, i, batch, left, session, collected, ret, publication>>
    PROVE  EInv'
<1>1. StreamInv' /\ Idle' = Idle /\ LastKind' = LastKind /\ UNCHANGED <<sink, terminal, result, owed>>
  BY StutterStream DEF EInv, stream, Idle, LastKind
<1>2. TypeOK'
  BY <1>1 DEF EInv, TypeOK, StreamInv, request, collected
<1>3. PublicationTypeOK'
  BY DEF EInv, PublicationTypeOK, publication
<1>4. PcInv'
  BY <1>1 DEF EInv, PcInv, Quiet, Waiting
<1>5. DataInv'
  BY <1>1 DEF EInv, DataInv, Before, After, Waiting, Past, Failed, request, collected, publication
<1> QED
  BY <1>1, <1>2, <1>3, <1>4, <1>5 DEF EInv

(* EInv holds in every reachable state.                                    *)
THEOREM EInvCorrect == Spec => []EInv
<1>1. EInv /\ [Next]_vars => EInv'
  <2> SUFFICES ASSUME EInv, [Next]_vars PROVE EInv'
    OBVIOUS
  <2>1. CASE EndContext
    BY <2>1, OtherStep DEF EndContext
  <2>2. CASE UNCHANGED vars
    BY <2>2, OtherStep DEF vars, EInv, TypeOK
  <2> QED
    BY <2>1, <2>2, PrepareStep, StartStep, NewCollectorStep, NextResourceStep, OpenSessionStep,
       ProgressStep, ReadStep, WarnedStep, RecordStep, UnwindStep, PublishStep, PublishingStep,
       PublishedStep, CompletedStep, SinkStep
    DEF Next, Returned
<1> QED
  BY <1>1, EInvInit, PTL DEF Spec

-----------------------------------------------------------------------------
(* What it means.                                                          *)

(* A terminal event is the last one.                                       *)
LEMMA TerminalIsLast ==
    ASSUME EInv, NEW kind \in Terminal, Events(kind) # {}
    PROVE  terminal /\ LastKind = kind
<1>1. PICK n \in 1..Len(delivered) : delivered[n].kind = kind
  BY DEF Events
<1>2. n = Len(delivered) /\ delivered # <<>>
  BY <1>1 DEF EInv, StreamInv, StreamTypeOK, OneStartOneEnd
<1>3. Ended
  BY <1>1, <1>2 DEF Ended
<1> QED
  BY <1>1, <1>2, <1>3 DEF EInv, StreamInv, LastKind

(* Completed means published, every selected resource accounted for.       *)
THEOREM CompletedIsPublished == Spec => []CompletedMeansPublished
<1>1. EInv => CompletedMeansPublished
  <2> SUFFICES ASSUME EInv, Events("completed") # {}
               PROVE  slot = "new" /\ phase[engine] = "success" /\ entries \cup Failed = 1..Len(plan)
    BY DEF CompletedMeansPublished
  <2>1. terminal /\ LastKind = "completed" /\ sink
    BY TerminalIsLast DEF Terminal, EInv, StreamInv, Ended
  <2>2. pc \in {"completed", "returned"}
    BY <2>1 DEF EInv, TypeOK, PcInv, Quiet, Waiting, StreamInv, Ended
  <2> QED
    BY <2>1, <2>2 DEF EInv, DataInv
<1> QED
  BY <1>1, EInvCorrect, PTL

(* The end of the context is never recorded as a resource's failure.       *)
THEOREM EndsAreNotFailures == Spec => []EndIsNotAFailure
<1>1. Init => EndIsNotAFailure
  BY DEF Init, EndIsNotAFailure
<1>2. EndIsNotAFailure /\ [Next]_vars => EndIsNotAFailure'
  <2> SUFFICES ASSUME EndIsNotAFailure, [Next]_vars PROVE EndIsNotAFailure'
    OBVIOUS
  <2>1. ASSUME errors' = errors PROVE EndIsNotAFailure'
    BY <2>1 DEF EndIsNotAFailure
  <2>2. ASSUME NEW cause, cause # "ended", Warn(cause) PROVE EndIsNotAFailure'
    BY <2>2 DEF Warn, EndIsNotAFailure
  <2>3. CASE Read
    <3>1. CASE ReadFails
      <4>1. PICK cause \in Causes :
              (cause = "ended" => ctx # "live") /\ (UNCHANGED collected \/ (ctx = "live" /\ Warn(cause)))
        BY <3>1 DEF ReadFails
      <4> QED
        BY <4>1, <2>1, <2>2 DEF collected
    <3>2. CASE ProjectionFails
      BY <3>2, <2>1, <2>2 DEF ProjectionFails, collected
    <3> QED
      BY <2>3, <3>1, <3>2, <2>1 DEF Read, collected
  <2>4. CASE Next /\ ~Read
    <3>1. errors' = errors
      BY <2>4 DEF Next, Prepare, Start, NewCollector, NextResource, OpenSession, Progress, Warned,
         Record, Unwind, Publish, Publishing, Published, Completed, Sink, EndContext, Returned,
         vars, collected
    <3> QED
      BY <3>1, <2>1
  <2> QED
    BY <2>1, <2>3, <2>4 DEF vars, collected
<1> QED
  BY <1>1, <1>2, PTL DEF Spec

(* The consumer is told before the operation returns, and of what the      *)
(* caller is told.                                                         *)
THEOREM ReportsAgree == Spec => []ReportAgrees
<1>1. EInv /\ CompletedMeansPublished => ReportAgrees
  <2> SUFFICES ASSUME EInv, pc = "returned", sink
               PROVE  /\ Ended
                      /\ ret = "canceled" <=> LastKind = "canceled"
                      /\ ret = "ok" => LastKind = "completed"
                      /\ LastKind = "completed" => ret \in {"ok", "sink"}
    BY DEF ReportAgrees, LastKind
  <2> QED
    BY DEF EInv, PcInv, StreamInv
<1> QED
  BY <1>1, EInvCorrect, CompletedIsPublished, PTL

(* Nothing is published unless everything was read or may be missing, and  *)
(* a failed operation has published only what publication was not sure of. *)
THEOREM DumpsFailClosed == Spec => []FailsClosed
<1>1. EInv /\ EndIsNotAFailure => FailsClosed
  <2> SUFFICES ASSUME EInv, EndIsNotAFailure, slot = "new", Events("failed") \cup Events("canceled") # {}
               PROVE  phase[engine] = "uncertain" \/ Events("completed") # {}
    BY DEF FailsClosed, EInv, DataInv
  <2>1. terminal /\ LastKind \in {"failed", "canceled"}
    BY TerminalIsLast DEF Terminal
  <2>2. pc \notin Quiet \cup {"prepare", "start", "completed"}
    BY <2>1 DEF EInv, PcInv, StreamInv, Ended
  <2>3. pc \notin Before
    BY DEF EInv, DataInv
  <2>4. pc \in {"failed", "returned"}
    BY <2>2, <2>3 DEF EInv, TypeOK, Before, Waiting, Quiet
  <2>5. phase[engine] \notin {"pending", "installed", "failure", "success"}
    BY <2>1, <2>4 DEF EInv, DataInv
  <2> QED
    BY <2>5 DEF EInv, PublicationTypeOK
<1> QED
  BY <1>1, EInvCorrect, EndsAreNotFailures, PTL

-----------------------------------------------------------------------------
(* Sessions.                                                               *)

Reading == {"progress", "read", "warned", "record"}

(* No session is closed before the resources are collected, so the product *)
(* of the one being read has a session that was not closed under it.       *)
SessionInv ==
    /\ SessionsAreScoped
    /\ pc \in {"prepare", "start", "started", "next", "session"} \cup Reading =>
          \A p \in Product : session[p] # "closed"

LEMMA SessionStep ==
    ASSUME EInv, SessionInv, [Next]_vars
    PROVE  SessionInv'
<1> USE DEF SessionInv, SessionsAreScoped, Reading, FailWith, Abort, request, collected, publication
<1>0. /\ plan \in Seq(Product) /\ i \in 1..Len(plan) + 1 /\ Len(plan) \in Nat
      /\ session \in [Product -> {"none", "open", "shared", "closed"}]
      /\ pc \in {"session"} \cup Reading => plan[i] \in Product
  <2>1. plan \in Seq(Product) /\ i \in 1..Len(plan) + 1 /\ Len(plan) \in Nat
    BY EngineAssumption DEF EInv, TypeOK
  <2> QED
    BY <2>1 DEF EInv, TypeOK, DataInv
<1>1. CASE Prepare \/ Start \/ NewCollector \/ NextResource \/ Progress
  BY <1>0, <1>1 DEF Prepare, Start, NewCollector, NextResource, Progress
<1>2. CASE OpenSession
  BY <1>0, <1>2 DEF OpenSession
<1>3. CASE Read
  BY <1>0, <1>3 DEF Read, ReadFails, ProjectionFails, Warn
<1>4. CASE Warned \/ Record
  BY <1>0, <1>4 DEF Warned, Record
<1>5. CASE Unwind
  BY <1>0, <1>5 DEF Unwind
<1>6. CASE Publish \/ Publishing \/ Published \/ Completed
  BY <1>0, <1>6 DEF Publish, Publishing, Published, Completed
<1>7. CASE Sink \/ EndContext \/ UNCHANGED vars
  BY <1>0, <1>7 DEF Sink, EndContext, vars
<1> QED
  BY <1>1, <1>2, <1>3, <1>4, <1>5, <1>6, <1>7 DEF Next, Returned

(* A resource is read within a session of its product, and none is open    *)
(* while the artifact is published or after the operation has returned.    *)
THEOREM SessionsEndWithReading == Spec => []SessionsAreScoped
<1>1. Init => SessionInv
  BY DEF Init, SessionInv, SessionsAreScoped, Reading
<1>2. EInv /\ SessionInv /\ [Next]_vars => SessionInv'
  BY SessionStep
<1>3. SessionInv => SessionsAreScoped
  BY DEF SessionInv
<1> QED
  BY <1>1, <1>2, <1>3, EInvCorrect, PTL DEF Spec

-----------------------------------------------------------------------------
(* Counters.                                                               *)

(* What one more event does to the counts.                                 *)
LEMMA EventAdded ==
    ASSUME delivered \in Seq(Event), NEW e \in Event,
           delivered' = Append(delivered, e), NEW kind
    PROVE  /\ Events(kind)' = Events(kind) \cup (IF e.kind = kind THEN {Len(delivered) + 1} ELSE {})
           /\ Subjects(kind)' = Subjects(kind) \cup (IF e.kind = kind THEN {e.of} ELSE {})
           /\ Cardinality(Events(kind))' = Cardinality(Events(kind)) + (IF e.kind = kind THEN 1 ELSE 0)
           /\ e.kind # kind => UNCHANGED <<Events(kind), Subjects(kind), Cardinality(Events(kind))>>
           /\ delivered # <<>> => delivered'[1] = delivered[1]
<1>1. /\ Len(delivered) \in Nat /\ Len(delivered') = Len(delivered) + 1
      /\ delivered'[Len(delivered) + 1] = e
      /\ \A n \in 1..Len(delivered) : delivered'[n] = delivered[n]
      /\ delivered # <<>> => 1 \in 1..Len(delivered)
  OBVIOUS
<1>2. Events(kind)' = Events(kind) \cup (IF e.kind = kind THEN {Len(delivered) + 1} ELSE {})
  BY <1>1 DEF Events
<1>3. Subjects(kind)' = Subjects(kind) \cup (IF e.kind = kind THEN {e.of} ELSE {})
  <2>1. \A n \in Events(kind) : n \in 1..Len(delivered) /\ delivered'[n] = delivered[n]
    BY <1>1 DEF Events
  <2>2. Subjects(kind)' = {delivered'[n].of : n \in Events(kind)'}
    BY DEF Subjects
  <2>3. CASE e.kind = kind
    BY <1>1, <1>2, <2>1, <2>2, <2>3 DEF Subjects
  <2>4. CASE e.kind # kind
    BY <1>1, <1>2, <2>1, <2>2, <2>4 DEF Subjects
  <2> QED
    BY <2>3, <2>4
<1>4. IsFiniteSet(Events(kind)) /\ Len(delivered) + 1 \notin Events(kind)
  <2>1. Events(kind) \in SUBSET (1..Len(delivered))
    BY DEF Events
  <2>2. IsFiniteSet(1..Len(delivered))
    BY <1>1, FS_Interval
  <2> QED
    BY <1>1, <2>1, <2>2, FS_Subset
<1>5. Cardinality(Events(kind))' = Cardinality(Events(kind)) + (IF e.kind = kind THEN 1 ELSE 0)
  <2>1. Cardinality(Events(kind)) \in Nat
    BY <1>4, FS_CardinalityType
  <2>2. CASE e.kind = kind
    BY <1>2, <1>4, <2>2, FS_AddElement
  <2>3. CASE e.kind # kind
    BY <1>2, <2>1, <2>3
  <2> QED
    BY <2>2, <2>3
<1>6. e.kind # kind => UNCHANGED <<Events(kind), Subjects(kind), Cardinality(Events(kind))>>
  BY <1>2, <1>3
<1> QED
  BY <1>1, <1>2, <1>3, <1>5, <1>6

LEMMA EntriesAreFinite == ASSUME EInv PROVE IsFiniteSet(entries)
<1>1. Len(plan) \in Nat /\ entries \in SUBSET (1..Len(plan))
  BY SubjectsInPlan DEF EInv, TypeOK
<1>2. IsFiniteSet(1..Len(plan))
  BY <1>1, FS_Interval
<1> QED
  BY <1>1, <1>2, FS_Subset

LEMMA EventsKept ==
    ASSUME delivered' = delivered, NEW kind
    PROVE  Events(kind)' = Events(kind) /\ Subjects(kind)' = Subjects(kind)
  BY DEF Events, Subjects

(* The records of the resource at hand that were emitted, and the          *)
(* resources that are settled.                                             *)
Pending == IF pc = "record" THEN batch - left ELSE 0
Taken == IF pc = "warned" THEN i ELSE i - 1

(* While the operation goes on, and once it is completed, the counts agree *)
(* with the events.                                                        *)
Accounted == pc \notin {"failed", "returned"} \/ (terminal /\ LastKind = "completed")

Counted ==
    /\ Cardinality(Events("record")) = records + Pending
    /\ Cardinality(Events("warning")) = Cardinality(errors)
    /\ Cardinality(entries) + Cardinality(errors) = Taken
    /\ Subjects("record") \subseteq entries \cup (IF pc = "record" THEN {i} ELSE {})
    /\ Subjects("warning") = Failed

Announced ==
    /\ pc \notin {"prepare", "start"} /\ fault = "none" /\ delivered # <<>> =>
          delivered[1].of = Len(plan)
    /\ pc \notin {"prepare", "start", "started"} => fault = "none" /\ delivered # <<>>
    /\ pc \in After \cup {"returned"} => i = Len(plan) + 1

CountInv ==
    /\ IsFiniteSet(errors)
    /\ Accounted => Counted /\ Announced

(* An operation that failed accounts for nothing.                          *)
LEMMA FailedIsUnaccounted ==
    ASSUME CountInv, EInv', pc' = "failed", errors' = errors
    PROVE  CountInv'
<1>1. terminal' => delivered' # <<>> /\ sink'
  BY DEF EInv, StreamInv, Ended
<1>2. ~Accounted'
  BY <1>1 DEF EInv, PcInv, Accounted
<1> QED
  BY <1>2 DEF CountInv

(* Steps that say nothing of a resource.                                   *)
LEMMA CountKept ==
    ASSUME EInv, Counted, UNCHANGED <<plan, i, entries, errors, records>>,
           Pending' = Pending, Taken' = Taken, pc = "record" => pc' = "record",
           \/ delivered' = delivered
           \/ \E e \in Event : delivered' = Append(delivered, e) /\ e.kind \notin {"record", "warning"}
    PROVE  /\ Counted'
           /\ delivered # <<>> => delivered' # <<>> /\ delivered'[1] = delivered[1]
<1>1. delivered \in Seq(Event)
  BY DEF EInv, StreamInv, StreamTypeOK
<1>2. /\ \A kind \in {"record", "warning"} :
            /\ Cardinality(Events(kind))' = Cardinality(Events(kind))
            /\ Subjects(kind)' = Subjects(kind)
      /\ delivered # <<>> => delivered' # <<>> /\ delivered'[1] = delivered[1]
  <2>1. CASE delivered' = delivered
    BY <2>1, EventsKept
  <2>2. CASE delivered' # delivered
    <3>1. PICK e \in Event : delivered' = Append(delivered, e) /\ e.kind \notin {"record", "warning"}
      BY <2>2
    <3>2. \A kind \in {"record", "warning"} :
             /\ Events(kind)' = Events(kind)
             /\ Subjects(kind)' = Subjects(kind)
      <4> TAKE kind \in {"record", "warning"}
      <4>1. e.kind # kind
        BY <3>1
      <4>2. /\ Events(kind)' = Events(kind) \cup (IF e.kind = kind THEN {Len(delivered) + 1} ELSE {})
            /\ Subjects(kind)' = Subjects(kind) \cup (IF e.kind = kind THEN {e.of} ELSE {})
        BY <1>1, <3>1, EventAdded
      <4> QED
        BY <4>1, <4>2
    <3>3. delivered # <<>> => delivered' # <<>> /\ delivered'[1] = delivered[1]
      BY <1>1, <3>1
    <3> QED
      BY <3>2, <3>3
  <2> QED
    BY <2>1, <2>2
<1> QED
  BY <1>2 DEF Counted, Failed

(* A resource that failed is new, and so is its warning.                   *)
LEMMA WarnCounts ==
    ASSUME EInv, CountInv, EInv', NEW cause, Warn(cause), pc = "read",
           result = "ok", UNCHANGED <<plan, i, fault>>
    PROVE  CountInv'
<1>1. Counted /\ Announced /\ IsFiniteSet(errors)
  BY DEF CountInv, Accounted
<1>2. PICK e \in Event : e = [kind |-> "warning", of |-> i] /\ delivered' = Append(delivered, e)
  <2>1. Ready
    BY WaitingReady DEF Warn, Emit, Call, Waiting
  <2>2. i \in Subject
    BY SubjectsInPlan DEF EInv, TypeOK, DataInv
  <2> QED
    BY <2>1, <2>2, ReadyHasSink DEF EInv, Warn, Emit, Call, Hand, Event, NonTerminal
<1>3. i \notin Failed /\ i \in Nat
  BY EngineAssumption DEF EInv, TypeOK, DataInv, Before, Waiting, Past
<1>4. [resource |-> i, cause |-> cause] \notin errors
  BY <1>3 DEF Failed
<1>5. IsFiniteSet(errors') /\ Cardinality(errors') = Cardinality(errors) + 1
  BY <1>1, <1>4, FS_AddElement DEF Warn
<1>6. Failed' = Failed \cup {i}
  <2> DEFINE r == [resource |-> i, cause |-> cause]
  <2>1. errors' = errors \cup {r} /\ r.resource = i
    BY DEF Warn
  <2>2. Failed' = {x.resource : x \in errors'}
    BY DEF Failed
  <2> HIDE DEF r
  <2> QED
    BY <2>1, <2>2 DEF Failed
<1>7. delivered \in Seq(Event) /\ delivered # <<>>
  BY <1>1 DEF Announced, EInv, StreamInv, StreamTypeOK
<1>8. /\ Cardinality(Events("record"))' = Cardinality(Events("record"))
      /\ Subjects("record")' = Subjects("record")
  BY <1>2, <1>7, EventAdded
<1>9. /\ Cardinality(Events("warning"))' = Cardinality(Events("warning")) + 1
      /\ Subjects("warning")' = Subjects("warning") \cup {i}
  BY <1>2, <1>7, EventAdded
<1>10. delivered' # <<>> /\ delivered'[1] = delivered[1]
  BY <1>2, <1>7
<1>11. Counted'
  <2>1. IsFiniteSet(entries)
    BY EntriesAreFinite
  <2>2. Cardinality(errors) \in Nat /\ Cardinality(entries) \in Nat
    BY <1>1, <2>1, FS_CardinalityType
  <2> QED
    BY <1>1, <1>3, <1>5, <1>6, <1>8, <1>9, <2>2 DEF Counted, Warn, Pending, Taken
<1>12. Announced'
  BY <1>1, <1>10 DEF Announced, Warn, After
<1> QED
  BY <1>5, <1>11, <1>12 DEF CountInv

LEMMA RecordCounts ==
    ASSUME EInv, CountInv, EInv', Record
    PROVE  CountInv'
<1>1. /\ Counted /\ Announced /\ IsFiniteSet(errors) /\ errors' = errors
      /\ pc = "record" /\ UNCHANGED <<plan, fault, batch>> /\ Failed' = Failed
  BY DEF CountInv, Accounted, Record, request, Failed
<1>2. /\ batch \in Nat /\ left \in 0..batch /\ i \in Nat /\ records \in Nat
      /\ i \notin entries /\ IsFiniteSet(entries) /\ delivered \in Seq(Event) /\ delivered # <<>>
  <2>1. IsFiniteSet(entries)
    BY EntriesAreFinite
  <2>2. i \notin entries
    BY <1>1 DEF EInv, TypeOK, DataInv, Before, Waiting, Past
  <2>3. batch \in Nat /\ left \in 0..batch /\ records \in Nat
    BY DEF EInv, TypeOK
  <2>4. i \in Nat
    BY SubjectsInPlan DEF EInv, TypeOK
  <2>5. delivered \in Seq(Event)
    BY DEF EInv, TypeOK, StreamTypeOK
  <2>6. delivered # <<>>
    BY <1>1 DEF Announced
  <2> QED
    BY <2>1, <2>2, <2>3, <2>4, <2>5, <2>6
<1>3. CASE result = "error" /\ Abort
  BY <1>1, <1>3, FailedIsUnaccounted DEF Abort
<1>4. CASE /\ result = "ok" /\ left > 0 /\ Emit("record", i) /\ left' = left - 1
           /\ UNCHANGED <<i, entries, records, pc, ret>>
  <2>1. PICK e \in Event : e = [kind |-> "record", of |-> i] /\ delivered' = Append(delivered, e)
    <3>1. Ready
      BY <1>1, <1>4, WaitingReady DEF Emit, Call, Waiting
    <3>2. i \in 1..Len(plan)
      BY <1>1, SubjectsInPlan DEF EInv, TypeOK, DataInv
    <3>3. i \in Subject
      BY <3>2, SubjectsInPlan DEF EInv
    <3> QED
      BY <1>4, <3>1, <3>3, ReadyHasSink DEF EInv, Emit, Call, Hand, Event, NonTerminal
  <2>2. /\ Cardinality(Events("record"))' = Cardinality(Events("record")) + 1
        /\ Subjects("record")' = Subjects("record") \cup {i}
    BY <1>2, <2>1, EventAdded
  <2>3. /\ Events("warning")' = Events("warning")
        /\ Subjects("warning")' = Subjects("warning")
    BY <1>2, <2>1, EventAdded
  <2>4. delivered' # <<>> /\ delivered'[1] = delivered[1]
    BY <1>2, <2>1
  <2>5. Counted'
    BY <1>1, <1>2, <1>4, <2>2, <2>3 DEF Counted, Pending, Taken
  <2>6. Announced'
    BY <1>1, <1>4, <2>4 DEF Announced, After
  <2> QED
    BY <1>1, <2>5, <2>6 DEF CountInv
<1>5. CASE /\ result = "ok" /\ left = 0 /\ entries' = entries \cup {i}
           /\ records' = records + batch /\ i' = i + 1 /\ pc' = "next"
           /\ UNCHANGED <<stream, left, ret>>
  <2>1. \A kind \in {"record", "warning"} :
           /\ Events(kind)' = Events(kind)
           /\ Subjects(kind)' = Subjects(kind)
    BY <1>5, EventsKept DEF stream
  <2>2. Cardinality(entries') = Cardinality(entries) + 1
    BY <1>2, <1>5, FS_AddElement
  <2>3. Cardinality(errors) \in Nat /\ Cardinality(entries) \in Nat
    BY <1>1, <1>2, FS_CardinalityType
  <2>4. Counted'
    BY <1>1, <1>2, <1>5, <2>1, <2>2, <2>3 DEF Counted, Pending, Taken
  <2>5. Announced'
    BY <1>1, <1>5 DEF Announced, After, stream
  <2> QED
    BY <1>1, <2>4, <2>5 DEF CountInv
<1> QED
  BY <1>3, <1>4, <1>5 DEF Record

LEMMA ReadCounts ==
    ASSUME EInv, CountInv, EInv', Read
    PROVE  CountInv'
<1>1. pc = "read" /\ Idle /\ UNCHANGED <<plan, i, fault>>
  BY DEF Read, request
<1>2. ASSUME NEW kind, FailWith(kind) \/ Abort, UNCHANGED collected PROVE CountInv'
  BY <1>2, FailedIsUnaccounted DEF FailWith, Abort, collected
<1>3. CASE result = "ok" /\ (ReadFails \/ ProjectionFails)
  BY <1>1, <1>2, <1>3, WarnCounts DEF ReadFails, ProjectionFails
<1>4. CASE /\ result = "ok" /\ batch' \in 0..MaxRecords /\ left' = batch'
           /\ pc' = "record" /\ UNCHANGED <<stream, collected, ret>>
  <2>1. Counted /\ Announced /\ IsFiniteSet(errors)
    BY <1>1 DEF CountInv, Accounted
  <2>2. Pending = 0 /\ Pending' = 0 /\ Taken' = Taken
    <3>1. batch' \in Nat
      BY <1>4, EngineAssumption
    <3>2. left' \in Nat /\ (\A x, y \in Nat : x = y => x - y = 0)
      BY <1>4, <3>1
    <3>3. batch' - left' = 0
      BY <1>4, <3>1, <3>2
    <3> QED
      BY <1>1, <1>4, <3>3 DEF Pending, Taken
  <2>3. Counted' /\ (delivered # <<>> => delivered' # <<>> /\ delivered'[1] = delivered[1])
    BY <1>1, <1>4, <2>1, <2>2, CountKept DEF stream, collected
  <2>4. Announced'
    BY <1>1, <1>4, <2>1, <2>3 DEF Announced, After
  <2> QED
    BY <1>4, <2>1, <2>3, <2>4 DEF CountInv, collected
<1> QED
  BY <1>2, <1>3, <1>4 DEF Read

LEMMA CountStep ==
    ASSUME EInv, CountInv, EInv', [Next]_vars
    PROVE  CountInv'
<1>1. ASSUME NEW kind, FailWith(kind) \/ Abort, UNCHANGED collected PROVE CountInv'
  BY <1>1, FailedIsUnaccounted DEF FailWith, Abort, collected
<1>2. pc \notin {"failed", "returned"} => Counted /\ Announced
  BY DEF CountInv, Accounted
<1>3. ASSUME Counted, UNCHANGED <<plan, i, collected>>, Pending' = Pending, Taken' = Taken,
             pc = "record" => pc' = "record",
             \/ delivered' = delivered
             \/ \E e \in Event : delivered' = Append(delivered, e) /\ e.kind \notin {"record", "warning"}
      PROVE  Counted' /\ (delivered # <<>> => delivered' # <<>> /\ delivered'[1] = delivered[1])
  BY <1>3, CountKept DEF collected
<1>4. IsFiniteSet(errors)
  BY DEF CountInv
<1> USE DEF Pending, Taken, After
<1>5. CASE Prepare
  BY <1>2, <1>3, <1>4, <1>5 DEF Prepare, CountInv, Announced, request, collected, stream
<1>6. CASE Start
  <2>1. pc = "start" /\ pc' = "started" /\ UNCHANGED <<request, fault, i, batch, left, collected>>
    BY <1>6 DEF Start
  <2>2. PICK total \in {0, Len(plan)} : (fault = "none" => total = Len(plan)) /\ StartEventStream(total)
    BY <1>6 DEF Start
  <2>3. total \in Subject /\ [kind |-> "started", of |-> total] \in Event
    BY SubjectsInPlan DEF EInv, Event
  <2>4. delivered \in Seq(Event) /\ delivered = <<>>
    BY <2>2 DEF EInv, StreamInv, StreamTypeOK, StartEventStream, Call
  <2>5. delivered' = delivered \/ delivered' = Append(delivered, [kind |-> "started", of |-> total])
    BY <2>2 DEF StartEventStream, Call, Hand
  <2>6. Counted'
    BY <1>2, <1>3, <2>1, <2>3, <2>5 DEF request
  <2>7. Announced'
    BY <2>1, <2>2, <2>4, <2>5 DEF Announced, request
  <2> QED
    BY <1>4, <2>1, <2>6, <2>7 DEF CountInv, collected
<1>7. CASE NewCollector
  <2>1. CASE \E kind : FailWith(kind) \/ Abort
    BY <1>1, <1>7, <2>1 DEF NewCollector
  <2>2. CASE result = "ok" /\ fault = "none" /\ pc' = "next" /\ UNCHANGED stream
    <3>1. delivered # <<>>
      BY <2>2 DEF EInv, StreamInv
    <3> QED
      BY <1>2, <1>3, <1>4, <1>7, <2>2, <3>1 DEF NewCollector, CountInv, Announced, request, collected, stream
  <2> QED
    BY <1>7, <2>1, <2>2 DEF NewCollector
<1>8. CASE NextResource
  <2>1. CASE \E kind : FailWith(kind)
    BY <1>1, <1>8, <2>1 DEF NextResource
  <2>2. CASE UNCHANGED stream /\ ((i > Len(plan) /\ pc' = "collected") \/ pc' = "session")
    <3>1. i > Len(plan) => i = Len(plan) + 1
      BY SubjectsInPlan DEF EInv, TypeOK
    <3> QED
      BY <1>2, <1>3, <1>4, <1>8, <2>2, <3>1 DEF NextResource, CountInv, Announced, request, collected, stream
  <2> QED
    BY <1>8, <2>1, <2>2 DEF NextResource
<1>9. CASE OpenSession
  <2>1. CASE \E kind : FailWith(kind)
    BY <1>1, <1>9, <2>1 DEF OpenSession
  <2>2. CASE UNCHANGED stream /\ pc' = "progress"
    BY <1>2, <1>3, <1>4, <1>9, <2>2 DEF OpenSession, CountInv, Announced, request, collected, stream
  <2> QED
    BY <1>9, <2>1, <2>2 DEF OpenSession
<1>10. CASE Progress
  <2>1. Ready /\ i \in Subject
    BY <1>10, QuietReady, SubjectsInPlan DEF Progress, Quiet, EInv, TypeOK, DataInv
  <2>2. PICK e \in Event : e = [kind |-> "progress", of |-> i] /\ delivered' = Append(delivered, e)
    BY <1>10, <2>1, ReadyHasSink DEF EInv, Progress, Emit, Call, Hand, Event, NonTerminal
  <2> QED
    BY <1>2, <1>3, <1>4, <1>10, <2>2 DEF Progress, CountInv, Announced, request, collected
<1>11. CASE Read
  BY <1>11, ReadCounts
<1>12. CASE Warned
  <2>1. CASE Abort
    BY <1>1, <1>12, <2>1 DEF Warned
  <2>2. CASE i' = i + 1 /\ pc' = "next" /\ UNCHANGED stream
    <3>1. \A kind \in {"record", "warning"} :
             /\ Events(kind)' = Events(kind)
             /\ Subjects(kind)' = Subjects(kind)
      BY <2>2, EventsKept DEF stream
    <3>2. i \in Nat /\ pc = "warned" /\ UNCHANGED <<plan, fault, collected>>
      BY <1>12 DEF Warned, EInv, TypeOK, request
    <3>3. Counted'
      BY <1>2, <2>2, <3>1, <3>2 DEF Counted, Failed, collected
    <3>4. Announced'
      BY <1>2, <2>2, <3>2 DEF Announced, stream
    <3> QED
      BY <1>4, <3>2, <3>3, <3>4 DEF CountInv, collected
  <2> QED
    BY <1>12, <2>1, <2>2 DEF Warned
<1>13. CASE Record
  BY <1>13, RecordCounts
<1>14. CASE Unwind
  <2>1. CASE pc = "failed"
    BY <1>4, <1>14, <2>1 DEF Unwind, CountInv, Accounted, LastKind, EInv, PcInv, StreamInv, Ended, stream, collected
  <2>2. CASE pc = "collected"
    BY <1>2, <1>3, <1>4, <1>14, <2>2 DEF Unwind, CountInv, Announced, request, collected, stream
  <2> QED
    BY <1>14, <2>1, <2>2 DEF Unwind
<1>15. CASE Publish
  <2>1. CASE \E kind : FailWith(kind)
    BY <1>1, <1>15, <2>1 DEF Publish
  <2>2. CASE UNCHANGED stream /\ pc' = "publishing"
    BY <1>2, <1>3, <1>4, <1>15, <2>2 DEF Publish, CountInv, Announced, request, collected, stream
  <2> QED
    BY <1>15, <2>1, <2>2 DEF Publish
<1>16. CASE Publishing
  BY <1>2, <1>3, <1>4, <1>16 DEF Publishing, CountInv, Announced, request, collected, stream
<1>17. CASE Published
  <2>1. CASE \E kind : FailWith(kind)
    BY <1>1, <1>17, <2>1 DEF Published
  <2>2. CASE Complete(0) /\ pc' = "completed"
    <3>1. pc = "publishing" /\ UNCHANGED <<request, fault, i, collected>>
      BY <1>17 DEF Published
    <3>2. PICK e \in Event : e = [kind |-> "completed", of |-> 0] /\ delivered' = Append(delivered, e)
      <4>1. Ready /\ 0 \in Subject
        BY <3>1, QuietReady, SubjectsInPlan DEF Quiet, EInv
      <4> QED
        BY <2>2, <4>1, ReadyHasSink DEF EInv, Complete, Call, Hand, Event, Terminal
    <3> QED
      BY <1>2, <1>3, <1>4, <2>2, <3>1, <3>2 DEF CountInv, Announced, request, collected
  <2> QED
    BY <1>17, <2>1, <2>2 DEF Published
<1>18. CASE Completed
  BY <1>2, <1>3, <1>4, <1>18 DEF Completed, CountInv, Announced, request, collected, stream
<1>19. CASE Sink
  <2>1. UNCHANGED <<plan, i, fault, pc, batch, left, collected>>
    BY <1>19 DEF Sink, request
  <2>2. CASE UNCHANGED <<terminal, delivered>>
    <3>1. Accounted' = Accounted
      BY <2>1, <2>2 DEF Accounted, LastKind
    <3>2. Accounted => Counted'
      BY <1>3, <2>1, <2>2 DEF CountInv
    <3> QED
      BY <1>4, <2>1, <2>2, <3>1, <3>2 DEF CountInv, Announced, collected
  <2>3. CASE ~terminal /\ SinkRejects
    <3>1. PICK e \in Event : e = [kind |-> "failed", of |-> delivering.of] /\ delivered' = Append(delivered, e)
      BY <2>3 DEF SinkRejects, Hand, EInv, StreamInv, StreamTypeOK, Event, Terminal, Idle
    <3>2. LastKind' = "failed"
      BY <3>1 DEF EInv, StreamInv, StreamTypeOK, LastKind
    <3>3. Accounted' => pc \notin {"failed", "returned"}
      BY <2>1, <3>2 DEF Accounted
    <3>4. pc \notin {"failed", "returned"} => Counted' /\ Announced'
      <4>1. delivered # <<>>
        BY <2>3 DEF SinkRejects, EInv, StreamInv, Idle
      <4>2. SUFFICES ASSUME pc \notin {"failed", "returned"} PROVE Counted' /\ Announced'
        OBVIOUS
      <4>3. Counted' /\ delivered' # <<>> /\ delivered'[1] = delivered[1]
        BY <1>2, <1>3, <2>1, <3>1, <4>1, <4>2
      <4> QED
        BY <1>2, <2>1, <4>1, <4>2, <4>3 DEF Announced
    <3> QED
      BY <1>4, <2>1, <3>3, <3>4 DEF CountInv, collected
  <2> QED
    BY <1>19, <2>2, <2>3 DEF Sink, SinkAccepts, SinkRejects
<1>20. CASE EndContext \/ UNCHANGED vars
  <2>1. UNCHANGED <<plan, i, fault, pc, batch, left, collected, terminal, delivered>>
    BY <1>20 DEF EndContext, vars, request, stream
  <2>2. Accounted' = Accounted
    BY <2>1 DEF Accounted, LastKind
  <2>3. Accounted => Counted'
    BY <1>3, <2>1 DEF CountInv
  <2> QED
    BY <1>4, <2>1, <2>2, <2>3 DEF CountInv, Announced, collected
<1> QED
  BY <1>5, <1>6, <1>7, <1>8, <1>9, <1>10, <1>11, <1>12, <1>13, <1>14, <1>15, <1>16, <1>17, <1>18,
     <1>19, <1>20 DEF Next, Returned

(* What a completed dump reports is what its consumer was told of.         *)
THEOREM CountersStayTrue == Spec => []CountersAreTrue
<1>1. Init => CountInv
  <2> SUFFICES ASSUME Init PROVE CountInv
    OBVIOUS
  <2>1. delivered = <<>> /\ errors = {} /\ entries = {} /\ records = 0 /\ i = 1 /\ pc = "prepare"
    BY DEF Init, StreamInit
  <2>2. \A kind : Events(kind) = {} /\ Subjects(kind) = {}
    BY <2>1 DEF Events, Subjects
  <2>3. IsFiniteSet({}) /\ Cardinality({}) = 0
    BY FS_EmptySet
  <2>4. Failed = {} /\ Pending = 0 /\ Taken = 0
    BY <2>1 DEF Failed, Pending, Taken
  <2>5. Counted
    <3>1. /\ Events("record") = {} /\ Events("warning") = {}
          /\ Subjects("record") = {} /\ Subjects("warning") = {}
      BY <2>2
    <3>2. Cardinality(Events("record")) = records + Pending
      <4>1. Cardinality(Events("record")) = 0
        BY <2>3, <3>1
      <4>2. records + Pending = 0
        BY <2>1, <2>4
      <4> QED
        BY <4>1, <4>2
    <3>3. Cardinality(Events("warning")) = Cardinality(errors)
      BY <2>1, <3>1
    <3>4. Cardinality(entries) + Cardinality(errors) = Taken
      BY <2>1, <2>3, <2>4
    <3>5. Subjects("record") \subseteq entries \cup (IF pc = "record" THEN {i} ELSE {})
      BY <3>1
    <3> QED
      BY <2>4, <3>1, <3>2, <3>3, <3>4, <3>5 DEF Counted
  <2> QED
    BY <2>1, <2>3, <2>5 DEF CountInv, Announced, After
<1>2. EInv /\ EInv' /\ CountInv /\ [Next]_vars => CountInv'
  BY CountStep
<1>3. EInv /\ CountInv => CountersAreTrue
  <2> SUFFICES ASSUME EInv, CountInv, Events("completed") # {}
               PROVE  /\ Cardinality(Events("record")) = records
                      /\ Cardinality(Events("warning")) = Cardinality(errors)
                      /\ Cardinality(entries) + Cardinality(errors) = delivered[1].of
                      /\ Subjects("record") \subseteq entries
                      /\ Subjects("warning") = Failed
    BY DEF CountersAreTrue
  <2>1. terminal /\ LastKind = "completed" /\ sink /\ delivered # <<>>
    BY TerminalIsLast DEF Terminal, EInv, StreamInv, Ended
  <2>2. pc \in {"completed", "returned"}
    BY <2>1 DEF EInv, TypeOK, PcInv, Quiet, Waiting, StreamInv, Ended
  <2>3. Counted /\ Announced
    BY <2>1 DEF CountInv, Accounted
  <2>4. Len(plan) \in Nat /\ records \in Nat
    BY SubjectsInPlan DEF EInv, TypeOK
  <2> QED
    BY <2>1, <2>2, <2>3, <2>4 DEF Counted, Announced, Pending, Taken, After
<1> QED
  BY <1>1, <1>2, <1>3, EInvCorrect, PTL DEF Spec

-----------------------------------------------------------------------------
(* The files: their writer, their readers, clearing and power losses.      *)

USE WriteAssumption DEF contents, writer, reader, Goto

(* Steps that change no file, and nothing of the writer.                   *)
ReaderMove ==
    ReadManifest \/ ReadReport \/ ScanResource \/ ReadErrors \/ Inventory \/ StopReading

LEMMA ReaderOnly ==
    ASSUME ReaderMove
    PROVE  UNCHANGED <<contents, file, temp, writer, clear, aim, losses>>
  BY DEF ReaderMove, ReadManifest, ReadReport, ScanResource, ReadErrors, Inventory, StopReading

(* What every step changes is changed by one of these.                     *)
LEMMA Steps ==
    ASSUME [WriteNext]_artifact
    PROVE  \/ Begin \/ Open \/ Write \/ Sync \/ Rename \/ Cancel \/ Kill \/ Intrude
           \/ PowerLoss \/ StartClear \/ RemoveEntry \/ EndClear \/ ReaderMove
           \/ UNCHANGED artifact
  BY DEF WriteNext, ReaderMove, Finished

-----------------------------------------------------------------------------
(* The inductive invariant, part by part.                                  *)

LEMMA InitInv == WriteInit => WInv
<1>1. WriteInit => WriteTypeOK
  <2>1. WriteInit => gathered \subseteq Resource /\ failures \subseteq Resource
    BY DEF WriteInit
  <2>2. WriteInit => file \in [Path -> Own \cup {"none", "foreign"}]
    BY DEF WriteInit
  <2>3. WriteInit => /\ temp \in Own \cup {"none"} /\ cur \in Path \cup {"none"}
                     /\ written \subseteq Path /\ got \subseteq Path /\ losses \in 0..MaxLosses
    BY DEF WriteInit
  <2> QED
    BY <2>1, <2>2, <2>3 DEF WriteInit, WriteTypeOK
<1>2. WriteInit => WriterInv /\ FileInv
  BY DEF WriteInit, WriterInv, FileInv, Mine, Own
<1>3. WriteInit => ReaderInv
  BY DEF WriteInit, ReaderInv
<1> QED
  BY <1>1, <1>2, <1>3 DEF WInv

LEMMA TypeStep ==
    ASSUME WInv, [WriteNext]_artifact
    PROVE  WriteTypeOK'
<1> USE DEF WInv, WriteTypeOK, Own, Path, Meta
<1>1. CASE Begin \/ Cancel \/ Kill
  <2>1. UNCHANGED <<gathered, failures, file, temp, cur, written, clear, aim, rpc, got, losses>>
    BY <1>1 DEF Begin, Cancel, Kill
  <2>2. wpc' \in {wpc, "next", "failed", "killed"}
    BY <1>1 DEF Begin, Cancel, Kill
  <2>3. canceled' \in BOOLEAN
    BY <1>1 DEF Begin, Cancel, Kill
  <2> QED
    BY <2>1, <2>2, <2>3
<1>2. CASE Open
  BY <1>2 DEF Open, Plan
<1>3. CASE Write \/ Sync
  BY <1>3 DEF Write, Sync, Abandon
<1>4. CASE Rename
  BY <1>4 DEF Rename, Place, Abandon, AfterFile, WriterInv, Following, Plan
<1>5. CASE Intrude \/ RemoveEntry
  BY <1>5 DEF Intrude, RemoveEntry, Present
<1>6. CASE PowerLoss
  BY <1>6 DEF PowerLoss, Survives
<1>7. CASE ReaderMove
  <2>1. rpc' \in {"manifest", "report", "resources", "errors", "inventory", "valid", "invalid"}
    BY <1>7 DEF ReaderMove, ReadManifest, ReadReport, ScanResource, ReadErrors, Inventory,
                StopReading, ReadFile, AfterReport, AfterResources, AfterInventory
  <2>2. got' \subseteq Path
    BY <1>7 DEF ReaderMove, ReadManifest, ReadReport, ScanResource, ReadErrors, Inventory,
                StopReading, ReadFile
  <2> QED
    BY <1>7, <2>1, <2>2, ReaderOnly
<1>8. CASE StartClear \/ EndClear
  BY <1>8 DEF StartClear, EndClear
<1>9. CASE UNCHANGED artifact
  BY <1>9 DEF artifact
<1> QED
  BY <1>1, <1>2, <1>3, <1>4, <1>5, <1>6, <1>7, <1>8, <1>9, Steps

LEMMA WriterStep ==
    ASSUME WInv, [WriteNext]_artifact
    PROVE  WriterInv'
<1> USE DEF WInv, WriteTypeOK, WriterInv, Active, Following, Plan, Mine, Own
<1>1. CASE Begin
  BY <1>1 DEF Begin
<1>2. CASE Open
  BY <1>2 DEF Open
<1>3. CASE Write
  BY <1>3 DEF Write, Abandon
<1>4. CASE Sync
  BY <1>4 DEF Sync, Abandon
<1>5. CASE Rename
  BY <1>5 DEF Rename, Place, Abandon, AfterFile
<1>6. CASE Cancel \/ Kill
  BY <1>6 DEF Cancel, Kill
<1>7. CASE Intrude
  BY <1>7 DEF Intrude, Present
<1>8. CASE PowerLoss
  BY <1>8 DEF PowerLoss
<1>9. CASE StartClear \/ RemoveEntry \/ EndClear
  BY <1>9 DEF StartClear, RemoveEntry, EndClear
<1>10. CASE ReaderMove
  BY <1>10, ReaderOnly
<1>11. CASE UNCHANGED artifact
  BY <1>11 DEF artifact
<1> QED
  BY <1>1, <1>2, <1>3, <1>4, <1>5, <1>6, <1>7, <1>8, <1>9, <1>10, <1>11, Steps

LEMMA FileStep ==
    ASSUME WInv, [WriteNext]_artifact
    PROVE  FileInv'
<1> USE DEF WInv, WriteTypeOK, FileInv, Mine, Own
<1>1. CASE Begin \/ Open \/ Write \/ Sync \/ Cancel \/ Kill \/ StartClear \/ EndClear
  BY <1>1 DEF Begin, Open, Write, Sync, Cancel, Kill, StartClear, EndClear
<1>2. CASE Rename
  BY <1>2 DEF Rename, Place, WriterInv
<1>3. CASE Intrude \/ RemoveEntry
  BY <1>3 DEF Intrude, RemoveEntry, Present
<1>4. CASE PowerLoss
  BY <1>4 DEF PowerLoss, Survives
<1>5. CASE ReaderMove
  BY <1>5, ReaderOnly
<1>6. CASE UNCHANGED artifact
  BY <1>6 DEF artifact
<1> QED
  BY <1>1, <1>2, <1>3, <1>4, <1>5, <1>6, Steps

(* A file that is read whole is one the run finalized.                     *)
LEMMA WholeIsWritten ==
    ASSUME WInv, NEW f \in Path, Whole(f)
    PROVE  f \in written
  BY DEF WInv, FileInv, Whole, Mine, Own

LEMMA ReaderStep ==
    ASSUME WInv, [WriteNext]_artifact
    PROVE  ReaderInv'
<1> USE DEF WInv, WriteTypeOK, ReaderInv, Errors, Plan
<1>1. CASE Begin \/ Open \/ Write \/ Sync \/ Cancel \/ Kill \/ Intrude
           \/ StartClear \/ RemoveEntry \/ EndClear \/ UNCHANGED artifact
  BY <1>1 DEF Begin, Open, Write, Sync, Cancel, Kill, Intrude, StartClear, RemoveEntry,
              EndClear, artifact
<1>2. CASE Rename
  BY <1>2 DEF Rename, Place
<1>3. CASE PowerLoss
  BY <1>3 DEF PowerLoss
<1>4. CASE ReadManifest
  BY <1>4, WholeIsWritten DEF ReadManifest, ReadFile, Path, Meta
<1>5. CASE ReadReport
  BY <1>5 DEF ReadReport, ReadFile, AfterReport
<1>6. CASE ScanResource
  BY <1>6 DEF ScanResource, ReadFile, AfterResources
<1>7. CASE ReadErrors
  <2>1. rpc = "errors" /\ UNCHANGED <<gathered, failures, written, aim>>
    BY <1>7 DEF ReadErrors
  <2>2. CASE failures # {}
    BY <1>7, <2>1, <2>2 DEF ReadErrors, ReadFile
  <2>3. CASE failures = {}
    <3>1. got' = got /\ rpc' \in {"invalid", "inventory"} /\ Errors = {}
      BY <1>7, <2>3 DEF ReadErrors, Meta
    <3> QED
      BY <2>1, <2>3, <3>1
  <2> QED
    BY <2>2, <2>3
<1>8. CASE Inventory
  BY <1>8 DEF Inventory, AfterInventory
<1>9. CASE StopReading
  BY <1>9 DEF StopReading
<1> QED
  BY <1>1, <1>2, <1>3, <1>4, <1>5, <1>6, <1>7, <1>8, <1>9, Steps DEF ReaderMove

(* WInv holds however the writer is stopped, files are added, forgotten or *)
(* cleared, and the reader interleaves with all of it.                     *)
THEOREM WInvCorrect == WriteSpec => []WInv
<1>1. WInv /\ [WriteNext]_artifact => WInv'
  BY TypeStep, WriterStep, FileStep, ReaderStep DEF WInv
<1> QED
  BY InitInv, <1>1, PTL DEF WriteSpec

-----------------------------------------------------------------------------
(* What follows from it.                                                   *)

(* A manifest is evidence of a run that did not fail and, until power is   *)
(* lost or the directory cleared, of a whole dump.                         *)
THEOREM ManifestIsLast == WriteSpec => []ManifestLast
<1>1. WInv => ManifestLast
  BY DEF WInv, WriteTypeOK, WriterInv, FileInv, ManifestLast, Mine, Path, Meta
<1> QED
  BY <1>1, WInvCorrect, PTL

(* No final file is half written, even after a power loss.                 *)
THEOREM FilesAreWhole == WriteSpec => []FinalFilesWhole
<1>1. WInv => FinalFilesWhole
  BY DEF WInv, FileInv, FinalFilesWhole, Whole
<1> QED
  BY <1>1, WInvCorrect, PTL

(* Whoever accepts a dump has read all of it, and of a run that reported   *)
(* success, whatever was added, forgotten or cleared meanwhile.            *)
THEOREM AcceptedIsWhole == WriteSpec => []ValidIsWhole
<1>1. WInv => ValidIsWhole
  BY DEF WInv, WriterInv, ReaderInv, ValidIsWhole, Plan, Errors
<1> QED
  BY <1>1, WInvCorrect, PTL

=============================================================================
