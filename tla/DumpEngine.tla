------------------------------ MODULE DumpEngine ------------------------------
(***************************************************************************)
(* The dump operation (internal/runtime: dump_engine.go Engine.Dump,       *)
(* dump.go collectIntoStream).                                             *)
(*                                                                         *)
(* One goroutine validates the request, reads every selected resource      *)
(* through one session per product, publishes the artifact and reports to  *)
(* a sink.  Beside it the context ends at any time, the live service fails *)
(* any call, and the sink fails any event.  Publication is the abstract    *)
(* one, AtomicPublish, that DumpPublish implements.                        *)
(***************************************************************************)
EXTENDS EventStream, FiniteSets

CONSTANTS
    Product,
    Plans,        \* selections: sequences of the products of the resources
    MaxRecords    \* bound on the records of one resource

ASSUME EngineAssumption ==
    /\ MaxRecords \in Nat
    /\ \A s \in Plans : s \in Seq(Product) /\ 0..Len(s) \subseteq Subject

Causes == {"live", "timeout", "ended"}
Kinds == {"canceled", "deadline", "usage", "setup", "live", "internal", "sink"}

VARIABLES
    plan,
    continueOnError,
    ctx,          \* "live", or how the context ended
    pc,
    fault,        \* what was wrong with the request
    i,            \* the resource at hand
    batch,        \* the number of its records
    left,         \* those still to be emitted
    session,      \* per product
    entries,      \* the resources collected
    errors,       \* the resources that failed, and why
    records,      \* the number of records collected
    ret,          \* what the operation returned
    slot, phase, replaced

engine == "engine"
Pub == INSTANCE AtomicPublish
           WITH Client <- {engine}, Object <- {"old", "new"}, Nothing <- "nothing"

request == <<plan, continueOnError>>
collected == <<entries, errors, records>>
publication == <<slot, phase, replaced>>
vars == <<stream, request, ctx, pc, fault, i, batch, left, session,
          collected, ret, publication>>

TypeOK ==
    /\ StreamTypeOK
    /\ plan \in Plans
    /\ continueOnError \in BOOLEAN
    /\ ctx \in {"live", "canceled", "deadline"}
    /\ pc \in {"prepare", "start", "started", "next", "session", "progress", "read",
               "warned", "record", "collected", "publish", "publishing", "completed",
               "failed", "returned"}
    /\ fault \in {"none"} \cup Kinds
    /\ i \in 1..Len(plan) + 1
    /\ batch \in 0..MaxRecords
    /\ left \in 0..batch
    /\ session \in [Product -> {"none", "open", "shared", "closed"}]
    /\ entries \subseteq 1..Len(plan)
    /\ \A e \in errors : e.resource \in 1..Len(plan) /\ e.cause \in Causes \cup {"projection"}
    /\ records \in Nat
    /\ ret \in {"none", "ok"} \cup Kinds

Init ==
    /\ StreamInit
    /\ plan \in Plans
    /\ continueOnError \in BOOLEAN
    /\ ctx = "live"
    /\ pc = "prepare"
    /\ fault = "none"
    /\ i = 1
    /\ batch = 0
    /\ left = 0
    /\ session = [p \in Product |-> "none"]
    /\ entries = {}
    /\ errors = {}
    /\ records = 0
    /\ ret = "none"
    /\ slot \in {"old", "nothing"}
    /\ phase = [c \in {engine} |-> "pending"]
    /\ replaced = [c \in {engine} |-> "nothing"]

-----------------------------------------------------------------------------
(* Before anything is read.                                                *)

(* The request is validated before the stream starts; what is wrong with   *)
(* it is reported after.                                                   *)
Prepare ==
    /\ pc = "prepare"
    /\ \/ ctx = "live" /\ fault' = "none"
       \/ ctx = "live" /\ fault' \in {"usage", "internal"}
       \/ ctx # "live" /\ fault' = ctx
    /\ pc' = "start"
    /\ UNCHANGED <<stream, request, ctx, i, batch, left, session, collected, ret, publication>>

Start ==
    /\ pc = "start"
    /\ \E total \in {0, Len(plan)} :
          /\ fault = "none" => total = Len(plan)
          /\ fault \in {"usage", "internal"} => total = 0
          /\ StartEventStream(total)
    /\ pc' = "started"
    /\ UNCHANGED <<request, ctx, fault, i, batch, left, session, collected, ret, publication>>

(* Mutant of FailWith: a canceled operation is reported as a failed one.   *)
FailWithFailed(kind) == Fail("failed", 0) /\ ret' = kind /\ pc' = "failed"

(* The stream is told before the operation returns; the error returned is  *)
(* the operation's even if the sink refuses the event.                     *)
FailWith(kind) ==
    /\ Fail(IF kind = "canceled" THEN "canceled" ELSE "failed", 0)
    /\ ret' = kind
    /\ pc' = "failed"

(* An event could not be delivered, or the stream could not be started.    *)
Abort == ret' = "sink" /\ pc' = "failed" /\ UNCHANGED stream

(* The collector: its configuration is loaded and credentials resolved.    *)
NewCollector ==
    /\ pc = "started"
    /\ Idle
    /\ \/ result = "error" /\ Abort
       \/ /\ result = "ok"
          /\ \/ fault # "none" /\ FailWith(fault)
             \/ fault = "none" /\ ctx # "live" /\ FailWith(ctx)
             \/ fault = "none" /\ ctx = "live" /\ FailWith("setup")
             \/ fault = "none" /\ ctx = "live" /\ pc' = "next" /\ UNCHANGED <<stream, ret>>
    /\ UNCHANGED <<request, ctx, fault, i, batch, left, session, collected, publication>>

-----------------------------------------------------------------------------
(* The resources, one after the other.                                     *)

NextResource ==
    /\ pc = "next"
    /\ \/ i > Len(plan) /\ pc' = "collected" /\ UNCHANGED <<stream, ret>>
       \/ i <= Len(plan) /\ ctx # "live" /\ FailWith(ctx)
       \/ i <= Len(plan) /\ ctx = "live" /\ pc' = "session" /\ UNCHANGED <<stream, ret>>
    /\ UNCHANGED <<request, ctx, fault, i, batch, left, session, collected, publication>>

(* How a call to the service can fail, as far as the caller can tell: any  *)
(* failure after the context has ended is the context's.                   *)
Failure(cause) ==
    /\ cause \in Causes
    /\ (cause = "ended") = (ctx # "live")

KindOf(cause) == CASE cause = "ended" -> ctx
                   [] cause = "timeout" -> "deadline"
                   [] OTHER -> cause

(* One session per product, or the reader itself where the product has no  *)
(* sessions.  A session that cannot be had fails the whole dump.           *)
OpenSession ==
    /\ pc = "session"
    /\ LET product == plan[i]
       IN  \/ /\ session[product] # "none"
              /\ pc' = "progress"
              /\ UNCHANGED <<stream, session, ret>>
           \/ /\ session[product] = "none"
              /\ \E s \in {"open", "shared"} : session' = [session EXCEPT ![product] = s]
              /\ pc' = "progress"
              /\ UNCHANGED <<stream, ret>>
           \/ /\ session[product] = "none"
              /\ \E cause \in Causes : Failure(cause) /\ FailWith(KindOf(cause))
              /\ UNCHANGED session
           \/ session[product] = "none" /\ FailWith("setup") /\ UNCHANGED session
    /\ UNCHANGED <<request, ctx, fault, i, batch, left, collected, publication>>

Progress ==
    /\ pc = "progress"
    /\ Emit("progress", i)
    /\ pc' = "read"
    /\ UNCHANGED <<request, ctx, fault, i, batch, left, session, collected, ret, publication>>

(* Mutant of Warn: the consumer is not warned.                             *)
WarnSilently(cause) ==
    /\ errors' = errors \cup {[resource |-> i, cause |-> cause]}
    /\ pc' = "warned"
    /\ UNCHANGED <<stream, entries, records, ret>>

(* A resource that failed: recorded, and the consumer warned.              *)
Warn(cause) ==
    /\ errors' = errors \cup {[resource |-> i, cause |-> cause]}
    /\ Emit("warning", i)
    /\ pc' = "warned"
    /\ UNCHANGED <<entries, records, ret>>

(* Mutant of ReadFails: the context is not looked at after the failure.    *)
ReadFailsUnchecked ==
    \E cause \in Causes :
        /\ Failure(cause)
        /\ \/ continueOnError /\ Warn(cause)
           \/ ~continueOnError /\ FailWith(KindOf(cause)) /\ UNCHANGED collected

(* The context is looked at again after the read: its end is never a       *)
(* failure of the resource.  It may end between the failure and that look. *)
ReadFails ==
    \E cause \in Causes :
        /\ cause = "ended" => ctx # "live"
        /\ \/ ctx # "live" /\ FailWith(ctx) /\ UNCHANGED collected
           \/ ctx = "live" /\ continueOnError /\ Warn(cause)
           \/ ctx = "live" /\ ~continueOnError /\ FailWith(KindOf(cause)) /\ UNCHANGED collected

(* Mutant of ProjectionFails: a record that cannot be projected is skipped *)
(* even if the dump is to fail closed.                                     *)
ProjectionFailsSoftly == Warn("projection")

ProjectionFails ==
    \/ continueOnError /\ Warn("projection")
    \/ ~continueOnError /\ FailWith("internal") /\ UNCHANGED collected

(* All records of a resource are projected before the first is emitted.    *)
Read ==
    /\ pc = "read"
    /\ Idle
    /\ \/ result = "error" /\ Abort /\ UNCHANGED <<batch, left, collected>>
       \/ result = "ok" /\ (ReadFails \/ ProjectionFails) /\ UNCHANGED <<batch, left>>
       \/ /\ result = "ok"
          /\ batch' \in 0..MaxRecords
          /\ left' = batch'
          /\ pc' = "record"
          /\ UNCHANGED <<stream, collected, ret>>
    /\ UNCHANGED <<request, ctx, fault, i, session, publication>>

Warned ==
    /\ pc = "warned"
    /\ Idle
    /\ \/ result = "error" /\ Abort /\ UNCHANGED i
       \/ result = "ok" /\ i' = i + 1 /\ pc' = "next" /\ UNCHANGED <<stream, ret>>
    /\ UNCHANGED <<request, ctx, fault, batch, left, session, collected, publication>>

(* One record event after the other, and then the resource is collected.   *)
Record ==
    /\ pc = "record"
    /\ Idle
    /\ \/ /\ result = "error"
          /\ Abort
          /\ UNCHANGED <<i, left, entries, records>>
       \/ /\ result = "ok" /\ left > 0
          /\ Emit("record", i)
          /\ left' = left - 1
          /\ UNCHANGED <<i, entries, records, pc, ret>>
       \/ /\ result = "ok" /\ left = 0
          /\ entries' = entries \cup {i}
          /\ records' = records + batch
          /\ i' = i + 1
          /\ pc' = "next"
          /\ UNCHANGED <<stream, left, ret>>
    /\ UNCHANGED <<request, ctx, fault, batch, session, errors, publication>>

(* Mutant of Unwind: sessions are closed when everything was read.         *)
UnwindOnSuccess ==
    /\ Idle
    /\ \/ /\ pc = "collected"
          /\ session' = [p \in Product |-> IF session[p] = "open" THEN "closed" ELSE session[p]]
          /\ pc' = "publish"
       \/ pc = "failed" /\ pc' = "returned" /\ UNCHANGED session
    /\ UNCHANGED <<stream, request, ctx, fault, i, batch, left, collected, ret, publication>>

(* The deferred cleanup: every session is closed once collecting is over,  *)
(* whether or not it succeeded.                                            *)
Unwind ==
    /\ Idle
    /\ \/ pc = "collected" /\ pc' = "publish"
       \/ pc = "failed" /\ pc' = "returned"
    /\ session' = [p \in Product |-> IF session[p] = "open" THEN "closed" ELSE session[p]]
    /\ UNCHANGED <<stream, request, ctx, fault, i, batch, left, collected, ret, publication>>

-----------------------------------------------------------------------------
(* Publication and the report.                                             *)

(* Publication looks at the context before it does anything.               *)
Publish ==
    /\ pc = "publish"
    /\ \/ ctx # "live" /\ FailWith(ctx) /\ Pub!GiveUp(engine)
       \/ ctx = "live" /\ pc' = "publishing" /\ UNCHANGED <<stream, ret, publication>>
    /\ UNCHANGED <<request, ctx, fault, i, batch, left, session, collected>>

Publishing ==
    /\ pc = "publishing"
    /\ \/ Pub!Install(engine) /\ slot' = "new"
       \/ Pub!GiveUp(engine)
       \/ Pub!Undo(engine)
       \/ Pub!Report(engine)
    /\ UNCHANGED <<stream, request, ctx, pc, fault, i, batch, left, session, collected, ret>>

(* Mutant of Published: the operation is completed whatever publication    *)
(* reported.                                                               *)
PublishedOrNot ==
    /\ pc = "publishing"
    /\ phase[engine] \notin {"pending", "installed"}
    /\ Complete(0)
    /\ pc' = "completed"
    /\ UNCHANGED <<request, ctx, fault, i, batch, left, session, collected, ret, publication>>

(* A publication error is the context's or its own.                        *)
Published ==
    /\ pc = "publishing"
    /\ \/ phase[engine] = "success" /\ Complete(0) /\ pc' = "completed" /\ UNCHANGED ret
       \/ /\ phase[engine] \in {"failure", "uncertain"}
          /\ \E kind \in {"internal"} \cup ({ctx} \ {"live"}) : FailWith(kind)
    /\ UNCHANGED <<request, ctx, fault, i, batch, left, session, collected, publication>>

(* The result is returned with the error if the sink refuses the event.    *)
Completed ==
    /\ pc = "completed"
    /\ Idle
    /\ ret' = IF result = "ok" THEN "ok" ELSE "sink"
    /\ pc' = "returned"
    /\ UNCHANGED <<stream, request, ctx, fault, i, batch, left, session, collected, publication>>

-----------------------------------------------------------------------------
(* The environment.                                                        *)

Sink ==
    /\ SinkAccepts \/ SinkRejects
    /\ UNCHANGED <<request, ctx, pc, fault, i, batch, left, session, collected, ret, publication>>

EndContext ==
    /\ ctx = "live"
    /\ pc # "returned"
    /\ ctx' \in {"canceled", "deadline"}
    /\ UNCHANGED <<stream, request, pc, fault, i, batch, left, session, collected, ret, publication>>

Returned == pc = "returned" /\ UNCHANGED vars

Next ==
    \/ Prepare \/ Start \/ NewCollector
    \/ NextResource \/ OpenSession \/ Progress \/ Read \/ Warned \/ Record \/ Unwind
    \/ Publish \/ Publishing \/ Published \/ Completed
    \/ Sink \/ EndContext \/ Returned

Spec == Init /\ [][Next]_vars

-----------------------------------------------------------------------------
(* Properties.                                                             *)

Failed == {e.resource : e \in errors}
Events(kind) == {n \in 1..Len(delivered) : delivered[n].kind = kind}
Subjects(kind) == {delivered[n].of : n \in Events(kind)}

(* "A completed event means every artifact file has been finalized"        *)
(* (dump_engine.go): publication has succeeded, the artifact is in place,  *)
(* and it covers every selected resource.                                  *)
CompletedMeansPublished ==
    Events("completed") # {} =>
        /\ slot = "new" /\ phase[engine] = "success"
        /\ entries \cup Failed = 1..Len(plan)

(* Whatever fails, and wherever, the consumer is told before the operation *)
(* returns, and of what the caller is told: canceled if and only if the    *)
(* error says so; completed only if the artifact was published, with an    *)
(* error only if the sink refused that very event.                         *)
ReportAgrees ==
    /\ CompletedMeansPublished
    /\ pc = "returned" /\ sink =>
          /\ Ended
          /\ LET last == delivered[Len(delivered)].kind
             IN  /\ ret = "canceled" <=> last = "canceled"
                 /\ ret = "ok" => last = "completed"
                 /\ last = "completed" => ret \in {"ok", "sink"}

(* The counters of the completed event are those of the events before it:  *)
(* a record event per record, none of a failed resource, and exactly one   *)
(* warning for each of those (Event.Records, Resources, Warnings).         *)
CountersAreTrue ==
    Events("completed") # {} =>
        /\ Cardinality(Events("record")) = records
        /\ Cardinality(Events("warning")) = Cardinality(errors)
        /\ Cardinality(entries) + Cardinality(errors) = delivered[1].of
        /\ Subjects("record") \subseteq entries
        /\ Subjects("warning") = Failed

(* The end of the context is never taken for the failure of a resource:    *)
(* no partial dump stands for a canceled one.                              *)
EndIsNotAFailure == \A e \in errors : e.cause # "ended"

(* "Dump commands fail closed by default. If a selected resource fails, no *)
(* files are written": nothing is published unless every resource was read *)
(* or its failure allowed, which the end of the context never passes for,  *)
(* and what an operation that failed leaves published is at most what      *)
(* publication itself was not sure of.                                     *)
FailsClosed ==
    /\ EndIsNotAFailure
    /\ slot = "new" =>
          /\ entries \cup Failed = 1..Len(plan)
          /\ errors # {} => continueOnError
          /\ Events("failed") \cup Events("canceled") # {} =>
                 phase[engine] = "uncertain" \/ Events("completed") # {}

(* Resources are read within a session of their product, and no session    *)
(* outlives the reading: none is open while files are written or after the *)
(* operation has returned, however it ended.                               *)
SessionsAreScoped ==
    /\ pc \in {"progress", "read", "warned", "record"} => session[plan[i]] \in {"open", "shared"}
    /\ pc \in {"publish", "publishing", "completed", "returned"} =>
          \A p \in Product : session[p] # "open"

=============================================================================
