-------------------------------- MODULE DumpDiff --------------------------------
(***************************************************************************)
(* The comparison of two saved dumps (internal/runtime/diff_engine.go      *)
(* Engine.Diff, internal/diff/diff.go CompareContext) and the exit code of *)
(* the command (internal/cli/dump_diff.go runDiffWithOptions).             *)
(*                                                                         *)
(* One goroutine loads the old dump and then the new one within one budget *)
(* of bytes, refuses dumps that cannot be compared, and compares resource  *)
(* by resource, reporting to a sink.  Beside it the context ends, files    *)
(* turn out unreadable or invalid, and the sink fails any event.           *)
(*                                                                         *)
(* A file is its records, and as long as it has records, plus one.  What   *)
(* may be wrong with a manifest or a file apart from its length, and how a *)
(* read may fail, has one consequence and is the choice of a step.  The    *)
(* report names records by their positions in the two files.               *)
(***************************************************************************)
EXTENDS EventStream, Integers, FiniteSets, Functions

CONSTANTS
    Count,         \* the number of resources in the catalog
    Cases,         \* what is compared: the shapes of the resources, two dumps
    Budget,        \* maxComparisonBytes
    MaxResource    \* maxResourceBytes

Resource == 1..Count
Value == {"x", "y", "null", "absent"}
Record == [id : {"a", "b", "absent"}, setting : Value, operational : Value]
File == [status : {"ok"}, records : Seq(Record)]
            \cup [status : {"error", "unlisted"}, records : {<<>>}]
Dump == [redaction : {"standard", "share"}, files : [Resource -> File]]

ASSUME DiffAssumption ==
    /\ Count \in Nat
    /\ 0..Count \subseteq Subject
    /\ Budget \in Nat
    /\ MaxResource \in Nat \ {0}
    /\ \A c \in Cases : /\ c.shape \in [Resource -> {"singleton", "keyed", "hashed"}]
                        /\ c.old \in Dump
                        /\ c.new \in Dump

Sides == {"old", "new"}
Refusals == {"invalid", "tooLarge", "partial", "redaction", "scope"}
Kinds == {"canceled", "deadline", "usage", "internal"} \cup Refusals

VARIABLES
    compared,            \* the case at hand
    selected,
    allowPartial,
    ignoreOperational,
    failOnDrift,
    ctx,                 \* "live", or how the context ended
    pc,
    fault,               \* what was wrong with the request
    side,                \* the dump being loaded
    i,                   \* the resource at hand
    kept,                \* the bytes of selected files loaded of either dump
    report,              \* the entries of the report
    drift,               \* its summary: records added, removed and changed
    ret,                 \* what Diff returned
    exit                 \* the exit code of the command

request == <<compared, selected, allowPartial, ignoreOperational>>
command == <<failOnDrift, exit>>
loader == <<side, kept>>
comparison == <<report, drift>>
vars == <<stream, request, command, ctx, pc, fault, loader, i, comparison, ret>>

Init ==
    /\ StreamInit
    /\ compared \in Cases
    /\ selected \in SUBSET Resource \ {{}}
    /\ allowPartial \in BOOLEAN
    /\ ignoreOperational \in BOOLEAN
    /\ failOnDrift = FALSE
    /\ ctx = "live"
    /\ pc = "prepare"
    /\ fault = "none"
    /\ side = "old"
    /\ i = 1
    /\ kept = [s \in Sides |-> 0]
    /\ report = <<>>
    /\ drift = 0
    /\ ret = "none"
    /\ exit = -1

FileOf(s, r) == compared[s].files[r]
Records(s, r) == FileOf(s, r).records
Size(file) == Len(file.records) + 1
Partial(s) == \E r \in Resource : FileOf(s, r).status = "error"
Status(s, r) == FileOf(s, r).status

-----------------------------------------------------------------------------
(* The request.                                                            *)

Prepare ==
    /\ pc = "prepare"
    /\ \/ ctx = "live" /\ fault' \in {"none", "usage", "internal"}
       \/ ctx # "live" /\ fault' = ctx
    /\ pc' = "start"
    /\ UNCHANGED <<stream, request, command, ctx, loader, i, comparison, ret>>

Start ==
    /\ pc = "start"
    /\ \E total \in {0, Cardinality(selected)} :
          /\ fault = "none" => total = Cardinality(selected)
          /\ fault \in {"usage", "internal"} => total = 0
          /\ StartEventStream(total)
    /\ pc' = "started"
    /\ UNCHANGED <<request, command, ctx, fault, loader, i, comparison, ret>>

(* Mutant of FailWith: a canceled comparison is reported as a failed one.  *)
FailWithFailed(kind) == Fail("failed", 0) /\ ret' = kind /\ pc' = "failed"

(* The stream is told before Diff returns, and the error returned is its   *)
(* own even if the sink refuses the event.                                 *)
FailWith(kind) ==
    /\ Fail(IF kind = "canceled" THEN "canceled" ELSE "failed", 0)
    /\ ret' = kind
    /\ pc' = "failed"

(* An event could not be delivered, or the stream could not be started.    *)
Abort == ret' = "sink" /\ pc' = "failed" /\ UNCHANGED stream

Proceed(step) == pc' = step /\ UNCHANGED <<stream, ret>>

Started ==
    /\ pc = "started"
    /\ Idle
    /\ \/ result = "error" /\ Abort
       \/ result = "ok" /\ fault # "none" /\ FailWith(fault)
       \/ result = "ok" /\ fault = "none" /\ ctx # "live" /\ FailWith(ctx)
       \/ result = "ok" /\ fault = "none" /\ ctx = "live" /\ Proceed("open")
    /\ UNCHANGED <<request, command, ctx, fault, loader, i, comparison>>

-----------------------------------------------------------------------------
(* Loading.                                                                *)

(* The directory is opened and its manifest validated.                     *)
OpenDump ==
    /\ pc = "open"
    /\ \/ ctx # "live" /\ FailWith(ctx) /\ UNCHANGED i
       \/ ctx = "live" /\ FailWith("invalid") /\ UNCHANGED i
       \/ ctx = "live" /\ Proceed("load") /\ i' = 1
    /\ UNCHANGED <<request, command, ctx, fault, loader, comparison>>

(* Mutant of Remaining: the new dump has the whole budget again.           *)
RemainingOfSide == Budget - kept[side]

Remaining == Budget - kept["old"] - kept["new"]

(* What a selected file of this length meets with: nothing is left of the  *)
(* budget, what is left is less than a file may have, or a file may have   *)
(* all it is allowed.                                                      *)
Verdict(size) ==
    CASE Remaining = 0 -> "tooLarge"
      [] Remaining # 0 /\ Remaining < MaxResource /\ size > Remaining -> "tooLarge"
      [] Remaining >= MaxResource /\ size > MaxResource -> "invalid"
      [] OTHER -> "ok"

(* A file of the budget, which is kept; one that is not selected, of which *)
(* only the number of records is checked; or a resource without a file.    *)
LoadFile ==
    /\ pc = "load"
    /\ i <= Count
    /\ LET file == FileOf(side, i)
           verdict == IF i \in selected THEN Verdict(Size(file))
                      ELSE IF Size(file) > MaxResource THEN "invalid" ELSE "ok"
       IN  \/ /\ file.status = "unlisted"
              /\ Proceed("load")
              /\ i' = i + 1
              /\ UNCHANGED kept
           \/ /\ file.status # "unlisted"
              /\ ctx # "live"
              /\ FailWith(ctx)
              /\ UNCHANGED <<i, kept>>
           \/ /\ file.status # "unlisted"
              /\ ctx = "live"
              /\ FailWith("invalid")
              /\ UNCHANGED <<i, kept>>
           \/ /\ file.status = "ok"
              /\ ctx = "live"
              /\ verdict # "ok"
              /\ FailWith(verdict)
              /\ UNCHANGED <<i, kept>>
           \/ /\ file.status = "error" \/ (file.status = "ok" /\ verdict = "ok")
              /\ ctx = "live"
              /\ Proceed("load")
              /\ i' = i + 1
              /\ kept' = IF i \in selected /\ file.status = "ok"
                         THEN [kept EXCEPT ![side] = @ + Size(file)]
                         ELSE kept
    /\ UNCHANGED <<request, command, ctx, fault, side, comparison>>

DumpLoaded ==
    /\ pc = "load"
    /\ i > Count
    /\ \/ side = "old" /\ side' = "new" /\ Proceed("open")
       \/ side = "new" /\ UNCHANGED side /\ Proceed("admit")
    /\ UNCHANGED <<request, command, ctx, fault, i, kept, comparison>>

(* Dumps of different redaction are never compared, partial ones only if   *)
(* the request allows them.                                                *)
Admit ==
    /\ pc = "admit"
    /\ LET mismatch == compared["old"].redaction # compared["new"].redaction
           refused == ~allowPartial /\ (Partial("old") \/ Partial("new"))
       IN  \/ ctx # "live" /\ FailWith(ctx)
           \/ ctx = "live" /\ mismatch /\ FailWith("redaction")
           \/ ctx = "live" /\ ~mismatch /\ refused /\ FailWith("partial")
           \/ ctx = "live" /\ ~mismatch /\ ~refused /\ Proceed("next")
    /\ i' = 1
    /\ UNCHANGED <<request, command, ctx, fault, loader, comparison>>

-----------------------------------------------------------------------------
(* Two lists of records.                                                   *)

(* Operational fields are looked at only if they are not to be ignored and *)
(* records are not told apart by their content.                            *)
View(r, record) ==
    IF ignoreOperational \/ compared.shape[r] = "hashed"
    THEN [record EXCEPT !.operational = "absent"]
    ELSE record

Views(s, r) == [n \in DOMAIN Records(s, r) |-> View(r, Records(s, r)[n])]

(* A field that is missing is as good as null.                             *)
Plain(record) == [field \in DOMAIN record |->
                     IF record[field] = "absent" THEN "null" ELSE record[field]]

Ids(list) == {list[n].id : n \in DOMAIN list}

(* Records that cannot be told apart, or more than one of a singleton.     *)
Ambiguous(r) ==
    \E s \in Sides :
        LET list == Records(s, r)
        IN  \/ compared.shape[r] = "singleton" /\ Len(list) > 1
            \/ /\ compared.shape[r] = "keyed"
               /\ ("absent" \in Ids(list) \/ Cardinality(Ids(list)) # Len(list))

(* Mutant of Surplus: one equal record on the other side is enough.        *)
SurplusOnce(list, other) ==
    {n \in DOMAIN list : \A m \in DOMAIN other : other[m] # list[n]}

(* The records of a list beyond those the other one has as well: of equal  *)
(* ones as many as are too many, the last ones.                            *)
Surplus(list, other) ==
    {n \in DOMAIN list :
        Cardinality({m \in 1..n : list[m] = list[n]})
            > Cardinality({m \in DOMAIN other : other[m] = list[n]})}

(* What makes two records the same one: its id, or that there is but one.  *)
SameRecord(r, u, v) == compared.shape[r] = "singleton" \/ u.id = v.id

Compare(r) ==
    LET old == Views("old", r)
        new == Views("new", r)
    IN  IF compared.shape[r] = "hashed"
        THEN [resource |-> r, failed |-> FALSE,
              removed |-> Surplus(old, new), added |-> Surplus(new, old), changed |-> {}]
        ELSE [resource |-> r, failed |-> FALSE,
              removed |-> {n \in DOMAIN old :
                              \A m \in DOMAIN new : ~SameRecord(r, old[n], new[m])},
              added |-> {m \in DOMAIN new :
                              \A n \in DOMAIN old : ~SameRecord(r, old[n], new[m])},
              changed |-> {p \in (DOMAIN old) \X (DOMAIN new) :
                              /\ SameRecord(r, old[p[1]], new[p[2]])
                              /\ Plain(old[p[1]]) # Plain(new[p[2]])}]

Weight(entry) ==
    Cardinality(entry.removed) + Cardinality(entry.added) + Cardinality(entry.changed)

NotCompared(r) ==
    [resource |-> r, failed |-> TRUE, removed |-> {}, added |-> {}, changed |-> {}]

-----------------------------------------------------------------------------
(* The comparison.                                                         *)

Failed(r) == "error" \in {Status("old", r), Status("new", r)}
OneSided(r) == (Status("old", r) = "unlisted") # (Status("new", r) = "unlisted")

(* The scope of both dumps is checked, and the progress told.              *)
NextResource ==
    /\ pc = "next"
    /\ i <= Count
    /\ \/ /\ i \notin selected
          /\ Proceed("next")
          /\ i' = i + 1
       \/ /\ i \in selected
          /\ \/ ctx # "live" /\ FailWith(ctx)
             \/ ctx = "live" /\ OneSided(i) /\ FailWith("scope")
             \/ ctx = "live" /\ ~OneSided(i) /\ Emit("progress", i) /\ pc' = "told" /\ UNCHANGED ret
          /\ UNCHANGED i
    /\ UNCHANGED <<request, command, ctx, fault, loader, comparison>>

(* Mutant of Entry: a resource that failed is compared as if it was empty. *)
EntryOfAll(r) == Compare(r)

Entry(r) == IF Failed(r) THEN NotCompared(r) ELSE Compare(r)

(* The report has an entry for a resource that failed, none for one that   *)
(* no dump has or that is empty in both.                                   *)
CompareResource ==
    /\ pc = "told"
    /\ Idle
    /\ \/ result = "error" /\ Abort /\ UNCHANGED <<i, comparison>>
       \/ result = "ok" /\ ctx # "live" /\ FailWith(ctx) /\ UNCHANGED <<i, comparison>>
       \/ /\ result = "ok" /\ ctx = "live"
          /\ ~Failed(i) /\ Ambiguous(i)
          /\ FailWith("invalid")
          /\ UNCHANGED <<i, comparison>>
       \/ /\ result = "ok" /\ ctx = "live"
          /\ Failed(i) \/ ~Ambiguous(i)
          /\ LET entry == Entry(i)
                 empty == Records("old", i) = <<>> /\ Records("new", i) = <<>> /\ ~entry.failed
             IN  /\ report' = IF empty THEN report ELSE Append(report, entry)
                 /\ drift' = drift + Weight(entry)
          /\ i' = i + 1
          /\ Proceed("next")
    /\ UNCHANGED <<request, command, ctx, fault, loader>>

Compared ==
    /\ pc = "next"
    /\ i > Count
    /\ Complete(0)
    /\ pc' = "completed"
    /\ UNCHANGED <<request, command, ctx, fault, loader, i, comparison, ret>>

(* The report is returned with the error if the sink refuses the event.    *)
Completed ==
    /\ pc = "completed"
    /\ Idle
    /\ ret' = IF result = "ok" THEN "ok" ELSE "sink"
    /\ pc' = "returned"
    /\ UNCHANGED <<stream, request, command, ctx, fault, loader, i, comparison>>

(* No report is returned with any other error.                             *)
Unwind ==
    /\ pc = "failed"
    /\ Idle
    /\ report' = <<>>
    /\ drift' = 0
    /\ pc' = "returned"
    /\ UNCHANGED <<stream, request, command, ctx, fault, loader, i, ret>>

-----------------------------------------------------------------------------
(* The command line, whose own sink takes every event.                     *)

ExitCode(kind) ==
    CASE kind \in {"internal", "canceled"} -> 1
      [] kind \in {"usage"} \cup Refusals -> 2
      [] kind = "deadline" -> 5

(* Mutant of Exit: everything reported counts as drift.                    *)
ExitOnReport ==
    /\ pc = "returned"
    /\ ret # "sink"
    /\ failOnDrift' \in BOOLEAN
    /\ exit' = IF ret # "ok" THEN ExitCode(ret)
               ELSE IF failOnDrift' /\ report # <<>> THEN 7 ELSE 0
    /\ pc' = "exited"
    /\ UNCHANGED <<stream, request, ctx, fault, loader, i, comparison, ret>>

(* The report is written, which may fail, and then --fail-on-drift counts. *)
Exit ==
    /\ pc = "returned"
    /\ ret # "sink"
    /\ failOnDrift' \in BOOLEAN
    /\ \/ ret # "ok" /\ exit' = ExitCode(ret)
       \/ ret = "ok" /\ exit' = 1
       \/ ret = "ok" /\ exit' = IF failOnDrift' /\ drift > 0 THEN 7 ELSE 0
    /\ pc' = "exited"
    /\ UNCHANGED <<stream, request, ctx, fault, loader, i, comparison, ret>>

-----------------------------------------------------------------------------
(* The environment.                                                        *)

Sink ==
    /\ SinkAccepts \/ SinkRejects
    /\ UNCHANGED <<request, command, ctx, pc, fault, loader, i, comparison, ret>>

EndContext ==
    /\ ctx = "live"
    /\ pc \notin {"returned", "exited"}
    /\ ctx' \in {"canceled", "deadline"}
    /\ UNCHANGED <<stream, request, command, pc, fault, loader, i, comparison, ret>>

Over ==
    /\ \/ pc = "exited"
       \/ pc = "returned" /\ ret = "sink"
    /\ UNCHANGED vars

Next ==
    \/ Prepare \/ Start \/ Started
    \/ OpenDump \/ LoadFile \/ DumpLoaded \/ Admit
    \/ NextResource \/ CompareResource \/ Compared \/ Completed \/ Unwind
    \/ Exit \/ Sink \/ EndContext \/ Over

Spec == Init /\ [][Next]_vars

-----------------------------------------------------------------------------
(* Properties.                                                             *)

Told == {delivered[n].kind : n \in DOMAIN delivered}
ReadBoth(r) == Status("old", r) = "ok" /\ Status("new", r) = "ok"

(* The records of one side as far as the comparison can tell them apart.   *)
Forms(s, r) ==
    [n \in DOMAIN Records(s, r) |->
        IF compared.shape[r] = "hashed" THEN Views(s, r)[n] ELSE Plain(Views(s, r)[n])]

(* Whether two parts of the lists are the same records, in whatever order. *)
SameRecords(r, old, new) ==
    \A form \in {Forms("old", r)[n] : n \in old} \cup {Forms("new", r)[n] : n \in new} :
        Cardinality({n \in old : Forms("old", r)[n] = form})
            = Cardinality({n \in new : Forms("new", r)[n] = form})

(* What is left of both files when what the entry names is taken out is    *)
(* the same records, and what it names differs.                            *)
Explains(entry) ==
    LET r == entry.resource
        old == Forms("old", r)
        new == Forms("new", r)
    IN  /\ SameRecords(r, DOMAIN old \ (entry.removed \cup {p[1] : p \in entry.changed}),
                          DOMAIN new \ (entry.added \cup {p[2] : p \in entry.changed}))
        /\ \A n \in entry.removed, m \in entry.added : old[n] # new[m]
        /\ \A p \in entry.changed : old[p[1]] # new[p[2]]

(* A report that is returned turns the old records of every resource both  *)
(* dumps have into the new ones, names nothing that is on both sides, and  *)
(* leaves out only what is empty; its summary is the sum of its entries    *)
(* (compareResource, CompareContext).                                      *)
ReportIsExact ==
    pc = "returned" /\ report # <<>> =>
        /\ \A n \in DOMAIN report : ~report[n].failed => Explains(report[n])
        /\ \A r \in selected : ReadBoth(r) /\ Records("old", r) \o Records("new", r) # <<>>
                                  => \E n \in DOMAIN report : report[n].resource = r
        /\ drift = SumFunction([n \in DOMAIN report |-> Weight(report[n])])

(* A resource whose collection failed in either dump is named, adds        *)
(* nothing to what was removed, added or changed, and is tolerated only if *)
(* the request allows partial dumps.                                       *)
FailedIsNotDrift ==
    "completed" \in Told =>
        \A r \in selected :
            Failed(r) =>
                /\ allowPartial
                /\ \E n \in DOMAIN report :
                      report[n].resource = r /\ report[n].failed /\ Weight(report[n]) = 0

Bytes(files) == SumFunction([f \in files |-> Size(FileOf(f[1], f[2]))])

(* One budget bounds what is kept of both dumps together, the selected     *)
(* files and no others, and it refuses only dumps that exceed it.          *)
BudgetIsShared ==
    LET files == {f \in Sides \X selected : Status(f[1], f[2]) = "ok"}
    IN  /\ kept["old"] + kept["new"] <= Budget
        /\ ret = "tooLarge" => Bytes(files) > Budget
        /\ pc \in {"next", "told", "completed"} => kept["old"] + kept["new"] = Bytes(files)

(* Whatever fails, the consumer is told before Diff returns, and of what   *)
(* the caller is told; only a completed comparison returns a report, and   *)
(* it was told of every selected resource, in order.  With --fail-on-drift *)
(* the exit code is 7 if and only if a resource that both dumps hold       *)
(* differs, and 0 says that none does.                                     *)
OutcomeAgrees ==
    /\ pc = "returned" /\ sink =>
        /\ Ended
        /\ LET last == delivered[Len(delivered)].kind
               told == {delivered[n].of : n \in {m \in DOMAIN delivered : delivered[m].kind = "progress"}}
           IN  /\ ret = "canceled" <=> last = "canceled"
               /\ ret = "ok" => last = "completed"
               /\ last = "completed" => ret \in {"ok", "sink"} /\ told = selected
               /\ report # <<>> => last = "completed"
    /\ pc = "exited" /\ failOnDrift /\ exit \in {0, 7} =>
        (exit = 0) = (\A r \in selected : ReadBoth(r) =>
                         SameRecords(r, DOMAIN Records("old", r), DOMAIN Records("new", r)))

=============================================================================
