------------------------------ MODULE ReadCommand ------------------------------
(***************************************************************************)
(* One resource read, a list, the one record of an identity, or the only   *)
(* record there is, from the request to what is left of it (internal/cli   *)
(* app.go App.Run and runProductWithRuntime, internal/runtime runtime.go,  *)
(* internal/machine executor.go, cmd/zscalerctl main.go).                  *)
(*                                                                         *)
(* It is asked for on the command line, where the answer goes to standard  *)
(* output or to a file, or by a library host, which takes the events with  *)
(* a sink of its own.  The command line may ask a saved dump instead of    *)
(* the service (internal/cli snapshot.go).  Beside it the context ends,    *)
(* secret providers and the service fail, another run writes the same      *)
(* file, and the process is killed or the machine loses power.             *)
(***************************************************************************)
EXTENDS EventStream, Projection, FiniteSets

CONSTANTS
    Record,      \* records of the service and of dumps, whatever they hold
    Lists,       \* what the service may list
    Requests

(* What may be wrong with a request, and the error that tells of it:       *)
(* malformed, a field or a resource the catalog does not have, a filter on *)
(* a field the redaction mode hides, a configuration that cannot be read,  *)
(* a profile with a redaction mode that does not exist, settings that      *)
(* cannot be used, credentials or a proxy incomplete.                      *)
KindOf == [usage |-> "usage", field |-> "usage", hidden |-> "usage",
           resource |-> "not_found", config |-> "invalid_config", profile |-> "internal",
           settings |-> "invalid_config", incomplete |-> "missing_credentials",
           proxy |-> "invalid_proxy_config"]

Flaws == DOMAIN KindOf

Page == [offset : Nat, limit : Nat \ {0}]
Filter == [path : Seq(STRING), texts : SUBSET (Text \cup {""})]
Narrow == [fields : SUBSET Seq(STRING), filters : SUBSET Filter, search : SUBSET Text]

(* A saved dump: its redaction mode, whether it is complete, whether the   *)
(* resource is in it, and its records then.                                *)
Dump == [mode : Mode, whole : BOOLEAN, listed : BOOLEAN, records : Seq(Record)]

ASSUME ReadAssumption ==
    /\ \A r \in Record : IsRecord(r)
    /\ 0 \in Subject                         \* not about a record
    /\ \A list \in Lists : list \in Seq(Record) /\ 0..Len(list) \subseteq Subject
    /\ \A r \in Requests :
          /\ r.host \in {"cli", "library"}
          /\ r.op \in {"list", "get", "show"}
          /\ r.id \in Text \ {""}           \* the record to get
          /\ r.flaws \subseteq Flaws \ {"field", "hidden"}
          /\ r.refs \in Nat                  \* secrets kept with a provider
          /\ r.mode \in Mode \cup {None}     \* the mode asked for
          /\ r.dump \in Dump \cup {None}     \* --from-dump
          /\ r.dump = None => r.mode # None
          /\ r.dump # None => r.host = "cli" /\ 0..Len(r.dump.records) \subseteq Subject
          /\ r.narrow \in Narrow
          /\ r.page \in Page \cup {None}
          /\ r.output \in BOOLEAN            \* --output
    /\ None \notin 0..5

(* internal/cli/errors.go and main.go exitCodeForError.                    *)
ExitCode == [none |-> 0, internal |-> 1, canceled |-> 1, sink |-> 1, usage |-> 2,
             invalid_config |-> 2, invalid_proxy_config |-> 2, missing_credentials |-> 3,
             invalid_resource_id |-> 2,
             not_found |-> 4, unsupported_operation |-> 4, unsupported_resource |-> 4,
             live_access_failed |-> 5, deadline |-> 5]

VARIABLES
    request,
    ctx,          \* "live", or how the context ended
    pc,
    error,
    asked,        \* providers asked for a secret
    contacted,    \* whether the service was
    loaded,       \* what it, or the dump, listed
    records,      \* those the filters match, by their positions
    sent,         \* records emitted
    notices,      \* whether a notice is held back
    stdout, stderr, exit,
    file,         \* the destination of --output
    temp, safe    \* the temporary file, and whether its data is on disk

answer == <<contacted, loaded, records, sent>>
terminals == <<notices, stdout, stderr, exit>>
disk == <<file, temp, safe>>
vars == <<stream, request, ctx, pc, error, asked, answer, terminals, disk>>

TypeOK ==
    /\ StreamTypeOK
    /\ request \in Requests
    /\ ctx \in {"live", "canceled", "deadline"}
    /\ pc \in {"check", "open", "settings", "resolve", "asking", "reader", "read", "started", "load",
               "loading", "record", "failed", "completed", "answered", "inspect", "create",
               "fill", "sync", "rename", "report", "over", "killed", "dark"}
    /\ error \in DOMAIN ExitCode
    /\ asked \in 0..request.refs
    /\ contacted \in BOOLEAN
    /\ loaded \in Seq(Record)
    /\ records \in Seq(DOMAIN loaded)
    /\ sent \in 0..Len(records)
    /\ notices \in BOOLEAN
    /\ stdout \in {"none", "part", "whole"}
    /\ stderr \subseteq {"notices", "error"}
    /\ exit \in 0..5 \cup {None}
    /\ file \in {"before", "mine", "theirs", "torn"}
    /\ temp \in {"none", "part", "whole"}
    /\ safe \in BOOLEAN

Cli == request.host = "cli"
FromDump == request.dump # None

(* A dump is read in its own mode.                                         *)
ModeOf == IF FromDump THEN request.dump.mode ELSE request.mode

(* Rows are narrowed and paged only in lists.                              *)
RowsNarrowed == request.narrow.filters # {} \/ request.narrow.search # {} \/ request.page # None

(* All that is wrong with a request.                                       *)
Wrong ==
    request.flaws
    \cup (IF request.op # "list" /\ RowsNarrowed THEN {"usage"} ELSE {})
    \cup (IF UnknownField(request.narrow) THEN {"field"} ELSE {})
    \cup (IF HiddenFilter(request.narrow, ModeOf) THEN {"hidden"} ELSE {})

Init ==
    /\ StreamInit
    /\ request \in Requests
    /\ Cli => sink
    /\ ctx = "live"
    /\ pc = "check"
    /\ error = "none"
    /\ asked = 0
    /\ contacted = FALSE
    /\ loaded = <<>>
    /\ records = <<>>
    /\ sent = 0
    /\ notices = FALSE
    /\ stdout = "none"
    /\ stderr = {}
    /\ exit = None
    /\ file = "before"
    /\ temp = "none"
    /\ safe = FALSE

-----------------------------------------------------------------------------
(* Until there is a reader.                                                *)

(* What is checked, in its order: by the command line against the catalog, *)
(* by the runtime before it resolves a secret and when it makes the        *)
(* reader, and by the executor, which knows the redaction mode.            *)
ConfigChecks == <<"config", "profile">>
CommandChecks == <<"usage", "field", "config", "profile", "resource">>
DumpChecks == <<"usage", "resource", "field">>
RuntimeChecks == <<"settings", "incomplete">>
ReaderChecks == <<"proxy">>
RequestChecks == <<"usage", "resource", "field", "hidden">>

Passed(checks) == \A n \in DOMAIN checks : checks[n] \notin Wrong

(* The first one that finds something tells of it.                         *)
Found(checks, f) ==
    \E n \in DOMAIN checks :
        /\ checks[n] = f
        /\ f \in Wrong
        /\ \A m \in 1..(n - 1) : checks[m] \notin Wrong

Refuse(kind) == error' = kind /\ pc' = "report"
Go(step) == pc' = step /\ UNCHANGED error

(* The command line checks a request against the catalog before and after  *)
(* it loads the configuration, which a read from a dump never does; a      *)
(* library host has it loaded at once.                                     *)
Check ==
    /\ pc = "check"
    /\ LET checks == IF ~Cli THEN ConfigChecks ELSE IF FromDump THEN DumpChecks ELSE CommandChecks
       IN  \/ \E f \in Flaws : Found(checks, f) /\ Refuse(KindOf[f])
           \/ Passed(checks) /\ Go(IF FromDump THEN "open" ELSE "settings")
    /\ UNCHANGED <<stream, request, ctx, asked, answer, terminals, disk>>

(* LoadCollection: a dump may be unreadable or invalid in many ways; if it *)
(* is not, it must be complete, hold nothing but what its mode renders,    *)
(* one record at most where there can be only one, and be of the mode      *)
(* asked for.                                                              *)
OpenDump ==
    /\ pc = "open"
    /\ \/ ctx # "live" /\ Refuse(ctx)
       \/ ctx = "live" /\ Refuse("usage")
       \/ /\ ctx = "live"
          /\ request.dump.whole
          /\ CollectionAdmitted(request.dump.records, request.dump.mode)
          /\ request.op = "show" => Len(request.dump.records) <= 1
          /\ request.mode \in {None, request.dump.mode}
          /\ Go("read")
    /\ notices' \in BOOLEAN
    /\ UNCHANGED <<stream, request, ctx, asked, answer, stdout, stderr, exit, disk>>

(* Mutant of RuntimeFails: the context is not looked at.                   *)
RuntimeFailsAsSaid(kind) == Refuse(kind)

(* No runtime can be had.  If the context has ended by then, the command   *)
(* line reports that and not what came of it.                              *)
RuntimeFails(kind) == Refuse(IF Cli /\ ctx # "live" THEN ctx ELSE kind)

(* An operator notice may be due, then what needs no secret is checked.    *)
Settings ==
    /\ pc = "settings"
    /\ notices' \in BOOLEAN
    /\ \/ \E f \in Flaws : Found(RuntimeChecks, f) /\ RuntimeFails(KindOf[f])
       \/ Passed(RuntimeChecks) /\ Go("resolve")
    /\ UNCHANGED <<stream, request, ctx, asked, answer, stdout, stderr, exit, disk>>

(* The context is looked at before a provider is asked.                    *)
Resolve ==
    /\ pc = "resolve"
    /\ \/ asked = request.refs /\ Go("reader") /\ UNCHANGED asked
       \/ asked < request.refs /\ ctx # "live" /\ RuntimeFails(ctx) /\ UNCHANGED asked
       \/ asked < request.refs /\ ctx = "live" /\ asked' = asked + 1 /\ Go("asking")
    /\ UNCHANGED <<stream, request, ctx, answer, terminals, disk>>

(* A provider answers or not.  A command stopped by the context says so;   *)
(* a keyring only says that it failed.                                     *)
Provided ==
    /\ pc = "asking"
    /\ \/ Go("resolve")
       \/ RuntimeFails("missing_credentials")
       \/ ctx # "live" /\ RuntimeFails(ctx)
    /\ UNCHANGED <<stream, request, ctx, asked, answer, terminals, disk>>

(* The proxy settings are checked when the reader is made, and whether the *)
(* secrets are empty.                                                      *)
NewReader ==
    /\ pc = "reader"
    /\ \/ \E f \in Flaws : Found(ReaderChecks, f) /\ RuntimeFails(KindOf[f])
       \/ Passed(ReaderChecks) /\ asked > 0 /\ RuntimeFails("missing_credentials")
       \/ Passed(ReaderChecks) /\ Go("read")
    /\ UNCHANGED <<stream, request, ctx, asked, answer, terminals, disk>>

-----------------------------------------------------------------------------
(* The executor.                                                           *)

Read ==
    /\ pc = "read"
    /\ StartEventStream(0)
    /\ Go("started")
    /\ UNCHANGED <<request, ctx, asked, answer, terminals, disk>>

FailWith(kind) ==
    /\ Fail(IF kind = "canceled" THEN "canceled" ELSE "failed", 0)
    /\ error' = kind
    /\ pc' = "failed"

(* The sink refused an event, or there is none.                            *)
Abort == error' = "sink" /\ pc' = "answered" /\ UNCHANGED stream

(* The request is checked again, with the redaction mode.                  *)
Narrowing ==
    /\ pc = "started"
    /\ Idle
    /\ \/ result = "error" /\ Abort
       \/ result = "ok" /\ \E f \in Flaws : Found(RequestChecks, f) /\ FailWith(KindOf[f])
       \/ result = "ok" /\ Passed(RequestChecks) /\ Go("load") /\ UNCHANGED stream
    /\ UNCHANGED <<request, ctx, asked, answer, terminals, disk>>

Load ==
    /\ pc = "load"
    /\ IF FromDump THEN UNCHANGED contacted ELSE contacted' = TRUE
    /\ Go("loading")
    /\ UNCHANGED <<stream, request, ctx, asked, loaded, records, sent, terminals, disk>>

(* How a read may fail: after the end of the context only with that, but   *)
(* for what a product still lacks to be set up, a product that the cloud   *)
(* does not serve, an id that cannot be one, and a list that was looked    *)
(* through for a record and does not have it.                              *)
Failures ==
    {"missing_credentials", "unsupported_resource"}
    \cup (IF ctx = "live" THEN {"live_access_failed", "deadline", "not_found"} ELSE {ctx})
    \cup (IF request.op = "get" THEN {"invalid_resource_id", "not_found"} ELSE {})

(* Mutant of Requested: any record will do.                                *)
RequestedOrNot(r) == TRUE

(* isRequestedRecord: the service may answer with another one, or an empty *)
(* one; that is a failure like any other.                                  *)
Requested(r) == Identity(r) = request.id

(* What projection leaves of a record, and narrowing of that.              *)
View(r) == IF FromDump THEN r ELSE Project(r, ModeOf)
Answer(n) == Narrowed(View(loaded[n]), request.narrow, ModeOf)

Matched(list) == FilterRecords([n \in DOMAIN list |-> View(list[n])], request.narrow)

(* All records are read, projected and narrowed before the first is        *)
(* emitted; nothing looks at the context once they are.  One that cannot   *)
(* be projected fails the read.                                            *)
FromService ==
    \/ /\ \E kind \in Failures : FailWith(kind)
       /\ UNCHANGED loaded
    \/ \E list \in Lists :
          /\ request.op # "list" => Len(list) = 1
          /\ request.op = "get" => Requested(list[1])
          /\ \/ /\ ~Fit(list, ModeOf)
                /\ FailWith("live_access_failed")
                /\ UNCHANGED loaded
             \/ /\ Fit(list, ModeOf)
                /\ loaded' = list
                /\ Go("record")
                /\ UNCHANGED stream

(* Mutant of GetKeyRenders: a record whose identity the mode hides is said *)
(* not to be there.                                                        *)
GetKeyNotAsked == TRUE

(* A record can be found by a key that can be seen.                        *)
GetKeyRenders == RenderedIn(<<GetKey>>, ModeOf)

(* Collection.GetProjectedByID: the first record of the identity.          *)
GetFromCollection ==
    LET saved == request.dump.records
    IN  \/ /\ ~GetKeyRenders
           /\ FailWith("unsupported_operation")
           /\ UNCHANGED loaded
        \/ /\ GetKeyRenders
           /\ \A n \in DOMAIN saved : Identity(saved[n]) # request.id
           /\ FailWith("not_found")
           /\ UNCHANGED loaded
        \/ /\ GetKeyRenders
           /\ \E n \in DOMAIN saved :
                 /\ Identity(saved[n]) = request.id
                 /\ \A m \in 1..n - 1 : Identity(saved[m]) # request.id
                 /\ loaded' = <<saved[n]>>
           /\ Go("record")
           /\ UNCHANGED stream

(* A saved dump is held in memory, and projected already.                  *)
FromCollection ==
    \/ /\ ctx # "live"
       /\ FailWith(ctx)
       /\ UNCHANGED loaded
    \/ /\ ctx = "live" /\ ~request.dump.listed
       /\ FailWith("not_found")
       /\ UNCHANGED loaded
    \/ /\ ctx = "live" /\ request.dump.listed /\ request.op # "get"
       /\ loaded' = request.dump.records
       /\ Go("record")
       /\ UNCHANGED stream
    \/ /\ ctx = "live" /\ request.dump.listed /\ request.op = "get"
       /\ GetFromCollection

Loaded ==
    /\ pc = "loading"
    /\ IF FromDump THEN FromCollection ELSE FromService
    /\ records' = Matched(loaded')
    /\ UNCHANGED <<request, ctx, asked, contacted, sent, terminals, disk>>

(* One record event after the other, then the completed one.               *)
Emitting ==
    /\ pc = "record"
    /\ Idle
    /\ \/ result = "error" /\ Abort /\ UNCHANGED sent
       \/ /\ result = "ok" /\ sent < Len(records)
          /\ Emit("record", sent + 1)
          /\ sent' = sent + 1
          /\ UNCHANGED <<pc, error>>
       \/ result = "ok" /\ sent = Len(records) /\ Complete(0) /\ Go("completed") /\ UNCHANGED sent
    /\ UNCHANGED <<request, ctx, asked, contacted, loaded, records, terminals, disk>>

(* The stream has ended; its error takes the place of another.             *)
Ending ==
    /\ pc \in {"failed", "completed"}
    /\ Idle
    /\ error' = IF result = "ok" THEN error ELSE "sink"
    /\ pc' = "answered"
    /\ UNCHANGED <<stream, request, ctx, asked, answer, terminals, disk>>

(* Executor.Read, the sink of the command line, counts the records and     *)
(* refuses a completion that does not have as many.                        *)
Counted == delivering.kind = "completed" => sent = Len(records)

Alive == pc \notin {"over", "killed", "dark"}

Sink ==
    /\ Alive
    /\ \/ SinkAccepts /\ (Cli => Counted)
       \/ SinkRejects /\ (Cli => ~Counted)
    /\ UNCHANGED <<request, ctx, pc, error, asked, answer, terminals, disk>>

-----------------------------------------------------------------------------
(* The answer.                                                             *)

(* newListPage: the window of the narrowed records that was asked for.     *)
Shown ==
    LET start == IF request.page.offset < Len(records) THEN request.page.offset ELSE Len(records)
        remaining == Len(records) - start
        size == IF request.page.limit < remaining THEN request.page.limit ELSE remaining
    IN  IF request.page = None THEN records ELSE SubSeq(records, start + 1, start + size)

(* One record is shown as one, and a dump may have none.                   *)
CanBeShown == request.op = "list" \/ Len(records) = 1

(* Nothing is rendered of a read that failed.  With --output the text is   *)
(* held until it is whole; without, a write that fails may have got some   *)
(* of it out.  A library host is done.                                     *)
Render ==
    /\ pc = "answered"
    /\ \/ (error # "none" \/ ~Cli) /\ Go("report") /\ UNCHANGED stdout
       \/ /\ error = "none" /\ Cli
          /\ \/ /\ Refuse("internal")
                /\ stdout' \in {"none"} \cup (IF CanBeShown /\ ~request.output THEN {"part"} ELSE {})
             \/ CanBeShown /\ request.output /\ Go("inspect") /\ UNCHANGED stdout
             \/ CanBeShown /\ ~request.output /\ stdout' = "whole" /\ Go("report")
    /\ UNCHANGED <<stream, request, ctx, asked, answer, notices, stderr, exit, disk>>

(* writeOutputFile: the destination must be a regular file or absent.      *)
Inspect ==
    /\ pc = "inspect"
    /\ Go("create") \/ Refuse("usage")
    /\ UNCHANGED <<stream, request, ctx, asked, answer, terminals, disk>>

Create ==
    /\ pc = "create"
    /\ \/ Go("fill") /\ temp' = "part"
       \/ Refuse("usage") /\ UNCHANGED temp
    /\ UNCHANGED <<stream, request, ctx, asked, answer, terminals, file, safe>>

(* A temporary file is removed after a failure, if it can be.              *)
Discard == Refuse("internal") /\ temp' \in {"none", temp}

Fill ==
    /\ pc = "fill"
    /\ \/ Go("sync") /\ temp' = "whole"
       \/ Discard
    /\ UNCHANGED <<stream, request, ctx, asked, answer, terminals, file, safe>>

(* Mutant of Sync: the data is left to the operating system.               *)
SyncNothing ==
    /\ pc = "sync"
    /\ Go("rename")
    /\ UNCHANGED <<stream, request, ctx, asked, answer, terminals, disk>>

Sync ==
    /\ pc = "sync"
    /\ \/ Go("rename") /\ safe' = TRUE /\ UNCHANGED temp
       \/ Discard /\ UNCHANGED safe
    /\ UNCHANGED <<stream, request, ctx, asked, answer, terminals, file>>

Rename ==
    /\ pc = "rename"
    /\ \/ Go("report") /\ file' = "mine" /\ temp' = "none"
       \/ Discard /\ UNCHANGED file
    /\ UNCHANGED <<stream, request, ctx, asked, answer, terminals, safe>>

(* Notices are written if the whole run succeeded, else the one error.     *)
Report ==
    /\ pc = "report"
    /\ pc' = "over"
    /\ IF Cli
       THEN /\ exit' = ExitCode[error]
            /\ stderr' = IF error # "none" THEN {"error"} ELSE IF notices THEN {"notices"} ELSE {}
       ELSE UNCHANGED <<exit, stderr>>
    /\ UNCHANGED <<stream, request, ctx, error, asked, answer, notices, stdout, disk>>

-----------------------------------------------------------------------------
(* The environment.                                                        *)

EndContext ==
    /\ Alive
    /\ ctx = "live"
    /\ ctx' \in {"canceled", "deadline"}
    /\ UNCHANGED <<stream, request, pc, error, asked, answer, terminals, disk>>

(* Another run with the same --output.                                     *)
OtherRun ==
    /\ request.output
    /\ pc # "dark"
    /\ file' = "theirs"
    /\ UNCHANGED <<stream, request, ctx, pc, error, asked, answer, terminals, temp, safe>>

Kill ==
    /\ Alive
    /\ pc' = "killed"
    /\ UNCHANGED <<stream, request, ctx, error, asked, answer, terminals, disk>>

(* The directory is not synced: the rename may be lost as well, and its    *)
(* data is there only if it was synced before.                             *)
PowerLoss ==
    /\ request.output
    /\ pc # "dark"
    /\ pc' = "dark"
    /\ file' \in {IF file = "mine" /\ ~safe THEN "torn" ELSE file, "before"}
    /\ UNCHANGED <<stream, request, ctx, error, asked, answer, terminals, temp, safe>>

Stopped == ~Alive /\ UNCHANGED vars

Next ==
    \/ Check \/ OpenDump \/ Settings \/ Resolve \/ Provided \/ NewReader
    \/ Read \/ Narrowing \/ Load \/ Loaded \/ Emitting \/ Ending \/ Sink
    \/ Render \/ Inspect \/ Create \/ Fill \/ Sync \/ Rename \/ Report
    \/ EndContext \/ OtherRun \/ Kill \/ PowerLoss \/ Stopped

Spec == Init /\ [][Next]_vars

-----------------------------------------------------------------------------
(* What a caller may rely on.                                              *)

Matching == {n \in DOMAIN loaded : Matches(View(loaded[n]), request.narrow)}

(* The records an answer must hold: those that were listed and the filters *)
(* match, in their order, the page of them that was asked for.             *)
IsAnswer(s) ==
    LET Rank(n) == Cardinality({m \in Matching : m <= n})
        page == IF request.page = None THEN [offset |-> 0, limit |-> Len(loaded)] ELSE request.page
        paged == {n \in Matching : page.offset < Rank(n) /\ Rank(n) <= page.offset + page.limit}
    IN  /\ Len(s) = Cardinality(paged)
        /\ \A n \in paged : s[Rank(n) - page.offset] = n

Completed == delivered # <<>> /\ delivered[Len(delivered)].kind = "completed"

(* Exit code 0 means that the file was renamed, or all of the answer       *)
(* written to standard output; any other that neither was and that the     *)
(* error is all there is on standard error.                                *)
ExitTells ==
    /\ exit = 0 =>
          /\ IF request.output THEN file # "before" \/ pc = "dark" ELSE stdout = "whole"
          /\ stderr \subseteq {"notices"}
    /\ exit \notin {0, None} => file # "mine" /\ stdout # "whole" /\ stderr = {"error"}

(* The record that was asked for is the one that is answered; and it is    *)
(* said not to be in a dump only if it can be seen that it is not.         *)
OneIsTold ==
    /\ Completed /\ request.op = "get" =>
          /\ Len(loaded) = 1
          /\ Identity(loaded[1]) = request.id
    /\ file = "mine" \/ stdout = "whole" => request.op = "list" \/ Len(Shown) = 1
    /\ FromDump /\ Wrong = {} /\ error = "not_found" /\ request.dump.listed =>
          /\ request.op = "get"
          /\ RenderedIn(<<GetKey>>, ModeOf)
          /\ \A n \in DOMAIN request.dump.records : Identity(request.dump.records[n]) # request.id

(* A caller has the whole answer or an error, never a piece that passes    *)
(* for the whole: the exit code tells which, and the file is at every      *)
(* moment, power losses included, an old or a whole new one.  A host that  *)
(* is told of a completed read was given every record, and one who asked   *)
(* for a record that one or the truth about it (Executor.Read, App.Run,    *)
(* writeOutputFile, getResource, Collection.GetProjectedByID).             *)
AnswerOrError ==
    /\ ExitTells
    /\ OneIsTold
    /\ file # "torn"
    /\ file = "mine" \/ stdout = "whole" => Completed /\ IsAnswer(Shown)
    /\ Completed /\ pc \in {"completed", "answered", "report", "over"} =>
          /\ Len(delivered) = Cardinality(Matching) + 2
          /\ \A n \in 1..Len(delivered) - 2 : delivered[n + 1] = [kind |-> "record", of |-> n]

(* The field and those around it are reviewed for the mode.                *)
Reviewed(path) ==
    \A n \in DOMAIN path :
        \E p \in DOMAIN Fields :
            p = UpTo(path, n) /\ ModeOf \in Fields[p].modes /\ Fields[p].class # "secret"

(* Whatever the service lists and whatever a saved dump holds, what can be *)
(* emitted has only reviewed fields, scanned texts, and values that JSON   *)
(* has; with --fields only what was asked for; and a filter on a field     *)
(* that is not rendered is never answered (projectRecordCore,              *)
(* admitRecords, Select, ValidateNarrowOptionsInMode).                     *)
OnlyReviewedLeaves ==
    pc = "record" =>
        /\ \A n \in DOMAIN loaded :
              LET answered == Answer(n)
              IN  \A address \in DOMAIN answered :
                    LET leaf == answered[address]
                        path == Path(address)
                    IN  /\ Reviewed(path)
                        /\ leaf \in Text \cup {"null", "list", "object"}
                        /\ leaf \in Text => Scanned(path, ModeOf, leaf) = leaf
                        /\ request.narrow.fields # {} =>
                              \E p \in request.narrow.fields : Begins(p, path) \/ Begins(path, p)
        /\ \A f \in request.narrow.filters : Reviewed(f.path)

(* What a live read projects can be saved and read again: a dump of it is  *)
(* admitted, and read as it is, unless two records have one identity       *)
(* (admitRecords, NewSourceRecordFromProjected, validateLoadedRecords).    *)
SavedCanBeRead ==
    pc = "record" /\ ~FromDump =>
        LET saved == ProjectRecords(loaded, ModeOf)
        IN  Distinct(saved) => CollectionAdmitted(saved, ModeOf)

(* Secrets and the tenant are asked for only what could still succeed, and *)
(* never when a saved dump is read: a provider only if all that the        *)
(* command line, or the host's runtime, checks without secrets is in       *)
(* order, the service only if nothing is wrong at all; and a provider that *)
(* fails is blamed by the command line only while the context is live      *)
(* (readerConfigFromConfig, runProductWithRuntime, savedDumpRuntime,       *)
(* validateRequestNarrowing).                                              *)
NothingInVain ==
    [][/\ asked' # asked \/ contacted' # contacted => ~FromDump
       /\ asked' # asked => Wrong \cap
             ({"config", "profile", "settings", "incomplete"} \cup
              IF Cli THEN {"usage", "field", "resource"} ELSE {}) = {}
       /\ contacted' # contacted => Wrong = {}
       /\ pc = "asking" /\ error' = "missing_credentials" => ctx = "live" \/ ~Cli]_vars

=============================================================================
