# A verification development for zscalerctl

`zscalerctl` is a read-only command line for Zscaler tenants.  It never changes
a tenant; what can go wrong is that it shows or stores something that is not
what the tenant held: half a dump under the name of a whole one, a list with
records missing, a report that says "completed" for an operation that failed,
a directory deleted that was not its own.  The modules here model the parts of
the program where such faults could hide in orders of events that a unit test
hardly reaches, TLC checks them on small instances, and TLAPS proves the most
important results for every value of the constants.

1. [Inventory of the system](#1-inventory-of-the-system)
2. [The modules and the code](#2-the-modules-and-the-code)
3. [What the runs check](#3-what-the-runs-check)
4. [What is proved](#4-what-is-proved)
5. [What only TLC checks](#5-what-only-tlc-checks)
6. [Disagreements between documents and the code](#6-disagreements-between-documents-and-the-code)
7. [Limits of the code that the models show](#7-limits-of-the-code-that-the-models-show)
8. [Limits of the models](#8-limits-of-the-models)
9. [Plan](#9-plan)
10. [Running](#10-running)

## 1. Inventory of the system

The program is sequential Go with one exception, the ticker of the progress
spinner.  Its concurrency is with what is outside: a context that ends at any
time (Ctrl-C, a deadline), a process that is killed, other runs of the program
on the same directory, other programs of the same account, a tenant that
administrators change during a read, and a service that answers as it likes.

A command goes through the parts in this order:

    cmd/zscalerctl -> cli -> config, secretref, keyring, credentials
                       |
                       +-> runtime (Engine) -> machine (EventStream, Executor)
                       |       |                    |
                       |       |                    +-> sink: the CLI's progress and NDJSON
                       |       +-> browser, resources (catalog, projection), redact
                       |       |       |
                       |       |       +-> zscaler (SDKReader, sessions, page walkers)
                       |       +-> dump (artifact files, publication)
                       |       +-> diff (two saved dumps)
                       +-> output (spinner, tables, JSON)

| Part | State it keeps | Operations | Hard behaviour | What makes it correct | Here |
|---|---|---|---|---|---|
| **Dump publication** `internal/dump/dump.go`, `force.go`, `rename_*.go`, `internal/effectcommit` | directories under the destination, staging, cleanup and discard names, the identities it noted of them | stage, validate, rename without replacing, inspect, exchange, verify, quarantine, clear, roll back, discard | killed or canceled between any two system calls; several publishers; another program moving the directories; every call may fail | the destination switches at once or not at all; nothing but its own staging and a replaced complete dump is deleted; the error tells what is at the destination | modelled |
| **Dump artifact files** `internal/dump/dump.go`, `artifact.go` | the files of one dump, temporary files | write, sync and rename each file, manifest last; validate or load a directory; clear it | a stop between two files; power loss; a reader of a directory that is being cleared | a manifest is evidence of a whole dump; what a reader accepts it has read whole | modelled |
| **Event stream** `internal/machine/events.go` | started and terminal flags | start, progress, record, warning, complete, fail, cancel | a sink that fails or panics on any event, the terminal one included; a producer that goes on after an error | one started event first, at most one terminal event last, an error always ends the stream | modelled |
| **Dump operation** `internal/runtime/dump_engine.go`, `dump.go`, `selection.go` | resources read and failed, counters, sessions per product | collect through the stream, publish, complete | the context ends, the service fails, the sink refuses, at any point | fail closed; report, returned error and artifact agree; sessions are closed | modelled |
| **Page walkers** `internal/zscaler/reader_*.go` | the pages read so far, totals, cursors, fingerprints of pages | ask for the next page, accept it, refuse the list, probe, stop | the tenant changes between requests; the service clamps, ignores or caps pages or lies about totals | a list returned as complete is complete, or there is an error | partly modelled |
| **Machine executor** `internal/machine/executor.go`, `types.go`, `engine_*.go` | the response being put together | execute one request, streamed or one-shot | the stream fails after some records | a response without an error is whole | in `ReadCommand` |
| **Runtime adapters** `internal/runtime/engine.go`, `diff_engine.go`, `status.go`, ... | none | read, diff, status, URL lookup, audit-log status | order of checks, error translation | nothing is asked of anyone for a request that must fail; an error keeps its kind | read in `ReadCommand`, credential status in `Configuration`, diff in `DumpDiff` |
| **Dump comparison** `internal/diff` | records of two dumps, bytes still allowed | load within a byte budget, compare by identity or content | partial dumps, duplicate identities, the exact end of the budget | the report is the difference; what was not collected is not reported as removed | `DumpDiff`; admission in `Projection` |
| **Path and permission rules** `internal/fileperm`, `internal/dump/parent_*.go`, `root_*.go` | none | check owner, mode and access lists of a directory and its ancestors | platform rules | a parent others can write to is refused | a step that may refuse |
| **Sessions and handlers** `internal/zscaler/reader.go`, `reader_zia.go` | one SDK client per read or session | open, list, get, show, search, close once | the SDK repeats requests and signs in again; failures at any of several requests; double close | a service is given back once by whoever acquired it; a record is called missing only if it is | `LiveAccess`; which sessions a dump opens is in `DumpEngine` |
| **Failure classification** `internal/zscaler/failure.go`, `sign_in.go`, `sdklog.go` | the last failed sign-in | classify, remember | the SDK flattens errors to text | reason, status and retryable tell what happened | `LiveAccess` |
| **Spinner** `internal/output/spinner.go` | text, started, stopped, width of the line | start, update, tick, stop | a ticker goroutine beside its callers | no frame after the line was cleared; Stop waits for the goroutine | modelled |
| **Rendering** `internal/output`, `internal/cli/render_*.go` | none | tables, JSON, NDJSON | none | layout | not modelled |
| **Redaction** `internal/redact` | none | recognise and replace secrets in text | matters of characters | no secret passes; a second scan changes nothing | a constant of `Projection` |
| **Catalog and projection** `internal/resources` | a static table | project a record to its reviewed fields, verify, filter and select, admit saved records, find and check references | fields inside fields, each with modes of its own; values of any type and shape; a dump written or edited by others | only reviewed fields remain, at every level; what is saved can be read | `Projection`, used by `ReadCommand`; `RefsCommand` |
| **Configuration** `internal/config` | values and where they came from | merge flags, environment, profile; infer the auth mode | precedence of every source, absent, blank and unusable words | the most specific source wins; what a status says is what a read meets | `Configuration` |
| **Secret resolution** `internal/secretref`, `internal/keyring`, `internal/credentials` | a value or an error, kept once resolved | resolve from file, environment, keyring, command | cancellation and time limit of a command; the first result is kept | the right error, no prompt for a read that must fail, no other source in place of one that fails | in `Configuration` and `ReadCommand` |
| **Browser** `internal/browser` | none | look up, read, project | failures of a read | a failure keeps its kind | in `ReadCommand` |
| **Command line and entry** `internal/cli`, `cmd/zscalerctl` | flags; the muted process output | parse, run, render, map errors to exit codes | the context, a write that fails, power loss under `--output` | exit codes and what was written agree | a read in `ReadCommand`, a diff in `DumpDiff`, references in `RefsCommand` |
| **Live smoke harness** `internal/livesmoke`; **version** `internal/version` | none | run the binary against a tenant | none | none of the program's own | not modelled |

`PROJECT.json` lists the same parts with their files, and the hazards of the
code with the line where each bites and the properties that watch it.

## 2. The modules and the code

### AtomicPublish: what publication promises

One slot, the destination.  A client switches it to a new object in one step
(`Install`), may switch it back to exactly what it replaced (`Undo`) until it
has reported, and reports success, failure or "uncertain".  A failure means
the slot was never switched by this client, or was switched back.  `DumpEngine`
uses this module for publication, and `DumpPublish` is shown to implement it,
so what is checked of the dump operation rests on what is checked of the
publication protocol.

### DumpPublish: how it keeps the promise

The protocol of `publishContextWithCatalogAndHooks` and
`publishReplacingDirectoryWithCatalogAndHooks`.  A directory is a member of
`Dir`, its identity in the sense of `os.SameFile`; `target`, `staging`,
`cleanup`, `discard` say which identity is under the destination and under a
publisher's hidden names; `aside` holds what another program moved away.
`content` is what a directory holds, as far as validation tells it apart:
`empty` (a tree without files), `unfinished`, `complete`, `partial`, `foreign`.
`own`, `opened` and `staged` are the code's `stagingInfo`, `openedInfo` and
`stagedInfo`.  There is one action per step between two system calls that
others can interleave with:

| Action | Code |
|---|---|
| `Begin`, `WriteFiles`, `WriteManifest`, `Validate` | create the staging directory, write the artifact, validate it and note identities |
| `RenameNoReplace` (also as the second try) | `publishDirectoryNoReplace` |
| `Inspect`, `Recheck`, `Exchange`, `Verify` | open and validate the destination, compare identities, exchange, compare and validate again |
| `Quarantine`, `CheckQuarantine`, `Restore`, `Clear` | `removeReplacedDumpRoot`, `clearDumpRootContext` |
| `Rollback`, `RollbackExchange` | `rollbackExchangedDirectory`: the check and the exchange are two steps |
| `Cleanup`, `Relocate`, `CheckDiscard`, `Discard`, `Undiscard` | the deferred `cleanupStagingPath` |
| `Cancel`, `Crash`, `MeddleTarget`, `MeddleStaging` | the environment, switched on by the constant `Faults` |

`RenameNoReplace` and `Exchange` are one step each because the kernel makes
them so (`renameat2` with `RENAME_NOREPLACE` and `RENAME_EXCHANGE`, and their
counterparts); a file system without them is an I/O fault.

### ArtifactWrite: the files of one dump

`writeArtifactContext`, `writeFileExclusiveContext`, `clearDumpRootContext`,
`validateArtifactRootContext`, and the loader of `internal/diff`.  There is one
writer: every run writes into a fresh private directory (`os.MkdirTemp` in
`publishContextWithCatalogAndHooks`, the only caller).  The writer opens a
temporary file, writes, syncs and renames it to a name nothing has, and
`Following` gives the order: resources, report, errors, manifest.  `Intrude` is
a program of the same account that puts a file under one of the names; it is
why the code looks for files that are there already.  `PowerLoss` may forget
any rename, because directories are not synced, and truncates what was not
synced.  `StartClear`, `RemoveEntry` and `EndClear` are the removal of the
directory's entries, one by one: by the run itself when it fails, or by a later
run with `--force` that has found a complete dump in it and replaced it.

The reader has the directory open and keeps it wherever it is moved.  It reads
one file per step and accepts (`"valid"`) or refuses.  `aim` tells the two
orders there are: a publisher that validates a dump reads manifest, report,
resources and errors and then lists the directory; the loader of `diff`, `list`
and `get` lists the directory before it reads the resources.  `got` is what it
has read whole.  Where the directory stands and under which name is
`DumpPublish`'s.

### EventStream

`EventStream` has the operations of `machine.EventStream` and its emitter.  A
call is two steps, handing the event to the sink and the sink's verdict,
because the sink is foreign code and things happen while it runs; a panic is a
refusal, as in the code.  `AnyProducer` calls the operations in any order,
malformed events and calls after the end included.  So its results hold for
every producer of the program: the dump engine, the executor and the
comparison.

### DumpEngine: EventStream + AtomicPublish + the operation

`Engine.Dump` and `collectIntoStream`.  It EXTENDS `EventStream`, and
publishes through an INSTANCE of `AtomicPublish`.  `plan` is the selection, a
sequence of the products of the resources; `session` is per product
(`none`, `open`, `closed`, or `shared` for a product whose reader has no
sessions); `entries`, `errors` and `records` are what was collected.  Each
call of the stream is followed by waiting for its result, and each failure
takes the code's way out: told to the stream, sessions closed by the deferred
function, error returned.  `EndContext` may come at any step before the return.

### PageWalk: eight ways of reading a collection

| Walker | Code | How it knows the end |
|---|---|---|
| `zia` | `ziaWalkPages` | an empty page, or one shorter than page 1; a repeat of a short page 1 is probed by asking for one record less |
| `zcc` | `zccPaginate` | a short page |
| `zccTotal` | `zccPaginateWithTotalCount` | as many records as every answer declared |
| `ztw` | `ztwPaginate` | a short page |
| `zpa` | `zpaPaginate` | as many pages as every answer declared |
| `zidentity` | `readAllZidentityPages` | no next link, checked against the total if there is one |
| `zdx` | the alerts cursor | no next cursor |
| `single` | ZIA network applications | one request of the largest size, refused if it is full |

`tenant` is the collection, a sequence of records (a name, and a bit for "its
other fields changed"); `Insert`, `Remove` and `Edit` change it between
requests.  `server` says how the service answers: by pages, everything at
once, the first records always, or the first ones whatever the size asked for;
with a cap on the page size, and with true, absent or wrong totals.  `added` and `removed` are history
variables that only the properties look at.

### ReadCommand: one resource read, from the request to what is left of it

EXTENDS `EventStream` and `Projection`.  A request has a set of flaws, each a
thing some check of the code looks for, and a narrowing, whose own flaws (an
unknown field, a filter on a hidden one) are computed (`Wrong`).
`CommandChecks`, `DumpChecks`, `RuntimeChecks`, `ReaderChecks` and
`RequestChecks` give the order in which they are looked for and by whom, and
`KindOf` the error that tells of each.  With `--from-dump`, `OpenDump`
(`savedDumpRuntime`, `LoadCollection`) takes the place of the runtime: the dump
is refused, or admitted record by record, and the executor reads from memory.
`Loaded` is where records are listed, projected, verified and matched; `op`
says whether a list, the record of an identity (`get`) or the only one there is
(`show`) was asked for.  A service that answers a `get` with another record
fails it (`Requested`); from a dump the record is looked for by its key, which
must be one that the dump's mode shows (`GetFromCollection`);
`records` are the positions of those that match, and `Answer` is what is
emitted for one.  `Check`, `Settings`, `Resolve`,
`Provided` and `NewReader` are `runProductWithRuntime` and the runtime until
there is a reader; `Read` to `Ending` are `ExecuteStream` and its sink; from
`Render` on the answer is written to standard output or, by the six steps of
`writeOutputFileWithLstat`, to the `--output` file; `Report` is `App.Run` and
`main`.  A request of a library host (`host = "library"`) goes the same way
without the command line's checks, with a sink that may refuse anything.
Beside it the context ends, another run writes the same file, the process is
killed and power is lost.  `main.go` passes a context that never ends, so the
context is that of a caller of `App.Run` inside a process or of a library host.

A read that a status or `LoadConfig` would refuse has the flaw `config` or
`profile`; `Configuration` says how such a flaw comes about.

`MCReadCommand` puts `AnyProducer` beside it: the event stream's properties are
checked of both producers in one run.  It extends `RefsCommand` and
`Configuration` as well, further choices of the same run, for a process runs one
command.

### Configuration: from flags, environment and profile to a reader

`LoadEnv`, `LoadProfile`, `ApplyProfile` and `ApplyOptions` are the steps of
`LoadConfig` and `App.loadConfig`; `ReaderConfig`, `ResolveSecret` and
`OpenReader` those of `readerConfigFromConfig` and `validateReaderConfig`, from which
`doctor` and `auth status` take only the checks (`CredentialState`).  `host` is
what a command finds.  A word is what somebody wrote for a setting: nothing,
white space, something unusable, or something usable.  Which of these the code
trims, and where it asks for the trimmed or for the written word, decides which
source wins, so that is kept.  A secret is not given, held, or with a provider
(`SecretSource`).  `MCHosts` has the hosts for TLC.

### RefsCommand: the command that reads many resources

`refs to` and `refs check`.  `Wanted` is the resource the next comparison needs;
`Fetch` and `Fetched` read it, once, and keep what came of it, failures included
(`cachedReader`); `Site` is the loop of `FindRefsTo`, `Target` and `Field` that
of `CheckRefs`, one reference field after the other.  A single read is a step
that may fail: `ReadCommand` says what it is made of.  A record is its id and the
values of its reference fields; a value is a number or a text, compared by what
`refIDKey` makes of it.  The tenant changes between the reads, and the context
ends at any time.  Which fields refer to what is the constant `References`; its
assumption is what `FieldReferenceErrors` checks.

### Projection: what is left of a record

Operators without state, for any catalog, from `internal/resources` and the
admission of saved records in `internal/diff`.  A record is a function from
addresses to leaves; an address is a sequence of field names, each with an item
number if the value is a list, so that objects in lists in objects need no
recursion and can be reasoned about.  `Project` is `projectRecordCore`,
`Verified` is `AssertRenderedSubset`, `Confirm` is `confirmEmptyLists`,
`Admitted` is what `admitRecords` asks of each record, `Distinct` is
`validateLoadedRecords`, `Matches` and `Select` are the filters and the field
selection.  A leaf may also be null, an empty object, an empty list, an empty
list that the service sent as such, or a value of a type unknown to the
program.  Redaction is the constant `Scan`, a function per mode and kind of
field.

### DumpDiff: the comparison of two dumps

EXTENDS `EventStream`.  `Prepare` to `Unwind` are `Engine.Diff` and
`CompareContext`: both dumps are loaded under one budget (`kept` says how much
either took of it), refused or admitted, and compared resource by resource
(`Compare` for singletons, keyed and hashed records).  A file is the sequence
of its records, one longer than it has records.  Whatever else may be wrong with
a manifest or a file, and every way a read fails, is the choice "invalid".  A
field that is missing is as good as null for records with an identity and is
not for hashed ones, as in the code.  `Exit` is `runDiffWithOptions`, whose
sink takes every event, so that there is an exit code only if `ret # "sink"`.

### Spinner

Callers and the ticker goroutine of `output.Spinner`.  Each section under the
lock, each write to the terminal, the spawning of the goroutine, `close`,
`Wait` and the two cases of the `select` is a step.  A text is the width of its
line; `columns` are those of the terminal's line that are not blank.

### LiveAccess: what a live read is told

One read after another, each on its own or in one session, from
`SDKReader.List`, `Get` and `Show` to the error the caller gets.  `setup` is the
configuration and product; `read.op` is how the handler answers: `list`,
`show`, a `get` of the record's own address, one that scans a list (`scan`), or
the search of locations for a sublocation (`search`).  `UseSession` and
`Acquire` are the two service providers, `SignIn` is `newOneAPIService` with the
transport that keeps a failed sign-in.  `Try`, `Refresh`, `GiveUp` and
`RunOutOfTime` are the loop of the SDK's `ExecuteRequest`, `LegacySignIn`,
`LegacyTry` and `LegacyGiveUp` that of its legacy client; `Failed`, `Skip` and
`Good` are what the handler makes of an answer.  `End` is the verdict
(`normalizeLiveError`, `classifyFailure`) and the deferred release.  An answer
is a status and what else the SDK or the classification looks at; `home` says
where the record is, which only the tenant and the properties know; `heard` and
`last` are the answers a verdict may rest on.  The SDK is the vendored one, for
what it does with an answer is part of what the program does.

`MCDumpEngine` puts `ArtifactWrite` beside `DumpEngine` in the same way, and
`MCLive` extends `Spinner` and `LiveAccess`; a behaviour is one of either, for
neither looks at the other.

### Proof modules

| Proofs | About |
|---|---|
| `DumpPublishProofs` | `DumpPublish`, and that it implements `AtomicPublish` |
| `DumpEngineProofs` | `DumpEngine` and `ArtifactWrite` |
| `EventStreamProofs` | `EventStream`; its lemmas are about the stream in any module that extends it, and the three below that have a stream cite them |
| `DumpDiffProofs` | `DumpDiff` |
| `PageWalkProofs` | `PageWalk` |
| `LiveProofs` | `Spinner` and `LiveAccess` |
| `ReadCommandProofs` | `ReadCommand` and `Projection` |
| `CommandProofs` | `RefsCommand` and `Configuration` |

## 3. What the runs check

Every property has a mutant in `PROJECT.json`: a plausible bug in one
definition under which TLC finds the property violated with the same
configuration.

| Run | Instance | Shows |
|---|---|---|
| `publish_single` | one publisher, three directories, all faults except moving directories, two files added by others | `WholeTarget`, `ErrorTellsTarget`: the destination never shows half a dump and the error tells what is there. `ImplementsAtomicPublish`: the protocol refines the abstract switch |
| `publish_hostile` | the same and a program that moves and recreates the destination and staging, three times | `NeverAbsent`, `NothingElseIsLost`: nothing foreign is deleted and no directory is lost, whatever another program does |
| `publish_race` | two publishers, each with or without `--force`, canceled and with I/O faults at any step | `AtMostOneDefaultSucceeds`, `WholeWhereSeen`, `ReportsHold`: a dump reported as published is not lost, one reported as failed is not installed |
| `publish_liveness` | two publishers under fairness, canceled | `FailuresLeaveNoData`: everyone ends, and one that fails has cleared what it staged |
| `publish_default_race` | two publishers without faults | a violation: section 6 |
| `dump_diff` | two dumps of two resources: all pairs of eleven short lists in every shape, and all pairs of files present or not, failed or not, of several lengths, under a budget they may exceed together; the context ends, the sink refuses | `ReportIsExact`, `FailedIsNotDrift`, `BudgetIsShared`, `OutcomeAgrees` |
| `live` | `MCLive`: three callers of a spinner, five calls, two texts; or reads of every kind in six configurations, alone and in a session, with two locations, any answer to any request, the context ending at any time; under fairness | `StoppedIsQuiet`, `LastTextIsShown`, `StopReturns`. `VerdictIsTrue`: whatever the SDK repeats and hides, the verdict is one the answers of this read give. `ServicesReleased`: a service is given back once, by its owner. `ReadsReturn`: every read comes back |
| `live_not_found` | the same | a violation: section 6 |
| `event_stream` | `MCReadCommand`: reads of up to two records with up to two secrets and up to two flaws, four pages, both hosts, ten narrowings in three modes, twenty dumps, written by the program or altered; lists, and `get` and `show` of one record; any producer, two subjects, four events before the end; `refs` on six resources, three tenants and one change; the hosts of `MCHosts`, some thousands of combinations of settings | `ConsumerIsTold`: what a consumer may rely on: one start, one end, and every error is told. `AnswerOrError`: the answer is whole or there is an error, on every way out, power loss included; one record asked for is that one, and is said not to be in a dump only if it can be seen that it is not. `OnlyReviewedLeaves`: nothing but reviewed, scanned fields can be emitted, live or from a dump. `SavedCanBeRead`: what a live read projects is admitted from a dump. `NothingInVain`: no secret and no tenant is asked for what cannot succeed. `RefsAreTrue`, `OneReading`: what `refs` finds is all there is to find in one reading of each resource, and what it could not compare it names. `SettingsAreChosen`: a reader has of every setting what the most specific source says, and the secrets of its mode or there is none. `StatusIsTrue`: what a status says of the configuration is what a read meets |
| `unusable_configuration` | the same | a violation: section 6 |
| `dump_engine` | `MCDumpEngine`: one to three resources of two products, up to two records each; or the files of a dump of up to two resources, both kinds of reader, cancellation, kills, I/O errors, files of others, clearing, one power loss | `ReportAgrees`: what is returned, what the stream was told and what is at the destination agree. `CountersAreTrue`. `FailsClosed`: a failure leaves no dump behind that is called one. `SessionsAreScoped`. `ManifestLast`: a manifest is evidence of a whole dump. `FinalFilesWhole`. `ValidIsWhole`: what a reader accepts it has read whole, and of a run that succeeded |
| `page_walk` | tenants of up to four records in two orders, one record without an id; page size 3, three pages, caps 1, 2 and 4; two changes during a walk | `NothingIsMissed`, `NoRecordTwice`, `StillTenantsAreRead`, `RequestsAreBounded` |

Why the bounds are enough to meet the interesting cases:

- *Publication.*  Three directories are the original and one for each of two
  publishers; a publisher creates one directory only.  Two publishers meet
  every pair of steps; with `Publisher` interchangeable a third one would only
  repeat the roles of first and second.  The outside program needs one step to
  replace a directory between a check and its use, two to put it back, and
  `publish_hostile` gives it three.
- *Artifact files.*  Two resources give a file that is read and one that is
  gone by then, and the runs in which one of them or neither was collected; one
  power loss may come at any step and forget any set of files, so a second one
  only forgets more of them.  Three resources were tried and showed nothing
  else.
- *Event stream.*  After the third event the flags cannot reach new values.
- *Read.*  Two flaws meet every pair of checks in either order; two records
  and the four windows make an empty, a first, a last and a beyond page; two
  secrets let the context end or a provider fail between them.  The catalog has
  a field of every class that matters, a list, a list of objects, and an object
  that two modes hide while its own field would render in one of them; the four
  source records have in them every leaf, an object where a scalar should be
  and the reverse, unknown fields, and items of which projection leaves some,
  all or none.  `get` and `show` of one record meet lists of that record, of
  another, of none and of two, in every mode, one of which hides the key.  A
  dump holds what the program wrote in each mode, or is one of eleven others,
  among them a record of another mode, a repeated identity and a text that was
  not scanned.
- *References.*  Fields with one and two targets, one of whose ids are hidden,
  one that cannot be read, an audit field, a field not rendered, and a resource
  that refers to itself and is the target of another, so that a read in one role
  is needed in a second; ids as numbers and as texts, unset ones, and ones in no
  target.  One change of the tenant falls between any two reads.
- *Settings.*  Each setting is given by the environment, by the profile, by
  both or by neither, as a usable word, white space or an unusable one, for each
  of the eight ways in which two sources can name an auth mode; each secret
  comes by each of nine ways, among them an empty file, an unreadable one and
  every provider; the switches of flags, environment and profile are combined.
  Settings of different modes meet only where the inference of the mode looks at
  both.
- *Comparison.*  Lists of two hold a duplicate, a swap, a change, a removal and
  an addition; with files of one to four bytes and a budget of 6 with 3 per
  file, the first dump leaves nothing, too little or enough for the second.
- *Spinner.*  Three callers are one inside `Start`, one inside `Update` and one
  inside `Stop`; five calls let each be overtaken by another of its kind.
- *Live reads.*  Of two locations the first may be skipped and the second hold
  the record, or the other way round.  Every failure that the SDK or the
  classification tells apart is an answer to every request; those of a search,
  whose requests are many, are two, an ended session and a timeout, besides
  404 and a page that is refused.  Two tries and one renewal are the program's
  own settings.  The configurations are each way of signing in, and each thing
  that is refused before anything is sent.
- *Dump operation.*  Three resources whose products are `p, q, p` open a
  session, switch and come back to one that is open.
- *Pages.*  With page size 3 and caps 1, 2 and 4 a page is clamped, equal to
  and larger than what was asked; four records make an empty, a short and a
  full last page and exact multiples of the widths; three pages reach
  the ceiling.  Two changes suffice to shift a record and hide the shift in the
  count.

Symmetry is used for publishers, for directories other than the original one,
and for resources, which the specifications never tell apart, and
only in runs without liveness.  Deadlock is checked in every run: a
specification whose actors are done has an explicit stuttering disjunct
(`Finished`, `Returned`), so a stuck state anywhere else would be reported;
`AnyProducer` can always be called again.

*Fairness.*  `publish_liveness` assumes weak fairness of each publisher's own
steps.  A publisher is one goroutine that never waits for
another process, and the operating system runs it as long as it is not killed;
that run has no kill.  `live` assumes weak fairness of a read's own steps: each
request is answered or ends with the timeout of the HTTP client, which every
configuration sets, and the waits of the SDK are bounded.  It assumes weak
fairness of each of the spinner's goroutines, which the Go scheduler gives, and
strong fairness of the exit from the `select`: Go chooses at random among the cases that are ready, so a closed
channel is not passed over forever.  Nothing is assumed of the environment, nor
that callers call at all.

## 4. What is proved

Every invariant and every action property that a passing run checks, and the
refinement, is a theorem.  The theorems hold for any number of publishers,
directories, callers, resources, records, products, pages, locations,
secrets and events, for any catalog, and for any number of steps; only the two
theorems on a single publisher name their number.  What is assumed of the
constants are named assumptions that the runs evaluate:

| Assumption | What it says |
|---|---|
| `PublishAssumption` | the original directory is one, `None` is not |
| `WriteAssumption` | resources are not called like the manifest, the report and the errors, the faults are known ones |
| `StreamAssumption` | `None` is no event |
| `EngineAssumption`, `DiffAssumption`, `ReadAssumption` | the subjects of events include 0, "about no record", and the positions of what is told one by one; `ReadAssumption` says also what a request is |
| `WalkAssumption`, `InputsAssumption` | sizes are positive, the ceiling is two pages at least (the code's are 1000), the records of a collection have names of their own |
| `SpinnerAssumption` | callers and the ticker differ, a text is at least one column wide |
| `LiveAssumption`, `SearchAssumption` | what a configuration is; the failures of a search are failures |
| `RefsAssumption` | no reference field is listed twice, every one has a target; `Nil` is no id |
| `HostsAssumption` | a command is a read, `doctor` or `auth status`; a flag is set or not; a secret's file is there with something in it, with nothing, or cannot be read, or is not named |
| `CatalogAssumption` | fields have a class and modes, a scan gives a text |
| `ScanAssumption` | what is left after a scan is left by another one |

The last one is about code that is not modelled: `redact_test.go` and a fuzz
test say so, and `admitRecords` relies on it.

| Module | Theorems | Invariant |
|---|---|---|
| `DumpPublishProofs` | `TypeCorrect`, `IInvCorrect`, `NothingIsUnlinked`, `OnlyReplacedDumpsAreDeleted`, `NothingElseIsEverLost`, `DestinationNeverAbsent` | `IInv` |
| | `PublishedIsWhole`, `DestinationWhole` | `WholeWhereSeen` |
| | `StagingIsKept`, `FailuresStayOut` | `StagingHeld`, `ErrorsHeld` |
| | `OneDefaultSucceeds` | `OneEmptyDestination` |
| | `ReportsStayTrue` | `Reported` |
| | `ErrorsTellTheTarget`, `PublicationIsAtomic` | `Aimed`, `Tells` |
| `DumpEngineProofs` | `EInvCorrect`, `ReportsAgree`, `CompletedIsPublished`, `DumpsFailClosed`, `EndsAreNotFailures` | `EInv` |
| | `SessionsEndWithReading`, `CountersStayTrue` | `SessionInv`, `CountInv` |
| | `WInvCorrect`, `ManifestIsLast`, `FilesAreWhole`, `AcceptedIsWhole` | `WInv` |
| `EventStreamProofs` | `StreamInvCorrect`, `ConsumersAreTold` | `StreamInv` |
| `DumpDiffProofs` | `DiffInvCorrect`, `ReportsAreExact`, `FailuresAreNotDrift`, `BudgetsAreShared`, `OutcomesAgree` | `DiffInv` |
| `PageWalkProofs` | `WalkTypes`, `WalksAreBounded`, `RecordsAreReadOnce` | `AcceptedOnce` |
| | `NothingIsEverMissed`, `StillTenantsAreEverRead` | `CoverInv`, `StillInv` |
| `LiveProofs` | `SInvCorrect`, `StoppedSpinnersAreQuiet`, `TheLastTextShows` | `SInv` |
| | `LiveInvCorrect`, `VerdictsAreTrue`, `ServicesAreReleased` | `VerdictInv`, `ServiceInv` |
| | `ReadsAreBounded` | `LiveTypeOK` |
| `ReadCommandProofs` | `RInvCorrect`, `ExitCodesTell`, `FilesAreNeverTorn`, `NothingIsInVain` | `RInv` |
| | `OnlyReviewedLeavesAreEmitted`, `WhatIsSavedCanBeRead` | `LoadInv` |
| | `AnswersAreWhole` | `AnswerInv` |
| | `ReadTypes` | `TypeOK` |
| `CommandProofs` | `RefsInvCorrect`, `DocumentsAreTrue`, `ReadingsAreNotRepeated` | `RefsInv` |
| | `SettingsInvCorrect`, `SettingsAreAlwaysChosen`, `TheStatusIsTrue` | `SettingsInv` |
| | `SettingsTypes` | `SettingsTypeOK` |

*IInv.*  That only a replaced complete dump is deleted is not inductive: the
step that deletes looks at nothing but a path.  The invariant adds what the
earlier steps established and nobody can undo: no directory has two names
(`Distinct`), a directory without a name is empty (`FreshIsEmpty`), and at
each step the identities a publisher noted are those it is about to act on
(`Identified`: at `clear`, the quarantine holds the directory it opened, as
validated; at `discard`, its own).  The outside program can move the
destination and staging but does not know the quarantine names; this is the
assumption on it, and it is the code's.  The proof has one lemma per
conjunct and one step per action.

*What is promised only if others leave something alone.*  `IInv` and what
follows from it hold whatever other programs do.  The rest says what they must
leave alone (`LeftAlone`, a hypothesis on `Faults`), and a run without that
hypothesis finds the counterexample:

- `PublishedIsWhole`, `DestinationWhole` and `FailuresStayOut` assume that
  nobody moves a staging path: the no-replace rename does not look at the
  identity of what it renames, so someone who swaps the staging directory just
  before it can publish what he likes.
- `OneDefaultSucceeds` assumes in addition that nobody moves the destination.
- `ReportsStayTrue` assumes that nobody but publishers touches anything; they
  may be canceled, be killed, and fail at any step.
- `ErrorsTellTheTarget` and `PublicationIsAtomic` are about one publisher, since
  with two the check before the rollback and the rollback are not one step
  (section 7), and assume that nobody moves staging or destination.

*WholeWhereSeen* speaks not only of the destination but of what a publisher may
still put there: its staging directory once it is validated, and what it
replaced until it is settled that it is not put back.

*StagingHeld and ErrorsHeld.*  Up to the exchange a publisher's staging path
holds its own dump, between the verification and a rollback what it replaced;
and whoever leaves with an ordinary failure has its dump under a hidden name.
By `Distinct` it is then not at the destination: `FailuresStayOut`.

*OneEmptyDestination.*  Without `--force` a publisher replaces nothing or a
directory without files.  At most one directory is there from before
(`OneFromBefore`), and no publisher ever installs an empty one
(`EmptyFromBefore`), so the directory a second one would have to open is in the
first one's quarantine for good, or never was (`Won`).

*Reported.*  An installed dump is what its manifest says, and is at the
destination or under a hidden name of another publisher, who opened it with
`--force`, and only if it is complete.

*Tells.*  With one publisher the destination is what it was before the exchange,
and the publisher's own from then to the rollback.  `Aimed` says that the
directory checked is still there when the exchange happens.  The refinement maps
the steps before the exchange to "pending", those after it to "installed" with
the replaced directory as what may be put back (`Switched`), and each action to
one of `Install`, `GiveUp`, `Undo`, `Report`, `Die` or to a stutter
(`AtomicStep`).

*WInv.*  That what a reader accepts is a whole dump of a run that succeeded
rests on two facts: the manifest comes last, so who has read it knows that the
run has finalized all of its plan; and a file of the run under a final name is
synced, so whatever a power loss or a clearing leaves of it is all of it or
nothing.  `WriterInv` says the first, and that the files stay there until
power is lost or clearing begins; `FileInv` the second; `ReaderInv` what has been
read at each step of either order.  The proof uses no guard on what is in the
directory when the reader lists it: the loader's answer rests on what it reads
after that, and the listing only refuses more.

*EInv.*  For each step of the operation, what the stream has been told, what
is collected and how far publication is (`PcInv`, `DataInv` and the stream's
own invariant).  The lemmas of `EventStreamProofs` say what any step of any
producer does to the stream, and are used as they are.  `SessionInv` adds that
no session is closed while the operation still reads, `CountInv` that the
counters are those of what was collected and of what the stream was told
(`Counted`, `Announced`), until a failure after which they account for nothing.

*DiffInv.*  The report is exact because each of its entries is that of one
resource (`Covers`) and the comparison of two lists explains them: every record
of either list is in one group of the entry.  For keyed and single records that
is a matter of identities; for hashed records it is a matter of how often each
occurs, so the lemmas are about bags.  That the bytes kept are those of the
files loaded (`LoadInv`) needs sums over finite sets.  Both need induction,
which is had from the well-foundedness of the natural numbers applied to a set
of naturals (`SetInduction`).

*AcceptedOnce.*  What a walker that compares identities has accepted holds no
identity twice, in every state and not only at the end.

*CoverInv.*  What a walk that goes on has seen depends on the service
(`Walking`): of one that honors the page, all records before the one it will
ask for, since an insertion only shifts records to where they are still to be
read; of one that ignores it, all there are; of one that caps, its first page
only, by which the walkers recognise it the second time.  So a walk that
completes has seen everything that was there at its beginning.

*StillInv.*  If nobody changes the collection, the records read so far are its
first ones, in order, and their number is a multiple of the width of a page or
all there are (`PagedReading`); then each of the eight tests for the last page
is passed at the last page and not before.  A service that answers with
everything is read twice by `zia` and once by the others (`WholeReading`).

*SInv.*  Who holds the lock is writing or wiping; what a writer is about to
write is the newest text, for the text changes only while the lock is free; and
the wait group counts the goroutine from the moment `Start` releases the lock,
before it exists, until it has left the `select`.  So a `Stop` that overtakes
the `Start` waits for a goroutine that is still to come.

*VerdictInv.*  An error that is on its way to the caller rests on an answer that
was given to this read (`Rests`): for its last request, or, in a search, for the
failure kept of a location that was skipped (`SearchInv`).  What the SDK repeats
is what it repeats for (`RequestInv`), and a record that was not found is not in
any location searched so far.  `ServiceInv` says which steps hold a service.

*RInv.*  For each step of the read, which flaws are excluded by then, what the
temporary file holds and whether it is on disk, and what was written where.  The
exit code follows at the end, and that nothing is asked in vain from the
excluded flaws; the file is never torn because a rename comes after the sync on
every path.

*LoadInv.*  What was loaded live can be projected, what was loaded from a dump
was admitted, and a filter on a hidden field has been refused when records are
loaded.  The rest is about operators and holds for every catalog and record:
what is projected may be rendered (`ProjectionRenders`), projecting it again
changes nothing (`ProjectionIsAdmitted`, for which `ScanAssumption` and the
confirmation of empty lists are needed), what is admitted may be rendered, for
it equals a projection (`AdmittedIsRendered`), and selecting fields leaves only
rendered ones, since the objects around a rendered leaf are rendered as well
(`SelectionIsRendered`).

*AnswerInv.*  The records the sink was given are the first ones of those that
match (`Sending`), and a stream that completed was given all of them.  That
those that match come out in the order of the list, each at the place which is
the number of matching ones up to it, is an induction over positions
(`MatchedIsPlaced`); from it `ShownIsAnswer` counts the page.  An answer goes
to the caller only after `completed` (`Streaming`), so a failure at any step
leaves an error and no whole answer.

*RefsInv.*  A document is about the fields behind the one at hand, and true of
each (`DocumentInv`): it is settled once everything it takes is in the cache
(`Settled`), for what is in the cache is never read again.  A cached reading is
of some moment, or a failure, put down to the context only if that has ended
(`CacheInv`), and `known` is the ids of the targets gone through (`KnownInv`).

*SettingsInv.*  At each stage the configuration is an expression of what the
command found (`Gathered`: `OfEnv`, `OfFile`, `Flagged`); the lemmas `EnvIs`,
`FileIs` and `SettingsAre` say what that is for each setting.  `Consulted` says
that secrets are held one by one, of the mode, and none twice, and `Judged` what
the status would have said by then.

*Types.*  No run checks a type invariant by itself: types are theorems
(`TypeCorrect`, `WalkTypes`, `ReadTypes`, `ReadsAreBounded`, `SettingsTypes`) or
conjuncts of the inductive invariants (`EInv`, `WInv`, `SInv`, `StreamInv`,
`DiffInv`, `RefsInv`).  Some of them bound something: `ReadsAreBounded` says that
no request of a live read has more than five tries, that no try signs in more
than once, and that no location is looked at but the parents.

## 5. What only TLC checks

- The liveness properties: `FailuresLeaveNoData`, `StopReturns` and
  `ReadsReturn`.  Liveness under fairness, and ENABLED, are beyond the proof
  system.
- That the documents of section 6 are wrong: a counterexample needs an
  instance.

What kept the models provable: no operator is declared RECURSIVE, recursion is a
recursive function, and the library's theorems that take an operator as a
parameter are not used.  Induction is over a set of natural numbers instead
(`SetInduction`, stated in `DumpDiffProofs` and in `ReadCommandProofs`),
from the well-foundedness of `<`.  `SelectSeq` is opaque to the provers,
so `FilterRecords` is written as a recursive function.  So is whether a literal
is in `STRING`, so what a type says of a note or a name is a set of words.

## 6. Disagreements between documents and the code

`docs/RESOURCES.md:74` says of the default, without `--force`: "It refuses to
overwrite files by default. An existing directory tree containing only empty
directories remains usable only when the filesystem supports atomic directory
exchange".  Two runs without `--force` over one existing empty directory both
open it as empty.  The first exchanges its dump in and may already have
reported success when the second exchanges: what the second moves into its
staging path is the first one's dump, files and all.  The check after the
exchange (`force.go:174`) sees that the identities are not those it noted, and
the rollback refuses for the same reason, so the second run's dump stays at
the destination though it reports an error.  Nothing is deleted
(`ReportsHold`): the first dump is whole under the second run's staging
path.  `publish_default_race` is this run.

A `get` exits with 4 for "a `get` whose id does not exist"
(`docs/VERSIONING.md:34`), and the comment in `normalizeLiveError`
(`reader.go:4933-4935`) says that "a list/show/authenticate 404 is an
endpoint/access problem, not a missing record".  The code asks for the operation
and the status, not for the request that was answered: a `get` that scans a list
(`scanGet`, `reader.go:988`) calls the record missing when the list answers 404,
and so does the search for a sublocation when the failure it kept is the 404 of
one location, of which its own comment says "exit 5, not 4"
(`reader_zia.go:437-438`).  `live_not_found` is this run, and `VerdictIsTrue`
allows for it.

Exit code 2 is "Usage error, invalid resource id, or an unusable configuration
or proxy setting" (`docs/VERSIONING.md:32`).  A profile with a `redaction` that
does not exist ends with 1: `applyProfile` (`config/load.go:199`) returns the
error of `redact.ParseMode` as it is, where that of the same word in the
environment is wrapped in `ErrInvalidConfig`.  `unusable_configuration` is this
run.

More were read and are not runs, for they are one branch each.  The comment of
`Spinner.Stop` (`spinner.go:105-106`) says that it "clears the line so no
partial spinner text precedes subsequent output"; it overwrites as many columns
as the last frame was wide, and `redraw` does not erase what was on the line, so
after an update to a shorter text the tail of the longer one stays.  The schema
of errors (`docs/schema/error.schema.json:82`) has `credentials_rejected` for a
sign-in that is refused, `rate_limited` for 429 and `timeout` for a request that
took too long; a sign-in refused in the middle of a request, a 429 whose wait is
longer than the SDK waits, and the SDK's own limit on the time of a request
reach the classification as text and are `unknown`, which `VerdictIsTrue` names
(`Unnamed`).  The comments at `runtime.go:241-242` and
`executor.go:400-403` say that no provider runs for a request that is certain
to fail; an invalid proxy is found only when the reader is made, and a filter
on a field the redaction mode hides only in the executor, both after the
secrets were resolved.  `NothingInVain` says for which flaws it holds.

## 7. Limits of the code that the models show

They are consequences of what a file system or a paged service offers; they
are stated here because each of them bounds a property above.

- The rollback checks both identities and then exchanges by path; a publisher
  that gets in between is exchanged away, and is not lost.
- The no-replace rename does not verify again what is under the staging path.
- A killed publisher leaves its staging or cleanup directory behind.
- If clearing the replaced dump fails after the exchange, an error is returned
  though the new dump is in place (`residue`, "uncertain" in `AtomicPublish`).
- A foreign file added to a new dump before its rollback is deleted with the
  publisher's own staging directory.
- Directories are never synced: a power loss after success may bring back an
  earlier directory entry.  Files are synced, so none is half written.
- A record removed between two page requests can shift one that was not yet
  read onto a page already read.  Walkers that look at no totals cannot notice
  it, and the others only if the total differs; `NothingIsMissed` excludes
  removals.
- A service that ignores the page and caps the answer repeats its first page.
  Walkers that fingerprint whole pages (`zpa`, `zidentity`), and the others for
  records without an id, take it for a new page if one of its records is edited
  between the two requests.
- The directory of an `--output` file is not synced: a power loss after success
  may bring back the old file.  A temporary file stays behind if the process is
  killed, or if its removal fails.
- A spinner that is updated before it is started, and stopped instead of
  started, leaves its frame on the line (`spinner.go:94`).
- A blank `ZSCALERCTL_AUTH_MODE` is no mode, and yet the profile's is not taken:
  the mode is inferred.  A flag can turn the cache off and not on again.
- ZIA accepts a service that hands out one record whatever it is asked; its
  comment says so.  ZCC, ZTW and the single request rely on the page size not
  being clamped.

## 8. Limits of the models

- What a record or a file says is abstracted to what validation and comparison
  tell apart; formats, wording and redaction are left out.
- Dangerous paths and parents with unsafe permissions are refused before the
  publication protocol begins; the models start after that, with a `Begin`
  that may refuse.
- In `ArtifactWrite` a file of somebody else holds nothing that passes for a
  part of the dump, a power loss undoes no removal, and listing the directory is
  one step.
- `DumpEngine` leaves out collection without publication and the wording of
  errors.
- `PageWalk` leaves out the loop over parent locations for sublocations, the
  ZPA lists read with one request and the filters applied after a walk;
  the records of a collection differ from each other.
- `ReadCommand` takes for granted that the resource has the operation asked
  for, and leaves out counts by field, reports and rendering.  The command line verifies what it is handed once more
  (`verifiedProjectedRecordsFromMachineResult`), which refuses nothing that the
  read before it lets through; that check is left out.  Whatever else may be
  wrong with a dump is the choice "refused".
- `Projection` has no list as an item of a list and matches a list item by item:
  the joined text of a list, that of a whole object, and a search in either are
  left out, as is upper and lower case.  A text of a field's filter stands for
  all that it matches.  Two rows of one identity make a dump of a live list
  unreadable (`SavedCanBeRead` excludes them).
- `RefsCommand` leaves out what precedes the runtime (a choice of `Open`), the
  wording of failures and the text form of the document.
- `DumpDiff` leaves out the collection of several dumps and the fields a report
  names.
- `Configuration` has a word for what is written and leaves out how a file is
  parsed (a choice "unusable") and a reference to a secret is spelled.  ZPA's
  customer and microtenant are one setting.  A context that ends while a
  provider is asked is in `ReadCommand`.
- In `LiveAccess` a service is given back when its cleanup is called.  That
  closes the client, except a legacy ZIA client, which the code leaves open on
  purpose because closing it would deadlock (`reader.go`, `legacyService`).
- `LiveAccess` leaves out sessions and tokens that end by the clock, the SDK's
  renewal in the background, its log, and answers it repeats only for writes.
  A list is one page.  Which status a tenant gives is free, but the address of a
  record answers 404 only if it does not exist.
- Not modelled: the generated tables and the rows of the catalog (a quarter of
  the code, constants without control); the field-by-field mappers of the SDK's
  structures in `reader.go`; redaction by patterns, which is a matter of
  characters and is a constant function here; permission rules, which are what an operating system's access
  lists say; the syntax of flags and configuration files; rendering; the live
  smoke harness.

## 9. Plan

The order was: publication first, since a fault there destroys or falsifies
stored data; then the files of a dump; then the stream and the operation that
composes both; then the walkers, on which the truth of every list rests; then
what a caller sees of it: the read with its projection, the comparison, references, the
spinner, the verdict on a live read, and the settings it begins with.  What is
left, in this order:

1. The loop over parent locations in `PageWalk`.
2. More of the tables of the catalog and of the mappers as data, where a
   property tells their rows apart.

## 10. Running

    tlc -workers 2 -config publish_race.cfg MCDumpPublish
    tlapm DumpPublishProofs.tla

`PROJECT.json` names the module and the configuration of each run.  The
largest ones (`dump_diff`, `page_walk`) visit 7 and 3.4
million distinct states and take a minute or two.
