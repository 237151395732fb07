--------------------------- MODULE ReadCommandProofs ---------------------------
(***************************************************************************)
(* Proofs about a resource read, for all requests and whatever the service *)
(* lists or a dump holds: that nothing is asked for in vain, what the exit *)
(* code and the file at the end of it tell, what may be in the answer, and *)
(* that it is the whole answer.                                            *)
(***************************************************************************)
EXTENDS ReadCommand, EventStreamProofs, SequenceTheorems, FunctionTheorems, FiniteSetTheorems,
        WellFoundedInduction, TLAPS

WithReader == {"read", "started", "load"}
WithSettings == WithReader \cup {"resolve", "asking", "reader"}
WithConfig == WithSettings \cup {"settings"}

Last == {"over", "killed", "dark"}
WithFile == {"inspect", "create", "fill", "sync", "rename"}

Sorts ==
    /\ request \in Requests
    /\ ctx \in {"live", "canceled", "deadline"}
    /\ error \in DOMAIN ExitCode

(* What has been checked when a step is reached.                           *)
GateInv ==
    \/ FromDump /\ pc \notin {"settings", "resolve", "asking", "reader"}
    \/ /\ ~FromDump
       /\ pc \in WithConfig =>
             /\ Wrong \cap {"config", "profile"} = {}
             /\ Cli => Wrong \cap {"usage", "field", "resource"} = {}
       /\ pc \in WithSettings => Wrong \cap {"settings", "incomplete"} = {}
       /\ pc \in WithReader => "proxy" \notin Wrong
       /\ pc = "load" => Wrong = {}
       /\ pc # "open"

(* There is an error only when a read is over.                             *)
ErrorInv == error # "none" => pc \in {"failed", "answered", "report"} \cup Last

(* What is left of a read and when.                                        *)
LeftInv ==
    /\ pc \in WithFile => request.output
    /\ pc = "rename" \/ file = "mine" => safe
    /\ file # "torn"
    /\ file = "mine" \/ stdout = "whole" => pc \in {"report"} \cup Last /\ error = "none"
    /\ pc = "report" /\ error = "none" /\ Cli =>
          IF request.output THEN file # "before" ELSE stdout = "whole"

(* What an exit code tells.                                                *)
ExitInv ==
    exit # None =>
        /\ pc \in {"over", "dark"}
        /\ exit = ExitCode[error]
        /\ IF error = "none"
           THEN /\ stderr \subseteq {"notices"}
                /\ IF request.output THEN file # "before" \/ pc = "dark" ELSE stdout = "whole"
           ELSE stderr = {"error"}

RInv == Sorts /\ GateInv /\ ErrorInv /\ LeftInv /\ ExitInv

(* Every flaw has an error, and only the absence of one exits with 0.      *)
LEMMA Kinds == \A f \in Flaws : KindOf[f] \in DOMAIN ExitCode /\ KindOf[f] # "none"
BY DEF Flaws, KindOf, ExitCode

LEMMA ExitCodes == \A e \in DOMAIN ExitCode : ExitCode[e] \in 0..5 /\ (ExitCode[e] = 0 <=> e = "none")
BY DEF ExitCode

LEMMA NoExitCode == None \notin 0..5
BY ReadAssumption

LEMMA Contexts == {"canceled", "deadline", "missing_credentials", "live_access_failed",
                   "not_found", "unsupported_operation", "unsupported_resource",
                   "invalid_resource_id", "internal", "usage", "sink", "none"} \subseteq DOMAIN ExitCode
BY DEF ExitCode

LEMMA InitRInv == Init => RInv
BY Contexts, ReadAssumption DEF Init, RInv, Sorts, GateInv, ErrorInv,
   LeftInv, ExitInv, WithReader, WithSettings, WithConfig, Last, WithFile

(* What is wrong with a request stays wrong with it.                       *)
LEMMA WrongStays == UNCHANGED request => UNCHANGED <<Wrong, FromDump>>
BY DEF Wrong, RowsNarrowed, ModeOf, FromDump

USE WrongStays DEF WithReader, WithSettings, WithConfig, Last, WithFile

(* What passes a row of checks has none of their flaws.                    *)
LEMMA CommandPassed == Passed(CommandChecks) =>
                           Wrong \cap {"usage", "field", "config", "profile", "resource"} = {}
BY DEF Passed, CommandChecks

LEMMA LibraryPassed == Passed(ConfigChecks) => Wrong \cap {"config", "profile"} = {}
BY DEF Passed, ConfigChecks

LEMMA RuntimePassed == Passed(RuntimeChecks) => Wrong \cap {"settings", "incomplete"} = {}
BY DEF Passed, RuntimeChecks

LEMMA ReaderPassed == Passed(ReaderChecks) => "proxy" \notin Wrong
BY DEF Passed, ReaderChecks

LEMMA RequestPassed == Passed(RequestChecks) =>
                           Wrong \cap {"usage", "resource", "field", "hidden"} = {}
BY DEF Passed, RequestChecks

LEMMA FlawsOf == Sorts => Wrong \subseteq {"usage", "field", "hidden", "resource", "config", "profile",
                                                   "settings", "incomplete", "proxy"}
BY ReadAssumption DEF Sorts, Wrong, Flaws, KindOf

-----------------------------------------------------------------------------
(* A step that refuses, or ends the context, leaves what was made so far.  *)

LEMMA RefuseRInv ==
    ASSUME RInv, pc \notin {"report"} \cup Last, error = "none",
           NEW kind \in DOMAIN ExitCode, kind # "none", Refuse(kind),
           UNCHANGED <<request, ctx, stderr, exit, file, safe>>,
           stdout' # "whole" \/ stdout' = stdout
    PROVE  RInv'
BY DEF RInv, Sorts, GateInv, ErrorInv, LeftInv, ExitInv, Refuse

LEMMA FailsRInv ==
    ASSUME RInv, pc \notin {"report"} \cup Last, error = "none",
           NEW kind \in DOMAIN ExitCode, kind # "none", RuntimeFails(kind),
           UNCHANGED <<request, ctx, stdout, stderr, exit, file, safe>>
    PROVE  RInv'
<1>1. ctx \in DOMAIN ExitCode \/ ctx = "live"
    BY Contexts DEF RInv, Sorts
<1>2. CASE Cli /\ ctx # "live"
    BY <1>1, <1>2, RefuseRInv DEF RuntimeFails, RInv, Sorts
<1>3. CASE ~(Cli /\ ctx # "live")
    BY <1>3, RefuseRInv DEF RuntimeFails
<1> QED
    BY <1>2, <1>3

LEMMA CheckRInv == RInv /\ Check => RInv'
<1> SUFFICES ASSUME RInv, Check PROVE RInv'
    OBVIOUS
<1>1. /\ pc = "check" /\ error = "none"
      /\ UNCHANGED <<request, ctx, stdout, stderr, exit, file, safe>>
    BY DEF Check, RInv, ErrorInv, terminals, disk
<1>2. ASSUME NEW f \in Flaws, Refuse(KindOf[f]) PROVE RInv'
    BY <1>1, <1>2, Kinds, RefuseRInv
<1>3. CASE FromDump /\ Go("open")
    BY <1>1, <1>3 DEF RInv, Sorts, GateInv, ErrorInv, LeftInv, ExitInv, Go, Cli
<1>4. CASE /\ ~FromDump /\ Go("settings")
           /\ Passed(IF Cli THEN CommandChecks ELSE ConfigChecks)
    <2>1. Wrong \cap {"config", "profile"} = {} /\ (Cli => Wrong \cap {"usage", "field", "resource"} = {})
        BY <1>4, CommandPassed, LibraryPassed
    <2> QED
        BY <1>1, <1>4, <2>1 DEF RInv, Sorts, GateInv, ErrorInv, LeftInv,
           ExitInv, Go, Cli
<1>5. FromDump => Cli
    BY ReadAssumption DEF RInv, Sorts, FromDump, Cli
<1> QED
    BY <1>2, <1>3, <1>4, <1>5 DEF Check

LEMMA OpenDumpRInv == RInv /\ OpenDump => RInv'
<1> SUFFICES ASSUME RInv, OpenDump PROVE RInv'
    OBVIOUS
<1>1. /\ pc = "open" /\ error = "none" /\ FromDump
      /\ UNCHANGED <<request, ctx, stdout, stderr, exit, file, safe>>
    BY DEF OpenDump, RInv, ErrorInv, GateInv, disk
<1>2. CASE ctx # "live" /\ Refuse(ctx)
    BY <1>1, <1>2, Contexts, RefuseRInv DEF RInv, Sorts
<1>3. CASE Refuse("usage")
    BY <1>1, <1>3, Contexts, RefuseRInv
<1>4. CASE Go("read")
    BY <1>1, <1>4 DEF RInv, Sorts, GateInv, ErrorInv, LeftInv, ExitInv, Go, Cli
<1> QED
    BY <1>2, <1>3, <1>4 DEF OpenDump

LEMMA SettingsRInv == RInv /\ Settings => RInv'
<1> SUFFICES ASSUME RInv, Settings PROVE RInv'
    OBVIOUS
<1>1. /\ pc = "settings" /\ error = "none"
      /\ UNCHANGED <<request, ctx, stdout, stderr, exit, file, safe>>
    BY DEF Settings, RInv, ErrorInv, disk
<1>2. ASSUME NEW f \in Flaws, RuntimeFails(KindOf[f]) PROVE RInv'
    BY <1>1, <1>2, Kinds, FailsRInv
<1>3. ASSUME Passed(RuntimeChecks), Go("resolve") PROVE RInv'
    BY <1>1, <1>3, RuntimePassed DEF RInv, Sorts, GateInv, ErrorInv, LeftInv,
       ExitInv, Go, Cli
<1> QED
    BY <1>2, <1>3 DEF Settings

LEMMA SecretsRInv == RInv /\ (Resolve \/ Provided) => RInv'
<1> SUFFICES ASSUME RInv, Resolve \/ Provided PROVE RInv'
    OBVIOUS
<1>1. /\ pc \in {"resolve", "asking"} /\ error = "none"
      /\ UNCHANGED <<request, ctx, stdout, stderr, exit, file, safe>>
    BY DEF Resolve, Provided, RInv, ErrorInv, terminals, disk
<1>2. ASSUME ctx # "live", RuntimeFails(ctx) PROVE RInv'
    BY <1>1, <1>2, Contexts, FailsRInv DEF RInv, Sorts
<1>3. CASE RuntimeFails("missing_credentials")
    BY <1>1, <1>3, Contexts, FailsRInv
<1>4. CASE Go("reader") \/ Go("asking") \/ Go("resolve")
    BY <1>1, <1>4 DEF RInv, Sorts, GateInv, ErrorInv, LeftInv, ExitInv, Go, Cli
<1> QED
    BY <1>2, <1>3, <1>4 DEF Resolve, Provided

LEMMA NewReaderRInv == RInv /\ NewReader => RInv'
<1> SUFFICES ASSUME RInv, NewReader PROVE RInv'
    OBVIOUS
<1>1. /\ pc = "reader" /\ error = "none"
      /\ UNCHANGED <<request, ctx, stdout, stderr, exit, file, safe>>
    BY DEF NewReader, RInv, ErrorInv, terminals, disk
<1>2. ASSUME NEW f \in Flaws, RuntimeFails(KindOf[f]) PROVE RInv'
    BY <1>1, <1>2, Kinds, FailsRInv
<1>3. CASE RuntimeFails("missing_credentials")
    BY <1>1, <1>3, Contexts, FailsRInv
<1>4. ASSUME Passed(ReaderChecks), Go("read") PROVE RInv'
    BY <1>1, <1>4, ReaderPassed DEF RInv, Sorts, GateInv, ErrorInv, LeftInv,
       ExitInv, Go, Cli
<1> QED
    BY <1>2, <1>3, <1>4 DEF NewReader

-----------------------------------------------------------------------------
(* The executor, whose failures are told to the stream first.              *)

LEMMA FailWithRInv ==
    ASSUME RInv, pc \in {"started", "loading"}, NEW kind \in DOMAIN ExitCode, kind # "none",
           FailWith(kind), UNCHANGED <<request, ctx, terminals, disk>>
    PROVE  RInv'
BY DEF FailWith, RInv, Sorts, GateInv, ErrorInv, LeftInv, ExitInv, terminals,
   disk

LEMMA AbortRInv ==
    ASSUME RInv, pc \in {"started", "record"}, Abort, UNCHANGED <<request, ctx, terminals, disk>>
    PROVE  RInv'
BY Contexts DEF Abort, RInv, Sorts, GateInv, ErrorInv, LeftInv, ExitInv,
   terminals, disk

LEMMA NarrowingRInv == RInv /\ Narrowing => RInv'
<1> SUFFICES ASSUME RInv, Narrowing PROVE RInv'
    OBVIOUS
<1>1. pc = "started" /\ UNCHANGED <<request, ctx, terminals, disk>>
    BY DEF Narrowing, terminals, disk
<1>2. CASE Abort
    BY <1>1, <1>2, AbortRInv
<1>3. ASSUME NEW f \in Flaws, FailWith(KindOf[f]) PROVE RInv'
    BY <1>1, <1>3, Kinds, FailWithRInv
<1>4. ASSUME Passed(RequestChecks), Go("load") PROVE RInv'
    <2>1. ~FromDump => Wrong = {}
        BY <1>1, <1>4, RequestPassed, FlawsOf DEF RInv, GateInv
    <2> QED
        BY <1>1, <1>4, <2>1 DEF RInv, Sorts, GateInv, ErrorInv, LeftInv,
           ExitInv, Go, terminals, disk
<1> QED
    BY <1>2, <1>3, <1>4 DEF Narrowing

LEMMA LoadedRInv == RInv /\ Loaded => RInv'
<1> SUFFICES ASSUME RInv, Loaded PROVE RInv'
    OBVIOUS
<1>1. pc = "loading" /\ UNCHANGED <<request, ctx, terminals, disk>>
    BY DEF Loaded
<1>2. ASSUME NEW kind \in Failures, FailWith(kind) PROVE RInv'
    <2>1. kind \in DOMAIN ExitCode /\ kind # "none"
        BY Contexts DEF Failures, RInv, Sorts
    <2> QED
        BY <1>1, <1>2, <2>1, FailWithRInv
<1>3. CASE FailWith("live_access_failed") \/ FailWith("not_found") \/ FailWith("unsupported_operation")
    BY <1>1, <1>3, Contexts, FailWithRInv
<1>4. CASE ctx # "live" /\ FailWith(ctx)
    BY <1>1, <1>4, Contexts, FailWithRInv DEF RInv, Sorts
<1>5. CASE Go("record")
    BY <1>1, <1>5 DEF RInv, Sorts, GateInv, ErrorInv, LeftInv, ExitInv, Go,
       terminals, disk
<1> QED
    BY <1>2, <1>3, <1>4, <1>5 DEF Loaded, FromService, FromCollection,
       GetFromCollection

LEMMA ExecutorRInv == RInv /\ (Read \/ Load \/ Emitting \/ Ending \/ Sink) => RInv'
<1> SUFFICES ASSUME RInv, Read \/ Load \/ Emitting \/ Ending \/ Sink PROVE RInv'
    OBVIOUS
<1> USE DEF RInv, Sorts, GateInv, ErrorInv, LeftInv, ExitInv, Go, Cli, terminals, disk
<1>1. CASE Read
    BY <1>1 DEF Read
<1>2. CASE Load
    BY <1>2 DEF Load
<1>3. CASE Emitting
    <2>1. pc = "record" /\ UNCHANGED <<request, ctx, terminals, disk>>
        BY <1>3 DEF Emitting
    <2>2. CASE Abort
        BY <2>1, <2>2, AbortRInv
    <2>3. CASE UNCHANGED <<pc, error>> \/ Go("completed")
        BY <2>1, <2>3
    <2> QED
        BY <1>3, <2>2, <2>3 DEF Emitting
<1>4. CASE Ending
    BY <1>4, Contexts DEF Ending
<1>5. CASE Sink
    BY <1>5 DEF Sink
<1> QED
    BY <1>1, <1>2, <1>3, <1>4, <1>5

-----------------------------------------------------------------------------
(* The answer.                                                             *)

LEMMA RenderRInv == RInv /\ Render => RInv'
<1> SUFFICES ASSUME RInv, Render PROVE RInv'
    OBVIOUS
<1>1. pc = "answered" /\ UNCHANGED <<request, ctx, stderr, exit, file, safe>>
    BY DEF Render, disk
<1>2. CASE (error # "none" \/ ~Cli) /\ Go("report") /\ UNCHANGED stdout
    BY <1>1, <1>2 DEF RInv, Sorts, GateInv, ErrorInv, LeftInv, ExitInv, Go, Cli
<1>3. CASE error = "none" /\ Refuse("internal") /\ stdout' \in {"none", "part"}
    BY <1>1, <1>3, Contexts, RefuseRInv
<1>4. CASE error = "none" /\ request.output /\ Go("inspect") /\ UNCHANGED stdout
    BY <1>1, <1>4 DEF RInv, Sorts, GateInv, ErrorInv, LeftInv, ExitInv, Go, Cli
<1>5. CASE error = "none" /\ ~request.output /\ stdout' = "whole" /\ Go("report")
    BY <1>1, <1>5 DEF RInv, Sorts, GateInv, ErrorInv, LeftInv, ExitInv, Go, Cli
<1> QED
    BY <1>2, <1>3, <1>4, <1>5 DEF Render

LEMMA FileRInv == RInv /\ (Inspect \/ Create \/ Fill \/ Sync \/ Rename) => RInv'
<1> SUFFICES ASSUME RInv, Inspect \/ Create \/ Fill \/ Sync \/ Rename PROVE RInv'
    OBVIOUS
<1>1. pc \in WithFile /\ error = "none" /\ UNCHANGED <<request, ctx, stdout, stderr, exit>>
    BY DEF Inspect, Create, Fill, Sync, Rename, RInv, ErrorInv, terminals
<1>2. CASE (Refuse("usage") \/ Discard) /\ UNCHANGED <<file, safe>>
    BY <1>1, <1>2, Contexts, RefuseRInv DEF Discard
<1>3. CASE (Go("create") \/ Go("fill") \/ Go("sync")) /\ UNCHANGED <<file, safe>>
    BY <1>1, <1>3 DEF RInv, Sorts, GateInv, ErrorInv, LeftInv, ExitInv, Go, Cli
<1>4. CASE Go("rename") /\ safe' = TRUE /\ UNCHANGED file
    BY <1>1, <1>4 DEF RInv, Sorts, GateInv, ErrorInv, LeftInv, ExitInv, Go, Cli
<1>5. CASE pc = "rename" /\ Go("report") /\ file' = "mine" /\ UNCHANGED safe
    BY <1>1, <1>5 DEF RInv, Sorts, GateInv, ErrorInv, LeftInv, ExitInv, Go, Cli
<1> QED
    BY <1>2, <1>3, <1>4, <1>5 DEF Inspect, Create, Fill, Sync, Rename, disk

LEMMA ReportRInv == RInv /\ Report => RInv'
<1> SUFFICES ASSUME RInv, Report PROVE RInv'
    OBVIOUS
<1>1. /\ pc = "report" /\ pc' = "over"
      /\ UNCHANGED <<request, ctx, error, stdout, file, safe>>
    BY DEF Report, disk
<1>2. CASE ~Cli /\ UNCHANGED <<exit, stderr>>
    BY <1>1, <1>2 DEF RInv, Sorts, GateInv, ErrorInv, LeftInv, ExitInv
<1>3. CASE /\ Cli /\ exit' = ExitCode[error]
           /\ stderr' = IF error # "none" THEN {"error"} ELSE IF notices THEN {"notices"} ELSE {}
    BY <1>1, <1>3 DEF RInv, Sorts, GateInv, ErrorInv, LeftInv, ExitInv
<1> QED
    BY <1>2, <1>3 DEF Report

LEMMA EnvironmentRInv == RInv /\ (EndContext \/ OtherRun \/ Kill \/ PowerLoss \/ UNCHANGED vars) => RInv'
<1> SUFFICES ASSUME RInv, EndContext \/ OtherRun \/ Kill \/ PowerLoss \/ UNCHANGED vars PROVE RInv'
    OBVIOUS
<1> USE DEF RInv, Sorts, GateInv, ErrorInv, LeftInv, ExitInv, Cli, terminals, disk, Alive
<1>1. CASE EndContext
    BY <1>1 DEF EndContext
<1>2. CASE OtherRun
    BY <1>2 DEF OtherRun
<1>3. CASE Kill
    BY <1>3 DEF Kill
<1>4. CASE PowerLoss
    BY <1>4 DEF PowerLoss
<1>5. CASE UNCHANGED vars
    BY <1>5 DEF vars
<1> QED
    BY <1>1, <1>2, <1>3, <1>4, <1>5

-----------------------------------------------------------------------------

LEMMA NextRInv == RInv /\ [Next]_vars => RInv'
BY CheckRInv, OpenDumpRInv, SettingsRInv, SecretsRInv, NewReaderRInv,
   NarrowingRInv, LoadedRInv, ExecutorRInv, RenderRInv, FileRInv, ReportRInv,
   EnvironmentRInv DEF Next, Stopped

(* A read is always in one of the states that the parts of RInv describe   *)
(* (App.Run, Executor.ExecuteStream, writeOutputFile).                     *)
THEOREM RInvCorrect == Spec => []RInv
BY InitRInv, NextRInv, PTL DEF Spec

(* The exit code tells whether there is an answer, and no answer is left   *)
(* under an exit code that says there is none (App.Run, runApp).           *)
THEOREM ExitCodesTell == Spec => []ExitTells
<1>1. RInv => ExitTells
    BY ExitCodes, NoExitCode DEF RInv, Sorts, LeftInv, ExitInv, ExitTells
<1> QED
    BY <1>1, RInvCorrect, PTL

(* The file of --output is never half written, whenever power is lost      *)
(* (writeOutputFile).                                                      *)
THEOREM FilesAreNeverTorn == Spec => [](file # "torn")
<1>1. RInv => file # "torn"
    BY DEF RInv, LeftInv
<1> QED
    BY <1>1, RInvCorrect, PTL

(* No provider and no tenant is asked for a read that the checks before    *)
(* could have refused, and the end of the context is not blamed on a       *)
(* provider (readerConfigFromConfig, runProductWithRuntime).               *)
THEOREM NothingIsInVain == Spec => NothingInVain
<1> DEFINE A ==
      /\ asked' # asked \/ contacted' # contacted => ~FromDump
      /\ asked' # asked => Wrong \cap
             ({"config", "profile", "settings", "incomplete"} \cup
              IF Cli THEN {"usage", "field", "resource"} ELSE {}) = {}
      /\ contacted' # contacted => Wrong = {}
      /\ pc = "asking" /\ error' = "missing_credentials" => ctx = "live" \/ ~Cli
<1>1. RInv /\ [Next]_vars => [A]_vars
    <2> SUFFICES ASSUME RInv, Next PROVE A
        OBVIOUS
    <2>1. asked' # asked => pc \in {"resolve"}
        BY DEF Next, Check, OpenDump, Settings, Resolve, Provided, NewReader,
           Read, Narrowing, Load, Loaded, FromService, FromCollection,
           GetFromCollection, Emitting, Ending, Sink, Render, Inspect,
           Create, Fill, Sync, Rename, Report, EndContext, OtherRun, Kill,
           PowerLoss, Stopped, vars
    <2>2. contacted' # contacted => pc = "load" /\ ~FromDump
        BY DEF Next, Check, OpenDump, Settings, Resolve, Provided, NewReader,
           Read, Narrowing, Load, Loaded, FromService, FromCollection,
           GetFromCollection, Emitting, Ending, Sink, Render, Inspect,
           Create, Fill, Sync, Rename, Report, EndContext, OtherRun, Kill,
           PowerLoss, Stopped, vars, answer
    <2>3. pc = "asking" => error = "none" /\ (Provided \/ error' = error)
        BY DEF RInv, ErrorInv, Next, Check, OpenDump, Settings, Resolve,
           NewReader, Read, Narrowing, Load, Loaded, FromService,
           FromCollection, GetFromCollection, Emitting, Ending, Sink, Render,
           Inspect, Create, Fill, Sync, Rename, Report, EndContext, OtherRun,
           Kill, PowerLoss, Stopped, vars
    <2>4. error = "none" /\ Provided /\ error' = "missing_credentials" => ctx = "live" \/ ~Cli
        BY DEF RInv, Sorts, Provided, RuntimeFails, Refuse, Go
    <2> QED
        BY <2>1, <2>2, <2>3, <2>4 DEF RInv, GateInv
<1> QED
    BY <1>1, RInvCorrect, PTL DEF Spec, NothingInVain

-----------------------------------------------------------------------------
(* Addresses and paths.                                                    *)

(* What a front is, and a front of a front.                                *)
LEMMA FrontIsSeq ==
    ASSUME NEW S, NEW s \in Seq(S), NEW n \in 0..Len(s)
    PROVE  /\ UpTo(s, n) \in Seq(S)
           /\ Len(UpTo(s, n)) = n
           /\ \A i \in 1..n : UpTo(s, n)[i] = s[i]
BY SubSeqProperties DEF UpTo

LEMMA FrontOfFront ==
    ASSUME NEW S, NEW s \in Seq(S), NEW n \in 0..Len(s), NEW m \in 0..n
    PROVE  UpTo(UpTo(s, n), m) = UpTo(s, m)
<1>1. UpTo(s, n) \in Seq(S) /\ Len(UpTo(s, n)) = n /\ \A i \in 1..n : UpTo(s, n)[i] = s[i]
    BY FrontIsSeq
<1>2. /\ UpTo(s, m) \in Seq(S) /\ Len(UpTo(s, m)) = m
      /\ \A i \in 1..m : UpTo(s, m)[i] = s[i]
    BY FrontIsSeq
<1>3. /\ UpTo(UpTo(s, n), m) \in Seq(S) /\ Len(UpTo(UpTo(s, n), m)) = m
      /\ \A i \in 1..m : UpTo(UpTo(s, n), m)[i] = UpTo(s, n)[i]
    BY <1>1, FrontIsSeq
<1> QED
    BY <1>1, <1>2, <1>3, SeqEqual

LEMMA WholeFront ==
    ASSUME NEW S, NEW s \in Seq(S)
    PROVE  UpTo(s, Len(s)) = s
BY SubSeqFull DEF UpTo

(* The path of an address is as long as it, front for front.               *)
LEMMA PathOfAddress ==
    ASSUME NEW a \in Address
    PROVE  /\ Path(a) \in Seq(STRING)
           /\ DOMAIN Path(a) = 1..Len(a)
           /\ Len(Path(a)) = Len(a)
           /\ Len(a) \in Nat \ {0}
           /\ a \in Seq([name : STRING, item : Nat])
<1>1. a \in Seq([name : STRING, item : Nat]) /\ Len(a) \in Nat /\ DOMAIN a = 1..Len(a) /\ a # <<>>
    BY DEF Address
<1>2. Len(a) # 0
    BY <1>1, EmptySeq
<1>3. Path(a) \in [1..Len(a) -> STRING]
    <2>1. \A n \in 1..Len(a) : a[n] \in [name : STRING, item : Nat]
        BY <1>1, ElementOfSeq
    <2> QED
        BY <1>1, <2>1 DEF Path
<1>4. Path(a) \in Seq(STRING) /\ Len(Path(a)) = Len(a)
    <2>1. Path(a) \in Seq(STRING)
        BY <1>1, <1>3, SeqDef
    <2> QED
        BY <1>1, <1>3, <2>1, LenProperties
<1> QED
    BY <1>1, <1>2, <1>3, <1>4

LEMMA PathOfFront ==
    ASSUME NEW a \in Address, NEW n \in 1..Len(a)
    PROVE  UpTo(a, n) \in Address /\ Path(UpTo(a, n)) = UpTo(Path(a), n)
<1>1. /\ Path(a) \in Seq(STRING) /\ Len(Path(a)) = Len(a) /\ DOMAIN Path(a) = 1..Len(a)
      /\ a \in Seq([name : STRING, item : Nat]) /\ Len(a) \in Nat
      /\ n \in 0..Len(a) /\ n \in 0..Len(Path(a))
    BY PathOfAddress
<1>2. UpTo(a, n) \in Seq([name : STRING, item : Nat]) /\ Len(UpTo(a, n)) = n /\ \A i \in 1..n : UpTo(a, n)[i] = a[i]
    BY <1>1, FrontIsSeq
<1>3. UpTo(a, n) \in Address
    BY <1>1, <1>2, EmptySeq DEF Address
<1>4. /\ Path(UpTo(a, n)) \in Seq(STRING) /\ Len(Path(UpTo(a, n))) = n
      /\ DOMAIN Path(UpTo(a, n)) = 1..n
    BY <1>2, <1>3, PathOfAddress
<1>5. /\ UpTo(Path(a), n) \in Seq(STRING) /\ Len(UpTo(Path(a), n)) = n
      /\ \A i \in 1..n : UpTo(Path(a), n)[i] = Path(a)[i]
    BY <1>1, FrontIsSeq
<1>6. \A i \in 1..n : Path(UpTo(a, n))[i] = UpTo(Path(a), n)[i]
    <2> SUFFICES ASSUME NEW i \in 1..n PROVE Path(UpTo(a, n))[i] = UpTo(Path(a), n)[i]
        OBVIOUS
    <2>1. i \in DOMAIN UpTo(a, n) /\ i \in DOMAIN a
        BY <1>1, <1>2, LenProperties
    <2>2. Path(UpTo(a, n))[i] = UpTo(a, n)[i].name /\ Path(a)[i] = a[i].name
        BY <2>1 DEF Path
    <2> QED
        BY <1>2, <1>5, <2>2
<1> QED
    BY <1>3, <1>4, <1>5, <1>6, SeqEqual

(* What is rendered is rendered in what renders around it.                 *)
LEMMA RenderedFront ==
    ASSUME NEW mode, NEW path \in Seq(STRING), NEW n \in 1..Len(path), RenderedIn(path, mode)
    PROVE  RenderedIn(UpTo(path, n), mode)
<1>1. UpTo(path, n) \in Seq(STRING) /\ Len(UpTo(path, n)) = n
    BY FrontIsSeq
<1>2. DOMAIN UpTo(path, n) = 1..n /\ DOMAIN path = 1..Len(path)
    BY <1>1, LenProperties
<1>3. \A m \in 1..n : UpTo(UpTo(path, n), m) = UpTo(path, m)
    BY FrontOfFront
<1> QED
    BY <1>2, <1>3 DEF RenderedIn

-----------------------------------------------------------------------------
(* What rendered output may hold.                                          *)
Rendered(r, mode) ==
    \A a \in DOMAIN r :
        /\ a \in Address
        /\ RenderedIn(Path(a), mode)
        /\ r[a] \in Text \cup {"null", "list", "object"}
        /\ r[a] \in Text => Scanned(Path(a), mode, r[a]) = r[a]

(* A scan returns a text that is left by another one.                      *)
LEMMA ScannedIsText ==
    ASSUME NEW mode \in Mode, NEW path, NEW text \in Text
    PROVE  /\ Scanned(path, mode, text) \in Text
           /\ Scanned(path, mode, Scanned(path, mode, text)) = Scanned(path, mode, text)
<1>1. KindOfField(path, mode) \in ScanKind
    BY DEF KindOfField, ScanKind
<1>2. Scan[mode][KindOfField(path, mode)] \in [Text -> Text]
    BY <1>1, CatalogAssumption
<1> QED
    BY <1>1, <1>2, ScanAssumption DEF Scanned

(* What a kept leaf can be.                                                *)
LEMMA ProjectedLeaf ==
    ASSUME NEW mode \in Mode, NEW r, IsRecord(r), ~Broken(r, mode), NEW a \in Kept(r, mode)
    PROVE  /\ a \in DOMAIN r
           /\ a \in Address
           /\ RenderedIn(Path(a), mode)
           /\ r[a] \in Text \cup {"null", "confirmed"}
<1>1. a \in DOMAIN r /\ a \in Address /\ RenderedIn(Path(a), mode) /\ r[a] \in Leaf /\ r[a] # "list"
    BY DEF Kept, IsRecord
<1>2. CASE r[a] # "confirmed"
    <2>1. ~HasFields(Path(a)) /\ Plain(r, a)
        BY <1>2 DEF Kept
    <2>2. r[a] # "object"
        BY <1>1, <2>1, PathOfAddress DEF Plain
    <2>3. Len(a) \in DOMAIN a /\ UpTo(Path(a), Len(a)) = Path(a)
        BY <1>1, PathOfAddress, WholeFront, LenProperties
    <2>4. r[a] # "unsupported"
        BY <1>1, <2>1, <2>3 DEF Broken
    <2> QED
        BY <1>1, <1>2, <2>2, <2>4 DEF Leaf, Shapes
<1> QED
    BY <1>1, <1>2

(* What is projected may be rendered, and holds no object as a leaf.       *)
LEMMA ProjectionRenders ==
    ASSUME NEW mode \in Mode, NEW r, IsRecord(r), ~Broken(r, mode)
    PROVE  /\ Rendered(Project(r, mode), mode)
           /\ \A a \in DOMAIN Project(r, mode) : Project(r, mode)[a] # "object"
<1> SUFFICES ASSUME NEW a \in DOMAIN Project(r, mode)
             PROVE  /\ a \in Address
                    /\ RenderedIn(Path(a), mode)
                    /\ Project(r, mode)[a] \in Text \cup {"null", "list"}
                    /\ Project(r, mode)[a] \in Text =>
                          Scanned(Path(a), mode, Project(r, mode)[a]) = Project(r, mode)[a]
    BY CatalogAssumption DEF Rendered, Shapes
<1>1. a \in Kept(r, mode)
    BY DEF Project
<1>2. /\ a \in Address /\ RenderedIn(Path(a), mode)
      /\ r[a] \in Text \cup {"null", "confirmed"}
    BY <1>1, ProjectedLeaf
<1>3. CASE r[a] = "confirmed"
    BY <1>1, <1>2, <1>3, CatalogAssumption DEF Project, Shapes
<1>4. CASE r[a] \in Text
    <2>1. r[a] # "confirmed"
        BY <1>4, CatalogAssumption DEF Shapes
    <2>2. Project(r, mode)[a] = Scanned(Path(a), mode, r[a])
        BY <1>1, <1>4, <2>1 DEF Project
    <2> QED
        BY <1>2, <1>4, <2>2, ScannedIsText
<1>5. CASE r[a] = "null"
    BY <1>1, <1>2, <1>5, CatalogAssumption DEF Project, Shapes
<1> QED
    BY <1>2, <1>3, <1>4, <1>5

(* What is projected is verified.                                          *)
LEMMA ProjectionVerifies ==
    ASSUME NEW mode \in Mode, NEW r, IsRecord(r), ~Broken(r, mode)
    PROVE  Verified(Project(r, mode), mode)
BY ProjectionRenders, CatalogAssumption DEF Verified, Rendered, Shapes

(* To project it once more leaves it as it is.                             *)
LEMMA ProjectionIsAdmitted ==
    ASSUME NEW mode \in Mode, NEW r, IsRecord(r), ~Broken(r, mode)
    PROVE  Admitted(Project(r, mode), mode)
<1> DEFINE p == Project(r, mode)
           c == Confirm(p)
<1>1. DOMAIN p = Kept(r, mode) /\ DOMAIN c = Kept(r, mode) /\ Kept(r, mode) \subseteq DOMAIN r
    BY DEF Project, Confirm, Kept
<1>2. \A a \in Kept(r, mode) :
        /\ RenderedIn(Path(a), mode)
        /\ r[a] \in Text \cup {"null", "confirmed"}
    BY ProjectedLeaf
<1>3. \A a \in Kept(r, mode) :
        /\ r[a] = "confirmed" => p[a] = "list"
        /\ r[a] \in Text => p[a] = Scanned(Path(a), mode, r[a]) /\ p[a] \in Text
        /\ r[a] = "null" => p[a] = "null"
    <2> SUFFICES ASSUME NEW a \in Kept(r, mode)
                 PROVE  /\ r[a] = "confirmed" => p[a] = "list"
                        /\ r[a] \in Text => p[a] = Scanned(Path(a), mode, r[a]) /\ p[a] \in Text
                        /\ r[a] = "null" => p[a] = "null"
        OBVIOUS
    <2>1. "confirmed" \notin Text /\ "null" \notin Text
        BY CatalogAssumption DEF Shapes
    <2> QED
        BY <2>1, ScannedIsText DEF Project
<1>4. \A a \in Kept(r, mode) :
        /\ r[a] = "confirmed" => c[a] = "confirmed"
        /\ r[a] # "confirmed" => c[a] = p[a] /\ c[a] \in Text \cup {"null"}
    <2>1. "list" \notin Text
        BY CatalogAssumption DEF Shapes
    <2> QED
        BY <1>1, <1>2, <1>3, <2>1 DEF Confirm
<1>5. ~Broken(c, mode)
    <2>1. "unsupported" \notin Text
        BY CatalogAssumption DEF Shapes
    <2> QED
        BY <1>1, <1>4, <2>1 DEF Broken
<1>6. Kept(c, mode) = Kept(r, mode)
    <2>1. \A a \in Kept(r, mode) : c[a] # "list" /\ c[a] # "object"
        BY <1>2, <1>4, CatalogAssumption DEF Shapes
    <2>2. ASSUME NEW a \in Kept(r, mode), r[a] # "confirmed" PROVE ~HasFields(Path(a)) /\ Plain(c, a)
        <3>1. ~HasFields(Path(a)) /\ Plain(r, a)
            BY <2>2 DEF Kept
        <3> QED
            BY <1>1, <2>1, <3>1 DEF Plain
    <2>3. Kept(c, mode) \subseteq Kept(r, mode)
        BY <1>1 DEF Kept
    <2>4. ASSUME NEW a \in Kept(r, mode) PROVE a \in Kept(c, mode)
        BY <1>1, <1>2, <1>4, <2>1, <2>2 DEF Kept
    <2> QED
        BY <2>3, <2>4
<1>7. Project(c, mode) = p
    <2>1. \A a \in Kept(r, mode) : Project(c, mode)[a] = p[a]
        <3> SUFFICES ASSUME NEW a \in Kept(r, mode) PROVE Project(c, mode)[a] = p[a]
            OBVIOUS
        <3>1. "confirmed" \notin Text /\ "null" \notin Text
            BY CatalogAssumption DEF Shapes
        <3>2. Project(c, mode)[a] = CASE c[a] = "confirmed" -> "list"
                                      [] c[a] \in Text -> Scanned(Path(a), mode, c[a])
                                      [] OTHER -> c[a]
            BY <1>6 DEF Project
        <3>3. CASE r[a] = "confirmed"
            BY <1>3, <1>4, <3>1, <3>2, <3>3
        <3>4. CASE r[a] \in Text
            BY <1>3, <1>4, <3>1, <3>2, <3>4, ScannedIsText
        <3>5. CASE r[a] = "null"
            BY <1>3, <1>4, <3>1, <3>2, <3>5
        <3> QED
            BY <1>2, <3>3, <3>4, <3>5
    <2>2. DOMAIN Project(c, mode) = DOMAIN p
        BY <1>1, <1>6 DEF Project
    <2> QED
        BY <1>1, <2>1, <2>2 DEF Project
<1> QED
    BY <1>5, <1>7, ProjectionVerifies DEF Admitted

(* What a dump is admitted with is rendered as well.                       *)
LEMMA AdmittedIsRendered ==
    ASSUME NEW mode \in Mode, NEW r, IsRecord(r), Admitted(r, mode)
    PROVE  Rendered(r, mode)
<1>1. IsRecord(Confirm(r))
    BY DEF IsRecord, Confirm, Leaf, Shapes
<1> QED
    BY <1>1, ProjectionRenders DEF Admitted

(* Narrowing leaves rendered output rendered, and only what was asked for. *)
LEMMA SelectionIsRendered ==
    ASSUME NEW mode \in Mode, NEW r, Rendered(r, mode), NEW fields
    PROVE  /\ \A a \in DOMAIN Select(r, fields) :
                 /\ RenderedIn(Path(a), mode)
                 /\ OnWay(Path(a), fields)
                 /\ Select(r, fields)[a] \in Text \cup {"null", "list", "object"}
                 /\ Select(r, fields)[a] \in Text =>
                       Scanned(Path(a), mode, Select(r, fields)[a]) = Select(r, fields)[a]
<1> DEFINE leaves == {a \in DOMAIN r : OnWay(Path(a), fields)}
           around == UNION {{UpTo(a, n) : n \in 1..Len(a) - 1} : a \in DOMAIN r}
           emptied == {b \in around :
                          /\ OnWay(Path(b), fields)
                          /\ \A a \in DOMAIN r : Len(a) > Len(b) /\ Begins(b, a) =>
                                ~OnWay(UpTo(Path(a), Len(b) + 1), fields)}
<1>1. Select(r, fields) = [a \in leaves \cup emptied |-> IF a \in leaves THEN r[a] ELSE "object"]
    BY DEF Select
<1>2. ASSUME NEW a \in leaves
      PROVE  /\ Select(r, fields)[a] = r[a]
             /\ a \in DOMAIN r /\ OnWay(Path(a), fields)
    BY <1>1
<1>3. ASSUME NEW b \in emptied, b \notin leaves
      PROVE  /\ Select(r, fields)[b] = "object"
             /\ OnWay(Path(b), fields)
             /\ RenderedIn(Path(b), mode)
    <2>1. PICK a \in DOMAIN r : \E n \in 1..Len(a) - 1 : b = UpTo(a, n)
        OBVIOUS
    <2>2. PICK n \in 1..Len(a) - 1 : b = UpTo(a, n)
        BY <2>1
    <2>3. a \in Address /\ RenderedIn(Path(a), mode)
        BY DEF Rendered
    <2>4. n \in 1..Len(a) /\ Path(a) \in Seq(STRING) /\ Len(Path(a)) = Len(a)
        BY <2>3, PathOfAddress
    <2>5. Path(b) = UpTo(Path(a), n)
        BY <2>2, <2>3, <2>4, PathOfFront
    <2>6. RenderedIn(Path(b), mode)
        BY <2>3, <2>4, <2>5, RenderedFront
    <2> QED
        BY <1>1, <1>3, <2>6
<1>4. "object" \notin Text
    BY CatalogAssumption DEF Shapes
<1> QED
    BY <1>1, <1>2, <1>3, <1>4 DEF Rendered

-----------------------------------------------------------------------------
(* What has been read, until it is emitted.                                *)

WithDump == {"read", "started", "load", "loading"}

(* A dump that was opened is admitted, record by record.                   *)
DumpFit == \A n \in DOMAIN request.dump.records : Admitted(request.dump.records[n], ModeOf)
(* What was loaded can be projected, or is.                                *)
LoadedFit ==
    IF FromDump THEN \A n \in DOMAIN loaded : Admitted(loaded[n], ModeOf) ELSE Fit(loaded, ModeOf)

LoadInv ==
    /\ request \in Requests
    /\ loaded \in Seq(Record)
    /\ LoadedFit
    /\ FromDump /\ pc \in WithDump => DumpFit
    /\ pc \in {"load", "loading", "record"} => "hidden" \notin Wrong

(* A dump, and what was loaded, stays fit while the request is the same.   *)
LEMMA LoadStays ==
    /\ UNCHANGED request => UNCHANGED <<Wrong, FromDump, DumpFit>>
    /\ UNCHANGED <<request, loaded>> => UNCHANGED LoadedFit
BY DEF Wrong, RowsNarrowed, ModeOf, FromDump, DumpFit, LoadedFit

LEMMA InitLoadInv == Init => LoadInv
BY DEF Init, LoadInv, Fit, WithDump, LoadedFit

LEMMA NextLoadInv == RInv /\ LoadInv /\ [Next]_vars => LoadInv'
<1> SUFFICES ASSUME RInv, LoadInv, [Next]_vars PROVE LoadInv'
    OBVIOUS
<1> USE LoadStays DEF WithDump
<1>1. UNCHANGED request
    BY DEF Next, Check, OpenDump, Settings, Resolve, Provided, NewReader,
       Read, Narrowing, Load, Loaded, FromService, FromCollection,
       GetFromCollection, Emitting, Ending, Sink, Render, Inspect, Create,
       Fill, Sync, Rename, Report, EndContext, OtherRun, Kill, PowerLoss,
       Stopped, vars
<1>2. CASE OpenDump
    <2>1. UNCHANGED loaded
        BY <1>2 DEF OpenDump, answer
    <2>2. FromDump /\ pc' \in WithDump => DumpFit
        BY <1>2 DEF OpenDump, CollectionAdmitted, Refuse, Go, ModeOf, DumpFit
    <2>3. pc' \notin {"load", "loading", "record"}
        BY <1>2 DEF OpenDump, Refuse, Go
    <2> QED
    BY <1>1, <2>1, <2>2, <2>3 DEF LoadInv
<1>3. CASE Narrowing
    BY <1>1, <1>3 DEF Narrowing, LoadInv, Passed, RequestChecks, Go,
       FailWith, Abort, answer
<1>4. CASE Load
    BY <1>1, <1>4 DEF Load, LoadInv, Go
<1>5. CASE Loaded
    <2>1. ASSUME UNCHANGED loaded, NEW kind, FailWith(kind) PROVE LoadInv'
        BY <1>1, <2>1 DEF LoadInv, FailWith
    <2>2. ASSUME ~FromDump, NEW list \in Lists, Fit(list, ModeOf), loaded' = list, Go("record")
          PROVE  LoadInv'
      <3>1. LoadedFit'
        <4>1. FromDump' = FromDump /\ ModeOf' = ModeOf
          BY <1>1 DEF FromDump, ModeOf
        <4> QED
          BY <2>2, <4>1 DEF LoadedFit
      <3> QED
        BY <1>1, <1>5, <2>2, <3>1, ReadAssumption DEF LoadInv, Go, Loaded
    <2>3. FromDump => DumpFit /\ request.dump.records \in Seq(Record)
        BY <1>5, ReadAssumption DEF LoadInv, Loaded, FromDump, Dump
    <2>4. ASSUME FromDump, loaded' \in Seq(Record), Go("record"),
                 \A n \in DOMAIN loaded' : \E m \in DOMAIN request.dump.records :
                    loaded'[n] = request.dump.records[m]
          PROVE  LoadInv'
      <3>1. LoadedFit'
        <4>1. FromDump' = FromDump /\ ModeOf' = ModeOf
          BY <1>1 DEF FromDump, ModeOf
        <4> QED
          BY <2>3, <2>4, <4>1 DEF LoadedFit, DumpFit
      <3> QED
        BY <1>1, <1>5, <2>4, <3>1 DEF LoadInv, Go, Loaded
    <2>5. ASSUME FromDump, loaded' = request.dump.records, Go("record") PROVE LoadInv'
        BY <2>3, <2>4, <2>5
    <2>6. ASSUME FromDump, NEW n \in DOMAIN request.dump.records, loaded' = <<request.dump.records[n]>>,
                 Go("record")
          PROVE  LoadInv'
        <3>1. request.dump.records[n] \in Record
            BY <2>3, <2>6, ElementOfSeq, LenProperties
        <3> QED
            BY <2>4, <2>6, <3>1
    <2> QED
        BY <1>5, <2>1, <2>2, <2>5, <2>6 DEF Loaded, FromService,
           FromCollection, GetFromCollection
<1>6. ASSUME UNCHANGED loaded, pc' \in {"load", "loading", "record"} => pc' = pc,
             FromDump /\ pc' \in WithDump => pc \in WithDump
      PROVE  LoadInv'
    BY <1>1, <1>6 DEF LoadInv
<1>7. CASE Check \/ Settings \/ Resolve \/ Provided \/ NewReader
    BY <1>6, <1>7 DEF Check, Settings, Resolve, Provided, NewReader, RInv,
       GateInv, RuntimeFails, Refuse, Go, answer
<1>8. CASE Read \/ Emitting \/ Ending \/ Sink
    BY <1>6, <1>8 DEF Read, Emitting, Ending, Sink, Abort, Go, answer
<1>9. CASE Render \/ Inspect \/ Create \/ Fill \/ Sync \/ Rename \/ Report
    BY <1>6, <1>9 DEF Render, Inspect, Create, Fill, Sync, Rename, Report,
       Discard, Refuse, Go, answer
<1>10. CASE EndContext \/ OtherRun \/ Kill \/ PowerLoss \/ UNCHANGED vars
    BY <1>6, <1>10 DEF EndContext, OtherRun, Kill, PowerLoss, vars, answer
<1> QED
    BY <1>2, <1>3, <1>4, <1>5, <1>7, <1>8, <1>9, <1>10 DEF Next, Stopped

(* A read has a mode, that of the request or that of its dump.             *)
LEMMA ModeIsOne == request \in Requests => ModeOf \in Mode
BY ReadAssumption DEF ModeOf, FromDump, Dump

LEMMA EachIsRecord == \A r \in Record : IsRecord(r)
BY ReadAssumption

LEMMA LoadInvCorrect == Spec => [](RInv /\ LoadInv)
BY InitRInv, NextRInv, InitLoadInv, NextLoadInv, PTL DEF Spec

(* What rendering asks of a field is what its review says.                 *)
LEMMA ReviewedWhereRendered ==
    ASSUME NEW path, RenderedIn(path, ModeOf)
    PROVE  Reviewed(path)
BY DEF RenderedIn, AllowedIn, Reviewed

(* What filters look at, and what fields are selected from.                *)
LEMMA ViewIsRendered ==
    ASSUME LoadInv, NEW n \in DOMAIN loaded
    PROVE  Rendered(View(loaded[n]), ModeOf)
<1>1. ModeOf \in Mode /\ IsRecord(loaded[n])
    BY ModeIsOne, EachIsRecord, ElementOfSeq, LenProperties DEF LoadInv
<1>2. CASE FromDump
    BY <1>1, <1>2, AdmittedIsRendered DEF LoadInv, LoadedFit, View
<1>3. CASE ~FromDump
    BY <1>1, <1>3, ProjectionRenders DEF LoadInv, LoadedFit, View, Fit
<1> QED
    BY <1>2, <1>3

(* What is projected stays as it is when it is read from a dump, for every *)
(* catalog and record: a dump that the program wrote is not refused for    *)
(* what it holds (AssertRenderedSubset, admitRecords).                     *)
THEOREM WhatIsSavedCanBeRead == Spec => []SavedCanBeRead
<1>1. LoadInv => SavedCanBeRead
    <2> SUFFICES ASSUME LoadInv, ~FromDump, NEW n \in DOMAIN loaded
                 PROVE  Admitted(Project(loaded[n], ModeOf), ModeOf)
        BY DEF SavedCanBeRead, ProjectRecords, CollectionAdmitted
    <2>1. ModeOf \in Mode /\ IsRecord(loaded[n])
        BY ModeIsOne, EachIsRecord, ElementOfSeq, LenProperties DEF LoadInv
    <2> QED
        BY <2>1, ProjectionIsAdmitted DEF LoadInv, LoadedFit, Fit
<1> QED
    BY <1>1, LoadInvCorrect, PTL

(* Whatever the service or a dump holds, only reviewed fields, scanned, of *)
(* those asked for, are emitted (projectRecordCore, admitRecords, Select). *)
THEOREM OnlyReviewedLeavesAreEmitted == Spec => []OnlyReviewedLeaves
<1>1. LoadInv => OnlyReviewedLeaves
    <2> SUFFICES ASSUME LoadInv, pc = "record" PROVE OnlyReviewedLeaves
        BY DEF OnlyReviewedLeaves
    <2>1. ModeOf \in Mode
        BY ModeIsOne DEF LoadInv
    <2>2. ASSUME NEW n \in DOMAIN loaded, NEW address \in DOMAIN Answer(n)
          PROVE  /\ RenderedIn(Path(address), ModeOf)
                 /\ Answer(n)[address] \in Text \cup {"null", "list", "object"}
                 /\ Answer(n)[address] \in Text =>
                       Scanned(Path(address), ModeOf, Answer(n)[address]) = Answer(n)[address]
                 /\ request.narrow.fields # {} =>
                       \E p \in request.narrow.fields :
                          Begins(p, Path(address)) \/ Begins(Path(address), p)
        <3> DEFINE fields == EffectiveFields(request.narrow.fields, ModeOf)
        <3>1. Rendered(View(loaded[n]), ModeOf)
            BY ViewIsRendered
        <3>2. CASE request.narrow.fields = {}
            BY <3>1, <3>2 DEF Answer, Narrowed, Rendered
        <3>3. CASE request.narrow.fields # {}
            <4>1. Answer(n) = Select(View(loaded[n]), fields)
                BY <3>3 DEF Answer, Narrowed
            <4>2. fields \subseteq request.narrow.fields
                BY DEF EffectiveFields
            <4> HIDE DEF fields
            <4> QED
                BY <2>1, <3>1, <4>1, <4>2, SelectionIsRendered DEF OnWay
        <3> QED
            BY <3>2, <3>3
    <2>3. ASSUME NEW f \in request.narrow.filters PROVE RenderedIn(f.path, ModeOf)
        BY <2>3 DEF LoadInv, Wrong, HiddenFilter
    <2> QED
        BY <2>2, <2>3, ReviewedWhereRendered DEF OnlyReviewedLeaves
<1> QED
    BY <1>1, LoadInvCorrect, PTL

-----------------------------------------------------------------------------
(* The positions of the records that match.                                *)

LEMMA SetInduction ==
    ASSUME NEW T, 0 \in T, \A n \in Nat : n \in T => n + 1 \in T
    PROVE  Nat \subseteq T
<1> DEFINE Below == {p \in Nat \X Nat : p[1] < p[2]}
<1>1. IsWellFoundedOn(Below, Nat)
  BY NatLessThanWellFounded DEF OpToRel
<1> SUFFICES ASSUME Nat \ T # {} PROVE FALSE
  OBVIOUS
<1>2. PICK x \in Nat \ T : \A y \in Nat \ T : <<y, x>> \notin Below
  <2> HIDE DEF Below
  <2> QED
    BY <1>1, WFMin
<1>3. x # 0 /\ x - 1 \in Nat /\ x - 1 \in T
  <2>1. x # 0 /\ x - 1 \in Nat /\ x - 1 < x
    OBVIOUS
  <2>2. <<x - 1, x>> \in Below
    BY <2>1
  <2> QED
    BY <1>2, <2>1, <2>2
<1> QED
  BY <1>3

IsMatched(h, list, narrow) ==
    h = [n \in 0..Len(list) |->
            IF n = 0 THEN <<>>
            ELSE IF Matches(list[n], narrow) THEN Append(h[n - 1], n)
            ELSE h[n - 1]]
MatchedTo(list, narrow) == CHOOSE h : IsMatched(h, list, narrow)

LEMMA FilterIsMatched ==
    ASSUME NEW list, NEW narrow
    PROVE  FilterRecords(list, narrow) = MatchedTo(list, narrow)[Len(list)]
BY DEF FilterRecords, MatchedTo, IsMatched

LEMMA MatchedExists ==
    ASSUME NEW list, NEW narrow, Len(list) \in Nat
    PROVE  IsMatched(MatchedTo(list, narrow), list, narrow)
<1> DEFINE Step(g, n) == IF n = 0 THEN <<>>
                         ELSE IF Matches(list[n], narrow) THEN Append(g[n - 1], n)
                         ELSE g[n - 1]
           T == {k \in Nat : \E g : \A n \in 0..k : g[n] = Step(g, n)}
<1>1. 0 \in T
  <2>1. \A n \in 0..0 : [m \in {0} |-> <<>>][n] = Step([m \in {0} |-> <<>>], n)
    OBVIOUS
  <2> QED
    BY <2>1
<1>2. ASSUME NEW k \in Nat, k \in T PROVE k + 1 \in T
  <2>1. PICK g : \A n \in 0..k : g[n] = Step(g, n)
    BY <1>2
  <2> DEFINE h == [n \in 0..k + 1 |-> IF n = k + 1 THEN Step(g, k + 1) ELSE g[n]]
  <2>2. \A n \in 0..k : h[n] = g[n] /\ n \in 0..k + 1
    OBVIOUS
  <2>3. h[k + 1] = Step(g, k + 1)
    OBVIOUS
  <2> HIDE DEF h
  <2>4. ASSUME NEW n \in 0..k + 1 PROVE h[n] = Step(h, n)
    <3>1. CASE n = k + 1
      <4>1. h[k] = g[k] /\ k + 1 # 0 /\ k + 1 - 1 = k
        BY <2>2
      <4> QED
        BY <2>3, <3>1, <4>1
    <3>2. CASE n = 0
      BY <2>1, <2>2, <3>2
    <3>3. CASE n # 0 /\ n # k + 1
      <4>1. n \in 0..k /\ n - 1 \in 0..k
        BY <3>3
      <4>2. h[n] = g[n] /\ h[n - 1] = g[n - 1]
        BY <2>2, <4>1
      <4> QED
        BY <2>1, <3>3, <4>1, <4>2
    <3> QED
      BY <3>1, <3>2, <3>3
  <2> QED
    BY <2>4
<1> HIDE DEF T
<1>3. Len(list) \in T
  BY <1>1, <1>2, SetInduction
<1>4. PICK g : \A n \in 0..Len(list) : g[n] = Step(g, n)
  BY <1>3 DEF T
<1> DEFINE h == [n \in 0..Len(list) |-> g[n]]
<1>5. \A n \in 0..Len(list) : n # 0 => n - 1 \in 0..Len(list)
  OBVIOUS
<1>6. \A n \in 0..Len(list) : h[n] = Step(h, n)
  BY <1>4, <1>5
<1>7. IsMatched(h, list, narrow)
  BY <1>6 DEF IsMatched
<1> QED
  BY <1>7 DEF MatchedTo

(* The positions that match, up to one of them.                            *)
MatchesTo(list, narrow, k) == {m \in 1..k : Matches(list[m], narrow)}

LEMMA MatchesToIsFinite ==
    ASSUME NEW list, NEW narrow, NEW k \in Nat
    PROVE  /\ IsFiniteSet(MatchesTo(list, narrow, k))
           /\ Cardinality(MatchesTo(list, narrow, k)) \in Nat
           /\ Cardinality(MatchesTo(list, narrow, k)) <= k
<1>1. IsFiniteSet(1..k) /\ Cardinality(1..k) = k
  BY FS_Interval
<1>2. MatchesTo(list, narrow, k) \subseteq 1..k
  BY DEF MatchesTo
<1> QED
  BY <1>1, <1>2, FS_Subset, FS_CardinalityType

LEMMA MatchesToGrows ==
    ASSUME NEW list, NEW narrow, NEW k \in Nat
    PROVE  /\ Matches(list[k + 1], narrow) =>
                 /\ MatchesTo(list, narrow, k + 1) = MatchesTo(list, narrow, k) \cup {k + 1}
                 /\ Cardinality(MatchesTo(list, narrow, k + 1)) = Cardinality(MatchesTo(list, narrow, k)) + 1
           /\ ~Matches(list[k + 1], narrow) => MatchesTo(list, narrow, k + 1) = MatchesTo(list, narrow, k)
<1>1. k + 1 \notin MatchesTo(list, narrow, k)
  BY DEF MatchesTo
<1>2. Matches(list[k + 1], narrow) =>
        MatchesTo(list, narrow, k + 1) = MatchesTo(list, narrow, k) \cup {k + 1}
  BY DEF MatchesTo
<1>3. Matches(list[k + 1], narrow) =>
        Cardinality(MatchesTo(list, narrow, k + 1)) = Cardinality(MatchesTo(list, narrow, k)) + 1
  BY <1>1, <1>2, MatchesToIsFinite, FS_AddElement
<1>4. ~Matches(list[k + 1], narrow) => MatchesTo(list, narrow, k + 1) = MatchesTo(list, narrow, k)
  BY DEF MatchesTo
<1> QED
  BY <1>2, <1>3, <1>4

(* Every position that matches is in its place, and nothing else is there. *)
Placed(s, list, narrow, k) ==
    /\ s \in Seq(Nat)
    /\ Len(s) = Cardinality(MatchesTo(list, narrow, k))
    /\ \A m \in MatchesTo(list, narrow, k) :
          /\ Cardinality(MatchesTo(list, narrow, m)) \in 1..Len(s)
          /\ s[Cardinality(MatchesTo(list, narrow, m))] = m
    /\ \A n \in 1..Len(s) :
          /\ s[n] \in MatchesTo(list, narrow, k)
          /\ Cardinality(MatchesTo(list, narrow, s[n])) = n

LEMMA MatchedIsPlaced ==
    ASSUME NEW list, NEW narrow, Len(list) \in Nat
    PROVE  Placed(FilterRecords(list, narrow), list, narrow, Len(list))
<1> DEFINE h == MatchedTo(list, narrow)
           T == {k \in Nat : k <= Len(list) => Placed(h[k], list, narrow, k)}
<1>1. \A n \in 0..Len(list) : h[n] = IF n = 0 THEN <<>>
                                     ELSE IF Matches(list[n], narrow) THEN Append(h[n - 1], n)
                                     ELSE h[n - 1]
  <2>1. IsMatched(h, list, narrow)
    BY MatchedExists
  <2> HIDE DEF h
  <2> QED
    BY <2>1 DEF IsMatched
<1> HIDE DEF h
<1>2. 0 \in T
  <2>1. h[0] = <<>>
    BY <1>1
  <2>2. MatchesTo(list, narrow, 0) = {}
    BY DEF MatchesTo
  <2>3. h[0] \in Seq(Nat) /\ Len(h[0]) = 0 /\ Cardinality({}) = 0
    BY <2>1, FS_EmptySet
  <2>4. Cardinality(MatchesTo(list, narrow, 0)) = 0
    BY <2>2, <2>3, Zenon
  <2>5. \A n \in 1..Len(h[0]) : FALSE
    BY <2>3
  <2>6. Placed(h[0], list, narrow, 0)
    BY <2>2, <2>3, <2>4, <2>5, Zenon DEF Placed
  <2> QED
    BY <2>6
<1>3. ASSUME NEW k \in Nat, k \in T PROVE k + 1 \in T
  <2> SUFFICES ASSUME k + 1 <= Len(list) PROVE Placed(h[k + 1], list, narrow, k + 1)
    OBVIOUS
  <2>1. Placed(h[k], list, narrow, k)
    BY <1>3
  <2>2. h[k + 1] = IF Matches(list[k + 1], narrow) THEN Append(h[k], k + 1) ELSE h[k]
    BY <1>1
  <2>3. CASE ~Matches(list[k + 1], narrow)
    <3>1. MatchesTo(list, narrow, k + 1) = MatchesTo(list, narrow, k) /\ h[k + 1] = h[k]
      BY <2>2, <2>3, MatchesToGrows
    <3> QED
      BY <2>1, <3>1 DEF Placed
  <2>4. CASE Matches(list[k + 1], narrow)
    <3> DEFINE s == h[k]
               t == h[k + 1]
               M == MatchesTo(list, narrow, k)
    <3>1. /\ MatchesTo(list, narrow, k + 1) = M \cup {k + 1}
          /\ Cardinality(MatchesTo(list, narrow, k + 1)) = Cardinality(M) + 1
      BY <2>4, MatchesToGrows
    <3>2. t = Append(s, k + 1)
      BY <2>2, <2>4
    <3>3. /\ s \in Seq(Nat)
          /\ Len(s) = Cardinality(M)
          /\ \A m \in M : /\ Cardinality(MatchesTo(list, narrow, m)) \in 1..Len(s)
                          /\ s[Cardinality(MatchesTo(list, narrow, m))] = m
          /\ \A n \in 1..Len(s) : s[n] \in M /\ Cardinality(MatchesTo(list, narrow, s[n])) = n
      BY <2>1 DEF Placed
    <3> HIDE DEF s, t, M
    <3>4. /\ t \in Seq(Nat) /\ Len(t) = Len(s) + 1 /\ t[Len(s) + 1] = k + 1 /\ Len(s) \in Nat
          /\ \A n \in 1..Len(s) : t[n] = s[n]
      BY <3>2, <3>3
    <3>5. Len(t) = Cardinality(MatchesTo(list, narrow, k + 1))
      BY <3>1, <3>3, <3>4
    <3>6. ASSUME NEW m \in MatchesTo(list, narrow, k + 1)
          PROVE  /\ Cardinality(MatchesTo(list, narrow, m)) \in 1..Len(t)
                 /\ t[Cardinality(MatchesTo(list, narrow, m))] = m
      <4>1. CASE m = k + 1
        BY <3>1, <3>3, <3>4, <3>5, <4>1
      <4>2. CASE m \in M
        BY <3>3, <3>4, <4>2
      <4> QED
        BY <3>1, <4>1, <4>2
    <3>7. ASSUME NEW n \in 1..Len(t)
          PROVE  /\ t[n] \in MatchesTo(list, narrow, k + 1)
                 /\ Cardinality(MatchesTo(list, narrow, t[n])) = n
      <4>1. CASE n = Len(s) + 1
        BY <3>1, <3>3, <3>4, <4>1
      <4>2. CASE n \in 1..Len(s)
        BY <3>1, <3>3, <3>4, <4>2
      <4> QED
        BY <3>4, <4>1, <4>2
    <3> QED
      BY <3>4, <3>5, <3>6, <3>7 DEF Placed, t
  <2> QED
    BY <2>3, <2>4
<1> HIDE DEF T
<1>4. Len(list) \in T
  BY <1>2, <1>3, SetInduction
<1> QED
  BY <1>4, FilterIsMatched DEF T, h

(* A part of a sequence without repetition has as many elements.           *)
IsPart(P, s, a, k) ==
    /\ \A i, j \in a + 1..a + k : s[i] = s[j] => i = j
    /\ \A i \in a + 1..a + k : s[i] \in P
    /\ \A p \in P : \E i \in a + 1..a + k : s[i] = p

LEMMA PartCounts == \A P, s : \A a, k \in Nat : IsPart(P, s, a, k) => Cardinality(P) = k
<1> SUFFICES ASSUME NEW P, NEW s, NEW a \in Nat, NEW k \in Nat, IsPart(P, s, a, k)
             PROVE  Cardinality(P) = k
  OBVIOUS
<1> USE DEF IsPart
<1> DEFINE f == [i \in 1..k |-> s[a + i]]
<1>1. \A i \in 1..k : a + i \in a + 1..a + k
  OBVIOUS
<1>2. \A i \in a + 1..a + k : i - a \in 1..k /\ a + (i - a) = i
  OBVIOUS
<1>3. f \in [1..k -> P]
  BY <1>1
<1>4. \A i, j \in 1..k : f[i] = f[j] => i = j
  BY <1>1
<1>5. \A p \in P : \E i \in 1..k : f[i] = p
  <2> SUFFICES ASSUME NEW p \in P PROVE \E i \in 1..k : f[i] = p
    OBVIOUS
  <2>1. PICK i \in a + 1..a + k : s[i] = p
    OBVIOUS
  <2>2. i - a \in 1..k /\ f[i - a] = p
    BY <1>2, <2>1
  <2> QED
    BY <2>2
<1> HIDE DEF f
<1>6. f \in Bijection(1..k, P)
  BY <1>3, <1>4, <1>5, Fun_IsBij
<1>7. ExistsBijection(1..k, P)
  BY <1>6, Fun_ExistsBij
<1> QED
  BY <1>7, FS_CountingElements

(* What the records would be shown as, and where one is among those that   *)
(* match.                                                                  *)
Views == [n \in DOMAIN loaded |-> View(loaded[n])]
Place(n) == Cardinality(MatchesTo(Views, request.narrow, n))

LEMMA ViewsAre ==
    ASSUME loaded \in Seq(Record)
    PROVE  /\ Len(Views) = Len(loaded) /\ Len(loaded) \in Nat
           /\ Matched(loaded) = FilterRecords(Views, request.narrow)
           /\ MatchesTo(Views, request.narrow, Len(loaded)) = Matching
           /\ \A n \in Matching : n \in Nat /\ {m \in Matching : m <= n} = MatchesTo(Views, request.narrow, n)
<1>1. DOMAIN loaded = 1..Len(loaded) /\ Len(loaded) \in Nat
  OBVIOUS
<1>2. Len(Views) = Len(loaded)
  BY <1>1 DEF Views
<1>3. \A n \in 1..Len(loaded) : Views[n] = View(loaded[n])
  BY <1>1 DEF Views
<1>4. Matching = {n \in 1..Len(loaded) : Matches(Views[n], request.narrow)}
  BY <1>1, <1>3 DEF Matching
<1>5. \A n \in Matching : {m \in Matching : m <= n} = MatchesTo(Views, request.narrow, n)
  BY <1>1, <1>4 DEF MatchesTo
<1> QED
  BY <1>1, <1>2, <1>4, <1>5 DEF MatchesTo, Matched, Views

LEMMA RecordsArePlaced ==
    ASSUME loaded \in Seq(Record), records = Matched(loaded)
    PROVE  /\ records \in Seq(Nat) /\ Len(records) = Cardinality(Matching) /\ Len(records) <= Len(loaded)
           /\ \A m \in Matching : Place(m) \in 1..Len(records) /\ records[Place(m)] = m
           /\ \A n \in 1..Len(records) : records[n] \in Matching /\ Place(records[n]) = n
<1>1. Placed(records, Views, request.narrow, Len(loaded))
  BY ViewsAre, MatchedIsPlaced
<1>2. Cardinality(Matching) <= Len(loaded)
  BY ViewsAre, MatchesToIsFinite
<1> QED
  BY <1>1, <1>2, ViewsAre DEF Placed, Place

(* What is shown of the records that match is the page that was asked for. *)
LEMMA ShownIsAnswer ==
    ASSUME request \in Requests, loaded \in Seq(Record), records = Matched(loaded)
    PROVE  IsAnswer(Shown)
<1> DEFINE page == IF request.page = None THEN [offset |-> 0, limit |-> Len(loaded)] ELSE request.page
           paged == {n \in Matching : page.offset < Place(n) /\ Place(n) <= page.offset + page.limit}
<1>1. /\ records \in Seq(Nat) /\ Len(records) = Cardinality(Matching) /\ Len(records) <= Len(loaded)
      /\ \A m \in Matching : Place(m) \in 1..Len(records) /\ records[Place(m)] = m
      /\ \A n \in 1..Len(records) : records[n] \in Matching /\ Place(records[n]) = n
  BY RecordsArePlaced
<1>2. \A n \in Matching : Cardinality({m \in Matching : m <= n}) = Place(n)
  BY ViewsAre DEF Place
<1>3. page.offset \in Nat /\ page.limit \in Nat
  BY ViewsAre, ReadAssumption DEF Page
<1>4. /\ Len(Shown) = Cardinality(paged)
      /\ \A n \in paged : Shown[Place(n) - page.offset] = n
  <2> DEFINE L == Len(records)
             start == IF page.offset < L THEN page.offset ELSE L
             size == IF page.limit < L - start THEN page.limit ELSE L - start
  <2>1. L \in Nat /\ start \in Nat /\ size \in Nat /\ start + size <= L
    BY <1>1, <1>3
  <2>2. /\ Len(Shown) = size
        /\ \A k \in 1..size : Shown[k] = records[start + k]
    <3>1. CASE request.page = None
      <4>1. Shown = records /\ page.offset = 0 /\ page.limit = Len(loaded)
        BY <3>1 DEF Shown
      <4>2. start = 0 /\ size = L
        BY <1>1, <4>1, ViewsAre
      <4> QED
        BY <4>1, <4>2, <2>1
    <3>2. CASE request.page # None
      <4>1. Shown = SubSeq(records, start + 1, start + size)
        BY <3>2 DEF Shown
      <4> HIDE DEF start, size
      <4>2. start + 1 \in 1..L + 1 /\ start + size \in start + 1 - 1..L
        BY <2>1
      <4>3. Len(Shown) = start + size - (start + 1) + 1
        BY <1>1, <2>1, <4>1, <4>2
      <4>4. \A k \in 1..size : Shown[k] = records[start + 1 + k - 1]
        BY <1>1, <2>1, <4>1, <4>2
      <4>5. start + size - (start + 1) + 1 = size /\ \A k \in 1..size : start + 1 + k - 1 = start + k
        BY <2>1
      <4> QED
        BY <4>3, <4>4, <4>5
    <3> QED
      BY <3>1, <3>2
  <2>3. \A k \in start + 1..start + size : page.offset < k /\ k <= page.offset + page.limit /\ k \in 1..L
    BY <1>3, <2>1
  <2>4. \A k \in 1..L : page.offset < k /\ k <= page.offset + page.limit => k \in start + 1..start + size
    BY <1>3, <2>1
  <2>5. \A k \in 1..L : page.offset < k => start = page.offset
    BY <1>3, <2>1
  <2> HIDE DEF start, size, page
  <2>6. \A k \in start + 1..start + size : records[k] \in paged
    BY <1>1, <2>3
  <2>7. \A p \in paged : \E k \in start + 1..start + size : records[k] = p
    BY <1>1, <2>4
  <2>8. \A i, j \in start + 1..start + size : records[i] = records[j] => i = j
    <3> SUFFICES ASSUME NEW i \in start + 1..start + size, NEW j \in start + 1..start + size,
                        records[i] = records[j]
                 PROVE  i = j
      OBVIOUS
    <3>1. i \in 1..L /\ j \in 1..L
      BY <2>3
    <3>2. Place(records[i]) = i /\ Place(records[j]) = j
      BY <1>1, <3>1
    <3> QED
      BY <3>2
  <2>9. Cardinality(paged) = size
    <3> HIDE DEF paged
    <3>1. IsPart(paged, records, start, size)
      BY <2>6, <2>7, <2>8 DEF IsPart
    <3> QED
      BY <2>1, <3>1, PartCounts
  <2>10. ASSUME NEW n \in paged PROVE Shown[Place(n) - page.offset] = n
    <3>1. /\ Place(n) \in 1..L /\ records[Place(n)] = n
          /\ page.offset < Place(n) /\ Place(n) <= page.offset + page.limit
      BY <1>1
    <3>2. Place(n) \in start + 1..start + size /\ start = page.offset
      BY <2>4, <2>5, <3>1
    <3>3. Place(n) - start \in 1..size /\ start + (Place(n) - start) = Place(n)
      BY <2>1, <3>1, <3>2
    <3> QED
      BY <2>2, <3>1, <3>2, <3>3
  <2> QED
    BY <2>2, <2>9, <2>10
<1>5. paged = {n \in Matching : /\ page.offset < Cardinality({m \in Matching : m <= n})
                                /\ Cardinality({m \in Matching : m <= n}) <= page.offset + page.limit}
  BY <1>2
<1>6. \A n \in paged : Shown[Cardinality({m \in Matching : m <= n}) - page.offset] = n
  BY <1>2, <1>4
<1> QED
  BY <1>4, <1>5, <1>6 DEF IsAnswer

-----------------------------------------------------------------------------
(* How a read and what its stream was told belong together.                *)

Silent == {"check", "open", "settings", "resolve", "asking", "reader", "read"}
Speaking == {"started", "record", "failed", "completed"}

Streaming ==
    /\ pc \in Silent => result = "none" /\ Idle
    /\ pc \notin Speaking \cup Last => Idle
    /\ pc \in {"load", "loading"} => Ready
    /\ pc \in {"started", "record"} /\ terminal => IF Idle THEN result = "error" ELSE owed = "error"
    /\ pc = "failed" => error # "none" /\ ~Completed
    /\ pc = "completed" => Completed
    /\ pc = "answered" /\ error = "none" => Completed
    /\ pc \in WithFile \/ stdout = "whole" \/ file = "mine" => Completed /\ CanBeShown
    /\ Completed => pc \in {"completed", "answered", "report"} \cup WithFile \cup Last

(* The records that the sink was given are the first ones.                 *)
Given == \A n \in 1..sent : delivered[n + 1] = [kind |-> "record", of |-> n]

Sending ==
    /\ records \in Seq(Nat) /\ sent \in 0..Len(records)
    /\ pc \in Silent \cup {"started", "load", "loading"} => sent = 0
    /\ started /\ ~terminal => Len(delivered) = sent + 1 /\ Given
    /\ Completed => Len(delivered) = sent + 2 /\ Given /\ sent = Len(records)

Listing ==
    /\ pc \in {"load", "loading", "record"} \/ Completed => "usage" \notin Wrong
    /\ pc = "record" \/ Completed =>
          /\ records = Matched(loaded)
          /\ 0..Len(loaded) \subseteq Subject
          /\ request.op = "get" => Len(loaded) = 1 /\ Identity(loaded[1]) = request.id

(* What is said not to be in a dump is not.                                *)
NotThere ==
    FromDump /\ Wrong = {} /\ error = "not_found" /\ request.dump.listed =>
        /\ request.op = "get"
        /\ RenderedIn(<<GetKey>>, ModeOf)
        /\ \A n \in DOMAIN request.dump.records : Identity(request.dump.records[n]) # request.id

AnswerInv == StreamInv /\ Streaming /\ Sending /\ Listing /\ NotThere

LEMMA CompletedIs == StreamInv => (Completed <=> started /\ LastKind = "completed") /\ (Completed => terminal)
BY DEF StreamInv, Completed, LastKind, Ended, Terminal

(* What depends on the request and on what was loaded stays with them.     *)
LEMMA AskedStays ==
    ASSUME UNCHANGED request
    PROVE  /\ UNCHANGED <<FromDump, Wrong, ModeOf, Cli>>
           /\ UNCHANGED records => UNCHANGED CanBeShown
           /\ UNCHANGED loaded => UNCHANGED Matched(loaded)
BY DEF FromDump, Wrong, RowsNarrowed, ModeOf, Cli, CanBeShown, Matched, View,
   FromDump

LEMMA InitAnswerInv == Init => AnswerInv
<1> SUFFICES ASSUME Init PROVE AnswerInv
  OBVIOUS
<1>1. StreamInv
  BY InitStream DEF Init
<1>2. ~started /\ ~Completed /\ Idle /\ result = "none"
  BY DEF Init, StreamInit, Completed, Idle
<1>3. records \in Seq(Nat) /\ Len(records) = 0 /\ sent = 0
  BY DEF Init
<1>4. pc = "check" /\ stdout = "none" /\ file = "before" /\ error = "none"
  BY DEF Init
<1> QED
  BY <1>1, <1>2, <1>3, <1>4 DEF AnswerInv, Streaming, Sending, Listing,
     NotThere, Silent, Speaking

(* A step before there is a stream.                                        *)
LEMMA SilentStep ==
    ASSUME AnswerInv, pc \in Silent, pc' \in Silent \cup {"report"}, NotThere',
           UNCHANGED <<stream, request, answer, stdout, file>>
    PROVE  AnswerInv'
<1>1. StreamInv'
  BY StutterStream DEF AnswerInv
<1>2. Idle /\ result = "none" /\ ~started /\ ~Completed
  BY CompletedIs DEF AnswerInv, Streaming, StreamInv
<1>3. Idle' /\ result' = "none" /\ ~started' /\ ~Completed'
  BY <1>2 DEF stream, Idle, Completed
<1>4. /\ pc \notin WithFile /\ pc' \notin WithFile \cup Speaking \cup {"load", "loading", "answered"}
      /\ stdout # "whole" /\ file # "mine"
  BY <1>2 DEF AnswerInv, Streaming, Silent, Speaking
<1>5. Streaming'
  BY <1>3, <1>4 DEF Streaming, Speaking
<1>6. Sending'
  BY <1>3 DEF AnswerInv, Sending, answer
<1>7. Listing'
  BY <1>3, <1>4 DEF Listing, Speaking
<1> QED
  BY <1>1, <1>5, <1>6, <1>7 DEF AnswerInv

LEMMA RefusedIsThere ==
    ASSUME AnswerInv, UNCHANGED request,
           error' = error \/ error' # "not_found" \/ ~FromDump \/ (\E f \in Flaws : f \in Wrong)
    PROVE  NotThere'
BY AskedStays DEF AnswerInv, NotThere

(* A step that leaves the stream and the answer as they are.               *)
LEMMA StillStep ==
    ASSUME AnswerInv, UNCHANGED <<stream, request, answer>>,
           error' = error \/ error' # "not_found",
           \/ pc' = pc /\ error' = error
           \/ pc' \in {"answered", "report"} \cup WithFile /\ Idle
           \/ pc' \in Last,
           pc' = "answered" /\ error' = "none" => Completed,
           pc' \in WithFile \/ stdout' = "whole" \/ file' = "mine" => Completed /\ CanBeShown,
           Completed => pc' \in {"completed", "answered", "report"} \cup WithFile \cup Last
    PROVE  AnswerInv'
<1>1. StreamInv'
  BY StutterStream DEF AnswerInv
<1>2. Completed' = Completed /\ Idle' = Idle /\ Ready' = Ready /\ CanBeShown' = CanBeShown
  BY AskedStays DEF Completed, Idle, Ready, stream, answer
<1>3. (pc' = pc /\ error' = error) \/ pc' \notin Silent \cup Speaking \cup {"load", "loading"}
  BY DEF Silent, Speaking
<1>4. Streaming'
  BY <1>2, <1>3 DEF AnswerInv, Streaming, stream
<1>5. Sending'
  BY <1>2, <1>3 DEF AnswerInv, Sending, Given, stream, answer, Silent, Speaking
<1>6. Listing'
  BY <1>2, <1>3, AskedStays DEF AnswerInv, Listing, answer, Speaking
<1>7. NotThere'
  BY RefusedIsThere
<1> QED
  BY <1>1, <1>4, <1>5, <1>6, <1>7 DEF AnswerInv

(* The sink has refused an event, or there is none.                        *)
LEMMA AbortAnswer ==
    ASSUME AnswerInv, pc \in {"started", "record"}, Idle, Abort, UNCHANGED <<request, answer, stdout, file>>
    PROVE  AnswerInv'
<1>1. pc' = "answered" /\ error' = "sink" /\ ~Completed /\ UNCHANGED stream
  BY DEF Abort, AnswerInv, Streaming
<1>2. stdout # "whole" /\ file # "mine"
  BY <1>1 DEF AnswerInv, Streaming
<1> QED
  BY <1>1, <1>2, StillStep

LEMMA CheckAnswer ==
    ASSUME RInv, AnswerInv, Check \/ OpenDump \/ Settings \/ Resolve \/ Provided \/ NewReader
    PROVE  AnswerInv'
<1>1. pc \in Silent /\ pc' \in Silent \cup {"report"}
  BY DEF Check, OpenDump, Settings, Resolve, Provided, NewReader, Refuse,
     RuntimeFails, Go, Silent
<1>2. UNCHANGED <<stream, request, answer, stdout, file>>
  BY DEF Check, OpenDump, Settings, Resolve, Provided, NewReader, terminals,
     disk
<1>3. error' = error \/ error' # "not_found" \/ ~FromDump \/ (\E f \in Flaws : f \in Wrong)
  <2>1. CASE Check
    BY <2>1 DEF Check, Found, Refuse, Go
  <2>2. CASE OpenDump
    BY <2>2 DEF OpenDump, Refuse, Go, RInv, Sorts
  <2>3. CASE Settings \/ Resolve \/ Provided \/ NewReader
    BY <2>3 DEF Settings, Resolve, Provided, NewReader, RInv, GateInv
  <2> QED
    BY <2>1, <2>2, <2>3
<1> QED
  BY <1>1, <1>2, <1>3, SilentStep, RefusedIsThere

LEMMA ReadAnswer ==
    ASSUME RInv, AnswerInv, Read
    PROVE  AnswerInv'
<1>1. /\ pc = "read" /\ pc' = "started" /\ error' = error
      /\ UNCHANGED <<request, answer, stdout, file>>
      /\ result = "none" /\ Call("started", 0, "ok")
  BY DEF Read, Go, StartEventStream, terminals, disk
<1>2. StreamInv'
  BY <1>1, CallStream, ReadAssumption DEF AnswerInv, Event
<1>3. Idle /\ ~started /\ delivered = <<>> /\ ~Completed /\ stdout # "whole" /\ file # "mine"
  BY <1>1, CompletedIs DEF AnswerInv, Streaming, StreamInv, Silent, Speaking
<1>4. ~Completed' /\ (terminal' => Idle' /\ result' = "error") /\ (started' => Len(delivered') = 1)
  <2>1. CASE ~Refused("started") /\ Hand("started", 0)
    <3> DEFINE e == [kind |-> "started", of |-> 0]
    <3>1. delivered' = Append(<<>>, e) /\ terminal' = ("started" \in Terminal)
      BY <1>3, <2>1 DEF Hand
    <3>2. Append(<<>>, e) = <<e>> /\ Len(<<e>>) = 1 /\ <<e>>[1] = e
      OBVIOUS
    <3>3. e.kind = "started"
      OBVIOUS
    <3> HIDE DEF e
    <3> QED
      BY <3>1, <3>2, <3>3 DEF Completed, Terminal
  <2>2. CASE result' = "error" /\ UNCHANGED <<sink, started, terminal, delivering, owed, delivered>>
    BY <1>3, <2>2 DEF Completed, Idle
  <2> QED
    BY <1>1, <2>1, <2>2 DEF Call
<1>5. Streaming'
  BY <1>1, <1>3, <1>4 DEF Streaming, Silent, Speaking
<1>6. sent = 0 /\ sent' = 0 /\ records' = records
  BY <1>1 DEF AnswerInv, Sending, Silent, answer
<1>7. Sending'
  BY <1>1, <1>4, <1>6 DEF AnswerInv, Sending, Given, answer
<1>8. Listing'
  BY <1>1, <1>4 DEF Listing
<1>9. NotThere'
  BY <1>1, RefusedIsThere
<1> QED
  BY <1>2, <1>5, <1>7, <1>8, <1>9 DEF AnswerInv

(* A read that fails before it is emitted.                                 *)
LEMMA FailWithAnswer ==
    ASSUME AnswerInv, pc \in {"started", "loading"}, Ready, NEW kind, kind # "none", FailWith(kind),
           UNCHANGED <<request, sent, stdout, file>>, records' \in Seq(Nat), NotThere'
    PROVE  AnswerInv'
<1>1. PICK end \in {"failed", "canceled"} : Call(end, 0, "ok")
  BY DEF FailWith, Fail
<1>2. /\ StreamInv' /\ ~Idle' /\ terminal' /\ LastKind' = end
  BY <1>1, CallEffect, ReadAssumption DEF AnswerInv, Terminal
<1>3. ~Completed'
  BY <1>2 DEF Completed, LastKind
<1>4. pc' = "failed" /\ error' # "none" /\ stdout # "whole" /\ file # "mine"
  <2>1. ~Completed
    BY DEF AnswerInv, Streaming, WithFile, Last
  <2> QED
    BY <2>1 DEF AnswerInv, Streaming, FailWith
<1>5. Streaming'
  BY <1>3, <1>4 DEF Streaming, Silent, Speaking
<1>6. sent = 0
  BY DEF AnswerInv, Sending
<1>7. Sending'
  BY <1>2, <1>3, <1>4, <1>6 DEF Sending, Silent
<1>8. Listing'
  BY <1>3, <1>4 DEF Listing
<1> QED
  BY <1>2, <1>5, <1>7, <1>8 DEF AnswerInv

LEMMA NarrowingAnswer ==
    ASSUME RInv, AnswerInv, Narrowing
    PROVE  AnswerInv'
<1>1. pc = "started" /\ Idle /\ UNCHANGED <<request, answer, stdout, file>>
  BY DEF Narrowing, terminals, disk
<1>2. sent = 0 /\ ~Completed /\ stdout # "whole" /\ file # "mine" /\ records \in Seq(Nat)
  BY <1>1 DEF AnswerInv, Streaming, Sending, WithFile, Last
<1>3. CASE result = "error" /\ Abort
  BY <1>1, <1>3, AbortAnswer
<1>4. ASSUME result = "ok", NEW f \in Flaws, Found(RequestChecks, f), FailWith(KindOf[f])
      PROVE  AnswerInv'
  <2>1. Ready
    BY <1>1, <1>4 DEF AnswerInv, Streaming, Ready
  <2>2. NotThere'
    BY <1>1, <1>4, RefusedIsThere DEF Found
  <2>3. sent' = sent /\ records' \in Seq(Nat)
    BY <1>1, <1>2 DEF answer
  <2> QED
    BY <1>1, <1>4, <2>1, <2>2, <2>3, Kinds, FailWithAnswer
<1>5. CASE result = "ok" /\ Passed(RequestChecks) /\ Go("load") /\ UNCHANGED stream
  <2>1. StreamInv' /\ Ready' /\ ~Completed'
    BY <1>1, <1>2, <1>5, StutterStream DEF AnswerInv, Streaming, stream,
       Ready, Idle, Completed
  <2>2. pc' = "load" /\ error' = error
    BY <1>5 DEF Go
  <2>3. Streaming'
    BY <1>1, <1>2, <2>1, <2>2 DEF Streaming, Silent, Speaking, Ready
  <2>4. Sending'
    BY <1>1, <1>2, <1>5, <2>1, <2>2 DEF AnswerInv, Sending, Given, answer,
       stream
  <2>5. Listing'
    BY <1>1, <1>5, <2>1, <2>2, RequestPassed, AskedStays DEF Listing
  <2>6. NotThere'
    BY <1>1, <2>2, RefusedIsThere
  <2> QED
    BY <2>1, <2>3, <2>4, <2>5, <2>6 DEF AnswerInv
<1> QED
  BY <1>3, <1>4, <1>5 DEF Narrowing

LEMMA LoadAnswer ==
    ASSUME RInv, AnswerInv, Load
    PROVE  AnswerInv'
<1>1. pc = "load" /\ pc' = "loading" /\ error' = error
      /\ UNCHANGED <<stream, request, loaded, records, sent, stdout, file>>
  BY DEF Load, Go, terminals, disk
<1>2. StreamInv' /\ Ready' /\ ~Completed /\ ~Completed'
  BY <1>1, StutterStream DEF AnswerInv, Streaming, stream, Ready, Idle,
     Completed, WithFile, Last
<1>3. stdout # "whole" /\ file # "mine"
  BY <1>2 DEF AnswerInv, Streaming
<1>4. Streaming'
  BY <1>1, <1>2, <1>3 DEF Streaming, Silent, Speaking, Ready
<1>5. Sending'
  BY <1>1, <1>2 DEF AnswerInv, Sending, Given, stream, Silent
<1>6. Listing'
  BY <1>1, <1>2, AskedStays DEF AnswerInv, Listing
<1>7. NotThere'
  BY <1>1, RefusedIsThere
<1> QED
  BY <1>2, <1>4, <1>5, <1>6, <1>7 DEF AnswerInv

(* What was read is projected, filtered and ready to be emitted, or failed. *)
LEMMA MatchedIs ==
    ASSUME NEW list \in Seq(Record)
    PROVE  Matched(list) \in Seq(Nat) /\ Len(Matched(list)) <= Len(list)
<1> DEFINE views == [n \in DOMAIN list |-> View(list[n])]
<1>1. Len(views) = Len(list) /\ Len(list) \in Nat
  OBVIOUS
<1>2. Matched(list) = FilterRecords(views, request.narrow)
  BY DEF Matched
<1> HIDE DEF views
<1>3. Placed(Matched(list), views, request.narrow, Len(list))
  BY <1>1, <1>2, MatchedIsPlaced
<1> QED
  BY <1>1, <1>3, MatchesToIsFinite DEF Placed

LEMMA LoadedAnswer ==
    ASSUME RInv, LoadInv, LoadInv', AnswerInv, Loaded
    PROVE  AnswerInv'
<1>1. /\ pc = "loading" /\ records' = Matched(loaded')
      /\ UNCHANGED <<request, ctx, sent, stdout, file>>
  BY DEF Loaded, terminals, disk
<1>2. Ready /\ "usage" \notin Wrong /\ sent = 0 /\ ~Completed /\ stdout # "whole" /\ file # "mine"
  BY <1>1 DEF AnswerInv, Streaming, Listing, Sending
<1>3. loaded' \in Seq(Record) /\ records' \in Seq(Nat)
  BY <1>1, MatchedIs DEF LoadInv
<1>4. ASSUME NEW kind, kind # "none", FailWith(kind), NotThere'
      PROVE  AnswerInv'
  BY <1>1, <1>2, <1>3, <1>4, FailWithAnswer
<1>5. ASSUME Go("record"), UNCHANGED stream, 0..Len(loaded') \subseteq Subject,
             request.op = "get" => Len(loaded') = 1 /\ Identity(loaded'[1]) = request.id
      PROVE  AnswerInv'
  <2>1. StreamInv' /\ Ready' /\ ~Completed' /\ pc' = "record" /\ error' = error
    BY <1>2, <1>5, StutterStream DEF AnswerInv, stream, Ready, Idle,
       Completed, Go
  <2>2. Streaming'
    BY <1>1, <1>2, <2>1 DEF Streaming, Silent, Speaking, Ready
  <2>3. Sending'
    <3>1. sent' = 0 /\ Len(records') \in Nat
      BY <1>1, <1>2, <1>3
    <3>2. started' /\ ~terminal' => Len(delivered') = 1
      BY <1>2, <1>5 DEF AnswerInv, Sending, stream
    <3> QED
      BY <1>3, <2>1, <3>1, <3>2 DEF Sending, Given, Silent
  <2>4. Listing'
    <3>1. Matched(loaded') = Matched(loaded)'
      BY <1>1 DEF Matched, View, ModeOf, FromDump
    <3>2. Wrong' = Wrong
      BY <1>1, AskedStays
    <3> QED
      BY <1>1, <1>2, <1>5, <3>1, <3>2 DEF Listing
  <2>5. NotThere'
    BY <1>1, <2>1, RefusedIsThere
  <2> QED
    BY <2>1, <2>2, <2>3, <2>4, <2>5 DEF AnswerInv
<1>6. UNCHANGED <<FromDump, Wrong, ModeOf>>
  BY <1>1, AskedStays
<1>7. CASE ~FromDump
  <2>1. FromService
    BY <1>7 DEF Loaded
  <2>2. ASSUME NEW kind \in Failures, FailWith(kind) PROVE AnswerInv'
    <3>1. kind # "none"
      BY DEF Failures, RInv, Sorts
    <3>2. NotThere'
      BY <1>6, <1>7 DEF NotThere
    <3> QED
      BY <1>4, <2>2, <3>1, <3>2
  <2>3. CASE FailWith("live_access_failed")
    <3>1. NotThere'
      BY <1>6, <1>7 DEF NotThere
    <3> QED
      BY <1>4, <2>3, <3>1
  <2>4. ASSUME NEW list \in Lists, request.op # "list" => Len(list) = 1,
               request.op = "get" => Requested(list[1]),
               loaded' = list, Go("record"), UNCHANGED stream
        PROVE  AnswerInv'
    <3>1. 0..Len(loaded') \subseteq Subject
      BY <2>4, ReadAssumption
    <3> QED
      BY <1>5, <2>4, <3>1 DEF Requested
  <2> QED
    BY <2>1, <2>2, <2>3, <2>4 DEF FromService
<1>8. CASE FromDump
  <2> DEFINE saved == request.dump.records
  <2>1. FromCollection
    BY <1>8 DEF Loaded
  <2>2. saved \in Seq(Record) /\ 0..Len(saved) \subseteq Subject
    BY <1>8, ReadAssumption DEF FromDump, Dump, LoadInv
  <2>3. CASE ctx # "live" /\ FailWith(ctx)
    <3>1. ctx # "none" /\ ctx # "not_found"
      BY DEF RInv, Sorts
    <3>2. NotThere'
      BY <2>3, <3>1 DEF NotThere, FailWith
    <3> QED
      BY <1>4, <2>3, <3>1, <3>2
  <2>4. CASE ~request.dump.listed /\ FailWith("not_found")
    <3>1. NotThere'
      BY <1>1, <2>4 DEF NotThere
    <3> QED
      BY <1>4, <2>4, <3>1
  <2>5. CASE request.op # "get" /\ loaded' = saved /\ Go("record") /\ UNCHANGED stream
    BY <1>5, <2>2, <2>5
  <2>6. CASE request.op = "get" /\ GetFromCollection
    <3>1. CASE FailWith("unsupported_operation")
      <4>1. NotThere'
        BY <3>1 DEF NotThere, FailWith
      <4> QED
        BY <1>4, <3>1, <4>1
    <3>2. CASE /\ GetKeyRenders
               /\ \A n \in DOMAIN saved : Identity(saved[n]) # request.id
               /\ FailWith("not_found")
      <4>1. NotThere'
        BY <1>1, <1>6, <2>6, <3>2 DEF NotThere, GetKeyRenders
      <4> QED
        BY <1>4, <3>2, <4>1
    <3>3. ASSUME NEW n \in DOMAIN saved, Identity(saved[n]) = request.id, loaded' = <<saved[n]>>,
                 Go("record"), UNCHANGED stream
          PROVE  AnswerInv'
      <4>1. Len(loaded') = 1 /\ loaded'[1] = saved[n]
        BY <3>3
      <4>2. 0..1 \subseteq 0..Len(saved)
        BY <2>2, <3>3
      <4> QED
        BY <1>5, <2>2, <3>3, <4>1, <4>2
    <3> QED
      BY <2>6, <3>1, <3>2, <3>3 DEF GetFromCollection
  <2> QED
    BY <2>1, <2>3, <2>4, <2>5, <2>6 DEF FromCollection
<1> QED
  BY <1>7, <1>8

LEMMA EmittingAnswer ==
    ASSUME RInv, LoadInv, AnswerInv, Emitting
    PROVE  AnswerInv'
<1>1. pc = "record" /\ Idle /\ UNCHANGED <<request, loaded, records, stdout, file>>
  BY DEF Emitting, terminals, disk
<1>2. /\ ~Completed /\ stdout # "whole" /\ file # "mine" /\ "usage" \notin Wrong
      /\ records = Matched(loaded) /\ 0..Len(loaded) \subseteq Subject
      /\ request.op = "get" => Len(loaded) = 1 /\ Identity(loaded[1]) = request.id
      /\ records \in Seq(Nat) /\ sent \in 0..Len(records)
  BY <1>1 DEF AnswerInv, Streaming, Sending, Listing
<1>3. loaded \in Seq(Record) /\ Len(loaded) \in Nat /\ Len(records) \in Nat /\ Len(records) <= Len(loaded)
  BY <1>2, MatchedIs DEF LoadInv
<1>4. Listing'
  BY <1>1, <1>2, AskedStays DEF Listing
<1>5. CASE result = "error" /\ Abort /\ UNCHANGED sent
  BY <1>1, <1>5, AbortAnswer DEF Emitting, answer
<1>6. ASSUME result = "ok" PROVE Ready /\ started
  BY <1>1, <1>6 DEF AnswerInv, Streaming, Ready, StreamInv
<1>7. CASE /\ result = "ok" /\ sent < Len(records) /\ Emit("record", sent + 1)
           /\ sent' = sent + 1 /\ UNCHANGED <<pc, error>>
  <2>1. Ready /\ started /\ Call("record", sent + 1, "ok")
    BY <1>6, <1>7 DEF Emit
  <2>2. sent + 1 \in Subject /\ sent' \in 0..Len(records)
    BY <1>2, <1>3, <1>7
  <2>3. StreamInv' /\ ~Idle' /\ ~terminal' /\ LastKind' = "record"
    <3>1. "record" \in NonTerminal \cup Terminal /\ "record" \notin Terminal
      BY DEF NonTerminal, Terminal
    <3> QED
      BY <2>1, <2>2, <3>1, CallEffect DEF AnswerInv
  <2>4. ~Completed'
    BY <2>3 DEF Completed, LastKind
  <2>5. delivered' = Append(delivered, [kind |-> "record", of |-> sent + 1])
    <3>1. ~Refused("record")
      BY <2>1, ReadyHasSink DEF AnswerInv
    <3> QED
      BY <2>1, <3>1 DEF Call, Hand
  <2>6. Len(delivered) = sent + 1 /\ Given /\ delivered \in Seq(Event)
    BY <2>1 DEF AnswerInv, Sending, Ready, StreamInv, StreamTypeOK
  <2>7. Len(delivered') = sent' + 1 /\ Given'
    <3> DEFINE e == [kind |-> "record", of |-> sent + 1]
    <3>1. e \in Event
      BY <2>2 DEF Event, NonTerminal
    <3> HIDE DEF e
    <3>2. /\ Len(Append(delivered, e)) = Len(delivered) + 1
          /\ Append(delivered, e)[Len(delivered) + 1] = e
          /\ \A n \in 1..Len(delivered) : Append(delivered, e)[n] = delivered[n]
      BY <2>6, <3>1
    <3>3. ASSUME NEW n \in 1..sent' PROVE delivered'[n + 1] = [kind |-> "record", of |-> n]
      <4>1. CASE n = sent + 1
        BY <2>5, <2>6, <3>2, <4>1 DEF e
      <4>2. CASE n # sent + 1
        <5>1. n \in 1..sent /\ n + 1 \in 1..Len(delivered)
          BY <1>2, <1>3, <1>7, <2>6, <4>2
        <5>2. delivered'[n + 1] = delivered[n + 1]
          BY <2>5, <3>2, <5>1 DEF e
        <5> QED
          BY <2>6, <5>1, <5>2 DEF Given
      <4> QED
        BY <4>1, <4>2
    <3>4. Len(delivered') = sent' + 1
      BY <1>7, <2>5, <2>6, <3>2 DEF e
    <3> QED
      BY <3>3, <3>4 DEF Given
  <2>8. Streaming'
    BY <1>1, <1>2, <1>7, <2>3, <2>4 DEF Streaming, Silent, Speaking
  <2>9. Sending'
    BY <1>1, <1>2, <1>7, <2>2, <2>4, <2>7 DEF Sending, Silent
  <2>10. NotThere'
    BY <1>1, <1>7, RefusedIsThere
  <2> QED
    BY <1>4, <2>3, <2>8, <2>9, <2>10 DEF AnswerInv
<1>8. CASE result = "ok" /\ sent = Len(records) /\ Complete(0) /\ Go("completed") /\ UNCHANGED sent
  <2>1. Ready /\ started /\ Call("completed", 0, "ok")
    BY <1>6, <1>8 DEF Complete
  <2>2. StreamInv' /\ ~Idle' /\ terminal' /\ LastKind' = "completed"
    BY <2>1, CallEffect, ReadAssumption DEF AnswerInv, Terminal
  <2>3. Completed'
    BY <2>2 DEF Completed, LastKind, StreamInv, Ended
  <2>4. delivered' = Append(delivered, [kind |-> "completed", of |-> 0])
    <3>1. ~Refused("completed")
      BY <2>1, ReadyHasSink DEF AnswerInv
    <3> QED
      BY <2>1, <3>1 DEF Call, Hand
  <2>5. Len(delivered) = sent + 1 /\ Given /\ delivered \in Seq(Event)
    BY <2>1 DEF AnswerInv, Sending, Ready, StreamInv, StreamTypeOK
  <2>6. Len(delivered') = sent' + 2 /\ Given'
    <3> DEFINE e == [kind |-> "completed", of |-> 0]
    <3>1. e \in Event
      BY ReadAssumption DEF Event, Terminal
    <3> HIDE DEF e
    <3>2. /\ Len(Append(delivered, e)) = Len(delivered) + 1
          /\ \A n \in 1..Len(delivered) : Append(delivered, e)[n] = delivered[n]
      BY <2>5, <3>1
    <3>3. \A n \in 1..sent : n + 1 \in 1..Len(delivered)
      BY <1>2, <1>3, <2>5
    <3>4. \A n \in 1..sent : delivered'[n + 1] = [kind |-> "record", of |-> n]
      BY <2>4, <2>5, <3>2, <3>3 DEF Given, e
    <3>5. Len(delivered') = sent' + 2
      BY <1>2, <1>3, <1>8, <2>4, <2>5, <3>2 DEF e
    <3> QED
      BY <1>8, <3>4, <3>5 DEF Given
  <2>7. pc' = "completed" /\ error' = error
    BY <1>8 DEF Go
  <2>8. Streaming'
    BY <1>1, <1>2, <2>2, <2>3, <2>7 DEF Streaming, Silent, Speaking
  <2>9. Sending'
    BY <1>1, <1>2, <1>8, <2>2, <2>6, <2>7 DEF Sending, Silent
  <2>10. NotThere'
    BY <1>1, <2>7, RefusedIsThere
  <2> QED
    BY <1>4, <2>2, <2>8, <2>9, <2>10 DEF AnswerInv
<1> QED
  BY <1>5, <1>7, <1>8 DEF Emitting

LEMMA EndingAnswer ==
    ASSUME RInv, AnswerInv, Ending
    PROVE  AnswerInv'
<1>1. /\ pc \in {"failed", "completed"} /\ pc' = "answered" /\ Idle
      /\ UNCHANGED <<stream, request, answer, stdout, file>>
      /\ error' = error \/ error' = "sink"
  BY DEF Ending, terminals, disk
<1>2. stdout # "whole" /\ file # "mine"
  BY <1>1 DEF RInv, LeftInv
<1>3. error' = "none" => Completed
  BY <1>1 DEF AnswerInv, Streaming
<1> QED
  BY <1>1, <1>2, <1>3, StillStep

LEMMA SinkAnswer ==
    ASSUME RInv, AnswerInv, Sink
    PROVE  AnswerInv'
<1>1. /\ ~Idle /\ pc \in Speaking
      /\ UNCHANGED <<request, pc, error, answer, stdout, file>>
  BY DEF Sink, Alive, SinkAccepts, SinkRejects, AnswerInv, Streaming,
     terminals, disk
<1>2. StreamInv'
  BY SinkEffect DEF Sink, AnswerInv
<1>3. stdout # "whole" /\ file # "mine"
  BY <1>1 DEF RInv, LeftInv, Speaking
<1>4. NotThere'
  BY <1>1, RefusedIsThere
<1>5. CASE SinkAccepts \/ (SinkRejects /\ terminal)
  <2>1. /\ Idle' /\ UNCHANGED <<started, terminal, delivered>>
        /\ result' = "error" \/ result' = owed
    BY <1>5 DEF SinkAccepts, SinkRejects, Hand, Idle
  <2>2. Completed' = Completed
    BY <2>1 DEF Completed
  <2>3. Streaming'
    BY <1>1, <1>3, <2>1, <2>2 DEF AnswerInv, Streaming, Silent, Speaking
  <2>4. Sending'
    BY <1>1, <2>1, <2>2 DEF AnswerInv, Sending, Given, Silent, Speaking, answer
  <2>5. Listing'
    BY <1>1, <2>2, AskedStays DEF AnswerInv, Listing, answer
  <2> QED
    BY <1>2, <1>4, <2>3, <2>4, <2>5 DEF AnswerInv
<1>6. CASE SinkRejects /\ ~terminal
  <2>1. terminal' /\ owed' = "error" /\ ~Idle' /\ LastKind' = "failed"
    <3>1. StreamInv /\ Hand("failed", delivering.of) /\ owed' = "error"
      BY <1>6 DEF SinkRejects, AnswerInv
    <3>2. [kind |-> "failed", of |-> delivering.of] \in Event
      BY <1>1 DEF AnswerInv, StreamInv, StreamTypeOK, Event, Terminal, Idle
    <3> QED
      BY <3>1, <3>2, HandLast DEF Hand, Terminal
  <2>2. ~Completed'
    BY <2>1 DEF Completed, LastKind
  <2>3. ~Completed
    BY <1>6, CompletedIs DEF AnswerInv
  <2>4. Streaming'
    BY <1>1, <1>3, <2>1, <2>2, <2>3 DEF AnswerInv, Streaming, Silent, Speaking
  <2>5. Sending'
    BY <1>1, <2>1, <2>2 DEF AnswerInv, Sending, Silent, Speaking, answer
  <2>6. Listing'
    BY <1>1, <2>2, <2>3, AskedStays DEF AnswerInv, Listing, answer
  <2> QED
    BY <1>2, <1>4, <2>4, <2>5, <2>6 DEF AnswerInv
<1> QED
  BY <1>5, <1>6 DEF Sink

LEMMA RenderAnswer ==
    ASSUME RInv, AnswerInv, Render
    PROVE  AnswerInv'
<1>1. pc = "answered" /\ Idle /\ UNCHANGED <<stream, request, answer, file>>
  BY DEF Render, disk, AnswerInv, Streaming, Speaking
<1>2. stdout # "whole" /\ file # "mine"
  BY <1>1 DEF RInv, LeftInv
<1>3. error = "none" => Completed
  BY <1>1 DEF AnswerInv, Streaming
<1>4. error' = error \/ error' = "internal"
  BY DEF Render, Go, Refuse
<1>5. pc' \in {"report", "inspect"}
  BY DEF Render, Go, Refuse
<1>6. pc' = "inspect" \/ stdout' = "whole" => error = "none" /\ CanBeShown
  BY <1>2 DEF Render, Go, Refuse
<1> QED
  BY <1>1, <1>2, <1>3, <1>4, <1>5, <1>6, StillStep

LEMMA FileAnswer ==
    ASSUME RInv, AnswerInv, Inspect \/ Create \/ Fill \/ Sync \/ Rename
    PROVE  AnswerInv'
<1>1. pc \in WithFile /\ UNCHANGED <<stream, request, answer, stdout>>
  BY DEF Inspect, Create, Fill, Sync, Rename, terminals
<1>2. Completed /\ CanBeShown /\ Idle
  BY <1>1 DEF AnswerInv, Streaming, Speaking
<1>3. pc' \in {"report"} \cup WithFile
  BY DEF Inspect, Create, Fill, Sync, Rename, Discard, Go, Refuse
<1>4. error' = error \/ error' \in {"internal", "usage"}
  BY DEF Inspect, Create, Fill, Sync, Rename, Discard, Go, Refuse
<1> QED
  BY <1>1, <1>2, <1>3, <1>4, StillStep

LEMMA EnvironmentAnswer ==
    ASSUME RInv, AnswerInv, Report \/ EndContext \/ OtherRun \/ Kill \/ PowerLoss \/ UNCHANGED vars
    PROVE  AnswerInv'
<1>1. UNCHANGED <<stream, request, answer, error>>
  BY DEF Report, EndContext, OtherRun, Kill, PowerLoss, vars
<1>2. stdout' = stdout /\ (file' = "mine" => file = "mine")
  BY DEF Report, EndContext, OtherRun, Kill, PowerLoss, vars, terminals, disk
<1>3. pc' = pc \/ pc' \in Last
  BY DEF Report, EndContext, OtherRun, Kill, PowerLoss, vars
<1>4. /\ pc = "answered" /\ error = "none" => Completed
      /\ pc \in WithFile \/ stdout = "whole" \/ file = "mine" => Completed /\ CanBeShown
      /\ Completed => pc \in {"completed", "answered", "report"} \cup WithFile \cup Last
  BY DEF AnswerInv, Streaming
<1> QED
  BY <1>1, <1>2, <1>3, <1>4, StillStep

LEMMA NextAnswerInv ==
    ASSUME RInv, LoadInv, LoadInv', AnswerInv, [Next]_vars
    PROVE  AnswerInv'
BY CheckAnswer, ReadAnswer, NarrowingAnswer, LoadAnswer, LoadedAnswer,
   EmittingAnswer, EndingAnswer, SinkAnswer, RenderAnswer, FileAnswer,
   EnvironmentAnswer DEF Next, Stopped

LEMMA AnswerInvCorrect == Spec => [](RInv /\ LoadInv /\ AnswerInv)
BY InitRInv, NextRInv, InitLoadInv, NextLoadInv, InitAnswerInv,
   NextAnswerInv, PTL DEF Spec

(* For any request, any records of the service or a dump, and any sink: a  *)
(* caller has the whole answer or an error, the page of the records that   *)
(* match and no other, and who asked for one record has that one or the    *)
(* truth about it (Executor.Read, App.Run, getResource, writeOutputFile,   *)
(* Collection.GetProjectedByID).                                           *)
THEOREM AnswersAreWhole == Spec => []AnswerOrError
<1>1. RInv /\ LoadInv /\ AnswerInv => AnswerOrError
  <2> SUFFICES ASSUME RInv, LoadInv, AnswerInv PROVE AnswerOrError
    OBVIOUS
  <2>1. ExitTells
    BY ExitCodes, NoExitCode DEF RInv, Sorts, LeftInv, ExitInv, ExitTells
  <2>2. /\ stdout = "whole" \/ file = "mine" => Completed /\ CanBeShown
        /\ Completed => /\ "usage" \notin Wrong
                        /\ records = Matched(loaded)
                        /\ request.op = "get" => Len(loaded) = 1 /\ Identity(loaded[1]) = request.id
                        /\ Len(delivered) = sent + 2 /\ Given /\ sent = Len(records)
    BY DEF AnswerInv, Streaming, Sending, Listing
  <2>3. Completed => IsAnswer(Shown)
    BY <2>2, ShownIsAnswer DEF LoadInv
  <2>4. Completed /\ CanBeShown => request.op = "list" \/ Len(Shown) = 1
    <3> SUFFICES ASSUME Completed, CanBeShown, request.op # "list" PROVE Len(Shown) = 1
      OBVIOUS
    <3>1. request.page = None
      BY <2>2 DEF Wrong, RowsNarrowed
    <3> QED
      BY <3>1 DEF Shown, CanBeShown
  <2>5. OneIsTold
    BY <2>2, <2>4 DEF OneIsTold, AnswerInv, NotThere
  <2>6. Completed => /\ Len(delivered) = Cardinality(Matching) + 2
                     /\ \A n \in 1..Len(delivered) - 2 : delivered[n + 1] = [kind |-> "record", of |-> n]
    <3> SUFFICES ASSUME Completed
                 PROVE  /\ Len(delivered) = Cardinality(Matching) + 2
                        /\ \A n \in 1..Len(delivered) - 2 : delivered[n + 1] = [kind |-> "record", of |-> n]
      OBVIOUS
    <3>1. Len(records) = Cardinality(Matching) /\ records \in Seq(Nat)
      BY <2>2, RecordsArePlaced DEF LoadInv
    <3>2. Len(delivered) - 2 = sent
      BY <2>2, <3>1
    <3> QED
      BY <2>2, <3>1, <3>2 DEF Given
  <2>7. file # "torn"
    BY DEF RInv, LeftInv
  <2> QED
    BY <2>1, <2>2, <2>3, <2>5, <2>6, <2>7 DEF AnswerOrError
<1> QED
  BY <1>1, AnswerInvCorrect, PTL

-----------------------------------------------------------------------------
(* Types.  Those of the stream, of the request, of the error and of what   *)
(* was loaded are parts of the invariants above.                           *)

LEMMA MatchedAreLoaded ==
    ASSUME NEW list \in Seq(Record)
    PROVE  Matched(list) \in Seq(DOMAIN list)
<1> DEFINE views == [n \in DOMAIN list |-> View(list[n])]
<1>1. Len(views) = Len(list) /\ Len(list) \in Nat /\ DOMAIN list = 1..Len(list)
  OBVIOUS
<1>2. Matched(list) = FilterRecords(views, request.narrow)
  BY DEF Matched
<1> HIDE DEF views
<1>3. Placed(Matched(list), views, request.narrow, Len(list))
  BY <1>1, <1>2, MatchedIsPlaced
<1>4. /\ Matched(list) \in Seq(Nat)
      /\ \A n \in 1..Len(Matched(list)) : Matched(list)[n] \in DOMAIN list
  BY <1>1, <1>3 DEF Placed, MatchesTo
<1> QED
  BY <1>4

LEMMA RefsAreNumbers == request \in Requests => request.refs \in Nat
BY ReadAssumption

(* How far the read is, what it asked for, and what is left of it.         *)
Steps ==
    /\ pc \in {"check", "open", "settings", "resolve", "asking", "reader", "read", "started", "load",
               "loading", "record", "failed", "completed", "answered", "inspect", "create",
               "fill", "sync", "rename", "report", "over", "killed", "dark"}
    /\ asked \in 0..request.refs
    /\ records \in Seq(DOMAIN loaded)

Terminals ==
    /\ stdout \in {"none", "part", "whole"}
    /\ stderr \subseteq {"notices", "error"}
    /\ exit \in 0..5 \cup {None}
    /\ file \in {"before", "mine", "theirs", "torn"}
    /\ temp \in {"none", "part", "whole"}

Switches == contacted \in BOOLEAN /\ notices \in BOOLEAN /\ safe \in BOOLEAN

LEMMA InitSteps == Init => Steps /\ Terminals /\ Switches
<1> SUFFICES ASSUME Init PROVE Steps /\ Terminals /\ Switches
  OBVIOUS
<1>1. request.refs \in Nat
  BY RefsAreNumbers DEF Init
<1>2. Steps
  BY <1>1 DEF Init, Steps
<1>3. Terminals
  BY DEF Init, Terminals
<1>4. Switches
  BY DEF Init, Switches
<1> QED
  BY <1>2, <1>3, <1>4

LEMMA NextSteps ==
    ASSUME RInv, LoadInv, LoadInv', Steps, [Next]_vars
    PROVE  Steps'
<1> USE DEF Steps
<1>1. CASE Check \/ OpenDump \/ Settings \/ Provided \/ NewReader
  BY <1>1 DEF Check, OpenDump, Settings, Provided, NewReader, RuntimeFails,
     Refuse, Go, answer
<1>2. CASE Resolve
  <2>1. request.refs \in Nat
    BY RefsAreNumbers DEF RInv, Sorts
  <2>2. asked' \in 0..request.refs
    BY <1>2, <2>1 DEF Resolve
  <2> QED
    BY <1>2, <2>2 DEF Resolve, RuntimeFails, Refuse, Go, answer
<1>3. CASE Read \/ Narrowing \/ Load \/ Emitting \/ Ending \/ Sink
  BY <1>3 DEF Read, Narrowing, Load, Emitting, Ending, Sink, FailWith, Abort,
     Go, answer
<1>4. CASE Loaded
  <2>1. records' \in Seq(DOMAIN loaded')
    BY <1>4, MatchedAreLoaded DEF Loaded, LoadInv
  <2>2. pc' \in {"failed", "record"}
    BY <1>4 DEF Loaded, FromCollection, FromService, GetFromCollection, FailWith, Go
  <2> QED
    BY <1>4, <2>1, <2>2 DEF Loaded
<1>5. CASE Render \/ Inspect \/ Create \/ Fill \/ Sync \/ Rename \/ Report
  BY <1>5 DEF Render, Inspect, Create, Fill, Sync, Rename, Report, Discard,
     Refuse, Go, answer
<1>6. CASE EndContext \/ OtherRun \/ Kill \/ PowerLoss \/ UNCHANGED vars
  BY <1>6 DEF EndContext, OtherRun, Kill, PowerLoss, vars, answer
<1> QED
  BY <1>1, <1>2, <1>3, <1>4, <1>5, <1>6 DEF Next, Stopped

LEMMA NextTerminals ==
    ASSUME RInv, Terminals, [Next]_vars
    PROVE  Terminals'
<1> USE DEF Terminals
<1>1. CASE Check \/ OpenDump \/ Settings \/ Resolve \/ Provided \/ NewReader
  BY <1>1 DEF Check, OpenDump, Settings, Resolve, Provided, NewReader, terminals, disk
<1>2. CASE Read \/ Narrowing \/ Load \/ Loaded \/ Emitting \/ Ending \/ Sink
  BY <1>2 DEF Read, Narrowing, Load, Loaded, Emitting, Ending, Sink, terminals, disk
<1>3. CASE Render \/ Inspect \/ Create \/ Fill \/ Sync \/ Rename
  BY <1>3 DEF Render, Inspect, Create, Fill, Sync, Rename, Discard, terminals, disk
<1>4. CASE Report
  <2>1. exit' \in 0..5 \cup {None}
    BY <1>4, ExitCodes DEF Report, RInv, Sorts
  <2> QED
    BY <1>4, <2>1 DEF Report, disk
<1>5. CASE EndContext \/ OtherRun \/ Kill \/ PowerLoss \/ UNCHANGED vars
  BY <1>5 DEF EndContext, OtherRun, Kill, PowerLoss, vars, terminals, disk
<1> QED
  BY <1>1, <1>2, <1>3, <1>4, <1>5 DEF Next, Stopped

LEMMA NextSwitches ==
    ASSUME Switches, [Next]_vars
    PROVE  Switches'
<1> USE DEF Switches
<1>1. \/ contacted' = contacted
      \/ contacted' = TRUE
  BY DEF Next, Check, OpenDump, Settings, Resolve, Provided, NewReader, Read, Narrowing, Load,
     Loaded, Emitting, Ending, Sink, Render, Inspect, Create, Fill, Sync, Rename, Report,
     EndContext, OtherRun, Kill, PowerLoss, Stopped, vars, answer
<1>2. \/ notices' = notices
      \/ notices' \in BOOLEAN
  BY DEF Next, Check, OpenDump, Settings, Resolve, Provided, NewReader, Read, Narrowing, Load,
     Loaded, Emitting, Ending, Sink, Render, Inspect, Create, Fill, Sync, Rename, Report,
     EndContext, OtherRun, Kill, PowerLoss, Stopped, vars, terminals
<1>3. \/ safe' = safe
      \/ safe' = TRUE
  BY DEF Next, Check, OpenDump, Settings, Resolve, Provided, NewReader, Read, Narrowing, Load,
     Loaded, Emitting, Ending, Sink, Render, Inspect, Create, Fill, Sync, Rename, Report,
     EndContext, OtherRun, Kill, PowerLoss, Stopped, vars, disk
<1> QED
  BY <1>1, <1>2, <1>3

(* Every variable of a read keeps its type: it is at a step of the code,   *)
(* never asks for more secrets than there are, and never has a record to   *)
(* emit that was not listed (runProductWithRuntime, Executor.Read).        *)
THEOREM ReadTypes == Spec => []TypeOK
<1>1. RInv /\ LoadInv /\ AnswerInv /\ Steps /\ Terminals /\ Switches => TypeOK
  BY DEF RInv, Sorts, LoadInv, AnswerInv, StreamInv, Sending, Steps, Terminals, Switches, TypeOK
<1>2. Spec => [](Steps /\ Terminals /\ Switches)
  BY InitSteps, NextSteps, NextTerminals, NextSwitches, LoadInvCorrect, PTL DEF Spec
<1> QED
  BY <1>1, <1>2, AnswerInvCorrect, PTL

=============================================================================
