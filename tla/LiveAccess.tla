------------------------------ MODULE LiveAccess ------------------------------
(***************************************************************************)
(* How internal/zscaler reads one resource of a live tenant: the service a *)
(* read acquires or a session holds, the sign-in, the requests the SDK     *)
(* repeats by itself, and the verdict a failure is given.                  *)
(*                                                                         *)
(* The verdict is all a script sees: a record that does not exist (exit    *)
(* 4), credentials to be replaced, a failure worth a retry.  What the      *)
(* tenant answered reaches it through an SDK that retries, signs in again  *)
(* by itself, and reports some failures as text without a status.          *)
(*                                                                         *)
(* A list is one page here (how pages follow each other is PageWalk's), so *)
(* the locations are asked for once before each of them.                   *)
(***************************************************************************)
EXTENDS Integers

CONSTANTS
    Setups,       \* how the reader may be configured
    SearchFailures, \* how the requests of a search may fail, <<status, note>>
    Parents       \* the locations a sublocation is looked for in: 1..Parents

ASSUME LiveAssumption ==
    /\ Setups \subseteq [auth : {"oneapi", "legacy"}, product : {"zia", "zpa", "zidentity", "zdx"},
                         customer : BOOLEAN, gov : BOOLEAN]
    /\ Parents \in Nat

(* The SDK tries a OneAPI request twice and signs in again once in a row;  *)
(* a legacy one is tried five times.                                       *)
MaxRetries == 2
MaxRefreshes == 1
LegacyRetries == 5

VARIABLES
    setup,
    home,         \* where the record asked for is: 0 nowhere, or the parent that holds it
    ctx,          \* "live", "canceled" or "deadline"
    session,      \* "none", "open" or "closed"
    signedIn,     \* whether the service of this read, or of the session, is signed in
    read,         \* the read under way: [op, valid, offered]
    phase,
    asking,       \* the request: "record", "collection", "parents" or "parent"
    attempt,      \* which try of the request this is
    refreshes,    \* the sign-ins in a row that this request was answered with
    parent,       \* the location being searched
    skipped,      \* the error kept of a location that could not be searched
    result,       \* what the handler returned
    outcome,      \* what the caller is told
    heard,        \* why locations of this read could not be searched
    last,         \* the last answer of this read but successful sign-ins
    held          \* the services acquired and not given back

walk == <<asking, attempt, refreshes, parent, skipped, heard>>
services == <<session, signedIn, held>>
fixed == <<setup, home>>
live == <<fixed, ctx, services, read, phase, walk, result, outcome, last>>

Gets == {"get", "scan", "search"}
Read == [op : {"list", "show"} \cup Gets, valid : BOOLEAN, offered : BOOLEAN]
Opening == [op |-> "session", valid |-> TRUE, offered |-> TRUE]

(* A 401 or 403 may say that the session ended, a 403 that the licence     *)
(* does not cover the feature, a 429 or 503 that the client has to wait,   *)
(* at most five minutes or longer, a 500 that the request will never do.   *)
(* A decoded answer may be the records, another one, such as {}, or pages  *)
(* the walker does not accept.  Status 0 is no answer at all.  A bare      *)
(* answer says no more than its status.                                    *)
Note == {"plain", "bare", "session", "short", "long", "verdict", "slow", "exhausted", "licence",
         "good", "strange", "unexpected", "unproven", "garbled",
         "permanent", "transport", "stalled", "timeout", "ended"}
Answer == [to : {"signin", "renewal", "record", "collection", "parents", "parent"},
           status : Nat, note : Note]
Error == [is : {"error"}, signIn : BOOLEAN, status : Nat, note : Note]
Result == {"none", "record", "records", "absent", "unsupported", "invalid_id", "missing_credentials"}

Plain == [is |-> "error", signIn |-> FALSE, status |-> 0, note |-> "plain"]
Failure(x) == [Plain EXCEPT !.status = x.status, !.note = x.note]
SignInFailure(x) == [Failure(x) EXCEPT !.signIn = TRUE]
Returned(what) == [Plain EXCEPT !.is = what]
NoError == Returned("none")
NoAnswer == [to |-> "signin", status |-> 200, note |-> "bare"]

Verdict(kind) == [kind |-> kind, reason |-> "none", retryable |-> FALSE]

LiveTypeOK ==
    /\ setup \in Setups
    /\ home \in 0..Parents
    /\ ctx \in {"live", "canceled", "deadline"}
    /\ session \in {"none", "open", "closed"}
    /\ signedIn \in BOOLEAN
    /\ read \in Read \cup {Opening}
    /\ phase \in {"idle", "acquire", "signin", "ask", "refresh", "return"}
    /\ asking \in {"record", "collection", "parents", "parent"}
    /\ attempt \in 1..(LegacyRetries + 1)
    /\ refreshes \in 0..MaxRefreshes
    /\ parent \in 1..(Parents + 1)
    /\ skipped \in Error \cup {NoError}
    /\ result.is \in Result \cup {"error"}
    /\ outcome.kind \in {"none", "record", "records", "not_found", "unsupported", "invalid_id",
                         "missing_credentials", "canceled", "deadline", "failed"}
    /\ heard \subseteq Answer
    /\ last \in Answer
    /\ held \in Int

-----------------------------------------------------------------------------
(* The tenant and the network.                                             *)

SignInAnswers ==
    {[to |-> "signin", status |-> s, note |-> "bare"] : s \in {200, 302, 401, 404, 500}}
    \cup {[to |-> "signin", status |-> 200, note |-> "garbled"]}
    \cup {[to |-> "signin", status |-> 0, note |-> n] : n \in {"permanent", "transport", "timeout"}}

Failures ==
    {<<401, "bare">>, <<401, "session">>, <<403, "bare">>, <<403, "session">>, <<408, "bare">>, <<422, "bare">>,
     <<429, "bare">>, <<429, "short">>, <<429, "long">>, <<500, "bare">>, <<500, "verdict">>, <<503, "long">>,
     <<0, "permanent">>, <<0, "transport">>, <<0, "stalled">>, <<0, "timeout">>,
     <<200, "garbled">>}

ASSUME SearchAssumption == SearchFailures \subseteq Failures

(* The record's own address answers 404 only if the record does not exist. *)
(* The others may at any time: a wrong host, a product that is not there,  *)
(* a location deleted meanwhile.                                           *)
Replies ==
    (IF read.op = "search" THEN SearchFailures ELSE Failures)
    \cup (IF asking = "record" /\ home = 0 THEN {<<404, "bare">>} ELSE {<<200, "good">>})
    \cup (IF asking = "record" THEN {<<200, "strange">>} ELSE {<<404, "bare">>, <<200, "unproven">>})
    \cup (IF read.op = "list" THEN {<<403, "licence">>} ELSE {})

(* With the context ended no request gets an answer.                       *)
Answers ==
    {[to |-> asking, status |-> r[1], note |-> r[2]] :
        r \in IF ctx = "live" THEN Replies ELSE {<<0, "ended">>}}

SignedIn(x) == x.to \in {"signin", "renewal"} /\ x.status = 200 /\ x.note = "bare"

Hear(x) == last' = IF SignedIn(x) THEN last ELSE x

ContextEnds(how) ==
    /\ ctx = "live"
    /\ phase # "idle"
    /\ ctx' = how
    /\ UNCHANGED <<fixed, services, read, phase, walk, result, outcome, last>>

-----------------------------------------------------------------------------
(* A read begins.                                                          *)

FirstRequest(op) ==
    CASE op \in {"list", "scan"} -> "collection"
      [] op = "search"           -> "parents"
      [] OTHER                   -> "record"

(* What is refused before a service is acquired: a resource or operation   *)
(* no handler offers, an id that is no id.                                 *)
Unasked(r) ==
    IF ~r.offered THEN "unsupported"
    ELSE IF r.op \in Gets /\ ~r.valid THEN "invalid_id"
    ELSE "none"

Return(r) == phase' = "return" /\ result' = r

StartRead(r) ==
    /\ phase = "idle"
    /\ session \in {"none", "open"}
    /\ read' = r
    /\ asking' = FirstRequest(r.op)
    /\ attempt' = 1 /\ refreshes' = 0 /\ parent' = 1 /\ skipped' = NoError
    /\ outcome' = Verdict("none")
    /\ heard' = {} /\ last' = NoAnswer
    /\ IF Unasked(r) = "none"
       THEN phase' = "acquire" /\ result' = Returned("none")
       ELSE Return(Returned(Unasked(r)))
    /\ UNCHANGED <<fixed, ctx, services>>

(* Session: the products of a dump.                                        *)
OpenSession ==
    /\ phase = "idle"
    /\ session = "none"
    /\ ctx = "live"
    /\ read' = Opening
    /\ outcome' = Verdict("none")
    /\ heard' = {} /\ last' = NoAnswer
    /\ IF setup.product = "zdx"
       THEN Return(Returned("unsupported"))
       ELSE phase' = "acquire" /\ result' = Returned("none")
    /\ UNCHANGED <<fixed, ctx, services, asking, attempt, refreshes, parent, skipped>>

(* What the configuration excludes, before anything is sent.               *)
NoGateway == setup.auth = "oneapi" /\ setup.product = "zidentity" /\ setup.gov

Unusable ==
    IF setup.auth = "legacy" THEN (IF setup.product # "zia" THEN "missing_credentials" ELSE "none")
    ELSE IF NoGateway THEN "unsupported"
    ELSE IF setup.product = "zpa" /\ ~setup.customer THEN "missing_credentials"
    ELSE "none"

Shared == session = "open"

(* A read of a session uses its service.                                   *)
UseSession ==
    /\ phase = "acquire"
    /\ Shared
    /\ IF NoGateway THEN Return(Returned("unsupported"))
       ELSE IF ctx # "live" THEN Return([Plain EXCEPT !.note = "ended"])
       ELSE phase' = "ask" /\ UNCHANGED result
    /\ UNCHANGED <<fixed, ctx, services, read, walk, outcome, last>>

Ready == IF read.op = "session" THEN session' = "open" /\ phase' = "return"
         ELSE UNCHANGED session /\ phase' = "ask"

(* Any other acquires one of its own.  A legacy one signs in when it is    *)
(* first used.                                                             *)
Acquire ==
    /\ phase = "acquire"
    /\ ~Shared
    /\ \/ /\ Unusable # "none"
          /\ Return(Returned(Unusable))
          /\ UNCHANGED services
       \/ /\ Unusable = "none"
          /\ setup.auth = "oneapi"
          /\ phase' = "signin"
          /\ UNCHANGED <<services, result>>
       \/ /\ Unusable = "none"
          /\ setup.auth = "legacy"
          /\ Ready
          /\ held' = held + 1
          /\ signedIn' = FALSE
          /\ UNCHANGED result
    /\ UNCHANGED <<fixed, ctx, read, walk, outcome, last>>

-----------------------------------------------------------------------------
(* Signing in.                                                             *)

(* Mutant of SignInError: what the SDK reports is returned as it is.       *)
SignInErrorFlattened(x) == Plain

(* The SDK turns a failed sign-in to text; the transport kept what it was, *)
(* unless the endpoint answered 2xx.                                       *)
SignInError(x) == IF x.status = 200 THEN Plain ELSE SignInFailure(x)

SignInAttempts == IF ctx = "live" THEN SignInAnswers
                  ELSE {[to |-> "signin", status |-> 0, note |-> "ended"]}

SignIn ==
    /\ phase = "signin"
    /\ \E x \in SignInAttempts :
          /\ Hear(x)
          /\ IF SignedIn(x)
             THEN /\ Ready
                  /\ held' = held + 1
                  /\ signedIn' = TRUE
                  /\ UNCHANGED result
             ELSE Return(SignInError(x)) /\ UNCHANGED services
    /\ UNCHANGED <<fixed, ctx, read, walk, outcome>>

-----------------------------------------------------------------------------
(* What the handler makes of the SDK's answers.                            *)

(* A location that cannot be searched is skipped, but not because a page   *)
(* of it could not be accepted or the context ended.                       *)
Skippable(e) == ctx = "live" /\ e.note # "unproven"

Skip(e) ==
    /\ skipped' = IF skipped = NoError \/ skipped.status = 404 THEN e ELSE skipped
    /\ parent' = parent + 1
    /\ heard' = heard \cup {last'}

NextRequest(to) ==
    /\ phase' = "ask"
    /\ asking' = to
    /\ attempt' = 1
    /\ refreshes' = 0
    /\ UNCHANGED result

Failed(e) ==
    IF asking = "parent" /\ Skippable(e)
    THEN Skip(e) /\ NextRequest("parents")
    ELSE Return(e) /\ UNCHANGED walk

(* Mutant of Searched: what could not be searched is forgotten.            *)
SearchedAnyway == Returned("absent")

(* All locations were visited.                                             *)
Searched == IF skipped = NoError THEN Returned("absent") ELSE skipped

Same == UNCHANGED walk

Good ==
    CASE asking = "record" ->
           Return(Returned("record")) /\ Same
      [] asking = "collection" /\ read.op = "list" ->
           Return(Returned("records")) /\ Same
      [] asking = "collection" /\ read.op = "scan" ->
           Return(Returned(IF home # 0 THEN "record" ELSE "absent")) /\ Same
      [] asking = "parents" /\ parent > Parents ->
           Return(Searched) /\ Same
      [] asking = "parents" /\ parent <= Parents ->
           NextRequest("parent") /\ UNCHANGED <<parent, skipped, heard>>
      [] asking = "parent" /\ home = parent ->
           Return(Returned("record")) /\ Same
      [] asking = "parent" /\ home # parent ->
           NextRequest("parents") /\ parent' = parent + 1 /\ UNCHANGED <<skipped, heard>>

(* A record that is not the one asked for is refused, a setting is not.    *)
Decoded(x) ==
    CASE x.note = "good"    -> Good
      [] x.note = "strange" ->
           IF read.op = "get" THEN Failed([Plain EXCEPT !.note = "unexpected"])
           ELSE Return(Returned("record")) /\ Same
      [] x.note \in {"garbled", "unproven"} -> Failed([Plain EXCEPT !.note = x.note])

-----------------------------------------------------------------------------
(* The SDK's loop around a OneAPI request (ExecuteRequest).                *)

EndedSession(x) == x.status \in {401, 403} /\ x.note = "session"
Waits(x) == x.status \in {429, 503} /\ x.note \in {"short", "long"}
Repeated(x) == x.note = "short" \/ (x.status \in {500, 503} /\ x.note = "bare")

(* Mutant of Again: the tries are not counted.                             *)
AgainUncounted == UNCHANGED <<asking, attempt, parent, skipped, heard, phase, result>>

Again == attempt' = attempt + 1 /\ UNCHANGED <<asking, parent, skipped, heard, phase, result>>

OutOfTries == attempt > MaxRetries

Asking(auth) == phase = "ask" /\ setup.auth = auth

Try ==
    /\ Asking("oneapi")
    /\ ~OutOfTries
    /\ \E x \in Answers :
          /\ Hear(x)
          /\ \/ /\ EndedSession(x)
                /\ refreshes < MaxRefreshes
                /\ phase' = "refresh"
                /\ refreshes' = refreshes + 1
                /\ UNCHANGED <<asking, attempt, parent, skipped, heard, result>>
             \/ /\ EndedSession(x)
                /\ refreshes = MaxRefreshes
                /\ Failed([Plain EXCEPT !.note = "exhausted"])
             \/ /\ Repeated(x)
                /\ Again
                /\ refreshes' = 0
             \/ Waits(x) /\ x.note = "long" /\ Failed(Plain)
             \/ x.status = 200 /\ Decoded(x)
             \/ /\ x.status # 200 /\ ~EndedSession(x) /\ ~Repeated(x) /\ ~Waits(x)
                /\ Failed(Failure(x))
    /\ UNCHANGED <<fixed, ctx, services, read, outcome>>

(* The last answer is the error.                                           *)
GiveUp ==
    /\ Asking("oneapi")
    /\ OutOfTries
    /\ UNCHANGED <<fixed, ctx, services, read, outcome, last>>
    /\ Failed(Failure(last))

(* The tries and the sign-in between them took as long as one may take.    *)
RunOutOfTime ==
    /\ Asking("oneapi")
    /\ attempt > 1 /\ ~OutOfTries
    /\ Hear([to |-> asking, status |-> 0, note |-> "slow"])
    /\ Failed(Plain)
    /\ UNCHANGED <<fixed, ctx, services, read, outcome>>

(* The SDK's loop around a legacy request (GenericRequest, do).  It signs  *)
(* in first; a sign-in is not interrupted by the context.                  *)
LegacySignIn ==
    /\ Asking("legacy")
    /\ ~signedIn
    /\ \E x \in SignInAnswers :
          /\ Hear(x)
          /\ IF SignedIn(x)
             THEN signedIn' = TRUE /\ UNCHANGED <<phase, result, walk>>
             ELSE Failed(SignInError(x)) /\ UNCHANGED signedIn
    /\ UNCHANGED <<fixed, ctx, session, held, read, outcome>>

(* A try that was answered with an ended session signs in and asks again;  *)
(* any 401 after that, and any other, is the next try.                     *)
LegacyTry ==
    /\ Asking("legacy")
    /\ signedIn
    /\ attempt <= LegacyRetries
    /\ \E x \in Answers :
          /\ Hear(x)
          /\ \/ /\ x.status = 401 /\ EndedSession(x) /\ refreshes = 0
                /\ phase' = "refresh"
                /\ refreshes' = 1
                /\ UNCHANGED <<asking, attempt, parent, skipped, heard, result>>
             \/ /\ x.status = 401 /\ (EndedSession(x) => refreshes = 1)
                /\ Again
                /\ refreshes' = 0
             \/ x.status = 200 /\ Decoded(x)
             \/ x.status \notin {200, 401} /\ Failed(Failure(x))
    /\ UNCHANGED <<fixed, ctx, services, read, outcome>>

LegacyGiveUp ==
    /\ Asking("legacy")
    /\ attempt > LegacyRetries
    /\ UNCHANGED <<fixed, ctx, services, read, outcome, last>>
    /\ Failed(Failure(last))

(* Signing in again in the middle of a request.  OneAPI makes a new try of *)
(* it, and reports a failure as text; nobody asks the transport what it    *)
(* was.                                                                    *)
Refresh ==
    /\ phase = "refresh"
    /\ \E x \in {[y EXCEPT !.to = "renewal"] :
                    y \in IF setup.auth = "legacy" THEN SignInAnswers ELSE SignInAttempts} :
          /\ Hear(x)
          /\ IF SignedIn(x)
             THEN /\ phase' = "ask"
                  /\ attempt' = IF setup.auth = "oneapi" THEN attempt + 1 ELSE attempt
                  /\ UNCHANGED <<asking, refreshes, parent, skipped, heard, result>>
             ELSE Failed(IF setup.auth = "oneapi" THEN Plain ELSE SignInError(x))
    /\ UNCHANGED <<fixed, ctx, services, read, outcome>>

-----------------------------------------------------------------------------
(* The verdict.                                                            *)

(* browserIsolation: a licence that is missing, and no other error of it.  *)
NotSubscribed(e) == e.note = "licence" /\ e.status \in 400..499 /\ e.status \notin {408, 429}

Reason(reason, retryable) == [kind |-> "failed", reason |-> reason, retryable |-> retryable]

StatusReason(status) ==
    CASE status = 401 -> Reason("unauthorized", FALSE)
      [] status = 403 -> Reason("forbidden", FALSE)
      [] status = 404 -> Reason("not_found", FALSE)
      [] status = 429 -> Reason("rate_limited", TRUE)
      [] status = 408 -> Reason("timeout", TRUE)
      [] status >= 500 -> Reason("server_error", TRUE)
      [] OTHER        -> Reason("client_error", FALSE)

classifyFailure(e) ==
    CASE e.signIn /\ e.status \in {400, 401, 403}    -> Reason("credentials_rejected", FALSE)
      [] NotSubscribed(e)                            -> Reason("not_subscribed", FALSE)
      [] ~NotSubscribed(e) /\ e.status >= 400 /\ ~(e.signIn /\ e.status \in {400, 401, 403})
                                                     -> StatusReason(e.status)
      [] e.status < 400 /\ e.note = "unproven"       -> Reason("pagination_incomplete", FALSE)
      [] e.status < 400 /\ e.note \in {"garbled", "unexpected"} -> Reason("decode_failed", FALSE)
      [] e.status < 400 /\ e.note = "exhausted"      -> Reason("forbidden", FALSE)
      [] e.status < 400 /\ e.note = "permanent"      -> Reason("transport", FALSE)
      [] e.status < 400 /\ e.note = "stalled"        -> Reason("timeout", TRUE)
      [] e.status < 400 /\ e.note = "transport"      -> Reason("transport", TRUE)
      [] e.status < 400 /\ e.note \in {"plain", "bare"}  -> Reason("unknown", FALSE)

(* Mutant of RecordIsMissing: a sign-in is not told from the read.         *)
RecordIsMissingAnyhow(e) == read.op \in Gets /\ e.status = 404

RecordIsMissing(e) == read.op \in Gets /\ e.status = 404 /\ ~e.signIn

normalizeLiveError(e) ==
    IF ctx # "live" THEN Verdict(ctx)
    ELSE IF e.note = "timeout" THEN Verdict("deadline")
    ELSE IF RecordIsMissing(e) THEN Verdict("not_found")
    ELSE classifyFailure(e)

(* What passes as it is.  Opening a session looks at the context before it *)
(* reports what is unsupported.                                            *)
Told ==
    CASE result.is = "none"   -> Verdict("records")
      [] result.is = "error"  -> normalizeLiveError(result)
      [] result.is = "absent" -> Verdict("not_found")
      [] result.is = "unsupported" /\ read.op = "session" /\ setup.product # "zdx" /\ ctx # "live" ->
             Verdict(ctx)
      [] OTHER -> Verdict(result.is)

(* Mutant of OwnService: the service of a session is the read's to give    *)
(* back.                                                                   *)
OwnServiceAlways == phase = "return" /\ read.op # "session" /\ held > 0

(* A read gives back the service it acquired: it calls the cleanup, which  *)
(* closes the client, but for a legacy ZIA client, which stays open since  *)
(* closing it would deadlock.                                              *)
OwnService == phase = "return" /\ read.op # "session" /\ ~Shared /\ held > 0

End ==
    /\ phase = "return"
    /\ phase' = "idle"
    /\ outcome' = Told
    /\ held' = IF OwnService THEN held - 1 ELSE held
    /\ signedIn' = (signedIn /\ ~OwnService)
    /\ attempt' = 1 /\ refreshes' = 0 /\ parent' = 1 /\ skipped' = NoError
    /\ result' = Returned("none")
    /\ UNCHANGED <<fixed, ctx, session, read, asking, heard, last>>

CloseSession ==
    /\ phase = "idle"
    /\ session = "open"
    /\ session' = "closed"
    /\ signedIn' = FALSE
    /\ held' = held - 1
    /\ UNCHANGED <<fixed, ctx, read, phase, walk, result, outcome, last>>

-----------------------------------------------------------------------------

LiveInit ==
    /\ setup \in Setups
    /\ home \in 0..Parents
    /\ ctx = "live"
    /\ session = "none"
    /\ signedIn = FALSE
    /\ read = Opening
    /\ phase = "idle"
    /\ asking = "record" /\ attempt = 1 /\ refreshes = 0 /\ parent = 1 /\ skipped = NoError
    /\ result = Returned("none")
    /\ outcome = Verdict("none")
    /\ heard = {} /\ last = NoAnswer
    /\ held = 0

(* A step of the read itself: it never waits for another.                  *)
LiveStep ==
    \/ UseSession \/ Acquire
    \/ SignIn \/ Try \/ GiveUp \/ RunOutOfTime
    \/ LegacySignIn \/ LegacyTry \/ LegacyGiveUp
    \/ Refresh \/ End

(* Nothing is left to be read.                                             *)
LiveFinished == phase = "idle" /\ session # "open" /\ UNCHANGED live

LiveNext ==
    \/ \E r \in Read : StartRead(r)
    \/ OpenSession
    \/ \E how \in {"canceled", "deadline"} : ContextEnds(how)
    \/ LiveStep
    \/ CloseSession
    \/ LiveFinished

LiveSpec == LiveInit /\ [][LiveNext]_live
LiveFairSpec == LiveSpec /\ WF_live(LiveStep)

-----------------------------------------------------------------------------
(* Properties.                                                             *)

(* What the published schema of errors says an answer is called.           *)
Documented(x) ==
    IF x.to \in {"signin", "renewal"} /\ x.status \in {400, 401, 403} THEN {"credentials_rejected"}
    ELSE CASE x.status = 401 -> {"unauthorized"} \cup (IF x.note = "session" THEN {"forbidden"} ELSE {})
           [] x.status = 403 -> {IF x.note = "licence" THEN "not_subscribed" ELSE "forbidden"}
           [] x.status = 404 -> {"not_found"}
           [] x.status = 408 -> {"timeout"}
           [] x.status = 429 -> {"rate_limited"}
           [] x.status >= 500 -> {"server_error"}
           [] x.status \in {400, 422} -> {"client_error"}
           [] x.status = 200 ->
                 {IF x.note = "unproven" THEN "pagination_incomplete" ELSE "decode_failed"}
           [] OTHER -> {CASE x.note \in {"permanent", "transport"} -> "transport"
                          [] x.note \in {"stalled", "timeout"}     -> "timeout"
                          [] OTHER                                 -> "unknown"}

Transient(x) == x.status >= 500 \/ x.status \in {408, 429}
                \/ (x.status = 0 /\ x.note \in {"transport", "stalled", "timeout"})

(* What the SDK reports as text: a sign-in in the middle of a request, one *)
(* that was answered with something else, a wait it does not wait for, and *)
(* tries that together took too long.                                      *)
Unnamed(x) ==
    \/ x.to = "renewal"
    \/ x.to = "signin" /\ x.status = 200
    \/ x.note \in {"long", "slow"}

Explains(x) ==
    \/ outcome.reason \in Documented(x) /\ outcome.retryable = Transient(x)
    \/ outcome.reason = "unknown" /\ ~outcome.retryable /\ Unnamed(x)

(* The answers a verdict may rest on: the last one, or, where several      *)
(* locations were searched, the one that was kept.                         *)
Grounds == (heard \cup {last}) \ {NoAnswer}

(* Whatever the SDK repeats, signs in for and hides, what a caller is told *)
(* is so: a record only if the one asked for exists; not found only if it  *)
(* does not, or an address other than its own answered 404; the end of the *)
(* context or a timeout only if there was one; and a reason and the advice *)
(* to retry only as the schema documents them for an answer this read got, *)
(* the last one wherever only one counts (normalizeLiveError,              *)
(* classifyFailure, signInTransport, getZIASublocationByID).               *)
VerdictIsTrue ==
    /\ outcome.kind = "record" /\ read.op \in Gets => home # 0
    /\ outcome.kind = "not_found" =>
           read.op \in Gets
           /\ (home = 0 \/ \E x \in Grounds : x.status = 404 /\ x.to \in {"collection", "parents", "parent"})
    /\ outcome.kind = "canceled" => ctx = "canceled"
    /\ outcome.kind = "deadline" => ctx = "deadline" \/ \E x \in Grounds : x.note = "timeout"
    /\ outcome.kind = "failed" => \E x \in Grounds : Explains(x)

(* A service belongs to one read or to the session: its cleanup is called  *)
(* when that ends, however it ends, never before, and never twice          *)
(* (withService, perCallService, fixedService, SDKSession.Close).          *)
ServicesReleased ==
    /\ held \in {0, 1}
    /\ Shared \/ phase \in {"ask", "refresh"} => held = 1
    /\ phase = "idle" /\ ~Shared => held = 0

(* Every read comes back, whatever is answered: the tries, the sign-ins in *)
(* between and the locations are bounded (ExecuteRequest, GenericRequest,  *)
(* getZIASublocationByID).  The client's timeout answers for a host that   *)
(* does not.                                                               *)
ReadsReturn == phase # "idle" ~> phase = "idle"

(* Not found is said only of a record that does not exist: `get` exits     *)
(* with 4 for "an id that does not exist" (docs/VERSIONING.md), and a 404  *)
(* of a list "is an endpoint/access problem, not a missing record"         *)
(* (normalizeLiveError).                                                   *)
NotFoundIsTrue == outcome.kind = "not_found" => home = 0

=============================================================================
