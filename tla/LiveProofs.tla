------------------------------ MODULE LiveProofs ------------------------------
(***************************************************************************)
(* Proofs about the two parts of a live command that MCLive runs: the      *)
(* spinner, for any number of callers and calls, and LiveAccess, for any   *)
(* set of configurations, any number of locations and any failures of a    *)
(* search.  Neither part says anything of the other.                       *)
(***************************************************************************)
EXTENDS Spinner, LiveAccess, TLAPS

-----------------------------------------------------------------------------
(* THE SPINNER.                                                            *)

(* The lock is held exactly by the one that writes, and what it is about to *)
(* write is the last text, for nobody can set another one meanwhile.        *)
LockInv ==
    \A a \in Actor :
        /\ mu = a <=> pc[a] \in {"write", "wipe"}
        /\ pc[a] = "write" => line[a] = text /\ ~stopped

(* Before Start there is no goroutine and nothing to stop, then one is      *)
(* counted until it is gone.                                                *)
CountInv ==
    /\ wg = IF started /\ pc[Ticker] # "gone" THEN 1 ELSE 0
    /\ stopped => started
    /\ ~started => pc[Ticker] = "none"

(* One call of Start launches the goroutine, after its own redraw.          *)
LaunchInv ==
    /\ then[Ticker] = "select"
    /\ \A c \in Caller :
        /\ then[c] # "select"
        /\ pc[c] = "spawn" => then[c] = "spawn"
        /\ then[c] = "spawn" =>
            /\ started
            /\ pc[Ticker] = "none"
            /\ pc[c] \in {"redraw", "write", "spawn"}
            /\ \A d \in Caller : then[d] = "spawn" => d = c

(* The line is cleared after the goroutine is gone.                         *)
StopInv ==
    /\ \A c \in Caller :
        /\ pc[c] \in Stopping => stopped
        /\ pc[c] \in {"clear", "wipe"} => pc[Ticker] = "gone"
    /\ Over => /\ pc[Ticker] = "gone"
               /\ shown = 0
               /\ columns \cap 1..lastWidth = {}

SInv == TypeOK /\ LockInv /\ CountInv /\ LaunchInv /\ StopInv /\ LastTextIsShown

LEMMA InitSInv == Init => SInv
<1> SUFFICES ASSUME Init PROVE SInv
    OBVIOUS
<1> USE SpinnerAssumption DEF Init, Actor, Idle, Stopping
<1>1. TypeOK
    <2>1. pc \in [Actor -> Idle \cup Stopping \cup {"redraw", "write", "spawn", "select"}]
        OBVIOUS
    <2>2. then \in [Actor -> {"idle", "spawn", "select"}]
        OBVIOUS
    <2>3. line \in [Actor -> Text \cup {0}]
        OBVIOUS
    <2>4. calls \in 0..MaxCalls /\ lastWidth \in Nat /\ wg \in Int
        OBVIOUS
    <2> QED
        BY <2>1, <2>2, <2>3, <2>4 DEF TypeOK
<1>2. LockInv /\ CountInv /\ LaunchInv
    BY DEF LockInv, CountInv, LaunchInv
<1>3. StopInv /\ LastTextIsShown
    BY DEF StopInv, LastTextIsShown, Over
<1> QED
    BY <1>1, <1>2, <1>3 DEF SInv

USE DEF SInv, Actor, Idle, Stopping, Goto, Free, data, terminal

LEMMA RedrawSInv == SInv /\ (\E a \in Actor : Redraw(a)) => SInv'
<1> SUFFICES ASSUME SInv, NEW a \in Actor, Redraw(a) PROVE SInv'
    OBVIOUS
<1> USE SpinnerAssumption DEF Redraw
<1>1. TypeOK'
    BY DEF TypeOK
<1>2. LockInv'
    BY DEF TypeOK, LockInv, LaunchInv
<1>3. CountInv'
    BY DEF TypeOK, CountInv, LaunchInv
<1>4. LaunchInv'
    BY DEF TypeOK, LaunchInv
<1>5. StopInv'
    BY DEF TypeOK, StopInv, LaunchInv, Over
<1>6. LastTextIsShown'
    BY DEF TypeOK, LastTextIsShown
<1> QED
    BY <1>1, <1>2, <1>3, <1>4, <1>5, <1>6

LEMMA WriteSInv == SInv /\ (\E a \in Actor : Write(a)) => SInv'
<1> SUFFICES ASSUME SInv, NEW a \in Actor, Write(a) PROVE SInv'
    OBVIOUS
<1> USE SpinnerAssumption DEF Write
<1>1. TypeOK'
    <2>1. pc' \in [Actor -> Idle \cup Stopping \cup {"redraw", "write", "spawn", "select"}]
        BY DEF TypeOK
    <2>2. line[a] \in Text \cup {0} /\ columns \subseteq Nat
        BY DEF TypeOK
    <2>3. columns' \subseteq Nat /\ shown' \in Text \cup {0}
        <3>1. columns' = columns \cup 1..line[a] /\ shown' = line[a]
            OBVIOUS
        <3>2. 1..line[a] \subseteq Nat
            BY <2>2
        <3> QED
            BY <2>2, <3>1, <3>2
    <2> QED
        BY <2>1, <2>3 DEF TypeOK
<1>2. LockInv'
    BY DEF TypeOK, LockInv, LaunchInv
<1>3. CountInv'
    BY DEF TypeOK, CountInv, LaunchInv
<1>4. LaunchInv'
    BY DEF TypeOK, LaunchInv
<1>5. StopInv'
    BY DEF TypeOK, StopInv, LaunchInv, LockInv, Over
<1>6. LastTextIsShown'
    BY DEF TypeOK, LastTextIsShown, LockInv
<1> QED
    BY <1>1, <1>2, <1>3, <1>4, <1>5, <1>6

LEMMA StartSInv == SInv /\ (\E c \in Caller, t \in Text : Start(c, t)) => SInv'
<1> SUFFICES ASSUME SInv, NEW c \in Caller, NEW t \in Text, Start(c, t) PROVE SInv'
    OBVIOUS
<1> USE SpinnerAssumption DEF Start, Call, Ignored
<1>1. TypeOK'
    <2>1. pc' \in [Actor -> Idle \cup Stopping \cup {"redraw", "write", "spawn", "select"}]
        BY DEF TypeOK
    <2>2. then' \in [Actor -> {"idle", "spawn", "select"}]
        BY DEF TypeOK
    <2>3. wg' \in Int /\ calls' \in 0..MaxCalls
        BY DEF TypeOK
    <2> QED
        BY <2>1, <2>2, <2>3 DEF TypeOK
<1>2. LockInv'
    BY DEF TypeOK, LockInv
<1>3. CountInv'
    BY DEF TypeOK, CountInv
<1>4. LaunchInv'
    BY DEF TypeOK, LaunchInv, CountInv
<1>5. StopInv'
    BY DEF TypeOK, StopInv, Over
<1>6. LastTextIsShown'
    BY DEF TypeOK, LastTextIsShown
<1> QED
    BY <1>1, <1>2, <1>3, <1>4, <1>5, <1>6

LEMMA UpdateSInv == SInv /\ (\E c \in Caller, t \in Text : Update(c, t)) => SInv'
<1> SUFFICES ASSUME SInv, NEW c \in Caller, NEW t \in Text, Update(c, t) PROVE SInv'
    OBVIOUS
<1> USE SpinnerAssumption DEF Update, Call, Ignored
<1>1. TypeOK'
    <2>1. pc' \in [Actor -> Idle \cup Stopping \cup {"redraw", "write", "spawn", "select"}]
        BY DEF TypeOK
    <2>2. then' \in [Actor -> {"idle", "spawn", "select"}]
        BY DEF TypeOK
    <2>3. wg' \in Int /\ calls' \in 0..MaxCalls
        BY DEF TypeOK
    <2> QED
        BY <2>1, <2>2, <2>3 DEF TypeOK
<1>2. LockInv'
    BY DEF TypeOK, LockInv
<1>3. CountInv'
    BY DEF TypeOK, CountInv
<1>4. LaunchInv'
    BY DEF TypeOK, LaunchInv
<1>5. StopInv'
    BY DEF TypeOK, StopInv, Over
<1>6. LastTextIsShown'
    BY DEF TypeOK, LastTextIsShown
<1> QED
    BY <1>1, <1>2, <1>3, <1>4, <1>5, <1>6

LEMMA StopSInv == SInv /\ (\E c \in Caller : Stop(c)) => SInv'
<1> SUFFICES ASSUME SInv, NEW c \in Caller, Stop(c) PROVE SInv'
    OBVIOUS
<1> USE SpinnerAssumption DEF Stop, Call, Ignored
<1>1. TypeOK'
    <2>1. pc' \in [Actor -> Idle \cup Stopping \cup {"redraw", "write", "spawn", "select"}]
        BY DEF TypeOK
    <2>2. then' \in [Actor -> {"idle", "spawn", "select"}]
        BY DEF TypeOK
    <2>3. wg' \in Int /\ calls' \in 0..MaxCalls
        BY DEF TypeOK
    <2> QED
        BY <2>1, <2>2, <2>3 DEF TypeOK
<1>2. LockInv'
    BY DEF TypeOK, LockInv
<1>3. CountInv'
    BY DEF TypeOK, CountInv
<1>4. LaunchInv'
    BY DEF TypeOK, LaunchInv
<1>5. StopInv'
    BY DEF TypeOK, StopInv, Over
<1>6. LastTextIsShown'
    BY DEF TypeOK, LastTextIsShown
<1> QED
    BY <1>1, <1>2, <1>3, <1>4, <1>5, <1>6

(* The rest of Start and of Stop, and the goroutine.                        *)
LEMMA SpawnSInv == SInv /\ (\E c \in Caller : Spawn(c)) => SInv'
<1> SUFFICES ASSUME SInv, NEW c \in Caller, Spawn(c) PROVE SInv'
    OBVIOUS
<1> USE SpinnerAssumption DEF Spawn
<1>1. TypeOK'
    BY DEF TypeOK
<1>2. LockInv'
    BY DEF TypeOK, LockInv, LaunchInv
<1>3. CountInv'
    BY DEF TypeOK, CountInv, LaunchInv
<1>4. LaunchInv'
    BY DEF TypeOK, LaunchInv
<1>5. StopInv'
    BY DEF TypeOK, StopInv, LaunchInv, Over
<1>6. LastTextIsShown'
    BY DEF TypeOK, LastTextIsShown
<1> QED
    BY <1>1, <1>2, <1>3, <1>4, <1>5, <1>6

LEMMA StoppingSInv ==
    SInv /\ (\E c \in Caller : Close(c) \/ Wait(c) \/ Clear(c) \/ Wipe(c)) => SInv'
<1> SUFFICES ASSUME SInv, NEW c \in Caller, Close(c) \/ Wait(c) \/ Clear(c) \/ Wipe(c)
             PROVE SInv'
    OBVIOUS
<1> USE SpinnerAssumption DEF Close, Wait, Clear, Wipe
<1>1. TypeOK'
    BY DEF TypeOK
<1>2. LockInv'
    BY DEF TypeOK, LockInv, StopInv
<1>3. CountInv'
    BY DEF TypeOK, CountInv
<1>4. LaunchInv'
    BY DEF TypeOK, LaunchInv
<1>5. StopInv'
    <2>1. CASE Close(c) \/ Wait(c) \/ Clear(c)
        BY <2>1 DEF TypeOK, StopInv, CountInv, Over
    <2>2. CASE Wipe(c)
        BY <2>2 DEF TypeOK, StopInv, Over
    <2> QED
        BY <2>1, <2>2
<1>6. LastTextIsShown'
    BY DEF TypeOK, LastTextIsShown, StopInv
<1> QED
    BY <1>1, <1>2, <1>3, <1>4, <1>5, <1>6

LEMMA TickerSInv == SInv /\ (Tick \/ Exit) => SInv'
<1> SUFFICES ASSUME SInv, Tick \/ Exit PROVE SInv'
    OBVIOUS
<1> USE SpinnerAssumption DEF Tick, Exit
<1>1. TypeOK'
    <2>1. pc' \in [Actor -> Idle \cup Stopping \cup {"redraw", "write", "spawn", "select"}]
        BY DEF TypeOK
    <2>2. wg' \in Int
        BY DEF TypeOK
    <2> QED
        BY <2>1, <2>2 DEF TypeOK
<1>2. LockInv'
    BY DEF TypeOK, LockInv
<1>3. CountInv'
    BY DEF TypeOK, CountInv
<1>4. LaunchInv'
    BY DEF TypeOK, LaunchInv
<1>5. StopInv'
    BY DEF TypeOK, StopInv, Over
<1>6. LastTextIsShown'
    BY DEF TypeOK, LastTextIsShown
<1> QED
    BY <1>1, <1>2, <1>3, <1>4, <1>5, <1>6

(* The spinner is always in one of the states that the parts of SInv        *)
(* describe (Spinner).                                                      *)
THEOREM SInvCorrect == Spec => []SInv
<1>1. Init => SInv
    BY InitSInv
<1>2. SInv /\ [Next]_vars => SInv'
    <2>1. SInv /\ UNCHANGED vars => SInv'
        BY DEF vars, TypeOK, LockInv, CountInv, LaunchInv, StopInv, LastTextIsShown, Over
    <2> QED
        BY <2>1, RedrawSInv, WriteSInv, StartSInv, UpdateSInv, StopSInv, SpawnSInv, StoppingSInv,
           TickerSInv
           DEF Next, Finished
<1> QED
    BY <1>1, <1>2, PTL DEF Spec

(* Once Stop has returned no frame is drawn again, however many callers     *)
(* start, update and stop the spinner (Stop, redraw).                       *)
THEOREM StoppedSpinnersAreQuiet == Spec => []StoppedIsQuiet
<1>1. SInv => StoppedIsQuiet
    BY DEF CountInv, StopInv, StoppedIsQuiet, Over
<1> QED
    BY <1>1, SInvCorrect, PTL

(* No older text stays on the line (Update, redraw).                        *)
THEOREM TheLastTextShows == Spec => []LastTextIsShown
BY SInvCorrect, PTL
-----------------------------------------------------------------------------
(* LIVE ACCESS.                                                            *)

(* Services.                                                               *)

(* A read or an opening that has not acquired its service holds none, and  *)
(* one that failed to open a session has none either.                      *)
ServiceInv ==
    /\ ServicesReleased
    /\ phase \in {"acquire", "signin"} /\ ~Shared => held = 0
    /\ phase = "signin" => ~Shared
    /\ read.op = "session" /\ phase # "idle" =>
          /\ phase \in {"acquire", "signin", "return"}
          /\ phase # "return" => ~Shared
          /\ phase = "return" /\ ~Shared => held = 0

-----------------------------------------------------------------------------
(* Verdicts.                                                               *)

(* What a verdict of a failure says, and of which answer.                  *)
Explained(v, x) ==
    \/ v.reason \in Documented(x) /\ v.retryable = Transient(x)
    \/ v.reason = "unknown" /\ ~v.retryable /\ Unnamed(x)

(* An error and an answer its verdict may rest on.                         *)
Rests(where, e, x) ==
    /\ e.is = "error" /\ x # NoAnswer
    /\ e.note = "timeout" => x.note = "timeout"
    /\ e.note # "timeout" => classifyFailure(e).kind = "failed" /\ Explained(classifyFailure(e), x)
    /\ ~e.signIn /\ e.status = 404 =>
          /\ x.status = 404
          /\ x.to \in {"record", "collection", "parents", "parent"}
          /\ x.to = "record" => where = 0

Sought == phase \in {"ask", "refresh"}

(* What a request is repeated or signed in for.                            *)
Repeats ==
    {<<401, "bare">>, <<401, "session">>, <<403, "session">>, <<429, "short">>,
     <<500, "bare">>, <<503, "bare">>}

(* A request is of the kind its read makes, and what was tried and will be *)
(* tried again is a failure of it.                                         *)
RequestInv ==
    /\ phase \in {"idle", "acquire", "signin"} => attempt = 1
    /\ phase \in {"acquire", "signin"} /\ read.op # "session" => asking # "parent"
    /\ phase \in {"acquire", "signin", "ask", "refresh"} /\ read.op # "session" =>
          /\ asking = "record" => read.op \in {"get", "show"}
          /\ asking = "collection" => read.op \in {"list", "scan"}
          /\ asking \in {"parents", "parent"} => read.op = "search"
    /\ Sought => read.op # "session"
    /\ Sought /\ asking = "parent" => parent <= Parents
    /\ (phase = "ask" /\ attempt > 1) \/ phase = "refresh" =>
          /\ last.to = asking
          /\ <<last.status, last.note>> \in Repeats

(* Without an error kept, the record is not in a location already searched,*)
(* and an error that was kept is explained by an answer that was.          *)
SearchInv ==
    /\ NoAnswer \notin heard
    /\ phase \in {"idle", "acquire", "signin"} => parent = 1 /\ skipped = NoError
    /\ phase # "idle" /\ skipped = NoError => home = 0 \/ home >= parent
    /\ phase # "idle" /\ skipped # NoError => \E x \in heard : Rests(home, skipped, x)

ReturnInv ==
    /\ phase # "idle" => outcome = Verdict("none")
    /\ phase \in {"acquire", "signin"} => result.is = "none"
    /\ phase = "return" =>
          /\ result.is \in Result \cup {"error"}
          /\ result.is = "record" /\ read.op \in Gets => home # 0
          /\ result.is = "absent" => read.op \in Gets /\ home = 0
          /\ result.is = "error" => ctx # "live" \/ \E x \in Grounds : Rests(home, result, x)
    /\ VerdictIsTrue

VerdictInv == RequestInv /\ SearchInv /\ ReturnInv

-----------------------------------------------------------------------------
(* What errors are made of.                                                *)

Asked == {"record", "collection", "parents", "parent"}

(* The failures that are reported with the status they came with.          *)
Statuses ==
    {<<401, "bare">>, <<401, "session">>, <<403, "bare">>, <<403, "session">>, <<403, "licence">>,
     <<404, "bare">>, <<408, "bare">>, <<422, "bare">>, <<429, "bare">>, <<429, "short">>,
     <<429, "long">>, <<500, "bare">>, <<500, "verdict">>, <<503, "bare">>, <<503, "long">>}
Silences == {<<0, "permanent">>, <<0, "transport">>, <<0, "stalled">>, <<0, "timeout">>}

LEMMA AskedIsAnAnswer == ASSUME NEW x, x.to \in Asked \cup {"renewal"} PROVE x # NoAnswer
<1>1. NoAnswer.to = "signin"
  BY DEF NoAnswer
<1> QED
  BY <1>1 DEF Asked

(* A request that was answered with a status, or with none.                *)
LEMMA FailureRests ==
    ASSUME NEW x, x.to \in Asked, <<x.status, x.note>> \in Statuses \cup Silences,
           x.status = 404 /\ x.to = "record" => home = 0
    PROVE  Rests(home, Failure(x), x)
<1> DEFINE e == Failure(x)
<1>1. e.is = "error" /\ ~e.signIn /\ e.status = x.status /\ e.note = x.note
  BY DEF Failure, Plain
<1>2. x # NoAnswer
  BY AskedIsAnAnswer
<1> SUFFICES Rests(home, e, x)
  OBVIOUS
<1> HIDE DEF e
<1>3. CASE x.status = 401 /\ x.note = "bare"
  <2>1. classifyFailure(e) = StatusReason(401)
    BY <1>1, <1>3 DEF classifyFailure, NotSubscribed
  <2>2. StatusReason(401) = Reason("unauthorized", FALSE)
    BY DEF StatusReason
  <2>3. /\ classifyFailure(e).kind = "failed" /\ classifyFailure(e).reason = "unauthorized"
        /\ classifyFailure(e).retryable = FALSE
    BY <2>1, <2>2 DEF Reason
  <2>4. "unauthorized" \in Documented(x)
    BY <1>3 DEF Documented, Asked
  <2>5. Transient(x) = FALSE
    BY <1>3 DEF Transient
  <2>6. Explained(classifyFailure(e), x)
    BY <2>3, <2>4, <2>5 DEF Explained
  <2> QED
    BY <1>1, <1>2, <1>3, <2>3, <2>6 DEF Rests, Asked
<1>4. CASE x.status = 401 /\ x.note = "session"
  <2>1. classifyFailure(e) = StatusReason(401)
    BY <1>1, <1>4 DEF classifyFailure, NotSubscribed
  <2>2. StatusReason(401) = Reason("unauthorized", FALSE)
    BY DEF StatusReason
  <2>3. /\ classifyFailure(e).kind = "failed" /\ classifyFailure(e).reason = "unauthorized"
        /\ classifyFailure(e).retryable = FALSE
    BY <2>1, <2>2 DEF Reason
  <2>4. "unauthorized" \in Documented(x)
    BY <1>4 DEF Documented, Asked
  <2>5. Transient(x) = FALSE
    BY <1>4 DEF Transient
  <2>6. Explained(classifyFailure(e), x)
    BY <2>3, <2>4, <2>5 DEF Explained
  <2> QED
    BY <1>1, <1>2, <1>4, <2>3, <2>6 DEF Rests, Asked
<1>5. CASE x.status = 403 /\ x.note = "licence"
  <2>1. classifyFailure(e) = Reason("not_subscribed", FALSE)
    BY <1>1, <1>5 DEF classifyFailure, NotSubscribed
  <2>2. /\ classifyFailure(e).kind = "failed" /\ classifyFailure(e).reason = "not_subscribed"
        /\ classifyFailure(e).retryable = FALSE
    BY <2>1 DEF Reason
  <2>3. "not_subscribed" \in Documented(x)
    BY <1>5 DEF Documented, Asked
  <2>4. Transient(x) = FALSE
    BY <1>5 DEF Transient
  <2>5. Explained(classifyFailure(e), x)
    BY <2>2, <2>3, <2>4 DEF Explained
  <2> QED
    BY <1>1, <1>2, <1>5, <2>2, <2>5 DEF Rests, Asked
<1>6. CASE x.status = 403 /\ x.note = "bare"
  <2>1. classifyFailure(e) = StatusReason(403)
    BY <1>1, <1>6 DEF classifyFailure, NotSubscribed
  <2>2. StatusReason(403) = Reason("forbidden", FALSE)
    BY DEF StatusReason
  <2>3. /\ classifyFailure(e).kind = "failed" /\ classifyFailure(e).reason = "forbidden"
        /\ classifyFailure(e).retryable = FALSE
    BY <2>1, <2>2 DEF Reason
  <2>4. "forbidden" \in Documented(x)
    BY <1>6 DEF Documented, Asked
  <2>5. Transient(x) = FALSE
    BY <1>6 DEF Transient
  <2>6. Explained(classifyFailure(e), x)
    BY <2>3, <2>4, <2>5 DEF Explained
  <2> QED
    BY <1>1, <1>2, <1>6, <2>3, <2>6 DEF Rests, Asked
<1>7. CASE x.status = 403 /\ x.note = "session"
  <2>1. classifyFailure(e) = StatusReason(403)
    BY <1>1, <1>7 DEF classifyFailure, NotSubscribed
  <2>2. StatusReason(403) = Reason("forbidden", FALSE)
    BY DEF StatusReason
  <2>3. /\ classifyFailure(e).kind = "failed" /\ classifyFailure(e).reason = "forbidden"
        /\ classifyFailure(e).retryable = FALSE
    BY <2>1, <2>2 DEF Reason
  <2>4. "forbidden" \in Documented(x)
    BY <1>7 DEF Documented, Asked
  <2>5. Transient(x) = FALSE
    BY <1>7 DEF Transient
  <2>6. Explained(classifyFailure(e), x)
    BY <2>3, <2>4, <2>5 DEF Explained
  <2> QED
    BY <1>1, <1>2, <1>7, <2>3, <2>6 DEF Rests, Asked
<1>8. CASE x.status = 404 /\ x.note = "bare"
  <2>1. classifyFailure(e) = StatusReason(404)
    BY <1>1, <1>8 DEF classifyFailure, NotSubscribed
  <2>2. StatusReason(404) = Reason("not_found", FALSE)
    BY DEF StatusReason
  <2>3. /\ classifyFailure(e).kind = "failed" /\ classifyFailure(e).reason = "not_found"
        /\ classifyFailure(e).retryable = FALSE
    BY <2>1, <2>2 DEF Reason
  <2>4. "not_found" \in Documented(x)
    BY <1>8 DEF Documented, Asked
  <2>5. Transient(x) = FALSE
    BY <1>8 DEF Transient
  <2>6. Explained(classifyFailure(e), x)
    BY <2>3, <2>4, <2>5 DEF Explained
  <2> QED
    BY <1>1, <1>2, <1>8, <2>3, <2>6 DEF Rests, Asked
<1>9. CASE x.status = 408 /\ x.note = "bare"
  <2>1. classifyFailure(e) = StatusReason(408)
    BY <1>1, <1>9 DEF classifyFailure, NotSubscribed
  <2>2. StatusReason(408) = Reason("timeout", TRUE)
    BY DEF StatusReason
  <2>3. /\ classifyFailure(e).kind = "failed" /\ classifyFailure(e).reason = "timeout"
        /\ classifyFailure(e).retryable = TRUE
    BY <2>1, <2>2 DEF Reason
  <2>4. "timeout" \in Documented(x)
    BY <1>9 DEF Documented, Asked
  <2>5. Transient(x) = TRUE
    BY <1>9 DEF Transient
  <2>6. Explained(classifyFailure(e), x)
    BY <2>3, <2>4, <2>5 DEF Explained
  <2> QED
    BY <1>1, <1>2, <1>9, <2>3, <2>6 DEF Rests, Asked
<1>10. CASE x.status = 422 /\ x.note = "bare"
  <2>1. classifyFailure(e) = StatusReason(422)
    BY <1>1, <1>10 DEF classifyFailure, NotSubscribed
  <2>2. StatusReason(422) = Reason("client_error", FALSE)
    BY DEF StatusReason
  <2>3. /\ classifyFailure(e).kind = "failed" /\ classifyFailure(e).reason = "client_error"
        /\ classifyFailure(e).retryable = FALSE
    BY <2>1, <2>2 DEF Reason
  <2>4. "client_error" \in Documented(x)
    BY <1>10 DEF Documented, Asked
  <2>5. Transient(x) = FALSE
    BY <1>10 DEF Transient
  <2>6. Explained(classifyFailure(e), x)
    BY <2>3, <2>4, <2>5 DEF Explained
  <2> QED
    BY <1>1, <1>2, <1>10, <2>3, <2>6 DEF Rests, Asked
<1>11. CASE x.status = 429 /\ x.note = "bare"
  <2>1. classifyFailure(e) = StatusReason(429)
    BY <1>1, <1>11 DEF classifyFailure, NotSubscribed
  <2>2. StatusReason(429) = Reason("rate_limited", TRUE)
    BY DEF StatusReason
  <2>3. /\ classifyFailure(e).kind = "failed" /\ classifyFailure(e).reason = "rate_limited"
        /\ classifyFailure(e).retryable = TRUE
    BY <2>1, <2>2 DEF Reason
  <2>4. "rate_limited" \in Documented(x)
    BY <1>11 DEF Documented, Asked
  <2>5. Transient(x) = TRUE
    BY <1>11 DEF Transient
  <2>6. Explained(classifyFailure(e), x)
    BY <2>3, <2>4, <2>5 DEF Explained
  <2> QED
    BY <1>1, <1>2, <1>11, <2>3, <2>6 DEF Rests, Asked
<1>12. CASE x.status = 429 /\ x.note = "short"
  <2>1. classifyFailure(e) = StatusReason(429)
    BY <1>1, <1>12 DEF classifyFailure, NotSubscribed
  <2>2. StatusReason(429) = Reason("rate_limited", TRUE)
    BY DEF StatusReason
  <2>3. /\ classifyFailure(e).kind = "failed" /\ classifyFailure(e).reason = "rate_limited"
        /\ classifyFailure(e).retryable = TRUE
    BY <2>1, <2>2 DEF Reason
  <2>4. "rate_limited" \in Documented(x)
    BY <1>12 DEF Documented, Asked
  <2>5. Transient(x) = TRUE
    BY <1>12 DEF Transient
  <2>6. Explained(classifyFailure(e), x)
    BY <2>3, <2>4, <2>5 DEF Explained
  <2> QED
    BY <1>1, <1>2, <1>12, <2>3, <2>6 DEF Rests, Asked
<1>13. CASE x.status = 429 /\ x.note = "long"
  <2>1. classifyFailure(e) = StatusReason(429)
    BY <1>1, <1>13 DEF classifyFailure, NotSubscribed
  <2>2. StatusReason(429) = Reason("rate_limited", TRUE)
    BY DEF StatusReason
  <2>3. /\ classifyFailure(e).kind = "failed" /\ classifyFailure(e).reason = "rate_limited"
        /\ classifyFailure(e).retryable = TRUE
    BY <2>1, <2>2 DEF Reason
  <2>4. "rate_limited" \in Documented(x)
    BY <1>13 DEF Documented, Asked
  <2>5. Transient(x) = TRUE
    BY <1>13 DEF Transient
  <2>6. Explained(classifyFailure(e), x)
    BY <2>3, <2>4, <2>5 DEF Explained
  <2> QED
    BY <1>1, <1>2, <1>13, <2>3, <2>6 DEF Rests, Asked
<1>14. CASE x.status = 500 /\ x.note = "bare"
  <2>1. classifyFailure(e) = StatusReason(500)
    BY <1>1, <1>14 DEF classifyFailure, NotSubscribed
  <2>2. StatusReason(500) = Reason("server_error", TRUE)
    BY DEF StatusReason
  <2>3. /\ classifyFailure(e).kind = "failed" /\ classifyFailure(e).reason = "server_error"
        /\ classifyFailure(e).retryable = TRUE
    BY <2>1, <2>2 DEF Reason
  <2>4. "server_error" \in Documented(x)
    BY <1>14 DEF Documented, Asked
  <2>5. Transient(x) = TRUE
    BY <1>14 DEF Transient
  <2>6. Explained(classifyFailure(e), x)
    BY <2>3, <2>4, <2>5 DEF Explained
  <2> QED
    BY <1>1, <1>2, <1>14, <2>3, <2>6 DEF Rests, Asked
<1>15. CASE x.status = 500 /\ x.note = "verdict"
  <2>1. classifyFailure(e) = StatusReason(500)
    BY <1>1, <1>15 DEF classifyFailure, NotSubscribed
  <2>2. StatusReason(500) = Reason("server_error", TRUE)
    BY DEF StatusReason
  <2>3. /\ classifyFailure(e).kind = "failed" /\ classifyFailure(e).reason = "server_error"
        /\ classifyFailure(e).retryable = TRUE
    BY <2>1, <2>2 DEF Reason
  <2>4. "server_error" \in Documented(x)
    BY <1>15 DEF Documented, Asked
  <2>5. Transient(x) = TRUE
    BY <1>15 DEF Transient
  <2>6. Explained(classifyFailure(e), x)
    BY <2>3, <2>4, <2>5 DEF Explained
  <2> QED
    BY <1>1, <1>2, <1>15, <2>3, <2>6 DEF Rests, Asked
<1>16. CASE x.status = 503 /\ x.note = "bare"
  <2>1. classifyFailure(e) = StatusReason(503)
    BY <1>1, <1>16 DEF classifyFailure, NotSubscribed
  <2>2. StatusReason(503) = Reason("server_error", TRUE)
    BY DEF StatusReason
  <2>3. /\ classifyFailure(e).kind = "failed" /\ classifyFailure(e).reason = "server_error"
        /\ classifyFailure(e).retryable = TRUE
    BY <2>1, <2>2 DEF Reason
  <2>4. "server_error" \in Documented(x)
    BY <1>16 DEF Documented, Asked
  <2>5. Transient(x) = TRUE
    BY <1>16 DEF Transient
  <2>6. Explained(classifyFailure(e), x)
    BY <2>3, <2>4, <2>5 DEF Explained
  <2> QED
    BY <1>1, <1>2, <1>16, <2>3, <2>6 DEF Rests, Asked
<1>17. CASE x.status = 503 /\ x.note = "long"
  <2>1. classifyFailure(e) = StatusReason(503)
    BY <1>1, <1>17 DEF classifyFailure, NotSubscribed
  <2>2. StatusReason(503) = Reason("server_error", TRUE)
    BY DEF StatusReason
  <2>3. /\ classifyFailure(e).kind = "failed" /\ classifyFailure(e).reason = "server_error"
        /\ classifyFailure(e).retryable = TRUE
    BY <2>1, <2>2 DEF Reason
  <2>4. "server_error" \in Documented(x)
    BY <1>17 DEF Documented, Asked
  <2>5. Transient(x) = TRUE
    BY <1>17 DEF Transient
  <2>6. Explained(classifyFailure(e), x)
    BY <2>3, <2>4, <2>5 DEF Explained
  <2> QED
    BY <1>1, <1>2, <1>17, <2>3, <2>6 DEF Rests, Asked
<1>18. CASE x.status = 0 /\ x.note = "permanent"
  <2>1. classifyFailure(e) = Reason("transport", FALSE)
    BY <1>1, <1>18 DEF classifyFailure, NotSubscribed
  <2>2. /\ classifyFailure(e).kind = "failed" /\ classifyFailure(e).reason = "transport"
        /\ classifyFailure(e).retryable = FALSE
    BY <2>1 DEF Reason
  <2>3. "transport" \in Documented(x)
    BY <1>18 DEF Documented, Asked
  <2>4. Transient(x) = FALSE
    BY <1>18 DEF Transient
  <2>5. Explained(classifyFailure(e), x)
    BY <2>2, <2>3, <2>4 DEF Explained
  <2> QED
    BY <1>1, <1>2, <1>18, <2>2, <2>5 DEF Rests, Asked
<1>19. CASE x.status = 0 /\ x.note = "transport"
  <2>1. classifyFailure(e) = Reason("transport", TRUE)
    BY <1>1, <1>19 DEF classifyFailure, NotSubscribed
  <2>2. /\ classifyFailure(e).kind = "failed" /\ classifyFailure(e).reason = "transport"
        /\ classifyFailure(e).retryable = TRUE
    BY <2>1 DEF Reason
  <2>3. "transport" \in Documented(x)
    BY <1>19 DEF Documented, Asked
  <2>4. Transient(x) = TRUE
    BY <1>19 DEF Transient
  <2>5. Explained(classifyFailure(e), x)
    BY <2>2, <2>3, <2>4 DEF Explained
  <2> QED
    BY <1>1, <1>2, <1>19, <2>2, <2>5 DEF Rests, Asked
<1>20. CASE x.status = 0 /\ x.note = "stalled"
  <2>1. classifyFailure(e) = Reason("timeout", TRUE)
    BY <1>1, <1>20 DEF classifyFailure, NotSubscribed
  <2>2. /\ classifyFailure(e).kind = "failed" /\ classifyFailure(e).reason = "timeout"
        /\ classifyFailure(e).retryable = TRUE
    BY <2>1 DEF Reason
  <2>3. "timeout" \in Documented(x)
    BY <1>20 DEF Documented, Asked
  <2>4. Transient(x) = TRUE
    BY <1>20 DEF Transient
  <2>5. Explained(classifyFailure(e), x)
    BY <2>2, <2>3, <2>4 DEF Explained
  <2> QED
    BY <1>1, <1>2, <1>20, <2>2, <2>5 DEF Rests, Asked
<1>21. CASE x.status = 0 /\ x.note = "timeout"
  BY <1>1, <1>2, <1>21 DEF Rests
<1> QED
  BY <1>3, <1>4, <1>5, <1>6, <1>7, <1>8, <1>9, <1>10, <1>11, <1>12, <1>13, <1>14, <1>15, <1>16, <1>17, <1>18, <1>19, <1>20, <1>21
  DEF Statuses, Silences

(* What is reported as text.                                               *)
LEMMA PlainRests == ASSUME NEW x, Unnamed(x), x # NoAnswer PROVE Rests(home, Plain, x)
BY DEF Rests, Plain, Explained, classifyFailure, NotSubscribed, Reason

(* A sign-in that failed.                                                  *)
LEMMA SignInRests ==
    ASSUME NEW x, x.to \in {"signin", "renewal"}, x # NoAnswer,
           NEW y \in SignInAnswers, y.status = x.status, y.note = x.note
    PROVE  Rests(home, SignInError(x), x)
<1>3. CASE x.status = 200
  BY <1>3, PlainRests DEF SignInError, Unnamed
<1> SUFFICES ASSUME x.status # 200 PROVE Rests(home, SignInError(x), x)
  BY <1>3
<1> DEFINE e == SignInError(x)
<1>1. e.is = "error" /\ e.signIn /\ e.status = x.status /\ e.note = x.note
  BY DEF SignInError, SignInFailure, Failure, Plain
<1>2. x # NoAnswer
  OBVIOUS
<1> SUFFICES Rests(home, e, x)
  OBVIOUS
<1> HIDE DEF e
<1>4. CASE x.status = 302 /\ x.note = "bare"
  <2>1. classifyFailure(e) = Reason("unknown", FALSE)
    BY <1>1, <1>4 DEF classifyFailure, NotSubscribed
  <2>2. /\ classifyFailure(e).kind = "failed" /\ classifyFailure(e).reason = "unknown"
        /\ classifyFailure(e).retryable = FALSE
    BY <2>1 DEF Reason
  <2>3. "unknown" \in Documented(x)
    BY <1>4 DEF Documented
  <2>4. Transient(x) = FALSE
    BY <1>4 DEF Transient
  <2>5. Explained(classifyFailure(e), x)
    BY <2>2, <2>3, <2>4 DEF Explained
  <2> QED
    BY <1>1, <1>2, <1>4, <2>2, <2>5 DEF Rests, Asked
<1>5. CASE x.status = 401 /\ x.note = "bare"
  <2>1. classifyFailure(e) = Reason("credentials_rejected", FALSE)
    BY <1>1, <1>5 DEF classifyFailure, NotSubscribed
  <2>2. /\ classifyFailure(e).kind = "failed" /\ classifyFailure(e).reason = "credentials_rejected"
        /\ classifyFailure(e).retryable = FALSE
    BY <2>1 DEF Reason
  <2>3. "credentials_rejected" \in Documented(x)
    BY <1>5 DEF Documented
  <2>4. Transient(x) = FALSE
    BY <1>5 DEF Transient
  <2>5. Explained(classifyFailure(e), x)
    BY <2>2, <2>3, <2>4 DEF Explained
  <2> QED
    BY <1>1, <1>2, <1>5, <2>2, <2>5 DEF Rests, Asked
<1>6. CASE x.status = 404 /\ x.note = "bare"
  <2>1. classifyFailure(e) = StatusReason(404)
    BY <1>1, <1>6 DEF classifyFailure, NotSubscribed
  <2>2. StatusReason(404) = Reason("not_found", FALSE)
    BY DEF StatusReason
  <2>3. /\ classifyFailure(e).kind = "failed" /\ classifyFailure(e).reason = "not_found"
        /\ classifyFailure(e).retryable = FALSE
    BY <2>1, <2>2 DEF Reason
  <2>4. "not_found" \in Documented(x)
    BY <1>6 DEF Documented
  <2>5. Transient(x) = FALSE
    BY <1>6 DEF Transient
  <2>6. Explained(classifyFailure(e), x)
    BY <2>3, <2>4, <2>5 DEF Explained
  <2> QED
    BY <1>1, <1>2, <1>6, <2>3, <2>6 DEF Rests, Asked
<1>7. CASE x.status = 500 /\ x.note = "bare"
  <2>1. classifyFailure(e) = StatusReason(500)
    BY <1>1, <1>7 DEF classifyFailure, NotSubscribed
  <2>2. StatusReason(500) = Reason("server_error", TRUE)
    BY DEF StatusReason
  <2>3. /\ classifyFailure(e).kind = "failed" /\ classifyFailure(e).reason = "server_error"
        /\ classifyFailure(e).retryable = TRUE
    BY <2>1, <2>2 DEF Reason
  <2>4. "server_error" \in Documented(x)
    BY <1>7 DEF Documented
  <2>5. Transient(x) = TRUE
    BY <1>7 DEF Transient
  <2>6. Explained(classifyFailure(e), x)
    BY <2>3, <2>4, <2>5 DEF Explained
  <2> QED
    BY <1>1, <1>2, <1>7, <2>3, <2>6 DEF Rests, Asked
<1>8. CASE x.status = 0 /\ x.note = "permanent"
  <2>1. classifyFailure(e) = Reason("transport", FALSE)
    BY <1>1, <1>8 DEF classifyFailure, NotSubscribed
  <2>2. /\ classifyFailure(e).kind = "failed" /\ classifyFailure(e).reason = "transport"
        /\ classifyFailure(e).retryable = FALSE
    BY <2>1 DEF Reason
  <2>3. "transport" \in Documented(x)
    BY <1>8 DEF Documented
  <2>4. Transient(x) = FALSE
    BY <1>8 DEF Transient
  <2>5. Explained(classifyFailure(e), x)
    BY <2>2, <2>3, <2>4 DEF Explained
  <2> QED
    BY <1>1, <1>2, <1>8, <2>2, <2>5 DEF Rests, Asked
<1>9. CASE x.status = 0 /\ x.note = "transport"
  <2>1. classifyFailure(e) = Reason("transport", TRUE)
    BY <1>1, <1>9 DEF classifyFailure, NotSubscribed
  <2>2. /\ classifyFailure(e).kind = "failed" /\ classifyFailure(e).reason = "transport"
        /\ classifyFailure(e).retryable = TRUE
    BY <2>1 DEF Reason
  <2>3. "transport" \in Documented(x)
    BY <1>9 DEF Documented
  <2>4. Transient(x) = TRUE
    BY <1>9 DEF Transient
  <2>5. Explained(classifyFailure(e), x)
    BY <2>2, <2>3, <2>4 DEF Explained
  <2> QED
    BY <1>1, <1>2, <1>9, <2>2, <2>5 DEF Rests, Asked
<1>10. CASE x.status = 0 /\ x.note = "timeout"
  BY <1>1, <1>2, <1>10 DEF Rests
<1> QED
  BY <1>4, <1>5, <1>6, <1>7, <1>8, <1>9, <1>10 DEF SignInAnswers

(* An answer that could not be decoded, or was not accepted.               *)
LEMMA DecodeRests ==
    ASSUME NEW x, x.to \in Asked, x.status = 200, NEW note,
           \/ x.note = "unproven" /\ note = "unproven"
           \/ x.note = "garbled" /\ note = "garbled"
           \/ x.note = "strange" /\ note = "unexpected"
    PROVE  Rests(home, [Plain EXCEPT !.note = note], x)
<1> DEFINE e == [Plain EXCEPT !.note = note]
<1>1. e.is = "error" /\ ~e.signIn /\ e.status = 0 /\ e.note = note
  BY DEF Plain
<1>2. x # NoAnswer
  BY AskedIsAnAnswer
<1>3. Transient(x) = FALSE
  BY DEF Transient
<1> SUFFICES Rests(home, e, x)
  OBVIOUS
<1> HIDE DEF e
<1>4. CASE x.note = "unproven" /\ note = "unproven"
  <2>1. classifyFailure(e) = Reason("pagination_incomplete", FALSE)
    BY <1>1, <1>4 DEF classifyFailure, NotSubscribed
  <2>2. /\ classifyFailure(e).kind = "failed" /\ classifyFailure(e).reason = "pagination_incomplete"
        /\ classifyFailure(e).retryable = FALSE
    BY <2>1 DEF Reason
  <2>3. "pagination_incomplete" \in Documented(x)
    BY <1>4 DEF Documented, Asked
  <2>4. Explained(classifyFailure(e), x)
    BY <1>3, <2>2, <2>3 DEF Explained
  <2> QED
    BY <1>1, <1>2, <1>4, <2>2, <2>4 DEF Rests, Asked
<1>5. CASE x.note = "garbled" /\ note = "garbled"
  <2>1. classifyFailure(e) = Reason("decode_failed", FALSE)
    BY <1>1, <1>5 DEF classifyFailure, NotSubscribed
  <2>2. /\ classifyFailure(e).kind = "failed" /\ classifyFailure(e).reason = "decode_failed"
        /\ classifyFailure(e).retryable = FALSE
    BY <2>1 DEF Reason
  <2>3. "decode_failed" \in Documented(x)
    BY <1>5 DEF Documented, Asked
  <2>4. Explained(classifyFailure(e), x)
    BY <1>3, <2>2, <2>3 DEF Explained
  <2> QED
    BY <1>1, <1>2, <1>5, <2>2, <2>4 DEF Rests, Asked
<1>6. CASE x.note = "strange" /\ note = "unexpected"
  <2>1. classifyFailure(e) = Reason("decode_failed", FALSE)
    BY <1>1, <1>6 DEF classifyFailure, NotSubscribed
  <2>2. /\ classifyFailure(e).kind = "failed" /\ classifyFailure(e).reason = "decode_failed"
        /\ classifyFailure(e).retryable = FALSE
    BY <2>1 DEF Reason
  <2>3. "decode_failed" \in Documented(x)
    BY <1>6 DEF Documented, Asked
  <2>4. Explained(classifyFailure(e), x)
    BY <1>3, <2>2, <2>3 DEF Explained
  <2> QED
    BY <1>1, <1>2, <1>6, <2>2, <2>4 DEF Rests, Asked
<1> QED
  BY <1>4, <1>5, <1>6

(* A session that ends again and again.                                    *)
LEMMA ExhaustedRests ==
    ASSUME NEW x, x.to \in Asked, EndedSession(x)
    PROVE  Rests(home, [Plain EXCEPT !.note = "exhausted"], x)
<1> DEFINE e == [Plain EXCEPT !.note = "exhausted"]
<1>1. e.is = "error" /\ ~e.signIn /\ e.status = 0 /\ e.note = "exhausted"
  BY DEF Plain
<1>2. x # NoAnswer
  BY AskedIsAnAnswer
<1> SUFFICES Rests(home, e, x)
  OBVIOUS
<1> HIDE DEF e
<1>3. classifyFailure(e) = Reason("forbidden", FALSE)
  BY <1>1 DEF classifyFailure, NotSubscribed
<1>4. /\ classifyFailure(e).kind = "failed" /\ classifyFailure(e).reason = "forbidden"
      /\ classifyFailure(e).retryable = FALSE
  BY <1>3 DEF Reason
<1>5. "forbidden" \in Documented(x)
  BY DEF Documented, Asked, EndedSession
<1>6. Transient(x) = FALSE
  BY DEF Transient, EndedSession
<1>7. Explained(classifyFailure(e), x)
  BY <1>4, <1>5, <1>6 DEF Explained
<1> QED
  BY <1>1, <1>2, <1>4, <1>7 DEF Rests, Asked

-----------------------------------------------------------------------------
(* What requests are answered with.                                        *)

TypeInv ==
    /\ ctx \in {"live", "canceled", "deadline"}
    /\ home \in 0..Parents
    /\ parent \in Nat \ {0}
    /\ asking \in Asked
    /\ attempt \in Nat
    /\ read \in Read \cup {Opening}
    /\ phase \in {"idle", "acquire", "signin", "ask", "refresh", "return"}
    /\ setup.auth \in {"oneapi", "legacy"}

(* What the tenant may say.                                                *)
LEMMA ReplyPairs ==
    ASSUME NEW r \in Replies
    PROVE  /\ r = <<r[1], r[2]>>
           /\ r \in Failures \cup {<<404, "bare">>, <<200, "good">>, <<200, "strange">>,
                                   <<200, "unproven">>, <<403, "licence">>}
           /\ asking = "record" /\ r[1] = 404 => home = 0
           /\ asking = "record" /\ r[2] = "good" => home # 0
           /\ r[2] = "strange" => asking = "record"
<1> DEFINE others == {<<404, "bare">>, <<200, "good">>, <<200, "strange">>, <<200, "unproven">>, <<403, "licence">>}
<1>1. Replies \subseteq Failures \cup others
  BY SearchAssumption DEF Replies
<1>2. \A f \in Failures : f = <<f[1], f[2]>> /\ f[1] # 404 /\ f[2] \notin {"good", "strange"}
  BY DEF Failures
<1>3. \A f \in others : f = <<f[1], f[2]>>
  OBVIOUS
<1>4. asking = "record" /\ r[1] = 404 => home = 0
  BY <1>2, SearchAssumption DEF Replies
<1>5. asking = "record" /\ r[2] = "good" => home # 0
  BY <1>2, SearchAssumption DEF Replies
<1>6. r[2] = "strange" => asking = "record"
  BY <1>2, SearchAssumption DEF Replies
<1> QED
  BY <1>1, <1>2, <1>3, <1>4, <1>5, <1>6

(* The answers to a request.                                               *)
LEMMA AnswersAre ==
    ASSUME TypeInv, NEW x \in Answers
    PROVE  /\ x.to = asking /\ x.to \in Asked /\ x # NoAnswer /\ ~SignedIn(x)
           /\ \/ ctx # "live" /\ x.status = 0 /\ x.note = "ended"
              \/ x.status = 200 /\ x.note \in {"good", "strange", "unproven", "garbled"}
              \/ x.status # 200 /\ <<x.status, x.note>> \in Statuses \cup Silences
           /\ x.to = "record" /\ x.status = 404 => home = 0
           /\ x.to = "record" /\ x.note = "good" => home # 0
           /\ x.note = "strange" => x.to = "record"
<1>1. x.to = asking /\ x.to \in Asked /\ x # NoAnswer /\ ~SignedIn(x)
  <2>1. x.to = asking
    BY DEF Answers
  <2> QED
    BY <2>1, AskedIsAnAnswer DEF TypeInv, SignedIn, Asked
<1>2. CASE ctx # "live"
  BY <1>1, <1>2 DEF Answers
<1>3. CASE ctx = "live"
  <2>1. PICK r \in Replies : x.status = r[1] /\ x.note = r[2]
    BY <1>3 DEF Answers
  <2>2. r \in Failures => r = <<200, "garbled">> \/ (r[1] # 200 /\ r \in Statuses \cup Silences)
    BY DEF Failures, Statuses, Silences
  <2> QED
    BY <1>1, <2>1, <2>2, ReplyPairs DEF Statuses
<1> QED
  BY <1>2, <1>3

-----------------------------------------------------------------------------
(* What a step does to the read.                                           *)

(* The read goes on, or returns.                                           *)
Onward == VerdictInv' /\ TypeInv' /\ phase' \in {"ask", "refresh", "return"}

(* While a read is under way nothing has been said about it.               *)
LEMMA NothingSaid == outcome' = Verdict("none") => VerdictIsTrue'
BY DEF VerdictIsTrue, Verdict

(* A request that failed: the location is skipped or the read returns.     *)
LEMMA FailedStep ==
    ASSUME TypeInv, VerdictInv, Sought, NEW e, NEW x, last' = x, x # NoAnswer, e.is = "error",
           ctx = "live" => Rests(home, e, x), Failed(e), UNCHANGED <<fixed, ctx, read, outcome>>
    PROVE  Onward
<1>1. UNCHANGED <<setup, home, ctx, read, outcome>> /\ outcome = Verdict("none") /\ VerdictIsTrue'
  BY NothingSaid DEF VerdictInv, ReturnInv, Sought, fixed
<1>2. CASE asking = "parent" /\ Skippable(e) /\ Skip(e) /\ NextRequest("parents")
  <2>1. /\ phase' = "ask" /\ asking' = "parents" /\ attempt' = 1 /\ result' = result
        /\ parent' = parent + 1 /\ heard' = heard \cup {x}
        /\ skipped' = e \/ (skipped' = skipped /\ skipped # NoError)
    BY <1>2 DEF Skip, NextRequest
  <2>2. e # NoError /\ Rests(home, e, x)
    BY <1>2 DEF NoError, Returned, Plain, Skippable
  <2>3. skipped # NoError => \E y \in heard : Rests(home, skipped, y)
    BY DEF VerdictInv, SearchInv, Sought
  <2>4. skipped' # NoError /\ \E y \in heard' : Rests(home, skipped', y)
    BY <2>1, <2>2, <2>3
  <2>5. SearchInv'
    BY <1>1, <2>1, <2>4 DEF VerdictInv, SearchInv
  <2>6. RequestInv'
    BY <1>1, <1>2, <2>1 DEF VerdictInv, RequestInv, Sought
  <2>7. ReturnInv'
    BY <1>1, <2>1 DEF ReturnInv
  <2>8. TypeInv'
    BY <1>1, <2>1 DEF TypeInv, Asked
  <2> QED
    BY <2>1, <2>5, <2>6, <2>7, <2>8 DEF VerdictInv, Onward
<1>3. CASE Return(e) /\ UNCHANGED walk
  <2>1. phase' = "return" /\ result' = e /\ UNCHANGED <<asking, attempt, parent, skipped, heard>>
    BY <1>3 DEF Return, walk
  <2>2. SearchInv'
    BY <1>1, <2>1 DEF VerdictInv, SearchInv, Sought
  <2>3. RequestInv'
    BY <2>1 DEF RequestInv, Sought
  <2>4. ctx' = "live" => x \in Grounds' /\ Rests(home', result', x)
    BY <1>1, <2>1 DEF Grounds
  <2>5. ReturnInv'
    BY <1>1, <2>1, <2>4 DEF ReturnInv
  <2>6. TypeInv'
    BY <1>1, <2>1 DEF TypeInv
  <2> QED
    BY <2>1, <2>2, <2>3, <2>5, <2>6 DEF VerdictInv, Onward
<1> QED
  BY <1>2, <1>3 DEF Failed

(* A request that was answered with what it asked for.                     *)
LEMMA GoodStep ==
    ASSUME TypeInv, VerdictInv, Sought, Good, asking = "record" => home # 0,
           UNCHANGED <<fixed, ctx, read, outcome>>
    PROVE  Onward
<1>1. UNCHANGED <<setup, home, ctx, read, outcome>> /\ outcome = Verdict("none") /\ VerdictIsTrue'
  BY NothingSaid DEF VerdictInv, ReturnInv, Sought, fixed
<1>2. ASSUME NEW r, Return(r), UNCHANGED walk, r.is \in Result,
             r.is = "record" /\ read.op \in Gets => home # 0,
             r.is = "absent" => read.op \in Gets /\ home = 0
      PROVE  Onward
  <2>1. phase' = "return" /\ result' = r /\ UNCHANGED <<asking, attempt, parent, skipped, heard>>
    BY <1>2 DEF Return, walk
  <2>2. SearchInv'
    BY <1>1, <2>1 DEF VerdictInv, SearchInv, Sought
  <2>3. RequestInv'
    BY <2>1 DEF RequestInv, Sought
  <2>4. ReturnInv'
    BY <1>1, <1>2, <2>1 DEF ReturnInv, Result
  <2>5. TypeInv'
    BY <1>1, <2>1 DEF TypeInv
  <2> QED
    BY <2>1, <2>2, <2>3, <2>4, <2>5 DEF VerdictInv, Onward
<1>3. ASSUME NEW to \in {"parents", "parent"}, NextRequest(to), UNCHANGED <<skipped, heard>>,
             read.op = "search", parent' \in Nat \ {0}, to = "parent" => parent' <= Parents,
             skipped = NoError => home = 0 \/ home >= parent'
      PROVE  Onward
  <2>1. phase' = "ask" /\ asking' = to /\ attempt' = 1 /\ result' = result
    BY <1>3 DEF NextRequest
  <2>2. SearchInv'
    BY <1>1, <1>3, <2>1 DEF VerdictInv, SearchInv, Sought
  <2>3. RequestInv'
    BY <1>1, <1>3, <2>1 DEF RequestInv, Sought
  <2>4. ReturnInv'
    BY <1>1, <2>1 DEF ReturnInv
  <2>5. TypeInv'
    BY <1>1, <1>3, <2>1 DEF TypeInv, Asked
  <2> QED
    BY <2>1, <2>2, <2>3, <2>4, <2>5 DEF VerdictInv, Onward
<1>4. ASSUME NEW what PROVE Returned(what).is = what
  BY DEF Returned, Plain
<1>5. CASE asking = "record"
  BY <1>2, <1>4, <1>5 DEF Good, Same, Result
<1>6. CASE asking = "collection"
  <2>1. read.op \in {"list", "scan"}
    BY <1>6 DEF VerdictInv, RequestInv, Sought
  <2>2. CASE read.op = "list"
    BY <1>2, <1>4, <1>6, <2>2 DEF Good, Same, Gets, Result
  <2>3. CASE read.op = "scan"
    BY <1>2, <1>4, <1>6, <2>3 DEF Good, Same, Gets, Result
  <2> QED
    BY <2>1, <2>2, <2>3
<1>7. CASE asking = "parents"
  <2>1. read.op = "search" /\ (skipped = NoError => home = 0 \/ home >= parent)
    BY <1>7 DEF VerdictInv, RequestInv, SearchInv, Sought
  <2>2. CASE parent > Parents
    <3>1. Return(Searched) /\ UNCHANGED walk
      <4>1. parent \in Nat /\ Parents \in Nat /\ ~(parent <= Parents)
        BY <2>2, LiveAssumption DEF TypeInv
      <4> QED
        BY <1>7, <2>2, <4>1 DEF Good, Same
    <3>2. CASE skipped = NoError
      <4>1. home = 0
        BY <2>1, <2>2, <3>2, LiveAssumption DEF TypeInv
      <4> QED
        BY <1>2, <1>4, <2>1, <3>1, <3>2, <4>1 DEF Searched, Gets, Result
    <3>3. CASE skipped # NoError
      <4>1. PICK y \in heard : Rests(home, skipped, y)
        BY <3>3 DEF VerdictInv, SearchInv, Sought
      <4>2. /\ phase' = "return" /\ result' = skipped
            /\ UNCHANGED <<asking, attempt, parent, skipped, heard>>
        BY <3>1, <3>3 DEF Return, Searched, walk
      <4>3. y \in Grounds' /\ result'.is = "error" /\ Rests(home', result', y)
        BY <1>1, <4>1, <4>2 DEF Grounds, Rests
      <4>4. SearchInv'
        BY <1>1, <4>2 DEF VerdictInv, SearchInv, Sought
      <4>5. RequestInv'
        BY <4>2 DEF RequestInv, Sought
      <4>6. ReturnInv'
        BY <1>1, <4>2, <4>3 DEF ReturnInv
      <4>7. TypeInv'
        BY <1>1, <4>2 DEF TypeInv
      <4> QED
        BY <4>2, <4>4, <4>5, <4>6, <4>7 DEF VerdictInv, Onward
    <3> QED
      BY <3>2, <3>3
  <2>3. CASE parent <= Parents
    BY <1>3, <1>7, <2>1, <2>3 DEF Good, TypeInv
  <2> QED
    BY <2>2, <2>3, LiveAssumption DEF TypeInv
<1>8. CASE asking = "parent"
  <2>1. read.op = "search" /\ (skipped = NoError => home = 0 \/ home >= parent)
    BY <1>8 DEF VerdictInv, RequestInv, SearchInv, Sought
  <2>2. CASE home = parent
    <3>1. home # 0
      BY <2>2 DEF TypeInv
    <3> QED
      BY <1>2, <1>4, <1>8, <2>2, <3>1 DEF Good, Same, Result
  <2>3. CASE home # parent
    BY <1>3, <1>8, <2>1, <2>3, LiveAssumption DEF Good, TypeInv
  <2> QED
    BY <2>2, <2>3
<1> QED
  BY <1>5, <1>6, <1>7, <1>8 DEF TypeInv, Asked

(* A request whose answer was decoded.                                     *)
LEMMA DecodedStep ==
    ASSUME TypeInv, VerdictInv, Sought, NEW x \in Answers, x.status = 200, Decoded(x), last' = x,
           UNCHANGED <<fixed, ctx, read, outcome>>
    PROVE  Onward
<1>1. /\ x.to = asking /\ x.to \in Asked /\ x # NoAnswer
      /\ x.note \in {"good", "strange", "unproven", "garbled"}
      /\ x.note = "strange" => asking = "record"
      /\ asking = "record" /\ x.note = "good" => home # 0
  BY AnswersAre DEF Statuses, Silences
<1>2. ASSUME NEW note, Failed([Plain EXCEPT !.note = note]),
             \/ x.note = "unproven" /\ note = "unproven"
             \/ x.note = "garbled" /\ note = "garbled"
             \/ x.note = "strange" /\ note = "unexpected"
      PROVE  Onward
  <2>1. [Plain EXCEPT !.note = note].is = "error"
    BY DEF Plain
  <2>2. Rests(home, [Plain EXCEPT !.note = note], x)
    BY <1>1, <1>2, DecodeRests
  <2> QED
    BY <1>1, <1>2, <2>1, <2>2, FailedStep
<1>3. CASE x.note = "good"
  BY <1>1, <1>3, GoodStep DEF Decoded
<1>4. CASE x.note = "strange"
  <2>1. CASE read.op = "get"
    BY <1>2, <1>4, <2>1 DEF Decoded
  <2>2. CASE read.op # "get"
    <3>1. read.op = "show"
      BY <1>1, <1>4, <2>2 DEF VerdictInv, RequestInv, Sought
    <3>2. /\ phase' = "return" /\ result' = Returned("record")
          /\ UNCHANGED <<asking, attempt, parent, skipped, heard>>
      BY <1>4, <2>2 DEF Decoded, Return, Same, walk
    <3>3. result'.is = "record"
      BY <3>2 DEF Returned, Plain
    <3>4. UNCHANGED <<setup, home, ctx, read, outcome>> /\ outcome = Verdict("none") /\ VerdictIsTrue'
      BY NothingSaid DEF VerdictInv, ReturnInv, Sought, fixed
    <3>5. SearchInv'
      BY <3>2, <3>4 DEF VerdictInv, SearchInv, Sought
    <3>6. RequestInv'
      BY <3>2 DEF RequestInv, Sought
    <3>7. ReturnInv'
      BY <3>1, <3>2, <3>3, <3>4 DEF ReturnInv, Gets, Result
    <3>8. TypeInv'
      BY <3>2, <3>4 DEF TypeInv
    <3> QED
      BY <3>2, <3>5, <3>6, <3>7, <3>8 DEF VerdictInv, Onward
  <2> QED
    BY <2>1, <2>2
<1>5. CASE x.note \in {"garbled", "unproven"}
  BY <1>2, <1>5 DEF Decoded
<1> QED
  BY <1>1, <1>3, <1>4, <1>5

(* A request that goes on, after a failure that it repeats or signs in for.*)
LEMMA AgainStep ==
    ASSUME TypeInv, VerdictInv, Sought, phase' \in {"ask", "refresh"}, attempt' \in Nat,
           UNCHANGED <<fixed, ctx, read, outcome, asking, parent, skipped, heard, result>>,
           (phase' = "ask" /\ attempt' > 1) \/ phase' = "refresh" =>
              /\ last'.to = asking
              /\ <<last'.status, last'.note>> \in Repeats
    PROVE  Onward
<1>1. UNCHANGED <<setup, home, ctx, read, outcome>> /\ outcome = Verdict("none") /\ VerdictIsTrue'
  BY NothingSaid DEF VerdictInv, ReturnInv, Sought, fixed
<1>2. SearchInv'
  BY <1>1 DEF VerdictInv, SearchInv, Sought
<1>3. RequestInv'
  BY <1>1 DEF VerdictInv, RequestInv, Sought
<1>4. ReturnInv'
  BY <1>1 DEF ReturnInv
<1>5. TypeInv'
  BY <1>1 DEF TypeInv
<1> QED
  BY <1>2, <1>3, <1>4, <1>5 DEF VerdictInv, Onward

LEMMA TryStep == ASSUME TypeInv, VerdictInv, Try PROVE Onward
<1>1. /\ phase = "ask" /\ Sought /\ UNCHANGED <<fixed, ctx, read, outcome>>
      /\ attempt \in Nat
  BY DEF Try, Asking, Sought, TypeInv
<1>2. PICK x \in Answers :
        /\ Hear(x)
        /\ \/ /\ EndedSession(x)
              /\ phase' = "refresh"
              /\ UNCHANGED <<asking, attempt, parent, skipped, heard, result>>
           \/ EndedSession(x) /\ Failed([Plain EXCEPT !.note = "exhausted"])
           \/ Repeated(x) /\ Again
           \/ Waits(x) /\ x.note = "long" /\ Failed(Plain)
           \/ x.status = 200 /\ Decoded(x)
           \/ /\ x.status # 200
              /\ Failed(Failure(x))
  BY DEF Try
<1>3. /\ x.to = asking /\ x.to \in Asked /\ x # NoAnswer /\ last' = x
      /\ x.status # 200 =>
            \/ ctx # "live" /\ x.status = 0 /\ x.note = "ended"
            \/ <<x.status, x.note>> \in Statuses \cup Silences
      /\ x.to = "record" /\ x.status = 404 => home = 0
  BY <1>2, AnswersAre DEF Hear
<1>4. CASE EndedSession(x) /\ phase' = "refresh" /\ UNCHANGED <<asking, attempt, parent, skipped, heard, result>>
  <2>1. <<x.status, x.note>> \in Repeats
    BY <1>3, <1>4 DEF EndedSession, Statuses, Silences, Repeats
  <2> QED
    BY <1>1, <1>3, <1>4, <2>1, AgainStep
<1>5. CASE EndedSession(x) /\ Failed([Plain EXCEPT !.note = "exhausted"])
  <2>1. [Plain EXCEPT !.note = "exhausted"].is = "error"
    BY DEF Plain
  <2> QED
    BY <1>1, <1>3, <1>5, <2>1, ExhaustedRests, FailedStep
<1>6. CASE Repeated(x) /\ Again
  <2>1. <<x.status, x.note>> \in Repeats
    BY <1>3, <1>6, AnswersAre DEF Repeated, Statuses, Silences, Repeats
  <2> QED
    BY <1>1, <1>3, <1>6, <2>1, AgainStep DEF Again
<1>7. CASE x.note = "long" /\ Failed(Plain)
  <2>1. Plain.is = "error" /\ Rests(home, Plain, x)
    BY <1>3, <1>7, PlainRests DEF Plain, Unnamed
  <2> QED
    BY <1>1, <1>3, <1>7, <2>1, FailedStep
<1>8. CASE x.status = 200 /\ Decoded(x)
  BY <1>1, <1>3, <1>8, DecodedStep
<1>9. CASE x.status # 200 /\ Failed(Failure(x))
  <2>1. Failure(x).is = "error" /\ (ctx = "live" => Rests(home, Failure(x), x))
    BY <1>3, <1>9, FailureRests DEF Failure, Plain
  <2> QED
    BY <1>1, <1>3, <1>9, <2>1, FailedStep
<1> QED
  BY <1>2, <1>4, <1>5, <1>6, <1>7, <1>8, <1>9

(* The tries are over: the last answer is the error.                       *)
LEMMA GiveUpStep == ASSUME TypeInv, VerdictInv, GiveUp \/ LegacyGiveUp PROVE Onward
<1>1. PICK x : x = last
  OBVIOUS
<1>2. /\ phase = "ask" /\ Sought /\ UNCHANGED <<fixed, ctx, read, outcome>>
      /\ attempt > 1 /\ last' = x /\ Failed(Failure(x))
  BY <1>1 DEF GiveUp, LegacyGiveUp, Asking, Sought, TypeInv, OutOfTries, MaxRetries, LegacyRetries
<1>3. x.to = asking /\ x.to \in Asked /\ <<x.status, x.note>> \in Repeats
  BY <1>1, <1>2 DEF VerdictInv, RequestInv, TypeInv
<1>4. <<x.status, x.note>> \in Statuses \cup Silences /\ x.status # 404
  BY <1>3 DEF Repeats, Statuses
<1>5. Failure(x).is = "error" /\ Rests(home, Failure(x), x) /\ x # NoAnswer
  BY <1>3, <1>4, FailureRests, AskedIsAnAnswer DEF Failure, Plain
<1> QED
  BY <1>2, <1>5, FailedStep

LEMMA RunOutOfTimeStep == ASSUME TypeInv, VerdictInv, RunOutOfTime PROVE Onward
<1>1. PICK x : x = [to |-> asking, status |-> 0, note |-> "slow"]
  OBVIOUS
<1>2. x.to \in Asked /\ Unnamed(x) /\ x # NoAnswer /\ ~SignedIn(x)
  BY <1>1, AskedIsAnAnswer DEF TypeInv, Unnamed, SignedIn
<1>3. last' = x /\ Sought /\ Failed(Plain) /\ UNCHANGED <<fixed, ctx, read, outcome>>
  BY <1>1, <1>2 DEF RunOutOfTime, Hear, Asking, Sought
<1>4. Plain.is = "error" /\ Rests(home, Plain, x)
  BY <1>2, PlainRests DEF Plain
<1> QED
  BY <1>2, <1>3, <1>4, FailedStep

LEMMA LegacySignInStep == ASSUME TypeInv, VerdictInv, LegacySignIn PROVE Onward
<1>1. /\ phase = "ask" /\ Sought /\ UNCHANGED <<fixed, ctx, read, outcome>>
      /\ attempt \in Nat
  BY DEF LegacySignIn, Asking, Sought, TypeInv
<1>2. PICK x \in SignInAnswers :
         /\ Hear(x)
         /\ IF SignedIn(x) THEN UNCHANGED <<phase, result, walk>> ELSE Failed(SignInError(x))
  BY DEF LegacySignIn
<1>3. CASE SignedIn(x)
  <2>1. UNCHANGED <<phase, asking, attempt, parent, skipped, heard, result, last>>
    BY <1>2, <1>3 DEF Hear, walk
  <2>2. attempt > 1 => last.to = asking /\ <<last.status, last.note>> \in Repeats
    BY <1>1 DEF VerdictInv, RequestInv
  <2> QED
    BY <1>1, <2>1, <2>2, AgainStep
<1>4. CASE ~SignedIn(x)
  <2>1. x.to = "signin" /\ x # NoAnswer /\ last' = x /\ Failed(SignInError(x))
    BY <1>2, <1>4 DEF SignInAnswers, SignedIn, NoAnswer, Hear
  <2>2. Rests(home, SignInError(x), x)
    BY <2>1, SignInRests
  <2>3. SignInError(x).is = "error"
    BY <2>2 DEF Rests
  <2> QED
    BY <1>1, <2>1, <2>2, <2>3, FailedStep
<1> QED
  BY <1>3, <1>4

LEMMA LegacyTryStep == ASSUME TypeInv, VerdictInv, LegacyTry PROVE Onward
<1>1. /\ phase = "ask" /\ Sought /\ UNCHANGED <<fixed, ctx, read, outcome>>
      /\ attempt \in Nat
  BY DEF LegacyTry, Asking, Sought, TypeInv
<1>2. PICK x \in Answers :
        /\ Hear(x)
        /\ \/ x.status = 401 /\ phase' = "refresh" /\ UNCHANGED <<asking, attempt, parent, skipped, heard, result>>
           \/ x.status = 401 /\ Again
           \/ x.status = 200 /\ Decoded(x)
           \/ x.status # 200 /\ Failed(Failure(x))
  BY DEF LegacyTry
<1>3. /\ x.to = asking /\ x.to \in Asked /\ x # NoAnswer /\ last' = x
      /\ x.status # 200 =>
            \/ ctx # "live" /\ x.status = 0 /\ x.note = "ended"
            \/ <<x.status, x.note>> \in Statuses \cup Silences
      /\ x.to = "record" /\ x.status = 404 => home = 0
  BY <1>2, AnswersAre DEF Hear
<1>4. x.status = 401 => <<x.status, x.note>> \in Repeats
  BY <1>3 DEF Statuses, Silences, Repeats
<1>5. CASE x.status = 401 /\ phase' = "refresh" /\ UNCHANGED <<asking, attempt, parent, skipped, heard, result>>
  BY <1>1, <1>3, <1>4, <1>5, AgainStep
<1>6. CASE x.status = 401 /\ Again
  BY <1>1, <1>3, <1>4, <1>6, AgainStep DEF Again
<1>7. CASE x.status = 200 /\ Decoded(x)
  BY <1>1, <1>3, <1>7, DecodedStep
<1>8. CASE x.status # 200 /\ Failed(Failure(x))
  <2>1. Failure(x).is = "error" /\ (ctx = "live" => Rests(home, Failure(x), x))
    BY <1>3, <1>8, FailureRests DEF Failure, Plain
  <2> QED
    BY <1>1, <1>3, <1>8, <2>1, FailedStep
<1> QED
  BY <1>2, <1>5, <1>6, <1>7, <1>8

LEMMA RefreshStep == ASSUME TypeInv, VerdictInv, Refresh PROVE Onward
<1>1. /\ phase = "refresh" /\ Sought /\ UNCHANGED <<fixed, ctx, read, outcome>>
      /\ attempt \in Nat /\ last.to = asking /\ <<last.status, last.note>> \in Repeats
  BY DEF Refresh, Sought, TypeInv, VerdictInv, RequestInv
<1>2. PICK y : /\ y \in SignInAnswers \cup SignInAttempts
               /\ setup.auth = "legacy" => y \in SignInAnswers
               /\ LET x == [y EXCEPT !.to = "renewal"]
                  IN  /\ Hear(x)
                      /\ IF SignedIn(x)
                         THEN /\ phase' = "ask"
                              /\ attempt' = IF setup.auth = "oneapi" THEN attempt + 1 ELSE attempt
                              /\ UNCHANGED <<asking, parent, skipped, heard, result>>
                         ELSE Failed(IF setup.auth = "oneapi" THEN Plain ELSE SignInError(x))
  BY DEF Refresh
<1>3. PICK x : x = [y EXCEPT !.to = "renewal"]
  OBVIOUS
<1>4. x.to = "renewal" /\ x.status = y.status /\ x.note = y.note /\ x # NoAnswer
  BY <1>2, <1>3 DEF SignInAnswers, SignInAttempts, NoAnswer
<1>5. CASE SignedIn(x)
  <2>1. /\ phase' = "ask" /\ attempt' \in Nat /\ last' = last
        /\ UNCHANGED <<asking, parent, skipped, heard, result>>
    BY <1>1, <1>2, <1>3, <1>5 DEF Hear
  <2> QED
    BY <1>1, <2>1, AgainStep
<1>6. CASE ~SignedIn(x) /\ setup.auth = "oneapi"
  <2>1. last' = x /\ Failed(Plain)
    BY <1>2, <1>3, <1>6 DEF Hear
  <2>2. Plain.is = "error" /\ Rests(home, Plain, x)
    BY <1>4, PlainRests DEF Plain, Unnamed
  <2> QED
    BY <1>1, <1>4, <2>1, <2>2, FailedStep
<1>7. CASE ~SignedIn(x) /\ setup.auth = "legacy"
  <2>1. last' = x /\ Failed(SignInError(x))
    BY <1>2, <1>3, <1>7 DEF Hear
  <2>2. Rests(home, SignInError(x), x)
    BY <1>2, <1>4, <1>7, SignInRests
  <2>3. SignInError(x).is = "error"
    BY <2>2 DEF Rests
  <2> QED
    BY <1>1, <1>4, <2>1, <2>2, <2>3, FailedStep
<1> QED
  BY <1>5, <1>6, <1>7, LiveAssumption DEF TypeInv

-----------------------------------------------------------------------------
(* The other steps of a read.                                              *)

LEMMA StartReadStep ==
    ASSUME TypeInv, VerdictInv, NEW r \in Read, StartRead(r) PROVE VerdictInv' /\ TypeInv'
<1>1. /\ UNCHANGED <<setup, home, ctx>> /\ read' = r /\ asking' = FirstRequest(r.op)
      /\ attempt' = 1 /\ parent' = 1 /\ skipped' = NoError /\ outcome' = Verdict("none")
      /\ heard' = {}
      /\ \/ phase' = "acquire" /\ result' = Returned("none")
         \/ phase' = "return" /\ result' = Returned(Unasked(r))
  BY DEF StartRead, Return, fixed
<1>2. r.op \in {"list", "show", "get", "scan", "search"}
  BY DEF Read, Gets
<1>3. /\ asking' \in Asked \ {"parent"}
      /\ asking' = "record" => r.op \in {"get", "show"}
      /\ asking' = "collection" => r.op \in {"list", "scan"}
      /\ asking' = "parents" => r.op = "search"
  BY <1>1, <1>2 DEF FirstRequest, Asked
<1>4. VerdictIsTrue'
  BY <1>1, NothingSaid
<1>5. result'.is \in Result \ {"record", "absent", "error"} /\ (phase' = "acquire" => result'.is = "none")
  BY <1>1 DEF Returned, Plain, Unasked, Result
<1>6. RequestInv'
  BY <1>1, <1>2, <1>3 DEF RequestInv, Sought, Asked
<1>7. home = 0 \/ home >= 1
  BY LiveAssumption DEF TypeInv
<1>8. SearchInv'
  BY <1>1, <1>7 DEF SearchInv
<1>9. ReturnInv'
  BY <1>1, <1>4, <1>5 DEF ReturnInv
<1>10. TypeInv'
  BY <1>1, <1>3 DEF TypeInv
<1> QED
  BY <1>6, <1>8, <1>9, <1>10 DEF VerdictInv

LEMMA OpenSessionStep == ASSUME TypeInv, VerdictInv, OpenSession PROVE VerdictInv' /\ TypeInv'
<1>1. /\ UNCHANGED <<setup, home, ctx, asking, attempt, parent, skipped>> /\ read' = Opening
      /\ phase = "idle" /\ outcome' = Verdict("none") /\ heard' = {}
      /\ phase' = "acquire" \/ phase' = "return"
      /\ \/ phase' = "acquire" /\ result' = Returned("none")
         \/ phase' = "return" /\ result' = Returned("unsupported")
  BY DEF OpenSession, Return, fixed
<1>2. VerdictIsTrue'
  BY <1>1, NothingSaid
<1>3. result'.is \in Result \ {"record", "absent", "error"} /\ (phase' = "acquire" => result'.is = "none")
  BY <1>1 DEF Returned, Plain, Result
<1>4. attempt = 1 /\ parent = 1 /\ skipped = NoError
  BY <1>1 DEF VerdictInv, RequestInv, SearchInv
<1>5. RequestInv'
  BY <1>1, <1>4 DEF RequestInv, Sought, Opening
<1>6. home = 0 \/ home >= 1
  BY LiveAssumption DEF TypeInv
<1>7. SearchInv'
  BY <1>1, <1>4, <1>6 DEF SearchInv
<1>8. ReturnInv'
  BY <1>1, <1>2, <1>3 DEF ReturnInv
<1>9. TypeInv'
  BY <1>1 DEF TypeInv
<1> QED
  BY <1>5, <1>7, <1>8, <1>9 DEF VerdictInv

(* A read that comes back before it asked for anything.                    *)
LEMMA ReturnStep ==
    ASSUME TypeInv, VerdictInv, phase # "idle", phase' = "return",
           UNCHANGED <<fixed, ctx, read, walk, outcome>>,
           result'.is \in (Result \cup {"error"}) \ {"record", "absent"},
           result'.is = "error" => ctx # "live" \/ \E x \in Grounds' : Rests(home, result', x)
    PROVE  VerdictInv' /\ TypeInv'
<1>1. /\ UNCHANGED <<setup, home, ctx, read, outcome, asking, attempt, parent, skipped, heard>>
      /\ outcome = Verdict("none") /\ VerdictIsTrue'
  BY NothingSaid DEF VerdictInv, ReturnInv, fixed, walk
<1>2. RequestInv'
  BY DEF RequestInv, Sought
<1>3. SearchInv'
  BY <1>1 DEF VerdictInv, SearchInv
<1>4. ReturnInv'
  BY <1>1 DEF ReturnInv
<1>5. TypeInv'
  BY <1>1 DEF TypeInv
<1> QED
  BY <1>2, <1>3, <1>4, <1>5 DEF VerdictInv

(* A read that got its service, or signs in for it.                        *)
LEMMA BeforeAsking ==
    ASSUME TypeInv, VerdictInv, phase \in {"acquire", "signin"}, phase' \in {"signin", "ask"},
           phase' = "ask" => read.op # "session",
           UNCHANGED <<fixed, ctx, read, walk, outcome, result>>
    PROVE  VerdictInv' /\ TypeInv'
<1>1. /\ UNCHANGED <<setup, home, ctx, read, outcome, asking, attempt, parent, skipped, heard>>
      /\ outcome = Verdict("none") /\ VerdictIsTrue'
  BY NothingSaid DEF VerdictInv, ReturnInv, fixed, walk
<1>2. RequestInv'
  BY <1>1 DEF VerdictInv, RequestInv, Sought
<1>3. SearchInv'
  BY <1>1 DEF VerdictInv, SearchInv
<1>4. ReturnInv'
  BY <1>1 DEF VerdictInv, ReturnInv
<1>5. TypeInv'
  BY <1>1 DEF TypeInv
<1> QED
  BY <1>2, <1>3, <1>4, <1>5 DEF VerdictInv

LEMMA UseSessionStep ==
    ASSUME TypeInv, VerdictInv, ServiceInv, UseSession PROVE VerdictInv' /\ TypeInv'
<1>1. phase = "acquire" /\ Shared /\ read.op # "session" /\ UNCHANGED <<fixed, ctx, read, walk, outcome>>
  BY DEF UseSession, ServiceInv
<1>2. \/ phase' = "return" /\ result' = Returned("unsupported")
      \/ phase' = "return" /\ ctx # "live" /\ result' = [Plain EXCEPT !.note = "ended"]
      \/ phase' = "ask" /\ UNCHANGED result
  BY DEF UseSession, Return
<1>3. CASE phase' = "return"
  <2>1. result'.is = "unsupported" \/ (ctx # "live" /\ result'.is = "error")
    BY <1>2, <1>3 DEF Returned, Plain
  <2>2. result'.is \in (Result \cup {"error"}) \ {"record", "absent"}
    BY <2>1 DEF Result
  <2> QED
    BY <1>1, <1>3, <2>1, <2>2, ReturnStep
<1>4. CASE phase' = "ask" /\ UNCHANGED result
  BY <1>1, <1>4, BeforeAsking
<1> QED
  BY <1>2, <1>3, <1>4

LEMMA AcquireStep == ASSUME TypeInv, VerdictInv, Acquire PROVE VerdictInv' /\ TypeInv'
<1>1. phase = "acquire" /\ UNCHANGED <<fixed, ctx, read, walk, outcome>>
  BY DEF Acquire
<1>2. \/ Unusable # "none" /\ phase' = "return" /\ result' = Returned(Unusable)
      \/ phase' = "signin" /\ UNCHANGED result
      \/ read.op = "session" /\ phase' = "return" /\ UNCHANGED result
      \/ read.op # "session" /\ phase' = "ask" /\ UNCHANGED result
  BY DEF Acquire, Return, Ready
<1>3. CASE phase' = "return"
  <2>1. result'.is \in {"none", "missing_credentials", "unsupported"}
    BY <1>1, <1>2, <1>3 DEF Returned, Plain, Unusable, VerdictInv, ReturnInv
  <2> QED
    BY <1>1, <1>3, <2>1, ReturnStep DEF Result
<1>4. CASE phase' = "signin" /\ UNCHANGED result
  BY <1>1, <1>4, BeforeAsking
<1>5. CASE read.op # "session" /\ phase' = "ask" /\ UNCHANGED result
  BY <1>1, <1>5, BeforeAsking
<1> QED
  BY <1>2, <1>3, <1>4, <1>5

LEMMA SignInStep == ASSUME TypeInv, VerdictInv, SignIn PROVE VerdictInv' /\ TypeInv'
<1>1. phase = "signin" /\ UNCHANGED <<fixed, ctx, read, walk, outcome>>
  BY DEF SignIn
<1>2. PICK x \in SignInAttempts :
         /\ Hear(x)
         /\ IF SignedIn(x) THEN Ready /\ UNCHANGED result ELSE Return(SignInError(x))
  BY DEF SignIn
<1>3. CASE SignedIn(x) /\ read.op = "session"
  <2>1. phase' = "return" /\ result'.is = "none"
    BY <1>1, <1>2, <1>3 DEF Ready, VerdictInv, ReturnInv
  <2> QED
    BY <1>1, <2>1, ReturnStep DEF Result
<1>4. CASE SignedIn(x) /\ read.op # "session"
  <2>1. phase' = "ask" /\ UNCHANGED result
    BY <1>2, <1>4 DEF Ready
  <2> QED
    BY <1>1, <1>4, <2>1, BeforeAsking
<1>5. CASE ~SignedIn(x)
  <2>1. phase' = "return" /\ result' = SignInError(x) /\ last' = x
    BY <1>2, <1>5 DEF Return, Hear
  <2>2. x.to = "signin" /\ x # NoAnswer
    BY <1>5 DEF SignInAttempts, SignInAnswers, SignedIn, NoAnswer
  <2>3. ctx = "live" => Rests(home, SignInError(x), x)
    BY <2>2, SignInRests DEF SignInAttempts
  <2>4. SignInError(x).is = "error"
    BY DEF SignInError, SignInFailure, Failure, Plain
  <2>5. x \in Grounds'
    BY <2>1, <2>2 DEF Grounds
  <2>6. result'.is \in (Result \cup {"error"}) \ {"record", "absent"}
    BY <2>1, <2>4
  <2>7. ctx # "live" \/ \E y \in Grounds' : Rests(home, result', y)
    BY <2>1, <2>3, <2>5
  <2> QED
    BY <1>1, <2>1, <2>6, <2>7, ReturnStep
<1> QED
  BY <1>3, <1>4, <1>5

(* What is told of an error is what the answer it rests on explains.       *)
LEMMA ErrorsAreTold ==
    ASSUME NEW e, NEW x \in Grounds, Rests(home, e, x), ctx = "live",
           outcome' = normalizeLiveError(e), UNCHANGED <<fixed, ctx, read, heard, last>>
    PROVE  VerdictIsTrue'
<1>1. x \in Grounds' /\ UNCHANGED <<home, ctx, read>>
  BY DEF Grounds, fixed
<1>2. CASE e.note = "timeout"
  <2>1. outcome' = Verdict("deadline") /\ x.note = "timeout"
    BY <1>2 DEF normalizeLiveError, Rests
  <2>2. outcome'.kind = "deadline"
    BY <2>1 DEF Verdict
  <2> QED
    BY <1>1, <2>1, <2>2 DEF VerdictIsTrue
<1>3. CASE e.note # "timeout" /\ RecordIsMissing(e)
  <2>1. outcome' = Verdict("not_found")
    BY <1>3 DEF normalizeLiveError
  <2>2. outcome'.kind = "not_found"
    BY <2>1 DEF Verdict
  <2>3. /\ read.op \in Gets /\ x.status = 404
        /\ x.to \in {"record", "collection", "parents", "parent"}
        /\ x.to = "record" => home = 0
    BY <1>3 DEF RecordIsMissing, Rests
  <2> QED
    BY <1>1, <2>2, <2>3 DEF VerdictIsTrue
<1>4. CASE e.note # "timeout" /\ ~RecordIsMissing(e)
  <2>1. outcome' = classifyFailure(e)
    BY <1>4 DEF normalizeLiveError
  <2>2. classifyFailure(e).kind = "failed" /\ Explained(classifyFailure(e), x)
    BY <1>4 DEF Rests
  <2>3. outcome'.kind = "failed" /\ Explained(outcome', x)
    BY <2>1, <2>2
  <2>4. Explains(x)'
    BY <2>3 DEF Explains, Explained
  <2> QED
    BY <1>1, <2>3, <2>4 DEF VerdictIsTrue
<1> QED
  BY <1>2, <1>3, <1>4

LEMMA EndStep == ASSUME TypeInv, VerdictInv, End PROVE VerdictInv' /\ TypeInv'
<1>1. /\ phase = "return" /\ phase' = "idle" /\ outcome' = Told
      /\ attempt' = 1 /\ parent' = 1 /\ skipped' = NoError
      /\ UNCHANGED <<fixed, setup, home, ctx, read, asking, heard, last>>
  BY DEF End, fixed
<1>2. /\ result.is \in Result \cup {"error"}
      /\ result.is = "record" /\ read.op \in Gets => home # 0
      /\ result.is = "absent" => read.op \in Gets /\ home = 0
      /\ result.is = "error" => ctx # "live" \/ \E x \in Grounds : Rests(home, result, x)
  BY <1>1 DEF VerdictInv, ReturnInv
<1>3. RequestInv'
  BY <1>1 DEF RequestInv, Sought
<1>4. SearchInv'
  BY <1>1 DEF VerdictInv, SearchInv
<1>5. ASSUME outcome' = Verdict(ctx), ctx # "live" PROVE VerdictIsTrue'
  <2>1. outcome'.kind = ctx /\ ctx \in {"canceled", "deadline"}
    BY <1>5 DEF Verdict, TypeInv
  <2> QED
    BY <1>1, <2>1 DEF VerdictIsTrue
<1>6. ASSUME NEW kind \in {"records", "record", "not_found", "unsupported", "invalid_id",
                           "missing_credentials", "none"},
             outcome' = Verdict(kind),
             kind = "record" /\ read.op \in Gets => home # 0,
             kind = "not_found" => read.op \in Gets /\ home = 0
      PROVE  VerdictIsTrue'
  <2>1. outcome'.kind = kind
    BY <1>6 DEF Verdict
  <2> QED
    BY <1>1, <1>6, <2>1 DEF VerdictIsTrue
<1>7. VerdictIsTrue'
  <2>1. CASE result.is = "none"
    BY <1>1, <1>6, <2>1 DEF Told
  <2>2. CASE result.is = "error"
    <3>1. outcome' = normalizeLiveError(result)
      BY <1>1, <2>2 DEF Told
    <3>2. CASE ctx # "live"
      BY <1>5, <3>1, <3>2 DEF normalizeLiveError
    <3>3. CASE ctx = "live"
      <4>1. PICK x \in Grounds : Rests(home, result, x)
        BY <1>2, <2>2, <3>3
      <4> QED
        BY <1>1, <3>1, <3>3, <4>1, ErrorsAreTold
    <3> QED
      BY <3>2, <3>3
  <2>3. CASE result.is = "absent"
    BY <1>1, <1>2, <1>6, <2>3 DEF Told
  <2>4. CASE result.is = "unsupported" /\ read.op = "session" /\ setup.product # "zdx" /\ ctx # "live"
    BY <1>1, <1>5, <2>4 DEF Told
  <2>5. CASE /\ result.is \in {"record", "records", "unsupported", "invalid_id", "missing_credentials"}
             /\ ~(result.is = "unsupported" /\ read.op = "session" /\ setup.product # "zdx" /\ ctx # "live")
    <3>1. outcome' = Verdict(result.is)
      BY <1>1, <2>5 DEF Told
    <3> QED
      BY <1>2, <1>6, <2>5, <3>1
  <2>6. result.is \in {"none", "error", "absent", "record", "records", "unsupported", "invalid_id",
                      "missing_credentials"}
    BY <1>2 DEF Result
  <2>7. CASE result.is \in {"record", "records", "unsupported", "invalid_id", "missing_credentials"}
    BY <2>4, <2>5, <2>7
  <2> QED
    BY <2>1, <2>2, <2>3, <2>6, <2>7
<1>8. ReturnInv'
  BY <1>1, <1>7 DEF ReturnInv
<1>9. TypeInv'
  BY <1>1 DEF TypeInv
<1> QED
  BY <1>3, <1>4, <1>8, <1>9 DEF VerdictInv

LEMMA ContextEndsStep ==
    ASSUME TypeInv, VerdictInv, NEW how \in {"canceled", "deadline"}, ContextEnds(how)
    PROVE  VerdictInv' /\ TypeInv'
<1>1. /\ phase # "idle" /\ ctx' = how
      /\ UNCHANGED <<setup, home, read, phase, asking, attempt, parent, skipped, heard, result, outcome, last>>
  BY DEF ContextEnds, fixed, walk
<1>2. outcome = Verdict("none") /\ VerdictIsTrue'
  BY <1>1, NothingSaid DEF VerdictInv, ReturnInv
<1>3. RequestInv'
  BY <1>1 DEF VerdictInv, RequestInv, Sought
<1>4. SearchInv'
  BY <1>1 DEF VerdictInv, SearchInv
<1>5. ReturnInv'
  BY <1>1, <1>2 DEF VerdictInv, ReturnInv
<1>6. TypeInv'
  BY <1>1 DEF TypeInv
<1> QED
  BY <1>3, <1>4, <1>5, <1>6 DEF VerdictInv

(* What changes no more than the services.                                 *)
LEMMA StillStep ==
    ASSUME TypeInv, VerdictInv, UNCHANGED <<fixed, ctx, read, phase, walk, result, outcome, last>>
    PROVE  VerdictInv' /\ TypeInv'
<1>1. UNCHANGED <<setup, home, ctx, read, phase, asking, attempt, parent, skipped, heard, result, outcome, last>>
  BY DEF fixed, walk
<1>2. RequestInv'
  BY <1>1 DEF VerdictInv, RequestInv, Sought
<1>3. SearchInv'
  BY <1>1 DEF VerdictInv, SearchInv
<1>4. VerdictIsTrue'
  BY <1>1 DEF VerdictInv, ReturnInv, VerdictIsTrue, Grounds, Explains
<1>5. ReturnInv'
  BY <1>1, <1>4 DEF VerdictInv, ReturnInv, Grounds
<1>6. TypeInv'
  BY <1>1 DEF TypeInv
<1> QED
  BY <1>2, <1>3, <1>5, <1>6 DEF VerdictInv

-----------------------------------------------------------------------------
(* Services.                                                               *)

(* A step of a request keeps the service it uses.                          *)
LEMMA RequestServices ==
    ASSUME ServiceInv, VerdictInv, Sought, UNCHANGED <<session, held, read>>,
           phase' \in {"ask", "refresh", "return"}
    PROVE  ServiceInv'
<1>1. held = 1 /\ read.op # "session"
  BY DEF ServiceInv, ServicesReleased, Sought, VerdictInv, RequestInv
<1> QED
  BY <1>1 DEF ServiceInv, ServicesReleased, Shared

LEMMA ServiceStep ==
    ASSUME TypeInv, VerdictInv, ServiceInv, [LiveNext]_live
    PROVE  VerdictInv' /\ TypeInv' /\ ServiceInv'
<1>1. ASSUME Onward, Sought, UNCHANGED <<session, held, read>>
      PROVE  VerdictInv' /\ TypeInv' /\ ServiceInv'
  BY <1>1, RequestServices DEF Onward
<1>2. ASSUME NEW r \in Read, StartRead(r) PROVE VerdictInv' /\ TypeInv' /\ ServiceInv'
  <2>1. /\ phase = "idle" /\ phase' \in {"acquire", "return"} /\ read' = r
        /\ UNCHANGED <<session, held>>
    BY <1>2 DEF StartRead, Return, services
  <2>2. r.op # "session"
    BY DEF Read, Gets
  <2>3. ServiceInv'
    BY <2>1, <2>2 DEF ServiceInv, ServicesReleased, Shared
  <2> QED
    BY <1>2, <2>3, StartReadStep
<1>3. CASE OpenSession
  <2>1. /\ phase = "idle" /\ ~Shared /\ phase' \in {"acquire", "return"} /\ read' = Opening
        /\ UNCHANGED <<session, held>>
    BY <1>3 DEF OpenSession, Return, services, Shared
  <2>2. ServiceInv'
    BY <2>1 DEF ServiceInv, ServicesReleased, Shared
  <2> QED
    BY <1>3, <2>2, OpenSessionStep
<1>4. ASSUME NEW how \in {"canceled", "deadline"}, ContextEnds(how)
      PROVE  VerdictInv' /\ TypeInv' /\ ServiceInv'
  <2>1. UNCHANGED <<session, held, phase, read>>
    BY <1>4 DEF ContextEnds, services
  <2>2. ServiceInv'
    BY <2>1 DEF ServiceInv, ServicesReleased, Shared
  <2> QED
    BY <1>4, <2>2, ContextEndsStep
<1>5. CASE UseSession
  <2>1. /\ phase = "acquire" /\ Shared /\ phase' \in {"ask", "return"}
        /\ UNCHANGED <<session, held, read>>
    BY <1>5 DEF UseSession, Return, services
  <2>2. ServiceInv'
    BY <2>1 DEF ServiceInv, ServicesReleased, Shared
  <2> QED
    BY <1>5, <2>2, UseSessionStep
<1>6. CASE Acquire
  <2>1. phase = "acquire" /\ ~Shared /\ held = 0 /\ read' = read
    BY <1>6 DEF Acquire, ServiceInv
  <2>2. \/ phase' \in {"return", "signin"} /\ UNCHANGED <<session, held>>
        \/ read.op = "session" /\ session' = "open" /\ phase' = "return" /\ held' = 1
        \/ read.op # "session" /\ UNCHANGED session /\ phase' = "ask" /\ held' = 1
    BY <1>6, <2>1 DEF Acquire, Return, Ready, services
  <2>3. ServiceInv'
    BY <2>1, <2>2 DEF ServiceInv, ServicesReleased, Shared
  <2> QED
    BY <1>6, <2>3, AcquireStep
<1>7. CASE SignIn
  <2>1. phase = "signin" /\ ~Shared /\ held = 0 /\ read' = read
    BY <1>7 DEF SignIn, ServiceInv
  <2>2. \/ phase' = "return" /\ UNCHANGED <<session, held>>
        \/ read.op = "session" /\ session' = "open" /\ phase' = "return" /\ held' = 1
        \/ read.op # "session" /\ UNCHANGED session /\ phase' = "ask" /\ held' = 1
    BY <1>7, <2>1 DEF SignIn, Return, Ready, services
  <2>3. ServiceInv'
    BY <2>1, <2>2 DEF ServiceInv, ServicesReleased, Shared
  <2> QED
    BY <1>7, <2>3, SignInStep
<1>8. CASE Try
  BY <1>1, <1>8, TryStep DEF Try, Asking, Sought, services
<1>9. CASE GiveUp \/ LegacyGiveUp
  <2>1. Sought /\ UNCHANGED <<session, held, read>>
    BY <1>9 DEF GiveUp, LegacyGiveUp, Asking, Sought, services
  <2> QED
    BY <1>1, <1>9, <2>1, GiveUpStep
<1>10. CASE RunOutOfTime
  BY <1>1, <1>10, RunOutOfTimeStep DEF RunOutOfTime, Asking, Sought, services
<1>11. CASE LegacySignIn
  BY <1>1, <1>11, LegacySignInStep DEF LegacySignIn, Asking, Sought
<1>12. CASE LegacyTry
  BY <1>1, <1>12, LegacyTryStep DEF LegacyTry, Asking, Sought, services
<1>13. CASE Refresh
  BY <1>1, <1>13, RefreshStep DEF Refresh, Sought, services
<1>14. CASE End
  <2>1. phase = "return" /\ phase' = "idle" /\ UNCHANGED <<session, read>>
    BY <1>14 DEF End
  <2>2. held \in {0, 1} /\ (Shared => held = 1) /\ (read.op = "session" /\ ~Shared => held = 0)
    BY <2>1 DEF ServiceInv, ServicesReleased
  <2>3. held' = IF read.op # "session" /\ ~Shared /\ held > 0 THEN held - 1 ELSE held
    BY <1>14, <2>1 DEF End, OwnService
  <2>4. held' = IF Shared THEN 1 ELSE 0
    BY <2>2, <2>3
  <2>5. ServiceInv'
    BY <2>1, <2>4 DEF ServiceInv, ServicesReleased, Shared
  <2> QED
    BY <1>14, <2>5, EndStep
<1>15. CASE CloseSession
  <2>1. phase = "idle" /\ phase' = "idle" /\ Shared /\ ~Shared' /\ held' = held - 1 /\ read' = read
    BY <1>15 DEF CloseSession, Shared
  <2>2. held' = 0
    BY <2>1 DEF ServiceInv, ServicesReleased
  <2>3. ServiceInv'
    BY <2>1, <2>2 DEF ServiceInv, ServicesReleased
  <2> QED
    BY <1>15, <2>3, StillStep DEF CloseSession
<1>16. CASE UNCHANGED live
  <2>1. UNCHANGED <<session, held, phase, read>>
    BY <1>16 DEF live, services
  <2>2. ServiceInv'
    BY <2>1 DEF ServiceInv, ServicesReleased, Shared
  <2> QED
    BY <1>16, <2>2, StillStep DEF live
<1> QED
  BY <1>2, <1>3, <1>4, <1>5, <1>6, <1>7, <1>8, <1>9, <1>10, <1>11, <1>12, <1>13, <1>14, <1>15, <1>16
  DEF LiveNext, LiveStep, LiveFinished

LEMMA LiveStarts == ASSUME LiveInit PROVE VerdictInv /\ TypeInv /\ ServiceInv
<1>1. TypeInv
  BY LiveAssumption DEF LiveInit, TypeInv, Asked
<1>2. home = 0 \/ home >= 1
  BY <1>1, LiveAssumption DEF TypeInv
<1>3. result.is = "none" /\ outcome.kind = "none"
  BY DEF LiveInit, Returned, Plain, Verdict
<1>4. RequestInv
  BY DEF LiveInit, RequestInv, Sought
<1>5. SearchInv
  BY <1>2 DEF LiveInit, SearchInv
<1>6. ReturnInv
  BY <1>3 DEF LiveInit, ReturnInv, VerdictIsTrue
<1>7. ServiceInv
  BY DEF LiveInit, ServiceInv, ServicesReleased, Shared
<1> QED
  BY <1>1, <1>4, <1>5, <1>6, <1>7 DEF VerdictInv

-----------------------------------------------------------------------------
(* The invariant of a reader: what its requests, its search and what it    *)
(* returns have to do with the answers it got, and who owns its service    *)
(* (LiveAccess.tla).                                                       *)
THEOREM LiveInvCorrect == LiveSpec => [](VerdictInv /\ TypeInv /\ ServiceInv)
<1>1. LiveInit => VerdictInv /\ TypeInv /\ ServiceInv
  BY LiveStarts
<1>2. VerdictInv /\ TypeInv /\ ServiceInv /\ [LiveNext]_live => VerdictInv' /\ TypeInv' /\ ServiceInv'
  BY ServiceStep
<1> QED
  BY <1>1, <1>2, PTL DEF LiveSpec

(* Whatever the tenant answers and the SDK repeats, signs in for and hides,*)
(* a caller is told what is so: see VerdictIsTrue (normalizeLiveError,     *)
(* classifyFailure, signInTransport, getZIASublocationByID).               *)
THEOREM VerdictsAreTrue == LiveSpec => []VerdictIsTrue
<1>1. VerdictInv /\ TypeInv /\ ServiceInv => VerdictIsTrue
  BY DEF VerdictInv, ReturnInv
<1> QED
  BY <1>1, LiveInvCorrect, PTL

(* A service is closed when the read or the session it belongs to ends, and*)
(* not before (withService, perCallService, SDKSession.Close).             *)
THEOREM ServicesAreReleased == LiveSpec => []ServicesReleased
<1>1. VerdictInv /\ TypeInv /\ ServiceInv => ServicesReleased
  BY DEF ServiceInv
<1> QED
  BY <1>1, LiveInvCorrect, PTL

-----------------------------------------------------------------------------
(* Types, which bound what the SDK repeats.                                *)

(* Of a request: it is tried at most five times, and so is one that is     *)
(* signed in for, which is tried once more.                                *)
Tried ==
    /\ asking \in Asked
    /\ attempt \in 1..(LegacyRetries + 1)
    /\ phase = "refresh" => attempt <= LegacyRetries
    /\ refreshes \in 0..MaxRefreshes
    /\ parent \in 1..(Parents + 1)
    /\ skipped \in Error \cup {NoError}
    /\ heard \subseteq Answer
    /\ result.is \in Result \cup {"error"}

Held ==
    /\ setup \in Setups
    /\ session \in {"none", "open", "closed"}
    /\ signedIn \in BOOLEAN
    /\ held \in Int

Said ==
    /\ last \in Answer
    /\ outcome.kind \in {"none", "record", "records", "not_found", "unsupported", "invalid_id",
                         "missing_credentials", "canceled", "deadline", "failed"}

LEMMA ErrorsAre ==
    /\ \A e \in Error : e.is = "error"
    /\ Plain \in Error
    /\ \A note \in Note : [Plain EXCEPT !.note = note] \in Error
    /\ \A x \in Answer : Failure(x) \in Error /\ SignInError(x) \in Error
BY DEF Plain, Error, Answer, Note, Failure, SignInFailure, SignInError

LEMMA SignInsAreAnswers == SignInAnswers \cup SignInAttempts \cup {NoAnswer} \subseteq Answer
BY DEF SignInAnswers, SignInAttempts, Answer, Note, NoAnswer

LEMMA RenewalsAreAnswers ==
    \A y \in SignInAnswers \cup SignInAttempts : [y EXCEPT !.to = "renewal"] \in Answer
BY DEF SignInAnswers, SignInAttempts, Answer, Note

LEMMA AnswersAreAnswers == Tried => Answers \subseteq Answer
<1> SUFFICES ASSUME Tried, NEW x \in Answers PROVE x \in Answer
  OBVIOUS
<1>1. PICK r \in IF ctx = "live" THEN Replies ELSE {<<0, "ended">>} :
         x = [to |-> asking, status |-> r[1], note |-> r[2]]
  BY DEF Answers
<1>2. r[1] \in Nat /\ r[2] \in Note
  <2>1. CASE ctx # "live"
    BY <1>1, <2>1 DEF Note
  <2>2. CASE ctx = "live"
    <3>1. r \in Failures \cup {<<404, "bare">>, <<200, "good">>, <<200, "strange">>,
                              <<200, "unproven">>, <<403, "licence">>}
      BY <1>1, <2>2, ReplyPairs
    <3> QED
      BY <3>1 DEF Failures, Note
  <2> QED
    BY <2>1, <2>2
<1> QED
  BY <1>1, <1>2 DEF Answer, Tried, Asked

LEMMA HearAnswer == \A x \in Answer : last \in Answer /\ Hear(x) => last' \in Answer
BY DEF Hear

(* A location is left behind only while it is being searched.              *)
LEMMA FailedTried ==
    ASSUME Tried, RequestInv, Sought, NEW e \in Error, last' \in Answer, Failed(e)
    PROVE  Tried'
<1>1. CASE asking = "parent" /\ Skip(e) /\ NextRequest("parents")
  <2>1. parent \in 1..Parents
    BY <1>1, LiveAssumption DEF RequestInv, Tried
  <2>2. parent' \in 1..(Parents + 1)
    BY <1>1, <2>1, LiveAssumption DEF Skip
  <2> QED
    BY <1>1, <2>2 DEF Skip, NextRequest, Tried, Asked, MaxRefreshes, LegacyRetries
<1>2. CASE Return(e) /\ UNCHANGED walk
  BY <1>2, ErrorsAre DEF Return, walk, Tried
<1> QED
  BY <1>1, <1>2 DEF Failed

LEMMA GoodTried ==
    ASSUME Tried, RequestInv, Sought, Good
    PROVE  Tried'
<1>1. \/ \E r : Return(r) /\ r.is \in Result \cup {"error"} /\ Same
      \/ NextRequest("parent") /\ UNCHANGED <<parent, skipped, heard>>
      \/ asking = "parent" /\ NextRequest("parents") /\ parent' = parent + 1 /\ UNCHANGED <<skipped, heard>>
  <2>1. asking \in Asked /\ (asking = "collection" => read.op \in {"list", "scan"})
        /\ (asking = "parents" => parent > Parents \/ parent <= Parents)
    BY LiveAssumption DEF Tried, RequestInv, Sought
  <2>2. \A what \in Result : Returned(what).is \in Result \cup {"error"}
    BY DEF Returned, Plain
  <2>3. Searched.is \in Result \cup {"error"}
    BY <2>2, ErrorsAre DEF Searched, Tried, NoError, Result
  <2> QED
    BY <2>1, <2>2, <2>3 DEF Good, Asked, Result
<1>2. CASE \E r : Return(r) /\ r.is \in Result \cup {"error"} /\ Same
  BY <1>2 DEF Return, Same, walk, Tried
<1>3. CASE NextRequest("parent") /\ UNCHANGED <<parent, skipped, heard>>
  BY <1>3 DEF NextRequest, Tried, Asked, MaxRefreshes, LegacyRetries
<1>4. CASE asking = "parent" /\ NextRequest("parents") /\ parent' = parent + 1 /\ UNCHANGED <<skipped, heard>>
  <2>1. parent \in 1..Parents
    BY <1>4, LiveAssumption DEF RequestInv, Tried
  <2>2. parent' \in 1..(Parents + 1)
    BY <1>4, <2>1, LiveAssumption
  <2> QED
    BY <1>4, <2>2 DEF NextRequest, Tried, Asked, MaxRefreshes, LegacyRetries
<1> QED
  BY <1>1, <1>2, <1>3, <1>4

LEMMA DecodedTried ==
    ASSUME Tried, RequestInv, Sought, NEW x \in Answers, x.status = 200, last' \in Answer, Decoded(x)
    PROVE  Tried'
<1>1. \/ Good
      \/ \E note \in Note : Failed([Plain EXCEPT !.note = note])
      \/ Return(Returned("record")) /\ Same
      \/ x.note \notin {"good", "strange", "garbled", "unproven"}
  BY DEF Decoded, Note
<1>2. CASE Return(Returned("record")) /\ Same
  BY <1>2 DEF Return, Returned, Plain, Result, Same, walk, Tried
<1>3. x.note \in {"good", "strange", "garbled", "unproven"}
  <2>1. PICK r \in Replies : x.status = r[1] /\ x.note = r[2]
    BY DEF Answers
  <2>2. r \in Failures => r[1] # 200 \/ r[2] = "garbled"
    BY DEF Failures
  <2> QED
    BY <2>1, <2>2, ReplyPairs
<1> QED
  BY <1>1, <1>2, <1>3, GoodTried, FailedTried, ErrorsAre

LEMMA AgainTried ==
    ASSUME Tried, phase = "ask", attempt <= LegacyRetries, Again, refreshes' = 0
    PROVE  Tried'
BY DEF Again, Tried, LegacyRetries, MaxRefreshes

LEMMA TryTried == ASSUME Tried, Held, Said, RequestInv, Try PROVE Tried' /\ Held' /\ Said'
<1> PICK x \in Answers :
       /\ Hear(x)
       /\ \/ /\ EndedSession(x)
             /\ refreshes < MaxRefreshes
             /\ phase' = "refresh"
             /\ refreshes' = refreshes + 1
             /\ UNCHANGED <<asking, attempt, parent, skipped, heard, result>>
          \/ \E e \in {[Plain EXCEPT !.note = "exhausted"], Plain, Failure(x)} : Failed(e)
          \/ Again /\ refreshes' = 0
          \/ x.status = 200 /\ Decoded(x)
  BY DEF Try
<1>1. /\ phase = "ask" /\ Sought /\ attempt <= MaxRetries
      /\ UNCHANGED <<fixed, ctx, services, read, outcome>>
  BY DEF Try, Asking, OutOfTries, Sought, Tried, MaxRetries
<1>2. x \in Answer /\ last' \in Answer
  BY AnswersAreAnswers, HearAnswer DEF Said
<1> SUFFICES Tried'
  BY <1>1, <1>2 DEF Held, Said, services, fixed
<1>3. CASE phase' = "refresh" /\ refreshes < MaxRefreshes /\ refreshes' = refreshes + 1
           /\ UNCHANGED <<asking, attempt, parent, skipped, heard, result>>
  BY <1>1, <1>3 DEF Tried, MaxRefreshes, MaxRetries, LegacyRetries
<1>4. CASE \E e \in {[Plain EXCEPT !.note = "exhausted"], Plain, Failure(x)} : Failed(e)
  BY <1>1, <1>2, <1>4, FailedTried, ErrorsAre DEF Note
<1>5. CASE Again /\ refreshes' = 0
  BY <1>1, <1>5, AgainTried DEF MaxRetries, LegacyRetries, Tried
<1>6. CASE x.status = 200 /\ Decoded(x)
  BY <1>1, <1>2, <1>6, DecodedTried
<1> QED
  BY <1>3, <1>4, <1>5, <1>6

LEMMA LegacyTryTried == ASSUME Tried, Held, Said, RequestInv, LegacyTry PROVE Tried' /\ Held' /\ Said'
<1> PICK x \in Answers :
       /\ Hear(x)
       /\ \/ /\ phase' = "refresh"
             /\ refreshes' = 1
             /\ UNCHANGED <<asking, attempt, parent, skipped, heard, result>>
          \/ Again /\ refreshes' = 0
          \/ x.status = 200 /\ Decoded(x)
          \/ Failed(Failure(x))
  BY DEF LegacyTry
<1>1. /\ phase = "ask" /\ Sought /\ attempt <= LegacyRetries
      /\ UNCHANGED <<fixed, ctx, services, read, outcome>>
  BY DEF LegacyTry, Asking, Sought
<1>2. x \in Answer /\ last' \in Answer
  BY AnswersAreAnswers, HearAnswer DEF Said
<1> SUFFICES Tried'
  BY <1>1, <1>2 DEF Held, Said, services, fixed
<1>3. CASE phase' = "refresh" /\ refreshes' = 1 /\ UNCHANGED <<asking, attempt, parent, skipped, heard, result>>
  BY <1>1, <1>3 DEF Tried, MaxRefreshes
<1>4. CASE Failed(Failure(x))
  BY <1>1, <1>2, <1>4, FailedTried, ErrorsAre
<1>5. CASE Again /\ refreshes' = 0
  BY <1>1, <1>5, AgainTried
<1>6. CASE x.status = 200 /\ Decoded(x)
  BY <1>1, <1>2, <1>6, DecodedTried
<1> QED
  BY <1>3, <1>4, <1>5, <1>6

LEMMA OtherTried ==
    ASSUME Tried, Held, Said, RequestInv,
           GiveUp \/ LegacyGiveUp \/ RunOutOfTime \/ LegacySignIn \/ Refresh
    PROVE  Tried' /\ Held' /\ Said'
<1>1. CASE GiveUp \/ LegacyGiveUp
  <2>1. /\ Sought /\ UNCHANGED <<fixed, services, outcome, last>> /\ Failed(Failure(last))
    BY <1>1 DEF GiveUp, LegacyGiveUp, Asking, Sought
  <2> QED
    BY <2>1, FailedTried, ErrorsAre DEF Held, Said, services, fixed
<1>2. CASE RunOutOfTime
  <2>1. /\ Sought /\ UNCHANGED <<fixed, services, outcome>> /\ Failed(Plain)
        /\ Hear([to |-> asking, status |-> 0, note |-> "slow"])
    BY <1>2 DEF RunOutOfTime, Asking, Sought
  <2>2. [to |-> asking, status |-> 0, note |-> "slow"] \in Answer
    BY DEF Answer, Note, Tried, Asked
  <2>3. last' \in Answer
    BY <2>1, <2>2, HearAnswer DEF Said
  <2> QED
    BY <2>1, <2>3, FailedTried, ErrorsAre DEF Held, Said, services, fixed
<1>3. CASE LegacySignIn
  <2>1. PICK x \in SignInAnswers :
           /\ Hear(x)
           /\ \/ signedIn' = TRUE /\ UNCHANGED <<phase, result, walk>>
              \/ Failed(SignInError(x)) /\ UNCHANGED signedIn
    BY <1>3 DEF LegacySignIn
  <2>2. Sought /\ UNCHANGED <<fixed, session, held, outcome>>
    BY <1>3 DEF LegacySignIn, Asking, Sought
  <2>3. x \in Answer /\ last' \in Answer
    BY <2>1, SignInsAreAnswers, HearAnswer DEF Said
  <2>4. Tried'
    BY <2>1, <2>2, <2>3, FailedTried, ErrorsAre DEF Tried, walk
  <2> QED
    BY <2>1, <2>2, <2>3, <2>4 DEF Held, Said, fixed
<1>4. CASE Refresh
  <2>1. PICK y \in SignInAnswers \cup SignInAttempts :
           LET x == [y EXCEPT !.to = "renewal"]
           IN  /\ Hear(x)
               /\ \/ /\ phase' = "ask"
                     /\ attempt' \in {attempt, attempt + 1}
                     /\ UNCHANGED <<asking, refreshes, parent, skipped, heard, result>>
                  \/ \E e \in {Plain, SignInError(x)} : Failed(e)
    BY <1>4 DEF Refresh
  <2>2. phase = "refresh" /\ Sought /\ UNCHANGED <<fixed, services, outcome>>
    BY <1>4 DEF Refresh, Sought
  <2>3. [y EXCEPT !.to = "renewal"] \in Answer /\ last' \in Answer
    BY <2>1, RenewalsAreAnswers, HearAnswer DEF Said
  <2>4. ASSUME NEW e \in {Plain, SignInError([y EXCEPT !.to = "renewal"])}, Failed(e)
        PROVE  Tried'
    BY <2>2, <2>3, <2>4, FailedTried, ErrorsAre
  <2>5. ASSUME phase' = "ask", attempt' \in {attempt, attempt + 1},
               UNCHANGED <<asking, refreshes, parent, skipped, heard, result>>
        PROVE  Tried'
    BY <2>2, <2>5 DEF Tried, LegacyRetries
  <2>6. Tried'
    BY <2>1, <2>4, <2>5
  <2> QED
    BY <2>2, <2>3, <2>6 DEF Held, Said, services, fixed
<1> QED
  BY <1>1, <1>2, <1>3, <1>4

LEMMA EndSaid == ASSUME VerdictInv, TypeInv, End PROVE outcome'.kind \in
    {"none", "record", "records", "not_found", "unsupported", "invalid_id",
     "missing_credentials", "canceled", "deadline", "failed"}
<1>1. /\ outcome' = Told
      /\ result.is \in Result \cup {"error"}
      /\ result.is = "error" => ctx # "live" \/ \E x \in Grounds : Rests(home, result, x)
      /\ ctx \in {"live", "canceled", "deadline"}
  BY DEF End, VerdictInv, ReturnInv, TypeInv
<1>2. CASE result.is = "error"
  <2>1. /\ outcome' = normalizeLiveError(result)
        /\ ctx = "live" /\ result.note # "timeout" => classifyFailure(result).kind = "failed"
    BY <1>1, <1>2 DEF Told, Rests
  <2> QED
    BY <1>1, <2>1 DEF normalizeLiveError, Verdict
<1>3. CASE result.is # "error"
  BY <1>1, <1>3 DEF Told, Verdict, Result
<1> QED
  BY <1>2, <1>3

LEMMA ReturnedIs == \A what : Returned(what).is = what
BY DEF Returned, Plain

LEMMA UnaskedIs == \A r : Unasked(r) \in Result /\ Unusable \in Result
BY DEF Unasked, Unusable, Result

LEMMA NextTried ==
    ASSUME TypeInv, VerdictInv, Tried, Held, Said, [LiveNext]_live
    PROVE  Tried' /\ Held' /\ Said'
<1>1. RequestInv
  BY DEF VerdictInv
<1>2. ASSUME phase' # "refresh", phase # "refresh", UNCHANGED walk, result'.is \in Result \cup {"error"}
      PROVE  Tried'
  BY <1>2 DEF Tried, walk
<1>3. ASSUME NEW r \in Read, StartRead(r) PROVE Tried' /\ Held' /\ Said'
  <2>1. FirstRequest(r.op) \in Asked
    BY DEF FirstRequest, Asked
  <2>2. result'.is \in Result \cup {"error"} /\ phase' # "refresh"
    BY <1>3, ReturnedIs, UnaskedIs DEF StartRead, Return, Result
  <2>3. 1 \in 1..(LegacyRetries + 1) /\ 1 \in 1..(Parents + 1) /\ 0 \in 0..MaxRefreshes
    BY LiveAssumption DEF LegacyRetries, MaxRefreshes
  <2>4. /\ asking' \in Asked /\ attempt' = 1 /\ refreshes' = 0 /\ parent' = 1
        /\ skipped' = NoError /\ heard' = {}
    BY <1>3, <2>1 DEF StartRead
  <2>5. Tried'
    BY <2>2, <2>3, <2>4 DEF Tried
  <2> QED
    BY <1>3, <2>5, SignInsAreAnswers DEF StartRead, Held, Said, fixed, services, Verdict
<1>4. CASE OpenSession
  <2>1. result'.is \in Result /\ phase' # "refresh"
    BY <1>4, ReturnedIs DEF OpenSession, Return, Result
  <2>2. Tried'
    BY <1>4, <2>1 DEF OpenSession, Tried
  <2> QED
    BY <1>4, <2>2, SignInsAreAnswers DEF OpenSession, Held, Said, fixed, services, Verdict
<1>5. CASE \E how \in {"canceled", "deadline"} : ContextEnds(how)
  BY <1>5 DEF ContextEnds, Tried, Held, Said, walk, fixed, services
<1>6. CASE UseSession
  <2>1. /\ result'.is \in Result \cup {"error"} /\ phase = "acquire" /\ phase' # "refresh"
        /\ UNCHANGED walk
    BY <1>6, ReturnedIs DEF UseSession, Return, Result, Plain, Tried
  <2>2. Tried'
    BY <1>2, <2>1
  <2> QED
    BY <1>6, <2>2 DEF UseSession, Held, Said, fixed, services
<1>7. CASE Acquire
  <2>1. /\ result'.is \in Result \cup {"error"} /\ phase = "acquire" /\ phase' # "refresh"
        /\ UNCHANGED walk
    BY <1>7, ReturnedIs, UnaskedIs DEF Acquire, Return, Ready, Tried
  <2>2. Tried'
    BY <1>2, <2>1
  <2>3. /\ UNCHANGED <<setup, outcome, last>> /\ session' \in {session, "open"}
        /\ signedIn' = signedIn \/ signedIn' = FALSE
        /\ held' \in {held, held + 1}
    BY <1>7 DEF Acquire, Ready, fixed, services
  <2>4. signedIn' \in BOOLEAN
    BY <2>3 DEF Held
  <2> QED
    BY <2>2, <2>3, <2>4 DEF Held, Said
<1>8. CASE SignIn
  <2>1. PICK x \in SignInAttempts :
           /\ Hear(x)
           /\ \/ Ready /\ held' = held + 1 /\ signedIn' = TRUE /\ UNCHANGED result
              \/ Return(SignInError(x)) /\ UNCHANGED services
    BY <1>8 DEF SignIn
  <2>2. phase = "signin" /\ UNCHANGED <<fixed, walk, outcome>>
    BY <1>8 DEF SignIn
  <2>3. last' \in Answer
    BY <2>1, SignInsAreAnswers, HearAnswer DEF Said
  <2>4. result'.is \in Result \cup {"error"} /\ phase' # "refresh"
    <3>1. SignInError(x) \in Error
      BY <2>1, SignInsAreAnswers, ErrorsAre
    <3> QED
      BY <1>8, <2>1, <3>1, ErrorsAre DEF SignIn, Ready, Return, Tried
  <2>5. Tried'
    BY <1>2, <2>2, <2>4
  <2>6. /\ session' \in {session, "open"}
        /\ signedIn' = signedIn \/ signedIn' = TRUE
        /\ held' \in {held, held + 1}
    BY <2>1 DEF Ready, services
  <2>7. signedIn' \in BOOLEAN
    BY <2>6 DEF Held
  <2> QED
    BY <2>2, <2>3, <2>5, <2>6, <2>7 DEF Held, Said, fixed
<1>9. CASE End
  <2>1. Tried'
    BY <1>9, LiveAssumption, ReturnedIs DEF End, Tried, LegacyRetries, MaxRefreshes, Result
  <2> QED
    BY <1>9, <2>1, EndSaid DEF End, Held, Said, fixed
<1>10. CASE CloseSession
  <2>1. /\ UNCHANGED <<setup, outcome, last, walk, phase, result>> /\ session' = "closed"
        /\ signedIn' = FALSE /\ held' = held - 1
    BY <1>10 DEF CloseSession, fixed
  <2>2. Tried'
    BY <2>1 DEF Tried, walk
  <2>3. signedIn' \in BOOLEAN
    BY <2>1
  <2> QED
    BY <2>1, <2>2, <2>3 DEF Held, Said
<1>11. CASE UNCHANGED live
  BY <1>11 DEF live, Tried, Held, Said, fixed, walk, services
<1> QED
  BY <1>1, <1>3, <1>4, <1>5, <1>6, <1>7, <1>8, <1>9, <1>10, <1>11, TryTried, LegacyTryTried, OtherTried
  DEF LiveNext, LiveStep, LiveFinished

(* Every variable of a read keeps its type.  For the numbers that is that  *)
(* no request has more than five tries, no try signs in more than once,    *)
(* and no location is searched that is not there (ExecuteRequest,          *)
(* GenericRequest, getZIASublocationByID).                                 *)
THEOREM ReadsAreBounded == LiveSpec => []LiveTypeOK
<1>1. LiveInit => Tried /\ Held /\ Said
  <2> SUFFICES ASSUME LiveInit PROVE Tried /\ Held /\ Said
    OBVIOUS
  <2>1. Tried
    BY LiveAssumption, ReturnedIs DEF LiveInit, Tried, Asked, LegacyRetries, MaxRefreshes, Result
  <2>2. signedIn \in BOOLEAN
    BY DEF LiveInit
  <2>3. Held
    BY <2>2 DEF LiveInit, Held
  <2>4. Said
    BY SignInsAreAnswers DEF LiveInit, Said, Verdict
  <2> QED
    BY <2>1, <2>3, <2>4
<1>2. LiveSpec => [](Tried /\ Held /\ Said)
  BY <1>1, NextTried, LiveInvCorrect, PTL DEF LiveSpec
<1>3. VerdictInv /\ TypeInv /\ Tried /\ Held /\ Said => LiveTypeOK
  <2> SUFFICES ASSUME VerdictInv, TypeInv, Tried, Held, Said PROVE LiveTypeOK
    OBVIOUS
  <2> QED
    BY DEF TypeInv, Tried, Held, Said, LiveTypeOK, Asked
<1> QED
  BY <1>2, <1>3, LiveInvCorrect, PTL

=============================================================================
