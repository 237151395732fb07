------------------------------- MODULE PageWalk -------------------------------
(***************************************************************************)
(* The page walkers of internal/zscaler: how a collection that the service *)
(* hands out a page at a time is read, and when a walker refuses what it   *)
(* read because it may not be the whole of it.                             *)
(*                                                                         *)
(* One walker reads one collection.  Beside it the tenant's administrators *)
(* add, remove and edit records between two requests, and the service may  *)
(* clamp the page size, ignore the page, cap the answer, and declare       *)
(* wrong totals or none.                                                   *)
(***************************************************************************)
EXTENDS Integers, Sequences, FiniteSets

CONSTANTS
    Name,         \* the records a tenant may hold
    Identified,   \* those whose JSON has an id
    None,
    PageSize,     \* the page size a walker asks for
    MaxPages,     \* ceiling on the pages of a walk (1000)
    MaxChanges    \* bound on the changes of the tenant during a walk

ASSUME WalkAssumption ==
    /\ Identified \subseteq Name
    /\ None \notin Name
    /\ PageSize \in Nat \ {0}
    /\ MaxPages \in Nat \ {0, 1}
    /\ MaxChanges \in Nat

Walkers == {"zia", "zcc", "zccTotal", "ztw", "zpa", "zidentity", "zdx", "single"}
ReadsMetadata == {"zccTotal", "zpa", "zidentity", "zdx"}
Record == Name \X {0, 1}   \* a name and what its other fields hold

VARIABLES
    tenant,       \* the collection: a sequence of records
    server,       \* how the service answers
    changes,      \* the number of changes made during the walk
    added,        \* the records that were added
    removed,      \* whether one was removed
    walker,
    want,         \* the record a point lookup looks for, or None
    page,         \* the page to be asked for
    all,          \* the records of the pages accepted so far
    first,        \* page 1
    seen,         \* the pages accepted so far
    declared,     \* the total, or the cursor, the service declared, or -1
    cursors,      \* the cursors received
    state

environment == <<tenant, server, changes, added, removed>>
vars == <<environment, walker, want, page, all, first, seen, declared, cursors, state>>

Least(a, b) == IF a < b THEN a ELSE b
Contents(s) == {s[i] : i \in DOMAIN s}
Names(s) == {s[i][1] : i \in DOMAIN s}
Backwards(s) == [i \in DOMAIN s |-> s[Len(s) + 1 - i]]

Over == {"complete", "found", "refused", "failed"}

TypeOK ==
    /\ tenant \in Seq(Record)
    /\ server.mode \in {"paged", "whole", "capped", "window"}
    /\ server.cap \in Nat \ {0}
    /\ server.totals \in {"true", "none", "wrong"}
    /\ changes \in 0..MaxChanges
    /\ added \subseteq Name
    /\ removed \in BOOLEAN
    /\ walker \in Walkers
    /\ want \in Name \cup {None}
    /\ page \in Nat \ {0}
    /\ all \in Seq(Record)
    /\ first \in Seq(Record)
    /\ seen \subseteq Seq(Record)
    /\ declared \in Int
    /\ cursors \subseteq Int
    /\ state \in {"reading", "probing"} \cup Over

-----------------------------------------------------------------------------
(* The service.                                                            *)

Width(size) == Least(size, server.cap)
Slice(from, count) == SubSeq(tenant, from + 1, Least(from + count, Len(tenant)))

(* The record a request starts at: Zidentity is asked for an offset, ZDX   *)
(* with the cursor it gave, the others for a page.                         *)
From == CASE walker = "zidentity" -> Len(all)
          [] walker = "zdx"       -> IF declared < 0 THEN 0 ELSE declared
          [] OTHER                -> (page - 1) * Width(PageSize)

(* The records of an answer: a page; all of them, in any order, whatever   *)
(* was asked; the first ones, as many as the size and a cap allow; or as   *)
(* many as the cap allows.                                                 *)
Rows(from, size) ==
    CASE server.mode = "paged"  -> {Slice(from, Width(size))}
      [] server.mode = "whole"  -> {tenant, Backwards(tenant)}
      [] server.mode = "capped" -> {Slice(0, Width(size))}
      [] server.mode = "window" -> {Slice(0, server.cap)}

Pages == (Len(tenant) + Width(PageSize) - 1) \div Width(PageSize)

(* The metadata beside them.  A ZPA answer with no usable totalPages       *)
(* fails the request; ZDX gives the cursor of the next page.               *)
Offset(rows) == IF walker = "zdx" THEN From + Len(rows) ELSE From

WrongTotals ==
    CASE walker = "zdx" -> {0}
      [] walker = "zpa" -> {0, 1, 2, MaxPages + 1}
      [] OTHER          -> {-1, 0, 1, Len(tenant)}

Metadata(rows) ==
    CASE server.totals = "true"  ->
           {[total |-> IF walker = "zpa" THEN Pages ELSE Len(tenant),
             next |-> From + Len(rows) < Len(tenant), offset |-> Offset(rows), size |-> Width(PageSize)]}
      [] server.totals = "none"  ->
           {[total |-> 0, next |-> From + Len(rows) < Len(tenant), offset |-> Offset(rows), size |-> 0]}
      [] server.totals = "wrong" ->
           [total : WrongTotals, next : BOOLEAN, offset : {Offset(rows), 0},
            size : IF walker = "zidentity" THEN {-1, 1, PageSize} ELSE {0}]

-----------------------------------------------------------------------------
(* The tenant changes between two requests.                                *)

Begun == page > 1 \/ state = "probing"

Changed ==
    /\ state \notin Over
    /\ Begun
    /\ changes < MaxChanges
    /\ changes' = changes + 1
    /\ UNCHANGED <<server, walker, want, page, all, first, seen, declared, cursors, state>>

Insert(name, at) ==
    /\ Changed
    /\ name \notin Names(tenant)
    /\ tenant' = SubSeq(tenant, 1, at) \o <<<<name, 0>>>> \o SubSeq(tenant, at + 1, Len(tenant))
    /\ added' = added \cup {name}
    /\ UNCHANGED removed

Remove(at) ==
    /\ Changed
    /\ tenant' = SubSeq(tenant, 1, at - 1) \o SubSeq(tenant, at + 1, Len(tenant))
    /\ removed' = TRUE
    /\ UNCHANGED added

Edit(at) ==
    /\ Changed
    /\ tenant' = [tenant EXCEPT ![at][2] = 1 - @]
    /\ UNCHANGED <<added, removed>>

-----------------------------------------------------------------------------
(* What all walkers share.                                                 *)

Finish(outcome) ==
    /\ state' = outcome
    /\ UNCHANGED <<environment, walker, want, page, first, seen, declared, cursors>>

(* A request fails: nothing of what was read is returned.                  *)
Fail == state \notin Over /\ Finish("failed") /\ UNCHANGED all

Refuse == Finish("refused") /\ UNCHANGED all

(* Mutant of AtCeiling: there is none.                                     *)
NoCeiling == FALSE

AtCeiling == page > MaxPages

TooManyPages == state = "reading" /\ AtCeiling /\ Refuse
Reading(w) == state = "reading" /\ walker = w /\ ~AtCeiling
Accept(rows) == all' = all \o rows
Complete(rows) == Accept(rows) /\ Finish("complete")

NextPage(rows, total) ==
    /\ Accept(rows)
    /\ page' = page + 1
    /\ first' = IF page = 1 THEN rows ELSE first
    /\ seen' = seen \cup {rows}
    /\ declared' = total
    /\ cursors' = IF walker = "zdx" THEN cursors \cup {total} ELSE cursors
    /\ UNCHANGED <<environment, walker, want, state>>

(* Records that carry an id already read, on this page or an earlier one.  *)
OnceEach(s) ==
    \A i \in 1..Len(s), j \in 1..Len(s) :
        i < j /\ s[i][1] \in Identified => s[i][1] # s[j][1]

Repeats(rows) == ~OnceEach(all \o rows)

SameRecords(rows, others) ==
    Len(rows) > 0 /\ Len(rows) = Len(others) /\ Contents(rows) = Contents(others)

-----------------------------------------------------------------------------
(* ZIA: no metadata.  A short first page does not prove completion, since  *)
(* the service may clamp the page size: the first page sets the width, and *)
(* a later shorter or empty page ends the walk.                            *)

ZIARepeatsFirst(rows) == page = 2 /\ Len(first) < PageSize /\ SameRecords(rows, first)

(* Mutant of ZIARefuses: records are not compared with those of earlier    *)
(* pages.                                                                  *)
ZIARefusesPagesOnly(rows) ==
    \/ page > 1 /\ Len(rows) > Len(first)
    \/ ~ZIARepeatsFirst(rows) /\ rows \in seen

(* Mutant of ZIARefuses: the first page is not excepted.                   *)
ZIARefusesEveryRepeat(rows) ==
    \/ page > 1 /\ Len(rows) > Len(first)
    \/ rows \in seen
    \/ Repeats(rows)

ZIARefuses(rows) ==
    \/ page > 1 /\ Len(rows) > Len(first)
    \/ ~ZIARepeatsFirst(rows) /\ (rows \in seen \/ Repeats(rows))

ZIAPage ==
    /\ Reading("zia")
    /\ \E rows \in Rows(From, PageSize) :
          \/ rows = <<>> /\ Complete(<<>>)
          \/ /\ rows # <<>>
             /\ ZIARefuses(rows)
             /\ Refuse
          \/ /\ rows # <<>>
             /\ ~ZIARefuses(rows)
             /\ ZIARepeatsFirst(rows)
             /\ IF Len(first) <= 1 THEN Complete(<<>>) ELSE
                   /\ state' = "probing"
                   /\ UNCHANGED <<environment, walker, want, page, all, first, seen, declared, cursors>>
          \/ /\ rows # <<>>
             /\ ~ZIARefuses(rows)
             /\ ~ZIARepeatsFirst(rows)
             /\ IF want \in Names(rows) THEN Accept(rows) /\ Finish("found")
                ELSE IF page > 1 /\ Len(rows) < Len(first) THEN Complete(rows)
                ELSE NextPage(rows, declared)

(* Mutant of ZIAProbe: a repeated first page is taken for all there is.    *)
ZIAProbeUnasked == state = "probing" /\ Complete(<<>>)

(* Page 2 repeated page 1: asked for one record less, a service that still *)
(* sends every record ignores the size too, and page 1 was all it has.     *)
ZIAProbe ==
    /\ state = "probing"
    /\ \E rows \in Rows(0, Len(first) - 1) :
          \/ SameRecords(rows, first) /\ Complete(<<>>)
          \/ ~SameRecords(rows, first) /\ Refuse

(* ZCC and ZTW: a page shorter than asked for ends the walk.               *)
ShortPage ==
    /\ Reading("zcc") \/ Reading("ztw")
    /\ \E rows \in Rows(From, PageSize) :
          IF Len(rows) < PageSize THEN Complete(rows) ELSE NextPage(rows, declared)

(* ZIA network applications: one request, refused if it came back full.    *)
SinglePage ==
    /\ Reading("single")
    /\ \E rows \in Rows(From, PageSize) :
          IF Len(rows) >= PageSize THEN Refuse ELSE Complete(rows)

(* ZCC with totalCount: the walk ends when as many records were read as    *)
(* every answer declared.                                                  *)
ZCCTotalRefuses(rows, m) ==
    \/ m.total < 0
    \/ declared >= 0 /\ m.total # declared
    \/ rows \in seen
    \/ Repeats(rows)
    \/ Len(all \o rows) > m.total
    \/ rows = <<>> /\ Len(all) < m.total

ZCCTotalPage ==
    /\ Reading("zccTotal")
    /\ \E rows \in Rows(From, PageSize) : \E m \in Metadata(rows) :
          \/ ZCCTotalRefuses(rows, m) /\ Refuse
          \/ /\ ~ZCCTotalRefuses(rows, m)
             /\ IF Len(all \o rows) = m.total THEN Complete(rows) ELSE NextPage(rows, m.total)

(* ZPA: as many pages are read as the first answer declared, and every     *)
(* later one must declare as many.                                         *)
ZPARefuses(rows, m) ==
    \/ page = 1 /\ m.total > MaxPages
    \/ page = 1 /\ m.total = 0 /\ rows # <<>>
    \/ page > 1 /\ m.total # declared
    \/ rows = <<>> /\ m.total > 1
    \/ m.total > 0 /\ rows \in seen

ZPAPage ==
    /\ Reading("zpa")
    /\ server.totals # "none"
    /\ \E rows \in Rows(From, PageSize) : \E m \in Metadata(rows) :
          \/ ZPARefuses(rows, m) /\ Refuse
          \/ /\ ~ZPARefuses(rows, m)
             /\ IF page >= m.total THEN Complete(rows) ELSE NextPage(rows, m.total)

(* Zidentity: the offset advances by the records received; the walk ends   *)
(* without a next link, when as many records were read as were declared,   *)
(* if a total was.                                                         *)
ZidentityTotal(m) == IF m.total > 0 THEN m.total ELSE declared

ZidentityRefuses(rows, m) ==
    LET read == Len(all) + Len(rows)
        total == ZidentityTotal(m)
    IN  \/ m.offset # Len(all) \/ m.total < 0 \/ m.size < 0
        \/ m.size > 0 /\ Len(rows) > m.size
        \/ rows \in seen
        \/ m.total > 0 /\ declared > 0 /\ m.total # declared
        \/ total > 0 /\ (read > total \/ (read = total /\ m.next) \/ (read < total /\ ~m.next))
        \/ rows = <<>> /\ m.next

ZidentityPage ==
    /\ Reading("zidentity")
    /\ \E rows \in Rows(From, PageSize) : \E m \in Metadata(rows) :
          \/ ZidentityRefuses(rows, m) /\ Refuse
          \/ /\ ~ZidentityRefuses(rows, m)
             /\ IF m.next THEN NextPage(rows, ZidentityTotal(m)) ELSE Complete(rows)

(* ZDX alerts: each answer gives the cursor of the next, or none.          *)
ZDXPage ==
    /\ Reading("zdx")
    /\ \E rows \in Rows(From, PageSize) : \E m \in Metadata(rows) :
          \/ m.next /\ m.offset \in cursors /\ Refuse
          \/ m.next /\ m.offset \notin cursors /\ NextPage(rows, m.offset)
          \/ ~m.next /\ Complete(rows)

-----------------------------------------------------------------------------

CONSTANTS
    Tenants, Caps,   \* the collections and the caps a walk may meet
    Lookups          \* the records looked for

ASSUME InputsAssumption ==
    /\ Tenants \subseteq Seq(Record)
    /\ \A t \in Tenants : \A i, j \in DOMAIN t : i # j => t[i][1] # t[j][1]
    /\ Caps \subseteq Nat \ {0}
    /\ Lookups \subseteq Name

Init ==
    /\ tenant \in Tenants
    /\ server \in [mode : {"paged", "whole", "capped", "window"}, cap : Caps,
                   totals : {"true", "none", "wrong"}]
    /\ changes = 0
    /\ added = {}
    /\ removed = FALSE
    /\ walker \in Walkers
    /\ walker \notin ReadsMetadata => server.totals = "none"
    /\ want \in Lookups \cup {None}
    /\ want # None => walker = "zia"
    /\ page = 1
    /\ all = <<>>
    /\ first = <<>>
    /\ seen = {}
    /\ declared = -1
    /\ cursors = {}
    /\ state = "reading"

(* The walk is over.                                                       *)
Finished == state \in Over /\ UNCHANGED vars

Next ==
    \/ \E name \in Name, at \in 0..Len(tenant) : Insert(name, at)
    \/ \E at \in 1..Len(tenant) : Remove(at) \/ Edit(at)
    \/ Fail
    \/ TooManyPages
    \/ ZIAPage
    \/ ZIAProbe
    \/ ShortPage
    \/ SinglePage
    \/ ZCCTotalPage
    \/ ZPAPage
    \/ ZidentityPage
    \/ ZDXPage
    \/ Finished

Spec == Init /\ [][Next]_vars

-----------------------------------------------------------------------------
(* Properties.                                                             *)

(* What a walker takes for granted of the service: that totals, where it   *)
(* looks at them, are true; that ZCC and ZTW, and the ZIA endpoint that is *)
(* read with one request, do not clamp the size; that no service sends the *)
(* same first records whatever it is asked, or one at a time; that ZDX     *)
(* honors its own cursors; and, if a service ignores the page, that the    *)
(* page it repeats is not edited meanwhile or holds ids the walker         *)
(* compares.                                                               *)
Trusted ==
    /\ server.totals # "wrong"
    /\ server.mode # "window"
    /\ walker \in {"zcc", "ztw", "single"} => server.cap >= PageSize
    /\ walker = "zia" => server.cap > 1
    /\ walker = "zdx" => server.mode # "capped"
    /\ server.mode = "capped" /\ changes > 0 =>
           walker \notin {"zpa", "zidentity"} /\ Names(tenant) \subseteq Identified

(* A list that is returned as complete, or a lookup that found nothing,    *)
(* has seen every record the tenant held when the walk began, whatever the *)
(* service clamps, ignores or caps, and even if records were added and     *)
(* edited meanwhile (ziaWalkPages, zpaPaginate, readAllZidentityPages and  *)
(* the others: completeness or an error).  Removals are excluded: they     *)
(* shift records from a page not yet read to one already read.             *)
NothingIsMissed ==
    state = "complete" /\ Trusted /\ ~removed =>
        Names(tenant) \ added \subseteq Names(all)

(* The walkers that compare identities never return one twice, whatever    *)
(* the tenant and the service do meanwhile (ziaWalkPages,                  *)
(* zccPaginateWithTotalCount).                                             *)
NoRecordTwice ==
    state \in {"complete", "found"} /\ walker \in {"zia", "zccTotal"} => OnceEach(all)

(* A walk that can succeed does: the collection of an honest service, of   *)
(* fewer pages than the ceiling and left alone during the walk, is never   *)
(* refused, and is returned record for record.                             *)
Honest ==
    /\ Trusted
    /\ server.totals = "none" => walker \notin {"zccTotal", "zpa"}
    /\ changes = 0
    /\ Len(tenant) < Width(PageSize) * MaxPages
    /\ walker = "single" => Len(tenant) < PageSize
    /\ \/ server.mode = "paged"
       \/ /\ server.mode = "whole"
          /\ walker \notin ReadsMetadata
          /\ Len(tenant) < PageSize

StillTenantsAreRead ==
    Honest =>
        /\ state # "refused"
        /\ state = "complete" => Len(all) = Len(tenant) /\ Contents(all) = Contents(tenant)

(* A walk ends after as many requests as the ceiling allows, whatever the  *)
(* service answers (ziaMaxPages, zccMaxPages, ztwMaxPages, zpaMaxPages,    *)
(* zidentityMaxPages).                                                     *)
RequestsAreBounded == page <= MaxPages + 1
=============================================================================
