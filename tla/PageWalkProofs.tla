---------------------------- MODULE PageWalkProofs ----------------------------
(***************************************************************************)
(* Theorems about the page walkers, for every page size, ceiling, cap and  *)
(* collection.                                                             *)
(***************************************************************************)
EXTENDS PageWalk, SequenceTheorems, TLAPS

(* What is read is a sequence of records, whatever the service does.       *)
LEMMA SlicesAreRecords ==
    ASSUME tenant \in Seq(Record), NEW from \in Nat, NEW count \in Nat
    PROVE  Slice(from, count) \in Seq(Record)
<1> DEFINE to == Least(from + count, Len(tenant))
<1>1. to \in Nat /\ to <= Len(tenant)
  BY DEF Least
<1>2. \A i \in from + 1..to : tenant[i] \in Record
  BY <1>1
<1> QED
  BY <1>1, <1>2, SubSeqProperties DEF Slice

LEMMA AnswersAreRecords ==
    ASSUME TypeOK, NEW from \in Nat, NEW size \in Nat, NEW rows \in Rows(from, size)
    PROVE  rows \in Seq(Record)
<1>1. Backwards(tenant) \in Seq(Record)
  <2>1. Len(tenant) \in Nat /\ DOMAIN tenant = 1..Len(tenant) /\ \A i \in 1..Len(tenant) : tenant[i] \in Record
    BY DEF TypeOK
  <2>2. \A i \in 1..Len(tenant) : Len(tenant) + 1 - i \in 1..Len(tenant)
    BY <2>1
  <2>3. Backwards(tenant) \in [1..Len(tenant) -> Record]
    BY <2>1, <2>2, Zenon DEF Backwards
  <2> QED
    BY <2>1, <2>3, SeqDef
<1>2. Width(size) \in Nat /\ server.cap \in Nat
  BY DEF Width, Least, TypeOK
<1>3. Slice(from, Width(size)) \in Seq(Record) /\ Slice(0, Width(size)) \in Seq(Record)
      /\ Slice(0, server.cap) \in Seq(Record)
  BY <1>2, SlicesAreRecords DEF TypeOK
<1> QED
  BY <1>1, <1>3 DEF Rows, TypeOK

LEMMA StartsAreNat == TypeOK => From \in Nat
<1> SUFFICES ASSUME TypeOK PROVE From \in Nat
  OBVIOUS
<1>1. Width(PageSize) \in Nat
  BY WalkAssumption DEF Width, Least, TypeOK
<1>2. \A x \in Nat, y \in Nat : x * y \in Nat
  BY SMT
<1>3. page - 1 \in Nat /\ Len(all) \in Nat /\ declared \in Int
  BY DEF TypeOK
<1> QED
  BY <1>1, <1>2, <1>3 DEF From

LEMMA MetadataTypes ==
    ASSUME TypeOK, NEW rows \in Seq(Record), NEW m \in Metadata(rows)
    PROVE  m.total \in Int /\ m.offset \in Int
<1>1. Width(PageSize) \in Nat \ {0}
  BY WalkAssumption DEF Width, Least, TypeOK
<1>2. Len(tenant) \in Nat
  BY DEF TypeOK
<1>3. Pages \in Int
  BY <1>1, <1>2 DEF Pages
<1>4. Offset(rows) \in Int
  BY StartsAreNat, LenProperties DEF Offset
<1> QED
  BY <1>2, <1>3, <1>4, WalkAssumption DEF Metadata, WrongTotals, TypeOK

LEMMA AcceptedAreRecords ==
    ASSUME TypeOK, NEW rows \in Seq(Record)
    PROVE  all \o rows \in Seq(Record) /\ Len(all \o rows) \in Nat
BY ConcatProperties DEF TypeOK

(* The pages of the walk at hand.                                          *)
LEMMA PagesAreRecords ==
    ASSUME TypeOK, NEW rows \in Rows(From, PageSize)
    PROVE  rows \in Seq(Record)
BY StartsAreNat, AnswersAreRecords, WalkAssumption

-----------------------------------------------------------------------------
(* Types.                                                                  *)

LEMMA InitTypes == Init => TypeOK
<1> SUFFICES ASSUME Init PROVE TypeOK
  OBVIOUS
<1>1. tenant \in Seq(Record)
  BY InputsAssumption DEF Init
<1>2. server.mode \in {"paged", "whole", "capped", "window"}
      /\ server.cap \in Nat \ {0} /\ server.totals \in {"true", "none", "wrong"}
  BY InputsAssumption DEF Init
<1>3. all \in Seq(Record) /\ first \in Seq(Record)
  BY EmptySeq DEF Init
<1>4. changes \in 0..MaxChanges
  BY WalkAssumption DEF Init
<1>5. want \in Name \cup {None}
  BY InputsAssumption DEF Init
<1>6. added \subseteq Name /\ removed \in BOOLEAN /\ seen \subseteq Seq(Record)
      /\ walker \in Walkers /\ state \in {"reading", "probing"} \cup Over
  BY Zenon DEF Init
<1>7. page \in Nat \ {0} /\ declared \in Int /\ cursors \subseteq Int
  BY DEF Init
<1> QED
  BY <1>1, <1>2, <1>3, <1>4, <1>5, <1>6, <1>7, Zenon DEF TypeOK

LEMMA NextPageTypes ==
    ASSUME TypeOK, NEW rows \in Seq(Record), NEW total \in Int, NextPage(rows, total)
    PROVE  TypeOK'
<1>1. all' \in Seq(Record) /\ first' \in Seq(Record) /\ seen' \subseteq Seq(Record)
  BY AcceptedAreRecords DEF NextPage, Accept, TypeOK
<1>2. page' \in Nat \ {0} /\ cursors' \subseteq Int
  BY DEF NextPage, TypeOK
<1> QED
  BY <1>1, <1>2 DEF NextPage, TypeOK, environment

LEMMA FinishTypes ==
    ASSUME TypeOK, NEW outcome \in Over, Finish(outcome), all' \in Seq(Record)
    PROVE  TypeOK'
BY DEF Finish, TypeOK, environment

LEMMA CompleteTypes ==
    ASSUME TypeOK, NEW rows \in Seq(Record), Complete(rows)
    PROVE  TypeOK'
BY AcceptedAreRecords, FinishTypes DEF Complete, Accept, Over

LEMMA RefuseTypes == TypeOK /\ Refuse => TypeOK'
BY FinishTypes DEF Refuse, Over, TypeOK

LEMMA ChangesKeepTypes ==
    ASSUME TypeOK, Changed, tenant' \in Seq(Record),
           added' \subseteq Name, removed' \in BOOLEAN
    PROVE  TypeOK'
<1>1. changes' \in 0..MaxChanges
  BY WalkAssumption DEF Changed, TypeOK
<1> QED
  BY <1>1, Zenon DEF Changed, TypeOK

LEMMA StepTypes == TypeOK /\ [Next]_vars => TypeOK'
<1> SUFFICES ASSUME TypeOK, [Next]_vars PROVE TypeOK'
  OBVIOUS
<1>1. ASSUME NEW name \in Name, NEW at \in 0..Len(tenant), Insert(name, at)
      PROVE  TypeOK'
  <2>1. SubSeq(tenant, 1, at) \in Seq(Record) /\ SubSeq(tenant, at + 1, Len(tenant)) \in Seq(Record)
    BY SubSeqProperties DEF TypeOK
  <2>2. <<<<name, 0>>>> \in Seq(Record)
    BY DEF Record
  <2>3. tenant' \in Seq(Record)
    BY <1>1, <2>1, <2>2, ConcatProperties DEF Insert
  <2> QED
    BY <1>1, <2>3, ChangesKeepTypes DEF Insert, TypeOK
<1>2. ASSUME NEW at \in 1..Len(tenant), Remove(at) PROVE TypeOK'
  <2>1. SubSeq(tenant, 1, at - 1) \in Seq(Record) /\ SubSeq(tenant, at + 1, Len(tenant)) \in Seq(Record)
    BY SubSeqProperties DEF TypeOK
  <2>2. tenant' \in Seq(Record)
    BY <1>2, <2>1, ConcatProperties DEF Remove
  <2> QED
    BY <1>2, <2>2, ChangesKeepTypes DEF Remove, TypeOK
<1>3. ASSUME NEW at \in 1..Len(tenant), Edit(at) PROVE TypeOK'
  <2>1. tenant[at] \in Record
    BY DEF TypeOK
  <2>2. [tenant[at] EXCEPT ![2] = 1 - @] \in Record
    BY <2>1 DEF Record
  <2>3. tenant' = [tenant EXCEPT ![at] = [tenant[at] EXCEPT ![2] = 1 - @]]
    BY <1>3 DEF Edit
  <2>4. tenant' \in Seq(Record)
    BY <2>2, <2>3, ExceptSeq DEF TypeOK
  <2> QED
    BY <1>3, <2>4, ChangesKeepTypes DEF Edit, TypeOK
<1>4. ASSUME Fail \/ TooManyPages PROVE TypeOK'
  BY <1>4, FinishTypes, RefuseTypes DEF Fail, TooManyPages, Over, TypeOK
<1>5. ASSUME ZIAPage PROVE TypeOK'
  <2>1. PICK rows \in Rows(From, PageSize) :
          \/ Complete(<<>>)
          \/ Refuse
          \/ state' = "probing"
             /\ UNCHANGED <<environment, walker, want, page, all, first, seen, declared, cursors>>
          \/ Accept(rows) /\ Finish("found")
          \/ Complete(rows)
          \/ NextPage(rows, declared)
    BY <1>5 DEF ZIAPage
  <2>2. rows \in Seq(Record) /\ <<>> \in Seq(Record)
    BY PagesAreRecords, EmptySeq
  <2>3. CASE Accept(rows) /\ Finish("found")
    BY <2>2, <2>3, AcceptedAreRecords, FinishTypes DEF Accept, Over
  <2>4. CASE state' = "probing" /\ UNCHANGED <<environment, walker, want, page, all, first, seen, declared, cursors>>
    BY <2>4 DEF TypeOK, environment
  <2>5. declared \in Int
    BY DEF TypeOK
  <2> QED
    BY <2>1, <2>2, <2>3, <2>4, <2>5, CompleteTypes, RefuseTypes, NextPageTypes
<1>6. ASSUME ZIAProbe PROVE TypeOK'
  BY <1>6, EmptySeq, CompleteTypes, RefuseTypes DEF ZIAProbe
<1>7. ASSUME ShortPage \/ SinglePage PROVE TypeOK'
  <2>1. PICK rows \in Rows(From, PageSize) : Refuse \/ Complete(rows) \/ NextPage(rows, declared)
    BY <1>7 DEF ShortPage, SinglePage
  <2>2. declared \in Int
    BY DEF TypeOK
  <2> QED
    BY <2>1, <2>2, PagesAreRecords, CompleteTypes, RefuseTypes, NextPageTypes
<1>8. ASSUME ZCCTotalPage \/ ZPAPage PROVE TypeOK'
  <2>0. PICK rows \in Rows(From, PageSize) : \E m \in Metadata(rows) :
          Refuse \/ Complete(rows) \/ NextPage(rows, m.total)
    BY <1>8 DEF ZCCTotalPage, ZPAPage
  <2>1. PICK m \in Metadata(rows) : Refuse \/ Complete(rows) \/ NextPage(rows, m.total)
    BY <2>0
  <2> QED
    BY <2>1, PagesAreRecords, MetadataTypes, CompleteTypes, RefuseTypes,
       NextPageTypes
<1>9. ASSUME ZidentityPage PROVE TypeOK'
  <2>0. PICK rows \in Rows(From, PageSize) : \E m \in Metadata(rows) :
          Refuse \/ Complete(rows) \/ NextPage(rows, ZidentityTotal(m))
    BY <1>9 DEF ZidentityPage
  <2>1. PICK m \in Metadata(rows) : Refuse \/ Complete(rows) \/ NextPage(rows, ZidentityTotal(m))
    BY <2>0
  <2>2. ZidentityTotal(m) \in Int
    BY PagesAreRecords, MetadataTypes DEF ZidentityTotal, TypeOK
  <2> QED
    BY <2>1, <2>2, PagesAreRecords, CompleteTypes, RefuseTypes, NextPageTypes
<1>10. ASSUME ZDXPage PROVE TypeOK'
  <2>1. PICK rows \in Rows(From, PageSize) : \E m \in Metadata(rows) :
          Refuse \/ Complete(rows) \/ NextPage(rows, m.offset)
    BY <1>10 DEF ZDXPage
  <2>2. PICK m \in Metadata(rows) : Refuse \/ Complete(rows) \/ NextPage(rows, m.offset)
    BY <2>1
  <2> QED
    BY <2>2, PagesAreRecords, MetadataTypes, CompleteTypes, RefuseTypes,
       NextPageTypes
<1>11. ASSUME UNCHANGED vars PROVE TypeOK'
  BY <1>11 DEF vars, environment, TypeOK
<1> QED
  BY <1>1, <1>2, <1>3, <1>4, <1>5, <1>6, <1>7, <1>8, <1>9, <1>10, <1>11 DEF
     Next, Finished

(* The state of a walk stays well formed, whatever the service answers and *)
(* the tenant does.                                                        *)
THEOREM WalkTypes == Spec => []TypeOK
<1> QED
  BY InitTypes, StepTypes, PTL DEF Spec

-----------------------------------------------------------------------------

(* No walker asks for more pages than its ceiling allows.                  *)
THEOREM WalksAreBounded == Spec => []RequestsAreBounded
<1>1. Init => RequestsAreBounded
  BY WalkAssumption DEF Init, RequestsAreBounded
<1>2. TypeOK /\ RequestsAreBounded /\ [Next]_vars => RequestsAreBounded'
  <2> SUFFICES ASSUME TypeOK, RequestsAreBounded, [Next]_vars PROVE RequestsAreBounded'
    OBVIOUS
  <2>1. UNCHANGED page \/ (~AtCeiling /\ page' = page + 1)
    <3>1. ASSUME NEW name \in Name, NEW at \in 0..Len(tenant), Insert(name, at) PROVE UNCHANGED page
      BY <3>1 DEF Insert, Changed
    <3>2. ASSUME NEW at \in 1..Len(tenant), Remove(at) \/ Edit(at) PROVE UNCHANGED page
      BY <3>2 DEF Remove, Edit, Changed
    <3>3. ASSUME Fail \/ TooManyPages \/ ZIAProbe PROVE UNCHANGED page
      BY <3>3 DEF Fail, TooManyPages, Refuse, ZIAProbe, Complete, Finish
    <3>4. ASSUME ZIAPage PROVE UNCHANGED page \/ (~AtCeiling /\ page' = page + 1)
      BY <3>4 DEF ZIAPage, Reading, Refuse, Complete, Finish, NextPage
    <3>5. ASSUME ShortPage \/ SinglePage PROVE UNCHANGED page \/ (~AtCeiling /\ page' = page + 1)
      BY <3>5 DEF ShortPage, SinglePage, Reading, Refuse, Complete, Finish,
         NextPage
    <3>6. ASSUME ZCCTotalPage \/ ZPAPage \/ ZidentityPage \/ ZDXPage
          PROVE  UNCHANGED page \/ (~AtCeiling /\ page' = page + 1)
      BY <3>6 DEF ZCCTotalPage, ZPAPage, ZidentityPage, ZDXPage, Reading,
         Refuse, Complete, Finish, NextPage
    <3>7. ASSUME UNCHANGED vars PROVE UNCHANGED page
      BY <3>7 DEF vars
    <3> QED
      BY <3>1, <3>2, <3>3, <3>4, <3>5, <3>6, <3>7 DEF Next, Finished
  <2> QED
    BY <2>1, WalkAssumption DEF RequestsAreBounded, AtCeiling, TypeOK
<1> QED
  BY <1>1, <1>2, WalkTypes, PTL DEF Spec

-----------------------------------------------------------------------------

(* What the walkers that compare identities have accepted so far: this is  *)
(* inductive, NoRecordTwice alone is not.                                  *)
AcceptedOnce == walker \in {"zia", "zccTotal"} => OnceEach(all)

LEMMA NothingAccepted ==
    ASSUME TypeOK, Accept(<<>>)
    PROVE  all' = all
BY ConcatEmptySeq DEF Accept, TypeOK

LEMMA OthersAcceptAnything ==
    ASSUME walker' = walker, walker \notin {"zia", "zccTotal"}
    PROVE  AcceptedOnce'
BY DEF AcceptedOnce

LEMMA AcceptedOnceIsKept ==
    ASSUME AcceptedOnce, walker' = walker, all' = all
    PROVE  AcceptedOnce'
BY DEF AcceptedOnce, OnceEach

LEMMA AcceptsOnce ==
    ASSUME NEW rows, ~Repeats(rows), Accept(rows)
    PROVE  AcceptedOnce'
BY DEF AcceptedOnce, Repeats, Accept, OnceEach

LEMMA StepAcceptsOnce == TypeOK /\ AcceptedOnce /\ [Next]_vars => AcceptedOnce'
<1> SUFFICES ASSUME TypeOK, AcceptedOnce, [Next]_vars PROVE AcceptedOnce'
  OBVIOUS
<1>1. ASSUME NEW name \in Name, NEW at \in 0..Len(tenant), Insert(name, at)
      PROVE  AcceptedOnce'
  BY <1>1, AcceptedOnceIsKept DEF Insert, Changed
<1>2. ASSUME NEW at \in 1..Len(tenant), Remove(at) \/ Edit(at)
      PROVE  AcceptedOnce'
  BY <1>2, AcceptedOnceIsKept DEF Remove, Edit, Changed
<1>3. ASSUME Fail \/ TooManyPages PROVE AcceptedOnce'
  BY <1>3, AcceptedOnceIsKept DEF Fail, TooManyPages, Refuse, Finish
<1>4. ASSUME ZIAPage PROVE AcceptedOnce'
  <2>1. PICK rows :
          \/ Complete(<<>>)
          \/ UNCHANGED <<walker, all>>
          \/ walker' = walker /\ ~ZIARefuses(rows) /\ ~ZIARepeatsFirst(rows) /\ Accept(rows)
    BY <1>4 DEF ZIAPage, Refuse, Complete, Finish, NextPage
  <2>2. CASE Complete(<<>>)
    BY <2>2, NothingAccepted, AcceptedOnceIsKept DEF Complete, Finish
  <2>3. CASE UNCHANGED <<walker, all>>
    BY <2>3, AcceptedOnceIsKept
  <2>4. CASE walker' = walker /\ ~ZIARefuses(rows) /\ ~ZIARepeatsFirst(rows) /\ Accept(rows)
    BY <2>4, AcceptsOnce DEF ZIARefuses
  <2> QED
    BY <2>1, <2>2, <2>3, <2>4
<1>5. ASSUME ZIAProbe PROVE AcceptedOnce'
  <2>1. Complete(<<>>) \/ Refuse
    BY <1>5 DEF ZIAProbe
  <2> QED
    BY <2>1, NothingAccepted, AcceptedOnceIsKept DEF Complete, Refuse, Finish
<1>6. ASSUME ZCCTotalPage PROVE AcceptedOnce'
  <2>1. PICK rows : Refuse \/ (walker' = walker /\ ~Repeats(rows) /\ Accept(rows))
    BY <1>6 DEF ZCCTotalPage, ZCCTotalRefuses, Complete, Finish, NextPage
  <2> QED
    BY <2>1, AcceptsOnce, AcceptedOnceIsKept DEF Refuse, Finish
<1>7. ASSUME ShortPage \/ SinglePage \/ ZPAPage \/ ZidentityPage \/ ZDXPage
      PROVE  AcceptedOnce'
  <2>1. walker' = walker
    BY <1>7 DEF ShortPage, SinglePage, ZPAPage, ZidentityPage, ZDXPage,
       Refuse, Complete, Finish, NextPage
  <2>2. walker \notin {"zia", "zccTotal"}
    BY <1>7 DEF ShortPage, SinglePage, ZPAPage, ZidentityPage, ZDXPage, Reading
  <2> QED
    BY <2>1, <2>2, OthersAcceptAnything
<1>8. ASSUME UNCHANGED vars PROVE AcceptedOnce'
  BY <1>8, AcceptedOnceIsKept DEF vars
<1> QED
  BY <1>1, <1>2, <1>3, <1>4, <1>5, <1>6, <1>7, <1>8 DEF Next, Finished

(* Whatever the service answers and the tenant does, a list read by a      *)
(* walker that compares identities never holds one of them twice.          *)
THEOREM RecordsAreReadOnce == Spec => []NoRecordTwice
<1>1. Init => AcceptedOnce
  BY DEF Init, AcceptedOnce, OnceEach
<1>2. AcceptedOnce => NoRecordTwice
  BY DEF AcceptedOnce, NoRecordTwice
<1> QED
  BY <1>1, <1>2, WalkTypes, StepAcceptsOnce, PTL DEF Spec

-----------------------------------------------------------------------------

(* The first n records of a collection t are in s, or were added.          *)
Covered(t, new, n, s) == \A i \in DOMAIN t : i <= n => t[i][1] \in new \cup Names(s)

AllCovered(s) == Covered(tenant, added, Len(tenant), s)

LEMMA NamesOfAccepted ==
    ASSUME NEW s \in Seq(Record), NEW rows \in Seq(Record)
    PROVE  Names(s) \subseteq Names(s \o rows) /\ Names(rows) \subseteq Names(s \o rows)
<1>1. /\ s \o rows \in Seq(Record) /\ Len(s \o rows) = Len(s) + Len(rows)
      /\ Len(s) \in Nat /\ Len(rows) \in Nat
      /\ DOMAIN s = 1..Len(s) /\ DOMAIN rows = 1..Len(rows)
      /\ DOMAIN (s \o rows) = 1..Len(s \o rows)
      /\ \A i \in 1..Len(s) + Len(rows) :
            (s \o rows)[i] = IF i <= Len(s) THEN s[i] ELSE rows[i - Len(s)]
  BY ConcatProperties, LenProperties
<1>2. ASSUME NEW i \in DOMAIN s PROVE s[i][1] \in Names(s \o rows)
  <2>1. i \in DOMAIN (s \o rows) /\ (s \o rows)[i] = s[i]
    BY <1>1
  <2> QED
    BY <2>1 DEF Names
<1>3. ASSUME NEW i \in DOMAIN rows PROVE rows[i][1] \in Names(s \o rows)
  <2>1. i + Len(s) \in DOMAIN (s \o rows) /\ (s \o rows)[i + Len(s)] = rows[i]
    BY <1>1
  <2> QED
    BY <2>1 DEF Names
<1> QED
  BY <1>2, <1>3 DEF Names

LEMMA LeastIs ==
    ASSUME NEW x \in Nat, NEW y \in Nat
    PROVE  /\ Least(x, y) \in Nat /\ Least(x, y) <= x /\ Least(x, y) <= y
           /\ x <= y => Least(x, y) = x
           /\ y <= x => Least(x, y) = y
BY DEF Least

(* What an answer holds of a collection t: the records from + 1 to         *)
(* from + count, as far as there are so many.                              *)
LEMMA SliceHolds ==
    ASSUME NEW t \in Seq(Record), NEW from \in Nat, NEW count \in Nat,
           NEW rows, rows = SubSeq(t, from + 1, Least(from + count, Len(t)))
    PROVE  /\ rows \in Seq(Record)
           /\ Len(rows) \in Nat /\ Len(rows) <= count
           /\ Len(rows) < count => Len(t) <= from + Len(rows)
           /\ \A i \in DOMAIN t : from < i /\ i <= from + count => t[i][1] \in Names(rows)
<1>0. Len(t) \in Nat /\ DOMAIN t = 1..Len(t) /\ \A i \in 1..Len(t) : t[i] \in Record
  BY LenProperties, ElementOfSeq
<1>1. PICK to \in Nat : /\ to = Least(from + count, Len(t))
                        /\ to <= Len(t) /\ to <= from + count
                        /\ from + count <= Len(t) => to = from + count
                        /\ Len(t) <= from + count => to = Len(t)
  <2>1. from + count \in Nat
    OBVIOUS
  <2>2. LET to == Least(from + count, Len(t))
        IN  /\ to \in Nat /\ to <= from + count /\ to <= Len(t)
            /\ from + count <= Len(t) => to = from + count
            /\ Len(t) <= from + count => to = Len(t)
    BY <1>0, <2>1, LeastIs
  <2> QED
    BY <2>2
<1>2. \A i \in from + 1..to : t[i] \in Record
  BY <1>0, <1>1
<1>3. /\ rows \in Seq(Record)
      /\ Len(rows) = IF from + 1 <= to THEN to - from ELSE 0
      /\ \A i \in 1..to - from : rows[i] = t[from + i]
  <2>1. PICK start \in Nat : start = from + 1 /\ start - 1 = from
    OBVIOUS
  <2>2. rows = SubSeq(t, start, to) /\ \A i \in start..to : t[i] \in Record
    BY <1>1, <1>2, <2>1
  <2>3. /\ rows \in Seq(Record)
        /\ Len(rows) = IF start <= to THEN to - start + 1 ELSE 0
        /\ \A i \in 1..to - start + 1 : rows[i] = t[start + i - 1]
    <3>1. /\ SubSeq(t, start, to) \in Seq(Record)
          /\ Len(SubSeq(t, start, to)) = IF start <= to THEN to - start + 1 ELSE 0
          /\ \A i \in 1..to - start + 1 : SubSeq(t, start, to)[i] = t[start + i - 1]
      BY <2>2, SubSeqProperties
    <3> QED
      BY <2>2, <3>1, Zenon
  <2>4. to - start + 1 = to - from /\ \A i \in Nat : start + i - 1 = from + i
    BY <2>1
  <2> QED
    BY <2>1, <2>3, <2>4
<1>4. DOMAIN rows = 1..Len(rows)
  BY <1>3, LenProperties
<1>5. ASSUME NEW i \in DOMAIN t, from < i, i <= from + count
      PROVE  t[i][1] \in Names(rows)
  <2>0. i \in Nat /\ i <= to
    BY <1>0, <1>1, <1>5
  <2>1. i - from \in 1..to - from /\ from + (i - from) = i /\ i - from \in 1..Len(rows)
    BY <1>1, <1>3, <1>5, <2>0
  <2>2. rows[i - from] = t[i]
    BY <1>3, <2>1
  <2> QED
    BY <1>4, <2>1, <2>2 DEF Names
<1>6. Len(rows) \in Nat /\ Len(rows) <= count /\ (Len(rows) < count => Len(t) <= from + Len(rows))
  BY <1>0, <1>1, <1>3
<1> QED
  BY <1>3, <1>5, <1>6

LEMMA FirstHolds ==
    ASSUME NEW t \in Seq(Record), NEW count \in Nat,
           NEW rows, rows = SubSeq(t, 1, Least(count, Len(t)))
    PROVE  /\ Len(rows) = Least(count, Len(t)) /\ Len(rows) <= count
           /\ \A i \in 1..Len(rows) : rows[i] = t[i]
<1>1. Len(t) \in Nat /\ \A i \in 1..Len(t) : t[i] \in Record
  BY LenProperties, ElementOfSeq
<1>2. PICK to \in Nat : to = Least(count, Len(t)) /\ to <= count /\ to <= Len(t)
  BY <1>1, LeastIs
<1>3. \A i \in 1..to : t[i] \in Record
  BY <1>1, <1>2
<1>4. /\ Len(rows) = IF 1 <= to THEN to ELSE 0
      /\ \A i \in 1..to : rows[i] = t[i]
  BY <1>2, <1>3, SubSeqProperties
<1>5. Len(rows) = to
  BY <1>2, <1>4
<1> QED
  BY <1>2, <1>4, <1>5

LEMMA CoversMore ==
    ASSUME NEW t \in Seq(Record), NEW new, NEW n \in Nat, NEW m \in Nat,
           NEW s \in Seq(Record), NEW rows \in Seq(Record), Covered(t, new, n, s),
           \A i \in DOMAIN t : n < i /\ i <= m => t[i][1] \in Names(rows)
    PROVE  Covered(t, new, m, s \o rows)
<1> SUFFICES ASSUME NEW i \in DOMAIN t, i <= m PROVE t[i][1] \in new \cup Names(s \o rows)
  BY DEF Covered
<1>1. i \in Nat
  BY LenProperties
<1>2. CASE i <= n
  BY <1>2, NamesOfAccepted DEF Covered
<1>3. CASE n < i
  BY <1>3, NamesOfAccepted
<1> QED
  BY <1>1, <1>2, <1>3

LEMMA CoversAlways ==
    ASSUME NEW t \in Seq(Record), NEW new, NEW n \in Nat,
           NEW s \in Seq(Record), NEW rows \in Seq(Record), Covered(t, new, n, s)
    PROVE  Covered(t, new, n, s \o rows)
BY NamesOfAccepted DEF Covered

LEMMA CoversLess ==
    ASSUME NEW t \in Seq(Record), NEW new, NEW n \in Nat, NEW m \in Nat, NEW s,
           Covered(t, new, n, s), m <= n \/ Len(t) <= n
    PROVE  Covered(t, new, m, s)
<1> SUFFICES ASSUME NEW i \in DOMAIN t, i <= m PROVE t[i][1] \in new \cup Names(s)
  BY DEF Covered
<1>1. i \in Nat /\ i <= Len(t) /\ Len(t) \in Nat
  BY LenProperties
<1>2. i <= n
  BY <1>1
<1> QED
  BY <1>2 DEF Covered

(* A page of the collection after what is covered.                         *)
LEMMA CoversPage ==
    ASSUME NEW t \in Seq(Record), NEW new, NEW from \in Nat, NEW count \in Nat, NEW s \in Seq(Record),
           NEW rows, rows = SubSeq(t, from + 1, Least(from + count, Len(t))),
           Covered(t, new, from, s)
    PROVE  /\ Covered(t, new, from + count, s \o rows)
           /\ Len(rows) < count => Covered(t, new, Len(t), s \o rows)
           /\ Len(t) <= from + count => Covered(t, new, Len(t), s \o rows)
<1>1. /\ rows \in Seq(Record) /\ Len(rows) \in Nat /\ Len(t) \in Nat
      /\ Len(rows) < count => Len(t) <= from + Len(rows)
      /\ \A i \in DOMAIN t : from < i /\ i <= from + count => t[i][1] \in Names(rows)
  BY SliceHolds, LenProperties
<1>2. from + count \in Nat
  OBVIOUS
<1>3. Covered(t, new, from + count, s \o rows)
  BY <1>1, <1>2, CoversMore
<1>4. Len(t) <= from + count => Covered(t, new, Len(t), s \o rows)
  BY <1>1, <1>2, <1>3, CoversLess
<1> QED
  BY <1>1, <1>3, <1>4

(* All of it, in whatever order.                                           *)
LEMMA CoversWhole ==
    ASSUME NEW t \in Seq(Record), NEW new, NEW s \in Seq(Record), NEW rows \in Seq(Record),
           rows = t \/ rows = Backwards(t)
    PROVE  Covered(t, new, Len(t), s \o rows)
<1>1. Len(t) \in Nat /\ DOMAIN t = 1..Len(t)
  BY LenProperties
<1>2. ASSUME NEW i \in DOMAIN t PROVE t[i][1] \in Names(rows)
  <2>1. CASE rows = t
    BY <2>1 DEF Names
  <2>2. CASE rows = Backwards(t)
    <3>1. Len(t) + 1 - i \in DOMAIN rows /\ rows[Len(t) + 1 - i] = t[i]
      BY <1>1, <2>2 DEF Backwards
    <3> QED
      BY <3>1 DEF Names
  <2> QED
    BY <2>1, <2>2
<1> QED
  BY <1>2, NamesOfAccepted DEF Covered


(* The tenant's administrators add a record, or change one.                *)
Inserted(t, at, name) == SubSeq(t, 1, at) \o <<<<name, 0>>>> \o SubSeq(t, at + 1, Len(t))

LEMMA InsertIs ==
    ASSUME NEW t \in Seq(Record), NEW at \in 0..Len(t), NEW name \in Name, NEW more,
           more = Inserted(t, at, name)
    PROVE  /\ more \in Seq(Record) /\ Len(more) = Len(t) + 1 /\ DOMAIN more = 1..Len(t) + 1
           /\ \A i \in 1..at : more[i] = t[i]
           /\ more[at + 1] = <<name, 0>>
           /\ \A i \in at + 2..Len(t) + 1 : more[i] = t[i - 1]
           /\ Names(t) \subseteq Names(more)
<1>0. Len(t) \in Nat /\ at \in Nat /\ DOMAIN t = 1..Len(t) /\ \A i \in 1..Len(t) : t[i] \in Record
  BY LenProperties, ElementOfSeq
<1>a. Len(t) \in Nat /\ at \in Nat /\ at <= Len(t)
  BY <1>0
<1>1. /\ SubSeq(t, 1, at) \in Seq(Record) /\ Len(SubSeq(t, 1, at)) = at
      /\ \A i \in 1..at : SubSeq(t, 1, at)[i] = t[i]
  BY <1>0, SubSeqProperties
<1>2. /\ SubSeq(t, at + 1, Len(t)) \in Seq(Record) /\ Len(SubSeq(t, at + 1, Len(t))) = Len(t) - at
      /\ \A i \in 1..Len(t) - at : SubSeq(t, at + 1, Len(t))[i] = t[at + i]
  <2>1. at + 1 \in Nat /\ \A i \in at + 1..Len(t) : t[i] \in Record
    BY <1>0
  <2>2. /\ SubSeq(t, at + 1, Len(t)) \in Seq(Record)
        /\ Len(SubSeq(t, at + 1, Len(t))) = IF at + 1 <= Len(t) THEN Len(t) - (at + 1) + 1 ELSE 0
        /\ \A i \in 1..Len(t) - (at + 1) + 1 : SubSeq(t, at + 1, Len(t))[i] = t[at + 1 + i - 1]
    BY <1>0, <2>1, SubSeqProperties
  <2>3. Len(t) - (at + 1) + 1 = Len(t) - at /\ \A i \in 1..Len(t) - at : at + 1 + i - 1 = at + i
    BY <1>0
  <2>4. ASSUME NEW i \in 1..Len(t) - at PROVE SubSeq(t, at + 1, Len(t))[i] = t[at + i]
    <3>1. i \in 1..Len(t) - (at + 1) + 1
      BY <2>3
    <3> QED
      BY <2>2, <2>3, <3>1
  <2>5. Len(SubSeq(t, at + 1, Len(t))) = Len(t) - at
    <3>1. at = Len(t) \/ at + 1 <= Len(t)
      BY <1>a
    <3>2. at = Len(t) => ~(at + 1 <= Len(t)) /\ Len(t) - at = 0
      BY <1>a
    <3> QED
      BY <2>2, <2>3, <3>1, <3>2
  <2> QED
    BY <2>2, <2>4, <2>5
<1>3. <<<<name, 0>>>> \in Seq(Record) /\ Len(<<<<name, 0>>>>) = 1
  BY DEF Record
<1>4. /\ more \in Seq(Record) /\ Len(more) = Len(t) + 1 /\ DOMAIN more = 1..Len(t) + 1
      /\ \A i \in 1..at : more[i] = t[i]
      /\ more[at + 1] = <<name, 0>>
      /\ \A i \in at + 2..Len(t) + 1 : more[i] = t[i - 1]
  <2>0. PICK u \in Seq(Record), v \in Seq(Record), w \in Seq(Record) :
          /\ u = SubSeq(t, 1, at) /\ v = SubSeq(t, at + 1, Len(t)) /\ w = u \o <<<<name, 0>>>>
    BY <1>1, <1>2, <1>3, ConcatProperties
  <2>1. /\ w \in Seq(Record) /\ Len(w) = at + 1
        /\ \A i \in 1..at : w[i] = t[i]
        /\ w[at + 1] = <<name, 0>>
    <3>1. /\ w \in Seq(Record) /\ Len(w) = Len(u) + 1
          /\ \A i \in 1..Len(u) + 1 : w[i] = IF i <= Len(u) THEN u[i] ELSE <<<<name, 0>>>>[i - Len(u)]
      BY <1>1, <1>3, <2>0, ConcatProperties
    <3>2. Len(u) = at /\ \A i \in 1..at : u[i] = t[i]
      BY <1>1, <2>0
    <3>3. w[at + 1] = <<<<name, 0>>>>[1]
      BY <1>0, <3>1, <3>2
    <3> QED
      BY <1>0, <3>1, <3>2, <3>3
  <2>2. more = w \o v
    BY <2>0 DEF Inserted
  <2>3. Len(v) = Len(t) - at /\ \A i \in 1..Len(t) - at : v[i] = t[at + i]
    BY <1>2, <2>0
  <2>4. /\ more \in Seq(Record) /\ Len(more) = Len(w) + Len(v)
        /\ \A i \in 1..Len(w) + Len(v) : more[i] = IF i <= Len(w) THEN w[i] ELSE v[i - Len(w)]
    <3>1. /\ w \o v \in Seq(Record) /\ Len(w \o v) = Len(w) + Len(v)
          /\ \A i \in 1..Len(w) + Len(v) : (w \o v)[i] = IF i <= Len(w) THEN w[i] ELSE v[i - Len(w)]
      BY ConcatProperties
    <3> QED
      BY <2>2, <3>1, Zenon
  <2>5. Len(more) = Len(t) + 1
    <3>1. Len(more) = (at + 1) + (Len(t) - at)
      BY <2>1, <2>3, <2>4
    <3>2. \A x \in Nat, y \in Nat : (y + 1) + (x - y) = x + 1
      OBVIOUS
    <3>3. (at + 1) + (Len(t) - at) = Len(t) + 1
      BY <1>a, <3>2
    <3> QED
      BY <3>1, <3>3, Zenon
  <2>6. DOMAIN more = 1..Len(t) + 1
    BY <2>4, <2>5, LenProperties
  <2>7. ASSUME NEW i \in at + 2..Len(t) + 1 PROVE more[i] = t[i - 1]
    <3>0. i \in 1..Len(w) + Len(v) /\ i > Len(w) /\ i - Len(w) = i - (at + 1) /\ i - (at + 1) \in 1..Len(t) - at
      BY <1>0, <2>1, <2>3
    <3>1. more[i] = v[i - (at + 1)]
      <4>1. ~(i <= Len(w))
        BY <1>0, <2>1, <3>0
      <4>2. more[i] = v[i - Len(w)]
        BY <2>4, <3>0, <4>1
      <4> QED
        BY <3>0, <4>2
    <3>2. at + (i - (at + 1)) = i - 1
      BY <1>0
    <3> QED
      BY <2>3, <3>0, <3>1, <3>2
  <2>8. ASSUME NEW i \in 1..at + 1 PROVE more[i] = w[i]
    <3>1. i \in 1..Len(w) + Len(v) /\ i <= Len(w)
      BY <1>0, <2>1, <2>3
    <3> QED
      BY <2>4, <3>1
  <2>9. more[at + 1] = <<name, 0>> /\ \A i \in 1..at : more[i] = t[i]
    <3>1. at + 1 \in 1..at + 1 /\ \A i \in 1..at : i \in 1..at + 1
      BY <1>0
    <3> QED
      BY <2>1, <2>8, <3>1
  <2> QED
    BY <2>4, <2>5, <2>6, <2>7, <2>9
<1>5. ASSUME NEW i \in DOMAIN t PROVE t[i][1] \in Names(more)
  <2>1. CASE i \in 1..at
    <3>1. i \in 1..Len(t) + 1
      BY <1>a, <2>1
    <3>2. i \in DOMAIN more /\ more[i] = t[i]
      BY <1>4, <2>1, <3>1
    <3> QED
      BY <3>2 DEF Names
  <2>2. CASE i \notin 1..at
    <3>1. i + 1 \in at + 2..Len(t) + 1 /\ i + 1 \in 1..Len(t) + 1 /\ i + 1 - 1 = i
      <4>1. i \in Nat /\ i <= Len(t) /\ i > at
        BY <1>0, <2>2
      <4> QED
        BY <1>a, <4>1
    <3>2. PICK j \in 1..Len(t) + 1 : j \in at + 2..Len(t) + 1 /\ j - 1 = i
      BY <3>1
    <3>3. j \in DOMAIN more /\ more[j] = t[i]
      BY <1>4, <3>2
    <3> QED
      BY <3>3 DEF Names
  <2> QED
    BY <2>1, <2>2
<1>6. Names(t) \subseteq Names(more)
  BY <1>5 DEF Names
<1> QED
  BY <1>4, <1>6

LEMMA InsertCovers ==
    ASSUME NEW t \in Seq(Record), NEW new, NEW n \in Nat, NEW s, NEW at \in 0..Len(t),
           NEW name \in Name, NEW more,
           more = Inserted(t, at, name), Covered(t, new, n, s)
    PROVE  /\ Covered(more, new \cup {name}, n, s)
           /\ Len(t) <= n => Covered(more, new \cup {name}, Len(more), s)
<1>0. Len(t) \in Nat /\ at \in Nat /\ at <= Len(t) /\ DOMAIN t = 1..Len(t)
  BY LenProperties
<1>1. /\ more \in Seq(Record) /\ Len(more) = Len(t) + 1 /\ DOMAIN more = 1..Len(t) + 1
      /\ \A i \in 1..at : more[i] = t[i]
      /\ more[at + 1] = <<name, 0>>
      /\ \A i \in at + 2..Len(t) + 1 : more[i] = t[i - 1]
  BY InsertIs
<1>2. ASSUME NEW i \in DOMAIN more, i <= n \/ Len(t) <= n
      PROVE  more[i][1] \in new \cup {name} \cup Names(s)
  <2>1. CASE i \in 1..at
    <3>1. i \in DOMAIN t /\ i <= n
      BY <1>0, <1>2, <2>1
    <3> QED
      BY <1>1, <2>1, <3>1 DEF Covered
  <2>2. CASE i = at + 1
    BY <1>1, <2>2
  <2>3. CASE i \in at + 2..Len(t) + 1
    <3>1. i - 1 \in DOMAIN t /\ i - 1 <= n
      BY <1>0, <1>2, <2>3
    <3> QED
      BY <1>1, <2>3, <3>1 DEF Covered
  <2>4. i \in 1..at \/ i = at + 1 \/ i \in at + 2..Len(t) + 1
    <3>1. i \in 1..Len(t) + 1
      BY <1>1
    <3> QED
      BY <1>0, <3>1
  <2> QED
    BY <2>1, <2>2, <2>3, <2>4
<1> QED
  BY <1>0, <1>1, <1>2 DEF Covered

LEMMA EditKeeps ==
    ASSUME NEW t \in Seq(Record), NEW at \in 1..Len(t), NEW other,
           other = [t EXCEPT ![at][2] = 1 - @]
    PROVE  /\ other \in Seq(Record) /\ Len(other) = Len(t) /\ DOMAIN other = DOMAIN t
           /\ \A i \in DOMAIN t : other[i][1] = t[i][1]
<1>0. DOMAIN t = 1..Len(t) /\ Len(t) \in Nat
  BY LenProperties
<1>1. t[at] \in Record
  BY ElementOfSeq
<1>2. [t[at] EXCEPT ![2] = 1 - @] \in Record /\ [t[at] EXCEPT ![2] = 1 - @][1] = t[at][1]
  BY <1>1 DEF Record
<1>3. other = [t EXCEPT ![at] = [t[at] EXCEPT ![2] = 1 - @]]
  OBVIOUS
<1>4. other \in Seq(Record) /\ Len(other) = Len(t) /\ DOMAIN other = DOMAIN t
  BY <1>0, <1>2, <1>3, ExceptSeq, LenProperties
<1> QED
  BY <1>0, <1>2, <1>3, <1>4

-----------------------------------------------------------------------------

(* What a walk that goes on has seen: everything, if the service ignores   *)
(* the page; the records before the one it will ask for, if it honors it;  *)
(* and of a service that caps, nothing but its first page, by which it is  *)
(* recognised.                                                             *)
Walking ==
    /\ page = 1 => all = <<>>
    /\ state = "probing" => page > 1
    /\ server.mode = "whole" /\ page > 1 => AllCovered(all)
    /\ server.mode = "paged" => Covered(tenant, added, From, all)
    /\ server.mode = "paged" /\ walker = "zccTotal" => Len(all) <= From
    /\ server.mode \in {"paged", "capped"} /\ walker = "zia" /\ page > 1 =>
          Len(first) <= Width(PageSize) /\ (Len(first) < Width(PageSize) => AllCovered(all))
    /\ server.mode = "capped" /\ walker = "zccTotal" /\ page > 1 =>
          /\ Len(all) > 0 /\ Len(tenant) > 0 /\ declared >= 0 /\ declared <= Len(tenant)
          /\ declared = Len(tenant) => tenant[1][1] = all[1][1]
    /\ server.mode = "capped" /\ walker \in {"zccTotal", "zpa", "zidentity"} /\ page > 1 /\ changes = 0 =>
          Slice(0, Width(PageSize)) \in seen

CoverInv ==
    Trusted /\ ~removed =>
        /\ state \notin Over => Walking
        /\ state = "complete" => AllCovered(all)

LEMMA WidthIs ==
    ASSUME TypeOK
    PROVE  /\ Width(PageSize) \in Nat /\ Width(PageSize) > 0
           /\ Width(PageSize) <= PageSize /\ Width(PageSize) <= server.cap
           /\ server.cap >= PageSize => Width(PageSize) = PageSize
           /\ server.cap > 1 /\ PageSize > 1 => Width(PageSize) > 1
<1>1. PageSize \in Nat /\ PageSize > 0 /\ server.cap \in Nat /\ server.cap > 0
  BY WalkAssumption DEF TypeOK
<1> QED
  BY <1>1 DEF Width, Least

(* What an answer adds to what was read before it.                         *)
LEMMA AnswerCovers ==
    ASSUME TypeOK, Walking, NEW rows \in Rows(From, PageSize)
    PROVE  /\ rows \in Seq(Record) /\ Len(rows) \in Nat
           /\ server.mode = "whole" => Covered(tenant, added, Len(tenant), all \o rows)
           /\ server.mode \in {"paged", "capped"} =>
                 /\ Len(rows) <= Width(PageSize)
                 /\ Len(rows) < Width(PageSize) => Covered(tenant, added, Len(tenant), all \o rows)
           /\ server.mode = "paged" =>
                 /\ Covered(tenant, added, From + Width(PageSize), all \o rows)
                 /\ Len(tenant) <= From + Width(PageSize) => Covered(tenant, added, Len(tenant), all \o rows)
           /\ server.mode = "capped" =>
                 /\ rows = Slice(0, Width(PageSize))
                 /\ Len(rows) = Least(Width(PageSize), Len(tenant))
                 /\ Len(tenant) <= Width(PageSize) => Covered(tenant, added, Len(tenant), all \o rows)
                 /\ \A i \in 1..Len(rows) : rows[i] = tenant[i]
<1>1. rows \in Seq(Record) /\ Len(rows) \in Nat
  BY PagesAreRecords, LenProperties
<1>2. tenant \in Seq(Record) /\ all \in Seq(Record) /\ Len(tenant) \in Nat
  BY LenProperties DEF TypeOK
<1>3. Width(PageSize) \in Nat /\ Width(PageSize) > 0
  BY WidthIs
<1>4. From \in Nat
  BY StartsAreNat
<1>5. CASE server.mode = "whole"
  <2>1. rows = tenant \/ rows = Backwards(tenant)
    BY <1>5 DEF Rows
  <2>2. Covered(tenant, added, Len(tenant), all \o rows)
    BY <1>1, <1>2, <2>1, CoversWhole
  <2> QED
    BY <1>1, <1>5, <2>2
<1>6. CASE server.mode = "paged"
  <2>1. rows = SubSeq(tenant, From + 1, Least(From + Width(PageSize), Len(tenant)))
    BY <1>6 DEF Rows, Slice
  <2>2. Covered(tenant, added, From, all)
    BY <1>6 DEF Walking
  <2>3. /\ Covered(tenant, added, From + Width(PageSize), all \o rows)
        /\ Len(rows) < Width(PageSize) => Covered(tenant, added, Len(tenant), all \o rows)
        /\ Len(tenant) <= From + Width(PageSize) => Covered(tenant, added, Len(tenant), all \o rows)
    BY <1>2, <1>3, <1>4, <2>1, <2>2, CoversPage
  <2>4. Len(rows) <= Width(PageSize)
    BY <1>2, <1>3, <1>4, <2>1, SliceHolds
  <2> QED
    BY <1>1, <1>6, <2>3, <2>4
<1>7. CASE server.mode = "capped"
  <2>0. rows = Slice(0, Width(PageSize))
    BY <1>7 DEF Rows
  <2>1. rows = SubSeq(tenant, 0 + 1, Least(0 + Width(PageSize), Len(tenant)))
    BY <2>0 DEF Slice
  <2>2. Covered(tenant, added, 0, all)
    BY <1>2, LenProperties DEF Covered
  <2>3. /\ Len(rows) < Width(PageSize) => Covered(tenant, added, Len(tenant), all \o rows)
        /\ Len(tenant) <= 0 + Width(PageSize) => Covered(tenant, added, Len(tenant), all \o rows)
    BY <1>2, <1>3, <2>1, <2>2, CoversPage
  <2>4. /\ Len(rows) <= Width(PageSize) /\ Len(rows) = Least(Width(PageSize), Len(tenant))
        /\ \A i \in 1..Len(rows) : rows[i] = tenant[i]
    <3>1. rows = SubSeq(tenant, 1, Least(Width(PageSize), Len(tenant)))
      <4>1. 0 + 1 = 1 /\ 0 + Width(PageSize) = Width(PageSize)
        BY <1>3
      <4> QED
        BY <2>1, <4>1
    <3> QED
      BY <1>2, <1>3, <3>1, FirstHolds
  <2>6. Len(tenant) <= Width(PageSize) => Covered(tenant, added, Len(tenant), all \o rows)
    BY <1>3, <2>3
  <2> QED
    BY <1>1, <1>7, <2>0, <2>3, <2>4, <2>6
<1>8. CASE server.mode = "window"
  BY <1>1, <1>8
<1> QED
  BY <1>5, <1>6, <1>7, <1>8 DEF TypeOK

(* A walk that is over has nothing to promise unless it is complete.       *)
LEMMA EndsCover ==
    ASSUME NEW outcome \in {"found", "refused", "failed"}, Finish(outcome)
    PROVE  CoverInv'
BY DEF Finish, CoverInv, Over

LEMMA CompletesCover ==
    ASSUME NEW rows, Complete(rows),
           Trusted /\ ~removed => Covered(tenant, added, Len(tenant), all \o rows)
    PROVE  CoverInv'
BY DEF Complete, Finish, Accept, CoverInv, Over, AllCovered, Trusted,
   Covered, environment


(* A page that is accepted leaves the walk as Walking says.                *)
LEMMA PagesCover ==
    ASSUME TypeOK, Walking, state = "reading", NEW rows \in Rows(From, PageSize), NEW total \in Int,
           NextPage(rows, total),
           server.mode # "window",
           walker = "zdx" => total = From + Len(rows) /\ server.mode # "capped",
           walker = "zccTotal" /\ server.mode = "capped" => page = 1 /\ total = Len(tenant) /\ Len(rows) > 0
    PROVE  Walking'
<1> DEFINE W == Width(PageSize)
<1>1. /\ rows \in Seq(Record) /\ Len(rows) \in Nat
      /\ server.mode = "whole" => Covered(tenant, added, Len(tenant), all \o rows)
  BY AnswerCovers
<1>2. server.mode \in {"paged", "capped"} =>
         Len(rows) <= W /\ (Len(rows) < W => Covered(tenant, added, Len(tenant), all \o rows))
  BY AnswerCovers
<1>3. server.mode = "paged" => Covered(tenant, added, From + W, all \o rows)
  BY AnswerCovers
<1>4. server.mode = "capped" => /\ rows = Slice(0, W)
                                /\ Len(rows) = Least(W, Len(tenant))
                                /\ \A i \in 1..Len(rows) : rows[i] = tenant[i]
  BY AnswerCovers
<1>5. /\ tenant \in Seq(Record) /\ all \in Seq(Record) /\ Len(tenant) \in Nat /\ Len(all) \in Nat
      /\ page \in Nat /\ page > 0 /\ From \in Nat
  BY StartsAreNat, LenProperties DEF TypeOK
<1>6. W \in Nat /\ W > 0
  BY WidthIs
<1>7. Len(all \o rows) = Len(all) + Len(rows)
  BY <1>1, <1>5, ConcatProperties
<1>8. /\ tenant' = tenant /\ added' = added /\ server' = server /\ changes' = changes /\ walker' = walker
      /\ state' = state /\ page' = page + 1 /\ all' = all \o rows /\ seen' = seen \cup {rows}
      /\ declared' = total /\ first' = IF page = 1 THEN rows ELSE first
  BY DEF NextPage, Accept, environment
<1>9. Width(PageSize)' = W
  BY <1>8 DEF Width
<1>10. From' = IF walker = "zidentity" \/ walker = "zdx" THEN From + Len(rows) ELSE From + W
  <2>1. CASE walker = "zidentity"
    <3>1. From = Len(all) /\ From' = Len(all')
      BY <1>8, <2>1 DEF From
    <3> QED
      BY <1>7, <1>8, <2>1, <3>1
  <2>2. CASE walker = "zdx"
    <3>1. From' = total
      <4>1. total >= 0
        BY <1>1, <1>5, <2>2
      <4> QED
        BY <1>8, <2>2, <4>1 DEF From
    <3> QED
      BY <2>2, <3>1
  <2>3. CASE walker \notin {"zidentity", "zdx"}
    <3>1. From = (page - 1) * W /\ From' = (page + 1 - 1) * W
      <4>1. From = (page - 1) * W
        BY <2>3, Zenon DEF From
      <4>2. From' = (page' - 1) * Width(PageSize)'
        <5>1. walker' \notin {"zidentity", "zdx"}
          BY <1>8, <2>3
        <5> QED
          BY <5>1, Zenon DEF From
      <4> QED
        <5>1. From' = (page' - 1) * W
          BY <1>9, <4>2, Zenon
        <5>2. page' - 1 = page + 1 - 1
          BY <1>5, <1>8
        <5> QED
          BY <4>1, <5>1, <5>2, Zenon
    <3>2. \A x \in Nat, y \in Nat : (x + 1 - 1) * y = (x - 1) * y + y
      BY SMT
    <3> QED
      BY <1>5, <1>6, <2>3, <3>1, <3>2
  <2> QED
    BY <2>1, <2>2, <2>3
<1> HIDE DEF W
<1>11. (page = 1 => all = <<>>)' /\ (state = "probing" => page > 1)'
  BY <1>5, <1>8
<1>12. (server.mode = "whole" /\ page > 1 => AllCovered(all))'
  BY <1>1, <1>8 DEF AllCovered
<1>13. (server.mode = "paged" => Covered(tenant, added, From, all))'
  <2> SUFFICES ASSUME server.mode = "paged" PROVE Covered(tenant, added, From', all \o rows)
    BY <1>8
  <2>1. From' \in Nat /\ From' <= From + W
    BY <1>1, <1>2, <1>5, <1>6, <1>10
  <2>2. From + W \in Nat /\ all \o rows \in Seq(Record)
    BY <1>1, <1>5, <1>6, ConcatProperties
  <2>3. PICK k \in Nat : k = From'
    BY <2>1
  <2>4. Covered(tenant, added, k, all \o rows)
    BY <1>3, <1>5, <2>1, <2>2, <2>3, CoversLess
  <2> QED
    BY <2>3, <2>4
<1>14. (server.mode = "paged" /\ walker = "zccTotal" => Len(all) <= From)'
  <2> SUFFICES ASSUME server.mode = "paged", walker = "zccTotal" PROVE Len(all \o rows) <= From'
    BY <1>8
  <2>1. Len(all) <= From
    BY DEF Walking
  <2> QED
    BY <1>1, <1>2, <1>5, <1>6, <1>7, <1>10, <2>1
<1>15. (server.mode \in {"paged", "capped"} /\ walker = "zia" /\ page > 1 =>
           Len(first) <= Width(PageSize) /\ (Len(first) < Width(PageSize) => AllCovered(all)))'
  <2> SUFFICES ASSUME server.mode \in {"paged", "capped"}, walker = "zia"
               PROVE  Len(first') <= W /\ (Len(first') < W => Covered(tenant, added, Len(tenant), all \o rows))
    BY <1>8, <1>9 DEF AllCovered, W
  <2>1. CASE page = 1
    BY <1>2, <1>8, <2>1
  <2>2. CASE page > 1
    <3>1. first' = first /\ Len(first) <= W /\ (Len(first) < W => Covered(tenant, added, Len(tenant), all))
      BY <1>8, <2>2 DEF Walking, AllCovered, W
    <3> QED
      BY <1>1, <1>5, <3>1, CoversAlways
  <2> QED
    BY <1>5, <2>1, <2>2
<1>16. (server.mode = "capped" /\ walker = "zccTotal" /\ page > 1 =>
           /\ Len(all) > 0 /\ Len(tenant) > 0 /\ declared >= 0 /\ declared <= Len(tenant)
           /\ declared = Len(tenant) => tenant[1][1] = all[1][1])'
  <2> SUFFICES ASSUME server.mode = "capped", walker = "zccTotal"
               PROVE  /\ Len(all \o rows) > 0 /\ Len(tenant) > 0 /\ total >= 0 /\ total <= Len(tenant)
                      /\ tenant[1][1] = (all \o rows)[1][1]
    BY <1>8
  <2>1. all = <<>> /\ total = Len(tenant) /\ Len(rows) > 0
    BY DEF Walking
  <2>2. all \o rows = rows
    BY <1>1, <2>1, ConcatEmptySeq
  <2>3. 1 \in 1..Len(rows) /\ rows[1] = tenant[1]
    BY <1>1, <1>4, <2>1
  <2>4. Len(tenant) > 0
    BY <1>1, <1>4, <1>5, <1>6, <2>1 DEF Least
  <2> QED
    BY <1>5, <2>1, <2>2, <2>3, <2>4
<1>17. (server.mode = "capped" /\ walker \in {"zccTotal", "zpa", "zidentity"} /\ page > 1 /\ changes = 0 =>
           Slice(0, Width(PageSize)) \in seen)'
  <2> SUFFICES ASSUME server.mode = "capped" PROVE Slice(0, Width(PageSize))' \in seen \cup {rows}
    BY <1>8
  <2>1. rows = SubSeq(tenant, 0 + 1, Least(0 + W, Len(tenant)))
    BY <1>4 DEF Slice
  <2>2. Slice(0, Width(PageSize))' = SubSeq(tenant, 0 + 1, Least(0 + W, Len(tenant)))
    BY <1>8, <1>9 DEF Slice, W
  <2> QED
    BY <2>1, <2>2
<1> QED
  BY <1>11, <1>12, <1>13, <1>14, <1>15, <1>16, <1>17 DEF Walking


LEMMA GoingOnCovers ==
    ASSUME NEW rows, NEW total, NextPage(rows, total), state = "reading",
           Trusted /\ ~removed => Walking'
    PROVE  CoverInv'
<1>1. (Trusted /\ ~removed)' => Trusted /\ ~removed
  BY DEF NextPage, environment, Trusted
<1>2. state' = "reading"
  BY DEF NextPage
<1> QED
  BY <1>1, <1>2 DEF CoverInv, Over

(* Nothing more is wanted of a walk that has covered all.                  *)
LEMMA NothingMoreCovers ==
    ASSUME TypeOK, AllCovered(all)
    PROVE  Covered(tenant, added, Len(tenant), all \o <<>>)
<1>1. all \o <<>> = all
  BY ConcatEmptySeq DEF TypeOK
<1> QED
  BY <1>1 DEF AllCovered

LEMMA ZIACovers == TypeOK /\ CoverInv /\ ZIAPage => CoverInv'
<1> SUFFICES ASSUME TypeOK, CoverInv, ZIAPage PROVE CoverInv'
  OBVIOUS
<1>0. state = "reading" /\ walker = "zia"
  BY DEF ZIAPage, Reading
<1>1. PICK rows \in Rows(From, PageSize) :
          \/ rows = <<>> /\ Complete(<<>>)
          \/ Refuse
          \/ /\ ZIARepeatsFirst(rows) /\ Len(first) <= 1
             /\ Complete(<<>>)
          \/ /\ ZIARepeatsFirst(rows)
             /\ state' = "probing"
             /\ UNCHANGED <<environment, walker, want, page, all, first, seen, declared, cursors>>
          \/ Accept(rows) /\ Finish("found")
          \/ page > 1 /\ Len(rows) < Len(first) /\ Complete(rows)
          \/ NextPage(rows, declared)
  BY DEF ZIAPage
<1>2. Trusted /\ ~removed => Walking /\ server.mode \in {"paged", "capped", "whole"} /\ server.cap > 1
  BY <1>0 DEF CoverInv, Over, Trusted, TypeOK
<1>3. Width(PageSize) \in Nat /\ Width(PageSize) > 0 /\ (server.cap > 1 /\ PageSize > 1 => Width(PageSize) > 1)
  BY WidthIs
<1>4. Len(first) \in Nat /\ page \in Nat /\ declared \in Int /\ PageSize \in Nat
  BY LenProperties, WalkAssumption DEF TypeOK
<1>5. Walking => /\ Len(rows) \in Nat
                 /\ server.mode = "whole" => Covered(tenant, added, Len(tenant), all \o rows)
                 /\ server.mode \in {"paged", "capped"} =>
                       (Len(rows) < Width(PageSize) => Covered(tenant, added, Len(tenant), all \o rows))
  BY AnswerCovers
<1>6. CASE rows = <<>> /\ Complete(<<>>)
  <2>1. Len(rows) = 0
    BY <1>6
  <2>2. Trusted /\ ~removed => Covered(tenant, added, Len(tenant), all \o rows)
    BY <1>2, <1>3, <1>5, <2>1
  <2> QED
    BY <1>6, <2>2, CompletesCover
<1>7. CASE Refuse
  BY <1>7, EndsCover DEF Refuse
<1>8. CASE ZIARepeatsFirst(rows) /\ Len(first) <= 1 /\ Complete(<<>>)
  <2>1. page > 1 /\ Len(first) < PageSize /\ Len(first) > 0
    BY <1>8 DEF ZIARepeatsFirst, SameRecords
  <2>2. Len(first) = 1 /\ PageSize > 1
    <3>1. Len(first) <= 1
      BY <1>8
    <3>2. \A x \in Nat, y \in Nat : x <= 1 /\ x > 0 /\ x < y => x = 1 /\ y > 1
      OBVIOUS
    <3> QED
      BY <1>4, <2>1, <3>1, <3>2
  <2>3. ASSUME Trusted, ~removed PROVE AllCovered(all)
    <3>1. CASE server.mode = "whole"
      BY <1>2, <2>1, <2>3, <3>1 DEF Walking
    <3>2. CASE server.mode \in {"paged", "capped"}
      BY <1>0, <1>2, <1>3, <2>1, <2>2, <2>3, <3>2 DEF Walking
    <3> QED
      BY <1>2, <2>3, <3>1, <3>2
  <2>4. Trusted /\ ~removed => Covered(tenant, added, Len(tenant), all \o <<>>)
    BY <2>3, NothingMoreCovers
  <2> QED
    BY <1>8, <2>4, CompletesCover
<1>9. CASE /\ ZIARepeatsFirst(rows)
           /\ state' = "probing"
           /\ UNCHANGED <<environment, walker, want, page, all, first, seen, declared, cursors>>
  <2>1. page > 1
    BY <1>9 DEF ZIARepeatsFirst
  <2>2. (Trusted /\ ~removed)' => Trusted /\ ~removed
    BY <1>9 DEF environment, Trusted
  <2>3. ASSUME Walking PROVE Walking'
    <3>1. From' = From
      BY <1>9 DEF environment, From, Width
    <3>2. Width(PageSize)' = Width(PageSize) /\ Slice(0, Width(PageSize))' = Slice(0, Width(PageSize))
      BY <1>9 DEF environment, Width, Slice
    <3> QED
      BY <1>9, <2>1, <2>3, <3>1, <3>2 DEF environment, Walking, AllCovered
  <2> QED
    BY <1>2, <1>9, <2>2, <2>3 DEF CoverInv
<1>10. CASE Accept(rows) /\ Finish("found")
  BY <1>10, EndsCover
<1>11. CASE page > 1 /\ Len(rows) < Len(first) /\ Complete(rows)
  <2>1. ASSUME Trusted, ~removed PROVE Covered(tenant, added, Len(tenant), all \o rows)
    <3>1. CASE server.mode = "whole"
      BY <1>2, <1>5, <2>1, <3>1
    <3>2. CASE server.mode \in {"paged", "capped"}
      <4>1. Len(first) <= Width(PageSize)
        BY <1>0, <1>2, <1>11, <2>1, <3>2 DEF Walking
      <4>2. Len(rows) < Width(PageSize)
        BY <1>2, <1>3, <1>4, <1>5, <1>11, <2>1, <4>1
      <4> QED
        BY <1>2, <1>5, <2>1, <3>2, <4>2
    <3> QED
      BY <1>2, <2>1, <3>1, <3>2
  <2> QED
    BY <1>11, <2>1, CompletesCover
<1>12. CASE NextPage(rows, declared)
  <2>1. ASSUME Trusted, ~removed PROVE Walking'
    <3>1. PICK total \in Int : total = declared
      BY <1>4
    <3>2. NextPage(rows, total)
      BY <1>12, <3>1
    <3>3. server.mode # "window" /\ Walking
      BY <1>2, <2>1
    <3> QED
      BY <1>0, <3>2, <3>3, PagesCover
  <2> QED
    BY <1>0, <1>12, <2>1, GoingOnCovers
<1> QED
  BY <1>1, <1>6, <1>7, <1>8, <1>9, <1>10, <1>11, <1>12

LEMMA ProbeCovers == TypeOK /\ CoverInv /\ ZIAProbe => CoverInv'
<1> SUFFICES ASSUME TypeOK, CoverInv, ZIAProbe PROVE CoverInv'
  OBVIOUS
<1>1. PICK rows \in Rows(0, Len(first) - 1) :
          (SameRecords(rows, first) /\ Complete(<<>>)) \/ Refuse
  BY DEF ZIAProbe
<1>2. CASE Refuse
  BY <1>2, EndsCover DEF Refuse
<1>3. CASE SameRecords(rows, first) /\ Complete(<<>>)
  <2>1. ASSUME Trusted, ~removed PROVE AllCovered(all)
    <3>1. Walking /\ page > 1
      BY <2>1 DEF CoverInv, ZIAProbe, Over, Walking
    <3>2. CASE server.mode = "whole"
      BY <3>1, <3>2 DEF Walking
    <3>3. CASE server.mode \in {"paged", "capped"}
      <4>1. Len(first) \in Nat /\ Len(first) > 0 /\ Len(rows) = Len(first)
        BY <1>3, LenProperties DEF SameRecords, TypeOK
      <4>2. PICK size \in Nat : size = Len(first) - 1
        BY <4>1
      <4>3. rows = Slice(0, Width(size)) /\ Width(size) \in Nat /\ Width(size) <= size
        BY <3>3, <4>2 DEF Rows, Width, Least, TypeOK
      <4>4. rows = SubSeq(tenant, 0 + 1, Least(0 + Width(size), Len(tenant)))
        BY <4>3 DEF Slice
      <4>5. Len(rows) <= Width(size)
        <5>1. 0 + 1 = 1 /\ 0 + Width(size) = Width(size)
          BY <4>3
        <5>2. rows = SubSeq(tenant, 1, Least(Width(size), Len(tenant)))
          BY <4>4, <5>1
        <5> QED
          BY <4>3, <5>2, FirstHolds DEF TypeOK
      <4> QED
        BY <4>1, <4>2, <4>3, <4>5
    <3>4. server.mode \in {"whole", "paged", "capped"}
      BY <2>1 DEF Trusted, TypeOK
    <3> QED
      BY <3>2, <3>3, <3>4
  <2>2. Trusted /\ ~removed => Covered(tenant, added, Len(tenant), all \o <<>>)
    BY <2>1, NothingMoreCovers
  <2> QED
    BY <1>3, <2>2, CompletesCover
<1> QED
  BY <1>1, <1>2, <1>3


LEMMA ShortCovers == TypeOK /\ CoverInv /\ (ShortPage \/ SinglePage) => CoverInv'
<1> SUFFICES ASSUME TypeOK, CoverInv, ShortPage \/ SinglePage PROVE CoverInv'
  OBVIOUS
<1>0. state = "reading" /\ walker \in {"zcc", "ztw", "single"}
  BY DEF ShortPage, SinglePage, Reading
<1>1. PICK rows \in Rows(From, PageSize) :
          \/ Refuse
          \/ Len(rows) < PageSize /\ Complete(rows)
          \/ NextPage(rows, declared)
  <2>1. CASE ShortPage
    BY <2>1 DEF ShortPage
  <2>2. CASE SinglePage
    <3>1. PICK rows \in Rows(From, PageSize) :
             IF Len(rows) >= PageSize THEN Refuse ELSE Complete(rows)
      BY <2>2 DEF SinglePage
    <3>2. Len(rows) \in Nat /\ PageSize \in Nat
      BY PagesAreRecords, LenProperties, WalkAssumption
    <3> QED
      BY <3>1, <3>2
  <2> QED
    BY <2>1, <2>2
<1>2. Trusted /\ ~removed => Walking /\ server.mode \in {"paged", "capped", "whole"} /\ server.cap >= PageSize
  BY <1>0 DEF CoverInv, Over, Trusted, TypeOK
<1>3. CASE Refuse
  BY <1>3, EndsCover DEF Refuse
<1>4. CASE Len(rows) < PageSize /\ Complete(rows)
  <2>1. ASSUME Trusted, ~removed PROVE Covered(tenant, added, Len(tenant), all \o rows)
    <3>1. Width(PageSize) = PageSize
      BY <1>2, <2>1, WidthIs
    <3>2. Walking /\ server.mode \in {"paged", "capped", "whole"}
      BY <1>2, <2>1
    <3> QED
      BY <1>4, <3>1, <3>2, AnswerCovers
  <2> QED
    BY <1>4, <2>1, CompletesCover
<1>5. CASE NextPage(rows, declared)
  <2>1. ASSUME Trusted, ~removed PROVE Walking'
    <3>1. PICK total \in Int : total = declared
      BY DEF TypeOK
    <3>2. NextPage(rows, total)
      BY <1>5, <3>1
    <3>3. server.mode # "window" /\ Walking
      BY <1>2, <2>1
    <3> QED
      BY <1>0, <3>2, <3>3, PagesCover
  <2> QED
    BY <1>0, <1>5, <2>1, GoingOnCovers
<1> QED
  BY <1>1, <1>3, <1>4, <1>5

(* What a service whose totals are not wrong declares.                     *)
LEMMA MetadataIs ==
    ASSUME TypeOK, server.totals # "wrong", NEW rows \in Seq(Record), NEW m \in Metadata(rows)
    PROVE  /\ m.next <=> From + Len(rows) < Len(tenant)
           /\ m.offset = Offset(rows)
           /\ server.totals = "true" => m.total = IF walker = "zpa" THEN Pages ELSE Len(tenant)
           /\ server.totals = "none" => m.total = 0
<1>1. CASE server.totals = "true"
  <2>1. m = [total |-> IF walker = "zpa" THEN Pages ELSE Len(tenant),
             next |-> From + Len(rows) < Len(tenant), offset |-> Offset(rows), size |-> Width(PageSize)]
    BY <1>1, Zenon DEF Metadata
  <2>2. m.next <=> From + Len(rows) < Len(tenant)
    BY <2>1, Zenon
  <2>3. m.total = (IF walker = "zpa" THEN Pages ELSE Len(tenant)) /\ m.offset = Offset(rows)
    BY <2>1
  <2> QED
    BY <1>1, <2>2, <2>3
<1>2. CASE server.totals = "none"
  <2>1. m = [total |-> 0, next |-> From + Len(rows) < Len(tenant), offset |-> Offset(rows), size |-> 0]
    BY <1>2, Zenon DEF Metadata
  <2>2. m.next <=> From + Len(rows) < Len(tenant)
    BY <2>1, Zenon
  <2> QED
    BY <1>2, <2>1, <2>2
<1> QED
  BY <1>1, <1>2 DEF TypeOK

LEMMA ZidentityCovers == TypeOK /\ CoverInv /\ ZidentityPage => CoverInv'
<1> SUFFICES ASSUME TypeOK, CoverInv, ZidentityPage PROVE CoverInv'
  OBVIOUS
<1>0. state = "reading" /\ walker = "zidentity"
  BY DEF ZidentityPage, Reading
<1>1. PICK rows \in Rows(From, PageSize) : \E m \in Metadata(rows) :
          \/ Refuse
          \/ rows \notin seen /\ ~m.next /\ Complete(rows)
          \/ rows \notin seen /\ NextPage(rows, ZidentityTotal(m))
  BY DEF ZidentityPage, ZidentityRefuses
<1>2. PICK m \in Metadata(rows) :
          \/ Refuse
          \/ rows \notin seen /\ ~m.next /\ Complete(rows)
          \/ rows \notin seen /\ NextPage(rows, ZidentityTotal(m))
  BY <1>1
<1>3. Trusted /\ ~removed => /\ Walking /\ server.mode \in {"paged", "capped", "whole"} /\ server.totals # "wrong"
                             /\ server.mode = "capped" => changes = 0
  BY <1>0, WalkAssumption DEF CoverInv, Over, Trusted, TypeOK
<1>4. rows \in Seq(Record) /\ Len(rows) \in Nat /\ From \in Nat /\ Len(tenant) \in Nat
  BY PagesAreRecords, LenProperties, StartsAreNat DEF TypeOK
<1>5. CASE Refuse
  BY <1>5, EndsCover DEF Refuse
<1>6. CASE rows \notin seen /\ ~m.next /\ Complete(rows)
  <2>1. ASSUME Trusted, ~removed PROVE Covered(tenant, added, Len(tenant), all \o rows)
    <3>1. Len(tenant) <= From + Len(rows)
      BY <1>3, <1>4, <1>6, <2>1, MetadataIs
    <3>2. Walking
      BY <1>3, <2>1
    <3>3. CASE server.mode = "whole"
      BY <3>2, <3>3, AnswerCovers
    <3>4. CASE server.mode = "paged"
      <4>1. Len(rows) <= Width(PageSize) /\ Width(PageSize) \in Nat
        BY <3>2, <3>4, AnswerCovers, WidthIs
      <4>2. Len(tenant) <= From + Width(PageSize)
        BY <1>4, <3>1, <4>1
      <4> QED
        BY <3>2, <3>4, <4>2, AnswerCovers
    <3>5. CASE server.mode = "capped"
      <4>1. rows = Slice(0, Width(PageSize)) /\ Len(rows) <= Width(PageSize)
        BY <3>2, <3>5, AnswerCovers
      <4>2. page = 1
        <5>1. ~(page > 1)
          BY <1>0, <1>3, <1>6, <2>1, <3>2, <3>5, <4>1 DEF Walking
        <5> QED
          BY <5>1 DEF TypeOK
      <4>3. From = 0
        BY <1>0, <3>2, <4>2 DEF Walking, From
      <4>4. Len(tenant) <= Width(PageSize)
        BY <1>4, <3>1, <4>1, <4>3, WidthIs
      <4> QED
        BY <3>2, <3>5, <4>4, AnswerCovers
    <3> QED
      BY <1>3, <2>1, <3>3, <3>4, <3>5
  <2> QED
    BY <1>6, <2>1, CompletesCover
<1>7. CASE NextPage(rows, ZidentityTotal(m))
  <2>1. ASSUME Trusted, ~removed PROVE Walking'
    <3>1. PICK total \in Int : total = ZidentityTotal(m)
      BY <1>4, MetadataTypes DEF TypeOK, ZidentityTotal
    <3>2. NextPage(rows, total)
      BY <1>7, <3>1
    <3>3. server.mode # "window" /\ Walking
      BY <1>3, <2>1
    <3> QED
      BY <1>0, <3>2, <3>3, PagesCover
  <2> QED
    BY <1>0, <1>7, <2>1, GoingOnCovers
<1> QED
  BY <1>2, <1>5, <1>6, <1>7

LEMMA ZDXCovers == TypeOK /\ CoverInv /\ ZDXPage => CoverInv'
<1> SUFFICES ASSUME TypeOK, CoverInv, ZDXPage PROVE CoverInv'
  OBVIOUS
<1>0. state = "reading" /\ walker = "zdx"
  BY DEF ZDXPage, Reading
<1>1. PICK rows \in Rows(From, PageSize) : \E m \in Metadata(rows) :
          Refuse \/ (~m.next /\ Complete(rows)) \/ NextPage(rows, m.offset)
  BY DEF ZDXPage
<1>2. PICK m \in Metadata(rows) :
          Refuse \/ (~m.next /\ Complete(rows)) \/ NextPage(rows, m.offset)
  BY <1>1
<1>3. Trusted /\ ~removed => Walking /\ server.mode \in {"paged", "whole"} /\ server.totals # "wrong"
  BY <1>0 DEF CoverInv, Over, Trusted, TypeOK
<1>4. rows \in Seq(Record) /\ Len(rows) \in Nat /\ From \in Nat /\ Len(tenant) \in Nat
  BY PagesAreRecords, LenProperties, StartsAreNat DEF TypeOK
<1>5. CASE Refuse
  BY <1>5, EndsCover DEF Refuse
<1>6. CASE ~m.next /\ Complete(rows)
  <2>1. ASSUME Trusted, ~removed PROVE Covered(tenant, added, Len(tenant), all \o rows)
    <3>1. Len(tenant) <= From + Len(rows)
      BY <1>3, <1>4, <1>6, <2>1, MetadataIs
    <3>2. Walking
      BY <1>3, <2>1
    <3>3. CASE server.mode = "whole"
      BY <3>2, <3>3, AnswerCovers
    <3>4. CASE server.mode = "paged"
      <4>1. Len(rows) <= Width(PageSize) /\ Width(PageSize) \in Nat
        BY <3>2, <3>4, AnswerCovers, WidthIs
      <4>2. Len(tenant) <= From + Width(PageSize)
        BY <1>4, <3>1, <4>1
      <4> QED
        BY <3>2, <3>4, <4>2, AnswerCovers
    <3> QED
      BY <1>3, <2>1, <3>3, <3>4
  <2> QED
    BY <1>6, <2>1, CompletesCover
<1>7. CASE NextPage(rows, m.offset)
  <2>1. ASSUME Trusted, ~removed PROVE Walking'
    <3>1. PICK total \in Int : total = m.offset
      BY <1>4, MetadataTypes
    <3>2. NextPage(rows, total) /\ total = From + Len(rows)
      BY <1>0, <1>3, <1>4, <1>7, <2>1, <3>1, MetadataIs DEF Offset
    <3>3. server.mode \notin {"window", "capped"} /\ Walking
      BY <1>3, <2>1
    <3> QED
      BY <1>0, <3>2, <3>3, PagesCover
  <2> QED
    BY <1>0, <1>7, <2>1, GoingOnCovers
<1> QED
  BY <1>2, <1>5, <1>6, <1>7


LEMMA PagesReach ==
    ASSUME TypeOK, NEW k \in Nat, Pages <= k
    PROVE  Len(tenant) <= k * Width(PageSize)
<1>1. PICK w \in Nat : w = Width(PageSize) /\ w > 0
  BY WidthIs
<1>2. PICK n \in Nat : n = Len(tenant)
  BY LenProperties DEF TypeOK
<1>3. PICK q \in Nat : q = (n + w - 1) \div w /\ n <= q * w
  <2>1. (n + w - 1) \div w \in Nat
    BY <1>1
  <2>2. n + w - 1 < (((n + w - 1) \div w) + 1) * w
    BY <1>1, SMTT(30)
  <2>3. \A x \in Nat, y \in Nat : (x + 1) * y = x * y + y /\ x * y \in Nat
    BY SMT
  <2> QED
    BY <1>1, <2>1, <2>2, <2>3
<1>4. q <= k
  BY <1>1, <1>2, <1>3 DEF Pages
<1>5. \A x \in Nat, y \in Nat, z \in Nat : x <= y => x * z <= y * z
  BY SMTT(30)
<1>6. q * w <= k * w /\ q * w \in Nat /\ k * w \in Nat
  BY <1>4, <1>5, SMT
<1> QED
  BY <1>1, <1>2, <1>3, <1>6

LEMMA ZPACovers == TypeOK /\ CoverInv /\ ZPAPage => CoverInv'
<1> SUFFICES ASSUME TypeOK, CoverInv, ZPAPage PROVE CoverInv'
  OBVIOUS
<1>0. state = "reading" /\ walker = "zpa" /\ server.totals # "none"
  BY DEF ZPAPage, Reading
<1>1. PICK rows \in Rows(From, PageSize) : \E m \in Metadata(rows) :
          \/ Refuse
          \/ ~(m.total > 0 /\ rows \in seen) /\ page >= m.total /\ Complete(rows)
          \/ NextPage(rows, m.total)
  BY DEF ZPAPage, ZPARefuses
<1>2. PICK m \in Metadata(rows) :
          \/ Refuse
          \/ ~(m.total > 0 /\ rows \in seen) /\ page >= m.total /\ Complete(rows)
          \/ NextPage(rows, m.total)
  BY <1>1
<1>3. Trusted /\ ~removed => /\ Walking /\ server.mode \in {"paged", "capped", "whole"} /\ server.totals = "true"
                             /\ server.mode = "capped" => changes = 0
  BY <1>0, WalkAssumption DEF CoverInv, Over, Trusted, TypeOK
<1>4. /\ rows \in Seq(Record) /\ Len(rows) \in Nat /\ From \in Nat /\ Len(tenant) \in Nat
      /\ m.total \in Int /\ page \in Nat /\ page > 0 /\ changes \in Nat
  <2>1. rows \in Seq(Record)
    BY PagesAreRecords
  <2> QED
    BY <2>1, LenProperties, StartsAreNat, MetadataTypes DEF TypeOK
<1>5. CASE Refuse
  BY <1>5, EndsCover DEF Refuse
<1>6. CASE ~(m.total > 0 /\ rows \in seen) /\ page >= m.total /\ Complete(rows)
  <2>1. ASSUME Trusted, ~removed PROVE Covered(tenant, added, Len(tenant), all \o rows)
    <3>1. m.total = Pages
      BY <1>0, <1>3, <1>4, <2>1, MetadataIs
    <3>2. Walking
      BY <1>3, <2>1
    <3>3. CASE server.mode = "whole"
      BY <3>2, <3>3, AnswerCovers
    <3>4. CASE server.mode = "paged"
      <4>1. Len(tenant) <= page * Width(PageSize)
        BY <1>4, <1>6, <3>1, PagesReach
      <4>2. From = (page - 1) * Width(PageSize)
        BY <1>0, Zenon DEF From
      <4>3. \A x \in Nat, y \in Nat : x * y = (x - 1) * y + y
        BY SMT
      <4>4. Len(tenant) <= From + Width(PageSize)
        BY <1>4, <4>1, <4>2, <4>3, WidthIs
      <4> QED
        BY <3>2, <3>4, <4>4, AnswerCovers
    <3>5. CASE server.mode = "capped"
      <4>1. rows = Slice(0, Width(PageSize)) /\ Width(PageSize) \in Nat
        BY <3>2, <3>5, AnswerCovers, WidthIs
      <4>2. CASE page = 1
        <5>1. Len(tenant) <= 1 * Width(PageSize)
          BY <1>6, <3>1, <4>2, PagesReach
        <5>2. Len(tenant) <= Width(PageSize)
          BY <4>1, <5>1
        <5> QED
          BY <3>2, <3>5, <5>2, AnswerCovers
      <4>3. CASE page > 1
        <5>1. rows \in seen
          BY <1>0, <1>3, <2>1, <3>2, <3>5, <4>1, <4>3 DEF Walking
        <5>2. Pages <= 0
          BY <1>4, <1>6, <3>1, <5>1
        <5>3. Len(tenant) <= 0 * Width(PageSize)
          BY <5>2, PagesReach
        <5>4. Len(tenant) <= Width(PageSize)
          BY <1>4, <4>1, <5>3
        <5> QED
          BY <3>2, <3>5, <5>4, AnswerCovers
      <4> QED
        BY <1>4, <4>2, <4>3
    <3> QED
      BY <1>3, <2>1, <3>3, <3>4, <3>5
  <2> QED
    BY <1>6, <2>1, CompletesCover
<1>7. CASE NextPage(rows, m.total)
  <2>1. ASSUME Trusted, ~removed PROVE Walking'
    <3>1. PICK total \in Int : total = m.total
      BY <1>4
    <3>2. NextPage(rows, total)
      BY <1>7, <3>1
    <3>3. server.mode # "window" /\ Walking
      BY <1>3, <2>1
    <3> QED
      BY <1>0, <3>2, <3>3, PagesCover
  <2> QED
    BY <1>0, <1>7, <2>1, GoingOnCovers
<1> QED
  BY <1>2, <1>5, <1>6, <1>7

(* ZCC's walker notices a service that caps on page 2.                     *)
LEMMA CappedRepeats ==
    ASSUME TypeOK, Walking, Trusted, server.mode = "capped", walker = "zccTotal", page > 1,
           NEW rows \in Rows(From, PageSize), NEW m \in Metadata(rows)
    PROVE  ZCCTotalRefuses(rows, m)
<1>1. /\ rows \in Seq(Record) /\ Len(rows) \in Nat /\ all \in Seq(Record) /\ Len(all) \in Nat
      /\ tenant \in Seq(Record) /\ Len(tenant) \in Nat /\ changes \in Nat
  BY PagesAreRecords, LenProperties DEF TypeOK
<1>2. /\ Len(all \o rows) = Len(all) + Len(rows)
      /\ \A i \in 1..Len(all) + Len(rows) :
            (all \o rows)[i] = IF i <= Len(all) THEN all[i] ELSE rows[i - Len(all)]
  BY <1>1, ConcatProperties
<1>3. /\ Len(all) > 0 /\ Len(tenant) > 0 /\ declared >= 0
      /\ declared = Len(tenant) => tenant[1][1] = all[1][1]
      /\ changes = 0 => Slice(0, Width(PageSize)) \in seen
  BY DEF Walking
<1>4. rows = Slice(0, Width(PageSize)) /\ Len(rows) = Least(Width(PageSize), Len(tenant))
      /\ \A i \in 1..Len(rows) : rows[i] = tenant[i]
  BY AnswerCovers
<1>5. server.totals \in {"true", "none"}
  BY DEF Trusted, TypeOK
<1>6. CASE server.totals = "none"
  <2>1. m.total = 0
    BY <1>1, <1>6, MetadataIs
  <2>2. Len(all \o rows) > 0
    BY <1>1, <1>2, <1>3
  <2> QED
    BY <2>1, <2>2 DEF ZCCTotalRefuses
<1>7. CASE server.totals = "true"
  <2>1. m.total = Len(tenant)
    BY <1>1, <1>7, MetadataIs
  <2>2. CASE declared # Len(tenant)
    BY <1>3, <2>1, <2>2 DEF ZCCTotalRefuses
  <2>3. CASE changes = 0
    BY <1>3, <1>4, <2>3 DEF ZCCTotalRefuses
  <2>4. CASE declared = Len(tenant) /\ changes > 0
    <3>1. Len(rows) > 0
      <4>1. Width(PageSize) \in Nat /\ Width(PageSize) > 0
        BY WidthIs
      <4> QED
        BY <1>1, <1>3, <1>4, <4>1 DEF Least
    <3>2. rows[1] = tenant[1] /\ tenant[1][1] = all[1][1]
      BY <1>1, <1>3, <1>4, <2>4, <3>1
    <3>3. tenant[1][1] \in Identified
      <4>1. Names(tenant) \subseteq Identified
        BY <2>4 DEF Trusted
      <4>2. 1 \in DOMAIN tenant
        BY <1>1, <1>3, LenProperties
      <4> QED
        BY <4>1, <4>2 DEF Names
    <3>4. PICK j \in Nat : j = Len(all) + 1
      BY <1>1
    <3>5. 1 \in 1..Len(all) + Len(rows) /\ j \in 1..Len(all) + Len(rows) /\ 1 < j /\ ~(j <= Len(all)) /\ j - Len(all) = 1
      BY <1>1, <1>3, <3>1, <3>4
    <3>6. (all \o rows)[1] = all[1] /\ (all \o rows)[j] = rows[1]
      <4>1. (all \o rows)[1] = all[1]
        <5>1. 1 <= Len(all)
          BY <1>1, <1>3
        <5> QED
          BY <1>2, <3>5, <5>1
      <4>2. (all \o rows)[j] = rows[j - Len(all)]
        BY <1>2, <3>5
      <4> QED
        BY <3>5, <4>1, <4>2
    <3>7. ~OnceEach(all \o rows)
      BY <1>2, <3>2, <3>3, <3>5, <3>6 DEF OnceEach
    <3> QED
      BY <3>7 DEF ZCCTotalRefuses, Repeats
  <2> QED
    BY <1>1, <2>2, <2>3, <2>4
<1> QED
  BY <1>5, <1>6, <1>7


LEMMA ZCCTotalCovers == TypeOK /\ CoverInv /\ ZCCTotalPage => CoverInv'
<1> SUFFICES ASSUME TypeOK, CoverInv, ZCCTotalPage PROVE CoverInv'
  OBVIOUS
<1>0. state = "reading" /\ walker = "zccTotal"
  BY DEF ZCCTotalPage, Reading
<1>1. PICK rows \in Rows(From, PageSize) : \E m \in Metadata(rows) :
          \/ Refuse
          \/ /\ ~ZCCTotalRefuses(rows, m)
             /\ \/ Len(all \o rows) = m.total /\ Complete(rows)
                \/ Len(all \o rows) # m.total /\ NextPage(rows, m.total)
  BY DEF ZCCTotalPage
<1>2. PICK m \in Metadata(rows) :
          \/ Refuse
          \/ /\ ~ZCCTotalRefuses(rows, m)
             /\ \/ Len(all \o rows) = m.total /\ Complete(rows)
                \/ Len(all \o rows) # m.total /\ NextPage(rows, m.total)
  BY <1>1
<1>3. Trusted /\ ~removed => /\ Walking /\ server.mode \in {"paged", "capped", "whole"}
                             /\ server.totals \in {"true", "none"}
  BY <1>0 DEF CoverInv, Over, Trusted, TypeOK
<1>4. /\ rows \in Seq(Record) /\ Len(rows) \in Nat /\ From \in Nat /\ Len(tenant) \in Nat
      /\ m.total \in Int /\ page \in Nat /\ page > 0 /\ Len(all) \in Nat /\ all \in Seq(Record)
  <2>1. rows \in Seq(Record)
    BY PagesAreRecords
  <2> QED
    BY <2>1, LenProperties, StartsAreNat, MetadataTypes DEF TypeOK
<1>5. Len(all \o rows) = Len(all) + Len(rows)
  BY <1>4, ConcatProperties
<1>6. Width(PageSize) \in Nat /\ Width(PageSize) > 0
  BY WidthIs
<1>7. CASE Refuse
  BY <1>7, EndsCover DEF Refuse
<1>8. CASE ~ZCCTotalRefuses(rows, m) /\ Len(all \o rows) = m.total /\ Complete(rows)
  <2>1. ASSUME Trusted, ~removed PROVE Covered(tenant, added, Len(tenant), all \o rows)
    <3>1. Walking
      BY <1>3, <2>1
    <3>2. CASE server.mode = "whole"
      BY <3>1, <3>2, AnswerCovers
    <3>3. CASE server.totals = "none" /\ server.mode \in {"paged", "capped"}
      <4>1. m.total = 0
        BY <1>4, <3>3, MetadataIs
      <4>2. Len(rows) < Width(PageSize)
        BY <1>4, <1>5, <1>6, <1>8, <4>1
      <4> QED
        BY <3>1, <3>3, <4>2, AnswerCovers
    <3>4. CASE server.totals = "true" /\ server.mode \in {"paged", "capped"}
      <4>1. Len(all) + Len(rows) = Len(tenant)
        BY <1>0, <1>4, <1>5, <1>8, <3>4, MetadataIs
      <4>2. Len(rows) <= Width(PageSize)
        BY <3>1, <3>4, AnswerCovers
      <4>3. CASE server.mode = "paged"
        <5>1. Len(all) <= From
          BY <1>0, <3>1, <4>3 DEF Walking
        <5>2. Len(tenant) <= From + Width(PageSize)
          BY <1>4, <1>6, <4>1, <4>2, <5>1
        <5> QED
          BY <3>1, <4>3, <5>2, AnswerCovers
      <4>4. CASE server.mode = "capped"
        <5>1. ~(page > 1)
          BY <1>0, <1>8, <2>1, <3>1, <4>4, CappedRepeats
        <5>2. page = 1
          BY <1>4, <5>1
        <5>3. Len(all) = 0
          BY <3>1, <5>2 DEF Walking
        <5>4. Len(tenant) <= Width(PageSize)
          BY <1>4, <4>1, <4>2, <5>3
        <5> QED
          BY <3>1, <4>4, <5>4, AnswerCovers
      <4> QED
        BY <3>4, <4>3, <4>4
    <3> QED
      BY <1>3, <2>1, <3>2, <3>3, <3>4
  <2> QED
    BY <1>8, <2>1, CompletesCover
<1>9. CASE ~ZCCTotalRefuses(rows, m) /\ Len(all \o rows) # m.total /\ NextPage(rows, m.total)
  <2>1. ASSUME Trusted, ~removed PROVE Walking'
    <3>1. PICK total \in Int : total = m.total
      BY <1>4
    <3>2. NextPage(rows, total)
      BY <1>9, <3>1
    <3>3. server.mode # "window" /\ Walking
      BY <1>3, <2>1
    <3>4. ASSUME server.mode = "capped" PROVE page = 1 /\ total = Len(tenant) /\ Len(rows) > 0
      <4>1. ~(page > 1)
        BY <1>0, <1>9, <2>1, <3>3, <3>4, CappedRepeats
      <4>2. page = 1
        BY <1>4, <4>1
      <4>3. Len(all) = 0
        BY <3>3, <4>2 DEF Walking
      <4>4. Len(all) + Len(rows) < m.total
        <5>1. ~(Len(all \o rows) > m.total)
          BY <1>9 DEF ZCCTotalRefuses
        <5> QED
          BY <1>4, <1>5, <1>9, <5>1
      <4>5. m.total = Len(tenant)
        <5>1. CASE server.totals = "none"
          <6>1. m.total = 0
            BY <1>4, <5>1, MetadataIs
          <6> QED
            BY <1>4, <4>4, <6>1
        <5>2. CASE server.totals = "true"
          BY <1>0, <1>4, <5>2, MetadataIs
        <5> QED
          BY <1>3, <2>1, <5>1, <5>2
      <4>6. rows # <<>>
        BY <1>4, <1>9, <4>4 DEF ZCCTotalRefuses
      <4> QED
        BY <1>4, <3>1, <4>2, <4>5, <4>6, EmptySeq
    <3> QED
      BY <1>0, <3>2, <3>3, <3>4, PagesCover
  <2> QED
    BY <1>0, <1>9, <2>1, GoingOnCovers
<1> QED
  BY <1>2, <1>7, <1>8, <1>9

(* Changes of the tenant leave what was read as complete as it was.        *)
LEMMA InsertionsCover ==
    ASSUME TypeOK, CoverInv, NEW name \in Name, NEW at \in 0..Len(tenant), Insert(name, at)
    PROVE  CoverInv'
<1>1. /\ tenant \in Seq(Record) /\ Len(tenant) \in Nat /\ all \in Seq(Record) /\ From \in Nat
      /\ changes \in Nat
  BY StartsAreNat, LenProperties DEF TypeOK
<1>2. /\ tenant' = SubSeq(tenant, 1, at) \o <<<<name, 0>>>> \o SubSeq(tenant, at + 1, Len(tenant))
      /\ added' = added \cup {name} /\ removed' = removed /\ changes' = changes + 1 /\ state \notin Over
      /\ UNCHANGED <<server, walker, want, page, all, first, seen, declared, cursors, state>>
  BY DEF Insert, Changed
<1>3. PICK more, new : more = tenant' /\ new = added'
  OBVIOUS
<1>4. more = Inserted(tenant, at, name)
  BY <1>2, <1>3 DEF Inserted
<1>5. Len(more) = Len(tenant) + 1 /\ Names(tenant) \subseteq Names(more)
  BY <1>1, <1>4, InsertIs
<1>6. (Trusted /\ ~removed)' => Trusted /\ ~removed
  <2>1. changes > 0 => changes' > 0
    BY <1>1, <1>2
  <2>2. changes' > 0
    BY <1>1, <1>2
  <2>3. Names(tenant)' = Names(more)
    BY <1>3 DEF Names
  <2> QED
    BY <1>2, <1>5, <2>2, <2>3 DEF Trusted
<1>7. ASSUME Trusted, ~removed PROVE Walking'
  <2>0. Walking
    BY <1>2, <1>7 DEF CoverInv
  <2>1. From' = From /\ Width(PageSize)' = Width(PageSize)
    BY <1>2 DEF From, Width
  <2>2. ASSUME AllCovered(all) PROVE AllCovered(all)'
    <3>1. Covered(tenant, added, Len(tenant), all)
      BY <2>2 DEF AllCovered
    <3>2. Covered(more, added \cup {name}, Len(more), all)
      <4>1. PICK n \in Nat : n = Len(tenant) /\ Covered(tenant, added, n, all) /\ Len(tenant) <= n
        BY <1>1, <3>1
      <4> QED
        BY <1>1, <1>4, <4>1, InsertCovers
    <3> QED
      BY <1>2, <1>3, <3>2 DEF AllCovered
  <2>3. ASSUME Covered(tenant, added, From, all) PROVE Covered(tenant, added, From, all)'
    <3>1. Covered(more, added \cup {name}, From, all)
      BY <1>1, <1>4, <2>3, InsertCovers
    <3> QED
      BY <1>2, <1>3, <2>1, <3>1
  <2>4. (server.mode = "capped" /\ walker = "zccTotal" /\ page > 1 =>
           /\ Len(all) > 0 /\ Len(tenant) > 0 /\ declared >= 0 /\ declared <= Len(tenant)
           /\ declared = Len(tenant) => tenant[1][1] = all[1][1])'
    <3> SUFFICES ASSUME server.mode = "capped", walker = "zccTotal", page > 1
                 PROVE  /\ Len(all) > 0 /\ Len(more) > 0 /\ declared >= 0 /\ declared <= Len(more)
                        /\ declared # Len(more)
      BY <1>2, <1>3
    <3>1. Len(all) > 0 /\ declared >= 0 /\ declared <= Len(tenant) /\ declared \in Int
      BY <2>0 DEF Walking, TypeOK
    <3> QED
      BY <1>1, <1>5, <3>1
  <2>5. changes' # 0
    BY <1>1, <1>2
  <2> QED
    BY <1>2, <2>0, <2>1, <2>2, <2>3, <2>4, <2>5 DEF Walking
<1> QED
  BY <1>2, <1>6, <1>7 DEF CoverInv, Over

LEMMA EditsCover ==
    ASSUME TypeOK, CoverInv, NEW at \in 1..Len(tenant), Edit(at)
    PROVE  CoverInv'
<1>1. /\ tenant \in Seq(Record) /\ Len(tenant) \in Nat /\ changes \in Nat
  BY LenProperties DEF TypeOK
<1>2. /\ tenant' = [tenant EXCEPT ![at][2] = 1 - @] /\ changes' = changes + 1 /\ state \notin Over
      /\ UNCHANGED <<added, removed, server, walker, want, page, all, first, seen, declared, cursors, state>>
  BY DEF Edit, Changed
<1>3. PICK other : other = tenant'
  OBVIOUS
<1>4. /\ Len(other) = Len(tenant) /\ DOMAIN other = DOMAIN tenant
      /\ \A i \in DOMAIN tenant : other[i][1] = tenant[i][1]
  <2>1. other = [tenant EXCEPT ![at][2] = 1 - @]
    BY <1>2, <1>3
  <2> QED
    BY <1>1, <2>1, EditKeeps
<1>5. Names(other) = Names(tenant)
  BY <1>4, Zenon DEF Names
<1>6. (Trusted /\ ~removed)' => Trusted /\ ~removed
  <2>1. changes' > 0
    BY <1>1, <1>2
  <2>2. Names(tenant)' = Names(tenant)
    BY <1>3, <1>5 DEF Names
  <2> QED
    BY <1>2, <2>1, <2>2 DEF Trusted
<1>7. ASSUME Trusted, ~removed PROVE Walking'
  <2>0. Walking
    BY <1>2, <1>7 DEF CoverInv
  <2>1. From' = From /\ Width(PageSize)' = Width(PageSize)
    BY <1>2 DEF From, Width
  <2>2. ASSUME NEW n, NEW s, Covered(tenant, added, n, s) PROVE Covered(other, added, n, s)
    BY <1>4, <2>2 DEF Covered
  <2>3. AllCovered(all) => AllCovered(all)'
    BY <1>2, <1>3, <1>4, <2>2 DEF AllCovered
  <2>4. Covered(tenant, added, From, all) => Covered(tenant, added, From, all)'
    BY <1>2, <1>3, <2>1, <2>2
  <2>5. (server.mode = "capped" /\ walker = "zccTotal" /\ page > 1 =>
           /\ Len(all) > 0 /\ Len(tenant) > 0 /\ declared >= 0 /\ declared <= Len(tenant)
           /\ declared = Len(tenant) => tenant[1][1] = all[1][1])'
    <3> SUFFICES ASSUME server.mode = "capped", walker = "zccTotal", page > 1
                 PROVE  /\ Len(all) > 0 /\ Len(other) > 0 /\ declared >= 0 /\ declared <= Len(other)
                        /\ declared = Len(other) => other[1][1] = all[1][1]
      BY <1>2, <1>3
    <3>1. /\ Len(all) > 0 /\ Len(tenant) > 0 /\ declared >= 0 /\ declared <= Len(tenant)
          /\ declared = Len(tenant) => tenant[1][1] = all[1][1]
      BY <2>0 DEF Walking
    <3>2. 1 \in DOMAIN tenant
      BY <1>1, <3>1, LenProperties
    <3> QED
      BY <1>4, <3>1, <3>2
  <2>6. changes' # 0
    BY <1>1, <1>2
  <2> QED
    BY <1>2, <2>0, <2>1, <2>3, <2>4, <2>5, <2>6 DEF Walking
<1> QED
  BY <1>2, <1>6, <1>7 DEF CoverInv, Over

LEMMA StepCovers == TypeOK /\ CoverInv /\ [Next]_vars => CoverInv'
<1> SUFFICES ASSUME TypeOK, CoverInv, [Next]_vars PROVE CoverInv'
  OBVIOUS
<1>1. ASSUME NEW name \in Name, NEW at \in 0..Len(tenant), Insert(name, at)
      PROVE  CoverInv'
  BY <1>1, InsertionsCover
<1>2. ASSUME NEW at \in 1..Len(tenant), Remove(at) PROVE CoverInv'
  BY <1>2 DEF Remove, CoverInv
<1>3. ASSUME NEW at \in 1..Len(tenant), Edit(at) PROVE CoverInv'
  BY <1>3, EditsCover
<1>4. ASSUME Fail \/ TooManyPages PROVE CoverInv'
  BY <1>4, EndsCover DEF Fail, TooManyPages, Refuse
<1>5. ASSUME UNCHANGED vars PROVE CoverInv'
  <2>1. From' = From /\ Width(PageSize)' = Width(PageSize) /\ Slice(0, Width(PageSize))' = Slice(0, Width(PageSize))
    BY <1>5 DEF vars, environment, From, Width, Slice
  <2>2. Walking => Walking'
    BY <1>5, <2>1 DEF vars, environment, Walking, AllCovered
  <2>3. (Trusted /\ ~removed)' => Trusted /\ ~removed
    BY <1>5 DEF vars, environment, Trusted
  <2>4. AllCovered(all)' <=> AllCovered(all)
    BY <1>5 DEF vars, environment, AllCovered
  <2> QED
    BY <1>5, <2>2, <2>3, <2>4 DEF vars, CoverInv
<1> QED
  BY <1>1, <1>2, <1>3, <1>4, <1>5, ZIACovers, ProbeCovers, ShortCovers,
     ZCCTotalCovers, ZPACovers, ZidentityCovers, ZDXCovers DEF Next, Finished

(* Whatever the service clamps, ignores or caps, and though records are    *)
(* added and edited meanwhile: a list that is returned as complete holds   *)
(* every record the tenant had when the walk began.                        *)
THEOREM NothingIsEverMissed == Spec => []NothingIsMissed
<1>1. Init => CoverInv
  <2> SUFFICES ASSUME Init PROVE CoverInv
    OBVIOUS
  <2>1. From = 0
    <3>1. (1 - 1) * Width(PageSize) = 0
      BY InitTypes, WidthIs
    <3> QED
      BY <3>1 DEF Init, From
  <2>2. Covered(tenant, added, 0, all)
    BY LenProperties, InitTypes DEF Covered, TypeOK
  <2>3. Len(all) <= 0
    BY DEF Init
  <2>4. page = 1 /\ state = "reading" /\ all = <<>>
    BY DEF Init
  <2> QED
    BY <2>1, <2>2, <2>3, <2>4 DEF CoverInv, Over, Walking
<1>2. TypeOK /\ CoverInv => NothingIsMissed
  <2>1. tenant \in Seq(Record) /\ AllCovered(all) => Names(tenant) \ added \subseteq Names(all)
    <3> SUFFICES ASSUME tenant \in Seq(Record), AllCovered(all), NEW i \in DOMAIN tenant
                 PROVE  tenant[i][1] \in added \cup Names(all)
      BY DEF Names
    <3>1. i <= Len(tenant)
      BY LenProperties
    <3> QED
      BY <3>1 DEF AllCovered, Covered
  <2> QED
    BY <2>1 DEF CoverInv, NothingIsMissed, TypeOK
<1> QED
  BY <1>1, <1>2, WalkTypes, StepCovers, PTL DEF Spec

-----------------------------------------------------------------------------
(* What is read of a collection that nobody changes.                       *)

(* The records read are the first ones of the collection, in its order.    *)
Heads(s) == Len(s) <= Len(tenant) /\ \A i \in 1..Len(s) : s[i] = tenant[i]

PagedReading ==
    /\ state = "reading"
    /\ page <= MaxPages
    /\ Len(all) = Least((page - 1) * Width(PageSize), Len(tenant)) /\ Heads(all)
    /\ \A s \in seen : Len(s) > 0 /\ \E k \in 1..Len(all) : s[1] = tenant[k]
    /\ walker = "zia" /\ page > 1 =>
          Len(first) = Least(Width(PageSize), Len(tenant)) /\ Len(first) <= Len(all) /\ Heads(first)
    /\ walker = "zccTotal" => declared = IF page = 1 THEN -1 ELSE Len(tenant)
    /\ walker = "zpa" /\ page > 1 => declared = Pages /\ page <= Pages
    /\ walker = "zidentity" => declared \in {-1, Len(tenant)}
    /\ walker = "zdx" => /\ declared = IF page = 1 THEN -1 ELSE Len(all)
                         /\ \A cursor \in cursors : cursor <= Len(all)

WholeReading ==
    /\ page = 1 => state = "reading" /\ all = <<>> /\ seen = {}
    /\ page # 1 => /\ page = 2 /\ walker = "zia" /\ first = all /\ Len(all) > 0
                   /\ all = tenant \/ all = Backwards(tenant)

HonestReading == IF server.mode = "paged" THEN PagedReading ELSE WholeReading

Exactly(s) == Len(s) = Len(tenant) /\ Contents(s) = Contents(tenant)

StillInv ==
    /\ changes = 0 => tenant \in Tenants
    /\ Honest => /\ state # "refused"
                 /\ state = "complete" => Exactly(all)
                 /\ state \notin Over => HonestReading

LEMMA PagesIs ==
    ASSUME TypeOK, NEW k \in Nat
    PROVE  Pages <= k <=> Len(tenant) <= k * Width(PageSize)
<1>1. PICK w \in Nat : w = Width(PageSize) /\ w > 0
  BY WidthIs
<1>2. PICK n \in Nat : n = Len(tenant)
  BY LenProperties DEF TypeOK
<1>3. PICK q \in Nat : q = (n + w - 1) \div w /\ q * w <= n + w - 1
  <2>1. (n + w - 1) \div w \in Nat
    BY <1>1
  <2>2. ((n + w - 1) \div w) * w <= n + w - 1
    BY <1>1, SMTT(30)
  <2> QED
    BY <2>1, <2>2
<1>4. q = Pages
  BY <1>1, <1>2, <1>3 DEF Pages
<1>5. ASSUME n <= k * w PROVE q <= k
  <2>1. \A x \in Nat, y \in Nat, z \in Nat : x >= y + 1 => x * z >= y * z + z
    BY SMTT(30)
  <2>2. k * w \in Nat /\ q * w \in Nat
    BY SMT
  <2>3. q * w < k * w + w
    BY <1>1, <1>3, <1>5, <2>2
  <2>4. ~(q >= k + 1)
    BY <2>1, <2>2, <2>3
  <2> QED
    BY <2>4
<1>6. Pages <= k => Len(tenant) <= k * Width(PageSize)
  BY PagesReach
<1> QED
  BY <1>1, <1>2, <1>4, <1>5, <1>6

(* The records of a page, whether asked for by page or by position.        *)
After(t, from, w) == SubSeq(t, from + 1, Least(from + w, Len(t)))

LEMMA SliceAfter ==
    ASSUME NEW t \in Seq(Record), NEW from \in Nat, NEW w \in Nat, NEW a \in Nat, a = Least(from, Len(t)),
           NEW rows, rows = After(t, from, w)
    PROVE  Len(rows) = Least(w, Len(t) - a) /\ \A i \in 1..Len(rows) : rows[i] = t[a + i]
<1>0. Len(t) \in Nat /\ \A i \in 1..Len(t) : t[i] \in Record
  BY LenProperties, ElementOfSeq
<1>1. PICK n \in Nat : n = Len(t)
  BY <1>0
<1>2. PICK to \in Nat : to = Least(from + w, n)
  <2>1. Least(from + w, n) \in Nat
    BY DEF Least
  <2> QED
    BY <2>1
<1>3. to = IF from + w < n THEN from + w ELSE n
  BY <1>2 DEF Least
<1>4. a = IF from < n THEN from ELSE n
  BY <1>1 DEF Least
<1>5. PICK start \in Nat : start = from + 1
  OBVIOUS
<1>6. rows = SubSeq(t, start, to) /\ \A i \in start..to : t[i] \in Record
  BY <1>0, <1>1, <1>2, <1>3, <1>5 DEF After
<1>7. /\ Len(rows) = IF start <= to THEN to - start + 1 ELSE 0
      /\ \A i \in 1..to - start + 1 : rows[i] = t[start + i - 1]
  <2>1. /\ Len(SubSeq(t, start, to)) = IF start <= to THEN to - start + 1 ELSE 0
        /\ \A i \in 1..to - start + 1 : SubSeq(t, start, to)[i] = t[start + i - 1]
    BY <1>6, SubSeqProperties
  <2> QED
    BY <1>6, <2>1, Zenon
<1>8. PICK size \in Nat : size = (IF start <= to THEN to - start + 1 ELSE 0) /\ size = Len(rows)
  <2>1. (IF start <= to THEN to - start + 1 ELSE 0) \in Nat
    OBVIOUS
  <2> QED
    BY <1>7, <2>1, Zenon
<1>9. size = IF w < n - a THEN w ELSE n - a
  BY <1>3, <1>4, <1>5, <1>8
<1>10. Len(rows) = Least(w, Len(t) - a)
  BY <1>1, <1>8, <1>9 DEF Least
<1>11. ASSUME NEW i \in 1..Len(rows) PROVE rows[i] = t[a + i]
  <2>1. i \in Nat /\ i >= 1 /\ i <= size
    <3>1. Len(rows) = size
      BY <1>8
    <3>2. i \in 1..size
      BY <3>1
    <3> QED
      BY <3>2
  <2>2. i \in 1..to - start + 1 /\ start + i - 1 = a + i
    BY <1>3, <1>4, <1>5, <1>8, <2>1
  <2> QED
    BY <1>7, <2>2
<1> QED
  BY <1>10, <1>11

LEMMA HeadsAndMore ==
    ASSUME NEW t \in Seq(Record), NEW s \in Seq(Record), NEW rows \in Seq(Record),
           \A i \in 1..Len(s) : s[i] = t[i],
           \A i \in 1..Len(rows) : rows[i] = t[Len(s) + i]
    PROVE  /\ s \o rows \in Seq(Record) /\ Len(s \o rows) = Len(s) + Len(rows)
           /\ \A i \in 1..Len(s \o rows) : (s \o rows)[i] = t[i]
<1>1. Len(s) \in Nat /\ Len(rows) \in Nat
  BY LenProperties
<1>2. /\ s \o rows \in Seq(Record) /\ Len(s \o rows) = Len(s) + Len(rows)
      /\ \A i \in 1..Len(s) + Len(rows) : (s \o rows)[i] = IF i <= Len(s) THEN s[i] ELSE rows[i - Len(s)]
  BY ConcatProperties
<1>3. ASSUME NEW i \in 1..Len(s) + Len(rows) PROVE (s \o rows)[i] = t[i]
  <2>1. CASE i <= Len(s)
    <3>1. i \in 1..Len(s)
      BY <1>1, <2>1
    <3> QED
      BY <1>2, <2>1, <3>1
  <2>2. CASE ~(i <= Len(s))
    <3>1. i - Len(s) \in 1..Len(rows) /\ Len(s) + (i - Len(s)) = i
      BY <1>1, <2>2
    <3> QED
      BY <1>2, <2>2, <3>1
  <2> QED
    BY <2>1, <2>2
<1> QED
  BY <1>2, <1>3

(* The first records of a collection hold none twice.                      *)
LEMMA HeadsOnce ==
    ASSUME tenant \in Tenants, NEW s, Len(s) \in Nat, Len(s) <= Len(tenant), \A i \in 1..Len(s) : s[i] = tenant[i]
    PROVE  OnceEach(s)
<1> SUFFICES ASSUME NEW i \in 1..Len(s), NEW j \in 1..Len(s), i < j
             PROVE  s[i][1] # s[j][1]
  BY DEF OnceEach
<1>1. tenant \in Seq(Record) /\ Len(tenant) \in Nat /\ DOMAIN tenant = 1..Len(tenant)
  BY InputsAssumption, LenProperties
<1>2. i \in DOMAIN tenant /\ j \in DOMAIN tenant /\ i # j
  BY <1>1
<1>3. tenant[i][1] # tenant[j][1]
  BY <1>2, InputsAssumption
<1> QED
  BY <1>3

(* The answer of a service that honors the page, to the walk of a          *)
(* collection that is left alone.                                          *)
LEMMA HonestPages ==
    ASSUME TypeOK, PagedReading, server.mode = "paged", tenant \in Tenants,
           NEW rows \in Rows(From, PageSize)
    PROVE  /\ rows \in Seq(Record) /\ Len(rows) \in Nat
           /\ Len(rows) = Least(Width(PageSize), Len(tenant) - Len(all))
           /\ Len(all \o rows) = Len(all) + Len(rows)
           /\ Heads(all \o rows)
           /\ rows \notin seen /\ ~Repeats(rows)
           /\ Len(rows) > 0 => \A k \in 1..Len(all) : rows[1] # tenant[k]
           /\ \A i \in 1..Len(rows) : rows[i] = tenant[Len(all) + i]
<1>0. /\ tenant \in Seq(Record) /\ all \in Seq(Record) /\ Len(tenant) \in Nat /\ Len(all) \in Nat
      /\ DOMAIN tenant = 1..Len(tenant) /\ page \in Nat /\ page > 0
  BY LenProperties DEF TypeOK
<1>1. rows \in Seq(Record) /\ Len(rows) \in Nat /\ From \in Nat
  BY PagesAreRecords, LenProperties, StartsAreNat
<1>2. Width(PageSize) \in Nat
  BY WidthIs
<1>3. Len(all) = Least(From, Len(tenant))
  <2>1. Len(all) = Least((page - 1) * Width(PageSize), Len(tenant)) /\ Len(all) <= Len(tenant)
    BY DEF PagedReading, Heads
  <2>2. Len(all) = Least(Len(all), Len(tenant))
    BY <1>0, <2>1 DEF Least
  <2>3. CASE walker = "zidentity"
    BY <2>2, <2>3 DEF From
  <2>4. CASE walker = "zdx"
    <3>1. declared = IF page = 1 THEN -1 ELSE Len(all)
      BY <2>4 DEF PagedReading
    <3>2. CASE page = 1
      <4>1. (page - 1) * Width(PageSize) = 0
        BY <1>2, <3>2
      <4>2. From = 0
        BY <2>4, <3>1, <3>2 DEF From
      <4> QED
        BY <2>1, <4>1, <4>2
    <3>3. CASE page # 1
      <4>1. declared = Len(all) /\ ~(declared < 0)
        BY <1>0, <3>1, <3>3
      <4>2. From = Len(all)
        BY <2>4, <4>1 DEF From
      <4> QED
        BY <2>2, <4>2
    <3> QED
      BY <3>2, <3>3
  <2>5. CASE walker \notin {"zidentity", "zdx"}
    <3>1. From = (page - 1) * Width(PageSize)
      BY <2>5, Zenon DEF From
    <3> QED
      BY <2>1, <3>1
  <2> QED
    BY <2>3, <2>4, <2>5
<1>4. rows = SubSeq(tenant, From + 1, Least(From + Width(PageSize), Len(tenant)))
  BY DEF Rows, Slice
<1>5. /\ Len(rows) = Least(Width(PageSize), Len(tenant) - Len(all))
      /\ \A i \in 1..Len(rows) : rows[i] = tenant[Len(all) + i]
  <2>1. PICK from \in Nat, w \in Nat, a \in Nat : from = From /\ w = Width(PageSize) /\ a = Len(all)
    BY <1>0, <1>1, <1>2
  <2>2. a = Least(from, Len(tenant)) /\ rows = After(tenant, from, w)
    BY <1>3, <1>4, <2>1 DEF After
  <2>3. Len(rows) = Least(w, Len(tenant) - a) /\ \A i \in 1..Len(rows) : rows[i] = tenant[a + i]
    BY <1>0, <2>2, SliceAfter
  <2> QED
    BY <2>1, <2>3
<1>6. Len(all) <= Len(tenant) /\ \A i \in 1..Len(all) : all[i] = tenant[i]
  BY DEF PagedReading, Heads
<1>7. /\ Len(all \o rows) = Len(all) + Len(rows)
      /\ \A i \in 1..Len(all \o rows) : (all \o rows)[i] = tenant[i]
  BY <1>0, <1>1, <1>5, <1>6, HeadsAndMore
<1>8. Len(all) + Len(rows) <= Len(tenant)
  <2>1. Len(tenant) - Len(all) \in Nat
    BY <1>0, <1>6
  <2>2. Len(rows) <= Len(tenant) - Len(all)
    BY <1>2, <1>5, <2>1, LeastIs
  <2> QED
    BY <1>0, <1>1, <2>2
<1>9. Heads(all \o rows)
  BY <1>7, <1>8 DEF Heads
<1>10. ~Repeats(rows)
  <2>1. Len(all \o rows) \in Nat /\ Len(all \o rows) <= Len(tenant)
    BY <1>0, <1>1, <1>7, <1>8
  <2> QED
    BY <1>7, <2>1, HeadsOnce DEF Repeats
<1>11. ASSUME Len(rows) > 0, NEW k \in 1..Len(all) PROVE rows[1] # tenant[k]
  <2>1. rows[1] = tenant[Len(all) + 1]
    BY <1>1, <1>5, <1>11
  <2>2. k \in DOMAIN tenant /\ Len(all) + 1 \in DOMAIN tenant /\ k # Len(all) + 1
    BY <1>0, <1>1, <1>6, <1>8, <1>11
  <2>3. tenant[k][1] # tenant[Len(all) + 1][1]
    BY <2>2, InputsAssumption
  <2> QED
    BY <2>1, <2>3
<1>12. rows \notin seen
  <2> SUFFICES ASSUME rows \in seen PROVE FALSE
    OBVIOUS
  <2>1. Len(rows) > 0 /\ \E k \in 1..Len(all) : rows[1] = tenant[k]
    BY DEF PagedReading
  <2> QED
    BY <1>11, <2>1
<1> QED
  BY <1>1, <1>5, <1>7, <1>9, <1>10, <1>11, <1>12

(* Steps of a walk through such a collection.                              *)
LEMMA StillEnds ==
    ASSUME NEW outcome \in {"found", "failed"}, Finish(outcome), StillInv
    PROVE  StillInv'
BY DEF Finish, environment, StillInv, Over

LEMMA StillCompletes ==
    ASSUME NEW rows, Complete(rows), StillInv, Honest => Exactly(all \o rows)
    PROVE  StillInv'
<1>1. Honest' => Honest
  BY DEF Complete, Finish, environment, Honest, Trusted, Width
<1>2. Exactly(all)' <=> Exactly(all \o rows)
  BY DEF Complete, Finish, Accept, environment, Exactly
<1> QED
  BY <1>1, <1>2 DEF Complete, Finish, environment, StillInv, Over

LEMMA StillRefuses ==
    ASSUME Refuse, StillInv, ~Honest
    PROVE  StillInv'
<1>1. Honest' => Honest
  BY DEF Refuse, Finish, environment, Honest, Trusted, Width
<1> QED
  BY <1>1 DEF Refuse, Finish, environment, StillInv

LEMMA StillGoesOn ==
    ASSUME NEW rows, NEW total, NextPage(rows, total), state = "reading", StillInv,
           Honest => HonestReading'
    PROVE  StillInv'
<1>1. Honest' => Honest
  BY DEF NextPage, environment, Honest, Trusted, Width
<1> QED
  BY <1>1 DEF NextPage, environment, StillInv, Over

(* All of it was read when as many records were as it holds.               *)
LEMMA HeadsAreAll ==
    ASSUME tenant \in Seq(Record), NEW s, DOMAIN s = 1..Len(s), Len(s) \in Nat, Heads(s), Len(s) = Len(tenant)
    PROVE  Exactly(s)
<1>1. DOMAIN tenant = 1..Len(tenant)
  BY LenProperties
<1>2. DOMAIN s = DOMAIN tenant /\ \A i \in DOMAIN tenant : s[i] = tenant[i]
  BY <1>1 DEF Heads
<1>3. Contents(s) = Contents(tenant)
  BY <1>2, Zenon DEF Contents
<1> QED
  BY <1>3 DEF Exactly

LEMMA HonestCompletes ==
    ASSUME TypeOK, PagedReading, server.mode = "paged", tenant \in Tenants,
           NEW rows \in Rows(From, PageSize), Len(all) + Len(rows) = Len(tenant)
    PROVE  Exactly(all \o rows)
<1>1. rows \in Seq(Record) /\ all \in Seq(Record) /\ tenant \in Seq(Record)
  BY PagesAreRecords DEF TypeOK
<1>2. all \o rows \in Seq(Record) /\ Len(all \o rows) = Len(all) + Len(rows)
  BY <1>1, ConcatProperties
<1>3. DOMAIN (all \o rows) = 1..Len(all \o rows) /\ Len(all \o rows) \in Nat
  BY <1>2, LenProperties
<1>4. Heads(all \o rows)
  BY HonestPages
<1> QED
  BY <1>1, <1>2, <1>3, <1>4, HeadsAreAll

(* Where the walk is after a page.                                         *)
LEMMA HonestEnds ==
    ASSUME TypeOK, PagedReading, server.mode = "paged", tenant \in Tenants,
           Len(tenant) < Width(PageSize) * MaxPages,
           NEW rows \in Rows(From, PageSize)
    PROVE  /\ Len(all) + Len(rows) = Least(page * Width(PageSize), Len(tenant))
           /\ Len(all) + Len(rows) <= Len(tenant)
           /\ Len(rows) < Width(PageSize) => Len(all) + Len(rows) = Len(tenant)
           /\ Len(rows) = 0 => Len(all) = Len(tenant)
           /\ Len(tenant) <= page * Width(PageSize) => Len(all) + Len(rows) = Len(tenant)
           /\ Len(all) + Len(rows) < Len(tenant) \/ Len(rows) = Width(PageSize) =>
                 page < MaxPages /\ Len(rows) = Width(PageSize)
<1>1. PICK n \in Nat, w \in Nat, p \in Nat, a \in Nat, r \in Nat :
          n = Len(tenant) /\ w = Width(PageSize) /\ p = page /\ a = Len(all) /\ r = Len(rows)
  <2>1. Len(rows) \in Nat
    BY HonestPages
  <2> QED
    BY <2>1, WidthIs, LenProperties DEF TypeOK
<1>2. a = Least((p - 1) * w, n)
  BY <1>1 DEF PagedReading
<1>3. r = Least(w, n - a)
  BY <1>1, HonestPages
<1>4. w > 0 /\ p > 0 /\ MaxPages \in Nat /\ n < w * MaxPages
  BY <1>1, WidthIs, WalkAssumption DEF TypeOK
<1>5. PICK m \in Nat : m = (p - 1) * w /\ p * w = m + w
  <2>1. p - 1 \in Nat
    BY <1>4
  <2>2. \A x \in Nat, y \in Nat : x * y \in Nat /\ (x + 1) * y = x * y + y
    BY SMT
  <2>3. p = (p - 1) + 1
    OBVIOUS
  <2>4. p * w = (p - 1) * w + w
    BY <2>1, <2>2, <2>3
  <2> QED
    BY <2>1, <2>2, <2>4
<1>6. a = (IF m < n THEN m ELSE n) /\ r = (IF w < n - a THEN w ELSE n - a)
  BY <1>2, <1>3, <1>5 DEF Least
<1>7. a + r = Least(m + w, n) /\ a + r <= n
  BY <1>6 DEF Least
<1>8. (r < w => a + r = n) /\ (r = 0 => a = n) /\ (n <= m + w => a + r = n)
  BY <1>4, <1>6
<1>9. ASSUME a + r < n \/ r = w PROVE p < MaxPages /\ r = w
  <2>1. r = w /\ m + w <= n
    BY <1>4, <1>6, <1>9
  <2>2. p * w < w * MaxPages
    BY <1>4, <1>5, <2>1, SMT
  <2>3. \A x \in Nat, y \in Nat, z \in Nat : x >= y => z * x >= z * y
    BY SMTT(30)
  <2>4. ~(p >= MaxPages)
    <3>1. p * w = w * p /\ w * p \in Nat /\ w * MaxPages \in Nat
      BY <1>4, SMT
    <3> QED
      BY <1>4, <2>2, <2>3, <3>1
  <2> QED
    BY <1>4, <2>1, <2>4
<1> QED
  BY <1>1, <1>5, <1>7, <1>8, <1>9

LEMMA HonestContinues ==
    ASSUME TypeOK, PagedReading, server.mode = "paged", tenant \in Tenants,
           Len(tenant) < Width(PageSize) * MaxPages,
           NEW rows \in Rows(From, PageSize), NEW total \in Int, NextPage(rows, total),
           page < MaxPages, Len(rows) > 0,
           walker = "zccTotal" => total = Len(tenant),
           walker = "zpa" => total = Pages /\ page < Pages,
           walker = "zidentity" => total \in {-1, Len(tenant)},
           walker = "zdx" => total = Len(all) + Len(rows)
    PROVE  PagedReading'
<1>0. /\ Len(tenant) \in Nat /\ Len(all) \in Nat /\ Len(rows) \in Nat /\ page \in Nat /\ page > 0
      /\ MaxPages \in Nat /\ Width(PageSize) \in Nat /\ Pages \in Int
  <2>1. Len(rows) \in Nat
    BY HonestPages
  <2>2. Width(PageSize) \in Nat /\ Width(PageSize) > 0
    BY WidthIs
  <2>3. Len(tenant) \in Nat /\ Len(all) \in Nat /\ page \in Nat /\ page > 0 /\ MaxPages \in Nat
    BY LenProperties, WalkAssumption DEF TypeOK
  <2>4. Pages \in Int
    BY <2>2, <2>3 DEF Pages
  <2> QED
    BY <2>1, <2>2, <2>3, <2>4
<1>1. /\ Len(rows) = Least(Width(PageSize), Len(tenant) - Len(all))
      /\ Len(all \o rows) = Len(all) + Len(rows)
      /\ Heads(all \o rows)
      /\ \A i \in 1..Len(rows) : rows[i] = tenant[Len(all) + i]
  BY HonestPages
<1>2. /\ Len(all) + Len(rows) = Least(page * Width(PageSize), Len(tenant))
      /\ Len(all) + Len(rows) <= Len(tenant)
  BY HonestEnds
<1>3. /\ tenant' = tenant /\ server' = server /\ walker' = walker /\ state' = state
      /\ page' = page + 1 /\ all' = all \o rows /\ seen' = seen \cup {rows} /\ declared' = total
      /\ first' = IF page = 1 THEN rows ELSE first
      /\ cursors' = IF walker = "zdx" THEN cursors \cup {total} ELSE cursors
  BY DEF NextPage, Accept, environment
<1>4. Width(PageSize)' = Width(PageSize) /\ Pages' = Pages
  BY <1>3 DEF Width, Pages
<1>5. (Len(all) = Least((page - 1) * Width(PageSize), Len(tenant)) /\ Heads(all))'
  <2>1. page' - 1 = page
    BY <1>0, <1>3
  <2>2. Len(all') = Least((page' - 1) * Width(PageSize)', Len(tenant'))
    BY <1>1, <1>2, <1>3, <1>4, <2>1, Zenon
  <2>3. Heads(all)'
    BY <1>1, <1>3 DEF Heads
  <2> QED
    BY <2>2, <2>3
<1>6. ASSUME NEW s \in seen'
      PROVE  Len(s) > 0 /\ \E k \in 1..Len(all') : s[1] = tenant'[k]
  <2>1. CASE s \in seen
    <3>1. Len(s) > 0 /\ \E k \in 1..Len(all) : s[1] = tenant[k]
      BY <2>1 DEF PagedReading
    <3>2. \A k \in 1..Len(all) : k \in 1..Len(all')
      BY <1>0, <1>1, <1>3
    <3> QED
      BY <1>3, <3>1, <3>2
  <2>2. CASE s = rows
    <3>1. 1 \in 1..Len(rows) /\ Len(all) + 1 \in 1..Len(all')
      BY <1>0, <1>1, <1>3
    <3> QED
      BY <1>1, <1>3, <2>2, <3>1
  <2> QED
    BY <1>3, <2>1, <2>2
<1>7. (walker = "zia" /\ page > 1 =>
          Len(first) = Least(Width(PageSize), Len(tenant)) /\ Len(first) <= Len(all) /\ Heads(first))'
  <2> SUFFICES ASSUME walker = "zia"
               PROVE  /\ Len(first') = Least(Width(PageSize), Len(tenant)) /\ Len(first') <= Len(all) + Len(rows)
                      /\ Len(first') <= Len(tenant) /\ \A i \in 1..Len(first') : first'[i] = tenant[i]
    BY <1>1, <1>3, <1>4 DEF Heads
  <2>1. CASE page = 1
    <3>1. first' = rows
      BY <1>3, <2>1
    <3>2. Len(all) = 0
      <4>1. (page - 1) * Width(PageSize) = 0
        BY <1>0, <2>1
      <4>2. Len(all) = Least(0, Len(tenant))
        BY <4>1 DEF PagedReading
      <4> QED
        BY <1>0, <4>2 DEF Least
    <3>3. Len(tenant) - Len(all) = Len(tenant) /\ \A i \in 1..Len(rows) : Len(all) + i = i
      BY <1>0, <3>2
    <3> QED
      BY <1>0, <1>1, <1>2, <3>1, <3>2, <3>3
  <2>2. CASE page > 1
    <3>1. first' = first
      BY <1>3, <2>2
    <3>2. Len(first) = Least(Width(PageSize), Len(tenant)) /\ Len(first) <= Len(all) /\ Heads(first)
      BY <2>2 DEF PagedReading
    <3>3. Len(first) \in Nat
      BY LenProperties DEF TypeOK
    <3> QED
      BY <1>0, <3>1, <3>2, <3>3 DEF Heads
  <2> QED
    BY <1>0, <2>1, <2>2
<1>8. (walker = "zccTotal" => declared = IF page = 1 THEN -1 ELSE Len(tenant))'
  BY <1>0, <1>3
<1>9. (walker = "zpa" /\ page > 1 => declared = Pages /\ page <= Pages)'
  <2> SUFFICES ASSUME walker = "zpa" PROVE total = Pages /\ page + 1 <= Pages
    BY <1>3, <1>4
  <2> QED
    BY <1>0
<1>10. (walker = "zidentity" => declared \in {-1, Len(tenant)})'
  BY <1>3
<1>11. (walker = "zdx" => /\ declared = IF page = 1 THEN -1 ELSE Len(all)
                          /\ \A cursor \in cursors : cursor <= Len(all))'
  <2> SUFFICES ASSUME walker = "zdx"
               PROVE  total = Len(all \o rows) /\ \A cursor \in cursors \cup {total} : cursor <= Len(all \o rows)
    BY <1>0, <1>3
  <2>1. \A cursor \in cursors : cursor <= Len(all) /\ cursor \in Int
    BY DEF PagedReading, TypeOK
  <2> QED
    BY <1>0, <1>1, <2>1
<1>12. (state = "reading" /\ page <= MaxPages)'
  BY <1>0, <1>3 DEF PagedReading
<1> QED
  BY <1>5, <1>6, <1>7, <1>8, <1>9, <1>10, <1>11, <1>12 DEF PagedReading

LEMMA HonestIs ==
    ASSUME TypeOK, StillInv, Honest, state \notin Over
    PROVE  /\ tenant \in Tenants /\ Len(tenant) < Width(PageSize) * MaxPages
           /\ server.totals \in {"true", "none"}
           /\ server.totals = "none" => walker \notin {"zccTotal", "zpa"}
           /\ walker \in {"zcc", "ztw", "single"} => Width(PageSize) = PageSize
           /\ walker = "single" => Len(tenant) < PageSize
           /\ server.mode = "paged" => PagedReading
           /\ server.mode # "paged" => /\ server.mode = "whole" /\ WholeReading
                                       /\ walker \notin ReadsMetadata /\ Len(tenant) < PageSize
<1>1. changes = 0 /\ Len(tenant) < Width(PageSize) * MaxPages
  BY DEF Honest
<1>2. tenant \in Tenants
  BY <1>1 DEF StillInv
<1>3. HonestReading
  BY DEF StillInv
<1>4. server.totals \in {"true", "none"} /\ (walker \in {"zcc", "ztw", "single"} => server.cap >= PageSize)
  BY DEF Honest, Trusted, TypeOK
<1>5. walker \in {"zcc", "ztw", "single"} => Width(PageSize) = PageSize
  BY <1>4, WidthIs
<1> QED
  BY <1>1, <1>2, <1>3, <1>4, <1>5 DEF Honest, HonestReading

LEMMA BackwardsIs ==
    ASSUME NEW s \in Seq(Record)
    PROVE  Len(Backwards(s)) = Len(s) /\ Backwards(s) \in Seq(Record) /\ Contents(Backwards(s)) = Contents(s)
<1>1. PICK n \in Nat : n = Len(s) /\ DOMAIN s = 1..n
  BY LenProperties
<1>2. \A i \in 1..n : s[i] \in Record
  BY <1>1, ElementOfSeq
<1>3. Backwards(s) = [i \in 1..n |-> s[n + 1 - i]]
  BY <1>1, Zenon DEF Backwards
<1>4. \A i \in 1..n : n + 1 - i \in 1..n /\ n + 1 - (n + 1 - i) = i
  OBVIOUS
<1>5. Backwards(s) \in [1..n -> Record]
  BY <1>2, <1>3, <1>4
<1>6. Backwards(s) \in Seq(Record)
  BY <1>5, SeqDef
<1>7. Len(Backwards(s)) = n
  BY <1>5, <1>6, LenProperties
<1>8. Contents(Backwards(s)) = Contents(s)
  <2>1. DOMAIN Backwards(s) = 1..n /\ \A i \in 1..n : Backwards(s)[i] = s[n + 1 - i]
    BY <1>3
  <2>2. ASSUME NEW i \in 1..n PROVE \E j \in 1..n : s[i] = Backwards(s)[j]
    BY <1>4, <2>1
  <2>3. ASSUME NEW i \in 1..n PROVE \E j \in 1..n : Backwards(s)[i] = s[j]
    BY <1>4, <2>1
  <2>4. Contents(s) = {s[i] : i \in 1..n} /\ Contents(Backwards(s)) = {Backwards(s)[i] : i \in 1..n}
    BY <1>1, <2>1, Zenon DEF Contents
  <2> QED
    BY <2>2, <2>3, <2>4
<1> QED
  BY <1>1, <1>6, <1>7, <1>8

(* The answer of a service that sends everything whatever it is asked.     *)
LEMMA WholeAnswers ==
    ASSUME TypeOK, server.mode = "whole", NEW from, NEW size, NEW rows \in Rows(from, size)
    PROVE  /\ rows \in Seq(Record)
           /\ rows = tenant \/ rows = Backwards(tenant)
           /\ Exactly(rows) /\ Exactly(<<>> \o rows)
<1>1. tenant \in Seq(Record)
  BY DEF TypeOK
<1>2. rows = tenant \/ rows = Backwards(tenant)
  BY DEF Rows
<1>3. rows \in Seq(Record) /\ Exactly(rows)
  BY <1>1, <1>2, BackwardsIs DEF Exactly
<1>4. <<>> \o rows = rows
  BY <1>3, ConcatEmptySeq
<1> QED
  BY <1>2, <1>3, <1>4

LEMMA CeilingIsFar == TypeOK /\ StillInv /\ TooManyPages => StillInv'
<1> SUFFICES ASSUME TypeOK, StillInv, TooManyPages PROVE StillInv'
  OBVIOUS
<1>1. ASSUME Honest PROVE FALSE
  <2>1. state \notin Over /\ page > MaxPages /\ MaxPages \in Nat /\ MaxPages > 1 /\ page \in Nat
    BY WalkAssumption DEF TooManyPages, AtCeiling, Over, TypeOK
  <2>2. page <= MaxPages \/ page = 1 \/ page = 2
    BY <1>1, <2>1, HonestIs DEF PagedReading, WholeReading
  <2> QED
    BY <2>1, <2>2
<1> QED
  BY <1>1, StillRefuses DEF TooManyPages

(* A collection that changes is no longer left alone.                      *)
LEMMA ChangesEndStillness ==
    ASSUME TypeOK, Changed
    PROVE  StillInv'
<1>1. changes' # 0
  BY DEF Changed, TypeOK
<1> QED
  BY <1>1 DEF StillInv, Honest

LEMMA ShortStill == TypeOK /\ StillInv /\ (ShortPage \/ SinglePage) => StillInv'
<1> SUFFICES ASSUME TypeOK, StillInv, ShortPage \/ SinglePage PROVE StillInv'
  OBVIOUS
<1>1. walker \in {"zcc", "ztw", "single"} /\ state = "reading" /\ state \notin Over
  BY DEF ShortPage, SinglePage, Reading, Over
<1>2. PageSize \in Nat /\ PageSize > 0
  BY WalkAssumption
<1>3. PICK rows \in Rows(From, PageSize) :
          \/ Len(rows) < PageSize /\ Complete(rows)
          \/ walker # "single" /\ ~(Len(rows) < PageSize) /\ NextPage(rows, declared)
          \/ walker = "single" /\ Len(rows) >= PageSize /\ Refuse
  <2>1. PICK rows \in Rows(From, PageSize) :
          \/ walker # "single" /\ (IF Len(rows) < PageSize THEN Complete(rows) ELSE NextPage(rows, declared))
          \/ walker = "single" /\ (IF Len(rows) >= PageSize THEN Refuse ELSE Complete(rows))
    BY DEF ShortPage, SinglePage, Reading
  <2>2. Len(rows) \in Nat
    BY PagesAreRecords, LenProperties
  <2> QED
    BY <1>2, <2>1, <2>2
<1>4. Len(rows) \in Nat
  BY PagesAreRecords, LenProperties
<1>5. ASSUME Honest, server.mode = "paged"
      PROVE  /\ PagedReading /\ tenant \in Tenants /\ Width(PageSize) = PageSize
             /\ Len(rows) < PageSize => Exactly(all \o rows)
             /\ Len(rows) = PageSize \/ Len(rows) < PageSize
             /\ Len(rows) = PageSize => page < MaxPages /\ walker # "single"
  <2>1. /\ tenant \in Tenants /\ Len(tenant) < Width(PageSize) * MaxPages /\ Width(PageSize) = PageSize
        /\ walker = "single" => Len(tenant) < PageSize
        /\ PagedReading
    BY <1>1, <1>5, HonestIs
  <2>2. Len(tenant) \in Nat /\ Len(all) \in Nat
    BY LenProperties DEF TypeOK
  <2>3. /\ Len(all) + Len(rows) <= Len(tenant)
        /\ Len(rows) < PageSize => Len(all) + Len(rows) = Len(tenant)
        /\ Len(rows) = PageSize => page < MaxPages
    BY <1>5, <2>1, HonestEnds
  <2>4. Len(rows) <= PageSize
    <3>1. Len(rows) = Least(Width(PageSize), Len(tenant) - Len(all))
      BY <1>5, <2>1, HonestPages
    <3> QED
      BY <1>2, <1>4, <2>1, <2>2, <2>3, <3>1, LeastIs
  <2>5. Len(rows) < PageSize => Exactly(all \o rows)
    BY <1>5, <2>1, <2>3, HonestCompletes
  <2> QED
    BY <1>2, <1>4, <2>1, <2>2, <2>3, <2>4, <2>5
<1>6. ASSUME Honest, server.mode # "paged"
      PROVE  Exactly(all \o rows) /\ Len(rows) < PageSize
  <2>1. server.mode = "whole" /\ all = <<>> /\ Len(tenant) < PageSize
    BY <1>1, <1>6, HonestIs DEF WholeReading
  <2> QED
    BY <2>1, WholeAnswers DEF Exactly
<1>7. CASE Len(rows) < PageSize /\ Complete(rows)
  BY <1>5, <1>6, <1>7, StillCompletes
<1>8. CASE walker = "single" /\ Len(rows) >= PageSize /\ Refuse
  BY <1>2, <1>4, <1>5, <1>6, <1>8, StillRefuses
<1>9. CASE walker # "single" /\ ~(Len(rows) < PageSize) /\ NextPage(rows, declared)
  <2>1. ASSUME Honest PROVE HonestReading'
    <3>1. server.mode = "paged"
      BY <1>6, <1>9, <2>1
    <3>2. page < MaxPages /\ Len(rows) > 0 /\ PagedReading /\ tenant \in Tenants
      BY <1>2, <1>5, <1>9, <2>1, <3>1
    <3>3. Len(tenant) < Width(PageSize) * MaxPages /\ declared \in Int
      BY <2>1 DEF Honest, TypeOK
    <3>4. PagedReading'
      BY <1>1, <1>9, <3>1, <3>2, <3>3, HonestContinues
    <3> QED
      BY <1>9, <3>1, <3>4 DEF HonestReading, NextPage, environment
  <2> QED
    BY <1>1, <1>9, <2>1, StillGoesOn
<1> QED
  BY <1>3, <1>7, <1>8, <1>9

(* An honest answer, with what it declares, to a walker that looks at it.  *)
LEMMA HonestAnswer ==
    ASSUME TypeOK, StillInv, Honest, state = "reading", walker \in ReadsMetadata,
           NEW rows \in Rows(From, PageSize), NEW m \in Metadata(rows)
    PROVE  /\ server.mode = "paged" /\ PagedReading /\ tenant \in Tenants
           /\ Len(tenant) < Width(PageSize) * MaxPages
           /\ rows \in Seq(Record) /\ Len(rows) \in Nat /\ Len(all) \in Nat /\ Len(tenant) \in Nat
           /\ walker \in {"zidentity", "zdx"} => From = Len(all)
           /\ m.next <=> From + Len(rows) < Len(tenant)
           /\ m.offset = Offset(rows)
           /\ m.total = IF server.totals = "none" THEN 0 ELSE IF walker = "zpa" THEN Pages ELSE Len(tenant)
           /\ m.size \in {0, Width(PageSize)}
           /\ walker \in {"zccTotal", "zpa"} => server.totals # "none"
<1>1. /\ tenant \in Tenants /\ Len(tenant) < Width(PageSize) * MaxPages
      /\ server.totals \in {"true", "none"} /\ server.mode = "paged" /\ PagedReading
      /\ walker \in {"zccTotal", "zpa"} => server.totals # "none"
  <2>1. state \notin Over
    BY DEF Over
  <2> QED
    BY <2>1, HonestIs
<1>2. rows \in Seq(Record) /\ Len(rows) \in Nat /\ Len(all) \in Nat /\ Len(tenant) \in Nat
  BY PagesAreRecords, LenProperties DEF TypeOK
<1>3. ASSUME walker \in {"zidentity", "zdx"} PROVE From = Len(all)
  <2>1. CASE walker = "zidentity"
    BY <2>1 DEF From
  <2>2. CASE walker = "zdx" /\ page = 1
    <3>1. (page - 1) * Width(PageSize) = 0
      BY <2>2, WidthIs
    <3>2. Len(all) = Least(0, Len(tenant))
      BY <1>1, <3>1 DEF PagedReading
    <3>3. declared = -1
      BY <1>1, <2>2 DEF PagedReading
    <3>4. Len(all) = 0
      BY <1>2, <3>2 DEF Least
    <3>5. From = 0
      BY <2>2, <3>3 DEF From
    <3> QED
      BY <3>4, <3>5
  <2>3. CASE walker = "zdx" /\ page # 1
    <3>1. declared = Len(all)
      BY <1>1, <2>3 DEF PagedReading
    <3> QED
      BY <1>2, <2>3, <3>1 DEF From
  <2> QED
    BY <1>3, <2>1, <2>2, <2>3
<1>4. m.size \in {0, Width(PageSize)}
  <2>1. m.size = IF server.totals = "none" THEN 0 ELSE Width(PageSize)
    BY <1>1 DEF Metadata
  <2> QED
    BY <2>1
<1>5. /\ m.next <=> From + Len(rows) < Len(tenant)
      /\ m.offset = Offset(rows)
      /\ server.totals = "true" => m.total = IF walker = "zpa" THEN Pages ELSE Len(tenant)
      /\ server.totals = "none" => m.total = 0
  BY <1>1, <1>2, MetadataIs
<1>6. m.total = IF server.totals = "none" THEN 0 ELSE IF walker = "zpa" THEN Pages ELSE Len(tenant)
  BY <1>1, <1>5
<1> QED
  BY <1>1, <1>2, <1>3, <1>4, <1>5, <1>6

(* A walk that is honestly answered and goes on.                           *)
LEMMA StillPage ==
    ASSUME TypeOK, StillInv, state = "reading", NEW rows \in Rows(From, PageSize), NEW total \in Int,
           NextPage(rows, total),
           Honest => /\ server.mode = "paged" /\ PagedReading /\ tenant \in Tenants
                     /\ page < MaxPages /\ Len(rows) > 0
                     /\ walker = "zccTotal" => total = Len(tenant)
                     /\ walker = "zpa" => total = Pages /\ page < Pages
                     /\ walker = "zidentity" => total \in {-1, Len(tenant)}
                     /\ walker = "zdx" => total = Len(all) + Len(rows)
    PROVE  StillInv'
<1>1. ASSUME Honest PROVE HonestReading'
  <2>1. Len(tenant) < Width(PageSize) * MaxPages
    BY <1>1 DEF Honest
  <2>2. PagedReading'
    BY <1>1, <2>1, HonestContinues
  <2> QED
    BY <1>1, <2>2 DEF HonestReading, NextPage, environment
<1> QED
  BY <1>1, StillGoesOn

LEMMA ZidentityStill == TypeOK /\ StillInv /\ ZidentityPage => StillInv'
<1> SUFFICES ASSUME TypeOK, StillInv, ZidentityPage PROVE StillInv'
  OBVIOUS
<1>0. state = "reading" /\ walker = "zidentity" /\ walker \in ReadsMetadata
  BY DEF ZidentityPage, Reading, ReadsMetadata
<1>1. PICK rows \in Rows(From, PageSize) : \E m \in Metadata(rows) :
          \/ ZidentityRefuses(rows, m) /\ Refuse
          \/ ~m.next /\ Complete(rows)
          \/ m.next /\ NextPage(rows, ZidentityTotal(m))
  BY DEF ZidentityPage
<1>2. PICK m \in Metadata(rows) :
          \/ ZidentityRefuses(rows, m) /\ Refuse
          \/ ~m.next /\ Complete(rows)
          \/ m.next /\ NextPage(rows, ZidentityTotal(m))
  BY <1>1
<1>3. PICK n \in Nat, a \in Nat, r \in Nat : n = Len(tenant) /\ a = Len(all) /\ r = Len(rows)
  BY PagesAreRecords, LenProperties DEF TypeOK
<1>4. ASSUME Honest
      PROVE  /\ ~ZidentityRefuses(rows, m)
             /\ ~m.next => Exactly(all \o rows)
             /\ m.next => page < MaxPages /\ r > 0
             /\ ZidentityTotal(m) \in {-1, Len(tenant)}
             /\ server.mode = "paged" /\ PagedReading /\ tenant \in Tenants
  <2>1. /\ server.mode = "paged" /\ PagedReading /\ tenant \in Tenants
        /\ Len(tenant) < Width(PageSize) * MaxPages
        /\ From = Len(all)
        /\ m.next <=> From + Len(rows) < Len(tenant)
        /\ m.offset = Offset(rows)
        /\ m.total \in {0, Len(tenant)}
        /\ m.size \in {0, Width(PageSize)}
        /\ rows \in Seq(Record)
    BY <1>0, <1>4, HonestAnswer
  <2>2. /\ Len(all) + Len(rows) <= Len(tenant)
        /\ Len(rows) = 0 => Len(all) = Len(tenant)
        /\ Len(all) + Len(rows) < Len(tenant) => page < MaxPages
    BY <2>1, HonestEnds
  <2>3. Len(rows) = Least(Width(PageSize), Len(tenant) - Len(all)) /\ rows \notin seen
    BY <2>1, HonestPages
  <2>4. m.next <=> a + r < n
    BY <1>3, <2>1
  <2>5. PICK w \in Nat : w = Width(PageSize) /\ w > 0 /\ r <= w
    <3>1. Width(PageSize) \in Nat /\ Width(PageSize) > 0
      BY WidthIs
    <3>2. n - a \in Nat
      BY <1>3, <2>2
    <3>3. r <= Width(PageSize)
      BY <1>3, <2>3, <3>1, <3>2, LeastIs
    <3> QED
      BY <3>1, <3>3
  <2>6. declared \in {-1, n} /\ m.total \in {0, n}
    BY <1>0, <1>3, <2>1 DEF PagedReading
  <2>7. ZidentityTotal(m) \in {-1, n} /\ (ZidentityTotal(m) > 0 => ZidentityTotal(m) = n)
    BY <2>6 DEF ZidentityTotal
  <2>8. m.offset = Len(all)
    BY <1>0, <2>1 DEF Offset
  <2>9. ~(m.size < 0) /\ ~(m.size > 0 /\ Len(rows) > m.size)
    BY <1>3, <2>1, <2>5
  <2>10. ~(rows = <<>> /\ m.next)
    <3>1. rows = <<>> => r = 0
      BY <1>3, <2>1, EmptySeq
    <3> QED
      BY <1>3, <2>2, <2>4, <3>1
  <2>11. a + r <= n
    BY <1>3, <2>2
  <2>12. ~(m.total > 0 /\ declared > 0 /\ m.total # declared) /\ ~(m.total < 0)
    BY <2>6
  <2>13. ~(ZidentityTotal(m) > 0 /\ (\/ a + r > ZidentityTotal(m) \/ (a + r = ZidentityTotal(m) /\ m.next)
                                     \/ (a + r < ZidentityTotal(m) /\ ~m.next)))
    BY <2>4, <2>7, <2>11
  <2>14. ~ZidentityRefuses(rows, m)
    BY <1>3, <2>3, <2>8, <2>9, <2>10, <2>12, <2>13 DEF ZidentityRefuses
  <2>15. ~m.next => Exactly(all \o rows)
    <3>1. ~m.next => Len(all) + Len(rows) = Len(tenant)
      BY <1>3, <2>4, <2>11
    <3> QED
      BY <2>1, <3>1, HonestCompletes
  <2>16. m.next => page < MaxPages /\ r > 0
    BY <1>3, <2>2, <2>4
  <2> QED
    BY <1>3, <2>1, <2>7, <2>14, <2>15, <2>16
<1>5. CASE ZidentityRefuses(rows, m) /\ Refuse
  BY <1>4, <1>5, StillRefuses
<1>6. CASE ~m.next /\ Complete(rows)
  BY <1>4, <1>6, StillCompletes
<1>7. CASE m.next /\ NextPage(rows, ZidentityTotal(m))
  <2>1. PICK total \in Int : total = ZidentityTotal(m)
    <3>1. rows \in Seq(Record)
      BY PagesAreRecords
    <3> QED
      BY <3>1, MetadataTypes DEF TypeOK, ZidentityTotal
  <2> QED
    BY <1>0, <1>3, <1>4, <1>7, <2>1, StillPage
<1> QED
  BY <1>2, <1>5, <1>6, <1>7

LEMMA ZDXStill == TypeOK /\ StillInv /\ ZDXPage => StillInv'
<1> SUFFICES ASSUME TypeOK, StillInv, ZDXPage PROVE StillInv'
  OBVIOUS
<1>0. state = "reading" /\ walker = "zdx" /\ walker \in ReadsMetadata
  BY DEF ZDXPage, Reading, ReadsMetadata
<1>1. PICK rows \in Rows(From, PageSize) : \E m \in Metadata(rows) :
          \/ m.next /\ m.offset \in cursors /\ Refuse
          \/ m.next /\ m.offset \notin cursors /\ NextPage(rows, m.offset)
          \/ ~m.next /\ Complete(rows)
  BY DEF ZDXPage
<1>2. PICK m \in Metadata(rows) :
          \/ m.next /\ m.offset \in cursors /\ Refuse
          \/ m.next /\ m.offset \notin cursors /\ NextPage(rows, m.offset)
          \/ ~m.next /\ Complete(rows)
  BY <1>1
<1>3. PICK n \in Nat, a \in Nat, r \in Nat : n = Len(tenant) /\ a = Len(all) /\ r = Len(rows)
  BY PagesAreRecords, LenProperties DEF TypeOK
<1>4. ASSUME Honest
      PROVE  /\ ~m.next => Exactly(all \o rows)
             /\ m.next => page < MaxPages /\ r > 0 /\ m.offset \notin cursors
             /\ m.offset = Len(all) + Len(rows)
             /\ server.mode = "paged" /\ PagedReading /\ tenant \in Tenants
  <2>1. /\ server.mode = "paged" /\ PagedReading /\ tenant \in Tenants
        /\ Len(tenant) < Width(PageSize) * MaxPages
        /\ From = Len(all)
        /\ m.next <=> From + Len(rows) < Len(tenant)
        /\ m.offset = Offset(rows)
    BY <1>0, <1>4, HonestAnswer
  <2>2. /\ Len(all) + Len(rows) <= Len(tenant)
        /\ Len(rows) = 0 => Len(all) = Len(tenant)
        /\ Len(all) + Len(rows) < Len(tenant) => page < MaxPages
    BY <2>1, HonestEnds
  <2>3. m.next <=> a + r < n
    BY <1>3, <2>1
  <2>4. ~m.next => Exactly(all \o rows)
    <3>1. ~m.next => Len(all) + Len(rows) = Len(tenant)
      BY <1>3, <2>2, <2>3
    <3> QED
      BY <2>1, <3>1, HonestCompletes
  <2>5. m.offset = a + r
    BY <1>0, <1>3, <2>1 DEF Offset
  <2>6. m.next => page < MaxPages /\ r > 0
    BY <1>3, <2>2, <2>3
  <2>7. \A cursor \in cursors : cursor \in Int /\ cursor <= a
    BY <1>0, <1>3, <2>1 DEF PagedReading, TypeOK
  <2>8. m.next => m.offset \notin cursors
    <3> SUFFICES ASSUME m.next, m.offset \in cursors PROVE FALSE
      OBVIOUS
    <3> QED
      BY <2>5, <2>6, <2>7
  <2> QED
    BY <1>3, <2>1, <2>4, <2>5, <2>6, <2>8
<1>5. CASE m.next /\ m.offset \in cursors /\ Refuse
  BY <1>4, <1>5, StillRefuses
<1>6. CASE ~m.next /\ Complete(rows)
  BY <1>4, <1>6, StillCompletes
<1>7. CASE m.next /\ NextPage(rows, m.offset)
  <2>1. PICK total \in Int : total = m.offset
    <3>1. rows \in Seq(Record)
      BY PagesAreRecords
    <3> QED
      BY <3>1, MetadataTypes
  <2> QED
    BY <1>0, <1>3, <1>4, <1>7, <2>1, StillPage
<1> QED
  BY <1>2, <1>5, <1>6, <1>7

LEMMA ZPAStill == TypeOK /\ StillInv /\ ZPAPage => StillInv'
<1> SUFFICES ASSUME TypeOK, StillInv, ZPAPage PROVE StillInv'
  OBVIOUS
<1>0. state = "reading" /\ walker = "zpa" /\ walker \in ReadsMetadata
  BY DEF ZPAPage, Reading, ReadsMetadata
<1>1. PICK rows \in Rows(From, PageSize) : \E m \in Metadata(rows) :
          \/ ZPARefuses(rows, m) /\ Refuse
          \/ page >= m.total /\ Complete(rows)
          \/ ~(page >= m.total) /\ NextPage(rows, m.total)
  BY DEF ZPAPage
<1>2. PICK m \in Metadata(rows) :
          \/ ZPARefuses(rows, m) /\ Refuse
          \/ page >= m.total /\ Complete(rows)
          \/ ~(page >= m.total) /\ NextPage(rows, m.total)
  BY <1>1
<1>3. PICK n \in Nat, a \in Nat, r \in Nat : n = Len(tenant) /\ a = Len(all) /\ r = Len(rows)
  BY PagesAreRecords, LenProperties DEF TypeOK
<1>4. PICK total \in Int : total = m.total
  <2>1. rows \in Seq(Record)
    BY PagesAreRecords
  <2> QED
    BY <2>1, MetadataTypes
<1>5. page \in Nat /\ page > 0 /\ MaxPages \in Nat
  BY WalkAssumption DEF TypeOK
<1>6. ASSUME Honest
      PROVE  /\ ~ZPARefuses(rows, m)
             /\ page >= total => Exactly(all \o rows)
             /\ ~(page >= total) => page < MaxPages /\ r > 0
             /\ total = Pages
             /\ server.mode = "paged" /\ PagedReading /\ tenant \in Tenants
  <2>1. /\ server.mode = "paged" /\ PagedReading /\ tenant \in Tenants
        /\ Len(tenant) < Width(PageSize) * MaxPages
        /\ total = Pages
        /\ rows \in Seq(Record)
    BY <1>0, <1>4, <1>6, HonestAnswer
  <2>2. /\ Len(all) + Len(rows) = Least(page * Width(PageSize), Len(tenant))
        /\ Len(all) + Len(rows) <= Len(tenant)
        /\ Len(rows) = 0 => Len(all) = Len(tenant)
        /\ Len(tenant) <= page * Width(PageSize) => Len(all) + Len(rows) = Len(tenant)
        /\ Len(all) + Len(rows) < Len(tenant) => page < MaxPages /\ Len(rows) = Width(PageSize)
    BY <2>1, HonestEnds
  <2>3. PICK w \in Nat : w = Width(PageSize) /\ w > 0
    BY WidthIs
  <2>4. PICK before \in Nat : before = page - 1
    BY <1>5
  <2>5. \A k \in Nat : total <= k <=> n <= k * w
    BY <1>3, <2>1, <2>3, PagesIs
  <2>6. before * w \in Nat /\ page * w \in Nat /\ w * MaxPages = MaxPages * w /\ MaxPages * w \in Nat /\ 0 * w = 0
    BY <1>5, SMT
  <2>7. a = Least(before * w, n)
    BY <1>3, <2>1, <2>3, <2>4 DEF PagedReading
  <2>8. total > before => a < n
    <3>1. total > before => ~(n <= before * w)
      BY <2>5
    <3> QED
      BY <2>6, <2>7, <3>1 DEF Least
  <2>9. total <= MaxPages
    BY <1>3, <1>5, <2>1, <2>3, <2>5, <2>6
  <2>10. rows = <<>> => r = 0
    BY <1>3, <2>1, EmptySeq
  <2>11. ~(total = 0 /\ rows # <<>>)
    <3> SUFFICES ASSUME total = 0, rows # <<>> PROVE FALSE
      OBVIOUS
    <3>1. n <= 0
      BY <2>5, <2>6
    <3>2. r = 0
      BY <1>3, <2>2, <3>1
    <3> QED
      BY <1>3, <2>1, <3>2, EmptySeq
  <2>12. ~(page > 1 /\ total # declared) /\ (page > 1 => page <= total)
    BY <1>0, <2>1 DEF PagedReading
  <2>13. ~(rows = <<>> /\ total > 1)
    <3> SUFFICES ASSUME rows = <<>>, total > 1 PROVE FALSE
      OBVIOUS
    <3>1. total > before
      BY <1>5, <2>4, <2>12
    <3> QED
      BY <1>3, <2>2, <2>8, <2>10, <3>1
  <2>14. rows \notin seen
    BY <2>1, HonestPages
  <2>15. ~ZPARefuses(rows, m)
    BY <1>4, <1>5, <2>9, <2>11, <2>12, <2>13, <2>14 DEF ZPARefuses
  <2>16. page >= total => Exactly(all \o rows)
    <3>1. page >= total => Len(all) + Len(rows) = Len(tenant)
      BY <1>3, <1>5, <2>2, <2>3, <2>5
    <3> QED
      BY <2>1, <3>1, HonestCompletes
  <2>17. ~(page >= total) => page < MaxPages /\ r > 0
    <3> SUFFICES ASSUME ~(page >= total) PROVE page < MaxPages /\ r > 0
      OBVIOUS
    <3>1. ~(n <= page * w)
      BY <1>5, <2>5
    <3>2. Len(all) + Len(rows) = page * w
      BY <1>3, <2>2, <2>3, <2>6, <3>1 DEF Least
    <3>3. Len(all) + Len(rows) < Len(tenant)
      BY <1>3, <2>6, <3>1, <3>2
    <3> QED
      BY <1>3, <2>2, <2>3, <3>3
  <2> QED
    BY <2>1, <2>15, <2>16, <2>17
<1>7. CASE ZPARefuses(rows, m) /\ Refuse
  BY <1>6, <1>7, StillRefuses
<1>8. CASE page >= m.total /\ Complete(rows)
  BY <1>4, <1>6, <1>8, StillCompletes
<1>9. CASE ~(page >= m.total) /\ NextPage(rows, m.total)
  <2>1. Honest => page < Pages
    BY <1>4, <1>5, <1>6, <1>9
  <2> QED
    BY <1>0, <1>3, <1>4, <1>6, <1>9, <2>1, StillPage
<1> QED
  BY <1>2, <1>7, <1>8, <1>9

LEMMA ZCCTotalStill == TypeOK /\ StillInv /\ ZCCTotalPage => StillInv'
<1> SUFFICES ASSUME TypeOK, StillInv, ZCCTotalPage PROVE StillInv'
  OBVIOUS
<1>0. state = "reading" /\ walker = "zccTotal" /\ walker \in ReadsMetadata
  BY DEF ZCCTotalPage, Reading, ReadsMetadata
<1>1. PICK rows \in Rows(From, PageSize) : \E m \in Metadata(rows) :
          \/ ZCCTotalRefuses(rows, m) /\ Refuse
          \/ Len(all \o rows) = m.total /\ Complete(rows)
          \/ Len(all \o rows) # m.total /\ NextPage(rows, m.total)
  BY DEF ZCCTotalPage
<1>2. PICK m \in Metadata(rows) :
          \/ ZCCTotalRefuses(rows, m) /\ Refuse
          \/ Len(all \o rows) = m.total /\ Complete(rows)
          \/ Len(all \o rows) # m.total /\ NextPage(rows, m.total)
  BY <1>1
<1>3. PICK n \in Nat, a \in Nat, r \in Nat : n = Len(tenant) /\ a = Len(all) /\ r = Len(rows)
  BY PagesAreRecords, LenProperties DEF TypeOK
<1>4. PICK total \in Int : total = m.total
  <2>1. rows \in Seq(Record)
    BY PagesAreRecords
  <2> QED
    BY <2>1, MetadataTypes
<1>5. ASSUME Honest
      PROVE  /\ ~ZCCTotalRefuses(rows, m)
             /\ Len(all \o rows) = total => Exactly(all \o rows)
             /\ Len(all \o rows) # total => page < MaxPages /\ r > 0
             /\ total = Len(tenant)
             /\ server.mode = "paged" /\ PagedReading /\ tenant \in Tenants
  <2>1. /\ server.mode = "paged" /\ PagedReading /\ tenant \in Tenants
        /\ Len(tenant) < Width(PageSize) * MaxPages
        /\ total = Len(tenant)
        /\ rows \in Seq(Record)
    BY <1>0, <1>4, <1>5, HonestAnswer
  <2>2. /\ Len(all) + Len(rows) <= Len(tenant)
        /\ Len(rows) = 0 => Len(all) = Len(tenant)
        /\ Len(all) + Len(rows) < Len(tenant) => page < MaxPages /\ Len(rows) = Width(PageSize)
    BY <2>1, HonestEnds
  <2>3. Len(all \o rows) = a + r /\ rows \notin seen /\ ~Repeats(rows)
    BY <1>3, <2>1, HonestPages
  <2>4. ~(declared >= 0 /\ total # declared)
    BY <1>0, <2>1 DEF PagedReading
  <2>5. ~(rows = <<>> /\ a < total)
    BY <1>3, <2>1, <2>2, EmptySeq
  <2>6. ~(total < 0) /\ ~(a + r > total)
    BY <1>3, <2>1, <2>2
  <2>7. ~ZCCTotalRefuses(rows, m)
    BY <1>3, <1>4, <2>3, <2>4, <2>5, <2>6 DEF ZCCTotalRefuses
  <2>8. Len(all \o rows) = total => Exactly(all \o rows)
    BY <1>3, <2>1, <2>3, HonestCompletes
  <2>9. Len(all \o rows) # total => page < MaxPages /\ r > 0
    <3>1. Width(PageSize) \in Nat /\ Width(PageSize) > 0
      BY WidthIs
    <3> QED
      BY <1>3, <2>1, <2>2, <2>3, <3>1
  <2> QED
    BY <2>1, <2>7, <2>8, <2>9
<1>6. CASE ZCCTotalRefuses(rows, m) /\ Refuse
  BY <1>5, <1>6, StillRefuses
<1>7. CASE Len(all \o rows) = m.total /\ Complete(rows)
  BY <1>4, <1>5, <1>7, StillCompletes
<1>8. CASE Len(all \o rows) # m.total /\ NextPage(rows, m.total)
  BY <1>0, <1>3, <1>4, <1>5, <1>8, StillPage
<1> QED
  BY <1>2, <1>6, <1>7, <1>8

(* Page 2 of such a collection is not page 1 again.                        *)
LEMMA HonestNeverRepeats ==
    ASSUME TypeOK, PagedReading, server.mode = "paged", tenant \in Tenants, walker = "zia",
           NEW rows \in Rows(From, PageSize)
    PROVE  ~ZIARepeatsFirst(rows)
<1> SUFFICES ASSUME ZIARepeatsFirst(rows) PROVE FALSE
  OBVIOUS
<1>1. page = 2 /\ Len(rows) > 0 /\ Contents(rows) = Contents(first)
  BY DEF ZIARepeatsFirst, SameRecords
<1>2. Len(first) <= Len(all) /\ Heads(first)
  BY <1>1 DEF PagedReading
<1>3. /\ DOMAIN rows = 1..Len(rows) /\ Len(rows) \in Nat /\ DOMAIN first = 1..Len(first)
      /\ Len(first) \in Nat /\ Len(all) \in Nat
  BY PagesAreRecords, LenProperties DEF TypeOK
<1>4. 1 \in DOMAIN rows
  BY <1>1, <1>3
<1>5. rows[1] \in Contents(first)
  BY <1>1, <1>4 DEF Contents
<1>6. PICK i \in 1..Len(first) : rows[1] = first[i]
  BY <1>3, <1>5 DEF Contents
<1>7. rows[1] = tenant[i] /\ i \in 1..Len(all)
  BY <1>2, <1>3, <1>6 DEF Heads
<1> QED
  BY <1>1, <1>7, HonestPages

LEMMA ZIAPagedStill ==
    ASSUME TypeOK, StillInv, Honest, server.mode = "paged", state = "reading", walker = "zia",
           NEW rows \in Rows(From, PageSize)
    PROVE  /\ PagedReading /\ tenant \in Tenants
           /\ ~ZIARefuses(rows) /\ ~ZIARepeatsFirst(rows)
           /\ rows = <<>> => Exactly(all \o rows)
           /\ rows # <<>> /\ page > 1 /\ Len(rows) < Len(first) => Exactly(all \o rows)
           /\ rows # <<>> /\ ~(page > 1 /\ Len(rows) < Len(first)) => page < MaxPages /\ Len(rows) > 0
<1>1. tenant \in Tenants /\ Len(tenant) < Width(PageSize) * MaxPages /\ PagedReading
  <2>1. state \notin Over
    BY DEF Over
  <2> QED
    BY <2>1, HonestIs
<1>2. PICK n \in Nat, a \in Nat, r \in Nat, f \in Nat, w \in Nat :
          n = Len(tenant) /\ a = Len(all) /\ r = Len(rows) /\ f = Len(first) /\ w = Width(PageSize)
  BY PagesAreRecords, LenProperties, WidthIs DEF TypeOK
<1>3. a + r <= n /\ (r < w => a + r = n) /\ (r = 0 => a = n) /\ (a + r < n \/ r = w => page < MaxPages)
  BY <1>1, <1>2, HonestEnds
<1>4. r = Least(w, n - a) /\ rows \notin seen /\ ~Repeats(rows)
  BY <1>1, <1>2, HonestPages
<1>5. page > 1 => f = Least(w, n) /\ f <= a
  BY <1>1, <1>2 DEF PagedReading
<1>6. r <= w /\ r <= n
  <2>1. n - a \in Nat
    BY <1>3
  <2> QED
    BY <1>3, <1>4, <2>1, LeastIs
<1>7. ~(page > 1 /\ Len(rows) > Len(first))
  <2>1. page > 1 => r <= f
    BY <1>5, <1>6 DEF Least
  <2> QED
    BY <1>2, <2>1
<1>8. ~ZIARefuses(rows)
  BY <1>4, <1>7 DEF ZIARefuses
<1>9. ~ZIARepeatsFirst(rows)
  BY <1>1, HonestNeverRepeats
<1>10. rows = <<>> <=> r = 0
  BY <1>2, PagesAreRecords, EmptySeq
<1>11. a + r = n => Exactly(all \o rows)
  BY <1>1, <1>2, HonestCompletes
<1>12. page > 1 /\ r < f => a + r = n
  <2>1. page > 1 => f <= w
    BY <1>5 DEF Least
  <2> QED
    BY <1>3, <2>1
<1>13. page > 1 /\ ~(r < f) /\ r # 0 => page < MaxPages
  <2>1. page > 1 /\ ~(r < f) /\ r # 0 => r = w
    BY <1>3, <1>5, <1>6 DEF Least
  <2> QED
    BY <1>3, <2>1
<1>14. ~(page > 1) => page < MaxPages
  BY WalkAssumption DEF TypeOK
<1>15. rows = <<>> => Exactly(all \o rows)
  <2>1. r = 0 => a + r = n
    BY <1>3
  <2> QED
    BY <1>10, <1>11, <2>1
<1> QED
  BY <1>1, <1>2, <1>8, <1>9, <1>10, <1>11, <1>12, <1>13, <1>14, <1>15

LEMMA ZIAWholeStill ==
    ASSUME TypeOK, StillInv, Honest, server.mode # "paged", state \in {"reading", "probing"}, walker = "zia",
           NEW from, NEW size, NEW rows \in Rows(from, size)
    PROVE  /\ WholeReading /\ server.mode = "whole"
           /\ page = 1 => Exactly(all \o rows) /\ ~ZIARefuses(rows) /\ ~ZIARepeatsFirst(rows)
           /\ page # 1 => Exactly(all \o <<>>) /\ ~ZIARefuses(rows) /\ ZIARepeatsFirst(rows) /\ SameRecords(rows, first)
<1>1. tenant \in Tenants /\ server.mode = "whole" /\ WholeReading /\ Len(tenant) < PageSize
  <2>1. state \notin Over
    BY DEF Over
  <2> QED
    BY <2>1, HonestIs
<1>2. /\ rows \in Seq(Record)
      /\ rows = tenant \/ rows = Backwards(tenant)
      /\ Exactly(rows) /\ Exactly(<<>> \o rows)
  BY <1>1, WholeAnswers
<1>3. PICK n \in Nat : n = Len(tenant) /\ DOMAIN tenant = 1..n
  BY LenProperties DEF TypeOK
<1>4. Len(rows) = n /\ Contents(rows) = Contents(tenant)
  BY <1>2, <1>3 DEF Exactly
<1>5. CASE page = 1
  <2>1. all = <<>> /\ seen = {}
    BY <1>1, <1>5 DEF WholeReading
  <2>2. <<>> \o rows = rows
    BY <1>2, ConcatEmptySeq
  <2>3. OnceEach(rows)
    <3> SUFFICES ASSUME NEW i \in 1..n, NEW j \in 1..n, i < j PROVE rows[i][1] # rows[j][1]
      BY <1>4 DEF OnceEach
    <3>1. \A k, l \in 1..n : k # l => tenant[k][1] # tenant[l][1]
      BY <1>1, <1>3, InputsAssumption
    <3>2. CASE rows = tenant
      BY <3>1, <3>2
    <3>3. CASE rows = Backwards(tenant)
      <4>1. rows[i] = tenant[n + 1 - i] /\ rows[j] = tenant[n + 1 - j]
        BY <1>3, <3>3 DEF Backwards
      <4>2. n + 1 - i \in 1..n /\ n + 1 - j \in 1..n /\ n + 1 - i # n + 1 - j
        OBVIOUS
      <4> QED
        BY <3>1, <4>1, <4>2
    <3> QED
      BY <1>2, <3>2, <3>3
  <2>4. ~Repeats(rows)
    BY <2>1, <2>2, <2>3 DEF Repeats
  <2> QED
    BY <1>1, <1>2, <1>5, <2>1, <2>4 DEF ZIARefuses, ZIARepeatsFirst
<1>6. CASE page # 1
  <2>1. page = 2 /\ first = all /\ Len(all) > 0 /\ (all = tenant \/ all = Backwards(tenant)) /\ all \in Seq(Record)
    BY <1>1, <1>6 DEF WholeReading, TypeOK
  <2>2. Len(all) = n /\ Contents(all) = Contents(tenant)
    BY <1>3, <2>1, BackwardsIs DEF TypeOK
  <2>3. all \o <<>> = all
    BY <2>1, ConcatEmptySeq
  <2>4. Exactly(all \o <<>>)
    BY <1>3, <2>2, <2>3 DEF Exactly
  <2>5. SameRecords(rows, first)
    BY <1>4, <2>1, <2>2 DEF SameRecords
  <2>6. ZIARepeatsFirst(rows) /\ ~(Len(rows) > Len(first))
    BY <1>1, <1>3, <1>4, <2>1, <2>2, <2>5 DEF ZIARepeatsFirst
  <2> QED
    BY <1>1, <1>6, <2>4, <2>5, <2>6 DEF ZIARefuses
<1> QED
  BY <1>5, <1>6

LEMMA ZIAStill == TypeOK /\ StillInv /\ ZIAPage => StillInv'
<1> SUFFICES ASSUME TypeOK, StillInv, ZIAPage PROVE StillInv'
  OBVIOUS
<1>0. state = "reading" /\ walker = "zia"
  BY DEF ZIAPage, Reading
<1>1. PICK rows \in Rows(From, PageSize) :
          \/ rows = <<>> /\ Complete(<<>>)
          \/ ZIARefuses(rows) /\ Refuse
          \/ rows # <<>> /\ ZIARepeatsFirst(rows) /\ Complete(<<>>)
          \/ /\ rows # <<>> /\ ZIARepeatsFirst(rows) /\ state' = "probing"
             /\ UNCHANGED <<environment, walker, want, page, all, first, seen, declared, cursors>>
          \/ Finish("found")
          \/ /\ rows # <<>> /\ ~ZIARepeatsFirst(rows) /\ page > 1 /\ Len(rows) < Len(first)
             /\ Complete(rows)
          \/ /\ rows # <<>> /\ ~ZIARepeatsFirst(rows) /\ ~(page > 1 /\ Len(rows) < Len(first))
             /\ NextPage(rows, declared)
  BY DEF ZIAPage
<1>2. ASSUME Honest, server.mode = "paged"
      PROVE  /\ PagedReading /\ tenant \in Tenants
             /\ ~ZIARefuses(rows) /\ ~ZIARepeatsFirst(rows)
             /\ rows = <<>> => Exactly(all \o rows)
             /\ rows # <<>> /\ page > 1 /\ Len(rows) < Len(first) => Exactly(all \o rows)
             /\ rows # <<>> /\ ~(page > 1 /\ Len(rows) < Len(first)) => page < MaxPages /\ Len(rows) > 0
  BY <1>0, <1>2, ZIAPagedStill
<1>3. ASSUME Honest, server.mode # "paged"
      PROVE  /\ WholeReading /\ server.mode = "whole"
             /\ page = 1 => Exactly(all \o rows) /\ ~ZIARefuses(rows) /\ ~ZIARepeatsFirst(rows)
             /\ page # 1 => Exactly(all \o <<>>) /\ ~ZIARefuses(rows) /\ ZIARepeatsFirst(rows)
  BY <1>0, <1>3, ZIAWholeStill
<1>4. CASE rows = <<>> /\ Complete(<<>>)
  BY <1>2, <1>3, <1>4, StillCompletes
<1>5. CASE ZIARefuses(rows) /\ Refuse
  BY <1>2, <1>3, <1>5, StillRefuses
<1>6. CASE rows # <<>> /\ ZIARepeatsFirst(rows) /\ Complete(<<>>)
  BY <1>2, <1>3, <1>6, StillCompletes
<1>7. CASE /\ rows # <<>> /\ ZIARepeatsFirst(rows) /\ state' = "probing"
           /\ UNCHANGED <<environment, walker, want, page, all, first, seen, declared, cursors>>
  <2>1. Honest' => Honest
    BY <1>7 DEF environment, Honest, Trusted, Width
  <2>2. ASSUME Honest PROVE HonestReading'
    <3>1. server.mode # "paged" /\ page # 1 /\ WholeReading
      BY <1>2, <1>3, <1>7, <2>2
    <3> QED
      BY <1>7, <3>1 DEF HonestReading, WholeReading, environment, Backwards
  <2> QED
    BY <1>7, <2>1, <2>2 DEF StillInv, environment, Over
<1>8. CASE Finish("found")
  BY <1>8, StillEnds
<1>9. CASE /\ rows # <<>> /\ ~ZIARepeatsFirst(rows) /\ page > 1 /\ Len(rows) < Len(first)
           /\ Complete(rows)
  <2>1. page > 1 => page # 1
    BY DEF TypeOK
  <2> QED
    BY <1>2, <1>3, <1>9, <2>1, StillCompletes
<1>10. CASE /\ rows # <<>> /\ ~ZIARepeatsFirst(rows) /\ ~(page > 1 /\ Len(rows) < Len(first))
            /\ NextPage(rows, declared)
  <2>1. declared \in Int /\ rows \in Seq(Record)
    BY PagesAreRecords DEF TypeOK
  <2>2. ASSUME Honest PROVE HonestReading'
    <3>1. CASE server.mode = "paged"
      <4>1. Len(tenant) < Width(PageSize) * MaxPages
        BY <2>2 DEF Honest
      <4>2. PagedReading'
        BY <1>0, <1>2, <1>10, <2>1, <2>2, <3>1, <4>1, HonestContinues
      <4> QED
        BY <1>10, <3>1, <4>2 DEF HonestReading, NextPage, environment
    <3>2. CASE server.mode # "paged"
      <4>1. page = 1 /\ WholeReading /\ server.mode = "whole"
        BY <1>3, <1>10, <2>2, <3>2
      <4>2. all = <<>> /\ <<>> \o rows = rows
        BY <2>1, <4>1, ConcatEmptySeq DEF WholeReading
      <4>3. rows = tenant \/ rows = Backwards(tenant)
        BY <4>1, WholeAnswers
      <4>4. Len(rows) > 0
        BY <1>10, <2>1, EmptySeq, LenProperties
      <4>5. /\ page' = 2 /\ walker' = "zia" /\ first' = rows /\ all' = rows /\ tenant' = tenant /\ server' = server
        BY <1>0, <1>10, <4>1, <4>2 DEF NextPage, Accept, environment
      <4> QED
        BY <3>2, <4>3, <4>4, <4>5 DEF HonestReading, WholeReading, Backwards
    <3> QED
      BY <3>1, <3>2
  <2> QED
    BY <1>0, <1>10, <2>2, StillGoesOn
<1> QED
  BY <1>1, <1>4, <1>5, <1>6, <1>7, <1>8, <1>9, <1>10

LEMMA ProbeStill == TypeOK /\ StillInv /\ ZIAProbe => StillInv'
<1> SUFFICES ASSUME TypeOK, StillInv, ZIAProbe PROVE StillInv'
  OBVIOUS
<1>1. PICK rows \in Rows(0, Len(first) - 1) :
          Complete(<<>>) \/ (~SameRecords(rows, first) /\ Refuse)
  BY DEF ZIAProbe
<1>2. state = "probing" /\ state \notin Over
  BY DEF ZIAProbe, Over
<1>3. ASSUME Honest PROVE SameRecords(rows, first) /\ Exactly(all \o <<>>)
  <2>1. server.mode # "paged" /\ WholeReading
    BY <1>2, <1>3, HonestIs DEF PagedReading
  <2>2. page # 1 /\ walker = "zia"
    BY <1>2, <2>1 DEF WholeReading
  <2> QED
    BY <1>2, <1>3, <2>1, <2>2, ZIAWholeStill
<1>4. CASE Complete(<<>>)
  BY <1>3, <1>4, StillCompletes
<1>5. CASE ~SameRecords(rows, first) /\ Refuse
  BY <1>3, <1>5, StillRefuses
<1> QED
  BY <1>1, <1>4, <1>5

LEMMA StepStill == TypeOK /\ StillInv /\ [Next]_vars => StillInv'
<1> SUFFICES ASSUME TypeOK, StillInv, [Next]_vars PROVE StillInv'
  OBVIOUS
<1>1. ASSUME NEW name \in Name, NEW at \in 0..Len(tenant), Insert(name, at)
      PROVE  StillInv'
  BY <1>1, ChangesEndStillness DEF Insert
<1>2. ASSUME NEW at \in 1..Len(tenant), Remove(at) \/ Edit(at) PROVE StillInv'
  BY <1>2, ChangesEndStillness DEF Remove, Edit
<1>3. ASSUME Fail PROVE StillInv'
  BY <1>3, StillEnds DEF Fail
<1>4. ASSUME UNCHANGED vars PROVE StillInv'
  <2>1. Width(PageSize)' = Width(PageSize) /\ Pages' = Pages /\ Backwards(tenant)' = Backwards(tenant)
    BY <1>4 DEF vars, environment, Width, Pages, Backwards
  <2>2. Honest' => Honest
    BY <1>4, <2>1 DEF vars, environment, Honest, Trusted
  <2>3. PagedReading => PagedReading'
    BY <1>4, <2>1 DEF vars, environment, PagedReading, Heads
  <2>4. WholeReading => WholeReading'
    BY <1>4, <2>1 DEF vars, environment, WholeReading
  <2>5. HonestReading => HonestReading'
    BY <1>4, <2>3, <2>4 DEF vars, environment, HonestReading
  <2>6. Exactly(all)' <=> Exactly(all)
    BY <1>4 DEF vars, environment, Exactly
  <2> QED
    BY <1>4, <2>2, <2>5, <2>6 DEF vars, environment, StillInv
<1> QED
  BY <1>1, <1>2, <1>3, <1>4, CeilingIsFar, ZIAStill, ProbeStill, ShortStill,
     ZCCTotalStill, ZPAStill, ZidentityStill, ZDXStill DEF Next, Finished

(* A walk that can succeed does: the collection of an honest service, of   *)
(* fewer pages than the ceiling and left alone during the walk, is never   *)
(* refused, and what is returned as complete is the collection, record for *)
(* record.                                                                 *)
THEOREM StillTenantsAreEverRead == Spec => []StillTenantsAreRead
<1>1. Init => StillInv
  <2> SUFFICES ASSUME Init PROVE StillInv
    OBVIOUS
  <2>1. /\ tenant \in Tenants /\ page = 1 /\ all = <<>> /\ seen = {} /\ declared = -1 /\ cursors = {}
        /\ state = "reading"
    BY DEF Init
  <2>2. Len(tenant) \in Nat /\ Len(<<>>) = 0
    BY <2>1, InputsAssumption, LenProperties
  <2>3. Len(all) = Least((page - 1) * Width(PageSize), Len(tenant)) /\ Heads(all)
    <3>1. (page - 1) * Width(PageSize) = 0
      BY <2>1, InitTypes, WidthIs
    <3> QED
      BY <2>1, <2>2, <3>1 DEF Least, Heads
  <2>4. PagedReading
    BY <2>1, <2>2, <2>3, WalkAssumption DEF PagedReading
  <2>5. WholeReading
    BY <2>1 DEF WholeReading
  <2> QED
    BY <2>1, <2>4, <2>5 DEF StillInv, HonestReading
<1>2. StillInv => StillTenantsAreRead
  BY DEF StillInv, StillTenantsAreRead, Exactly
<1> QED
  BY <1>1, <1>2, WalkTypes, StepStill, PTL DEF Spec
=============================================================================
