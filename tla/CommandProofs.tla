---------------------------- MODULE CommandProofs -----------------------------
(***************************************************************************)
(* Proofs about two parts of a command: the documents of refs              *)
(* (RefsCommand), for any catalog of references, any tenants and any       *)
(* number of changes of one, and the way to its settings (Configuration),  *)
(* for any flags, environment and files.                                   *)
(***************************************************************************)
EXTENDS RefsCommand, Configuration, FiniteSetTheorems, TLAPS

-----------------------------------------------------------------------------
(* The inductive invariant.                                                *)

WalkTypeOK ==
    /\ query \in Queries
    /\ tenant \in Tenants
    /\ context \in {"live", "ended"}
    /\ step \in {"open", "source", "walk", "over"}
    /\ waiting \in BOOLEAN
    /\ i \in Items \cup {Len(References) + 1}
    /\ j \in Nat \ {0}
    /\ DOMAIN document = {"found", "skipped", "checked"}
    /\ reads \in [Resource -> {0, 1}]

(* What is in the cache is a reading of some moment or a failure, which is *)
(* put down to the context only if that has ended.                         *)
CacheInv ==
    /\ DOMAIN cache \subseteq Resource
    /\ \A r \in DOMAIN cache :
          /\ cache[r].reason = "none" => \E t \in Tenants : cache[r].records = t[r]
          /\ cache[r].cause = "context" => context = "ended"

(* A resource that was asked for is read or being read, and the one that   *)
(* is being read is the one needed next.                                   *)
ReadingInv ==
    /\ waiting => step \in {"source", "walk"} /\ Wanted \in Resource \ DOMAIN cache
    /\ \A r \in Resource : reads[r] = 1 => Have(r) \/ (waiting /\ Wanted = r)

(* How far the command is.                                                 *)
StepInv ==
    /\ step = "over" <=> outcome # Nil
    /\ step = "source" => ~To
    /\ (step = "walk" \/ outcome = "written") /\ ~To =>
          Have(query.resource) /\ cache[query.resource].reason = "none"
    /\ outcome = "context" => context = "ended"
    /\ outcome = "written" =>
          /\ i = Len(References) + 1
          /\ \A r \in DOMAIN cache : cache[r].cause # "context"

Done == {k \in Items : k < i}

NotRead(r) == Have(r) /\ cache[r].reason # "none"

(* Nothing that is read later changes whether a field was compared.        *)
Settled(k) ==
    LET item == References[k]
    IN  IF To THEN item.rendered => Have(item.resource)
        ELSE /\ Have(item.resource)
             /\ \/ ~item.rendered \/ item.audit
                \/ \A r \in Range(item.targets) : WasRead(r)
                \/ \E r \in Range(item.targets) : r \in KeyHidden \/ NotRead(r)

(* The document is about the fields behind, and true of each of them.      *)
DocumentInv ==
    /\ \A k \in Done : Settled(k) /\ (IF To THEN AllFound(k) ELSE Dangling(k))
    /\ \A s \in document.skipped :
          IF s.field = Nil
          THEN s.resource \in KeyHidden \/ NotRead(s.resource)
          ELSE \E k \in Done : s.resource = References[k].resource /\ s.field = References[k].field
    /\ \A h \in document.found : h.item \in Done

(* The ids of the targets behind are known.                                *)
KnownInv ==
    /\ step \in {"open", "source"} => j = 1 /\ IsFirst(i, Items)
    /\ j = 1 => known = {}
    /\ AtItem /\ ~To =>
          /\ j <= Len(Current.targets) + 1
          /\ \A m \in 1..(j - 1) : WasRead(Current.targets[m])
          /\ \A x : x \in known <=>
                x # Nil /\ \E m \in 1..(j - 1) : \E rec \in Listed(Current.targets[m]) : RefIDKey(rec.key) = x

RefsInv ==
    /\ WalkTypeOK
    /\ CacheInv
    /\ ReadingInv
    /\ StepInv
    /\ DocumentInv
    /\ KnownInv

-----------------------------------------------------------------------------
(* The catalog and the tenants.                                            *)

Row ==
    [resource : STRING, field : STRING, targets : Seq(STRING) \ {<<>>}, rendered : BOOLEAN, audit : BOOLEAN]

LEMMA CatalogTypes ==
    ASSUME NEW k \in DOMAIN References
    PROVE  LET item == References[k]
           IN  /\ k \in 1..Len(References)
               /\ item.resource \in Resource /\ item.field # Nil
               /\ item.rendered \in BOOLEAN /\ item.audit \in BOOLEAN
               /\ item.targets \in Seq(STRING)
               /\ Range(item.targets) = {item.targets[m] : m \in 1..Len(item.targets)}
               /\ Range(item.targets) \subseteq Resource
               /\ item.resource \in STRING /\ Range(item.targets) \subseteq STRING
<1>1. References \in Seq(Row) /\ Nil \notin STRING
  BY RefsAssumption DEF Row
<1>2. k \in 1..Len(References) /\ References[k] \in Row
  BY <1>1
<1>3. References[k] \in Range(References)
  BY DEF Range
<1>4. References[k].resource \in Resource /\ Range(References[k].targets) \subseteq Resource
  BY <1>3 DEF Resource
<1>5. References[k].targets \in Seq(STRING)
  BY <1>2 DEF Row
<1>6. Range(References[k].targets) = {References[k].targets[m] : m \in 1..Len(References[k].targets)}
  BY <1>5 DEF Range
<1>7. Range(References[k].targets) \subseteq STRING
  BY <1>5, <1>6
<1> QED
  BY <1>1, <1>2, <1>4, <1>5, <1>6, <1>7 DEF Row

LEMMA NoneIsNoResource == Nil \notin Resource
<1> SUFFICES ASSUME Nil \in Resource PROVE FALSE
  OBVIOUS
<1>1. Nil \notin STRING
  BY RefsAssumption
<1>2. PICK f \in Range(References) : Nil = f.resource \/ Nil \in Range(f.targets)
  BY DEF Resource
<1>3. PICK k \in DOMAIN References : f = References[k]
  BY DEF Range
<1> QED
  BY <1>1, <1>2, <1>3, CatalogTypes

LEMMA FieldsAreUnique ==
    ASSUME NEW k \in DOMAIN References, NEW l \in DOMAIN References,
           References[k].resource = References[l].resource, References[k].field = References[l].field
    PROVE  k = l
BY RefsAssumption

(* What a list that was read holds.                                        *)
LEMMA ListTypes ==
    ASSUME CacheInv, NEW r \in DOMAIN cache, cache[r].reason = "none",
           NEW n \in DOMAIN cache[r].records
    PROVE  /\ cache[r].records[n].key.id \in Nat
           /\ \A k \in DOMAIN References : References[k].resource = r =>
                 \A v \in cache[r].records[n].refs[References[k].field] : v.id \in Nat
<1>1. PICK t \in Tenants : cache[r].records = t[r]
  BY DEF CacheInv
<1>2. r \in Resource
  BY DEF CacheInv
<1>3. /\ t[r][n].key \in Value
      /\ \A f \in Range(References) : f.resource = r => t[r][n].refs[f.field] \subseteq Value
  BY <1>1, <1>2, RefsAssumption
<1>4. \A v \in Value : v.id \in Nat
  BY DEF Value
<1> QED
  BY <1>1, <1>3, <1>4 DEF Range

LEMMA QueryTypes == WalkTypeOK => query.resource \in Resource /\ query.id.id \in Nat
BY RefsAssumption DEF WalkTypeOK, Value

LEMMA RefIDKeys ==
    ASSUME NEW v, v.id \in Nat
    PROVE  /\ RefIDKey(v) = Nil <=> v.id = 0
           /\ v.id # 0 => RefIDKey(v) = v.id
BY RefsAssumption DEF RefIDKey

-----------------------------------------------------------------------------
(* What a step leaves true of the fields behind.                           *)

(* Cached readings stay.                                                   *)
LEMMA CacheGrows ==
    ASSUME RefsInv, UNCHANGED <<query, document>>,
           \A r \in DOMAIN cache : r \in DOMAIN cache' /\ cache'[r] = cache[r],
           NEW k \in Items, Settled(k), IF To THEN AllFound(k) ELSE Dangling(k)
    PROVE  Settled(k)' /\ IF To THEN AllFound(k)' ELSE Dangling(k)'
<1> DEFINE item == References[k]
<1>1. k \in DOMAIN References
  BY DEF Items
<1>2. \A r : WasRead(r) => WasRead(r)' /\ cache'[r] = cache[r]
  BY DEF WasRead, Have
<1>3. \A r : r \in KeyHidden \/ NotRead(r) => ~WasRead(r)' /\ ~WasRead(r) /\ (r \in KeyHidden \/ NotRead(r)')
  BY DEF WasRead, Have, NotRead
<1>4. Settled(k)'
  BY <1>2, <1>3 DEF Settled, To, Have
<1>5. CASE To
  <2>1. (Have(item.resource) /\ cache[item.resource].reason = "none") =
           (Have(item.resource) /\ cache[item.resource].reason = "none")' \/ ~item.rendered
    BY <1>5 DEF Settled, Have
  <2>2. Have(item.resource) => cache'[item.resource] = cache[item.resource]
    BY DEF Have
  <2>3. SkippedField(item)' = SkippedField(item)
    BY DEF SkippedField
  <2>4. AllFound(k)'
    BY <1>1, <1>5, <2>1, <2>2, <2>3, CatalogTypes DEF AllFound
  <2> QED
    BY <1>4, <1>5, <2>4
<1>6. CASE ~To
  <2>1. Compared(item)' = Compared(item)
    BY <1>2, <1>3, <1>6 DEF Compared, Settled
  <2>2. Compared(item) => \A r \in Range(item.targets) : Listed(r)' = Listed(r)
    BY <1>2 DEF Compared, Listed
  <2>3. SkippedField(item)' = SkippedField(item)
    BY DEF SkippedField
  <2>4. cache'[item.resource].records = cache[item.resource].records
    BY <1>6 DEF Settled, Have
  <2>5. ASSUME ~Compared(item), item.rendered, ~item.audit
        PROVE  \E r \in Range(item.targets) : ~WasRead(r)' /\
                  \E s \in document'.skipped : s.resource = r /\ s.field = Nil
    <3>1. PICK r \in Range(item.targets), s \in document.skipped : s.resource = r /\ s.field = Nil
      BY <1>6, <2>5 DEF Dangling
    <3>2. r \in KeyHidden \/ NotRead(r)
      BY <3>1 DEF RefsInv, DocumentInv
    <3> QED
      BY <1>3, <3>1, <3>2
  <2>6. Dangling(k)'
    BY <1>6, <2>1, <2>2, <2>3, <2>4, <2>5 DEF Dangling
  <2> QED
    BY <1>4, <1>6, <2>6
<1> QED
  BY <1>5, <1>6

LEMMA DocumentKept ==
    ASSUME RefsInv, UNCHANGED <<query, document, i>>,
           \A r \in DOMAIN cache : r \in DOMAIN cache' /\ cache'[r] = cache[r]
    PROVE  DocumentInv'
<1>1. To' = To /\ Items' = Items /\ Done' = Done
  BY DEF To, Items, Done
<1>2. ASSUME NEW k \in Done
      PROVE  Settled(k)' /\ IF To THEN AllFound(k)' ELSE Dangling(k)'
  <2>1. k \in Items /\ Settled(k) /\ IF To THEN AllFound(k) ELSE Dangling(k)
    BY DEF Done, RefsInv, DocumentInv
  <2> QED
    BY <2>1, CacheGrows
<1>3. \A r : NotRead(r) => NotRead(r)'
  BY DEF NotRead, Have
<1> QED
  BY <1>1, <1>2, <1>3 DEF RefsInv, DocumentInv

LEMMA NextItemEffect ==
    ASSUME RefsInv, AtItem, NextItem, UNCHANGED query
    PROVE  /\ i' \in Items' \cup {Len(References) + 1}
           /\ i' > i /\ i \in Items /\ i \in DOMAIN References
           /\ Items' = Items /\ To' = To
           /\ Done' = Done \cup {i}
           /\ j' = 1 /\ known' = {}
<1>1. Items' = Items /\ To' = To
  BY DEF Items, To
<1>2. Len(References) \in Nat /\ Items \subseteq 1..Len(References) /\ i \in Items
  <2>1. References \in Seq(Row)
    BY RefsAssumption DEF Row
  <2> QED
    BY <2>1 DEF Items, AtItem
<1>3. i' \in Items \cup {Len(References) + 1} /\ (\A m \in Items : m > i => i' <= m) /\ i' > i
  BY <1>2 DEF NextItem, IsFirst
<1>4. \A k \in Items : k < i' <=> k < i \/ k = i
  BY <1>2, <1>3
<1> QED
  BY <1>1, <1>2, <1>3, <1>4 DEF Done, NextItem, Items

(* A step that is done with a field says something of that field alone.    *)
LEMMA FieldIsDone ==
    ASSUME RefsInv, AtItem, NextItem, UNCHANGED <<query, cache>>,
           document.skipped \subseteq document'.skipped, document.found \subseteq document'.found,
           \A s \in document'.skipped \ document.skipped :
              IF s.field = Nil THEN s.resource \in KeyHidden \/ NotRead(s.resource)
              ELSE s.resource = Current.resource /\ s.field = Current.field,
           \A h \in document'.found \ document.found : h.item = i,
           NEW k, k = i, Settled(k), IF To THEN AllFound(k)' ELSE Dangling(k)'
    PROVE  DocumentInv'
<1>1. /\ Items' = Items /\ To' = To /\ Done' = Done \cup {i} /\ i \in DOMAIN References /\ i \in Items
      /\ \A l \in Done : l \in DOMAIN References /\ l # i /\ l \in Items
  <2>1. \A l \in Items : l \in DOMAIN References /\ l \in Nat
    <3>1. References \in Seq(Row)
      BY RefsAssumption DEF Row
    <3> QED
      BY <3>1 DEF Items
  <2> QED
    BY <2>1, NextItemEffect DEF Done
<1>2. \A r : /\ Have(r)' = Have(r) /\ WasRead(r)' = WasRead(r) /\ NotRead(r)' = NotRead(r)
             /\ Listed(r)' = Listed(r) /\ cache'[r] = cache[r]
  BY DEF Have, WasRead, NotRead, Listed
<1>3. \A item : Compared(item)' = Compared(item)
  BY <1>2 DEF Compared
<1>4. \A l : Settled(l)' = Settled(l)
  BY <1>1, <1>2 DEF Settled
<1>5. ASSUME NEW l \in Done
      PROVE  Settled(l)' /\ IF To THEN AllFound(l)' ELSE Dangling(l)'
  <2> DEFINE item == References[l]
  <2>1. Settled(l) /\ IF To THEN AllFound(l) ELSE Dangling(l)
    BY DEF RefsInv, DocumentInv
  <2>2. \A s \in document'.skipped \ document.skipped : ~(s.resource = item.resource /\ s.field = item.field)
    BY <1>1, CatalogTypes, FieldsAreUnique DEF Current
  <2>3. SkippedField(item)' = SkippedField(item)
    BY <2>2 DEF SkippedField
  <2>4. {h \in document'.found : h.item = l} = {h \in document.found : h.item = l}
    BY <1>1
  <2>5. document.skipped \subseteq document'.skipped
    OBVIOUS
  <2>6. To => AllFound(l)'
    BY <1>2, <2>1, <2>3, <2>4 DEF AllFound
  <2>7. ~To => Dangling(l)'
    BY <1>2, <1>3, <2>1, <2>3, <2>4, <2>5 DEF Dangling
  <2> QED
    BY <1>4, <2>1, <2>6, <2>7
<1>6. \A s \in document'.skipped :
         IF s.field = Nil
         THEN s.resource \in KeyHidden \/ NotRead(s.resource)'
         ELSE \E l \in Done' : s.resource = References[l].resource /\ s.field = References[l].field
  <2> TAKE s \in document'.skipped
  <2>1. CASE s \in document.skipped
    BY <1>1, <1>2, <2>1 DEF RefsInv, DocumentInv
  <2>2. CASE s \notin document.skipped
    BY <1>1, <1>2, <2>2 DEF Current
  <2> QED
    BY <2>1, <2>2
<1>7. \A h \in document'.found : h.item \in Done'
  BY <1>1 DEF RefsInv, DocumentInv
<1> QED
  BY <1>1, <1>4, <1>5, <1>6, <1>7 DEF DocumentInv

(* Nothing is said of a field before its turn.                             *)
LEMMA NothingSaid ==
    ASSUME RefsInv, AtItem
    PROVE  ~SkippedField(Current) /\ {h \in document.found : h.item = i} = {}
<1>1. i \in DOMAIN References /\ i \notin Done
      /\ \A l \in Done : l \in DOMAIN References /\ l # i
  <2>1. References \in Seq(Row)
    BY RefsAssumption DEF Row
  <2> QED
    BY <2>1 DEF Done, Items, AtItem
<1>2. SkippedField(Current) => FALSE
  BY <1>1, CatalogTypes, FieldsAreUnique DEF Current, SkippedField, RefsInv,
     DocumentInv
<1> QED
  BY <1>1, <1>2 DEF RefsInv, DocumentInv

-----------------------------------------------------------------------------
(* The steps.                                                              *)

LEMMA ItemNumbers ==
    Len(References) \in Nat /\ Items \subseteq 1..Len(References) /\ DOMAIN References = 1..Len(References)
<1> SUFFICES Len(References) \in Nat /\ DOMAIN References = 1..Len(References)
  BY DEF Items
<1>1. References \in Seq(Row)
  BY RefsAssumption DEF Row
<1> QED
  BY <1>1

LEMMA InitRefs == RefsInit => RefsInv
<1> SUFFICES ASSUME RefsInit PROVE RefsInv
  OBVIOUS
<1>1. Nil \notin Outcome
  BY RefsAssumption
<1>2. i \in Items \cup {Len(References) + 1} /\ (\A m \in Items : i <= m)
  BY DEF RefsInit, IsFirst
<1>3. Done = {}
  <2>1. i \in Nat
    BY <1>2, ItemNumbers
  <2>2. ASSUME NEW m \in Items PROVE ~(m < i)
    <3>1. m \in Nat /\ i <= m
      BY <1>2, ItemNumbers
    <3> QED
      BY <2>1, <3>1
  <2> QED
    BY <2>2 DEF Done
<1>4. WalkTypeOK
  <2>1. reads \in [Resource -> {0, 1}]
    BY DEF RefsInit
  <2>2. DOMAIN document = {"found", "skipped", "checked"}
    BY DEF RefsInit
  <2>3. query \in Queries /\ tenant \in Tenants /\ context = "live" /\ step = "open" /\ waiting = FALSE /\ j = 1
    BY DEF RefsInit
  <2>4. waiting \in BOOLEAN
    BY <2>3
  <2>5. j \in Nat \ {0}
    BY <2>3
  <2> QED
    BY <1>2, <2>1, <2>2, <2>3, <2>4, <2>5 DEF WalkTypeOK
<1>5. CacheInv /\ ReadingInv
  <2>1. cache = <<>> /\ ~waiting /\ reads = [r \in Resource |-> 0]
    BY DEF RefsInit
  <2> QED
    BY <2>1 DEF CacheInv, ReadingInv
<1>6. StepInv
  <2>1. step = "open" /\ outcome = Nil
    BY DEF RefsInit
  <2>2. outcome # "context" /\ outcome # "written"
    BY <1>1, <2>1 DEF Outcome
  <2> QED
    BY <2>1, <2>2 DEF StepInv
<1>7. DocumentInv
  <2>1. document.found = {} /\ document.skipped = {}
    BY DEF RefsInit
  <2> QED
    BY <1>3, <2>1 DEF DocumentInv
<1>8. KnownInv
  BY <1>2 DEF RefsInit, KnownInv, AtItem, IsFirst
<1> QED
  BY <1>4, <1>5, <1>6, <1>7, <1>8 DEF RefsInv

LEMMA SameItem ==
    UNCHANGED <<query, i, j, step>> =>
        /\ To' = To /\ Items' = Items /\ AtItem' = AtItem /\ Current' = Current /\ Wanted' = Wanted
BY DEF To, Items, AtItem, Current, Wanted, PassedOver

LEMMA OpenRefs == RefsInv /\ Open => RefsInv'
<1> SUFFICES ASSUME RefsInv, Open PROVE RefsInv'
  OBVIOUS
<1>1. /\ UNCHANGED <<query, tenant, changes, context, waiting, cache, i, j, known, document, reads>>
      /\ step = "open" /\ step' \in {"walk", "source", "over"} /\ (step' = "walk" => To) /\ (step' = "source" => ~To)
      /\ step' = "over" => outcome' \in {"refused", "context"} /\ (outcome' = "context" => context = "ended")
      /\ step' # "over" => outcome' = outcome
  BY DEF Open, walk
<1>2. To' = To /\ Items' = Items
  BY <1>1 DEF To, Items
<1>3. WalkTypeOK'
  BY <1>1, <1>2 DEF RefsInv, WalkTypeOK
<1>4. ~waiting
  BY <1>1 DEF RefsInv, ReadingInv
<1>5. CacheInv' /\ ReadingInv'
  BY <1>1, <1>4 DEF RefsInv, CacheInv, ReadingInv, Have
<1>6. DocumentInv'
  BY <1>1, DocumentKept
<1>7. StepInv'
  <2>1. Nil \notin Outcome
    BY RefsAssumption
  <2>2. outcome = Nil
    BY <1>1 DEF RefsInv, StepInv
  <2> QED
    BY <1>1, <1>2, <2>1, <2>2 DEF StepInv, Outcome
<1>8. KnownInv'
  BY <1>1, <1>2 DEF RefsInv, KnownInv, AtItem, IsFirst
<1> QED
  BY <1>3, <1>5, <1>6, <1>7, <1>8 DEF RefsInv

(* What is asked for is a resource.                                        *)
LEMMA WantedIsResource ==
    ASSUME RefsInv, Wanted # Nil
    PROVE  /\ Wanted \in Resource /\ step \in {"source", "walk"}
           /\ step = "source" => Wanted = query.resource
<1>1. CASE step = "source"
  <2>1. Wanted = query.resource
    <3>1. ~AtItem
      BY <1>1 DEF AtItem
    <3> QED
      BY <1>1, <3>1 DEF Wanted
  <2> QED
    BY <1>1, <2>1, QueryTypes DEF RefsInv
<1>2. CASE step # "source"
  <2>1. AtItem /\ ~PassedOver(Current)
    BY <1>2 DEF Wanted
  <2>2. i \in DOMAIN References /\ step = "walk"
    BY <2>1 DEF AtItem, Items
  <2>3. CASE To
    BY <1>2, <2>1, <2>2, <2>3, CatalogTypes DEF Wanted, Current
  <2>4. CASE ~To
    <3>1. j \in 1..Len(Current.targets) /\ Wanted = Current.targets[j]
      <4>1. j <= Len(Current.targets) /\ Wanted = Current.targets[j]
        BY <1>2, <2>1, <2>4 DEF Wanted
      <4> QED
        BY <2>2, <4>1, CatalogTypes DEF Current, RefsInv, WalkTypeOK
    <3> QED
      BY <2>2, <3>1, CatalogTypes DEF Current
  <2> QED
    BY <2>3, <2>4
<1> QED
  BY <1>1, <1>2

(* What is kept of a reading is a list of the tenant as it is, or nothing. *)
LEMMA Kept ==
    ASSUME RefsInv, NEW r \in Resource, r \notin DOMAIN cache, NEW what, Keep(r, what),
           what.reason = "none" => what.records = tenant[r],
           what.cause = "context" => context = "ended", context' = context
    PROVE  /\ CacheInv'
           /\ DOMAIN cache' = DOMAIN cache \cup {r}
           /\ \A q \in DOMAIN cache : q \in DOMAIN cache' /\ cache'[q] = cache[q]
           /\ cache'[r] = what
<1>1. /\ DOMAIN cache' = DOMAIN cache \cup {r}
      /\ \A q \in DOMAIN cache : q \in DOMAIN cache' /\ cache'[q] = cache[q]
      /\ cache'[r] = what
  BY DEF Keep
<1>2. tenant \in Tenants
  BY DEF RefsInv, WalkTypeOK
<1>3. CacheInv'
  BY <1>1, <1>2 DEF RefsInv, CacheInv
<1> QED
  BY <1>1, <1>3

(* Nothing else changes as something is kept.                              *)
LEMMA KeptInv ==
    ASSUME RefsInv, step \in {"source", "walk"}, CacheInv',
           UNCHANGED <<query, tenant, context, step, i, j, known, document, outcome>>,
           \A q \in DOMAIN cache : q \in DOMAIN cache' /\ cache'[q] = cache[q],
           ReadingInv', waiting' \in BOOLEAN, reads' \in [Resource -> {0, 1}]
    PROVE  RefsInv'
<1>1. To' = To /\ Items' = Items /\ AtItem' = AtItem /\ Current' = Current
  BY SameItem
<1>2. WalkTypeOK'
  BY <1>1 DEF RefsInv, WalkTypeOK
<1>3. StepInv'
  <2>1. outcome = Nil /\ outcome # "written"
    BY RefsAssumption DEF RefsInv, StepInv, Outcome
  <2> QED
    BY <1>1, <2>1 DEF RefsInv, StepInv, Have
<1>4. DocumentInv'
  BY DocumentKept
<1>5. KnownInv'
  <2>1. \A r : WasRead(r) => WasRead(r)' /\ Listed(r)' = Listed(r)
    BY DEF WasRead, Have, Listed
  <2>2. \A v : RefIDKey(v)' = RefIDKey(v)
    BY DEF RefIDKey
  <2>3. AtItem /\ ~To => \A m \in 1..(j - 1) : /\ WasRead(Current.targets[m])'
                                                /\ Listed(Current.targets[m])' = Listed(Current.targets[m])
    <3> SUFFICES ASSUME AtItem, ~To, NEW m \in 1..(j - 1), NEW r, r = Current.targets[m]
                 PROVE  WasRead(r)' /\ Listed(r)' = Listed(r)
      BY <1>1
    <3>1. WasRead(r)
      BY DEF RefsInv, KnownInv
    <3> QED
      BY <2>1, <3>1
  <2>4. AtItem /\ ~To => j <= Len(Current.targets) + 1
    BY DEF RefsInv, KnownInv
  <2>6. AtItem /\ ~To => \A x : x \in known <=>
           x # Nil /\ \E m \in 1..(j - 1) : \E rec \in Listed(Current.targets[m])' : RefIDKey(rec.key) = x
    BY <2>3 DEF RefsInv, KnownInv
  <2>5. (step = "open" \/ step = "source" => j = 1 /\ IsFirst(i, Items)) /\ (j = 1 => known = {})
    BY DEF RefsInv, KnownInv
  <2> QED
    BY <1>1, <2>3, <2>4, <2>5, <2>6 DEF KnownInv, IsFirst, RefIDKey
<1> QED
  BY <1>2, <1>3, <1>4, <1>5 DEF RefsInv

LEMMA FetchRefs == RefsInv /\ Fetch => RefsInv'
<1> SUFFICES ASSUME RefsInv, Fetch PROVE RefsInv'
  OBVIOUS
<1>1. /\ Wanted # Nil /\ Wanted \notin DOMAIN cache /\ waiting = FALSE
      /\ UNCHANGED <<query, tenant, changes, context, step, i, j, known, document, outcome>>
  BY DEF Fetch, Have, walk, RefsInv, WalkTypeOK
<1>2. Wanted \in Resource /\ step \in {"source", "walk"}
  BY <1>1, WantedIsResource
<1>3. Wanted' = Wanted
  BY <1>1, SameItem
<1>4. reads \in [Resource -> {0, 1}] /\ reads[Wanted] = 0
  BY <1>1, <1>2 DEF RefsInv, WalkTypeOK, ReadingInv, Have
<1>5. CASE /\ Keep(Wanted, NotReadable) \/ (context = "ended" /\ Keep(Wanted, Failed("context")))
           /\ UNCHANGED <<waiting, reads>>
  <2>1. PICK what \in {NotReadable, Failed("context")} :
            Keep(Wanted, what) /\ (what.cause = "context" => context = "ended")
    BY <1>5 DEF NotReadable, Failed
  <2>2. what.reason # "none"
    BY DEF NotReadable, Failed
  <2>3. /\ CacheInv' /\ DOMAIN cache' = DOMAIN cache \cup {Wanted}
        /\ \A q \in DOMAIN cache : q \in DOMAIN cache' /\ cache'[q] = cache[q]
    BY <1>1, <1>2, <2>1, <2>2, Kept
  <2>4. ReadingInv'
    BY <1>1, <1>5, <2>3 DEF RefsInv, ReadingInv, Have
  <2>5. waiting' \in BOOLEAN /\ reads' \in [Resource -> {0, 1}]
    BY <1>1, <1>4, <1>5
  <2> QED
    BY <1>1, <1>2, <2>3, <2>4, <2>5, KeptInv
<1>6. CASE waiting' = TRUE /\ reads' = [reads EXCEPT ![Wanted] = @ + 1] /\ UNCHANGED cache
  <2>1. CacheInv'
    BY <1>1, <1>6 DEF RefsInv, CacheInv
  <2>2. reads' \in [Resource -> {0, 1}] /\ \A r \in Resource : r # Wanted => reads'[r] = reads[r]
    BY <1>2, <1>4, <1>6
  <2>3. ReadingInv'
    BY <1>1, <1>2, <1>3, <1>6, <2>2 DEF RefsInv, ReadingInv, Have
  <2> QED
    BY <1>1, <1>2, <1>6, <2>1, <2>2, <2>3, KeptInv
<1> QED
  BY <1>5, <1>6 DEF Fetch

LEMMA FetchedRefs == RefsInv /\ Fetched => RefsInv'
<1> SUFFICES ASSUME RefsInv, Fetched PROVE RefsInv'
  OBVIOUS
<1>1. /\ waiting /\ waiting' = FALSE
      /\ UNCHANGED <<query, tenant, changes, context, step, i, j, known, document, outcome, reads>>
  BY DEF Fetched, walk
<1>2. Wanted \in Resource /\ Wanted \notin DOMAIN cache /\ step \in {"source", "walk"}
  BY <1>1 DEF RefsInv, ReadingInv
<1>3. PICK what : /\ Keep(Wanted, what)
                  /\ what = Records(tenant[Wanted]) \/ what = Failed("service")
                     \/ (what = Failed("context") /\ context # "live")
  BY DEF Fetched
<1>4. /\ what.reason = "none" => what.records = tenant[Wanted]
      /\ what.cause = "context" => context = "ended"
  <2>1. context \in {"live", "ended"}
    BY DEF RefsInv, WalkTypeOK
  <2> QED
    BY <1>3, <2>1 DEF Records, Failed
<1>5. /\ CacheInv' /\ DOMAIN cache' = DOMAIN cache \cup {Wanted}
      /\ \A q \in DOMAIN cache : q \in DOMAIN cache' /\ cache'[q] = cache[q]
  BY <1>1, <1>2, <1>3, <1>4, Kept
<1>6. ReadingInv'
  BY <1>1, <1>2, <1>5 DEF RefsInv, ReadingInv, Have
<1>7. waiting' \in BOOLEAN /\ reads' \in [Resource -> {0, 1}]
  BY <1>1 DEF RefsInv, WalkTypeOK
<1> QED
  BY <1>1, <1>2, <1>5, <1>6, <1>7, KeptInv

LEMMA SourceRefs == RefsInv /\ Source => RefsInv'
<1> SUFFICES ASSUME RefsInv, Source PROVE RefsInv'
  OBVIOUS
<1>1. /\ step = "source" /\ Have(query.resource)
      /\ UNCHANGED <<query, tenant, changes, context, waiting, cache, i, j, known, document, reads>>
      /\ \/ step' = "walk" /\ cache[query.resource].reason = "none" /\ outcome' = outcome
         \/ step' = "over" /\ outcome' \in {"context", "unread"}
            /\ (outcome' = "context" => cache[query.resource].cause = "context")
  BY DEF Source, walk
<1>2. To' = To /\ Items' = Items /\ ~To
  BY <1>1 DEF To, Items, RefsInv, StepInv
<1>3. WalkTypeOK'
  BY <1>1, <1>2 DEF RefsInv, WalkTypeOK
<1>4. ~waiting
  <2>1. ~AtItem
    BY <1>1 DEF AtItem
  <2>2. Wanted = query.resource
    BY <1>1, <2>1 DEF Wanted
  <2> QED
    BY <1>1, <2>2 DEF RefsInv, ReadingInv, Have
<1>5. CacheInv' /\ ReadingInv'
  BY <1>1, <1>4 DEF RefsInv, CacheInv, ReadingInv, Have
<1>6. DocumentInv'
  BY <1>1, DocumentKept
<1>7. StepInv'
  <2>1. outcome = Nil /\ Nil \notin Outcome
    BY <1>1, RefsAssumption DEF RefsInv, StepInv
  <2>2. outcome' = "context" => context = "ended"
    BY <1>1, <2>1 DEF RefsInv, CacheInv, Have, Outcome
  <2>3. outcome' # "written"
    BY <1>1, <2>1 DEF Outcome
  <2>4. (step' = "over") <=> outcome' # Nil
    BY <1>1, <2>1 DEF Outcome
  <2> QED
    BY <1>1, <1>2, <2>2, <2>3, <2>4 DEF StepInv, Have
<1>8. KnownInv'
  <2>1. j = 1 /\ IsFirst(i, Items) /\ known = {}
    BY <1>1 DEF RefsInv, KnownInv
  <2>2. AtItem' => Current' = References[i] /\ i \in DOMAIN References
    BY <1>1 DEF AtItem, Current, Items
  <2>3. AtItem' => j <= Len(Current'.targets) + 1
    BY <2>1, <2>2, CatalogTypes
  <2> QED
    BY <1>1, <2>1, <2>3 DEF KnownInv
<1> QED
  BY <1>3, <1>5, <1>6, <1>7, <1>8 DEF RefsInv

LEMMA FinishRefs == RefsInv /\ Finish => RefsInv'
<1> SUFFICES ASSUME RefsInv, Finish PROVE RefsInv'
  OBVIOUS
<1>1. /\ step = "walk" /\ i > Len(References) /\ step' = "over"
      /\ UNCHANGED <<query, tenant, changes, context, waiting, cache, i, j, known, document, reads>>
      /\ \/ context = "ended" /\ outcome' = "context"
         \/ context = "live" /\ outcome' \in {"written", "unwritten"}
  BY DEF Finish, walk
<1>2. To' = To /\ Items' = Items
  BY <1>1 DEF To, Items
<1>3. i = Len(References) + 1
  BY <1>1, ItemNumbers DEF RefsInv, WalkTypeOK
<1>4. WalkTypeOK'
  BY <1>1, <1>2 DEF RefsInv, WalkTypeOK
<1>5. ~waiting
  <2>1. ~AtItem
    BY <1>1, <1>3, ItemNumbers DEF AtItem
  <2>2. Wanted = Nil
    BY <1>1, <2>1 DEF Wanted
  <2> QED
    BY <2>2, NoneIsNoResource DEF RefsInv, ReadingInv
<1>6. CacheInv' /\ ReadingInv'
  BY <1>1, <1>5 DEF RefsInv, CacheInv, ReadingInv, Have
<1>7. DocumentInv'
  BY <1>1, DocumentKept
<1>8. StepInv'
  <2>1. Nil \notin Outcome /\ outcome' \in Outcome
    BY <1>1, RefsAssumption DEF Outcome
  <2>2. ~To => Have(query.resource) /\ cache[query.resource].reason = "none"
    BY <1>1 DEF RefsInv, StepInv
  <2>3. outcome' = "written" => \A r \in DOMAIN cache : cache[r].cause # "context"
    BY <1>1 DEF RefsInv, CacheInv
  <2> QED
    BY <1>1, <1>2, <1>3, <2>1, <2>2, <2>3 DEF StepInv, Have
<1>9. KnownInv'
  BY <1>1 DEF RefsInv, KnownInv, AtItem
<1> QED
  BY <1>4, <1>6, <1>7, <1>8, <1>9 DEF RefsInv

(* The environment touches nothing of the command, and the command nothing *)
(* when it is over.                                                        *)
LEMMA OtherRefs == RefsInv /\ (ContextEnds \/ Change \/ UNCHANGED refsVars) => RefsInv'
<1> SUFFICES ASSUME RefsInv, ContextEnds \/ Change \/ UNCHANGED refsVars PROVE RefsInv'
  OBVIOUS
<1>1. /\ UNCHANGED <<query, step, waiting, cache, i, j, known, document, outcome, reads>>
      /\ tenant' \in Tenants
      /\ context' = context \/ context' = "ended"
  BY DEF ContextEnds, Change, refsVars, walk, RefsInv, WalkTypeOK
<1>2. To' = To /\ Items' = Items /\ AtItem' = AtItem /\ Current' = Current /\ Wanted' = Wanted
  BY <1>1, SameItem
<1>3. \A r : Have(r)' = Have(r) /\ WasRead(r)' = WasRead(r) /\ Listed(r)' = Listed(r)
  BY <1>1 DEF Have, WasRead, Listed
<1>4. WalkTypeOK'
  BY <1>1, <1>2 DEF RefsInv, WalkTypeOK
<1>5. CacheInv' /\ ReadingInv'
  BY <1>1, <1>2 DEF RefsInv, CacheInv, ReadingInv, Have
<1>6. StepInv'
  BY <1>1, <1>2, <1>3 DEF RefsInv, StepInv
<1>7. DocumentInv'
  BY <1>1, DocumentKept
<1>8. KnownInv'
  BY <1>1, <1>2, <1>3 DEF RefsInv, KnownInv, IsFirst, RefIDKey
<1> QED
  BY <1>4, <1>5, <1>6, <1>7, <1>8 DEF RefsInv

(* Moving on to the next field.                                            *)
LEMMA MoveOn ==
    ASSUME RefsInv, AtItem, ~waiting, NextItem, DocumentInv',
           UNCHANGED <<query, tenant, changes, context, step, waiting, cache, outcome, reads>>,
           DOMAIN document' = {"found", "skipped", "checked"}
    PROVE  RefsInv'
<1>1. /\ i' \in Items' \cup {Len(References) + 1} /\ Items' = Items /\ To' = To
      /\ j' = 1 /\ known' = {} /\ step = "walk"
  BY NextItemEffect DEF AtItem
<1>2. WalkTypeOK'
  BY <1>1 DEF RefsInv, WalkTypeOK
<1>3. CacheInv' /\ ReadingInv'
  BY DEF RefsInv, CacheInv, ReadingInv, Have
<1>4. StepInv'
  <2>1. outcome = Nil /\ outcome # "written"
    BY <1>1, RefsAssumption DEF RefsInv, StepInv, Outcome
  <2> QED
    BY <1>1, <2>1 DEF RefsInv, StepInv, Have
<1>5. KnownInv'
  <2>1. AtItem' => Current' = References[i'] /\ i' \in DOMAIN References
    BY <1>1 DEF AtItem, Current, Items
  <2>2. AtItem' => j' <= Len(Current'.targets) + 1
    BY <1>1, <2>1, CatalogTypes
  <2> QED
    BY <1>1, <2>2 DEF KnownInv
<1> QED
  BY <1>2, <1>3, <1>4, <1>5 DEF RefsInv

(* While nothing is needed, or what is needed is there, nothing is read.   *)
LEMMA NotReading ==
    ASSUME RefsInv, Wanted = Nil \/ Have(Wanted)
    PROVE  ~waiting
BY NoneIsNoResource DEF RefsInv, ReadingInv, Have

LEMMA AtItemTypes ==
    ASSUME RefsInv, AtItem
    PROVE  /\ i \in DOMAIN References /\ i \in Items /\ Current = References[i] /\ step = "walk"
           /\ Current.resource \in Resource /\ Current.field # Nil
           /\ Current.rendered \in BOOLEAN /\ Current.audit \in BOOLEAN
           /\ Current.targets \in Seq(STRING)
           /\ Range(Current.targets) = {Current.targets[m] : m \in 1..Len(Current.targets)}
           /\ ~To => Current.resource = query.resource /\ Have(Current.resource) /\ cache[Current.resource].reason = "none"
<1>1. i \in DOMAIN References /\ i \in Items /\ Current = References[i] /\ step = "walk"
  BY DEF AtItem, Items, Current
<1>2. ~To => Current.resource = query.resource
  BY <1>1 DEF Items
<1>3. ~To => Have(Current.resource) /\ cache[Current.resource].reason = "none"
  BY <1>1, <1>2 DEF RefsInv, StepInv
<1> QED
  BY <1>1, <1>2, <1>3, CatalogTypes

LEMMA PassOverRefs == RefsInv /\ PassOver => RefsInv'
<1> SUFFICES ASSUME RefsInv, PassOver PROVE RefsInv'
  OBVIOUS
<1>1. /\ AtItem /\ PassedOver(Current) /\ NextItem
      /\ UNCHANGED <<query, tenant, changes, context, step, waiting, cache, outcome, reads>>
  BY DEF PassOver
<1>2. PICK reason : document' = [document EXCEPT !.skipped = @ \cup {SkipOf(Current, reason)}]
  BY DEF PassOver, Skip
<1> DEFINE S == {SkipOf(Current, reason)}
<1>3. DOMAIN document = {"found", "skipped", "checked"}
  BY DEF RefsInv, WalkTypeOK
<1>4. /\ DOMAIN document' = {"found", "skipped", "checked"}
      /\ document'.skipped = document.skipped \cup S
      /\ document'.found = document.found \cup {}
  BY <1>2, <1>3
<1>5. ~waiting
  <2>1. Wanted = Nil
    <3>1. step # "source"
      BY <1>1 DEF AtItem
    <3> QED
      BY <1>1, <3>1 DEF Wanted
  <2> QED
    BY <2>1, NotReading
<1>6. PICK k : k = i
  OBVIOUS
<1> DEFINE item == References[k]
<1>7. /\ Current = item /\ item.field # Nil
      /\ To => ~item.rendered
      /\ ~To => (~item.rendered \/ item.audit) /\ Have(item.resource)
  BY <1>1, <1>6, AtItemTypes DEF PassedOver
<1>8. SkippedField(item)' /\ {h \in document'.found : h.item = k} = {}
  <2>1. {h \in document.found : h.item = k} = {}
    BY <1>1, <1>6, NothingSaid
  <2>2. SkipOf(item, reason) \in document'.skipped
    BY <1>4, <1>7
  <2>3. SkipOf(item, reason).resource = item.resource /\ SkipOf(item, reason).field = item.field
    BY DEF SkipOf
  <2> QED
    BY <1>4, <2>1, <2>2, <2>3 DEF SkippedField
<1>9. Settled(k)
  BY <1>7 DEF Settled
<1>10. IF To THEN AllFound(k)' ELSE Dangling(k)'
  <2>1. CASE To
    BY <1>7, <1>8, <2>1 DEF AllFound
  <2>2. CASE ~To
    <3>1. ~Compared(item)'
      BY <1>7, <2>2 DEF Compared
    <3> QED
      BY <1>7, <1>8, <2>2, <3>1 DEF Dangling
  <2> QED
    BY <2>1, <2>2
<1>11. DocumentInv'
  <2>1. \A s \in document'.skipped \ document.skipped :
           IF s.field = Nil THEN s.resource \in KeyHidden \/ NotRead(s.resource)
           ELSE s.resource = Current.resource /\ s.field = Current.field
    BY <1>4, <1>7 DEF SkipOf
  <2>2. document'.found = document.found /\ document.skipped \subseteq document'.skipped
    BY <1>4
  <2> QED
    BY <1>1, <1>6, <1>9, <1>10, <2>1, <2>2, FieldIsDone
<1> QED
  BY <1>1, <1>4, <1>5, <1>11, MoveOn

(* The values of a field and the records that hold them.                   *)
LEMMA HoldPairs ==
    ASSUME NEW r, NEW field
    PROVE  /\ \A h \in Hold(r, field) :
                /\ h = <<h[1], h[2]>> /\ h[1] \in DOMAIN cache[r].records
                /\ h[2] \in cache[r].records[h[1]].refs[field] /\ RefIDKey(h[2]) # Nil
           /\ \A n \in DOMAIN cache[r].records : \A v \in cache[r].records[n].refs[field] :
                 RefIDKey(v) # Nil => <<n, v>> \in Hold(r, field)
<1>1. ASSUME NEW h \in Hold(r, field)
      PROVE  /\ h = <<h[1], h[2]>> /\ h[1] \in DOMAIN cache[r].records
             /\ h[2] \in cache[r].records[h[1]].refs[field] /\ RefIDKey(h[2]) # Nil
  BY DEF Hold
<1>2. ASSUME NEW n \in DOMAIN cache[r].records, NEW v \in cache[r].records[n].refs[field], RefIDKey(v) # Nil
      PROVE  <<n, v>> \in Hold(r, field)
  <2>1. v \in UNION {rec.refs[field] : rec \in Range(cache[r].records)}
    BY DEF Range
  <2>2. <<n, v>> \in (DOMAIN cache[r].records) \X UNION {rec.refs[field] : rec \in Range(cache[r].records)}
    BY <2>1
  <2> QED
    BY <1>2, <2>2 DEF Hold
<1> QED
  BY <1>1, <1>2

LEMMA SiteRefs == RefsInv /\ Site => RefsInv'
<1> SUFFICES ASSUME RefsInv, Site PROVE RefsInv'
  OBVIOUS
<1>1. /\ To /\ AtItem /\ ~PassedOver(Current) /\ Have(Current.resource) /\ NextItem
      /\ UNCHANGED <<query, tenant, changes, context, step, waiting, cache, outcome, reads>>
  BY DEF Site
<1>2. DOMAIN document = {"found", "skipped", "checked"}
  BY DEF RefsInv, WalkTypeOK
<1>3. ~waiting
  <2>1. step # "source"
    BY <1>1 DEF AtItem
  <2>2. Wanted = Current.resource
    BY <1>1, <2>1 DEF Wanted
  <2> QED
    BY <1>1, <2>2, NotReading
<1>4. PICK k : k = i
  OBVIOUS
<1> DEFINE item == References[k]
           site == cache[item.resource]
           hits == {h \in Hold(item.resource, item.field) : RefIDKey(h[2]) = RefIDKey(query.id)}
<1>5. /\ Current = item /\ item.field # Nil /\ item.rendered /\ k \in DOMAIN References
      /\ Have(item.resource) /\ k \in Items
  BY <1>1, <1>4, AtItemTypes DEF PassedOver
<1>6. {h \in document.found : h.item = k} = {} /\ ~SkippedField(item)
  BY <1>1, <1>4, <1>5, NothingSaid
<1>7. Settled(k)
  BY <1>1, <1>5 DEF Settled
<1>8. CASE site.reason # "none"
  <2>1. document' = [document EXCEPT !.skipped = @ \cup {SkipOf(item, site.reason)}]
    BY <1>1, <1>5, <1>8 DEF Site, Skip
  <2>2. /\ DOMAIN document' = {"found", "skipped", "checked"}
        /\ document'.skipped = document.skipped \cup {SkipOf(item, site.reason)}
        /\ document'.found = document.found
    BY <1>2, <2>1
  <2>3. SkipOf(item, site.reason).resource = item.resource /\ SkipOf(item, site.reason).field = item.field
    BY DEF SkipOf
  <2>4. SkippedField(item)'
    BY <2>2, <2>3 DEF SkippedField
  <2>5. AllFound(k)'
    BY <1>1, <1>6, <1>8, <2>2, <2>4 DEF AllFound, Have
  <2>6. DocumentInv'
    <3>1. \A s \in document'.skipped \ document.skipped :
             IF s.field = Nil THEN s.resource \in KeyHidden \/ NotRead(s.resource)
             ELSE s.resource = Current.resource /\ s.field = Current.field
      BY <1>5, <2>2, <2>3
    <3>2. document'.found = document.found /\ document.skipped \subseteq document'.skipped
      BY <2>2
    <3> QED
      BY <1>1, <1>4, <1>7, <2>5, <3>1, <3>2, FieldIsDone
  <2> QED
    BY <1>1, <1>3, <2>2, <2>6, MoveOn
<1>9. CASE site.reason = "none"
  <2> DEFINE F == {[item |-> i, record |-> h[1], id |-> query.id] : h \in hits}
  <2>1. document' = [document EXCEPT !.checked = @ + 1, !.found = @ \cup F]
    BY <1>1, <1>5, <1>9 DEF Site
  <2>2. /\ DOMAIN document' = {"found", "skipped", "checked"}
        /\ document'.skipped = document.skipped
        /\ document'.found = document.found \cup F
    BY <1>2, <2>1
  <2>3. \A h \in F : h.item = i
    OBVIOUS
  <2>4. {h \in document'.found : h.item = k} = F
    BY <1>4, <1>6, <2>2, <2>3
  <2>5. ~SkippedField(item)'
    BY <1>6, <2>2 DEF SkippedField
  <2>6. {h.record : h \in F} = {n \in DOMAIN site.records :
                                   \E v \in site.records[n].refs[item.field] : v.id = query.id.id /\ v.id # 0}
    <3>1. {h.record : h \in F} = {h[1] : h \in hits}
      <4> HIDE DEF hits
      <4>1. ASSUME NEW h \in hits PROVE \E f \in F : f.record = h[1]
        <5>1. [item |-> i, record |-> h[1], id |-> query.id] \in F
          OBVIOUS
        <5> QED
          BY <5>1
      <4>2. ASSUME NEW f \in F PROVE \E h \in hits : f.record = h[1]
        OBVIOUS
      <4> HIDE DEF F
      <4> QED
        BY <4>1, <4>2
    <3>2. ASSUME NEW n \in DOMAIN site.records, NEW v \in site.records[n].refs[item.field]
          PROVE  RefIDKey(v) # Nil /\ RefIDKey(v) = RefIDKey(query.id) <=> v.id = query.id.id /\ v.id # 0
      <4>1. v.id \in Nat /\ query.id.id \in Nat
        BY <1>5, <1>9, ListTypes, QueryTypes DEF RefsInv, Have
      <4> QED
        BY <4>1, RefIDKeys
    <3>3. \A n : n \in {h[1] : h \in hits} <=>
             n \in DOMAIN site.records /\ \E v \in site.records[n].refs[item.field] :
                 RefIDKey(v) # Nil /\ RefIDKey(v) = RefIDKey(query.id)
      <4>1. ASSUME NEW n \in DOMAIN site.records, NEW v \in site.records[n].refs[item.field],
                   RefIDKey(v) # Nil, RefIDKey(v) = RefIDKey(query.id)
            PROVE  n \in {h[1] : h \in hits}
        <5>1. <<n, v>> \in Hold(item.resource, item.field)
          BY <4>1, HoldPairs
        <5>2. <<n, v>> \in hits
          BY <4>1, <5>1
        <5> QED
          BY <5>2
      <4>2. ASSUME NEW h \in hits
            PROVE  h[1] \in DOMAIN site.records /\ \E v \in site.records[h[1]].refs[item.field] :
                      RefIDKey(v) # Nil /\ RefIDKey(v) = RefIDKey(query.id)
        <5>1. h \in Hold(item.resource, item.field) /\ RefIDKey(h[2]) = RefIDKey(query.id)
          OBVIOUS
        <5> QED
          BY <5>1, HoldPairs
      <4> HIDE DEF hits
      <4> QED
        BY <4>1, <4>2
    <3> QED
      BY <3>1, <3>2, <3>3
  <2>7. AllFound(k)'
    <3>1. Have(item.resource)' /\ cache' = cache /\ query' = query
      BY <1>1, <1>5 DEF Have
    <3>2. {h.record : h \in {h \in document'.found : h.item = k}} = {h.record : h \in F}
      BY <2>4
    <3>3. item.rendered = TRUE /\ SkippedField(item)' = FALSE
      BY <1>5, <2>5, AtItemTypes, <1>1
    <3>4. {h.record : h \in {h \in document'.found : h.item = k}} =
             {n \in DOMAIN cache'[item.resource].records :
                 \E v \in cache'[item.resource].records[n].refs[item.field] :
                     v.id = query'.id.id /\ v.id # 0}
      BY <2>6, <3>1, <3>2
    <3> HIDE DEF F, hits
    <3> QED
      BY <1>9, <3>1, <3>3, <3>4 DEF AllFound
  <2>8. DocumentInv'
    <3> HIDE DEF F, hits
    <3>1. document'.skipped = document.skipped /\ document.found \subseteq document'.found
          /\ \A h \in document'.found \ document.found : h.item = i
      BY <2>2, <2>3
    <3> QED
      BY <1>1, <1>4, <1>7, <2>7, <3>1, FieldIsDone
  <2> QED
    BY <1>1, <1>3, <2>2, <2>8, MoveOn
<1> QED
  BY <1>8, <1>9

LEMMA TargetRefs == RefsInv /\ Target => RefsInv'
<1> SUFFICES ASSUME RefsInv, Target PROVE RefsInv'
  OBVIOUS
<1> DEFINE target == Current.targets[j]
<1>1. /\ ~To /\ AtItem /\ ~PassedOver(Current) /\ j <= Len(Current.targets)
      /\ UNCHANGED <<query, tenant, changes, context, step, waiting, cache, outcome, reads>>
  BY DEF Target
<1>2. DOMAIN document = {"found", "skipped", "checked"} /\ j \in 1..Len(Current.targets)
  BY <1>1, AtItemTypes DEF RefsInv, WalkTypeOK
<1>3. Wanted = IF target \in KeyHidden THEN Nil ELSE target
  <2>1. step # "source"
    BY <1>1 DEF AtItem
  <2> QED
    BY <1>1, <2>1 DEF Wanted
<1>4. target \in KeyHidden \/ Have(target)
  BY DEF Target
<1>5. ~waiting
  BY <1>3, <1>4, NotReading
<1>6. target \in Range(Current.targets) /\ target \in Resource
  BY <1>1, <1>2, AtItemTypes, CatalogTypes
<1>7. CASE /\ target \in KeyHidden \/ NotRead(target)
           /\ NextItem
           /\ \E reason : document' = [document EXCEPT !.skipped = @ \cup
                             {SkipTarget(target, reason), SkipOf(Current, "target_not_checked")}]
  <2>1. PICK reason : document' = [document EXCEPT !.skipped = @ \cup
                         {SkipTarget(target, reason), SkipOf(Current, "target_not_checked")}]
    BY <1>7
  <2>2. PICK k, r : k = i /\ r = target
    OBVIOUS
  <2> DEFINE item == References[k]
  <2>3. /\ Current = item /\ item.field # Nil /\ item.rendered /\ ~item.audit /\ Have(item.resource)
        /\ r \in Range(item.targets) /\ (r \in KeyHidden \/ NotRead(r))
    BY <1>1, <1>6, <1>7, <2>2, AtItemTypes DEF PassedOver
  <2>4. /\ SkipOf(item, "target_not_checked").resource = item.resource
        /\ SkipOf(item, "target_not_checked").field = item.field
        /\ SkipTarget(r, reason).resource = r /\ SkipTarget(r, reason).field = Nil
    BY DEF SkipOf, SkipTarget
  <2>5. /\ DOMAIN document' = {"found", "skipped", "checked"}
        /\ document'.skipped = document.skipped \cup {SkipTarget(r, reason), SkipOf(item, "target_not_checked")}
        /\ document'.found = document.found
    BY <1>2, <2>1, <2>2, <2>3
  <2>6. SkippedField(item)' /\ {h \in document'.found : h.item = k} = {}
    BY <1>1, <2>2, <2>4, <2>5, NothingSaid DEF SkippedField
  <2>7. Settled(k)
    BY <1>1, <2>3 DEF Settled
  <2>8. ~WasRead(r)' /\ ~Compared(item)'
    BY <1>1, <2>3 DEF Compared, WasRead, NotRead, Have
  <2>9. Dangling(k)'
    <3>1. \E s \in document'.skipped : s.resource = r /\ s.field = Nil
      BY <2>4, <2>5
    <3> QED
      BY <2>3, <2>6, <2>8, <3>1 DEF Dangling
  <2>10. DocumentInv'
    <3>1. \A s \in document'.skipped \ document.skipped :
             IF s.field = Nil THEN s.resource \in KeyHidden \/ NotRead(s.resource)
             ELSE s.resource = Current.resource /\ s.field = Current.field
      BY <2>3, <2>4, <2>5
    <3>2. document'.found = document.found /\ document.skipped \subseteq document'.skipped
      BY <2>5
    <3> QED
      BY <1>1, <1>7, <2>2, <2>7, <2>9, <3>1, <3>2, FieldIsDone
  <2> QED
    BY <1>1, <1>5, <1>7, <2>5, <2>10, MoveOn
<1>8. CASE /\ target \notin KeyHidden /\ Have(target) /\ cache[target].reason = "none"
           /\ known' = known \cup Ids(target) /\ j' = j + 1 /\ UNCHANGED <<i, document>>
  <2>1. To' = To /\ Items' = Items /\ AtItem' = AtItem /\ Current' = Current
    BY <1>1, <1>8 DEF To, Items, AtItem, Current
  <2>2. WalkTypeOK'
    BY <1>1, <1>2, <1>8, <2>1 DEF RefsInv, WalkTypeOK
  <2>3. CacheInv' /\ ReadingInv'
    BY <1>1, <1>5 DEF RefsInv, CacheInv, ReadingInv, Have
  <2>4. StepInv'
    <3>1. outcome = Nil /\ outcome # "written"
      BY <1>1, RefsAssumption DEF AtItem, RefsInv, StepInv, Outcome
    <3> QED
      BY <1>1, <1>8, <2>1, <3>1 DEF RefsInv, StepInv, Have
  <2>5. DocumentInv'
    BY <1>1, <1>8, DocumentKept
  <2>6. KnownInv'
    <3>1. \A r : WasRead(r)' = WasRead(r) /\ Listed(r)' = Listed(r)
      BY <1>1 DEF WasRead, Have, Listed
    <3>2. WasRead(target)
      BY <1>8 DEF WasRead
    <3>3. \A m \in 1..j : WasRead(Current.targets[m])
      BY <1>1, <1>2, <3>2 DEF RefsInv, KnownInv
    <3>4. \A x : x \in Ids(target) <=> x # Nil /\ \E rec \in Listed(target) : RefIDKey(rec.key) = x
      BY DEF Ids, Listed
    <3>5. \A x : x \in known <=> x # Nil /\ \E m \in 1..(j - 1) : \E rec \in Listed(Current.targets[m]) :
                                                RefIDKey(rec.key) = x
      BY <1>1 DEF RefsInv, KnownInv
    <3>6. 1..j = 1..(j - 1) \cup {j}
      BY <1>2
    <3>7. \A x : x \in known' <=> x # Nil /\ \E m \in 1..j : \E rec \in Listed(Current.targets[m]) :
                                                 RefIDKey(rec.key) = x
      BY <1>8, <3>4, <3>5, <3>6
    <3>8. j' # 1 /\ 1..(j' - 1) = 1..j /\ j' <= Len(Current.targets) + 1 /\ step' = "walk"
      BY <1>1, <1>2, <1>8 DEF AtItem
    <3>9. PICK item : item = Current
      OBVIOUS
    <3>10. Current' = item /\ \A m \in 1..j : WasRead(item.targets[m])' /\ Listed(item.targets[m])' = Listed(item.targets[m])
      BY <2>1, <3>1, <3>3, <3>9
    <3>11. \A x : x \in known' <=> x # Nil /\ \E m \in 1..j : \E rec \in Listed(item.targets[m])' :
                                                  RefIDKey(rec.key) = x
      BY <3>7, <3>9, <3>10
    <3> QED
      BY <2>1, <3>8, <3>9, <3>10, <3>11 DEF KnownInv, RefIDKey
  <2> QED
    BY <2>2, <2>3, <2>4, <2>5, <2>6 DEF RefsInv
<1> QED
  BY <1>7, <1>8 DEF Target, NotRead, Skip

LEMMA FieldRefs == RefsInv /\ Field => RefsInv'
<1> SUFFICES ASSUME RefsInv, Field PROVE RefsInv'
  OBVIOUS
<1>1. /\ ~To /\ AtItem /\ ~PassedOver(Current) /\ j > Len(Current.targets) /\ NextItem
      /\ UNCHANGED <<query, tenant, changes, context, step, waiting, cache, outcome, reads>>
  BY DEF Field
<1>2. DOMAIN document = {"found", "skipped", "checked"}
  BY DEF RefsInv, WalkTypeOK
<1>3. ~waiting
  <2>1. step # "source" /\ ~(j <= Len(Current.targets))
    BY <1>1, AtItemTypes DEF AtItem, RefsInv, WalkTypeOK
  <2>2. Wanted = Nil
    BY <1>1, <2>1 DEF Wanted
  <2> QED
    BY <2>2, NotReading
<1>4. PICK k : k = i
  OBVIOUS
<1> DEFINE item == References[k]
           records == cache[item.resource].records
           ids == Hold(item.resource, item.field)
           hits == {p \in ids : RefIDKey(p[2]) \notin known}
           F == {[item |-> i, record |-> h[1], id |-> h[2]] : h \in hits}
<1>5. /\ Current = item /\ item.field # Nil /\ item.rendered /\ ~item.audit /\ k \in DOMAIN References
      /\ Have(item.resource) /\ cache[item.resource].reason = "none" /\ item.resource = query.resource
      /\ item.targets \in Seq(STRING)
      /\ Range(item.targets) = {item.targets[m] : m \in 1..Len(item.targets)}
  BY <1>1, <1>4, AtItemTypes DEF PassedOver
<1>6. {h \in document.found : h.item = k} = {} /\ ~SkippedField(item)
  BY <1>1, <1>4, <1>5, NothingSaid
<1>7. j = Len(item.targets) + 1
  BY <1>1, <1>5 DEF RefsInv, KnownInv, WalkTypeOK
<1>8. \A r \in Range(item.targets) : WasRead(r)
  BY <1>1, <1>5, <1>7 DEF RefsInv, KnownInv
<1>9. Settled(k)
  BY <1>1, <1>5, <1>8 DEF Settled
<1>10. document' = [document EXCEPT !.checked = @ + Cardinality(ids), !.found = @ \cup F]
  BY <1>1, <1>5 DEF Field
<1>11. /\ DOMAIN document' = {"found", "skipped", "checked"}
       /\ document'.skipped = document.skipped
       /\ document'.found = document.found \cup F
  BY <1>2, <1>10
<1>12. {h \in document'.found : h.item = k} = F
  BY <1>4, <1>6, <1>11
<1>13. ASSUME NEW n \in DOMAIN records, NEW v \in records[n].refs[item.field]
       PROVE  <<n, v>> \in {<<h.record, h.id>> : h \in F} <=>
                 v.id # 0 /\ \A r \in Range(item.targets) : \A rec \in Listed(r) : rec.key.id # v.id
  <2>1. v.id \in Nat
    BY <1>5, ListTypes DEF RefsInv, Have
  <2>2. <<n, v>> \in {<<h.record, h.id>> : h \in F} <=> <<n, v>> \in hits
    <3>1. ASSUME NEW h \in hits, h = <<n, v>> PROVE <<n, v>> \in {<<f.record, f.id>> : f \in F}
      <4>1. [item |-> i, record |-> h[1], id |-> h[2]] \in F
        OBVIOUS
      <4> QED
        BY <3>1, <4>1
    <3>2. ASSUME NEW f \in F, <<n, v>> = <<f.record, f.id>> PROVE <<n, v>> \in hits
      <4>1. PICK h \in hits : f = [item |-> i, record |-> h[1], id |-> h[2]]
        OBVIOUS
      <4>2. h \in Hold(item.resource, item.field)
        OBVIOUS
      <4>3. h = <<h[1], h[2]>>
        BY <4>2, HoldPairs
      <4>4. h[1] = n /\ h[2] = v
        BY <3>2, <4>1
      <4> QED
        BY <4>1, <4>3, <4>4
    <3> HIDE DEF F, hits
    <3> QED
      BY <3>1, <3>2
  <2>3. <<n, v>> \in hits <=> RefIDKey(v) # Nil /\ RefIDKey(v) \notin known
    <3>1. <<n, v>> \in ids <=> RefIDKey(v) # Nil
      BY HoldPairs
    <3> QED
      BY <3>1
  <2>4. v.id # 0 => RefIDKey(v) = v.id /\ v.id # Nil
    BY <2>1, RefIDKeys
  <2>5. RefIDKey(v) # Nil <=> v.id # 0
    BY <2>1, RefIDKeys
  <2>6. v.id \in known <=> v.id # Nil /\ \E r \in Range(item.targets) : \E rec \in Listed(r) : RefIDKey(rec.key) = v.id
    BY <1>1, <1>5, <1>7 DEF RefsInv, KnownInv
  <2>7. ASSUME NEW r \in Range(item.targets), NEW rec \in Listed(r), v.id # 0
        PROVE  RefIDKey(rec.key) = v.id <=> rec.key.id = v.id
    <3>1. WasRead(r)
      BY <1>8
    <3>2. rec.key.id \in Nat
      BY <3>1, ListTypes DEF WasRead, Have, Listed, Range, RefsInv
    <3>3. v.id # Nil
      BY <2>4, <2>7
    <3> QED
      BY <2>1, <2>7, <3>2, <3>3, RefIDKeys
  <2> HIDE DEF F, hits, ids, records, item
  <2> QED
    BY <2>2, <2>3, <2>4, <2>5, <2>6, <2>7
<1>14. Dangling(k)'
  <2>1. \A r : WasRead(r)' = WasRead(r) /\ Listed(r)' = Listed(r) /\ cache' = cache
    BY <1>1 DEF WasRead, Have, Listed
  <2>2. Compared(item)' /\ ~SkippedField(item)'
    BY <1>5, <1>6, <1>8, <1>11, <2>1 DEF Compared, SkippedField
  <2>3. {<<h.record, h.id>> : h \in {h \in document'.found : h.item = k}} = {<<h.record, h.id>> : h \in F}
    BY <1>12
  <2> DEFINE pairs == {<<h.record, h.id>> : h \in F}
  <2>4. {<<h.record, h.id>> : h \in {h \in document'.found : h.item = k}} = pairs
    BY <2>3
  <2>5. \A n \in DOMAIN records : \A v \in records[n].refs[item.field] :
           <<n, v>> \in pairs <=>
              v.id # 0 /\ \A r \in Range(item.targets) : \A rec \in Listed(r)' : rec.key.id # v.id
    BY <1>13, <2>1
  <2>6. cache'[item.resource].records = records /\ SkippedField(item)' = ~Compared(item)'
    BY <2>1, <2>2 DEF SkippedField, Compared
  <2> HIDE DEF pairs, item
  <2> QED
    BY <2>2, <2>4, <2>5, <2>6 DEF Dangling, item
<1>15. DocumentInv'
  <2>1. \A h \in F : h.item = i
    OBVIOUS
  <2> HIDE DEF F
  <2>2. document'.skipped = document.skipped /\ document.found \subseteq document'.found
        /\ \A h \in document'.found \ document.found : h.item = i
    BY <1>11, <2>1
  <2> QED
    BY <1>1, <1>4, <1>9, <1>14, <2>2, FieldIsDone
<1> QED
  BY <1>1, <1>3, <1>11, <1>15, MoveOn

-----------------------------------------------------------------------------
(* The theorems.                                                           *)

(* What was read, what is known of it and what the document says of the    *)
(* fields behind, at every step (FindRefsTo, CheckRefs, cachedReader).     *)
THEOREM RefsInvCorrect == RefsSpec => []RefsInv
<1>1. RefsInit => RefsInv
  BY InitRefs
<1>2. RefsInv /\ [RefsNext]_refsVars => RefsInv'
  BY OpenRefs, FetchRefs, FetchedRefs, SourceRefs, PassOverRefs, SiteRefs,
     TargetRefs, FieldRefs, FinishRefs, OtherRefs DEF RefsNext, Over
<1> QED
  BY <1>1, <1>2, PTL DEF RefsSpec

(* A document that is written is true: of every field that points at the   *)
(* resource, or that it has, what is found is all there is to find in what *)
(* was read, and what was not compared is named (FindRefsTo, CheckRefs,    *)
(* targetIDs).                                                             *)
THEOREM DocumentsAreTrue == RefsSpec => []RefsAreTrue
<1>1. RefsInv => RefsAreTrue
  <2> SUFFICES ASSUME RefsInv, outcome = "written", NEW k \in Items
               PROVE  IF To THEN AllFound(k) ELSE Dangling(k)
    BY DEF RefsAreTrue
  <2>1. i = Len(References) + 1
    BY DEF RefsInv, StepInv
  <2>2. k \in Done
    BY <2>1, ItemNumbers DEF Done
  <2> QED
    BY <2>2 DEF RefsInv, DocumentInv
<1> QED
  BY <1>1, RefsInvCorrect, PTL

(* A document rests on one reading of each resource, none of which failed  *)
(* because the context ended (cachedReader, runRefs).                      *)
THEOREM ReadingsAreNotRepeated == RefsSpec => []OneReading
<1>1. RefsInv => OneReading
  <2> SUFFICES ASSUME RefsInv PROVE OneReading
    OBVIOUS
  <2>1. \A r \in Resource : reads[r] <= 1
    BY DEF RefsInv, WalkTypeOK
  <2>2. outcome = "written" =>
          /\ \A r \in DOMAIN cache : cache[r].cause # "context"
          /\ ~To => cache[query.resource].reason = "none"
    BY DEF RefsInv, StepInv
  <2>3. outcome = "context" => context = "ended"
    BY DEF RefsInv, StepInv
  <2> QED
    BY <2>1, <2>2, <2>3 DEF OneReading
<1> QED
  BY <1>1, RefsInvCorrect, PTL

-----------------------------------------------------------------------------
(* The settings of a command.                                              *)

(* What comes of the environment, of the profile and of the flags.         *)
OfEnv == [EnvConfig(host.env) EXCEPT !.mode = EffectiveAuthMode(EnvConfig(host.env))]
Profiled == WithProfile(OfEnv, File.profiles[profile], host.env)
OfFile == [Profiled EXCEPT !.mode = EffectiveAuthMode(Profiled)]
Loaded == IF profile = Nothing THEN OfEnv ELSE OfFile
Flagged(c) ==
    [c EXCEPT !.redaction = Either(host.flags.redaction, @),
              !.no_cache = IF host.flags.no_cache THEN "true" ELSE @]

Setting == Trimmed \cup Name \cup Secret \cup {"mode", "from", "redaction", "no_cache", "proxy_env"}

LEMMA EnvIs ==
    /\ DOMAIN OfEnv = Setting
    /\ \A w \in Trimmed : OfEnv[w] = Trim(host.env[w])
    /\ \A w \in Name : OfEnv[w] = host.env[w]
    /\ \A s \in Secret : OfEnv[s] = EnvSecret(host.env, s) /\ OfEnv.from[s] = (host.env.files[s] # Nothing)
    /\ OfEnv.mode = EffectiveAuthMode(EnvConfig(host.env))
    /\ OfEnv.redaction = Either(host.env.redaction, "standard")
    /\ OfEnv.no_cache = Either(host.env.no_cache, "false")
<1>1. \A w \in Setting : EnvConfig(host.env)[w] =
        CASE w \in Trimmed -> Trim(host.env[w])
          [] w \in Name -> host.env[w]
          [] w \in Secret -> EnvSecret(host.env, w)
          [] w = "mode" -> Trim(host.env.mode)
          [] w = "from" -> [s \in Secret |-> host.env.files[s] # Nothing]
          [] w = "redaction" -> Either(host.env.redaction, "standard")
          [] OTHER -> Either(host.env[w], "false")
  BY DEF EnvConfig, Setting
<1>2. DOMAIN EnvConfig(host.env) = Setting
  BY DEF EnvConfig, Setting
<1>3. \A w \in Trimmed : EnvConfig(host.env)[w] = Trim(host.env[w])
  BY <1>1 DEF Setting, Trimmed, Name, Secret
<1>4. \A w \in Name : EnvConfig(host.env)[w] = host.env[w]
  BY <1>1 DEF Setting, Trimmed, Name, Secret
<1>5. \A w \in Secret : EnvConfig(host.env)[w] = EnvSecret(host.env, w)
  BY <1>1 DEF Setting, Trimmed, Name, Secret
<1>6. EnvConfig(host.env).from = [s \in Secret |-> host.env.files[s] # Nothing]
  BY <1>1 DEF Setting, Trimmed, Name, Secret
<1>7. /\ EnvConfig(host.env).redaction = Either(host.env.redaction, "standard")
      /\ EnvConfig(host.env).no_cache = Either(host.env.no_cache, "false")
      /\ EnvConfig(host.env).mode = Trim(host.env.mode)
  BY <1>1 DEF Setting, Trimmed, Name, Secret
<1> QED
  BY <1>2, <1>3, <1>4, <1>5, <1>6, <1>7 DEF OfEnv, Setting, Trimmed, Name, Secret

LEMMA FileIs ==
    ASSUME profile # Nothing
    PROVE  /\ DOMAIN OfFile = Setting
           /\ \A w \in {"vanity", "cloud", "zia_cloud", "customer", "redaction", "no_cache"} \cup Name :
                 OfFile[w] = IF host.env[w] = Nothing /\ OfProfile(w) # Nothing THEN OfProfile(w) ELSE OfEnv[w]
           /\ \A s \in Secret :
                 OfFile[s] = IF OfEnv[s] = Unset /\ host.env.files[s] = Nothing THEN RefOf(s) ELSE OfEnv[s]
           /\ host.env.mode # Nothing /\ OfEnv.mode # Nothing => OfFile.mode = OfEnv.mode
           /\ host.env.mode = Nothing /\ OfProfile("mode") # Nothing => OfFile.mode = OfProfile("mode")
<1> DEFINE p == File.profiles[profile]
<1>1. /\ DOMAIN OfEnv = Setting
      /\ \A s \in Secret : OfEnv.from[s] = (host.env.files[s] # Nothing)
  BY EnvIs
<1>2. \A w \in Setting : Profiled[w] =
        CASE w \in {"vanity", "cloud", "zia_cloud", "customer"} \cup Name -> ProfileWord(OfEnv, p, host.env, w)
          [] w \in Secret -> ProfileSecret(OfEnv, p, w)
          [] w = "mode" -> ProfileMode(OfEnv, p, host.env)
          [] w \in {"redaction", "no_cache"} -> ProfileWord(OfEnv, p, host.env, w)
          [] OTHER -> OfEnv[w]
  BY <1>1 DEF Profiled, WithProfile
<1>3. DOMAIN Profiled = Setting
  BY <1>1 DEF Profiled, WithProfile
<1> HIDE DEF p
<1>4. \A w \in {"vanity", "cloud", "zia_cloud", "customer", "redaction", "no_cache"} \cup Name :
          Profiled[w] = ProfileWord(OfEnv, p, host.env, w)
  BY <1>2 DEF Setting, Trimmed, Name, Secret
<1>5. \A s \in Secret : Profiled[s] = ProfileSecret(OfEnv, p, s)
  BY <1>2 DEF Setting, Trimmed, Name, Secret
<1>6. Profiled.mode = ProfileMode(OfEnv, p, host.env)
  BY <1>2 DEF Setting, Trimmed, Name, Secret
<1>7. DOMAIN OfFile = Setting /\ (\A w \in Setting \ {"mode"} : OfFile[w] = Profiled[w])
      /\ OfFile.mode = EffectiveAuthMode(Profiled)
  BY <1>3 DEF OfFile, Setting
<1>8. \A w : OfProfile(w) = Trim(p[w])
  BY DEF OfProfile, p
<1>9. \A s : RefOf(s) = IF p[s] = Nothing THEN Unset ELSE Deferred(p[s])
  BY DEF RefOf, p
<1>10. \A w \in {"vanity", "cloud", "zia_cloud", "customer", "redaction", "no_cache"} \cup Name :
          OfFile[w] = IF host.env[w] = Nothing /\ OfProfile(w) # Nothing THEN OfProfile(w) ELSE OfEnv[w]
  <2> SUFFICES ASSUME NEW w \in {"vanity", "cloud", "zia_cloud", "customer", "redaction", "no_cache"} \cup Name
               PROVE  OfFile[w] = IF host.env[w] = Nothing /\ OfProfile(w) # Nothing THEN OfProfile(w) ELSE OfEnv[w]
    OBVIOUS
  <2>1. w \in Setting \ {"mode"}
    BY DEF Setting, Trimmed, Name, Secret
  <2>2. OfFile[w] = ProfileWord(OfEnv, p, host.env, w)
    BY <1>4, <1>7, <2>1
  <2> QED
    BY <1>8, <2>2 DEF ProfileWord, Says, Trim
<1>11. \A s \in Secret : OfFile[s] = IF OfEnv[s] = Unset /\ host.env.files[s] = Nothing THEN RefOf(s) ELSE OfEnv[s]
  <2> SUFFICES ASSUME NEW s \in Secret
               PROVE  OfFile[s] = IF OfEnv[s] = Unset /\ host.env.files[s] = Nothing THEN RefOf(s) ELSE OfEnv[s]
    OBVIOUS
  <2>1. s \in Setting \ {"mode"}
    BY DEF Setting, Trimmed, Name, Secret
  <2>2. OfFile[s] = ProfileSecret(OfEnv, p, s)
    BY <1>5, <1>7, <2>1
  <2> QED
    BY <1>1, <1>9, <2>2 DEF ProfileSecret, IsConfigured
<1>12. host.env.mode # Nothing /\ OfEnv.mode # Nothing => OfFile.mode = OfEnv.mode
  BY <1>6, <1>7 DEF ProfileMode, EffectiveAuthMode
<1>13. host.env.mode = Nothing /\ OfProfile("mode") # Nothing => OfFile.mode = OfProfile("mode")
  BY <1>6, <1>7, <1>8 DEF ProfileMode, EffectiveAuthMode
<1> QED
  BY <1>7, <1>10, <1>11, <1>12, <1>13

(* What a reader is made with.                                             *)
LEMMA SettingsAre ==
    ASSUME host \in Hosts, ~EnvUnusable(host.env), config = Flagged(Loaded), MissingCredentials(config) = {}
    PROVE  /\ \A w \in ModeWords(config) : Foremost(config[w], <<host.env[w], OfProfile(w)>>, Nothing)
           /\ \A s \in ToSet(ModeSecrets(config)) :
                 /\ Foremost(config[s], <<IF host.env[s] = Nothing THEN Unset ELSE Resolved("env"),
                                          IF host.env.files[s] = Nothing THEN Unset ELSE Resolved("file"),
                                          RefOf(s)>>, Unset)
                 /\ host.env.files[s] = "empty" => config[s] = Resolved("env")
           /\ Foremost(config.redaction,
                       <<host.flags.redaction, host.env.redaction, OfProfile("redaction"), "standard">>, Nothing)
           /\ Foremost(config.no_cache, <<IF host.flags.no_cache THEN "true" ELSE Nothing, host.env.no_cache,
                                          OfProfile("no_cache"), "false">>, Nothing)
           /\ Says(host.env.mode) => config.mode = host.env.mode
           /\ host.env.mode = Nothing /\ Says(OfProfile("mode")) => config.mode = OfProfile("mode")
<1>1. /\ DOMAIN Loaded = Setting
      /\ \A w \in {"vanity", "zia_cloud", "redaction", "no_cache"} \cup Name :
            Loaded[w] = IF host.env[w] = Nothing /\ OfProfile(w) # Nothing THEN OfProfile(w) ELSE OfEnv[w]
      /\ \A s \in Secret :
            Loaded[s] = IF OfEnv[s] = Unset /\ host.env.files[s] = Nothing THEN RefOf(s) ELSE OfEnv[s]
      /\ host.env.mode # Nothing /\ OfEnv.mode # Nothing => Loaded.mode = OfEnv.mode
      /\ host.env.mode = Nothing /\ OfProfile("mode") # Nothing => Loaded.mode = OfProfile("mode")
  <2>1. CASE profile = Nothing
    <3>1. Loaded = OfEnv /\ (\A w : OfProfile(w) = Nothing) /\ (\A s : RefOf(s) = Unset)
      BY <2>1 DEF Loaded, OfProfile, RefOf
    <3> QED
      BY <3>1, EnvIs
  <2>2. CASE profile # Nothing
    <3>1. Loaded = OfFile
      BY <2>2 DEF Loaded
    <3> QED
      BY <2>2, <3>1, FileIs
  <2> QED
    BY <2>1, <2>2
<1>2. /\ DOMAIN config = Setting
      /\ \A w \in Setting \ {"redaction", "no_cache"} : config[w] = Loaded[w]
      /\ config.redaction = Either(host.flags.redaction, Loaded.redaction)
      /\ config.no_cache = IF host.flags.no_cache THEN "true" ELSE Loaded.no_cache
  BY <1>1 DEF Flagged, Setting
<1>3. /\ OfEnv["vanity"] = Trim(host.env["vanity"]) /\ OfEnv["zia_cloud"] = Trim(host.env["zia_cloud"])
      /\ OfEnv.mode = EffectiveAuthMode(EnvConfig(host.env))
      /\ OfEnv.redaction = Either(host.env.redaction, "standard")
      /\ OfEnv.no_cache = Either(host.env.no_cache, "false")
  BY EnvIs DEF Trimmed
<1>4. \A w \in ModeWords(config) : config[w] # Nothing
  BY DEF MissingCredentials
<1>5. \A s \in Secret \cap ToSet(ModeSecrets(config)) : config[s] # Unset
  BY DEF MissingCredentials, IsConfigured
<1>6. ASSUME NEW w \in ModeWords(config)
      PROVE  Foremost(config[w], <<host.env[w], OfProfile(w)>>, Nothing)
  <2>1. w \in {"vanity", "zia_cloud"} \cup Name /\ w \in Setting \ {"redaction", "no_cache"}
    BY DEF ModeWords, Name, Setting, Trimmed
  <2>2. config[w] = IF host.env[w] = Nothing /\ OfProfile(w) # Nothing THEN OfProfile(w) ELSE OfEnv[w]
    BY <1>1, <1>2, <2>1
  <2>3. OfEnv[w] = host.env[w] \/ OfEnv[w] = Trim(host.env[w])
    BY <1>3, <2>1, EnvIs
  <2>4. config[w] # Nothing
    BY <1>4
  <2> QED
    BY <2>2, <2>3, <2>4 DEF Foremost, Trim
<1>7. ASSUME NEW s \in ToSet(ModeSecrets(config))
      PROVE  /\ Foremost(config[s], <<IF host.env[s] = Nothing THEN Unset ELSE Resolved("env"),
                                      IF host.env.files[s] = Nothing THEN Unset ELSE Resolved("file"),
                                      RefOf(s)>>, Unset)
             /\ host.env.files[s] = "empty" => config[s] = Resolved("env")
  <2>1. s \in Secret
    BY DEF ToSet, ModeSecrets, Secret
  <2>2. config[s] = IF OfEnv[s] = Unset /\ host.env.files[s] = Nothing THEN RefOf(s) ELSE OfEnv[s]
    <3>1. s \in Setting \ {"redaction", "no_cache"}
      BY <2>1 DEF Setting, Secret
    <3> QED
      BY <1>1, <1>2, <2>1, <3>1
  <2>3. OfEnv[s] = EnvSecret(host.env, s)
    BY <2>1, EnvIs
  <2>4. config[s] # Unset
    BY <1>5, <2>1
  <2>5. host.env.files[s] \in {Nothing, "good", "empty"}
    BY <2>1, HostsAssumption DEF EnvUnusable
  <2>6. Resolved("env") # Unset /\ Resolved("file") # Unset
    BY DEF Resolved, Unset, Nothing
  <2> QED
    BY <2>2, <2>3, <2>4, <2>5, <2>6 DEF Foremost, EnvSecret, Nothing
<1>8. host.env.redaction \notin {"blank", "bad"} /\ host.env.no_cache \notin {"blank", "bad"}
  BY DEF EnvUnusable, Parses
<1>9. Foremost(config.redaction,
               <<host.flags.redaction, host.env.redaction, OfProfile("redaction"), "standard">>, Nothing)
  <2>1. Loaded.redaction = IF host.env.redaction = Nothing /\ OfProfile("redaction") # Nothing
                           THEN OfProfile("redaction") ELSE OfEnv.redaction
    BY <1>1
  <2> QED
    BY <1>2, <1>3, <2>1 DEF Foremost, Either, Nothing
<1>10. Foremost(config.no_cache, <<IF host.flags.no_cache THEN "true" ELSE Nothing, host.env.no_cache,
                                   OfProfile("no_cache"), "false">>, Nothing)
  <2>1. Loaded.no_cache = IF host.env.no_cache = Nothing /\ OfProfile("no_cache") # Nothing
                          THEN OfProfile("no_cache") ELSE OfEnv.no_cache
    BY <1>1
  <2> QED
    BY <1>2, <1>3, <2>1 DEF Foremost, Either, Nothing
<1>11. Says(host.env.mode) => config.mode = host.env.mode
  <2>1. EnvConfig(host.env).mode = Trim(host.env.mode)
    BY DEF EnvConfig, Trimmed, Name, Secret
  <2>2. Says(host.env.mode) => OfEnv.mode = host.env.mode
    BY <1>3, <2>1 DEF EffectiveAuthMode, Says, Trim
  <2>3. config.mode = Loaded.mode
    BY <1>2 DEF Setting
  <2> QED
    BY <1>1, <2>2, <2>3 DEF Says, Trim
<1>12. host.env.mode = Nothing /\ Says(OfProfile("mode")) => config.mode = OfProfile("mode")
  <2>1. config.mode = Loaded.mode
    BY <1>2 DEF Setting
  <2> QED
    BY <1>1, <2>1 DEF Says, Trim
<1> QED
  BY <1>6, <1>7, <1>9, <1>10, <1>11, <1>12

-----------------------------------------------------------------------------
(* How far a command has come with its settings.                           *)
Gathered ==
    /\ host \in Hosts
    /\ stage \in Stages
    /\ stage \in {"environment", "profile"} => profile = Nothing
    /\ stage = "apply" => profile # Nothing
    /\ stage \notin {"environment", "over"} => ~EnvUnusable(host.env)
    /\ stage \in {"profile", "apply"} => config = OfEnv
    /\ stage = "options" => config = Loaded
    /\ stage \in {"settings", "secrets", "reader"} => config = Flagged(Loaded)

(* What is known of its secrets.                                           *)
Consulted ==
    /\ consulted \in Seq(Secret)
    /\ ToSet(consulted) \subseteq ToSet(ModeSecrets(config))
    /\ IsFiniteSet(ToSet(consulted)) /\ Cardinality(ToSet(consulted)) = Len(consulted)
    /\ stage \notin {"secrets", "reader", "over"} => consulted = <<>> /\ held = <<>>
    /\ stage = "secrets" => ToSet(consulted) \subseteq DOMAIN held
    /\ stage \in {"secrets", "reader"} =>
          \A s \in DOMAIN held :
              /\ s \in ToSet(ModeSecrets(config))
              /\ held[s] \in {"good", "empty"}
              /\ held[s] = "empty" => config[s].deferred
    /\ stage = "reader" => \A s \in ToSet(ModeSecrets(config)) : held[s] = "good"

(* What `auth status` says, and what comes of a read.                      *)
Judged ==
    /\ stage \in {"environment", "profile", "apply", "options"} => verdict = Nothing
    /\ stage \in {"settings", "secrets", "reader"} => host.op = "read" /\ verdict = CredentialState(config)
    /\ stage \in {"secrets", "reader"} => ValidSettings(config) /\ MissingCredentials(config) = {}
    /\ consulted # <<>> => verdict = "configured"
    /\ stage = "over" /\ verdict # Nothing /\ host.op = "read" =>
          /\ failure = "invalid_config" <=> verdict = "invalid settings"
          /\ verdict \in {"partial", "not configured"} => failure = "missing_credentials"
          /\ verdict = "configured" /\ failure = "missing_credentials" =>
                \E s \in ToSet(ModeSecrets(config)) : config[s].deferred

SettingsInv == Gathered /\ Consulted /\ Judged

LEMMA VerdictIs ==
    ASSUME NEW c
    PROVE  /\ CredentialState(c) = "invalid settings" <=> ~ValidSettings(c)
           /\ CredentialState(c) = "configured" <=> ValidSettings(c) /\ MissingCredentials(c) = {}
           /\ CredentialState(c) # Nothing
BY DEF CredentialState, Nothing

LEMMA NextSecretIs ==
    ASSUME Pending # {}
    PROVE  NextSecret \in Pending
<1>1. \E s \in Pending : \A t \in Pending : s = t \/ s = "password"
  <2>1. CASE IsLegacy(config)
    <3>1. ToSet(ModeSecrets(config)) = {"password", "api_key"}
      BY <2>1 DEF ModeSecrets, ToSet
    <3> QED
      BY <3>1 DEF Pending
  <2>2. CASE ~IsLegacy(config)
    <3>1. ToSet(ModeSecrets(config)) = {"client_secret"}
      BY <2>2 DEF ModeSecrets, ToSet
    <3> QED
      BY <3>1 DEF Pending
  <2> QED
    BY <2>1, <2>2
<1> QED
  BY <1>1 DEF NextSecret

LEMMA SettingsInitInv == SettingsInit => SettingsInv
<1> SUFFICES ASSUME SettingsInit PROVE SettingsInv
  OBVIOUS
<1>1. Gathered
  BY DEF SettingsInit, Gathered, Stages
<1>2. Consulted
  <2>1. ToSet(consulted) = {}
    BY DEF SettingsInit, ToSet
  <2>2. IsFiniteSet({}) /\ Cardinality({}) = 0
    BY FS_EmptySet
  <2> QED
    BY <2>1, <2>2 DEF SettingsInit, Consulted, ToSet
<1>3. Judged
  BY DEF SettingsInit, Judged
<1> QED
  BY <1>1, <1>2, <1>3 DEF SettingsInv

(* Nothing is known of the secrets before the settings are.                *)
LEMMA SecretsComeLater ==
    ASSUME SettingsInv, stage \in {"environment", "profile", "apply", "options", "settings"},
           UNCHANGED <<consulted, held>>, stage' \in Stages \ {"reader"}
    PROVE  Consulted'
<1>1. consulted = <<>> /\ held = <<>> /\ consulted' = <<>> /\ held' = <<>>
  BY DEF SettingsInv, Consulted
<1>2. ToSet(consulted') = {} /\ DOMAIN held' = {} /\ consulted' \in Seq(Secret) /\ Len(consulted') = 0
  BY <1>1 DEF ToSet
<1>3. IsFiniteSet({}) /\ Cardinality({}) = 0
  BY FS_EmptySet
<1> QED
  BY <1>1, <1>2, <1>3 DEF Consulted, Stages

LEMMA LoadEnvKeeps ==
    ASSUME SettingsInv, LoadEnv
    PROVE  SettingsInv'
<1>1. stage = "environment" /\ stage' \in {"profile", "over"}
  BY DEF LoadEnv, Reject, Reach
<1>2. Consulted'
  BY <1>1, SecretsComeLater DEF LoadEnv, Stages
<1>3. OfEnv' = OfEnv
  BY DEF LoadEnv, OfEnv
<1>4. Gathered'
  BY <1>1, <1>3 DEF LoadEnv, Reject, Reach, SettingsInv, Gathered, Stages,
     OfEnv
<1>5. Judged'
  BY <1>1 DEF LoadEnv, SettingsInv, Judged, Consulted
<1> QED
  BY <1>2, <1>4, <1>5 DEF SettingsInv

LEMMA LoadProfileKeeps ==
    ASSUME SettingsInv, LoadProfile
    PROVE  SettingsInv'
<1>1. stage = "profile" /\ stage' \in {"apply", "options", "over"}
  BY DEF LoadProfile, Reject, Reach
<1>2. Consulted'
  BY <1>1, SecretsComeLater DEF LoadProfile, Stages
<1>3. OfEnv' = OfEnv
  BY DEF LoadProfile, OfEnv
<1>4. Picked # Nothing
  BY DEF Picked, Either, Nothing
<1>5. stage' = "options" => profile' = profile
  BY DEF LoadProfile, Reject, Reach
<1>6. stage' = "apply" => profile' = Picked
  BY DEF LoadProfile, Reject, Reach
<1>7. profile = Nothing /\ config = OfEnv /\ config' = config /\ host' = host
  BY <1>1 DEF SettingsInv, Gathered, LoadProfile
<1>8. stage' = "options" => Loaded' = OfEnv
  BY <1>3, <1>5, <1>7 DEF Loaded
<1>9. Gathered'
  BY <1>1, <1>3, <1>4, <1>6, <1>7, <1>8 DEF SettingsInv, Gathered, Stages
<1>10. Judged'
  BY <1>1 DEF LoadProfile, SettingsInv, Judged, Consulted
<1> QED
  BY <1>2, <1>9, <1>10 DEF SettingsInv

LEMMA ApplyProfileKeeps ==
    ASSUME SettingsInv, ApplyProfile
    PROVE  SettingsInv'
<1>1. stage = "apply" /\ stage' \in {"options", "over"}
  BY DEF ApplyProfile, Reject, Reach
<1>2. Consulted'
  BY <1>1, SecretsComeLater DEF ApplyProfile, Stages
<1>3. profile # Nothing /\ config = OfEnv
  BY <1>1 DEF SettingsInv, Gathered
<1>4. host' = host /\ profile' = profile
  BY DEF ApplyProfile
<1>5. Loaded' = OfFile
  BY <1>3, <1>4 DEF Loaded, OfFile, Profiled, OfEnv, File
<1>6. stage' = "options" => config' = OfFile
  BY <1>3 DEF ApplyProfile, Reject, Reach, OfFile, Profiled
<1>7. Gathered'
  BY <1>1, <1>4, <1>5, <1>6 DEF SettingsInv, Gathered, Stages
<1>8. Judged'
  BY <1>1 DEF ApplyProfile, SettingsInv, Judged, Consulted
<1> QED
  BY <1>2, <1>7, <1>8 DEF SettingsInv

LEMMA ApplyOptionsKeeps ==
    ASSUME SettingsInv, ApplyOptions
    PROVE  SettingsInv'
<1>1. /\ stage = "options" /\ stage' \in {"settings", "over"}
      /\ host' = host /\ profile' = profile
      /\ config' = Flagged(config)
      /\ verdict' = CredentialState(config')
      /\ host.op = "read" <=> stage' = "settings"
  BY DEF ApplyOptions, Reject, Reach, Flagged
<1>2. Consulted'
  BY <1>1, SecretsComeLater DEF ApplyOptions, Stages
<1>3. Loaded' = Loaded
  BY <1>1 DEF Loaded, OfFile, Profiled, OfEnv, File
<1>4. Flagged(Loaded)' = Flagged(Loaded)
  BY <1>1, <1>3 DEF Flagged
<1>5. Gathered'
  BY <1>1, <1>4 DEF SettingsInv, Gathered, Stages
<1>6. consulted' = <<>>
  BY <1>1 DEF ApplyOptions, SettingsInv, Consulted
<1>7. Judged'
  BY <1>1, <1>6 DEF Judged
<1> QED
  BY <1>2, <1>5, <1>7 DEF SettingsInv

(* From here on the settings are what they are.                            *)
LEMMA SettingsStay ==
    ASSUME SettingsInv, stage \in {"settings", "secrets"}, stage' \in {"settings", "secrets", "reader", "over"},
           UNCHANGED <<host, config, profile>>
    PROVE  /\ Gathered'
           /\ \A s : config'[s] = config[s]
           /\ ModeSecrets(config)' = ModeSecrets(config)
           /\ CredentialState(config)' = CredentialState(config)
           /\ ValidSettings(config)' = ValidSettings(config)
           /\ MissingCredentials(config)' = MissingCredentials(config)
<1>1. Flagged(Loaded)' = Flagged(Loaded)
  BY DEF Flagged, Loaded, OfFile, Profiled, OfEnv, File
<1>2. Gathered'
  BY <1>1 DEF SettingsInv, Gathered, Stages
<1> QED
  BY <1>2

LEMMA ReaderConfigKeeps ==
    ASSUME SettingsInv, ReaderConfig
    PROVE  SettingsInv'
<1>1. /\ stage = "settings" /\ stage' \in {"secrets", "over"}
      /\ UNCHANGED <<host, config, profile, consulted, held, verdict>>
  BY DEF ReaderConfig, Reject, Reach
<1>2. Consulted'
  BY <1>1, SecretsComeLater DEF Stages
<1>3. Gathered'
  BY <1>1, SettingsStay
<1>4. consulted' = <<>>
  BY <1>1 DEF SettingsInv, Consulted
<1>5. verdict = CredentialState(config) /\ host.op = "read"
  BY <1>1 DEF SettingsInv, Judged
<1>6. /\ verdict = "invalid settings" <=> ~ValidSettings(config)
      /\ verdict = "configured" <=> ValidSettings(config) /\ MissingCredentials(config) = {}
  BY <1>5, VerdictIs
<1>7. Judged'
  BY <1>1, <1>4, <1>5, <1>6 DEF Judged, ReaderConfig, Reject, Reach
<1> QED
  BY <1>2, <1>3, <1>7 DEF SettingsInv

LEMMA OpenReaderKeeps ==
    ASSUME SettingsInv, OpenReader
    PROVE  SettingsInv'
<1>1. /\ stage = "secrets" /\ stage' \in {"reader", "over"}
      /\ UNCHANGED <<host, config, profile, consulted, held, verdict>>
      /\ Pending = {}
  BY DEF OpenReader, Reject, Reach
<1>2. /\ host.op = "read" /\ verdict = CredentialState(config)
      /\ ValidSettings(config) /\ MissingCredentials(config) = {}
  BY <1>1 DEF SettingsInv, Judged
<1>3. verdict = "configured"
  BY <1>2, VerdictIs
<1>4. \A w \in ModeWords(config) : config[w] # Nothing
  BY <1>2 DEF MissingCredentials
<1>5. ToSet(ModeSecrets(config)) \subseteq DOMAIN held
  BY <1>1 DEF Pending
<1>6. \A s \in DOMAIN held :
          /\ s \in ToSet(ModeSecrets(config))
          /\ held[s] \in {"good", "empty"}
          /\ held[s] = "empty" => config[s].deferred
  BY <1>1 DEF SettingsInv, Consulted
<1>7. Gathered'
  BY <1>1, SettingsStay
<1>8. stage' = "reader" => \A s \in DOMAIN held : held[s] # "empty"
  BY <1>1 DEF OpenReader, Reject, Reach
<1>9. Consulted'
  BY <1>1, <1>5, <1>6, <1>8 DEF SettingsInv, Consulted
<1>10. stage' = "over" =>
          /\ failure' \in {"invalid_proxy_config", "missing_credentials"}
          /\ failure' = "missing_credentials" => \E s \in DOMAIN held : held[s] = "empty"
  BY <1>2, <1>4 DEF OpenReader, Reject, Reach
<1>11. Judged'
  BY <1>1, <1>2, <1>3, <1>6, <1>10 DEF Judged
<1> QED
  BY <1>7, <1>9, <1>11 DEF SettingsInv

LEMMA ResolveSecretKeeps ==
    ASSUME SettingsInv, ResolveSecret
    PROVE  SettingsInv'
<1> DEFINE s == NextSecret
<1>1. /\ stage = "secrets" /\ stage' \in {"secrets", "over"}
      /\ UNCHANGED <<host, config, profile, verdict>>
      /\ Pending # {}
  BY DEF ResolveSecret, HoldSecret, Reject
<1>2. s \in Pending
  BY <1>1, NextSecretIs
<1>3. s \in ToSet(ModeSecrets(config)) /\ s \notin DOMAIN held
  BY <1>2 DEF Pending
<1>4. s \in Secret
  BY <1>3 DEF ToSet, ModeSecrets, Secret
<1>5. /\ host.op = "read" /\ verdict = CredentialState(config)
      /\ ValidSettings(config) /\ MissingCredentials(config) = {}
  BY <1>1 DEF SettingsInv, Judged
<1>6. verdict = "configured"
  BY <1>5, VerdictIs
<1>7. consulted' = consulted \/ consulted' = Append(consulted, s)
  BY DEF ResolveSecret
<1>8. stage' = "over" => failure' = "missing_credentials" /\ config[s].deferred
  BY <1>1 DEF ResolveSecret, HoldSecret, Reject
<1>9. stage' = "secrets" =>
        \E v \in {"good", "empty"} :
            /\ held' = [t \in DOMAIN held \cup {s} |-> IF t = s THEN v ELSE held[t]]
            /\ v = "empty" => config[s].deferred
  BY <1>1 DEF ResolveSecret, HoldSecret, Reject
<1> HIDE DEF s
<1>10. Gathered'
  BY <1>1, SettingsStay
<1>11. Judged'
  BY <1>1, <1>3, <1>5, <1>6, <1>8 DEF Judged
<1>12. /\ consulted \in Seq(Secret)
       /\ ToSet(consulted) \subseteq ToSet(ModeSecrets(config))
       /\ IsFiniteSet(ToSet(consulted)) /\ Cardinality(ToSet(consulted)) = Len(consulted)
       /\ ToSet(consulted) \subseteq DOMAIN held
  BY <1>1 DEF SettingsInv, Consulted
<1>13. /\ consulted' \in Seq(Secret)
       /\ ToSet(consulted') \subseteq ToSet(consulted) \cup {s}
       /\ IsFiniteSet(ToSet(consulted')) /\ Cardinality(ToSet(consulted')) = Len(consulted')
  <2>1. CASE consulted' = consulted
    BY <1>12, <2>1
  <2>2. CASE consulted' = Append(consulted, s)
    <3>1. ToSet(Append(consulted, s)) = ToSet(consulted) \cup {s}
      <4> DEFINE a == Append(consulted, s)
      <4>1. /\ DOMAIN a = 1..(Len(consulted) + 1) /\ a[Len(consulted) + 1] = s
            /\ \A n \in 1..Len(consulted) : a[n] = consulted[n]
            /\ DOMAIN consulted = 1..Len(consulted) /\ Len(consulted) \in Nat
        BY <1>4, <1>12
      <4> HIDE DEF a
      <4>2. ToSet(a) \subseteq ToSet(consulted) \cup {s}
        BY <4>1 DEF ToSet
      <4>3. ToSet(consulted) \subseteq ToSet(a) /\ s \in ToSet(a)
        BY <4>1 DEF ToSet
      <4> QED
        BY <4>2, <4>3 DEF a
    <3>2. s \notin ToSet(consulted)
      BY <1>3, <1>12
    <3>3. /\ IsFiniteSet(ToSet(consulted) \cup {s})
          /\ Cardinality(ToSet(consulted) \cup {s}) = Cardinality(ToSet(consulted)) + 1
      BY <1>12, <3>2, FS_AddElement
    <3>4. Append(consulted, s) \in Seq(Secret) /\ Len(Append(consulted, s)) = Len(consulted) + 1
      BY <1>4, <1>12
    <3> QED
      BY <1>12, <2>2, <3>1, <3>3, <3>4
  <2> QED
    BY <1>7, <2>1, <2>2
<1>14. stage' = "secrets" =>
        /\ DOMAIN held' = DOMAIN held \cup {s}
        /\ \A t \in DOMAIN held' :
              /\ t \in ToSet(ModeSecrets(config))
              /\ held'[t] \in {"good", "empty"}
              /\ held'[t] = "empty" => config[t].deferred
  <2>1. \A t \in DOMAIN held :
              /\ t \in ToSet(ModeSecrets(config))
              /\ held[t] \in {"good", "empty"}
              /\ held[t] = "empty" => config[t].deferred
    BY <1>1 DEF SettingsInv, Consulted
  <2> QED
    BY <1>3, <1>9, <2>1
<1>15. Consulted'
  BY <1>1, <1>3, <1>12, <1>13, <1>14 DEF Consulted
<1> QED
  BY <1>10, <1>11, <1>15 DEF SettingsInv

LEMMA SettingsStutter ==
    ASSUME SettingsInv, UNCHANGED settings
    PROVE  SettingsInv'
<1>1. Flagged(Loaded)' = Flagged(Loaded) /\ Loaded' = Loaded /\ OfEnv' = OfEnv
  BY DEF settings, Flagged, Loaded, OfFile, Profiled, OfEnv, File
<1>2. Gathered'
  BY <1>1 DEF SettingsInv, Gathered, settings
<1>3. Consulted'
  BY DEF SettingsInv, Consulted, settings
<1>4. Judged'
  BY DEF SettingsInv, Judged, settings
<1> QED
  BY <1>2, <1>3, <1>4 DEF SettingsInv

(* However a command comes by its settings, what it knows of them, of its  *)
(* secrets and of its verdict belongs together (internal/runtime).         *)
THEOREM SettingsInvCorrect == SettingsSpec => []SettingsInv
<1>1. SettingsInit => SettingsInv
  BY SettingsInitInv
<1>2. SettingsInv /\ [SettingsNext]_settings => SettingsInv'
  BY LoadEnvKeeps, LoadProfileKeeps, ApplyProfileKeeps, ApplyOptionsKeeps,
     ReaderConfigKeeps, ResolveSecretKeeps, OpenReaderKeeps, SettingsStutter
     DEF SettingsNext, SettingsOver
<1> QED
  BY <1>1, <1>2, PTL DEF SettingsSpec

(* A reader has of every setting what the most specific source said of it, *)
(* its secrets are all held, and were asked for once each (LoadConfig,     *)
(* applyProfile, readerConfigFromConfig).                                  *)
THEOREM SettingsAreAlwaysChosen == SettingsSpec => []SettingsAreChosen
<1>1. SettingsInv => SettingsAreChosen
  <2> SUFFICES ASSUME SettingsInv PROVE SettingsAreChosen
    OBVIOUS
  <2>1. ToSet(consulted) \subseteq ToSet(ModeSecrets(config)) /\ Cardinality(ToSet(consulted)) = Len(consulted)
    BY DEF SettingsInv, Consulted
  <2>2. CASE stage # "reader"
    BY <2>1, <2>2 DEF SettingsAreChosen
  <2>3. CASE stage = "reader"
    <3>1. host \in Hosts /\ ~EnvUnusable(host.env) /\ config = Flagged(Loaded)
      BY <2>3 DEF SettingsInv, Gathered
    <3>2. MissingCredentials(config) = {}
      BY <2>3 DEF SettingsInv, Judged
    <3>3. \A s \in ToSet(ModeSecrets(config)) : held[s] = "good"
      BY <2>3 DEF SettingsInv, Consulted
    <3> QED
      BY <2>1, <3>1, <3>2, <3>3, SettingsAre DEF SettingsAreChosen
  <2> QED
    BY <2>2, <2>3
<1> QED
  BY <1>1, SettingsInvCorrect, PTL

(* A read is refused for its settings, or for what is missing, if and only *)
(* if `auth status` says so, and before a provider is asked                *)
(* (credentialStateOf, ValidateSettings, MissingCredentials).              *)
THEOREM TheStatusIsTrue == SettingsSpec => []StatusIsTrue
<1>1. SettingsInv => StatusIsTrue
  <2> SUFFICES ASSUME SettingsInv, verdict # Nothing, host.op = "read"
               PROVE  /\ stage = "reader" \/ consulted # <<>> => verdict = "configured"
                      /\ stage = "over" =>
                            /\ failure = "invalid_config" <=> verdict = "invalid settings"
                            /\ verdict \in {"partial", "not configured"} => failure = "missing_credentials"
                            /\ verdict = "configured" /\ failure = "missing_credentials" =>
                                  \E s \in ToSet(ModeSecrets(config)) : config[s].deferred
    BY DEF StatusIsTrue
  <2>1. stage = "reader" => verdict = "configured"
    BY VerdictIs DEF SettingsInv, Judged
  <2> QED
    BY <2>1 DEF SettingsInv, Judged
<1> QED
  BY <1>1, SettingsInvCorrect, PTL

-----------------------------------------------------------------------------
(* Types of the settings.                                                  *)

LEMMA ModeSecretsAreSecrets ==
    ToSet(ModeSecrets(config)) \subseteq Secret
<1> SUFFICES ASSUME NEW s \in ToSet(ModeSecrets(config))
             PROVE  s \in Secret
  OBVIOUS
<1> QED
  BY DEF ToSet, ModeSecrets, Secret

LEMMA NextSettingsTypes ==
    ASSUME SettingsInv, SettingsTypeOK, SettingsInv', [SettingsNext]_settings
    PROVE  SettingsTypeOK'
<1> USE DEF SettingsTypeOK
<1>1. /\ host' = host /\ host.op \in {"read", "doctor", "auth"}
      /\ File' = File
      /\ stage' \in Stages
      /\ consulted' \in Seq(Secret)
  <2>1. host' = host
    BY DEF SettingsNext, LoadEnv, LoadProfile, ApplyProfile, ApplyOptions, ReaderConfig,
       ResolveSecret, OpenReader, SettingsOver, settings
  <2> QED
    BY <2>1 DEF SettingsInv, Gathered, Consulted, File
<1>2. profile' # Nothing => profile' \in DOMAIN File.profiles
  <2>1. profile' = profile \/ (profile' = Picked /\ Picked \in DOMAIN File.profiles)
    BY DEF SettingsNext, LoadEnv, LoadProfile, ApplyProfile, ApplyOptions, ReaderConfig,
       ResolveSecret, OpenReader, SettingsOver, settings
  <2> QED
    BY <2>1
<1>3. notice' \in BOOLEAN
  <2>1. \/ notice' = notice
        \/ notice' = (RequestedProfile = Nothing /\ Cardinality(DOMAIN File.profiles) > 1)
    BY DEF SettingsNext, LoadEnv, LoadProfile, ApplyProfile, ApplyOptions, ReaderConfig,
       ResolveSecret, OpenReader, SettingsOver, settings
  <2> QED
    BY <2>1
<1>4. failure' \in {Nothing, "invalid_config", "invalid_proxy_config", "missing_credentials", "internal"}
  BY DEF SettingsNext, LoadEnv, LoadProfile, ApplyProfile, ApplyOptions, ReaderConfig,
     ResolveSecret, OpenReader, SettingsOver, settings, Reject, Reach, HoldSecret
<1>5. verdict' \in {Nothing, "configured", "partial", "not configured", "invalid settings"}
  <2>1. verdict' = verdict \/ \E c : verdict' = CredentialState(c)
    BY DEF SettingsNext, LoadEnv, LoadProfile, ApplyProfile, ApplyOptions, ReaderConfig,
       ResolveSecret, OpenReader, SettingsOver, settings
  <2> QED
    BY <2>1 DEF CredentialState
<1>6. \A s \in DOMAIN held' : s \in Secret /\ held'[s] \in {"good", "empty"}
  <2>1. held' = held \/ \E value \in {"good", "empty"} : HoldSecret(NextSecret, value) /\ Pending # {}
    BY DEF SettingsNext, LoadEnv, LoadProfile, ApplyProfile, ApplyOptions, ReaderConfig,
       ResolveSecret, OpenReader, SettingsOver, settings
  <2>2. CASE held' = held
    BY <2>2
  <2>3. ASSUME NEW value \in {"good", "empty"}, HoldSecret(NextSecret, value), Pending # {}
        PROVE  \A s \in DOMAIN held' : s \in Secret /\ held'[s] \in {"good", "empty"}
    <3>1. ToSet(ModeSecrets(config)) \subseteq Secret
      BY ModeSecretsAreSecrets
    <3>2. NextSecret \in Secret
      BY <2>3, <3>1, NextSecretIs DEF Pending
    <3> QED
      BY <2>3, <3>2 DEF HoldSecret
  <2> QED
    BY <2>1, <2>2, <2>3
<1> QED
  BY <1>1, <1>2, <1>3, <1>4, <1>5, <1>6

(* Every variable of the settings keeps its type: the profile in use is    *)
(* one of the file, and nothing is held but secrets that were given        *)
(* (loadProfileFile, readerConfigFromConfig).                              *)
THEOREM SettingsTypes == SettingsSpec => []SettingsTypeOK
<1>1. ASSUME SettingsInit
      PROVE  SettingsTypeOK
  <2>1. host.op \in {"read", "doctor", "auth"}
    BY <1>1, HostsAssumption DEF SettingsInit
  <2>2. consulted \in Seq(Secret) /\ DOMAIN held = {}
    BY <1>1 DEF SettingsInit
  <2>3. notice \in BOOLEAN
    BY <1>1 DEF SettingsInit
  <2>4. /\ stage \in Stages
        /\ profile = Nothing /\ failure = Nothing /\ verdict = Nothing
    BY <1>1 DEF SettingsInit, Stages
  <2> QED
    BY <2>1, <2>2, <2>3, <2>4 DEF SettingsTypeOK
<1> QED
  BY <1>1, NextSettingsTypes, SettingsInvCorrect, PTL DEF SettingsSpec

===============================================================================
