------------------------------ MODULE RefsCommand ------------------------------
(***************************************************************************)
(* The commands `refs to` and `refs check` (internal/cli commands_refs.go  *)
(* runRefs, internal/resources refs.go FindRefsTo and CheckRefs): which    *)
(* records name an id, and which ids that records name are in none of the  *)
(* lists they should be in.                                                *)
(*                                                                         *)
(* One command reads several resources, one after the other, and compares  *)
(* what it read.  Meanwhile the tenant changes, reads fail, and the        *)
(* context ends.  A record is its own id and what its reference fields     *)
(* hold, as far as the redaction mode renders them.                        *)
(***************************************************************************)
EXTENDS Naturals, FiniteSets, SequencesExt

CONSTANTS
    References,    \* the reference fields of the catalog, in its order
    Unreadable,    \* resources without a list or show operation
    KeyHidden,     \* resources whose ids the redaction mode omits
    Tenants,       \* what a tenant may hold
    Queries,
    MaxChanges,    \* bound on the changes of the tenant
    Nil

Resource == {f.resource : f \in Range(References)}
                \cup UNION {Range(f.targets) : f \in Range(References)}

(* A value of a field, a number or a text; 0 stands for what is no id.     *)
Value == [id : Nat, as : {"number", "text"}]

(* What a command comes to.                                                *)
Outcome == {"refused", "context", "unread", "written", "unwritten"}

(* A field is in the catalog once, and so are the records of a tenant what *)
(* the catalog says of them.                                               *)
ASSUME RefsAssumption ==
    /\ References \in Seq([resource : STRING, field : STRING, targets : Seq(STRING) \ {<<>>},
                           rendered : BOOLEAN, audit : BOOLEAN])
    /\ \A m, n \in DOMAIN References :
          References[m].resource = References[n].resource /\ References[m].field = References[n].field => m = n
    /\ Nil \notin Nat \cup STRING \cup Outcome
    /\ \A q \in Queries : q.op \in {"to", "check"} /\ q.resource \in Resource /\ q.id \in Value
    /\ \A t \in Tenants :
          /\ DOMAIN t = Resource
          /\ \A r \in Resource : \A n \in DOMAIN t[r] :
                /\ t[r][n].key \in Value
                /\ \A f \in Range(References) : f.resource = r => t[r][n].refs[f.field] \subseteq Value
    /\ MaxChanges \in Nat

VARIABLES
    query,
    tenant,        \* the records of every resource
    changes,
    context,       \* "live" or "ended"
    step,
    waiting,       \* whether a read is under way
    cache,         \* what was read: records, or why there are none
    i, j,          \* the field of the catalog at hand, and the target of it
    known,         \* the ids of its targets
    document,
    outcome,       \* what the command came to
    reads          \* how often a resource was asked for (for the properties)

walk == <<i, j, known>>
refsVars == <<query, tenant, changes, context, step, waiting, cache, walk, document, outcome, reads>>

To == query.op = "to"

(* The fields that point at the resource, or those of the resource.        *)
Items ==
    {n \in DOMAIN References : IF To THEN query.resource \in Range(References[n].targets)
                              ELSE References[n].resource = query.resource}

(* The first of some fields, or the end of the catalog.                    *)
IsFirst(n, fields) ==
    /\ n \in fields \cup {Len(References) + 1}
    /\ \A m \in fields : n <= m

AtItem == step = "walk" /\ i \in Items
Current == References[i]

RefsInit ==
    /\ query \in Queries
    /\ tenant \in Tenants
    /\ changes = 0
    /\ context = "live"
    /\ step = "open"
    /\ waiting = FALSE
    /\ cache = <<>>
    /\ IsFirst(i, Items)
    /\ j = 1
    /\ known = {}
    /\ document = [found |-> {}, skipped |-> {}, checked |-> 0]
    /\ outcome = Nil
    /\ reads = [r \in Resource |-> 0]

(* Mutant of RefIDKey: an id that is not set is compared like any other.   *)
RefIDKeyOfAny(value) == value.id

(* Values of one id are equal whatever their type; 0 is not set.           *)
RefIDKey(value) == IF value.id = 0 THEN Nil ELSE value.id

(* Fields that are never compared: their ids are not rendered, or say who  *)
(* changed the record last, which only `refs to` looks at.                 *)
PassedOver(item) == ~item.rendered \/ (~To /\ item.audit)

(* The resource that is needed for the next comparison.                    *)
Wanted ==
    CASE step = "source" -> query.resource
      [] AtItem /\ ~PassedOver(Current) /\ To -> Current.resource
      [] AtItem /\ ~PassedOver(Current) /\ ~To /\ j <= Len(Current.targets) ->
            IF Current.targets[j] \in KeyHidden THEN Nil ELSE Current.targets[j]
      [] OTHER -> Nil

Have(r) == r \in DOMAIN cache

-----------------------------------------------------------------------------
(* Reading.                                                                *)

(* The request is checked, and a runtime made or a saved dump opened; what *)
(* the request lacks is told even when the context has ended.              *)
Open ==
    /\ step = "open"
    /\ \/ outcome' = "refused" /\ step' = "over"
       \/ context = "ended" /\ outcome' = "context" /\ step' = "over"
       \/ step' = (IF To THEN "walk" ELSE "source") /\ UNCHANGED outcome
    /\ UNCHANGED <<query, tenant, changes, context, waiting, cache, walk, document, reads>>

Records(list) == [reason |-> "none", cause |-> "none", records |-> list]
Failed(cause) == [reason |-> "read_failed", cause |-> cause, records |-> <<>>]
NotReadable == [reason |-> "not_readable", cause |-> "none", records |-> <<>>]

Keep(r, what) == cache' = [q \in DOMAIN cache \cup {r} |-> IF q = r THEN what ELSE cache[q]]

(* What is not in the cache is asked for, unless the context has ended.    *)
Fetch ==
    /\ Wanted # Nil
    /\ ~Have(Wanted)
    /\ ~waiting
    /\ IF Wanted \in Unreadable
       THEN Keep(Wanted, NotReadable) /\ UNCHANGED <<waiting, reads>>
       ELSE IF context = "ended"
       THEN Keep(Wanted, Failed("context")) /\ UNCHANGED <<waiting, reads>>
       ELSE waiting' = TRUE /\ reads' = [reads EXCEPT ![Wanted] = @ + 1] /\ UNCHANGED cache
    /\ UNCHANGED <<query, tenant, changes, context, step, walk, document, outcome>>

(* Mutant of Fetched: the records found are kept, a failure is not.        *)
FetchedOrAskAgain ==
    /\ waiting
    /\ waiting' = FALSE
    /\ \/ Keep(Wanted, Records(tenant[Wanted]))
       \/ UNCHANGED cache
    /\ UNCHANGED <<query, tenant, changes, context, step, walk, document, outcome, reads>>

(* A read that is under way as the context ends may still succeed.         *)
Fetched ==
    /\ waiting
    /\ waiting' = FALSE
    /\ \/ Keep(Wanted, Records(tenant[Wanted]))
       \/ Keep(Wanted, Failed(IF context = "live" THEN "service" ELSE "context"))
    /\ UNCHANGED <<query, tenant, changes, context, step, walk, document, outcome, reads>>

(* Without the resource itself there is nothing to check, and its error is *)
(* the command's.                                                          *)
Source ==
    /\ step = "source"
    /\ Have(query.resource)
    /\ LET source == cache[query.resource]
       IN  \/ source.reason = "none" /\ step' = "walk" /\ UNCHANGED outcome
           \/ /\ source.reason # "none"
              /\ step' = "over"
              /\ outcome' = IF source.cause = "context" THEN "context" ELSE "unread"
    /\ UNCHANGED <<query, tenant, changes, context, waiting, cache, walk, document, reads>>

-----------------------------------------------------------------------------
(* Comparing.                                                              *)

NextItem == IsFirst(i', {n \in Items : n > i}) /\ j' = 1 /\ known' = {}

Skip(skips) == document' = [document EXCEPT !.skipped = @ \cup skips]
SkipOf(item, reason) == [resource |-> item.resource, field |-> item.field, reason |-> reason]
SkipTarget(r, reason) == [resource |-> r, field |-> Nil, reason |-> reason]

PassOver ==
    /\ AtItem
    /\ PassedOver(Current)
    /\ Skip({SkipOf(Current, IF ~Current.rendered THEN "not_rendered" ELSE "audit_field")})
    /\ NextItem
    /\ UNCHANGED <<query, tenant, changes, context, step, waiting, cache, outcome, reads>>

(* The records of a resource with the ids that a field of theirs holds.    *)
Hold(r, field) ==
    {p \in (DOMAIN cache[r].records) \X UNION {rec.refs[field] : rec \in Range(cache[r].records)} :
        p[2] \in cache[r].records[p[1]].refs[field] /\ RefIDKey(p[2]) # Nil}

(* `refs to`: a record is named once for a field, however often it holds   *)
(* the id.                                                                 *)
Site ==
    /\ To
    /\ AtItem
    /\ ~PassedOver(Current)
    /\ Have(Current.resource)
    /\ LET site == cache[Current.resource]
           hits == {h \in Hold(Current.resource, Current.field) : RefIDKey(h[2]) = RefIDKey(query.id)}
       IN  IF site.reason # "none"
           THEN Skip({SkipOf(Current, site.reason)})
           ELSE document' = [document EXCEPT !.checked = @ + 1,
                                !.found = @ \cup {[item |-> i, record |-> h[1], id |-> query.id] : h \in hits}]
    /\ NextItem
    /\ UNCHANGED <<query, tenant, changes, context, step, waiting, cache, outcome, reads>>

Ids(r) == {RefIDKey(rec.key) : rec \in Range(cache[r].records)} \ {Nil}

(* Mutant of Target: what an unread target might hold is left out.         *)
TargetIfRead ==
    /\ ~To
    /\ AtItem
    /\ ~PassedOver(Current)
    /\ j <= Len(Current.targets)
    /\ LET target == Current.targets[j]
       IN  /\ target \in KeyHidden \/ Have(target)
           /\ IF target \notin KeyHidden /\ cache[target].reason = "none"
              THEN known' = known \cup Ids(target) /\ UNCHANGED document
              ELSE /\ Skip({SkipTarget(target, IF target \in KeyHidden THEN "not_rendered"
                                               ELSE cache[target].reason)})
                   /\ UNCHANGED known
    /\ j' = j + 1
    /\ UNCHANGED <<query, tenant, changes, context, step, waiting, cache, i, outcome, reads>>

(* `refs check`: the ids of one target after the other.  If one cannot be  *)
(* read the field is not compared, for what is in none of the others could *)
(* be in that one.                                                         *)
Target ==
    /\ ~To
    /\ AtItem
    /\ ~PassedOver(Current)
    /\ j <= Len(Current.targets)
    /\ LET target == Current.targets[j]
           Unread(reason) ==
               /\ Skip({SkipTarget(target, reason), SkipOf(Current, "target_not_checked")})
               /\ NextItem
       IN  \/ target \in KeyHidden /\ Unread("not_rendered")
           \/ /\ target \notin KeyHidden
              /\ Have(target)
              /\ IF cache[target].reason # "none" THEN Unread(cache[target].reason)
                 ELSE known' = known \cup Ids(target) /\ j' = j + 1 /\ UNCHANGED <<i, document>>
    /\ UNCHANGED <<query, tenant, changes, context, step, waiting, cache, outcome, reads>>

Field ==
    /\ ~To
    /\ AtItem
    /\ ~PassedOver(Current)
    /\ j > Len(Current.targets)
    /\ LET ids == Hold(query.resource, Current.field)
       IN  document' = [document EXCEPT !.checked = @ + Cardinality(ids),
              !.found = @ \cup {[item |-> i, record |-> h[1], id |-> h[2]] :
                                   h \in {p \in ids : RefIDKey(p[2]) \notin known}}]
    /\ NextItem
    /\ UNCHANGED <<query, tenant, changes, context, step, waiting, cache, outcome, reads>>

-----------------------------------------------------------------------------
(* The end.                                                                *)

(* Mutant of Finish: the document is written whenever it is complete.      *)
FinishAnyway ==
    /\ step = "walk"
    /\ i > Len(References)
    /\ step' = "over"
    /\ outcome' \in {"written", "unwritten"}
    /\ UNCHANGED <<query, tenant, changes, context, waiting, cache, walk, document, reads>>

(* If the context has ended some of the failures in the document are only  *)
(* that, and it is not written.  Writing may fail.                         *)
Finish ==
    /\ step = "walk"
    /\ i > Len(References)
    /\ step' = "over"
    /\ \/ context = "ended" /\ outcome' = "context"
       \/ context = "live" /\ outcome' \in {"written", "unwritten"}
    /\ UNCHANGED <<query, tenant, changes, context, waiting, cache, walk, document, reads>>

-----------------------------------------------------------------------------
(* The environment.                                                        *)

ContextEnds ==
    /\ context = "live"
    /\ step # "over"
    /\ context' = "ended"
    /\ UNCHANGED <<query, tenant, changes, step, waiting, cache, walk, document, outcome, reads>>

Change ==
    /\ changes < MaxChanges
    /\ step # "over"
    /\ changes' = changes + 1
    /\ tenant' \in Tenants \ {tenant}
    /\ UNCHANGED <<query, context, step, waiting, cache, walk, document, outcome, reads>>

Over == step = "over" /\ UNCHANGED refsVars

RefsNext ==
    \/ Open \/ Fetch \/ Fetched \/ Source
    \/ PassOver \/ Site \/ Target \/ Field \/ Finish
    \/ ContextEnds \/ Change \/ Over

RefsSpec == RefsInit /\ [][RefsNext]_refsVars

-----------------------------------------------------------------------------
(* What a reader of the document may rely on.                              *)

WasRead(r) == r \notin KeyHidden /\ Have(r) /\ cache[r].reason = "none"
Listed(r) == Range(cache[r].records)
SkippedField(item) == \E s \in document.skipped : s.resource = item.resource /\ s.field = item.field

(* What `refs to` is silent about is no reference: a field that points at  *)
(* the resource is either listed as not checked, for a reason, or all      *)
(* records that name the id in it, and no others, are found.               *)
AllFound(k) ==
    LET item == References[k]
        read == Have(item.resource) /\ cache[item.resource].reason = "none"
        found == {h.record : h \in {h \in document.found : h.item = k}}
    IN  /\ SkippedField(item) = ~(item.rendered /\ read)
        /\ found = IF SkippedField(item) THEN {}
                   ELSE {n \in DOMAIN cache[item.resource].records :
                            \E v \in cache[item.resource].records[n].refs[item.field] :
                                v.id = query.id.id /\ v.id # 0}

Compared(item) == item.rendered /\ ~item.audit /\ \A r \in Range(item.targets) : WasRead(r)

(* What `refs check` reports is in none of the lists it could be in, every *)
(* one of which was read; what it is silent about is in one of them, or    *)
(* the field is listed as not checked, and so is the list that was not     *)
(* read.                                                                   *)
Dangling(k) ==
    LET item == References[k]
        found == {<<h.record, h.id>> : h \in {h \in document.found : h.item = k}}
        records == cache[item.resource].records
    IN  /\ SkippedField(item) = ~Compared(item)
        /\ ~Compared(item) => found = {}
        /\ ~Compared(item) /\ item.rendered /\ ~item.audit =>
              \E r \in Range(item.targets) : ~WasRead(r) /\
                  \E s \in document.skipped : s.resource = r /\ s.field = Nil
        /\ Compared(item) => \A n \in DOMAIN records : \A v \in records[n].refs[item.field] :
              <<n, v>> \in found <=>
                  v.id # 0 /\ \A r \in Range(item.targets) : \A rec \in Listed(r) : rec.key.id # v.id

(* A document that is written says what was found and is silent about      *)
(* nothing else (FindRefsTo, CheckRefs, targetIDs).                        *)
RefsAreTrue == outcome = "written" => \A k \in Items : IF To THEN AllFound(k) ELSE Dangling(k)

(* A document rests on one reading of each resource, in whichever roles it *)
(* is needed, so that no change of the tenant makes a resource disagree    *)
(* with itself; it is written only if no reading failed for the end of the *)
(* context, and never without the resource it is about (cachedReader,      *)
(* runRefs, CheckRefs).                                                    *)
OneReading ==
    /\ \A r \in Resource : reads[r] <= 1
    /\ outcome = "written" =>
          /\ \A r \in DOMAIN cache : cache[r].cause # "context"
          /\ ~To => cache[query.resource].reason = "none"
    /\ outcome = "context" => context = "ended"

=============================================================================
