---------------------------- MODULE MCReadCommand ----------------------------
(* ReadCommand for TLC: up to two records and two secrets, requests with    *)
(* one or two flaws or none, narrowed in several ways in every redaction    *)
(* mode, and dumps that the program wrote, or that were altered.  Beside    *)
(* its executor, which calls the event stream as it should, any producer    *)
(* calls one: the stream promises a consumer the same of both.  A process   *)
(* runs one command: instead of a read it may be `refs`, which reads many.  *)
(* How a command comes by its settings does not depend on what it is.       *)
EXTENDS ReadCommand, RefsCommand, Configuration, MCHosts, TLC

CONSTANT MaxEvents

-----------------------------------------------------------------------------
(* A catalog of one resource: a key, which paranoid mode hides, a name, a    *)
(* note and a secret, a list, which every mode shows, and two objects, one  *)
(* of which share mode hides whole.                                         *)
Row(class, modes) == [class |-> class, modes |-> modes]
Shared == {"standard", "share"}
MCFields ==
    (<<"id">> :> Row("operational_metadata", Shared))
    @@ (<<"name">> :> Row("tenant_configuration", Shared))
    @@ (<<"note">> :> Row("free_text", {"standard"}))
    @@ (<<"key">> :> Row("secret", {}))
    @@ (<<"tags">> :> Row("tenant_configuration", Mode))
    @@ (<<"groups">> :> Row("tenant_configuration", Shared))
    @@ (<<"groups", "id">> :> Row("operational_metadata", Shared))
    @@ (<<"groups", "note">> :> Row("free_text", {"standard"}))
    @@ (<<"owner">> :> Row("sensitive_identifier", {"standard"}))
    @@ (<<"owner", "id">> :> Row("operational_metadata", Shared))

(* A token is cut everywhere, a long identifier where it is no name.        *)
MCText == {"a", "b", "token", "long", "cut"}
MCScan ==
    [mode \in Mode |-> [kind \in ScanKind |-> [text \in MCText |->
        IF text = "token" \/ (text = "long" /\ kind # "name") THEN "cut" ELSE text]]]

At(name) == [name |-> name, item |-> 0]
Item(name, n) == [name |-> name, item |-> n]
Of(name, leaf) == <<At(name)>> :> leaf

a == Of("id", "a") @@ Of("name", "long") @@ Of("note", "token") @@ Of("key", "b") @@ Of("tags", "confirmed")
     @@ (<<Item("groups", 1), At("id")>> :> "b") @@ (<<Item("groups", 1), At("note")>> :> "token")
     @@ (<<Item("groups", 2), At("note")>> :> "a") @@ (<<At("owner"), At("id")>> :> "a")
b == Of("id", "b") @@ (<<Item("tags", 1)>> :> "a") @@ (<<Item("tags", 2)>> :> "token")
     @@ Of("groups", "list") @@ Of("owner", "object") @@ Of("name", "null")
odd == Of("id", "a") @@ Of("groups", "a") @@ (<<At("note"), At("id")>> :> "a") @@ Of("other", "a")
       @@ (<<Item("owner", 1)>> :> "unsupported")
broken == Of("id", "b") @@ (<<Item("tags", 1)>> :> "unsupported")
source == {a, b, odd, broken}

MCLists == {<<>>, <<a>>, <<a, b>>, <<b, a>>, <<odd>>, <<a, odd>>, <<b, broken>>}

-----------------------------------------------------------------------------
All == [fields |-> {}, filters |-> {}, search |-> {}]
Only(fields) == [All EXCEPT !.fields = fields]
Where(path, texts) == [All EXCEPT !.filters = {[path |-> path, texts |-> texts]}]

Narrowings ==
    {Only({<<"id">>, <<"groups", "id">>}), Only({<<"groups", "note">>}), Only({<<"owner">>, <<"owner", "id">>}),
     Where(<<"groups", "note">>, {"cut"}), Where(<<"groups", "id">>, {"b"}), Where(<<"tags">>, {""}),
     Where(<<"owner", "id">>, {"a"}), Where(<<"name">>, {"", "long"}), [All EXCEPT !.search = {"token", "cut"}],
     [fields |-> {<<"id">>}, filters |-> {[path |-> <<"tags">>, texts |-> {"cut", ""}]}, search |-> {"b"}]}

Default == [host |-> "cli", op |-> "list", id |-> "a", flaws |-> {}, refs |-> 0, mode |-> "standard", dump |-> None,
            narrow |-> All, page |-> None, output |-> FALSE]

Pages == {None, [offset |-> 0, limit |-> 1], [offset |-> 1, limit |-> 2], [offset |-> 3, limit |-> 1]}

(* Every flaw, those of a narrowing brought about by one.                   *)
With(r, flaws) ==
    [r EXCEPT !.flaws = flaws \ {"field", "hidden"},
              !.narrow.fields = IF "field" \in flaws THEN {<<"other">>} ELSE @,
              !.narrow.filters = IF "hidden" \in flaws
                                 THEN {[path |-> <<"key">>, texts |-> {"b"}]} ELSE @]

Saved(mode, list) == [mode |-> mode, whole |-> TRUE, listed |-> TRUE, records |-> ProjectRecords(list, mode)]
Altered(mode, list) == [Saved(mode, <<>>) EXCEPT !.records = list]
Dumps ==
    {Saved(mode, list) : mode \in Mode, list \in {<<>>, <<a, b>>, <<odd>>}}
    \cup {Altered("standard", <<r>>) : r \in
             {a, Of("id", "token"), Of("key", "b"), Of("note", "list"), Of("groups", "object"),
              Of("groups", "a"), <<Item("tags", 1), At("id")>> :> "a"}}
    \cup {Altered("share", <<Project(a, "standard")>>),
          Altered("standard", <<Project(a, "standard"), Project(a, "standard")>>),
          [Saved("standard", <<a>>) EXCEPT !.whole = FALSE],
          [Saved("standard", <<>>) EXCEPT !.listed = FALSE]}

MCRequests ==
    {[Default EXCEPT !.refs = refs, !.narrow = narrow, !.page = page, !.output = output] :
        refs \in {0, 2}, narrow \in {All, Where(<<"groups", "id">>, {"b"})}, page \in Pages, output \in BOOLEAN}
    \cup
    {[Default EXCEPT !.host = "library", !.refs = refs, !.narrow = narrow, !.mode = mode] :
        refs \in {0, 2}, narrow \in Narrowings, mode \in Mode}
    \cup
    {With([Default EXCEPT !.host = caller, !.refs = 1], {f, g}) :
        caller \in {"cli", "library"}, f \in Flaws, g \in Flaws}
    \cup
    {[Default EXCEPT !.dump = dump, !.mode = mode] : dump \in Dumps, mode \in {None, "standard"}}
    \cup
    {[Default EXCEPT !.dump = Saved(mode, <<b, a>>), !.mode = None, !.narrow = narrow] :
        mode \in Mode, narrow \in Narrowings}
    \cup
    {[Default EXCEPT !.host = caller, !.op = op, !.id = id, !.mode = mode, !.narrow = narrow] :
        caller \in {"cli", "library"}, op \in {"get", "show"}, id \in {"a", "b"}, mode \in Mode,
        narrow \in {All, Only({<<"name">>}), [All EXCEPT !.search = {"b"}]}}
    \cup
    {[Default EXCEPT !.op = op, !.dump = dump, !.mode = None, !.id = id] :
        op \in {"get", "show"}, id \in {"a", "b"},
        dump \in {Saved(mode, list) : mode \in Mode, list \in {<<>>, <<a>>, <<a, b>>}}
                 \cup {[Saved("standard", <<>>) EXCEPT !.listed = FALSE]}}

MCRecord == source \cup UNION {{d.records[n] : n \in DOMAIN d.records} : d \in Dumps}
            \cup {Project(r, mode) : r \in source, mode \in Mode}

-----------------------------------------------------------------------------
(* Rules, the locations and sublocations they name, the labels, whose ids   *)
(* are hidden, users, and devices, which cannot be read.  A location may    *)
(* name its parent.                                                         *)
Reference(r, field, targets, rendered, audit) ==
    [resource |-> r, field |-> field, targets |-> targets, rendered |-> rendered, audit |-> audit]
MCReferences ==
    <<Reference("rules", "locations", <<"locations", "sublocations">>, TRUE, FALSE),
      Reference("rules", "labels", <<"sublocations", "labels">>, TRUE, FALSE),
      Reference("rules", "device", <<"locations">>, FALSE, FALSE),
      Reference("rules", "changedBy", <<"users">>, TRUE, TRUE),
      Reference("locations", "parent", <<"locations">>, TRUE, FALSE),
      Reference("users", "home", <<"locations">>, TRUE, FALSE),
      Reference("users", "device", <<"devices">>, TRUE, FALSE),
      Reference("devices", "location", <<"locations">>, TRUE, FALSE)>>

Number(n) == [id |-> n, as |-> "number"]
Spelled(n) == [id |-> n, as |-> "text"]
Rule(key, locations, labels) ==
    [key |-> key, refs |-> [locations |-> locations, labels |-> labels, device |-> {}, changedBy |-> {Number(1)}]]
Location(key, parent) == [key |-> key, refs |-> [parent |-> parent]]
Sublocation(key) == [key |-> key, refs |-> <<>>]

Tenant(rules, locations, sublocations) ==
    [rules |-> rules, locations |-> locations, sublocations |-> sublocations,
     labels |-> <<Sublocation(Number(1))>>, devices |-> <<>>,
     users |-> <<[key |-> Number(1), refs |-> [home |-> {Spelled(1)}, device |-> {Number(1)}]]>>]
MCTenants ==
    {Tenant(<<Rule(Number(1), {Spelled(1), Number(2)}, {Number(1)}), Rule(Number(2), {Number(0)}, {Number(3)})>>,
            <<Location(Number(1), {Number(0)}), Location(Number(2), {Spelled(1)})>>, <<Sublocation(Number(3))>>),
     Tenant(<<Rule(Number(1), {Number(2), Number(3)}, {Number(2)})>>,
            <<Location(Number(2), {Number(3)})>>, <<Sublocation(Number(3))>>),
     Tenant(<<Rule(Number(0), {Number(1), Spelled(1)}, {})>>, <<>>, <<Sublocation(Number(1)), Sublocation(Number(2))>>)}

MCQueries ==
    {[op |-> "check", resource |-> r, id |-> Number(0)] : r \in {"rules", "locations", "users"}}
    \cup {[op |-> "to", resource |-> "locations", id |-> v] : v \in {Number(0), Number(1), Spelled(3)}}
    \cup {[op |-> "to", resource |-> "users", id |-> Number(1)]}

-----------------------------------------------------------------------------
NoRead ==
    /\ request = [Default EXCEPT !.host = "library"]
    /\ ctx = "live" /\ error = "none" /\ asked = 0
    /\ contacted = FALSE /\ loaded = <<>> /\ records = <<>> /\ sent = 0
    /\ notices = FALSE /\ stdout = "none" /\ stderr = {} /\ exit = None
    /\ file = "before" /\ temp = "none" /\ safe = FALSE

NoRefs ==
    /\ query = Nil /\ tenant = Nil /\ changes = 0 /\ context = "live" /\ step = "over"
    /\ waiting = FALSE /\ cache = <<>> /\ i = 1 /\ j = 1 /\ known = {}
    /\ document = Nil /\ outcome = Nil /\ reads = [r \in Resource |-> 0]

NoSettings ==
    /\ host = None /\ stage = "over" /\ config = <<>> /\ profile = Nothing /\ notice = FALSE
    /\ failure = Nothing /\ consulted = <<>> /\ held = <<>> /\ verdict = Nothing

(* Any producer has no request of its own.                                  *)
Anything ==
    /\ pc = "any"
    /\ AnyProducer
    /\ Len(delivered') <= MaxEvents \/ Ended'
    /\ UNCHANGED <<request, ctx, pc, error, asked, answer, terminals, disk>>

MCInit ==
    \/ Init /\ NoRefs /\ NoSettings
    \/ StreamInit /\ pc = "any" /\ NoRead /\ NoRefs /\ NoSettings
    \/ StreamInit /\ sink /\ pc = "refs" /\ NoRead /\ RefsInit /\ NoSettings
    \/ StreamInit /\ sink /\ pc = "settle" /\ NoRead /\ NoRefs /\ SettingsInit

MCNext ==
    \/ Anything /\ UNCHANGED <<refsVars, settings>>
    \/ pc \notin {"any", "refs", "settle"} /\ Next /\ UNCHANGED <<refsVars, settings>>
    \/ pc = "refs" /\ RefsNext /\ UNCHANGED <<vars, settings>>
    \/ pc = "settle" /\ SettingsNext /\ UNCHANGED <<vars, refsVars>>

MCSpec == MCInit /\ [][MCNext]_<<vars, refsVars, settings>>

=============================================================================
