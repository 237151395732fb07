------------------------------ MODULE Projection ------------------------------
(***************************************************************************)
(* What is left of a record (internal/resources resources.go): projection  *)
(* to the reviewed fields of its resource, verification of what claims to  *)
(* be projected, and narrowing by field, filter and search.  Also what a   *)
(* saved dump must hold to be read as one (internal/diff diff.go           *)
(* admitRecords, collection.go).                                           *)
(*                                                                         *)
(* A record is a function from addresses to leaves.  An address leads from *)
(* the record to a leaf, a step for every object: the name of a field and, *)
(* if its value is a list, which item.  Items are in the order of their    *)
(* numbers, which need not be contiguous: what drops one drops no number.  *)
(* No list is an item of a list; the catalog has no such type.             *)
(***************************************************************************)
EXTENDS Naturals, Sequences

CONSTANTS
    Fields,          \* the catalog: [path |-> [class, modes]]
    GetKey,          \* the field records are told apart by
    DisplayNames,    \* names of fields that hold a display name
    Text,            \* what a leaf may say, numbers and truth values included
    Scan             \* [redaction mode -> [kind of field -> [Text -> Text]]]

Mode == {"standard", "share", "paranoid"}
ScanKind == {"free", "name", "rendered"}

(* A leaf that is no text: null, an object without fields, an empty list,  *)
(* one that the service is known to have sent, and a Go value of a type    *)
(* that nothing here knows.                                                *)
Shapes == {"null", "object", "list", "confirmed", "unsupported"}
Leaf == Text \cup Shapes
Address == Seq([name : STRING, item : Nat]) \ {<<>>}
IsRecord(r) ==
    /\ DOMAIN r \subseteq Address
    /\ r \in [DOMAIN r -> Leaf]
    /\ \A a \in DOMAIN r : r[a] \in {"list", "confirmed"} => a[Len(a)].item = 0

Class == {"public_project_data", "operational_metadata", "tenant_configuration",
          "sensitive_identifier", "free_text", "secret"}

ASSUME CatalogAssumption ==
    /\ Text \cap Shapes = {}
    /\ \A path \in DOMAIN Fields :
          /\ path \in Seq(STRING) \ {<<>>}
          /\ Fields[path].class \in Class
          /\ Fields[path].modes \subseteq Mode
    /\ Scan \in [Mode -> [ScanKind -> [Text -> Text]]]

(* What is left after a scan is left by another one.                       *)
ASSUME ScanAssumption ==
    \A mode \in Mode, kind \in ScanKind, text \in Text :
        Scan[mode][kind][Scan[mode][kind][text]] = Scan[mode][kind][text]

-----------------------------------------------------------------------------
(* Fields and addresses.                                                   *)

UpTo(s, n) == SubSeq(s, 1, n)
Begins(p, q) == Len(p) <= Len(q) /\ UpTo(q, Len(p)) = p
Path(address) == [n \in DOMAIN address |-> address[n].name]

AllowedIn(path, mode) == Fields[path].class # "secret" /\ mode \in Fields[path].modes

(* Mutant of RenderedIn: the fields around a field are not asked.          *)
RenderedByItself(path, mode) == path \in DOMAIN Fields /\ AllowedIn(path, mode)

(* A field renders only where every field around it does.                  *)
RenderedIn(path, mode) ==
    \A n \in DOMAIN path : UpTo(path, n) \in DOMAIN Fields /\ AllowedIn(UpTo(path, n), mode)

HasFields(path) == \E p \in DOMAIN Fields : Len(p) = Len(path) + 1 /\ Begins(path, p)

-----------------------------------------------------------------------------
(* Projection.                                                             *)

(* The value of the field at an address has no object in it.               *)
Plain(r, address) ==
    \A b \in DOMAIN r :
        (/\ Len(b) >= Len(address)
         /\ UpTo(b, Len(address) - 1) = UpTo(address, Len(address) - 1)
         /\ b[Len(address)].name = address[Len(address)].name)
        => Len(b) = Len(address) /\ r[b] # "object"

(* A value of an unknown type where it would be rendered, or anywhere in   *)
(* the value of a field without nested ones.  Where an object should be an *)
(* item of a list it is left out like every other item that is none.       *)
Broken(r, mode) ==
    \E a \in DOMAIN r :
        /\ r[a] = "unsupported"
        /\ \E n \in DOMAIN a :
              /\ RenderedIn(UpTo(Path(a), n), mode)
              /\ ~HasFields(UpTo(Path(a), n)) \/ (n = Len(a) /\ a[n].item = 0)

(* The leaves that stay: of rendered fields, an empty list only if it was  *)
(* sent as one, anything else only if no object is expected and none is    *)
(* there.                                                                  *)
Kept(r, mode) ==
    {a \in DOMAIN r :
        /\ RenderedIn(Path(a), mode)
        /\ r[a] # "list"
        /\ r[a] = "confirmed" \/ (~HasFields(Path(a)) /\ Plain(r, a))}

KindOfField(path, mode) ==
    CASE Fields[path].class = "free_text" -> "free"
      [] /\ Fields[path].class = "tenant_configuration" /\ mode = "standard"
         /\ path[Len(path)] \in DisplayNames -> "name"
      [] OTHER -> "rendered"

Scanned(path, mode, text) == Scan[mode][KindOfField(path, mode)][text]

Project(r, mode) ==
    [a \in Kept(r, mode) |->
        CASE r[a] = "confirmed" -> "list"
          [] r[a] \in Text -> Scanned(Path(a), mode, r[a])
          [] OTHER -> r[a]]

(* AssertRenderedSubset.                                                   *)
Verified(r, mode) ==
    \A a \in DOMAIN r :
        /\ RenderedIn(Path(a), mode)
        /\ r[a] # "unsupported"
        /\ r[a] = "object" => HasFields(Path(a))

-----------------------------------------------------------------------------
(* Saved records.                                                          *)

(* Mutant of Confirm: a saved empty list is taken for one not sent.        *)
ConfirmNothing(r) == r

(* Projection rendered every empty list in them deliberately.              *)
Confirm(r) == [a \in DOMAIN r |-> IF r[a] = "list" THEN "confirmed" ELSE r[a]]

(* To be projected once more must leave a record as it is.                 *)
Admitted(r, mode) ==
    /\ Verified(r, mode)
    /\ ~Broken(Confirm(r), mode)
    /\ Project(Confirm(r), mode) = r

Identity(r) ==
    LET key == <<[name |-> GetKey, item |-> 0]>>
    IN  IF key \in DOMAIN r /\ r[key] \in Text \ {""} THEN r[key] ELSE "null"

(* validateLoadedRecords: no two records of one identity.                  *)
Distinct(records) ==
    \A n, m \in DOMAIN records : Identity(records[n]) = Identity(records[m]) =>
        n = m \/ Identity(records[n]) = "null"

CollectionAdmitted(records, mode) ==
    /\ \A n \in DOMAIN records : Admitted(records[n], mode)
    /\ Distinct(records)

-----------------------------------------------------------------------------
(* Narrowing: the fields to keep (all if none is named), filters, each a   *)
(* field and the texts it matches, and the texts that a search finds, if   *)
(* there is one.  A list is matched item by item, an empty one and null as *)
(* the text "".  (What the joined text of a list, or that of a whole       *)
(* object, would match besides is left out.)                               *)

Known(path) == path \in DOMAIN Fields
UnknownField(narrow) ==
    \/ \E path \in narrow.fields : ~Known(path)
    \/ \E f \in narrow.filters : ~Known(f.path) \/ (Len(f.path) > 1 /\ HasFields(f.path))

(* A filter on a field that the mode omits could match nothing, and would  *)
(* make it look as if there was nothing.                                   *)
HiddenFilter(narrow, mode) == \E f \in narrow.filters : ~RenderedIn(f.path, mode)

Reads(leaf) == IF leaf \in {"null", "list"} THEN "" ELSE leaf

FilterMatches(r, f) ==
    \E a \in DOMAIN r :
        /\ Path(a) = f.path
        /\ Len(f.path) > 1 => r[a] # "list"
        /\ Reads(r[a]) \in f.texts

Matches(r, narrow) ==
    /\ \A f \in narrow.filters : FilterMatches(r, f)
    /\ narrow.search = {} \/ \E a \in DOMAIN r : r[a] \in narrow.search

EffectiveFields(fields, mode) == {path \in fields : RenderedIn(path, mode)}

(* What stays when only some fields do: their leaves, those that stand     *)
(* where an object around one of them could be, and an empty object where  *)
(* one around them has none of them.                                       *)
OnWay(path, fields) == \E p \in fields : Begins(p, path) \/ Begins(path, p)

Select(r, fields) ==
    LET leaves == {a \in DOMAIN r : OnWay(Path(a), fields)}
        around == UNION {{UpTo(a, n) : n \in 1..Len(a) - 1} : a \in DOMAIN r}
        emptied == {b \in around :
                       /\ OnWay(Path(b), fields)
                       /\ \A a \in DOMAIN r : Len(a) > Len(b) /\ Begins(b, a) =>
                             ~OnWay(UpTo(Path(a), Len(b) + 1), fields)}
    IN  [a \in leaves \cup emptied |-> IF a \in leaves THEN r[a] ELSE "object"]

(* Rows first, then fields; the fields that the mode omits are left out.   *)
Narrowed(r, narrow, mode) ==
    IF narrow.fields = {} THEN r ELSE Select(r, EffectiveFields(narrow.fields, mode))

(* The positions of the records that match, one record after the other.    *)
FilterRecords(records, narrow) ==
    LET matched[n \in 0..Len(records)] ==
            IF n = 0 THEN <<>>
            ELSE IF Matches(records[n], narrow) THEN Append(matched[n - 1], n)
            ELSE matched[n - 1]
    IN  matched[Len(records)]

ProjectRecords(records, mode) == [n \in DOMAIN records |-> Project(records[n], mode)]

(* Records that can be projected, every one of them; the result is         *)
(* verified before anything looks at it.                                   *)
Fit(records, mode) ==
    \A n \in DOMAIN records :
        ~Broken(records[n], mode) /\ Verified(Project(records[n], mode), mode)

=============================================================================
