------------------------------ MODULE MCDumpDiff ------------------------------
(* DumpDiff for TLC: two resources.  Either the first has any pair of short *)
(* lists, of every shape, and the second one record; or both are present or *)
(* not, failed or not, of several lengths, and the redaction may differ.    *)
EXTENDS DumpDiff

Rec(id, setting, operational) == [id |-> id, setting |-> setting, operational |-> operational]
Ok(records) == [status |-> "ok", records |-> records]
Missing == [status |-> "unlisted", records |-> <<>>]
Unread == [status |-> "error", records |-> <<>>]

ax == Rec("a", "x", "x")
Lists == {<<>>, <<ax>>, <<Rec("a", "y", "x")>>, <<Rec("a", "x", "y")>>, <<Rec("b", "x", "x")>>,
          <<Rec("a", "null", "x")>>, <<Rec("a", "absent", "x")>>, <<Rec("absent", "x", "x")>>,
          <<ax, ax>>, <<ax, Rec("b", "x", "x")>>, <<Rec("b", "y", "x"), ax>>}
Lengths == {Missing, Unread, Ok(<<>>), Ok(<<ax>>), Ok(<<ax, Rec("b", "x", "x")>>), Ok(<<ax, ax, ax>>)}

Case(shape, old, new, oldRedaction, newRedaction) ==
    [shape |-> <<shape, "keyed">>,
     old |-> [redaction |-> oldRedaction, files |-> old],
     new |-> [redaction |-> newRedaction, files |-> new]]

MCCases ==
    {Case(shape, <<Ok(l), Ok(<<ax>>)>>, <<Ok(k), Ok(<<ax>>)>>, "standard", "standard") :
        shape \in {"singleton", "keyed", "hashed"}, l \in Lists, k \in Lists}
    \cup
    {Case("keyed", <<f, g>>, <<h, k>>, "standard", "standard") :
        f \in Lengths, g \in Lengths \ {Unread}, h \in Lengths, k \in Lengths \ {Unread}}
    \cup
    {Case("hashed", <<f, Ok(<<>>)>>, <<f, Ok(<<>>)>>, "share", "standard") : f \in Lengths}

=============================================================================
