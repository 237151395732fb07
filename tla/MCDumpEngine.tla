----------------------------- MODULE MCDumpEngine -----------------------------
(* A dump for TLC: the operation, and the files it publishes, which the     *)
(* publication stands for; neither looks at the other, so a run takes one   *)
(* of them.  The operation reads one, two or three resources of two         *)
(* products, the second product between two resources of the first;         *)
(* resource files are interchangeable.                                      *)
EXTENDS DumpEngine, ArtifactWrite, TLC

CONSTANTS p, q

MCPlans == {<<p>>, <<p, p>>, <<p, q, p>>}

Symmetry == Permutations(Resource)

-------------------------------------------------------------------------------
VARIABLE part      \* "operation" or "files"

NoFiles ==
    /\ WriteInit
    /\ gathered = {} /\ failures = {} /\ aim = "load"

NoOperation ==
    /\ Init
    /\ plan = <<p>> /\ ~continueOnError /\ sink /\ slot = "old"

MCInit ==
    \/ part = "operation" /\ Init /\ NoFiles
    \/ part = "files" /\ NoOperation /\ WriteInit

MCNext ==
    /\ UNCHANGED part
    /\ \/ part = "operation" /\ Next /\ UNCHANGED artifact
       \/ part = "files" /\ WriteNext /\ UNCHANGED vars

MCSpec == MCInit /\ [][MCNext]_<<part, vars, artifact>>

===============================================================================
