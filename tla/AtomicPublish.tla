---------------------------- MODULE AtomicPublish ----------------------------
(***************************************************************************)
(* What publication promises (dump.PublishContextWithCatalog): the         *)
(* destination is one slot that a client switches to a new object in one   *)
(* step and may switch back in one step before it reports a failure; the   *)
(* report agrees with the slot, except for an uncertain one, which stands  *)
(* for a refused rollback or a replaced object that could not be removed.  *)
(***************************************************************************)

CONSTANTS Client, Object, Nothing

VARIABLES
    slot,       \* the object at the destination
    phase,      \* how far a client is
    replaced    \* the object a client has switched away from

vars == <<slot, phase, replaced>>

Init ==
    /\ slot \in Object \cup {Nothing}
    /\ phase = [c \in Client |-> "pending"]
    /\ replaced = [c \in Client |-> Nothing]

Become(c, ph) == phase' = [phase EXCEPT ![c] = ph]

(* An object that is present is replaced; an absent one just appears.      *)
Install(c) ==
    /\ phase[c] = "pending"
    /\ slot' \in Object \ {slot}
    /\ IF slot = Nothing
       THEN Become(c, "success") /\ UNCHANGED replaced
       ELSE Become(c, "installed") /\ replaced' = [replaced EXCEPT ![c] = slot]

GiveUp(c) ==
    /\ phase[c] = "pending"
    /\ Become(c, "failure")
    /\ UNCHANGED <<slot, replaced>>

(* Back to exactly the object that was replaced, which the client may not  *)
(* be able to confirm.                                                     *)
Undo(c) ==
    /\ phase[c] = "installed"
    /\ slot' = replaced[c]
    /\ \E ph \in {"failure", "uncertain"} : Become(c, ph)
    /\ replaced' = [replaced EXCEPT ![c] = Nothing]

Report(c) ==
    /\ phase[c] = "installed"
    /\ \E ph \in {"success", "uncertain"} : Become(c, ph)
    /\ replaced' = [replaced EXCEPT ![c] = Nothing]
    /\ UNCHANGED slot

Die(c) ==
    /\ phase' = [phase EXCEPT ![c] = "dead"]
    /\ replaced' = [replaced EXCEPT ![c] = Nothing]
    /\ UNCHANGED slot

Next == \E c \in Client : Install(c) \/ GiveUp(c) \/ Undo(c) \/ Report(c) \/ Die(c)

Spec == Init /\ [][Next]_vars

=============================================================================
