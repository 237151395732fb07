--------------------------- MODULE DumpPublishProofs ---------------------------
(***************************************************************************)
(* Proofs about DumpPublish, for every number of publishers, every set of  *)
(* directories and faults, and every bound on the outside program.         *)
(*                                                                         *)
(* IInv is inductive; each of its parts has a lemma with one step per      *)
(* action.  OnlyReplacedDumpsDeleted and NothingUnlinked follow from it.   *)
(* WholeTarget needs WholeWhereSeen too, and that nobody moves a staging   *)
(* path.  What racing publishers report, and what one publisher promises   *)
(* (AtomicPublish), rest on further invariants, each under the weakest     *)
(* assumption on the outside program that it needs.                        *)
(***************************************************************************)
EXTENDS DumpPublish, TLAPS

-----------------------------------------------------------------------------
(* Every step of a publisher, a crash, a cancellation or the outside       *)
(* program keeps the types the model declares.                             *)
LEMMA TypeStep ==
    ASSUME TypeOK, [Next]_vars
    PROVE  TypeOK'
<1> USE PublishAssumption DEF TypeOK, Slot, PC, Content, Error, names, flags,
      ids, Goto, Fresh
<1>1. ASSUME NEW p \in Publisher, Begin(p) PROVE TypeOK'
  BY <1>1 DEF Begin, Create, Fail, Stopped, IOFault
<1>2. ASSUME NEW p \in Publisher, WriteFiles(p) PROVE TypeOK'
  BY <1>2 DEF WriteFiles, Create, Fail, Stopped, IOFault
<1>3. ASSUME NEW p \in Publisher, WriteManifest(p) PROVE TypeOK'
  BY <1>3 DEF WriteManifest, Create, Fail, Stopped, IOFault
<1>4. ASSUME NEW p \in Publisher, Validate(p) PROVE TypeOK'
  BY <1>4 DEF Validate, Fail, Stopped, IOFault
<1>5. ASSUME NEW p \in Publisher, RenameNoReplace(p) PROVE TypeOK'
  BY <1>5 DEF RenameNoReplace, Fail, Stopped, IOFault
<1>6. ASSUME NEW p \in Publisher, Inspect(p) PROVE TypeOK'
  BY <1>6 DEF Inspect, Fail, Stopped, IOFault
<1>7. ASSUME NEW p \in Publisher, Recheck(p) PROVE TypeOK'
  BY <1>7 DEF Recheck, Fail, Stopped, IOFault
<1>8. ASSUME NEW p \in Publisher, Exchange(p) PROVE TypeOK'
  BY <1>8 DEF Exchange, Fail, Stopped, IOFault, CanSwap, Swap
<1>9. ASSUME NEW p \in Publisher, Verify(p) PROVE TypeOK'
  BY <1>9 DEF Verify, Fail, Stopped, IOFault, Unchanged
<1>10. ASSUME NEW p \in Publisher, Quarantine(p) PROVE TypeOK'
  BY <1>10 DEF Quarantine, IOFault
<1>11. ASSUME NEW p \in Publisher, CheckQuarantine(p) PROVE TypeOK'
  BY <1>11 DEF CheckQuarantine, Stopped, IOFault, Unchanged
<1>12. ASSUME NEW p \in Publisher, Restore(p) PROVE TypeOK'
  BY <1>12 DEF Restore, Fail, IOFault
<1>13. ASSUME NEW p \in Publisher, Clear(p) PROVE TypeOK'
  BY <1>13 DEF Clear, Fail, IOFault
<1>14. ASSUME NEW p \in Publisher, Rollback(p) PROVE TypeOK'
  BY <1>14 DEF Rollback, Fail
<1>15. ASSUME NEW p \in Publisher, RollbackExchange(p) PROVE TypeOK'
  BY <1>15 DEF RollbackExchange, Fail, IOFault, CanSwap, Swap
<1>16. ASSUME NEW p \in Publisher, Cleanup(p) PROVE TypeOK'
  BY <1>16 DEF Cleanup, IOFault
<1>17. ASSUME NEW p \in Publisher, Relocate(p) PROVE TypeOK'
  BY <1>17 DEF Relocate, IOFault
<1>18. ASSUME NEW p \in Publisher, CheckDiscard(p) PROVE TypeOK'
  BY <1>18 DEF CheckDiscard, IOFault
<1>19. ASSUME NEW p \in Publisher, Discard(p) PROVE TypeOK'
  BY <1>19 DEF Discard, IOFault
<1>20. ASSUME NEW p \in Publisher, Undiscard(p) PROVE TypeOK'
  BY <1>20 DEF Undiscard, IOFault
<1>21. ASSUME NEW p \in Publisher, Cancel(p) PROVE TypeOK'
  BY <1>21 DEF Cancel
<1>22. ASSUME NEW p \in Publisher, Crash(p) PROVE TypeOK'
  BY <1>22 DEF Crash
<1>23. ASSUME NEW p \in Publisher, MeddleStaging(p) PROVE TypeOK'
  BY <1>23 DEF MeddleStaging, Meddle, InsertFile
<1>24. CASE MeddleTarget
  BY <1>24 DEF MeddleTarget, Meddle, InsertFile
<1>25. CASE UNCHANGED vars
  BY <1>25 DEF vars
<1> QED
  BY <1>1, <1>2, <1>3, <1>4, <1>5, <1>6, <1>7, <1>8, <1>9, <1>10, <1>11,
     <1>12, <1>13, <1>14, <1>15, <1>16, <1>17, <1>18, <1>19, <1>20, <1>21,
     <1>22, <1>23, <1>24, <1>25 DEF Next, Step, Finished

(* Every variable keeps its type, whatever the interleaving, the faults    *)
(* and the outside program.                                                *)
THEOREM TypeCorrect == Spec => []TypeOK
<1>1. Init => TypeOK
  BY PublishAssumption DEF Init, TypeOK, Slot, PC, Content, Error
<1>2. TypeOK /\ [Next]_vars => TypeOK'
  BY TypeStep
<1> QED
  BY <1>1, <1>2, PTL DEF Spec

-----------------------------------------------------------------------------
(* The inductive invariant.                                                *)

(* No step gives one directory two names: what is created is new, and a    *)
(* rename or an exchange only moves.                                       *)
LEMMA DistinctStep ==
    ASSUME IInv, [Next]_vars
    PROVE  Distinct'
<1> USE PublishAssumption DEF IInv, TypeOK, Slot, PC, Content, Error, names,
      flags, ids, Goto, Fresh, HasName, Distinct, Identified
<1>1. ASSUME NEW p \in Publisher, Begin(p) PROVE Distinct'
  BY <1>1 DEF Begin, Create, Fail, Stopped, IOFault
<1>2. ASSUME NEW p \in Publisher, WriteFiles(p) PROVE Distinct'
  BY <1>2 DEF WriteFiles, Create, Fail, Stopped, IOFault
<1>3. ASSUME NEW p \in Publisher, WriteManifest(p) PROVE Distinct'
  BY <1>3 DEF WriteManifest, Create, Fail, Stopped, IOFault
<1>4. ASSUME NEW p \in Publisher, RenameNoReplace(p) PROVE Distinct'
  BY <1>4 DEF RenameNoReplace, Fail, Stopped, IOFault
<1>5. ASSUME NEW p \in Publisher, Exchange(p) PROVE Distinct'
  BY <1>5 DEF Exchange, Fail, Stopped, IOFault, CanSwap, Swap
<1>6. ASSUME NEW p \in Publisher, Quarantine(p) PROVE Distinct'
  BY <1>6 DEF Quarantine, IOFault
<1>7. ASSUME NEW p \in Publisher, Restore(p) PROVE Distinct'
  BY <1>7 DEF Restore, Fail, IOFault
<1>8. ASSUME NEW p \in Publisher, RollbackExchange(p) PROVE Distinct'
  BY <1>8 DEF RollbackExchange, Fail, IOFault, CanSwap, Swap
<1>9. ASSUME NEW p \in Publisher, Relocate(p) PROVE Distinct'
  BY <1>9 DEF Relocate, IOFault
<1>10. ASSUME NEW p \in Publisher, Undiscard(p) PROVE Distinct'
  BY <1>10 DEF Undiscard, IOFault
<1>11. ASSUME NEW p \in Publisher, MeddleStaging(p) PROVE Distinct'
  BY <1>11 DEF MeddleStaging, Meddle, InsertFile
<1>12. CASE MeddleTarget
  BY <1>12 DEF MeddleTarget, Meddle, InsertFile
<1>13. CASE UNCHANGED names
  BY <1>13
<1>14. ASSUME NEW p \in Publisher,
               Validate(p) \/ Inspect(p) \/ Recheck(p) \/ Verify(p) \/
               CheckQuarantine(p) \/ Clear(p) \/ Rollback(p) \/ Cleanup(p)
               \/ CheckDiscard(p) \/ Discard(p) \/ Cancel(p) \/ Crash(p)
      PROVE  UNCHANGED names
  BY <1>14 DEF Validate, Inspect, Recheck, Verify, CheckQuarantine, Clear,
     Rollback, Cleanup, CheckDiscard, Discard, Cancel, Crash
<1>15. CASE UNCHANGED vars
  BY <1>15 DEF vars
<1> QED
  BY <1>1, <1>2, <1>3, <1>4, <1>5, <1>6, <1>7, <1>8, <1>9, <1>10, <1>11,
     <1>12, <1>13, <1>14, <1>15 DEF Next, Step, Finished

(* A step takes a name from a directory only by giving it another one.     *)
LEMMA NamesKept ==
    ASSUME IInv, [Next]_vars, NEW d \in Dir, HasName(d)
    PROVE  HasName(d)'
<1> USE PublishAssumption DEF IInv, TypeOK, Slot, PC, Content, Error, names,
      flags, ids, Goto, HasName, Identified, Leaving
<1>1. ASSUME NEW p \in Publisher, Begin(p) PROVE HasName(d)'
  BY <1>1 DEF Begin, Create, Fail, Stopped, IOFault
<1>2. ASSUME NEW p \in Publisher, WriteFiles(p) PROVE HasName(d)'
  BY <1>2 DEF WriteFiles, Create, Fail, Stopped, IOFault
<1>3. ASSUME NEW p \in Publisher, WriteManifest(p) PROVE HasName(d)'
  BY <1>3 DEF WriteManifest, Create, Fail, Stopped, IOFault
<1>4. ASSUME NEW p \in Publisher, RenameNoReplace(p) PROVE HasName(d)'
  BY <1>4 DEF RenameNoReplace, Fail, Stopped, IOFault
<1>5. ASSUME NEW p \in Publisher, Exchange(p) PROVE HasName(d)'
  BY <1>5 DEF Exchange, Fail, Stopped, IOFault, CanSwap, Swap
<1>6. ASSUME NEW p \in Publisher, Quarantine(p) PROVE HasName(d)'
  BY <1>6 DEF Quarantine, IOFault
<1>7. ASSUME NEW p \in Publisher, Restore(p) PROVE HasName(d)'
  BY <1>7 DEF Restore, Fail, IOFault
<1>8. ASSUME NEW p \in Publisher, RollbackExchange(p) PROVE HasName(d)'
  BY <1>8 DEF RollbackExchange, Fail, IOFault, CanSwap, Swap
<1>9. ASSUME NEW p \in Publisher, Relocate(p) PROVE HasName(d)'
  BY <1>9 DEF Relocate, IOFault
<1>10. ASSUME NEW p \in Publisher, Undiscard(p) PROVE HasName(d)'
  BY <1>10 DEF Undiscard, IOFault
<1>11. ASSUME NEW p \in Publisher, MeddleStaging(p) PROVE HasName(d)'
  BY <1>11 DEF MeddleStaging, Meddle, InsertFile
<1>12. CASE MeddleTarget
  BY <1>12 DEF MeddleTarget, Meddle, InsertFile
<1>13. CASE UNCHANGED names
  BY <1>13
<1>14. ASSUME NEW p \in Publisher,
               Validate(p) \/ Inspect(p) \/ Recheck(p) \/ Verify(p) \/
               CheckQuarantine(p) \/ Clear(p) \/ Rollback(p) \/ Cleanup(p)
               \/ CheckDiscard(p) \/ Discard(p) \/ Cancel(p) \/ Crash(p)
      PROVE  UNCHANGED names
  BY <1>14 DEF Validate, Inspect, Recheck, Verify, CheckQuarantine, Clear,
     Rollback, Cleanup, CheckDiscard, Discard, Cancel, Crash
<1>15. CASE UNCHANGED vars
  BY <1>15 DEF vars
<1> QED
  BY <1>1, <1>2, <1>3, <1>4, <1>5, <1>6, <1>7, <1>8, <1>9, <1>10, <1>11,
     <1>12, <1>13, <1>14, <1>15 DEF Next, Step, Finished

(* Only a directory with a name is written to.                             *)
LEMMA FreshStep ==
    ASSUME IInv, [Next]_vars
    PROVE  FreshIsEmpty'
<1> SUFFICES ASSUME NEW d \in Dir, content'[d] # "empty", ~HasName(d)
             PROVE  HasName(d)'
  BY NamesKept DEF FreshIsEmpty
<1>0. content[d] = "empty"
  BY DEF IInv, FreshIsEmpty
<1> USE PublishAssumption DEF IInv, TypeOK, Slot, PC, Content, Error, names,
      flags, ids, Goto, HasName, Identified
<1>1. ASSUME NEW p \in Publisher, Begin(p) PROVE HasName(d)'
  BY <1>0, <1>1 DEF Begin, Create, Fail, Stopped, IOFault
<1>2. ASSUME NEW p \in Publisher, WriteFiles(p) PROVE HasName(d)'
  BY <1>0, <1>2 DEF WriteFiles, Create, Fail, Stopped, IOFault
<1>3. ASSUME NEW p \in Publisher, WriteManifest(p) PROVE HasName(d)'
  BY <1>0, <1>3 DEF WriteManifest, Create, Fail, Stopped, IOFault
<1>4. ASSUME NEW p \in Publisher, Clear(p) PROVE HasName(d)'
  BY <1>0, <1>4 DEF Clear, Fail, IOFault
<1>5. ASSUME NEW p \in Publisher, Discard(p) PROVE HasName(d)'
  BY <1>0, <1>5 DEF Discard, IOFault
<1>6. ASSUME NEW p \in Publisher, MeddleStaging(p) PROVE HasName(d)'
  BY <1>0, <1>6 DEF MeddleStaging, Meddle, InsertFile
<1>7. CASE MeddleTarget
  BY <1>0, <1>7 DEF MeddleTarget, Meddle, InsertFile
<1>8. CASE UNCHANGED content
  BY <1>0, <1>8
<1>9. ASSUME NEW p \in Publisher,
               Validate(p) \/ RenameNoReplace(p) \/ Inspect(p) \/ Recheck(p)
               \/ Exchange(p) \/ Verify(p) \/ Quarantine(p) \/
               CheckQuarantine(p) \/ Restore(p) \/ Rollback(p) \/
               RollbackExchange(p) \/ Cleanup(p) \/ Relocate(p) \/
               CheckDiscard(p) \/ Undiscard(p) \/ Cancel(p) \/ Crash(p)
      PROVE  UNCHANGED content
  BY <1>0, <1>9 DEF Validate, RenameNoReplace, Inspect, Recheck, Exchange, Verify,
     Quarantine, CheckQuarantine, Restore, Rollback, RollbackExchange,
     Cleanup, Relocate, CheckDiscard, Undiscard, Cancel, Crash
<1>10. CASE UNCHANGED vars
  BY <1>0, <1>10 DEF vars
<1> QED
  BY <1>0, <1>1, <1>2, <1>3, <1>4, <1>5, <1>6, <1>7, <1>8, <1>9, <1>10 DEF Next,
     Step, Finished

(* The identities a publisher checked stay valid until the step that uses  *)
(* them, whatever the others do in between.                                *)
LEMMA IdentifiedStep ==
    ASSUME IInv, [Next]_vars
    PROVE  Identified'
<1> USE PublishAssumption DEF IInv, TypeOK, Slot, PC, Content, Error, names,
      flags, ids, Goto, Fresh, HasName, Distinct, Identified, Exchanged,
      Leaving
<1>1. ASSUME NEW p \in Publisher, Begin(p) PROVE Identified'
  BY <1>1 DEF Begin, Create, Fail, Stopped, IOFault
<1>2. ASSUME NEW p \in Publisher, WriteFiles(p) PROVE Identified'
  BY <1>2 DEF WriteFiles, Create, Fail, Stopped, IOFault
<1>3. ASSUME NEW p \in Publisher, WriteManifest(p) PROVE Identified'
  BY <1>3 DEF WriteManifest, Create, Fail, Stopped, IOFault
<1>4. ASSUME NEW p \in Publisher, Validate(p) PROVE Identified'
  BY <1>4 DEF Validate, Fail, Stopped, IOFault
<1>5. ASSUME NEW p \in Publisher, RenameNoReplace(p) PROVE Identified'
  BY <1>5 DEF RenameNoReplace, Fail, Stopped, IOFault
<1>6. ASSUME NEW p \in Publisher, Inspect(p) PROVE Identified'
  BY <1>6 DEF Inspect, Fail, Stopped, IOFault
<1>7. ASSUME NEW p \in Publisher, Recheck(p) PROVE Identified'
  BY <1>7 DEF Recheck, Fail, Stopped, IOFault
<1>8. ASSUME NEW p \in Publisher, Exchange(p) PROVE Identified'
  BY <1>8 DEF Exchange, Fail, Stopped, IOFault, CanSwap, Swap
<1>9. ASSUME NEW p \in Publisher, Verify(p) PROVE Identified'
  BY <1>9 DEF Verify, Fail, Stopped, IOFault, Unchanged
<1>10. ASSUME NEW p \in Publisher, Quarantine(p) PROVE Identified'
  BY <1>10 DEF Quarantine, IOFault
<1>11. ASSUME NEW p \in Publisher, CheckQuarantine(p) PROVE Identified'
  BY <1>11 DEF CheckQuarantine, Stopped, IOFault, Unchanged
<1>12. ASSUME NEW p \in Publisher, Restore(p) PROVE Identified'
  BY <1>12 DEF Restore, Fail, IOFault
<1>13. ASSUME NEW p \in Publisher, Clear(p) PROVE Identified'
  BY <1>13 DEF Clear, Fail, IOFault
<1>14. ASSUME NEW p \in Publisher, Rollback(p) PROVE Identified'
  BY <1>14 DEF Rollback, Fail
<1>15. ASSUME NEW p \in Publisher, RollbackExchange(p) PROVE Identified'
  BY <1>15 DEF RollbackExchange, Fail, IOFault, CanSwap, Swap
<1>16. ASSUME NEW p \in Publisher, Cleanup(p) PROVE Identified'
  BY <1>16 DEF Cleanup, IOFault
<1>17. ASSUME NEW p \in Publisher, Relocate(p) PROVE Identified'
  BY <1>17 DEF Relocate, IOFault
<1>18. ASSUME NEW p \in Publisher, CheckDiscard(p) PROVE Identified'
  BY <1>18 DEF CheckDiscard, IOFault
<1>19. ASSUME NEW p \in Publisher, Discard(p) PROVE Identified'
  BY <1>19 DEF Discard, IOFault
<1>20. ASSUME NEW p \in Publisher, Undiscard(p) PROVE Identified'
  BY <1>20 DEF Undiscard, IOFault
<1>21. ASSUME NEW p \in Publisher, Cancel(p) PROVE Identified'
  BY <1>21 DEF Cancel
<1>22. ASSUME NEW p \in Publisher, Crash(p) PROVE Identified'
  BY <1>22 DEF Crash
<1>23. ASSUME NEW p \in Publisher, MeddleStaging(p) PROVE Identified'
  BY <1>23 DEF MeddleStaging, Meddle, InsertFile
<1>24. CASE MeddleTarget
  BY <1>24 DEF MeddleTarget, Meddle, InsertFile
<1>25. CASE UNCHANGED vars
  BY <1>25 DEF vars
<1> QED
  BY <1>1, <1>2, <1>3, <1>4, <1>5, <1>6, <1>7, <1>8, <1>9, <1>10, <1>11,
     <1>12, <1>13, <1>14, <1>15, <1>16, <1>17, <1>18, <1>19, <1>20, <1>21,
     <1>22, <1>23, <1>24, <1>25 DEF Next, Step, Finished

(* The parts above make IInv an invariant of every step.                   *)
LEMMA IInvStep == IInv /\ [Next]_vars => IInv'
  BY TypeStep, DistinctStep, FreshStep, IdentifiedStep DEF IInv

LEMMA IInvInit == Init => IInv
  BY PublishAssumption DEF Init, IInv, TypeOK, Slot, PC, Content, Error, Distinct,
     FreshIsEmpty, HasName, Identified, Exchanged

(* Names are distinct, what has content has a name, and the identities a   *)
(* publisher relies on are right at the steps that use them.               *)
THEOREM IInvCorrect == Spec => []IInv
  BY IInvInit, IInvStep, PTL DEF Spec

-----------------------------------------------------------------------------
(* What follows from it.                                                   *)

(* No publisher, however it is interrupted, loses track of a directory: a  *)
(* rename or an exchange never drops the last name of one.                 *)
THEOREM NothingIsUnlinked == Spec => NothingUnlinked
<1>1. IInv /\ [Next]_vars => [\A d \in Dir : HasName(d) => HasName(d)']_vars
  BY NamesKept
<1> QED
  BY <1>1, IInvCorrect, PTL DEF Spec, NothingUnlinked

(* A step that deletes the content of a directory is the discard of a      *)
(* publisher's own staging directory, or the clearing of a dump it         *)
(* replaced with --force.                                                  *)
LEMMA EmptiedJustified ==
    ASSUME IInv, [Next]_vars, NEW d \in Dir, Emptied(d)
    PROVE  \E p \in Publisher :
              \/ d = own[p] /\ discard[p] = d
              \/ d = opened[p] /\ cleanup[p] = d /\ force[p] /\ content[d] = "complete"
<1> DEFINE Justified ==
       \E p \in Publisher :
          \/ d = own[p] /\ discard[p] = d
          \/ d = opened[p] /\ cleanup[p] = d /\ force[p] /\ content[d] = "complete"
<1> USE PublishAssumption DEF IInv, TypeOK, Slot, PC, Content, Error, names,
      flags, ids, Goto, Emptied, FreshIsEmpty, Fresh, HasName, Identified
<1>1. ASSUME NEW p \in Publisher, Begin(p) PROVE Justified
  BY <1>1 DEF Begin, Create, Fail, Stopped, IOFault
<1>2. ASSUME NEW p \in Publisher, WriteFiles(p) PROVE Justified
  BY <1>2 DEF WriteFiles, Create, Fail, Stopped, IOFault
<1>3. ASSUME NEW p \in Publisher, WriteManifest(p) PROVE Justified
  BY <1>3 DEF WriteManifest, Create, Fail, Stopped, IOFault
<1>4. ASSUME NEW p \in Publisher, Clear(p) PROVE Justified
  BY <1>4 DEF Clear, Fail, IOFault
<1>5. ASSUME NEW p \in Publisher, Discard(p) PROVE Justified
  BY <1>5 DEF Discard, IOFault
<1>6. ASSUME NEW p \in Publisher, MeddleStaging(p) PROVE Justified
  BY <1>6 DEF MeddleStaging, Meddle, InsertFile
<1>7. CASE MeddleTarget
  BY <1>7 DEF MeddleTarget, Meddle, InsertFile
<1>8. CASE UNCHANGED content
  BY <1>8
<1>9. ASSUME NEW p \in Publisher,
               Validate(p) \/ RenameNoReplace(p) \/ Inspect(p) \/ Recheck(p)
               \/ Exchange(p) \/ Verify(p) \/ Quarantine(p) \/
               CheckQuarantine(p) \/ Restore(p) \/ Rollback(p) \/
               RollbackExchange(p) \/ Cleanup(p) \/ Relocate(p) \/
               CheckDiscard(p) \/ Undiscard(p) \/ Cancel(p) \/ Crash(p)
      PROVE  UNCHANGED content
  BY <1>9 DEF Validate, RenameNoReplace, Inspect, Recheck, Exchange, Verify,
     Quarantine, CheckQuarantine, Restore, Rollback, RollbackExchange,
     Cleanup, Relocate, CheckDiscard, Undiscard, Cancel, Crash
<1>10. CASE UNCHANGED vars
  BY <1>10 DEF vars
<1> QED
  BY <1>1, <1>2, <1>3, <1>4, <1>5, <1>6, <1>7, <1>8, <1>9, <1>10 DEF Next,
     Step, Finished

(* Nothing else than a publisher's own staging directory and, with         *)
(* --force, a complete dump it replaced is ever deleted, and only under a  *)
(* quarantine path.                                                        *)
THEOREM OnlyReplacedDumpsAreDeleted == Spec => OnlyReplacedDumpsDeleted
<1> DEFINE Justified(d) ==
       \E p \in Publisher :
          \/ d = own[p] /\ discard[p] = d
          \/ d = opened[p] /\ cleanup[p] = d /\ force[p] /\ content[d] = "complete"
<1>1. IInv /\ [Next]_vars => [\A d \in Dir : Emptied(d) => Justified(d)]_vars
  BY EmptiedJustified
<1> QED
  BY <1>1, IInvCorrect, PTL DEF Spec, OnlyReplacedDumpsDeleted

(* Nothing is lost but what a run staged or was told to replace.           *)
THEOREM NothingElseIsEverLost == Spec => NothingElseIsLost
BY NothingIsUnlinked, OnlyReplacedDumpsAreDeleted DEF NothingElseIsLost

(* No step of a publisher, and no crash, takes the directory at the        *)
(* destination away without putting another one there.                     *)
THEOREM DestinationNeverAbsent == Spec => NeverAbsent
<1>1. TypeOK /\ [Next]_vars => [target # None /\ target' = None => meddled' # meddled]_vars
  <2> SUFFICES ASSUME TypeOK, Next, target # None, target' = None
               PROVE  meddled' # meddled
    OBVIOUS
  <2>1. ASSUME NEW p \in Publisher, Exchange(p) \/ RollbackExchange(p) PROVE FALSE
    BY <2>1 DEF Exchange, RollbackExchange, CanSwap, Swap, names
  <2>2. ASSUME NEW p \in Publisher, RenameNoReplace(p) PROVE FALSE
    BY <2>2 DEF RenameNoReplace, names
  <2>3. CASE MeddleTarget \/ \E p \in Publisher : MeddleStaging(p)
    BY <2>3 DEF MeddleTarget, MeddleStaging, Meddle, TypeOK
  <2>4. CASE target' = target
    BY <2>4
  <2>5. ASSUME NEW p \in Publisher,
               \/ Begin(p) \/ WriteFiles(p) \/ WriteManifest(p) \/ Validate(p)
               \/ Inspect(p) \/ Recheck(p) \/ Verify(p) \/ Quarantine(p)
               \/ CheckQuarantine(p) \/ Restore(p) \/ Clear(p) \/ Rollback(p)
               \/ Cleanup(p) \/ Relocate(p) \/ CheckDiscard(p) \/ Discard(p)
               \/ Undiscard(p) \/ Cancel(p) \/ Crash(p)
        PROVE  target' = target
    BY <2>5 DEF Begin, WriteFiles, WriteManifest, Validate, Inspect, Recheck,
       Verify, Quarantine, CheckQuarantine, Restore, Clear, Rollback, Cleanup,
       Relocate, CheckDiscard, Discard, Undiscard, Cancel, Crash, names
  <2>6. CASE UNCHANGED vars
    BY <2>6 DEF vars, names
  <2> QED
    BY <2>1, <2>2, <2>3, <2>4, <2>5, <2>6 DEF Next, Step, Finished
<1> QED
  BY <1>1, TypeCorrect, PTL DEF Spec, NeverAbsent

-----------------------------------------------------------------------------
(* The destination shows whole dumps only.                                 *)

(* What moves to the destination was validated, and nobody has written to  *)
(* it since.                                                               *)
LEMMA WholeStep ==
    ASSUME IInv, WholeWhereSeen, "swapStaging" \notin Faults, [Next]_vars
    PROVE  WholeWhereSeen'
<1> USE PublishAssumption DEF IInv, TypeOK, Slot, PC, Content, Error, names,
      flags, ids, Goto, Fresh, HasName, Distinct, FreshIsEmpty, Identified,
      Exchanged, WholeWhereSeen, WholeTarget
<1>1. ASSUME NEW p \in Publisher, Begin(p) PROVE WholeWhereSeen'
  BY <1>1 DEF Begin, Create, Fail, Stopped, IOFault
<1>2. ASSUME NEW p \in Publisher, WriteFiles(p) PROVE WholeWhereSeen'
  BY <1>2 DEF WriteFiles, Create, Fail, Stopped, IOFault
<1>3. ASSUME NEW p \in Publisher, WriteManifest(p) PROVE WholeWhereSeen'
  BY <1>3 DEF WriteManifest, Create, Fail, Stopped, IOFault
<1>4. ASSUME NEW p \in Publisher, Validate(p) PROVE WholeWhereSeen'
  BY <1>4 DEF Validate, Fail, Stopped, IOFault
<1>5. ASSUME NEW p \in Publisher, RenameNoReplace(p) PROVE WholeWhereSeen'
  BY <1>5 DEF RenameNoReplace, Fail, Stopped, IOFault
<1>6. ASSUME NEW p \in Publisher, Inspect(p) PROVE WholeWhereSeen'
  BY <1>6 DEF Inspect, Fail, Stopped, IOFault
<1>7. ASSUME NEW p \in Publisher, Recheck(p) PROVE WholeWhereSeen'
  BY <1>7 DEF Recheck, Fail, Stopped, IOFault
<1>8. ASSUME NEW p \in Publisher, Exchange(p) PROVE WholeWhereSeen'
  BY <1>8 DEF Exchange, Fail, Stopped, IOFault, CanSwap, Swap
<1>9. ASSUME NEW p \in Publisher, Verify(p) PROVE WholeWhereSeen'
  BY <1>9 DEF Verify, Fail, Stopped, IOFault, Unchanged
<1>10. ASSUME NEW p \in Publisher, Quarantine(p) PROVE WholeWhereSeen'
  BY <1>10 DEF Quarantine, IOFault
<1>11. ASSUME NEW p \in Publisher, CheckQuarantine(p) PROVE WholeWhereSeen'
  BY <1>11 DEF CheckQuarantine, Stopped, IOFault, Unchanged
<1>12. ASSUME NEW p \in Publisher, Restore(p) PROVE WholeWhereSeen'
  BY <1>12 DEF Restore, Fail, IOFault
<1>13. ASSUME NEW p \in Publisher, Clear(p) PROVE WholeWhereSeen'
  BY <1>13 DEF Clear, Fail, IOFault
<1>14. ASSUME NEW p \in Publisher, Rollback(p) PROVE WholeWhereSeen'
  BY <1>14 DEF Rollback, Fail
<1>15. ASSUME NEW p \in Publisher, RollbackExchange(p) PROVE WholeWhereSeen'
  BY <1>15 DEF RollbackExchange, Fail, IOFault, CanSwap, Swap
<1>16. ASSUME NEW p \in Publisher, Cleanup(p) PROVE WholeWhereSeen'
  BY <1>16 DEF Cleanup, IOFault
<1>17. ASSUME NEW p \in Publisher, Relocate(p) PROVE WholeWhereSeen'
  BY <1>17 DEF Relocate, IOFault
<1>18. ASSUME NEW p \in Publisher, CheckDiscard(p) PROVE WholeWhereSeen'
  BY <1>18 DEF CheckDiscard, IOFault
<1>19. ASSUME NEW p \in Publisher, Discard(p) PROVE WholeWhereSeen'
  BY <1>19 DEF Discard, IOFault
<1>20. ASSUME NEW p \in Publisher, Undiscard(p) PROVE WholeWhereSeen'
  BY <1>20 DEF Undiscard, IOFault
<1>21. ASSUME NEW p \in Publisher, Cancel(p) PROVE WholeWhereSeen'
  BY <1>21 DEF Cancel
<1>22. ASSUME NEW p \in Publisher, Crash(p) PROVE WholeWhereSeen'
  BY <1>22 DEF Crash
<1>23. ASSUME NEW p \in Publisher, MeddleStaging(p) PROVE WholeWhereSeen'
  BY <1>23 DEF MeddleStaging, Meddle, InsertFile
<1>24. CASE MeddleTarget
  BY <1>24 DEF MeddleTarget, Meddle, InsertFile
<1>25. CASE UNCHANGED vars
  BY <1>25 DEF vars
<1> QED
  BY <1>1, <1>2, <1>3, <1>4, <1>5, <1>6, <1>7, <1>8, <1>9, <1>10, <1>11,
     <1>12, <1>13, <1>14, <1>15, <1>16, <1>17, <1>18, <1>19, <1>20, <1>21,
     <1>22, <1>23, <1>24, <1>25 DEF Next, Step, Finished

(* From its validation on, what a publisher has under its staging path,    *)
(* and what it may put back from quarantine, is not half a dump, as long   *)
(* as the outside program leaves the staging paths in place.               *)
THEOREM PublishedIsWhole ==
    ASSUME "swapStaging" \notin Faults
    PROVE  Spec => []WholeWhereSeen
<1>1. Init => WholeWhereSeen
  BY PublishAssumption DEF Init, WholeWhereSeen, WholeTarget, Content, Exchanged
<1>2. IInv /\ WholeWhereSeen /\ [Next]_vars => WholeWhereSeen'
  BY WholeStep
<1> QED
  BY <1>1, <1>2, IInvCorrect, PTL DEF Spec

(* If the outside program leaves the staging paths in place, the           *)
(* destination holds no half-written and no half-deleted dump at any step, *)
(* whoever is canceled or killed, and whoever races.                       *)
THEOREM DestinationWhole ==
    ASSUME "swapStaging" \notin Faults
    PROVE  Spec => []WholeTarget
<1>1. WholeWhereSeen => WholeTarget
  BY DEF WholeWhereSeen
<1> QED
  BY <1>1, PublishedIsWhole, PTL

-----------------------------------------------------------------------------
(* Racing publishers.  StagingHeld and ErrorsHeld hold as long as nobody   *)
(* else moves a staging path, OneEmptyDestination if nobody moves the      *)
(* destination either, Reported if nobody else touches anything.           *)

(* The outside program does nothing of kind f.                             *)
LeftAlone(f) == f \notin Faults \/ MaxMeddling = 0

Building   == {"write", "manifest", "validate"}
Publishing == {"rename", "renameAgain", "inspect", "recheck", "exchange"}

(* What is under the hidden names of a publisher: its own dump up to the   *)
(* exchange and when it is relocated, the directory it opened between the  *)
(* verification and the rollback.                                          *)
StagingHeld ==
    \A p \in Publisher :
        /\ pc[p] = "begin" => own[p] = None
        /\ pc[p] \in Building \cup Publishing => own[p] # None /\ staging[p] = own[p]
        /\ pc[p] = "relocate" => staging[p] = own[p]
        /\ pc[p] \in {"exchange"} \cup Exchanged => staged[p] = own[p]
        /\ pc[p] \in {"quarantine", "rollback", "rollbackExchange"} => staging[p] = opened[p]
        /\ cleanup[p] # None => cleanup[p] = opened[p]
        /\ discard[p] # None => discard[p] = own[p]

(* An error is set on the way out and not before, and whoever leaves with  *)
(* an ordinary failure has its dump under a hidden name of its own.        *)
ErrorsHeld ==
    \A p \in Publisher :
        /\ pc[p] \notin Leaving \cup {"killed"} => err[p] = "nil"
        /\ pc[p] \in Leaving \ {"done"} => err[p] # "nil"
        /\ pc[p] \in Leaving /\ err[p] \in {"failed", "overwrite"} /\ own[p] # None
              => own[p] \in {staging[p], discard[p]}

Owned(d) == \E p \in Publisher : own[p] = d

(* The directories that are, or may yet be put back, at the destination.   *)
Seen(d) ==
    \/ d = target
    \/ \E q \in Publisher :
          \/ pc[q] \in Publishing \cup Exchanged /\ staging[q] = d
          \/ pc[q] \in {"requarantine", "restore"} /\ cleanup[q] = d

(* A publisher that succeeded by the rename.                               *)
Renamed(p) == Ended(p) /\ err[p] = "nil" /\ opened[p] = None

(* The directories publishers know have names, and no two publishers own   *)
(* the same one.                                                           *)
NamesKnown ==
    \A p \in Publisher :
        /\ \A d \in Dir : d \in {own[p], opened[p]} => HasName(d)
        /\ \A q \in Publisher : own[p] # None /\ own[p] = own[q] => p = q

(* At most one directory is there from before, none if the destination was *)
(* absent.                                                                 *)
OneFromBefore ==
    \A d \in Dir : HasName(d) =>
        /\ d = Original \/ Owned(d)
        /\ target = None => Owned(d)
        /\ \A p \in Publisher : Renamed(p) => Owned(d)

(* A directory without files at the destination is the one from before:    *)
(* no publisher ever installs an empty one.                                *)
EmptyFromBefore ==
    /\ \A d \in Dir : Seen(d) /\ content[d] = "empty" => ~Owned(d)
    /\ \A p \in Publisher : \A d \in Dir : d = opened[p] /\ ~hadFiles[p] => ~Owned(d)

(* Success by the exchange keeps the replaced directory in quarantine for  *)
(* good; success by the rename happens once.                               *)
Won ==
    \A p \in Publisher :
        /\ pc[p] \in Building \cup {"begin", "rename", "renameAgain", "inspect"} => opened[p] = None
        /\ Ended(p) /\ err[p] = "nil" /\ opened[p] # None => cleanup[p] = opened[p]
        /\ Renamed(p) =>
              /\ target # None
              /\ \A q \in Publisher : Renamed(q) => p = q

OneEmptyDestination == NamesKnown /\ OneFromBefore /\ EmptyFromBefore /\ Won

(* From its validation on the dump of a publisher is what its manifest     *)
(* says wherever it may be seen; once installed it is at the destination   *)
(* or with another publisher, and only --force opens it to replace it.     *)
Reported ==
    /\ \A p \in Publisher :
        /\ pc[p] = "write" => content[own[p]] = "empty"
        /\ pc[p] = "manifest" => content[own[p]] = "unfinished"
        /\ pc[p] \in {"validate"} \cup Publishing => content[own[p]] = status[p]
        /\ target = own[p] /\ own[p] # None => content[own[p]] = status[p]
        /\ pc[p] \in Exchanged \/ (Ended(p) /\ err[p] = "nil") =>
              /\ own[p] # None
              /\ \/ target = own[p]
                 \/ \E q \in Publisher \ {p} : staging[q] = own[p] \/ cleanup[q] = own[p]
    /\ \A p \in Publisher : \A q \in Publisher \ {p} :
        own[p] # None =>
          /\ staging[q] = own[p] => content[own[p]] = status[p]
          /\ pc[q] \in {"requarantine", "restore"} /\ cleanup[q] = own[p] => content[own[p]] = status[p]
          /\ opened[q] = own[p] => force[q] /\ status[p] = "complete"

(* Only its publisher renames to or from a staging path, and it checks     *)
(* what it finds there first.                                              *)
LEMMA StagingHeldStep ==
    ASSUME IInv, StagingHeld, LeftAlone("swapStaging"), [Next]_vars
    PROVE  StagingHeld'
<1> USE PublishAssumption DEF IInv, TypeOK, Slot, PC, Content, Error, names,
       flags, ids, Goto, Identified, Exchanged, Leaving, Building,
       Publishing, StagingHeld
<1>1. ASSUME NEW p \in Publisher, Begin(p) PROVE StagingHeld'
  BY <1>1 DEF Begin, Create, Fail, Stopped, IOFault
<1>2. ASSUME NEW p \in Publisher, WriteFiles(p) PROVE StagingHeld'
  BY <1>2 DEF WriteFiles, Create, Fail, Stopped, IOFault
<1>3. ASSUME NEW p \in Publisher, WriteManifest(p) PROVE StagingHeld'
  BY <1>3 DEF WriteManifest, Create, Fail, Stopped, IOFault
<1>4. ASSUME NEW p \in Publisher, Validate(p) PROVE StagingHeld'
  BY <1>4 DEF Validate, Fail, Stopped, IOFault
<1>5. ASSUME NEW p \in Publisher, RenameNoReplace(p) PROVE StagingHeld'
  BY <1>5 DEF RenameNoReplace, Fail, Stopped, IOFault
<1>6. ASSUME NEW p \in Publisher, Inspect(p) PROVE StagingHeld'
  BY <1>6 DEF Inspect, Fail, Stopped, IOFault
<1>7. ASSUME NEW p \in Publisher, Recheck(p) PROVE StagingHeld'
  BY <1>7 DEF Recheck, Fail, Stopped, IOFault
<1>8. ASSUME NEW p \in Publisher, Exchange(p) PROVE StagingHeld'
  BY <1>8 DEF Exchange, Fail, Stopped, IOFault, CanSwap, Swap
<1>9. ASSUME NEW p \in Publisher, Verify(p) PROVE StagingHeld'
  BY <1>9 DEF Verify, Fail, Stopped, IOFault, Unchanged
<1>10. ASSUME NEW p \in Publisher, Quarantine(p) PROVE StagingHeld'
  BY <1>10 DEF Quarantine, IOFault
<1>11. ASSUME NEW p \in Publisher, CheckQuarantine(p) PROVE StagingHeld'
  BY <1>11 DEF CheckQuarantine, Stopped, IOFault, Unchanged
<1>12. ASSUME NEW p \in Publisher, Restore(p) PROVE StagingHeld'
  BY <1>12 DEF Restore, Fail, IOFault
<1>13. ASSUME NEW p \in Publisher, Clear(p) PROVE StagingHeld'
  BY <1>13 DEF Clear, Fail, IOFault
<1>14. ASSUME NEW p \in Publisher, Rollback(p) PROVE StagingHeld'
  BY <1>14 DEF Rollback, Fail
<1>15. ASSUME NEW p \in Publisher, RollbackExchange(p) PROVE StagingHeld'
  BY <1>15 DEF RollbackExchange, Fail, IOFault, CanSwap, Swap
<1>16. ASSUME NEW p \in Publisher, Cleanup(p) PROVE StagingHeld'
  BY <1>16 DEF Cleanup, IOFault
<1>17. ASSUME NEW p \in Publisher, Relocate(p) PROVE StagingHeld'
  BY <1>17 DEF Relocate, IOFault
<1>18. ASSUME NEW p \in Publisher, CheckDiscard(p) PROVE StagingHeld'
  BY <1>18 DEF CheckDiscard, IOFault
<1>19. ASSUME NEW p \in Publisher, Discard(p) PROVE StagingHeld'
  BY <1>19 DEF Discard, IOFault
<1>20. ASSUME NEW p \in Publisher, Undiscard(p) PROVE StagingHeld'
  BY <1>20 DEF Undiscard, IOFault
<1>21. ASSUME NEW p \in Publisher, Cancel(p) PROVE StagingHeld'
  BY <1>21 DEF Cancel
<1>22. ASSUME NEW p \in Publisher, Crash(p) PROVE StagingHeld'
  BY <1>22 DEF Crash
<1>23. ASSUME NEW p \in Publisher, MeddleStaging(p) PROVE StagingHeld'
  BY <1>23 DEF MeddleStaging, Meddle, InsertFile, LeftAlone
<1>24. CASE MeddleTarget
  BY <1>24 DEF MeddleTarget, Meddle, InsertFile, LeftAlone
<1>25. CASE UNCHANGED vars
  BY <1>25 DEF vars
<1> QED
  BY <1>1, <1>2, <1>3, <1>4, <1>5, <1>6, <1>7, <1>8, <1>9, <1>10, <1>11,
     <1>12, <1>13, <1>14, <1>15, <1>16, <1>17, <1>18, <1>19, <1>20, <1>21,
     <1>22, <1>23, <1>24, <1>25 DEF Next, Step, Finished

(* An error is set where the publication is left; an ordinary one before   *)
(* the exchange or after it is undone.                                     *)
LEMMA ErrorsHeldStep ==
    ASSUME IInv, StagingHeld, ErrorsHeld, LeftAlone("swapStaging"), [Next]_vars
    PROVE  ErrorsHeld'
<1> USE PublishAssumption DEF IInv, TypeOK, Slot, PC, Content, Error, names,
       flags, ids, Goto, Identified, Exchanged, Leaving, Building,
       Publishing, StagingHeld, ErrorsHeld
<1>1. ASSUME NEW p \in Publisher, Begin(p) PROVE ErrorsHeld'
  BY <1>1 DEF Begin, Create, Fail, Stopped, IOFault
<1>2. ASSUME NEW p \in Publisher, WriteFiles(p) PROVE ErrorsHeld'
  BY <1>2 DEF WriteFiles, Create, Fail, Stopped, IOFault
<1>3. ASSUME NEW p \in Publisher, WriteManifest(p) PROVE ErrorsHeld'
  BY <1>3 DEF WriteManifest, Create, Fail, Stopped, IOFault
<1>4. ASSUME NEW p \in Publisher, Validate(p) PROVE ErrorsHeld'
  BY <1>4 DEF Validate, Fail, Stopped, IOFault
<1>5. ASSUME NEW p \in Publisher, RenameNoReplace(p) PROVE ErrorsHeld'
  BY <1>5 DEF RenameNoReplace, Fail, Stopped, IOFault
<1>6. ASSUME NEW p \in Publisher, Inspect(p) PROVE ErrorsHeld'
  BY <1>6 DEF Inspect, Fail, Stopped, IOFault
<1>7. ASSUME NEW p \in Publisher, Recheck(p) PROVE ErrorsHeld'
  BY <1>7 DEF Recheck, Fail, Stopped, IOFault
<1>8. ASSUME NEW p \in Publisher, Exchange(p) PROVE ErrorsHeld'
  BY <1>8 DEF Exchange, Fail, Stopped, IOFault, CanSwap, Swap
<1>9. ASSUME NEW p \in Publisher, Verify(p) PROVE ErrorsHeld'
  BY <1>9 DEF Verify, Fail, Stopped, IOFault, Unchanged
<1>10. ASSUME NEW p \in Publisher, Quarantine(p) PROVE ErrorsHeld'
  BY <1>10 DEF Quarantine, IOFault
<1>11. ASSUME NEW p \in Publisher, CheckQuarantine(p) PROVE ErrorsHeld'
  BY <1>11 DEF CheckQuarantine, Stopped, IOFault, Unchanged
<1>12. ASSUME NEW p \in Publisher, Restore(p) PROVE ErrorsHeld'
  BY <1>12 DEF Restore, Fail, IOFault
<1>13. ASSUME NEW p \in Publisher, Clear(p) PROVE ErrorsHeld'
  BY <1>13 DEF Clear, Fail, IOFault
<1>14. ASSUME NEW p \in Publisher, Rollback(p) PROVE ErrorsHeld'
  BY <1>14 DEF Rollback, Fail
<1>15. ASSUME NEW p \in Publisher, RollbackExchange(p) PROVE ErrorsHeld'
  BY <1>15 DEF RollbackExchange, Fail, IOFault, CanSwap, Swap
<1>16. ASSUME NEW p \in Publisher, Cleanup(p) PROVE ErrorsHeld'
  BY <1>16 DEF Cleanup, IOFault
<1>17. ASSUME NEW p \in Publisher, Relocate(p) PROVE ErrorsHeld'
  BY <1>17 DEF Relocate, IOFault
<1>18. ASSUME NEW p \in Publisher, CheckDiscard(p) PROVE ErrorsHeld'
  BY <1>18 DEF CheckDiscard, IOFault
<1>19. ASSUME NEW p \in Publisher, Discard(p) PROVE ErrorsHeld'
  BY <1>19 DEF Discard, IOFault
<1>20. ASSUME NEW p \in Publisher, Undiscard(p) PROVE ErrorsHeld'
  BY <1>20 DEF Undiscard, IOFault
<1>21. ASSUME NEW p \in Publisher, Cancel(p) PROVE ErrorsHeld'
  BY <1>21 DEF Cancel
<1>22. ASSUME NEW p \in Publisher, Crash(p) PROVE ErrorsHeld'
  BY <1>22 DEF Crash
<1>23. ASSUME NEW p \in Publisher, MeddleStaging(p) PROVE ErrorsHeld'
  BY <1>23 DEF MeddleStaging, Meddle, InsertFile, LeftAlone
<1>24. CASE MeddleTarget
  BY <1>24 DEF MeddleTarget, Meddle, InsertFile, LeftAlone
<1>25. CASE UNCHANGED vars
  BY <1>25 DEF vars
<1> QED
  BY <1>1, <1>2, <1>3, <1>4, <1>5, <1>6, <1>7, <1>8, <1>9, <1>10, <1>11,
     <1>12, <1>13, <1>14, <1>15, <1>16, <1>17, <1>18, <1>19, <1>20, <1>21,
     <1>22, <1>23, <1>24, <1>25 DEF Next, Step, Finished

(* What StagingHeld and ErrorsHeld say of failures: FailedNotInstalled,    *)
(* whatever is killed, inserted, or done to the destination.               *)
LEMMA FailuresAreNotInstalled ==
    ASSUME IInv, ErrorsHeld
    PROVE  FailedNotInstalled
  BY PublishAssumption DEF IInv, TypeOK, Slot, Distinct, ErrorsHeld,
     FailedNotInstalled, Ended, Leaving

(* A publisher comes to own a directory only by creating it.               *)
LEMMA OwnStep ==
    ASSUME IInv, StagingHeld, [Next]_vars, NEW q \in Publisher,
           own'[q] # own[q]
    PROVE  /\ own[q] = None
           /\ own'[q] \in Dir
           /\ ~HasName(own'[q])
           /\ staging'[q] = own'[q]
           /\ \A r \in Publisher \ {q} : own'[r] = own[r]
           /\ UNCHANGED <<target, opened, hadFiles>>
           /\ pc'[q] \notin Publishing \cup Exchanged
           /\ \A r \in Publisher \ {q} : pc'[r] = pc[r] /\ staging'[r] = staging[r] /\ cleanup'[r] = cleanup[r]
<1> USE PublishAssumption DEF IInv, TypeOK, Slot, names, flags, ids, Goto
<1>1. \E p \in Publisher : Begin(p)
  <2>1. ASSUME NEW p \in Publisher, Step(p), ~Begin(p) PROVE own' = own
    BY <2>1 DEF Step, WriteFiles, WriteManifest, Validate, RenameNoReplace,
       Inspect, Recheck, Exchange, Verify, Quarantine, CheckQuarantine,
       Restore, Clear, Rollback, RollbackExchange, Cleanup, Relocate,
       CheckDiscard, Discard, Undiscard
  <2>2. ASSUME NEW p \in Publisher, Cancel(p) \/ Crash(p) \/ MeddleStaging(p) PROVE own' = own
    BY <2>2 DEF Cancel, Crash, MeddleStaging, Meddle
  <2>3. CASE MeddleTarget
    BY <2>3 DEF MeddleTarget, Meddle
  <2>4. CASE UNCHANGED vars
    BY <2>4 DEF vars
  <2> QED
    BY <2>1, <2>2, <2>3, <2>4 DEF Next, Finished
<1>2. PICK p \in Publisher : Begin(p)
  BY <1>1
<1>3. p = q /\ pc[p] = "begin"
  BY <1>2 DEF Begin
<1> QED
  BY <1>2, <1>3 DEF Begin, Create, Fail, Stopped, IOFault, StagingHeld,
     Fresh, Publishing, Exchanged

(* It opens only what is at the destination when it inspects it.           *)
LEMMA OpenedStep ==
    ASSUME IInv, [Next]_vars, NEW q \in Publisher,
           opened'[q] # opened[q] \/ hadFiles'[q] # hadFiles[q]
    PROVE  /\ pc[q] = "inspect"
           /\ pc'[q] = "recheck"
           /\ target \in Dir
           /\ opened' = [opened EXCEPT ![q] = target]
           /\ hadFiles'[q] \/ content[target] = "empty"
           /\ UNCHANGED <<own, names, content>>
<1> USE PublishAssumption DEF IInv, TypeOK, Slot, names, flags, ids, Goto
<1>1. \E p \in Publisher : Inspect(p)
  <2>1. ASSUME NEW p \in Publisher, Step(p), ~Inspect(p) PROVE opened' = opened /\ hadFiles' = hadFiles
    BY <2>1 DEF Step, Begin, WriteFiles, WriteManifest, Validate,
       RenameNoReplace, Recheck, Exchange, Verify, Quarantine,
       CheckQuarantine, Restore, Clear, Rollback, RollbackExchange, Cleanup,
       Relocate, CheckDiscard, Discard, Undiscard
  <2>2. ASSUME NEW p \in Publisher, Cancel(p) \/ Crash(p) \/ MeddleStaging(p)
        PROVE  opened' = opened /\ hadFiles' = hadFiles
    BY <2>2 DEF Cancel, Crash, MeddleStaging, Meddle
  <2>3. CASE MeddleTarget
    BY <2>3 DEF MeddleTarget, Meddle
  <2>4. CASE UNCHANGED vars
    BY <2>4 DEF vars
  <2> QED
    BY <2>1, <2>2, <2>3, <2>4 DEF Next, Finished
<1>2. PICK p \in Publisher : Inspect(p)
  BY <1>1
<1> QED
  BY <1>2 DEF Inspect, Fail, Stopped, IOFault

(* It succeeds by the rename only if nothing was at the destination.       *)
LEMMA RenamedStep ==
    ASSUME IInv, StagingHeld, ErrorsHeld, [Next]_vars, NEW q \in Publisher,
           Renamed(q)', ~Renamed(q)
    PROVE  /\ target = None
           /\ target' # None
           /\ \A r \in Publisher \ {q} : Renamed(r)' => Renamed(r)
<1> USE PublishAssumption DEF IInv, TypeOK, Slot, names, flags, ids, Goto, Renamed, Ended
<1>1. \E p \in Publisher : RenameNoReplace(p)
  <2>1. ASSUME NEW p \in Publisher, Step(p), ~RenameNoReplace(p) PROVE FALSE
    <3>1. q = p /\ opened'[q] = None /\ err'[q] = "nil" /\ pc'[q] = "done"
      BY <2>1 DEF Step, Begin, WriteFiles, WriteManifest, Validate, Inspect,
         Recheck, Exchange, Verify, Quarantine, CheckQuarantine, Restore,
         Clear, Rollback, RollbackExchange, Cleanup, Relocate, CheckDiscard,
         Discard, Undiscard, Fail
    <3> QED
      BY <2>1, <3>1 DEF Step, Begin, WriteFiles, WriteManifest, Validate,
         Inspect, Recheck, Exchange, Verify, Quarantine, CheckQuarantine,
         Restore, Clear, Rollback, RollbackExchange, Cleanup, Relocate,
         CheckDiscard, Discard, Undiscard, Fail, ErrorsHeld, Identified,
         Exchanged, Leaving
  <2>2. ASSUME NEW p \in Publisher, Cancel(p) \/ Crash(p) \/ MeddleStaging(p) PROVE FALSE
    BY <2>2 DEF Cancel, Crash, MeddleStaging, Meddle
  <2>3. CASE MeddleTarget
    BY <2>3 DEF MeddleTarget, Meddle
  <2>4. CASE UNCHANGED vars
    BY <2>4 DEF vars
  <2> QED
    BY <2>1, <2>2, <2>3, <2>4 DEF Next, Finished
<1>2. PICK p \in Publisher : RenameNoReplace(p)
  BY <1>1
<1> QED
  BY <1>2 DEF RenameNoReplace, Fail, Stopped, IOFault

(* Known directories keep their names, and new ones are new.               *)
LEMMA NamesKnownStep ==
    ASSUME IInv, StagingHeld, NamesKnown, [Next]_vars
    PROVE  NamesKnown'
<1> USE PublishAssumption DEF IInv, TypeOK, Slot
<1>0. TypeOK'
  BY TypeStep
<1>1. ASSUME NEW p \in Publisher, NEW d \in Dir, d = own'[p] PROVE HasName(d)'
  <2>1. CASE own'[p] = own[p]
    BY <2>1, <1>1, NamesKept DEF NamesKnown
  <2>2. CASE own'[p] # own[p]
    BY <2>2, <1>1, OwnStep DEF HasName
  <2> QED
    BY <2>1, <2>2
<1>2. ASSUME NEW p \in Publisher, NEW d \in Dir, d = opened'[p]
      PROVE  HasName(d)'
  <2>1. CASE opened'[p] = opened[p]
    BY <2>1, <1>2, NamesKept DEF NamesKnown
  <2>2. CASE opened'[p] # opened[p]
    BY <2>2, <1>2, OpenedStep DEF HasName, names
  <2> QED
    BY <2>1, <2>2
<1>3. ASSUME NEW p \in Publisher, NEW q \in Publisher, own'[p] # None, own'[p] = own'[q]
      PROVE  p = q
  <2>0. own[p] \in Slot /\ own[q] \in Slot
    OBVIOUS
  <2>1. CASE own'[p] # own[p]
    BY <2>0, <2>1, <1>3, OwnStep DEF NamesKnown
  <2>2. CASE own'[q] # own[q]
    BY <2>0, <2>2, <1>3, OwnStep DEF NamesKnown
  <2> QED
    BY <2>1, <2>2, <1>3 DEF NamesKnown
<1> QED
  BY <1>1, <1>2, <1>3 DEF NamesKnown

(* Nobody but the outside program takes the destination away.              *)
LEMMA StaysPresent ==
    ASSUME TypeOK, LeftAlone("swapTarget"), [Next]_vars, target # None
    PROVE  target' # None
<1>1. ASSUME NEW p \in Publisher, Step(p) \/ Cancel(p) \/ Crash(p) \/ MeddleStaging(p)
      PROVE  target' # None
  BY <1>1 DEF Step, Begin, WriteFiles, WriteManifest, Validate,
     RenameNoReplace, Inspect, Recheck, Exchange, Verify, Quarantine,
     CheckQuarantine, Restore, Clear, Rollback, RollbackExchange, Cleanup,
     Relocate, CheckDiscard, Discard, Undiscard, CanSwap, Swap, names,
     Cancel, Crash, MeddleStaging, Meddle, InsertFile, LeftAlone
<1>2. CASE MeddleTarget
  BY <1>2, PublishAssumption DEF MeddleTarget, Meddle, InsertFile, LeftAlone,
     TypeOK
<1>3. CASE UNCHANGED vars
  BY <1>3 DEF vars, names
<1> QED
  BY <1>1, <1>2, <1>3 DEF Next, Finished

(* What gets its first name was created by a publisher that owns it.       *)
LEMMA NewNames ==
    ASSUME IInv, StagingHeld, LeftAlone("swapStaging"),
           LeftAlone("swapTarget"), [Next]_vars, NEW d \in Dir, HasName(d)',
           ~HasName(d)
    PROVE  Owned(d)'
<1> USE PublishAssumption DEF IInv, TypeOK, Slot, PC, Content, Error, names,
       flags, ids, Goto, HasName, Owned, Identified, Exchanged, Leaving,
       Building, Publishing, StagingHeld, Fresh
<1>1. ASSUME NEW p \in Publisher, Begin(p) PROVE Owned(d)'
  BY <1>1 DEF Begin, Create, Fail, Stopped, IOFault
<1>2. ASSUME NEW p \in Publisher, WriteFiles(p) PROVE Owned(d)'
  BY <1>2 DEF WriteFiles, Create, Fail, Stopped, IOFault
<1>3. ASSUME NEW p \in Publisher, WriteManifest(p) PROVE Owned(d)'
  BY <1>3 DEF WriteManifest, Create, Fail, Stopped, IOFault
<1>4. ASSUME NEW p \in Publisher, Validate(p) PROVE Owned(d)'
  BY <1>4 DEF Validate, Fail, Stopped, IOFault
<1>5. ASSUME NEW p \in Publisher, RenameNoReplace(p) PROVE Owned(d)'
  BY <1>5 DEF RenameNoReplace, Fail, Stopped, IOFault
<1>6. ASSUME NEW p \in Publisher, Inspect(p) PROVE Owned(d)'
  BY <1>6 DEF Inspect, Fail, Stopped, IOFault
<1>7. ASSUME NEW p \in Publisher, Recheck(p) PROVE Owned(d)'
  BY <1>7 DEF Recheck, Fail, Stopped, IOFault
<1>8. ASSUME NEW p \in Publisher, Exchange(p) PROVE Owned(d)'
  BY <1>8 DEF Exchange, Fail, Stopped, IOFault, CanSwap, Swap
<1>9. ASSUME NEW p \in Publisher, Verify(p) PROVE Owned(d)'
  BY <1>9 DEF Verify, Fail, Stopped, IOFault, Unchanged
<1>10. ASSUME NEW p \in Publisher, Quarantine(p) PROVE Owned(d)'
  BY <1>10 DEF Quarantine, IOFault
<1>11. ASSUME NEW p \in Publisher, CheckQuarantine(p) PROVE Owned(d)'
  BY <1>11 DEF CheckQuarantine, Stopped, IOFault, Unchanged
<1>12. ASSUME NEW p \in Publisher, Restore(p) PROVE Owned(d)'
  BY <1>12 DEF Restore, Fail, IOFault
<1>13. ASSUME NEW p \in Publisher, Clear(p) PROVE Owned(d)'
  BY <1>13 DEF Clear, Fail, IOFault
<1>14. ASSUME NEW p \in Publisher, Rollback(p) PROVE Owned(d)'
  BY <1>14 DEF Rollback, Fail
<1>15. ASSUME NEW p \in Publisher, RollbackExchange(p) PROVE Owned(d)'
  BY <1>15 DEF RollbackExchange, Fail, IOFault, CanSwap, Swap
<1>16. ASSUME NEW p \in Publisher, Cleanup(p) PROVE Owned(d)'
  BY <1>16 DEF Cleanup, IOFault
<1>17. ASSUME NEW p \in Publisher, Relocate(p) PROVE Owned(d)'
  BY <1>17 DEF Relocate, IOFault
<1>18. ASSUME NEW p \in Publisher, CheckDiscard(p) PROVE Owned(d)'
  BY <1>18 DEF CheckDiscard, IOFault
<1>19. ASSUME NEW p \in Publisher, Discard(p) PROVE Owned(d)'
  BY <1>19 DEF Discard, IOFault
<1>20. ASSUME NEW p \in Publisher, Undiscard(p) PROVE Owned(d)'
  BY <1>20 DEF Undiscard, IOFault
<1>21. ASSUME NEW p \in Publisher, Cancel(p) PROVE Owned(d)'
  BY <1>21 DEF Cancel
<1>22. ASSUME NEW p \in Publisher, Crash(p) PROVE Owned(d)'
  BY <1>22 DEF Crash
<1>23. ASSUME NEW p \in Publisher, MeddleStaging(p) PROVE Owned(d)'
  BY <1>23 DEF MeddleStaging, Meddle, InsertFile, LeftAlone
<1>24. CASE MeddleTarget
  BY <1>24 DEF MeddleTarget, Meddle, InsertFile, LeftAlone
<1>25. CASE UNCHANGED vars
  BY <1>25 DEF vars
<1> QED
  BY <1>1, <1>2, <1>3, <1>4, <1>5, <1>6, <1>7, <1>8, <1>9, <1>10, <1>11,
     <1>12, <1>13, <1>14, <1>15, <1>16, <1>17, <1>18, <1>19, <1>20, <1>21,
     <1>22, <1>23, <1>24, <1>25 DEF Next, Step, Finished

(* Ownership is for ever, and only of new directories.                     *)
LEMMA OwnedKept ==
    ASSUME IInv, StagingHeld, [Next]_vars, NEW d \in Dir
    PROVE  /\ Owned(d) => Owned(d)'
           /\ HasName(d) /\ Owned(d)' => Owned(d)
  BY OwnStep, PublishAssumption DEF Owned

(* Nothing is added to what was there before.                              *)
LEMMA OneFromBeforeStep ==
    ASSUME IInv, StagingHeld, ErrorsHeld, OneFromBefore,
           LeftAlone("swapStaging"), LeftAlone("swapTarget"), [Next]_vars
    PROVE  OneFromBefore'
<1>0. target' = None => target = None
  BY StaysPresent DEF IInv
<1> SUFFICES ASSUME NEW d \in Dir, HasName(d)'
             PROVE  /\ d = Original \/ Owned(d)'
                    /\ target' = None => Owned(d)'
                    /\ \A p \in Publisher : Renamed(p)' => Owned(d)'
  BY DEF OneFromBefore
<1>1. CASE ~HasName(d)
  BY <1>1, NewNames
<1>2. CASE HasName(d)
  <2>1. ASSUME NEW p \in Publisher, Renamed(p)' PROVE Renamed(p) \/ target = None
    BY <2>1, RenamedStep
  <2> QED
    BY <1>2, <2>1, <1>0, OwnedKept DEF OneFromBefore
<1> QED
  BY <1>1, <1>2

(* The two ways to succeed.                                                *)
LEMMA WonStep ==
    ASSUME IInv, StagingHeld, ErrorsHeld, Won, LeftAlone("swapStaging"),
           LeftAlone("swapTarget"), [Next]_vars
    PROVE  Won'
<1> USE PublishAssumption DEF IInv, TypeOK, Slot, PC, Content, Error, names,
       flags, ids, Goto, Identified, Exchanged, Leaving, Building,
       Publishing, StagingHeld, ErrorsHeld, Won, Ended, Renamed
<1>1. ASSUME NEW p \in Publisher, Begin(p) PROVE Won'
  BY <1>1 DEF Begin, Create, Fail, Stopped, IOFault
<1>2. ASSUME NEW p \in Publisher, WriteFiles(p) PROVE Won'
  BY <1>2 DEF WriteFiles, Create, Fail, Stopped, IOFault
<1>3. ASSUME NEW p \in Publisher, WriteManifest(p) PROVE Won'
  BY <1>3 DEF WriteManifest, Create, Fail, Stopped, IOFault
<1>4. ASSUME NEW p \in Publisher, Validate(p) PROVE Won'
  BY <1>4 DEF Validate, Fail, Stopped, IOFault
<1>5. ASSUME NEW p \in Publisher, RenameNoReplace(p) PROVE Won'
  BY <1>5 DEF RenameNoReplace, Fail, Stopped, IOFault
<1>6. ASSUME NEW p \in Publisher, Inspect(p) PROVE Won'
  BY <1>6 DEF Inspect, Fail, Stopped, IOFault
<1>7. ASSUME NEW p \in Publisher, Recheck(p) PROVE Won'
  BY <1>7 DEF Recheck, Fail, Stopped, IOFault
<1>8. ASSUME NEW p \in Publisher, Exchange(p) PROVE Won'
  BY <1>8 DEF Exchange, Fail, Stopped, IOFault, CanSwap, Swap
<1>9. ASSUME NEW p \in Publisher, Verify(p) PROVE Won'
  BY <1>9 DEF Verify, Fail, Stopped, IOFault, Unchanged
<1>10. ASSUME NEW p \in Publisher, Quarantine(p) PROVE Won'
  BY <1>10 DEF Quarantine, IOFault
<1>11. ASSUME NEW p \in Publisher, CheckQuarantine(p) PROVE Won'
  BY <1>11 DEF CheckQuarantine, Stopped, IOFault, Unchanged
<1>12. ASSUME NEW p \in Publisher, Restore(p) PROVE Won'
  BY <1>12 DEF Restore, Fail, IOFault
<1>13. ASSUME NEW p \in Publisher, Clear(p) PROVE Won'
  BY <1>13 DEF Clear, Fail, IOFault
<1>14. ASSUME NEW p \in Publisher, Rollback(p) PROVE Won'
  BY <1>14 DEF Rollback, Fail
<1>15. ASSUME NEW p \in Publisher, RollbackExchange(p) PROVE Won'
  BY <1>15 DEF RollbackExchange, Fail, IOFault, CanSwap, Swap
<1>16. ASSUME NEW p \in Publisher, Cleanup(p) PROVE Won'
  BY <1>16 DEF Cleanup, IOFault
<1>17. ASSUME NEW p \in Publisher, Relocate(p) PROVE Won'
  BY <1>17 DEF Relocate, IOFault
<1>18. ASSUME NEW p \in Publisher, CheckDiscard(p) PROVE Won'
  BY <1>18 DEF CheckDiscard, IOFault
<1>19. ASSUME NEW p \in Publisher, Discard(p) PROVE Won'
  BY <1>19 DEF Discard, IOFault
<1>20. ASSUME NEW p \in Publisher, Undiscard(p) PROVE Won'
  BY <1>20 DEF Undiscard, IOFault
<1>21. ASSUME NEW p \in Publisher, Cancel(p) PROVE Won'
  BY <1>21 DEF Cancel
<1>22. ASSUME NEW p \in Publisher, Crash(p) PROVE Won'
  BY <1>22 DEF Crash
<1>23. ASSUME NEW p \in Publisher, MeddleStaging(p) PROVE Won'
  BY <1>23 DEF MeddleStaging, Meddle, InsertFile, LeftAlone
<1>24. CASE MeddleTarget
  BY <1>24 DEF MeddleTarget, Meddle, InsertFile, LeftAlone
<1>25. CASE UNCHANGED vars
  BY <1>25 DEF vars
<1> QED
  BY <1>1, <1>2, <1>3, <1>4, <1>5, <1>6, <1>7, <1>8, <1>9, <1>10, <1>11,
     <1>12, <1>13, <1>14, <1>15, <1>16, <1>17, <1>18, <1>19, <1>20, <1>21,
     <1>22, <1>23, <1>24, <1>25 DEF Next, Step, Finished

(* A directory without files is not brought before the destination, nor    *)
(* made there: it has been there before the step.                          *)
LEMMA EmptySeenBefore ==
    ASSUME IInv, StagingHeld, LeftAlone("swapStaging"),
           LeftAlone("swapTarget"), [Next]_vars,
           NEW d \in Dir, Seen(d)', content'[d] = "empty"
    PROVE  Seen(d) /\ content[d] = "empty"
<1> USE PublishAssumption DEF IInv, TypeOK, Slot, PC, Content, Error, names,
       flags, ids, Goto, Identified, Exchanged, Leaving, Building,
       Publishing, StagingHeld, Fresh, Distinct, HasName, Seen
<1>1. ASSUME NEW p \in Publisher, Begin(p)
      PROVE  Seen(d) /\ content[d] = "empty"
  BY <1>1 DEF Begin, Create, Fail, Stopped, IOFault
<1>2. ASSUME NEW p \in Publisher, WriteFiles(p)
      PROVE  Seen(d) /\ content[d] = "empty"
  BY <1>2 DEF WriteFiles, Create, Fail, Stopped, IOFault
<1>3. ASSUME NEW p \in Publisher, WriteManifest(p)
      PROVE  Seen(d) /\ content[d] = "empty"
  BY <1>3 DEF WriteManifest, Create, Fail, Stopped, IOFault
<1>4. ASSUME NEW p \in Publisher, Validate(p)
      PROVE  Seen(d) /\ content[d] = "empty"
  BY <1>4 DEF Validate, Fail, Stopped, IOFault
<1>5. ASSUME NEW p \in Publisher, RenameNoReplace(p)
      PROVE  Seen(d) /\ content[d] = "empty"
  BY <1>5 DEF RenameNoReplace, Fail, Stopped, IOFault
<1>6. ASSUME NEW p \in Publisher, Inspect(p)
      PROVE  Seen(d) /\ content[d] = "empty"
  BY <1>6 DEF Inspect, Fail, Stopped, IOFault
<1>7. ASSUME NEW p \in Publisher, Recheck(p)
      PROVE  Seen(d) /\ content[d] = "empty"
  BY <1>7 DEF Recheck, Fail, Stopped, IOFault
<1>8. ASSUME NEW p \in Publisher, Exchange(p)
      PROVE  Seen(d) /\ content[d] = "empty"
  BY <1>8 DEF Exchange, Fail, Stopped, IOFault, CanSwap, Swap
<1>9. ASSUME NEW p \in Publisher, Verify(p)
      PROVE  Seen(d) /\ content[d] = "empty"
  BY <1>9 DEF Verify, Fail, Stopped, IOFault, Unchanged
<1>10. ASSUME NEW p \in Publisher, Quarantine(p)
       PROVE  Seen(d) /\ content[d] = "empty"
  BY <1>10 DEF Quarantine, IOFault
<1>11. ASSUME NEW p \in Publisher, CheckQuarantine(p)
       PROVE  Seen(d) /\ content[d] = "empty"
  BY <1>11 DEF CheckQuarantine, Stopped, IOFault, Unchanged
<1>12. ASSUME NEW p \in Publisher, Restore(p)
       PROVE  Seen(d) /\ content[d] = "empty"
  BY <1>12 DEF Restore, Fail, IOFault
<1>13. ASSUME NEW p \in Publisher, Clear(p)
       PROVE  Seen(d) /\ content[d] = "empty"
  BY <1>13 DEF Clear, Fail, IOFault
<1>14. ASSUME NEW p \in Publisher, Rollback(p)
       PROVE  Seen(d) /\ content[d] = "empty"
  BY <1>14 DEF Rollback, Fail
<1>15. ASSUME NEW p \in Publisher, RollbackExchange(p)
       PROVE  Seen(d) /\ content[d] = "empty"
  BY <1>15 DEF RollbackExchange, Fail, IOFault, CanSwap, Swap
<1>16. ASSUME NEW p \in Publisher, Cleanup(p)
       PROVE  Seen(d) /\ content[d] = "empty"
  BY <1>16 DEF Cleanup, IOFault
<1>17. ASSUME NEW p \in Publisher, Relocate(p)
       PROVE  Seen(d) /\ content[d] = "empty"
  BY <1>17 DEF Relocate, IOFault
<1>18. ASSUME NEW p \in Publisher, CheckDiscard(p)
       PROVE  Seen(d) /\ content[d] = "empty"
  BY <1>18 DEF CheckDiscard, IOFault
<1>19. ASSUME NEW p \in Publisher, Discard(p)
       PROVE  Seen(d) /\ content[d] = "empty"
  BY <1>19 DEF Discard, IOFault
<1>20. ASSUME NEW p \in Publisher, Undiscard(p)
       PROVE  Seen(d) /\ content[d] = "empty"
  BY <1>20 DEF Undiscard, IOFault
<1>21. ASSUME NEW p \in Publisher, Cancel(p)
       PROVE  Seen(d) /\ content[d] = "empty"
  BY <1>21 DEF Cancel
<1>22. ASSUME NEW p \in Publisher, Crash(p)
       PROVE  Seen(d) /\ content[d] = "empty"
  BY <1>22 DEF Crash
<1>23. ASSUME NEW p \in Publisher, MeddleStaging(p)
       PROVE  Seen(d) /\ content[d] = "empty"
  BY <1>23 DEF MeddleStaging, Meddle, InsertFile, LeftAlone
<1>24. CASE MeddleTarget
  BY <1>24 DEF MeddleTarget, Meddle, InsertFile, LeftAlone
<1>25. CASE UNCHANGED vars
  BY <1>25 DEF vars
<1> QED
  BY <1>1, <1>2, <1>3, <1>4, <1>5, <1>6, <1>7, <1>8, <1>9, <1>10, <1>11,
     <1>12, <1>13, <1>14, <1>15, <1>16, <1>17, <1>18, <1>19, <1>20, <1>21,
     <1>22, <1>23, <1>24, <1>25 DEF Next, Step, Finished

(* So only the directory from before is ever taken for a free place.       *)
LEMMA EmptyFromBeforeStep ==
    ASSUME IInv, StagingHeld, NamesKnown, EmptyFromBefore,
           LeftAlone("swapStaging"), LeftAlone("swapTarget"), [Next]_vars
    PROVE  EmptyFromBefore'
<1>1. ASSUME NEW d \in Dir, Seen(d)', content'[d] = "empty" PROVE ~Owned(d)'
  <2>1. Seen(d) /\ content[d] = "empty"
    BY <1>1, EmptySeenBefore
  <2>2. HasName(d)
    BY <2>1 DEF Seen, HasName
  <2> QED
    BY <2>1, <2>2, OwnedKept DEF EmptyFromBefore
<1>2. ASSUME NEW q \in Publisher, NEW d \in Dir, d = opened'[q], ~hadFiles'[q]
      PROVE  ~Owned(d)'
  <2>1. CASE opened'[q] = opened[q] /\ hadFiles'[q] = hadFiles[q]
    <3>1. ~Owned(d) /\ HasName(d)
      BY <2>1, <1>2 DEF EmptyFromBefore, NamesKnown
    <3> QED
      BY <3>1, OwnedKept
  <2>2. CASE opened'[q] # opened[q] \/ hadFiles'[q] # hadFiles[q]
    <3>1. d = target /\ content[d] = "empty" /\ own' = own
      BY <2>2, <1>2, OpenedStep DEF IInv, TypeOK
    <3> QED
      BY <3>1 DEF Owned, EmptyFromBefore, Seen
  <2> QED
    BY <2>1, <2>2
<1> QED
  BY <1>1, <1>2 DEF EmptyFromBefore

(* Where the dumps of the others are, step by step.                        *)
LEMMA ReportedStep ==
    ASSUME IInv, StagingHeld, ErrorsHeld, NamesKnown, Reported,
           \A f \in FaultKind \ {"cancel", "crash", "io"} : LeftAlone(f),
           [Next]_vars
    PROVE  Reported'
<1>0. /\ LeftAlone("insertTarget") /\ LeftAlone("insertStaging")
      /\ LeftAlone("swapTarget") /\ LeftAlone("swapStaging")
  BY DEF FaultKind
<1> USE PublishAssumption DEF IInv, TypeOK, Slot, PC, Content, Error, names,
       flags, ids, Goto, Identified, Exchanged, Leaving, Building,
       Publishing, StagingHeld, Fresh, HasName, Distinct, ErrorsHeld,
       NamesKnown, Reported, Ended
<1>1. ASSUME NEW p \in Publisher, Begin(p) PROVE Reported'
  <2>1. CASE UNCHANGED <<names, content, own>>
    BY <1>1, <2>1 DEF Begin, Fail
  <2>2. ASSUME NEW d \in Dir, ~HasName(d), staging' = [staging EXCEPT ![p] = d],
               own' = [own EXCEPT ![p] = d], content' = [content EXCEPT ![d] = "empty"],
               UNCHANGED <<target, cleanup, discard, aside, opened>>
        PROVE  Reported'
    <3>1. pc[p] = "begin" /\ own[p] = None /\ staging[p] = None
      BY <1>1 DEF Begin
    <3>2. /\ d # target
          /\ \A q \in Publisher : d \notin {staging[q], cleanup[q], own[q], opened[q]}
      BY <2>2
    <3>3. pc'[p] \in {"write", "cleanup", "done"} /\ (pc'[p] = "done" => err'[p] # "nil")
      BY <1>1 DEF Begin, Fail
    <3> HIDE DEF Distinct, NamesKnown, HasName, StagingHeld, ErrorsHeld
    <3> QED
      BY <1>1, <2>2, <3>1, <3>2, <3>3 DEF Begin, Fail
  <2> QED
    BY <1>1, <2>1, <2>2 DEF Begin, Create, Fail
<1>2. ASSUME NEW p \in Publisher, WriteFiles(p) PROVE Reported'
  BY <1>2 DEF WriteFiles, Create, Fail, Stopped, IOFault
<1>3. ASSUME NEW p \in Publisher, WriteManifest(p) PROVE Reported'
  BY <1>3 DEF WriteManifest, Create, Fail, Stopped, IOFault
<1>4. ASSUME NEW p \in Publisher, Validate(p) PROVE Reported'
  BY <1>4 DEF Validate, Fail, Stopped, IOFault
<1>5. ASSUME NEW p \in Publisher, RenameNoReplace(p) PROVE Reported'
  BY <1>5 DEF RenameNoReplace, Fail, Stopped, IOFault
<1>6. ASSUME NEW p \in Publisher, Inspect(p) PROVE Reported'
  BY <1>6 DEF Inspect, Fail, Stopped, IOFault
<1>7. ASSUME NEW p \in Publisher, Recheck(p) PROVE Reported'
  BY <1>7 DEF Recheck, Fail, Stopped, IOFault
<1>8. ASSUME NEW p \in Publisher, Exchange(p) PROVE Reported'
  BY <1>8 DEF Exchange, Fail, Stopped, IOFault, CanSwap, Swap
<1>9. ASSUME NEW p \in Publisher, Verify(p) PROVE Reported'
  BY <1>9 DEF Verify, Fail, Stopped, IOFault, Unchanged
<1>10. ASSUME NEW p \in Publisher, Quarantine(p) PROVE Reported'
  <2>1. cleanup[p] = None /\ opened[p] # None /\ opened[p] = staging[p]
    BY <1>10 DEF Quarantine
  <2> HIDE DEF Distinct, NamesKnown, HasName, Fresh, StagingHeld, ErrorsHeld
  <2>2. CASE /\ cleanup' = [cleanup EXCEPT ![p] = staging[p]]
             /\ staging' = [staging EXCEPT ![p] = None]
             /\ Goto(p, "requarantine")
             /\ UNCHANGED <<target, discard, aside>>
    BY <1>10, <2>1, <2>2 DEF Quarantine
  <2>3. CASE Goto(p, "rollback") /\ UNCHANGED names
    BY <1>10, <2>1, <2>3 DEF Quarantine
  <2> QED
    BY <1>10, <2>2, <2>3 DEF Quarantine
<1>11. ASSUME NEW p \in Publisher, CheckQuarantine(p) PROVE Reported'
  BY <1>11 DEF CheckQuarantine, Stopped, IOFault, Unchanged
<1>12. ASSUME NEW p \in Publisher, Restore(p) PROVE Reported'
  BY <1>12 DEF Restore, Fail, IOFault
<1>13. ASSUME NEW p \in Publisher, Clear(p) PROVE Reported'
  BY <1>13 DEF Clear, Fail, IOFault
<1>14. ASSUME NEW p \in Publisher, Rollback(p) PROVE Reported'
  BY <1>14 DEF Rollback, Fail
<1>15. ASSUME NEW p \in Publisher, RollbackExchange(p) PROVE Reported'
  BY <1>15 DEF RollbackExchange, Fail, IOFault, CanSwap, Swap
<1>16. ASSUME NEW p \in Publisher, Cleanup(p) PROVE Reported'
  BY <1>16 DEF Cleanup, IOFault
<1>17. ASSUME NEW p \in Publisher, Relocate(p) PROVE Reported'
  BY <1>17 DEF Relocate, IOFault
<1>18. ASSUME NEW p \in Publisher, CheckDiscard(p) PROVE Reported'
  BY <1>18 DEF CheckDiscard, IOFault
<1>19. ASSUME NEW p \in Publisher, Discard(p) PROVE Reported'
  BY <1>19 DEF Discard, IOFault
<1>20. ASSUME NEW p \in Publisher, Undiscard(p) PROVE Reported'
  <2>1. discard[p] = own[p] /\ own[p] # None /\ err[p] # "nil"
    BY <1>20 DEF Undiscard
  <2>2. \A q \in Publisher : own[q] = own[p] => q = p
    BY <2>1
  <2> HIDE DEF Distinct, NamesKnown, HasName, Fresh, StagingHeld, ErrorsHeld
  <2>3. CASE staging[p] # None \/ UNCHANGED names
    BY <1>20, <2>1, <2>3 DEF Undiscard
  <2>4. CASE staging[p] = None /\ staging' = [staging EXCEPT ![p] = discard[p]]
             /\ discard' = [discard EXCEPT ![p] = None]
             /\ UNCHANGED <<target, cleanup, aside>>
    BY <1>20, <2>1, <2>2, <2>4 DEF Undiscard
  <2> QED
    BY <1>20, <2>3, <2>4 DEF Undiscard
<1>21. ASSUME NEW p \in Publisher, Cancel(p) PROVE Reported'
  BY <1>21 DEF Cancel
<1>22. ASSUME NEW p \in Publisher, Crash(p) PROVE Reported'
  BY <1>22 DEF Crash
<1>23. ASSUME NEW p \in Publisher, MeddleStaging(p) PROVE Reported'
  BY <1>0, <1>23 DEF MeddleStaging, Meddle, InsertFile, LeftAlone
<1>24. CASE MeddleTarget
  BY <1>0, <1>24 DEF MeddleTarget, Meddle, InsertFile, LeftAlone
<1>25. CASE UNCHANGED vars
  BY <1>25 DEF vars
<1> QED
  BY <1>1, <1>2, <1>3, <1>4, <1>5, <1>6, <1>7, <1>8, <1>9, <1>10, <1>11,
     <1>12, <1>13, <1>14, <1>15, <1>16, <1>17, <1>18, <1>19, <1>20, <1>21,
     <1>22, <1>23, <1>24, <1>25 DEF Next, Step, Finished

(* Nothing of the invariants is broken before the first step.              *)
LEMMA RaceInit == Init => StagingHeld /\ ErrorsHeld /\ OneEmptyDestination /\ Reported
<1> SUFFICES ASSUME Init PROVE StagingHeld /\ ErrorsHeld /\ OneEmptyDestination /\ Reported
  OBVIOUS
<1> USE PublishAssumption DEF Init, Building, Publishing, Exchanged, Leaving, Ended
<1>1. StagingHeld /\ ErrorsHeld /\ Reported
  BY DEF StagingHeld, ErrorsHeld, Reported
<1>2. NamesKnown /\ OneFromBefore /\ EmptyFromBefore /\ Won
  BY DEF NamesKnown, OneFromBefore, EmptyFromBefore, Won, HasName, Owned,
     Seen, Renamed
<1> QED
  BY <1>1, <1>2 DEF OneEmptyDestination

(* If nobody else moves staging paths, publishers find under theirs what   *)
(* they put there, and their errors tell where it is.                      *)
THEOREM StagingIsKept ==
    ASSUME LeftAlone("swapStaging")
    PROVE  Spec => [](StagingHeld /\ ErrorsHeld)
<1>1. Init => StagingHeld /\ ErrorsHeld
  BY RaceInit
<1>2. IInv /\ StagingHeld /\ ErrorsHeld /\ [Next]_vars => (StagingHeld /\ ErrorsHeld)'
  BY StagingHeldStep, ErrorsHeldStep
<1> QED
  BY <1>1, <1>2, IInvCorrect, PTL DEF Spec

(* A publisher that reports an ordinary failure has not left its dump at   *)
(* the destination, whoever else publishes, is killed or canceled, and     *)
(* whatever is done to the destination itself.                             *)
THEOREM FailuresStayOut ==
    ASSUME LeftAlone("swapStaging")
    PROVE  Spec => []FailedNotInstalled
<1>1. IInv /\ ErrorsHeld => FailedNotInstalled
  BY FailuresAreNotInstalled
<1> QED
  BY <1>1, IInvCorrect, StagingIsKept, PTL

(* Of any number of publishers without --force at most one succeeds, if    *)
(* nobody moves directories around: the rename wins only where nothing is, *)
(* and the one empty directory that can be there goes to one quarantine.   *)
THEOREM OneDefaultSucceeds ==
    ASSUME LeftAlone("swapStaging"), LeftAlone("swapTarget")
    PROVE  Spec => []AtMostOneDefaultSucceeds
<1>1. Init => OneEmptyDestination
  BY RaceInit
<1>2. IInv /\ StagingHeld /\ ErrorsHeld /\ OneEmptyDestination /\ [Next]_vars => OneEmptyDestination'
  BY NamesKnownStep, OneFromBeforeStep, EmptyFromBeforeStep, WonStep DEF
     OneEmptyDestination
<1>3. IInv /\ OneEmptyDestination => AtMostOneDefaultSucceeds
  <2> SUFFICES ASSUME IInv, OneEmptyDestination,
                      NEW p \in Publisher, Ended(p), err[p] = "nil", ~force[p],
                      NEW q \in Publisher, Ended(q), err[q] = "nil", ~force[q]
               PROVE  p = q
    BY DEF AtMostOneDefaultSucceeds
  <2> USE DEF OneEmptyDestination
  <2>1. ASSUME NEW r \in Publisher, Ended(r), err[r] = "nil", ~force[r], opened[r] # None
        PROVE  opened[r] \in Dir /\ HasName(opened[r]) /\ ~Owned(opened[r]) /\ cleanup[r] = opened[r]
    BY <2>1 DEF IInv, TypeOK, Slot, Identified, NamesKnown, EmptyFromBefore,
       Won
  <2>2. CASE opened[p] # None /\ opened[q] # None
    <3>1. opened[p] = Original /\ opened[q] = Original
      BY <2>1, <2>2 DEF OneFromBefore
    <3> QED
      BY <2>1, <2>2, <3>1 DEF IInv, Distinct
  <2>3. CASE opened[p] = None /\ opened[q] = None
    BY <2>3 DEF Won, Renamed
  <2>4. CASE opened[p] = None /\ opened[q] # None
    BY <2>1, <2>4 DEF OneFromBefore, Renamed
  <2>5. CASE opened[p] # None /\ opened[q] = None
    BY <2>1, <2>5 DEF OneFromBefore, Renamed
  <2> QED
    BY <2>2, <2>3, <2>4, <2>5
<1> QED
  BY <1>1, <1>2, <1>3, IInvCorrect, StagingIsKept, PTL DEF Spec

(* What any number of racing publishers report stays true, whoever is      *)
(* canceled, killed or meets I/O errors, if no other program interferes:   *)
(* a failure has left nothing at the destination, and a published dump is  *)
(* there, or whole with another publisher, or replaced by --force.         *)
THEOREM ReportsStayTrue ==
    ASSUME \A f \in FaultKind \ {"cancel", "crash", "io"} : LeftAlone(f)
    PROVE  Spec => []ReportsHold
<1>0. LeftAlone("swapStaging")
  BY DEF FaultKind
<1>1. Init => NamesKnown /\ Reported
  BY RaceInit DEF OneEmptyDestination
<1>2. IInv /\ StagingHeld /\ ErrorsHeld /\ NamesKnown /\ Reported /\ [Next]_vars
         => (NamesKnown /\ Reported)'
  BY NamesKnownStep, ReportedStep
<1>3. IInv /\ StagingHeld /\ Reported => SuccessNotLost
  <2> SUFFICES ASSUME StagingHeld, Reported, NEW p \in Publisher, Ended(p), err[p] = "nil"
               PROVE  \/ target = own[p] /\ content[own[p]] = status[p]
                      \/ \E q \in Publisher \ {p} :
                            \/ staging[q] = own[p] /\ content[own[p]] = status[p]
                            \/ cleanup[q] = own[p] /\ force[q] /\ status[p] = "complete"
    BY DEF SuccessNotLost
  <2> QED
    BY DEF Reported, StagingHeld
<1> QED
  BY <1>0, <1>1, <1>2, <1>3, IInvCorrect, StagingIsKept, FailuresStayOut, PTL
     DEF Spec, ReportsHold

-----------------------------------------------------------------------------
(* A single publisher, with an outside program that at most adds files.    *)

(* The destination is the directory opened when the exchange is reached.   *)
Aimed == \A p \in Publisher : pc[p] = "exchange" => target = opened[p]

(* Where the destination is, if it was t at first.                         *)
Tells(t) ==
    \A p \in Publisher :
        /\ pc[p] \notin Exchanged \cup Leaving \cup {"killed"} => target = t
        /\ pc[p] \in {"recheck", "exchange"} \cup Exchanged => opened[p] = t
        /\ pc[p] \in Exchanged => target = own[p]
        /\ pc[p] \in Leaving =>
              /\ err[p] \in {"failed", "overwrite"} => target = t
              /\ err[p] \in {"nil", "residue"} => target = own[p]

(* Nothing moves between the last check and the exchange.                  *)
LEMMA AimedStep ==
    ASSUME IInv, StagingHeld, ErrorsHeld, LeftAlone("swapStaging"),
           LeftAlone("swapTarget"), NEW one \in Publisher, Publisher = {one},
           [Next]_vars, Aimed
    PROVE  Aimed'
<1> USE PublishAssumption DEF IInv, TypeOK, Slot, PC, Content, Error, names,
       flags, ids, Goto, Identified, Exchanged, Leaving, Building,
       Publishing, Aimed
<1>1. ASSUME NEW p \in Publisher, Begin(p) PROVE Aimed'
  BY <1>1 DEF Begin, Create, Fail, Stopped, IOFault
<1>2. ASSUME NEW p \in Publisher, WriteFiles(p) PROVE Aimed'
  BY <1>2 DEF WriteFiles, Create, Fail, Stopped, IOFault
<1>3. ASSUME NEW p \in Publisher, WriteManifest(p) PROVE Aimed'
  BY <1>3 DEF WriteManifest, Create, Fail, Stopped, IOFault
<1>4. ASSUME NEW p \in Publisher, Validate(p) PROVE Aimed'
  BY <1>4 DEF Validate, Fail, Stopped, IOFault
<1>5. ASSUME NEW p \in Publisher, RenameNoReplace(p) PROVE Aimed'
  BY <1>5 DEF RenameNoReplace, Fail, Stopped, IOFault
<1>6. ASSUME NEW p \in Publisher, Inspect(p) PROVE Aimed'
  BY <1>6 DEF Inspect, Fail, Stopped, IOFault
<1>7. ASSUME NEW p \in Publisher, Recheck(p) PROVE Aimed'
  BY <1>7 DEF Recheck, Fail, Stopped, IOFault
<1>8. ASSUME NEW p \in Publisher, Exchange(p) PROVE Aimed'
  BY <1>8 DEF Exchange, Fail, Stopped, IOFault, CanSwap, Swap
<1>9. ASSUME NEW p \in Publisher, Verify(p) PROVE Aimed'
  BY <1>9 DEF Verify, Fail, Stopped, IOFault, Unchanged
<1>10. ASSUME NEW p \in Publisher, Quarantine(p) PROVE Aimed'
  BY <1>10 DEF Quarantine, IOFault
<1>11. ASSUME NEW p \in Publisher, CheckQuarantine(p) PROVE Aimed'
  BY <1>11 DEF CheckQuarantine, Stopped, IOFault, Unchanged
<1>12. ASSUME NEW p \in Publisher, Restore(p) PROVE Aimed'
  BY <1>12 DEF Restore, Fail, IOFault
<1>13. ASSUME NEW p \in Publisher, Clear(p) PROVE Aimed'
  BY <1>13 DEF Clear, Fail, IOFault
<1>14. ASSUME NEW p \in Publisher, Rollback(p) PROVE Aimed'
  BY <1>14 DEF Rollback, Fail
<1>15. ASSUME NEW p \in Publisher, RollbackExchange(p) PROVE Aimed'
  BY <1>15 DEF RollbackExchange, Fail, IOFault, CanSwap, Swap
<1>16. ASSUME NEW p \in Publisher, Cleanup(p) PROVE Aimed'
  BY <1>16 DEF Cleanup, IOFault
<1>17. ASSUME NEW p \in Publisher, Relocate(p) PROVE Aimed'
  BY <1>17 DEF Relocate, IOFault
<1>18. ASSUME NEW p \in Publisher, CheckDiscard(p) PROVE Aimed'
  BY <1>18 DEF CheckDiscard, IOFault
<1>19. ASSUME NEW p \in Publisher, Discard(p) PROVE Aimed'
  BY <1>19 DEF Discard, IOFault
<1>20. ASSUME NEW p \in Publisher, Undiscard(p) PROVE Aimed'
  BY <1>20 DEF Undiscard, IOFault
<1>21. ASSUME NEW p \in Publisher, Cancel(p) PROVE Aimed'
  BY <1>21 DEF Cancel
<1>22. ASSUME NEW p \in Publisher, Crash(p) PROVE Aimed'
  BY <1>22 DEF Crash
<1>23. ASSUME NEW p \in Publisher, MeddleStaging(p) PROVE Aimed'
  BY <1>23 DEF MeddleStaging, Meddle, InsertFile, LeftAlone
<1>24. CASE MeddleTarget
  BY <1>24 DEF MeddleTarget, Meddle, InsertFile, LeftAlone
<1>25. CASE UNCHANGED vars
  BY <1>25 DEF vars
<1> QED
  BY <1>1, <1>2, <1>3, <1>4, <1>5, <1>6, <1>7, <1>8, <1>9, <1>10, <1>11,
     <1>12, <1>13, <1>14, <1>15, <1>16, <1>17, <1>18, <1>19, <1>20, <1>21,
     <1>22, <1>23, <1>24, <1>25 DEF Next, Step, Finished

(* The only moves are the rename, the exchange and its undoing.            *)
LEMMA TellsStep ==
    ASSUME IInv, StagingHeld, ErrorsHeld, LeftAlone("swapStaging"),
           LeftAlone("swapTarget"), NEW one \in Publisher, Publisher = {one},
           [Next]_vars, NEW t, Tells(t)
    PROVE  Tells(t)'
<1> USE PublishAssumption DEF IInv, TypeOK, Slot, PC, Content, Error, names,
       flags, ids, Goto, Identified, Exchanged, Leaving, Building,
       Publishing, StagingHeld, ErrorsHeld, Tells, Ended
<1>1. ASSUME NEW p \in Publisher, Begin(p) PROVE Tells(t)'
  BY <1>1 DEF Begin, Create, Fail, Stopped, IOFault
<1>2. ASSUME NEW p \in Publisher, WriteFiles(p) PROVE Tells(t)'
  BY <1>2 DEF WriteFiles, Create, Fail, Stopped, IOFault
<1>3. ASSUME NEW p \in Publisher, WriteManifest(p) PROVE Tells(t)'
  BY <1>3 DEF WriteManifest, Create, Fail, Stopped, IOFault
<1>4. ASSUME NEW p \in Publisher, Validate(p) PROVE Tells(t)'
  BY <1>4 DEF Validate, Fail, Stopped, IOFault
<1>5. ASSUME NEW p \in Publisher, RenameNoReplace(p) PROVE Tells(t)'
  BY <1>5 DEF RenameNoReplace, Fail, Stopped, IOFault
<1>6. ASSUME NEW p \in Publisher, Inspect(p) PROVE Tells(t)'
  BY <1>6 DEF Inspect, Fail, Stopped, IOFault
<1>7. ASSUME NEW p \in Publisher, Recheck(p) PROVE Tells(t)'
  BY <1>7 DEF Recheck, Fail, Stopped, IOFault
<1>8. ASSUME NEW p \in Publisher, Exchange(p) PROVE Tells(t)'
  BY <1>8 DEF Exchange, Fail, Stopped, IOFault, CanSwap, Swap
<1>9. ASSUME NEW p \in Publisher, Verify(p) PROVE Tells(t)'
  BY <1>9 DEF Verify, Fail, Stopped, IOFault, Unchanged
<1>10. ASSUME NEW p \in Publisher, Quarantine(p) PROVE Tells(t)'
  BY <1>10 DEF Quarantine, IOFault
<1>11. ASSUME NEW p \in Publisher, CheckQuarantine(p) PROVE Tells(t)'
  BY <1>11 DEF CheckQuarantine, Stopped, IOFault, Unchanged
<1>12. ASSUME NEW p \in Publisher, Restore(p) PROVE Tells(t)'
  BY <1>12 DEF Restore, Fail, IOFault
<1>13. ASSUME NEW p \in Publisher, Clear(p) PROVE Tells(t)'
  BY <1>13 DEF Clear, Fail, IOFault
<1>14. ASSUME NEW p \in Publisher, Rollback(p) PROVE Tells(t)'
  BY <1>14 DEF Rollback, Fail
<1>15. ASSUME NEW p \in Publisher, RollbackExchange(p) PROVE Tells(t)'
  BY <1>15 DEF RollbackExchange, Fail, IOFault, CanSwap, Swap
<1>16. ASSUME NEW p \in Publisher, Cleanup(p) PROVE Tells(t)'
  BY <1>16 DEF Cleanup, IOFault
<1>17. ASSUME NEW p \in Publisher, Relocate(p) PROVE Tells(t)'
  BY <1>17 DEF Relocate, IOFault
<1>18. ASSUME NEW p \in Publisher, CheckDiscard(p) PROVE Tells(t)'
  BY <1>18 DEF CheckDiscard, IOFault
<1>19. ASSUME NEW p \in Publisher, Discard(p) PROVE Tells(t)'
  BY <1>19 DEF Discard, IOFault
<1>20. ASSUME NEW p \in Publisher, Undiscard(p) PROVE Tells(t)'
  BY <1>20 DEF Undiscard, IOFault
<1>21. ASSUME NEW p \in Publisher, Cancel(p) PROVE Tells(t)'
  BY <1>21 DEF Cancel
<1>22. ASSUME NEW p \in Publisher, Crash(p) PROVE Tells(t)'
  BY <1>22 DEF Crash
<1>23. ASSUME NEW p \in Publisher, MeddleStaging(p) PROVE Tells(t)'
  BY <1>23 DEF MeddleStaging, Meddle, InsertFile, LeftAlone
<1>24. CASE MeddleTarget
  BY <1>24 DEF MeddleTarget, Meddle, InsertFile, LeftAlone
<1>25. CASE UNCHANGED vars
  BY <1>25 DEF vars
<1> QED
  BY <1>1, <1>2, <1>3, <1>4, <1>5, <1>6, <1>7, <1>8, <1>9, <1>10, <1>11,
     <1>12, <1>13, <1>14, <1>15, <1>16, <1>17, <1>18, <1>19, <1>20, <1>21,
     <1>22, <1>23, <1>24, <1>25 DEF Next, Step, Finished

(* The error of a single publisher tells what is at the destination:       *)
(* after an ordinary failure what was there at first, after success or a   *)
(* failure to clear the replaced dump the new one.                         *)
THEOREM ErrorsTellTheTarget ==
    ASSUME NEW one \in Publisher, Publisher = {one},
           LeftAlone("swapStaging"), LeftAlone("swapTarget")
    PROVE  Spec => ErrorTellsTarget
<1> DEFINE Telling(t) == \A p \in Publisher : Ended(p) =>
              /\ err[p] \in {"failed", "overwrite"} => target = t
              /\ err[p] \in {"nil", "residue"} => target = own[p]
<1>1. ASSUME NEW t \in Slot PROVE Spec => (target = t => []Telling(t))
  <2>1. Init /\ target = t => Tells(t)
    BY DEF Init, Tells, Exchanged, Leaving, Ended
  <2>2. IInv /\ StagingHeld /\ ErrorsHeld /\ Tells(t) /\ [Next]_vars => Tells(t)'
    BY TellsStep
  <2>3. Tells(t) => Telling(t)
    BY DEF Tells, Ended, Leaving
  <2> QED
    BY <2>1, <2>2, <2>3, IInvCorrect, StagingIsKept, PTL DEF Spec
<1> QED
  BY <1>1 DEF ErrorTellsTarget

(* The abstract state of the one publisher.                                *)
Switched(p) == IF pc[p] \in Exchanged THEN opened[p] ELSE None

(* Each step of a single publisher is one of AtomicPublish or changes      *)
(* nothing of what it speaks of.                                           *)
LEMMA AtomicStep ==
    ASSUME IInv, StagingHeld, ErrorsHeld, Aimed, LeftAlone("swapStaging"),
           LeftAlone("swapTarget"), NEW one \in Publisher,
           Publisher = {one}, [Next]_vars
    PROVE  [Atomic!Next]_(Atomic!vars)
<1> DEFINE ph == [p \in Publisher |-> Phase(p)]
           rp == [p \in Publisher |-> Switched(p)]
           Stutter == /\ target' = target /\ Phase(one)' = Phase(one)
                      /\ Switched(one)' = Switched(one)
           Install == /\ Phase(one) = "pending" /\ target' \in Dir \ {target}
                      /\ IF target = None
                         THEN Phase(one)' = "success" /\ Switched(one)' = Switched(one)
                         ELSE Phase(one)' = "installed" /\ Switched(one)' = target
           GiveUp == /\ Phase(one) = "pending" /\ Phase(one)' = "failure"
                     /\ target' = target /\ Switched(one)' = Switched(one)
           Undo == /\ Phase(one) = "installed" /\ target' = Switched(one)
                   /\ Phase(one)' \in {"failure", "uncertain"} /\ Switched(one)' = None
           Report == /\ Phase(one) = "installed" /\ target' = target
                     /\ Phase(one)' \in {"success", "uncertain"} /\ Switched(one)' = None
           Die == Phase(one)' = "dead" /\ Switched(one)' = None /\ target' = target
           Allowed == Stutter \/ Install \/ GiveUp \/ Undo \/ Report \/ Die
<1>1. ASSUME Allowed
      PROVE  [Atomic!Next]_(Atomic!vars)
  <2>1. /\ ph' = [ph EXCEPT ![one] = Phase(one)']
        /\ rp' = [rp EXCEPT ![one] = Switched(one)']
        /\ ph[one] = Phase(one) /\ rp[one] = Switched(one)
    OBVIOUS
  <2>2. Stutter => UNCHANGED Atomic!vars
    BY <2>1 DEF Atomic!vars, Switched
  <2>3. Install => Atomic!Install(one)
    BY <2>1 DEF Atomic!Install, Atomic!Become, Switched
  <2>4. GiveUp => Atomic!GiveUp(one)
    BY <2>1 DEF Atomic!GiveUp, Atomic!Become, Switched
  <2>5. Undo => Atomic!Undo(one)
    BY <2>1 DEF Atomic!Undo, Atomic!Become, Switched
  <2>6. Report => Atomic!Report(one)
    BY <2>1 DEF Atomic!Report, Atomic!Become, Switched
  <2>7. Die => Atomic!Die(one)
    BY <2>1 DEF Atomic!Die, Atomic!Become, Switched
  <2> QED
    BY <1>1, <2>2, <2>3, <2>4, <2>5, <2>6, <2>7 DEF Atomic!Next
<1>2. Allowed
  <2> USE PublishAssumption DEF IInv, TypeOK, Slot, PC, Content, Error, names,
       flags, ids, Goto, Identified, Distinct, Exchanged, Leaving, Building,
       Publishing, StagingHeld, ErrorsHeld, Aimed, Phase, Switched
  <2>1. ASSUME NEW p \in Publisher, Begin(p) PROVE Allowed
    BY <2>1 DEF Begin, Create, Fail, Stopped, IOFault
  <2>2. ASSUME NEW p \in Publisher, WriteFiles(p) PROVE Allowed
    BY <2>2 DEF WriteFiles, Create, Fail, Stopped, IOFault
  <2>3. ASSUME NEW p \in Publisher, WriteManifest(p) PROVE Allowed
    BY <2>3 DEF WriteManifest, Create, Fail, Stopped, IOFault
  <2>4. ASSUME NEW p \in Publisher, Validate(p) PROVE Allowed
    BY <2>4 DEF Validate, Fail, Stopped, IOFault
  <2>5. ASSUME NEW p \in Publisher, RenameNoReplace(p) PROVE Allowed
    BY <2>5 DEF RenameNoReplace, Fail, Stopped, IOFault
  <2>6. ASSUME NEW p \in Publisher, Inspect(p) PROVE Allowed
    BY <2>6 DEF Inspect, Fail, Stopped, IOFault
  <2>7. ASSUME NEW p \in Publisher, Recheck(p) PROVE Allowed
    BY <2>7 DEF Recheck, Fail, Stopped, IOFault
  <2>8. ASSUME NEW p \in Publisher, Exchange(p) PROVE Allowed
    BY <2>8 DEF Exchange, Fail, Stopped, IOFault, CanSwap, Swap
  <2>9. ASSUME NEW p \in Publisher, Verify(p) PROVE Allowed
    BY <2>9 DEF Verify, Fail, Stopped, IOFault, Unchanged
  <2>10. ASSUME NEW p \in Publisher, Quarantine(p) PROVE Allowed
    BY <2>10 DEF Quarantine, IOFault
  <2>11. ASSUME NEW p \in Publisher, CheckQuarantine(p) PROVE Allowed
    BY <2>11 DEF CheckQuarantine, Stopped, IOFault, Unchanged
  <2>12. ASSUME NEW p \in Publisher, Restore(p) PROVE Allowed
    BY <2>12 DEF Restore, Fail, IOFault
  <2>13. ASSUME NEW p \in Publisher, Clear(p) PROVE Allowed
    BY <2>13 DEF Clear, Fail, IOFault
  <2>14. ASSUME NEW p \in Publisher, Rollback(p) PROVE Allowed
    BY <2>14 DEF Rollback, Fail
  <2>15. ASSUME NEW p \in Publisher, RollbackExchange(p) PROVE Allowed
    BY <2>15 DEF RollbackExchange, Fail, IOFault, CanSwap, Swap
  <2>16. ASSUME NEW p \in Publisher, Cleanup(p) PROVE Allowed
    BY <2>16 DEF Cleanup, IOFault
  <2>17. ASSUME NEW p \in Publisher, Relocate(p) PROVE Allowed
    BY <2>17 DEF Relocate, IOFault
  <2>18. ASSUME NEW p \in Publisher, CheckDiscard(p) PROVE Allowed
    BY <2>18 DEF CheckDiscard, IOFault
  <2>19. ASSUME NEW p \in Publisher, Discard(p) PROVE Allowed
    BY <2>19 DEF Discard, IOFault
  <2>20. ASSUME NEW p \in Publisher, Undiscard(p) PROVE Allowed
    BY <2>20 DEF Undiscard, IOFault
  <2>21. ASSUME NEW p \in Publisher, Cancel(p) PROVE Allowed
    BY <2>21 DEF Cancel
  <2>22. ASSUME NEW p \in Publisher, Crash(p) PROVE Allowed
    BY <2>22 DEF Crash
  <2>23. ASSUME NEW p \in Publisher, MeddleStaging(p) PROVE Allowed
    BY <2>23 DEF MeddleStaging, Meddle, InsertFile, LeftAlone
  <2>24. CASE MeddleTarget
    BY <2>24 DEF MeddleTarget, Meddle, InsertFile, LeftAlone
  <2>25. CASE UNCHANGED vars
    BY <2>25 DEF vars
  <2> QED
    BY <2>1, <2>2, <2>3, <2>4, <2>5, <2>6, <2>7, <2>8, <2>9, <2>10, <2>11,
     <2>12, <2>13, <2>14, <2>15, <2>16, <2>17, <2>18, <2>19, <2>20, <2>21,
     <2>22, <2>23, <2>24, <2>25 DEF Next, Step, Finished
<1> QED
  BY <1>1, <1>2

(* One publisher switches the destination atomically and revocably, and    *)
(* what it reports agrees with it, however it is canceled or killed,       *)
(* whatever I/O fails and whatever files another program adds.             *)
THEOREM PublicationIsAtomic ==
    ASSUME NEW one \in Publisher, Publisher = {one},
           LeftAlone("swapStaging"), LeftAlone("swapTarget")
    PROVE  Spec => ImplementsAtomicPublish
<1>1. Init => Atomic!Init /\ Aimed
  BY PublishAssumption DEF Init, Atomic!Init, Aimed, Phase, Exchanged, Leaving
<1>2. IInv /\ Aimed /\ StagingHeld /\ ErrorsHeld /\ [Next]_vars => Aimed'
  BY AimedStep
<1>3. IInv /\ Aimed /\ StagingHeld /\ ErrorsHeld /\ [Next]_vars
         => [Atomic!Next]_(Atomic!vars)
  BY AtomicStep
<1> QED
  BY <1>1, <1>2, <1>3, IInvCorrect, StagingIsKept, PTL
     DEF Spec, ImplementsAtomicPublish, Atomic!Spec

=============================================================================
