----------------------------- MODULE DumpPublish -----------------------------
(***************************************************************************)
(* Publication of a dump directory (internal/dump: dump.go, force.go).     *)
(*                                                                         *)
(* A publisher collects a dump into a hidden staging directory next to the *)
(* destination, validates it, and then installs it with one atomic         *)
(* directory operation: a rename that refuses an existing destination, or  *)
(* an exchange of the two directories.  A replaced directory is identified *)
(* again, validated again, moved into a private quarantine, validated once *)
(* more and only then cleared; every failure before that point rolls the   *)
(* exchange back.  What is left in staging is relocated and cleared the    *)
(* same way by a deferred cleanup.                                         *)
(*                                                                         *)
(* Several publishers (processes) and an outside program of the same       *)
(* account work in the parent directory; a publisher may be canceled or    *)
(* killed between any two steps, and any I/O step may fail.                *)
(*                                                                         *)
(* A directory is known by its identity (os.SameFile), a member of Dir; a  *)
(* name (destination, staging, quarantine, ...) is a variable that holds   *)
(* the identity found under it, or None.                                   *)
(***************************************************************************)
EXTENDS Naturals

CONSTANTS
    Publisher,    \* the processes that publish to one destination
    Dir,          \* identities of directories
    None,         \* no directory under a name
    Original,     \* the directory at the destination before anyone runs
    Faults,       \* what may go wrong, a subset of FaultKind
    MaxMeddling   \* bound on the steps of the outside program

FaultKind ==
    { "cancel",         \* the context of a publisher is canceled
      "crash",          \* a publisher is killed
      "io",             \* a system call fails, or exchange is unsupported
      "insertTarget",   \* someone adds a file to the destination
      "insertStaging",  \* someone adds a file to a staging path
      "swapTarget",     \* someone moves or recreates the destination
      "swapStaging" }   \* someone moves or recreates a staging path

ASSUME PublishAssumption ==
    /\ None \notin Dir
    /\ Original \in Dir
    /\ Faults \subseteq FaultKind
    /\ MaxMeddling \in Nat

VARIABLES
    target,     \* the directory under the destination path
    staging,    \* per publisher, under its .zscalerctl-staging-* path
    cleanup,    \* per publisher, under its .zscalerctl-cleanup-*/root path
    discard,    \* per publisher, under its .zscalerctl-discard-*/root path
    aside,      \* directories the outside program keeps under its own names
    content,    \* what a directory contains
    pc,         \* the next step of a publisher
    err,        \* what the publisher will return
    canceled,   \* its context has been canceled
    force,      \* the --force flag
    status,     \* manifest status of the dump it collected
    own,        \* stagingInfo: identity of the staging directory it created
    opened,     \* openedInfo: identity of the directory it will replace
    staged,     \* stagedInfo: identity found under its staging path
    hadFiles,   \* the directory to be replaced contained files
    meddled     \* steps taken by the outside program

names  == <<target, staging, cleanup, discard, aside>>
flags  == <<force, status>>
ids    == <<own, opened, staged, hadFiles>>
vars   == <<names, content, pc, err, canceled, flags, ids, meddled>>

(* A directory tree without files; the files of a dump without the whole   *)
(* of it (being written, or being removed); a dump that validates and is   *)
(* marked complete or partial; anything else validation refuses.           *)
Content == {"empty", "unfinished", "complete", "partial", "foreign"}

PC == { "begin", "write", "manifest", "validate", "rename", "renameAgain",
        "inspect", "recheck", "exchange", "verify", "quarantine",
        "requarantine", "restore", "clear", "rollback", "rollbackExchange",
        "cleanup", "relocate", "checkDiscard", "discard", "undiscard",
        "done", "killed" }

(* The steps during which the exchange is in effect.                       *)
Exchanged == { "verify", "quarantine", "requarantine", "restore", "clear",
               "rollback", "rollbackExchange" }

(* The steps after publication has succeeded or failed.                    *)
Leaving == {"cleanup", "relocate", "checkDiscard", "discard", "undiscard", "done"}

(* nil, or an error: the destination exists; a failure before or undone    *)
(* after the exchange; a rollback refused or failed; the new dump is in    *)
(* place but the old one could not be cleared.                             *)
Error == {"nil", "overwrite", "failed", "refused", "residue"}

Slot == Dir \cup {None}

TypeOK ==
    /\ target \in Slot
    /\ staging \in [Publisher -> Slot]
    /\ cleanup \in [Publisher -> Slot]
    /\ discard \in [Publisher -> Slot]
    /\ aside \subseteq Dir
    /\ content \in [Dir -> Content]
    /\ pc \in [Publisher -> PC]
    /\ err \in [Publisher -> Error]
    /\ canceled \in [Publisher -> BOOLEAN]
    /\ force \in [Publisher -> BOOLEAN]
    /\ status \in [Publisher -> {"complete", "partial"}]
    /\ own \in [Publisher -> Slot]
    /\ opened \in [Publisher -> Slot]
    /\ staged \in [Publisher -> Slot]
    /\ hadFiles \in [Publisher -> BOOLEAN]
    /\ meddled \in 0..MaxMeddling

(* Some name leads to directory d.                                         *)
HasName(d) ==
    \/ d = target
    \/ d \in aside
    \/ \E p \in Publisher : d \in {staging[p], cleanup[p], discard[p]}

Fresh == {d \in Dir : ~HasName(d)}

Init ==
    /\ target \in {None, Original}
    /\ staging = [p \in Publisher |-> None]
    /\ cleanup = [p \in Publisher |-> None]
    /\ discard = [p \in Publisher |-> None]
    /\ aside = {}
    /\ content \in {[d \in Dir |-> IF d = target THEN c ELSE "empty"] :
                        c \in Content \ {"unfinished"}}
    /\ pc = [p \in Publisher |-> "begin"]
    /\ err = [p \in Publisher |-> "nil"]
    /\ canceled = [p \in Publisher |-> FALSE]
    /\ force \in [Publisher -> BOOLEAN]
    /\ status \in [Publisher -> {"complete", "partial"}]
    /\ own = [p \in Publisher |-> None]
    /\ opened = [p \in Publisher |-> None]
    /\ staged = [p \in Publisher |-> None]
    /\ hadFiles = [p \in Publisher |-> FALSE]
    /\ meddled = 0

-----------------------------------------------------------------------------
(* Common parts of steps.                                                  *)

Goto(p, l) == pc' = [pc EXCEPT ![p] = l]

(* Return e from the publishing code: the deferred cleanup comes next.     *)
Fail(p, e) ==
    /\ Goto(p, "cleanup")
    /\ err' = [err EXCEPT ![p] = e]

IOFault == "io" \in Faults

(* checkContext and the error returns of system calls: a canceled context  *)
(* always stops a step that checks it, a fault may stop any step.          *)
Stopped(p) == canceled[p] \/ IOFault

(* os.MkdirTemp or os.MkdirAll of a path nothing has.                      *)
Create(d, c) == d \in Fresh /\ content' = [content EXCEPT ![d] = c]

(* exchangeDirectories: RENAME_EXCHANGE of the staging path and the        *)
(* destination, which must both exist.                                     *)
CanSwap(p) == staging[p] # None /\ target # None

(* Mutant of Swap: the destination is moved away, to be renamed over later. *)
MoveAside(p) ==
    /\ target' = None
    /\ aside' = aside \cup {target}
    /\ UNCHANGED <<staging, cleanup, discard>>

Swap(p) ==
    /\ target' = staging[p]
    /\ staging' = [staging EXCEPT ![p] = target]
    /\ UNCHANGED <<cleanup, discard, aside>>

(* Mutant of Unchanged: the replaced directory is not validated again.     *)
NotRevalidated(p) == p \in Publisher

(* The opened root still holds what its first validation accepted: a       *)
(* complete dump if it had files, no file otherwise.                       *)
Unchanged(p) ==
    content[opened[p]] = IF hadFiles[p] THEN "complete" ELSE "empty"

-----------------------------------------------------------------------------
(* Building the dump in staging: publishContextWithCatalogAndHooks up to   *)
(* the publication.                                                        *)

(* Mutant of Begin: an absent destination is its own staging directory.    *)
BeginInPlace(p) ==
    /\ pc[p] = "begin"
    /\ ~canceled[p]
    /\ \E d \in Dir :
          /\ Create(d, "empty")
          /\ staging' = [staging EXCEPT ![p] = d]
          /\ target' = IF target = None THEN d ELSE target
          /\ own' = [own EXCEPT ![p] = d]
    /\ Goto(p, "write")
    /\ UNCHANGED <<cleanup, discard, aside, err, opened, staged, hadFiles, canceled, flags, meddled>>

(* The context is checked, then the staging directory is created and       *)
(* opened; a failure to create or to identify it skips the cleanup.        *)
Begin(p) ==
    /\ pc[p] = "begin"
    /\ \/ /\ Stopped(p)
          /\ Goto(p, "done")
          /\ err' = [err EXCEPT ![p] = "failed"]
          /\ UNCHANGED <<names, content, ids>>
       \/ /\ ~canceled[p]
          /\ \E d \in Dir :
                /\ Create(d, "empty")
                /\ staging' = [staging EXCEPT ![p] = d]
                /\ own' = [own EXCEPT ![p] = d]
          /\ \/ Goto(p, "write") /\ UNCHANGED err
             \/ IOFault /\ Fail(p, "failed")
             \/ IOFault /\ Goto(p, "done") /\ err' = [err EXCEPT ![p] = "failed"]
          /\ UNCHANGED <<target, cleanup, discard, aside, opened, staged, hadFiles>>
    /\ UNCHANGED <<canceled, flags, meddled>>

(* writeArtifactContext, the files before the manifest.  They go to the    *)
(* staging path, whatever is under it: a missing directory is created, a   *)
(* file that is already there is never replaced.                           *)
WriteFiles(p) ==
    /\ pc[p] = "write"
    /\ \/ Stopped(p) /\ Fail(p, "failed") /\ UNCHANGED <<staging, content>>
       \/ /\ ~canceled[p]
          /\ staging[p] = None
          /\ \E d \in Dir :
                /\ Create(d, "unfinished")
                /\ staging' = [staging EXCEPT ![p] = d]
          /\ Goto(p, "manifest")
          /\ UNCHANGED err
       \/ /\ ~canceled[p]
          /\ staging[p] # None
          /\ content[staging[p]] \in {"empty", "foreign"}
          /\ content' = [content EXCEPT ![staging[p]] =
                            IF @ = "empty" THEN "unfinished" ELSE @]
          /\ Goto(p, "manifest")
          /\ UNCHANGED <<staging, err>>
       \/ /\ staging[p] # None
          /\ content[staging[p]] # "empty"
          /\ Fail(p, "overwrite")
          /\ UNCHANGED <<staging, content>>
    /\ UNCHANGED <<target, cleanup, discard, aside, canceled, flags, ids, meddled>>

(* manifest.json is the last file; stopping before it leaves an unfinished *)
(* directory.                                                              *)
WriteManifest(p) ==
    /\ pc[p] = "manifest"
    /\ \/ Stopped(p) /\ Fail(p, "failed") /\ UNCHANGED <<staging, content>>
       \/ /\ ~canceled[p]
          /\ staging[p] = None
          /\ \E d \in Dir :
                /\ Create(d, "unfinished")
                /\ staging' = [staging EXCEPT ![p] = d]
          /\ Goto(p, "validate")
          /\ UNCHANGED err
       \/ /\ ~canceled[p]
          /\ staging[p] # None
          /\ content[staging[p]] \in {"empty", "unfinished", "foreign"}
          /\ content' = [content EXCEPT ![staging[p]] =
                            IF @ = "unfinished" THEN status[p]
                            ELSE IF @ = "empty" THEN "unfinished" ELSE @]
          /\ Goto(p, "validate")
          /\ UNCHANGED <<staging, err>>
       \/ /\ staging[p] # None
          /\ content[staging[p]] \in {"complete", "partial", "foreign"}
          /\ Fail(p, "overwrite")
          /\ UNCHANGED <<staging, content>>
    /\ UNCHANGED <<target, cleanup, discard, aside, canceled, flags, ids, meddled>>

(* ValidateArtifactRootContext on the handle opened at the creation, then  *)
(* the identity of the staging path, then the context.                     *)
Validate(p) ==
    /\ pc[p] = "validate"
    /\ \/ /\ ~canceled[p]
          /\ content[own[p]] \in {"complete", "partial"}
          /\ staging[p] = own[p]
          /\ Goto(p, IF force[p] THEN "inspect" ELSE "rename")
          /\ UNCHANGED err
       \/ /\ \/ Stopped(p)
             \/ content[own[p]] \notin {"complete", "partial"}
             \/ staging[p] # own[p]
          /\ Fail(p, "failed")
    /\ UNCHANGED <<names, content, canceled, flags, ids, meddled>>

-----------------------------------------------------------------------------
(* Publication.                                                            *)

(* Mutant of RenameNoReplace: a plain rename, which replaces.              *)
RenameReplacing(p) ==
    /\ pc[p] \in {"rename", "renameAgain"}
    /\ staging[p] # None
    /\ target' = staging[p]
    /\ staging' = [staging EXCEPT ![p] = None]
    /\ Goto(p, "done")
    /\ UNCHANGED <<cleanup, discard, aside, err, content, canceled, flags, ids, meddled>>

(* publishDirectoryNoReplace: one atomic rename that refuses an existing   *)
(* destination.  Without --force an existing destination is inspected; the *)
(* second attempt, after the destination was found missing, gives up.      *)
RenameNoReplace(p) ==
    /\ pc[p] \in {"rename", "renameAgain"}
    /\ \/ /\ ~canceled[p]
          /\ staging[p] # None
          /\ target = None
          /\ target' = staging[p]
          /\ staging' = [staging EXCEPT ![p] = None]
          /\ Goto(p, "done")
          /\ UNCHANGED <<cleanup, discard, aside, err>>
       \/ /\ ~canceled[p]
          /\ staging[p] # None
          /\ target # None
          /\ \/ pc[p] = "rename" /\ Goto(p, "inspect") /\ UNCHANGED err
             \/ pc[p] = "renameAgain" /\ Fail(p, "overwrite")
          /\ UNCHANGED names
       \/ /\ Stopped(p) \/ staging[p] = None
          /\ Fail(p, "failed")
          /\ UNCHANGED names
    /\ UNCHANGED <<content, canceled, flags, ids, meddled>>

(* Mutant of Inspect: a complete dump is accepted without --force.         *)
InspectWithoutForce(p) ==
    /\ pc[p] = "inspect"
    /\ \/ /\ target = None
          /\ Goto(p, "renameAgain")
          /\ UNCHANGED <<err, opened, hadFiles>>
       \/ /\ target # None
          /\ content[target] \in {"empty", "complete"}
          /\ opened' = [opened EXCEPT ![p] = target]
          /\ hadFiles' = [hadFiles EXCEPT ![p] = content[target] # "empty"]
          /\ Goto(p, "recheck")
          /\ UNCHANGED err
    /\ UNCHANGED <<names, content, canceled, flags, own, staged, meddled>>

(* publishReplacingDirectory up to its preflight: open the destination and *)
(* read it through the handle.  Without --force it must hold no file, with *)
(* --force it may also be a complete dump.                                 *)
Inspect(p) ==
    /\ pc[p] = "inspect"
    /\ \/ /\ ~canceled[p]
          /\ target = None
          /\ Goto(p, "renameAgain")
          /\ UNCHANGED <<err, opened, hadFiles>>
       \/ /\ ~canceled[p]
          /\ target # None
          /\ \/ content[target] = "empty"
             \/ force[p] /\ content[target] = "complete"
          /\ opened' = [opened EXCEPT ![p] = target]
          /\ hadFiles' = [hadFiles EXCEPT ![p] = content[target] # "empty"]
          /\ Goto(p, "recheck")
          /\ UNCHANGED err
       \/ /\ target # None
          /\ ~force[p]
          /\ content[target] # "empty"
          /\ Fail(p, "overwrite")
          /\ UNCHANGED <<opened, hadFiles>>
       \/ /\ \/ Stopped(p)
             \/ force[p] /\ target # None /\ content[target] \notin {"empty", "complete"}
          /\ Fail(p, "failed")
          /\ UNCHANGED <<opened, hadFiles>>
    /\ UNCHANGED <<names, content, canceled, flags, own, staged, meddled>>

(* The rest of it before the exchange: open whatever is under the staging  *)
(* path and check that the destination is still the directory opened.      *)
Recheck(p) ==
    /\ pc[p] = "recheck"
    /\ \/ /\ ~canceled[p]
          /\ staging[p] # None
          /\ target = opened[p]
          /\ staged' = [staged EXCEPT ![p] = staging[p]]
          /\ Goto(p, "exchange")
          /\ UNCHANGED err
       \/ /\ Stopped(p) \/ staging[p] = None \/ target # opened[p]
          /\ Fail(p, "failed")
          /\ UNCHANGED staged
    /\ UNCHANGED <<names, content, canceled, flags, own, opened, hadFiles, meddled>>

(* The exchange, bracketed by effectcommit.Run, which checks the context   *)
(* first.                                                                  *)
Exchange(p) ==
    /\ pc[p] = "exchange"
    /\ \/ /\ ~canceled[p]
          /\ CanSwap(p)
          /\ Swap(p)
          /\ Goto(p, "verify")
          /\ UNCHANGED err
       \/ /\ Stopped(p) \/ ~CanSwap(p)
          /\ Fail(p, "failed")
          /\ UNCHANGED names
    /\ UNCHANGED <<content, canceled, flags, ids, meddled>>

(* Mutant of Verify: a failure found after the exchange is returned        *)
(* without undoing it.                                                     *)
VerifyWithoutRollback(p) ==
    /\ pc[p] = "verify"
    /\ \/ ~canceled[p] /\ Unchanged(p) /\ Goto(p, "quarantine") /\ UNCHANGED err
       \/ (Stopped(p) \/ ~Unchanged(p)) /\ Fail(p, "failed")
    /\ UNCHANGED <<names, content, canceled, flags, ids, meddled>>

(* After it both paths must hold what was expected, or nothing is undone;  *)
(* then the replaced root is validated again under the same context, and a *)
(* cancellation or a change found there is undone.                         *)
Verify(p) ==
    /\ pc[p] = "verify"
    /\ \/ /\ IOFault \/ staging[p] # opened[p] \/ target # staged[p]
          /\ Fail(p, "refused")
       \/ /\ staging[p] = opened[p]
          /\ target = staged[p]
          /\ \/ ~canceled[p] /\ Unchanged(p) /\ Goto(p, "quarantine")
             \/ Stopped(p) /\ Goto(p, "rollback")
             \/ ~Unchanged(p) /\ Goto(p, "rollback")
          /\ UNCHANGED err
    /\ UNCHANGED <<names, content, canceled, flags, ids, meddled>>

-----------------------------------------------------------------------------
(* removeReplacedDumpRoot.                                                 *)

(* Move whatever is under the staging path into a new private quarantine.  *)
Quarantine(p) ==
    /\ pc[p] = "quarantine"
    /\ \/ /\ staging[p] # None
          /\ cleanup' = [cleanup EXCEPT ![p] = staging[p]]
          /\ staging' = [staging EXCEPT ![p] = None]
          /\ Goto(p, "requarantine")
          /\ UNCHANGED <<target, discard, aside>>
       \/ /\ IOFault \/ staging[p] = None
          /\ Goto(p, "rollback")
          /\ UNCHANGED names
    /\ UNCHANGED <<content, err, canceled, flags, ids, meddled>>

(* Mutant of CheckQuarantine: what was moved is not identified.            *)
CheckQuarantineContent(p) ==
    /\ pc[p] = "requarantine"
    /\ \/ ~canceled[p] /\ Unchanged(p) /\ Goto(p, "clear")
       \/ (Stopped(p) \/ ~Unchanged(p)) /\ Goto(p, "restore")
    /\ UNCHANGED <<names, content, err, canceled, flags, ids, meddled>>

(* Identify and validate what was moved, under the context.                *)
CheckQuarantine(p) ==
    /\ pc[p] = "requarantine"
    /\ \/ /\ ~canceled[p]
          /\ cleanup[p] = opened[p]
          /\ Unchanged(p)
          /\ Goto(p, "clear")
       \/ /\ Stopped(p) \/ cleanup[p] # opened[p] \/ ~Unchanged(p)
          /\ Goto(p, "restore")
    /\ UNCHANGED <<names, content, err, canceled, flags, ids, meddled>>

(* Mutant of Restore: it replaces what took the staging path meanwhile.    *)
RestoreReplacing(p) ==
    /\ pc[p] = "restore"
    /\ staging' = [staging EXCEPT ![p] = cleanup[p]]
    /\ cleanup' = [cleanup EXCEPT ![p] = None]
    /\ Goto(p, "rollback")
    /\ UNCHANGED <<target, discard, aside, err, content, canceled, flags, ids, meddled>>

(* Move it back, unless the staging path is taken; only then is the        *)
(* exchange still safe to undo.                                            *)
Restore(p) ==
    /\ pc[p] = "restore"
    /\ \/ /\ staging[p] = None
          /\ staging' = [staging EXCEPT ![p] = cleanup[p]]
          /\ cleanup' = [cleanup EXCEPT ![p] = None]
          /\ Goto(p, "rollback")
          /\ UNCHANGED <<target, discard, aside, err>>
       \/ /\ IOFault \/ staging[p] # None
          /\ Fail(p, "refused")
          /\ UNCHANGED names
    /\ UNCHANGED <<content, canceled, flags, ids, meddled>>

(* Mutant of Clear: a failure half-way is taken for one that can be undone. *)
ClearUndone(p) ==
    /\ pc[p] = "clear"
    /\ \/ /\ content[opened[p]] \notin {"empty", "unfinished"}
          /\ content' = [content EXCEPT ![opened[p]] = "unfinished"]
          /\ UNCHANGED pc
       \/ /\ content' = [content EXCEPT ![opened[p]] = "empty"]
          /\ Goto(p, "done")
       \/ /\ IOFault
          /\ Goto(p, "restore")
          /\ UNCHANGED content
    /\ UNCHANGED <<names, err, canceled, flags, ids, meddled>>

(* clearDumpRootContext with a background context, through the handle of   *)
(* the replaced root: entry by entry, and not interruptible except by a    *)
(* failure, after which the new dump stays in place.                       *)
Clear(p) ==
    /\ pc[p] = "clear"
    /\ \/ /\ content[opened[p]] \notin {"empty", "unfinished"}
          /\ content' = [content EXCEPT ![opened[p]] = "unfinished"]
          /\ UNCHANGED <<pc, err>>
       \/ /\ content' = [content EXCEPT ![opened[p]] = "empty"]
          /\ Goto(p, "done")
          /\ UNCHANGED err
       \/ /\ IOFault
          /\ Fail(p, "residue")
          /\ UNCHANGED content
    /\ UNCHANGED <<names, canceled, flags, ids, meddled>>

-----------------------------------------------------------------------------
(* rollbackExchangedDirectory: check both identities, exchange back, check *)
(* them again.                                                             *)

(* Mutant of Rollback: the failure is reported and nothing is undone.      *)
RollbackSkipped(p) ==
    /\ pc[p] = "rollback"
    /\ Fail(p, "failed")
    /\ UNCHANGED <<names, content, canceled, flags, ids, meddled>>

Rollback(p) ==
    /\ pc[p] = "rollback"
    /\ \/ /\ staging[p] = opened[p]
          /\ target = staged[p]
          /\ Goto(p, "rollbackExchange")
          /\ UNCHANGED err
       \/ /\ IOFault \/ staging[p] # opened[p] \/ target # staged[p]
          /\ Fail(p, "refused")
    /\ UNCHANGED <<names, content, canceled, flags, ids, meddled>>

(* Mutant of RollbackExchange: the cause of a successful rollback is lost. *)
RollbackExchangeSilent(p) ==
    /\ pc[p] = "rollbackExchange"
    /\ CanSwap(p)
    /\ Swap(p)
    /\ Goto(p, "cleanup")
    /\ UNCHANGED <<err, content, canceled, flags, ids, meddled>>

RollbackExchange(p) ==
    /\ pc[p] = "rollbackExchange"
    /\ \/ /\ CanSwap(p)
          /\ Swap(p)
          /\ \/ staging[p] = opened[p] /\ target = staged[p] /\ Fail(p, "failed")
             \/ (IOFault \/ staging[p] # opened[p] \/ target # staged[p])
                   /\ Fail(p, "refused")
       \/ /\ IOFault \/ ~CanSwap(p)
          /\ Fail(p, "refused")
          /\ UNCHANGED names
    /\ UNCHANGED <<content, canceled, flags, ids, meddled>>

-----------------------------------------------------------------------------
(* cleanupStagingPath, deferred: it ignores the context and reports no     *)
(* error of its own.                                                       *)

(* Mutant of Cleanup: it runs under the context of the publication.        *)
CleanupInContext(p) ==
    /\ pc[p] = "cleanup"
    /\ \/ ~canceled[p] /\ staging[p] = own[p] /\ Goto(p, "relocate")
       \/ (Stopped(p) \/ staging[p] # own[p]) /\ Goto(p, "done")
    /\ UNCHANGED <<names, content, err, canceled, flags, ids, meddled>>

(* Only the directory this publisher created is its to remove.             *)
Cleanup(p) ==
    /\ pc[p] = "cleanup"
    /\ \/ staging[p] = own[p] /\ Goto(p, "relocate")
       \/ (IOFault \/ staging[p] # own[p]) /\ Goto(p, "done")
    /\ UNCHANGED <<names, content, err, canceled, flags, ids, meddled>>

Relocate(p) ==
    /\ pc[p] = "relocate"
    /\ \/ /\ staging[p] # None
          /\ discard' = [discard EXCEPT ![p] = staging[p]]
          /\ staging' = [staging EXCEPT ![p] = None]
          /\ Goto(p, "checkDiscard")
          /\ UNCHANGED <<target, cleanup, aside>>
       \/ /\ IOFault \/ staging[p] = None
          /\ Goto(p, "done")
          /\ UNCHANGED names
    /\ UNCHANGED <<content, err, canceled, flags, ids, meddled>>

(* Mutant of CheckDiscard: what was relocated is not identified.           *)
CheckDiscardSkipped(p) ==
    /\ pc[p] = "checkDiscard"
    /\ Goto(p, "discard")
    /\ UNCHANGED <<names, content, err, canceled, flags, ids, meddled>>

CheckDiscard(p) ==
    /\ pc[p] = "checkDiscard"
    /\ \/ discard[p] = own[p] /\ Goto(p, "discard")
       \/ (IOFault \/ discard[p] # own[p]) /\ Goto(p, "undiscard")
    /\ UNCHANGED <<names, content, err, canceled, flags, ids, meddled>>

Discard(p) ==
    /\ pc[p] = "discard"
    /\ \/ /\ content[discard[p]] \notin {"empty", "unfinished"}
          /\ content' = [content EXCEPT ![discard[p]] = "unfinished"]
          /\ UNCHANGED pc
       \/ /\ content' = [content EXCEPT ![discard[p]] = "empty"]
          /\ Goto(p, "done")
       \/ /\ IOFault
          /\ Goto(p, "undiscard")
          /\ UNCHANGED content
    /\ UNCHANGED <<names, err, canceled, flags, ids, meddled>>

(* What was relocated goes back to the staging path if that is free.       *)
Undiscard(p) ==
    /\ pc[p] = "undiscard"
    /\ \/ /\ staging[p] = None
          /\ staging' = [staging EXCEPT ![p] = discard[p]]
          /\ discard' = [discard EXCEPT ![p] = None]
          /\ UNCHANGED <<target, cleanup, aside>>
       \/ /\ IOFault \/ staging[p] # None
          /\ UNCHANGED names
    /\ Goto(p, "done")
    /\ UNCHANGED <<content, err, canceled, flags, ids, meddled>>

-----------------------------------------------------------------------------
(* What happens to a publisher from outside.                               *)

Cancel(p) ==
    /\ "cancel" \in Faults
    /\ ~canceled[p]
    /\ pc[p] \notin {"done", "killed"}
    /\ canceled' = [canceled EXCEPT ![p] = TRUE]
    /\ UNCHANGED <<names, content, pc, err, flags, ids, meddled>>

Crash(p) ==
    /\ "crash" \in Faults
    /\ pc[p] \notin {"done", "killed"}
    /\ Goto(p, "killed")
    /\ UNCHANGED <<names, content, err, canceled, flags, ids, meddled>>

(* The outside program runs under the same account, so it can reach the    *)
(* destination and the staging paths; a quarantine is private and is not   *)
(* touched (the trust boundary the code states).                           *)

Meddle ==
    /\ meddled < MaxMeddling
    /\ meddled' = meddled + 1
    /\ UNCHANGED <<cleanup, discard, pc, err, canceled, flags, ids>>

InsertFile(d) ==
    /\ d # None
    /\ content' = [content EXCEPT ![d] = "foreign"]
    /\ UNCHANGED <<target, staging, aside>>

MeddleTarget ==
    /\ Meddle
    /\ \/ /\ "insertTarget" \in Faults
          /\ InsertFile(target)
       \/ /\ "swapTarget" \in Faults
          /\ target # None
          /\ target' = None
          /\ aside' = aside \cup {target}
          /\ UNCHANGED <<staging, content>>
       \/ /\ "swapTarget" \in Faults
          /\ target = None
          /\ \E d \in aside \cup Fresh :
                /\ target' = d
                /\ aside' = aside \ {d}
          /\ UNCHANGED <<staging, content>>

MeddleStaging(p) ==
    /\ Meddle
    /\ \/ /\ "insertStaging" \in Faults
          /\ InsertFile(staging[p])
       \/ /\ "swapStaging" \in Faults
          /\ staging[p] # None
          /\ staging' = [staging EXCEPT ![p] = None]
          /\ aside' = aside \cup {staging[p]}
          /\ UNCHANGED <<target, content>>
       \/ /\ "swapStaging" \in Faults
          /\ staging[p] = None
          /\ pc[p] # "begin"
          /\ \E d \in aside \cup Fresh :
                /\ staging' = [staging EXCEPT ![p] = d]
                /\ aside' = aside \ {d}
          /\ UNCHANGED <<target, content>>

(* Everyone has finished.                                                  *)
Finished ==
    /\ \A p \in Publisher : pc[p] \in {"done", "killed"}
    /\ UNCHANGED vars

Step(p) ==
    \/ Begin(p) \/ WriteFiles(p) \/ WriteManifest(p) \/ Validate(p)
    \/ RenameNoReplace(p) \/ Inspect(p) \/ Recheck(p) \/ Exchange(p) \/ Verify(p)
    \/ Quarantine(p) \/ CheckQuarantine(p) \/ Restore(p) \/ Clear(p)
    \/ Rollback(p) \/ RollbackExchange(p)
    \/ Cleanup(p) \/ Relocate(p) \/ CheckDiscard(p) \/ Discard(p) \/ Undiscard(p)

Next ==
    \/ \E p \in Publisher : Step(p) \/ Cancel(p) \/ Crash(p) \/ MeddleStaging(p)
    \/ MeddleTarget
    \/ Finished

Spec == Init /\ [][Next]_vars

(* The operating system keeps running a publisher that is not killed.      *)
FairSpec == Spec /\ \A p \in Publisher : WF_vars(Step(p))

-----------------------------------------------------------------------------
(* Properties.                                                             *)

Ended(p) == pc[p] = "done"

(* The destination never shows half a dump: what is being written, or      *)
(* being removed, is under a hidden name at every step, whatever is        *)
(* canceled, killed or racing.                                             *)
WholeTarget == target # None => content[target] # "unfinished"

(* Installing a dump leaves no moment at which the destination is absent,  *)
(* so no crash can leave it absent: a publisher never takes away what is   *)
(* there without putting something in its place.                           *)
NeverAbsent ==
    [][target # None /\ target' = None => meddled' # meddled]_vars

(* The content of directory d is removed in this step.                     *)
Emptied(d) ==
    /\ content[d] \in {"complete", "partial", "foreign"}
    /\ content'[d] \in {"empty", "unfinished"}

(* Only two kinds of content are ever deleted, and only while the          *)
(* directory is out of everyone's sight in a quarantine: a publisher's own *)
(* unpublished staging directory, and, with --force, a complete dump that  *)
(* a publisher has replaced.  A partial dump, a foreign directory or a     *)
(* dump that someone changed after it was validated is never deleted.      *)
OnlyReplacedDumpsDeleted ==
    [][\A d \in Dir : Emptied(d) =>
          \E p \in Publisher :
             \/ d = own[p] /\ discard[p] = d
             \/ d = opened[p] /\ cleanup[p] = d /\ force[p] /\ content[d] = "complete"]_vars

(* No directory is lost by a rename or an exchange: what has a name keeps  *)
(* one.                                                                    *)
NothingUnlinked == [][\A d \in Dir : HasName(d) => HasName(d)']_vars

(* Both: whatever another program moves, puts back or adds, nothing is     *)
(* lost but what a run staged or was told to replace                       *)
(* (removeReplacedDumpRoot, cleanupStagingPath).                           *)
NothingElseIsLost == OnlyReplacedDumpsDeleted /\ NothingUnlinked

(* With one publisher, and an outside program that at most adds files, the *)
(* error tells what is at the destination.  An ordinary failure leaves the *)
(* directory that was there before anything ran, none if there was none;   *)
(* success, or a failure to clear the replaced dump, the new one.          *)
ErrorTellsTarget ==
    \A t \in Slot : target = t =>
        [](\A p \in Publisher : Ended(p) =>
              /\ err[p] \in {"failed", "overwrite"} => target = t
              /\ err[p] \in {"nil", "residue"} => target = own[p])

-----------------------------------------------------------------------------
(* The inductive invariant behind OnlyReplacedDumpsDeleted and             *)
(* NothingUnlinked.                                                        *)

(* No directory has two names.                                             *)
Distinct ==
    /\ target \notin aside
    /\ \A p \in Publisher :
        /\ staging[p] # None => staging[p] # target /\ staging[p] \notin aside
        /\ cleanup[p] # None => cleanup[p] # target /\ cleanup[p] \notin aside
        /\ discard[p] # None => discard[p] # target /\ discard[p] \notin aside
        /\ \A q \in Publisher :
            /\ staging[p] # None =>
                  /\ staging[p] = staging[q] => p = q
                  /\ staging[p] # cleanup[q]
                  /\ staging[p] # discard[q]
            /\ cleanup[p] # None =>
                  /\ cleanup[p] = cleanup[q] => p = q
                  /\ cleanup[p] # discard[q]
            /\ discard[p] # None => (discard[p] = discard[q] => p = q)

(* A directory nothing leads to has never held anything.                   *)
FreshIsEmpty == \A d \in Dir : content[d] # "empty" => HasName(d)

(* The identities a publisher relies on at the steps that use them: the    *)
(* directory it clears is the one it validated, still as validated, and    *)
(* the one it discards is its own.                                         *)
Identified ==
    \A p \in Publisher :
        /\ hadFiles[p] => force[p]
        /\ pc[p] = "begin" => staging[p] = None
        /\ cleanup[p] # None =>
              pc[p] \in {"requarantine", "restore", "clear", "killed"} \cup Leaving
        /\ discard[p] # None =>
              pc[p] \in {"checkDiscard", "discard", "undiscard", "done", "killed"}
        /\ pc[p] \in {"write", "manifest", "validate"} => own[p] # None
        /\ pc[p] \in Exchanged \cup {"recheck", "exchange"} => opened[p] # None
        /\ pc[p] \in {"requarantine", "restore"} => cleanup[p] # None
        /\ pc[p] \in {"checkDiscard", "undiscard", "discard"} => discard[p] # None
        /\ pc[p] = "discard" => discard[p] = own[p]
        /\ pc[p] = "clear" =>
              /\ cleanup[p] = opened[p]
              /\ content[opened[p]] \in {"complete", "unfinished", "empty"}
              /\ content[opened[p]] = "complete" => force[p]

IInv == TypeOK /\ Distinct /\ FreshIsEmpty /\ Identified

(* What WholeTarget rests on when staging paths are left alone: from its   *)
(* validation to the end of the exchange, what a publisher has under its   *)
(* staging path, and what it may still put back, is not half a dump.       *)
WholeWhereSeen ==
    /\ WholeTarget
    /\ \A d \in aside : content[d] # "unfinished"
    /\ \A p \in Publisher :
        /\ pc[p] \in Exchanged \cup {"rename", "renameAgain", "inspect", "recheck", "exchange"}
              => (staging[p] # None => content[staging[p]] # "unfinished")
        /\ pc[p] \in {"requarantine", "restore"} => content[cleanup[p]] # "unfinished"

-----------------------------------------------------------------------------
(* Racing publishers.  A publisher that reports an ordinary failure has    *)
(* not left its dump at the destination, not even through the exchange or  *)
(* the rollback of another one.                                            *)
FailedNotInstalled ==
    \A p \in Publisher :
        Ended(p) /\ err[p] \in {"failed", "overwrite"} /\ own[p] # None
            => target # own[p]

(* Two publishers without --force cannot both succeed: neither the rename  *)
(* nor the replacement of an empty directory lets the second one in.       *)
AtMostOneDefaultSucceeds ==
    \A p, q \in Publisher :
        /\ Ended(p) /\ err[p] = "nil" /\ ~force[p]
        /\ Ended(q) /\ err[q] = "nil" /\ ~force[q]
        => p = q

(* A dump reported as published is at the destination, or another          *)
(* publisher exchanged it away and keeps it whole in its staging path, or  *)
(* that publisher ran with --force and quarantined it as a complete dump.  *)
SuccessNotLost ==
    \A p \in Publisher : Ended(p) /\ err[p] = "nil" =>
        \/ target = own[p] /\ content[own[p]] = status[p]
        \/ \E q \in Publisher \ {p} :
              \/ staging[q] = own[p] /\ content[own[p]] = status[p]
              \/ cleanup[q] = own[p] /\ force[q] /\ status[p] = "complete"

(* Both: what a run reported of its dump stays so, whatever others that    *)
(* race with it do.                                                        *)
ReportsHold == FailedNotInstalled /\ SuccessNotLost

(* What docs/RESOURCES.md says of the default: it refuses to overwrite     *)
(* files, so a published dump stays at the destination as long as nobody   *)
(* uses --force.                                                           *)
DefaultKeepsPublished ==
    (\A q \in Publisher : ~force[q]) =>
        \A p \in Publisher : Ended(p) /\ err[p] = "nil" => target = own[p]

(* Every publisher that is not killed ends, and if it reports an ordinary  *)
(* failure the tenant data it had staged is gone by then.                  *)
FailuresLeaveNoData ==
    \A p \in Publisher :
        <>(Ended(p) /\ (err[p] \in {"failed", "overwrite"} /\ own[p] # None
                            => content[own[p]] = "empty"))

-----------------------------------------------------------------------------
(* The abstract view of one publisher: AtomicPublish.                      *)

Phase(p) ==
    IF pc[p] \in Exchanged THEN "installed"
    ELSE IF pc[p] \notin Leaving THEN IF pc[p] = "killed" THEN "dead" ELSE "pending"
    ELSE IF err[p] = "nil" THEN "success"
    ELSE IF err[p] \in {"refused", "residue"} THEN "uncertain"
    ELSE "failure"

Atomic == INSTANCE AtomicPublish WITH
    Client   <- Publisher,
    Object   <- Dir,
    Nothing  <- None,
    slot     <- target,
    phase    <- [p \in Publisher |-> Phase(p)],
    replaced <- [p \in Publisher |-> IF pc[p] \in Exchanged THEN opened[p] ELSE None]

(* One publisher implements an atomic, revocable switch of the destination *)
(* (checked where the outside program only adds files).                    *)
ImplementsAtomicPublish == Atomic!Spec

=============================================================================
