---------------------------- MODULE ArtifactWrite ----------------------------
(***************************************************************************)
(* The files of a dump (internal/dump: dump.go writeArtifactContext and    *)
(* writeFileExclusiveContext, artifact.go validateArtifactRootContext,     *)
(* force.go clearDumpRootContext; internal/diff/diff.go, the loader).      *)
(*                                                                         *)
(* A run writes its dump into a directory of its own, fresh and private.   *)
(* It puts each file in place by creating a temporary file, writing,       *)
(* syncing and renaming it to a name nothing has; manifest.json comes      *)
(* last.  It may be canceled or killed between any two steps, and any step *)
(* may fail.  Later the directory is cleared: by the run itself if it did  *)
(* not publish it, or by a run with --force that replaces it.              *)
(*                                                                         *)
(* Nothing locks the directory.  A reader may be at it at any time, with   *)
(* an open handle that follows it wherever it is moved; a program of the   *)
(* same user may put files into it; and the machine may lose power.  The   *)
(* directory itself is never synced, so a power loss forgets any of the    *)
(* renames.                                                                *)
(***************************************************************************)
EXTENDS Naturals

CONSTANTS
    Resource,    \* resource files
    Faults,      \* a subset of {"cancel", "io", "kill", "foreign"}
    MaxLosses    \* bound on power losses

Meta == {"manifest", "report", "errors"}
Path == Resource \cup Meta

ASSUME WriteAssumption ==
    /\ Resource \cap (Meta \cup {"none"}) = {}
    /\ Faults \subseteq {"cancel", "io", "kill", "foreign"}
    /\ MaxLosses \in Nat

VARIABLES
    gathered,    \* the resources the dump is of
    failures,    \* those that could not be collected
    file,        \* what is under each final name
    temp,        \* the temporary file
    cur,         \* the final name it is for
    written,     \* the files the writer has finalized
    wpc,
    canceled,
    clear,       \* whether the directory is being cleared
    aim,         \* what the reader is after
    rpc,
    got,         \* the files it has read whole
    losses

contents == <<gathered, failures>>
writer == <<cur, written, wpc, canceled>>
reader == <<aim, rpc, got>>
artifact == <<contents, file, temp, writer, clear, reader, losses>>

(* A file is absent or somebody else's; or it is the run's, of which some  *)
(* of the data is written, all of it, or all of it and is on the disk.     *)
Own == {"short", "whole", "synced"}
Active == wpc \in {"begin", "next", "write", "sync", "rename"}

WriteTypeOK ==
    /\ gathered \subseteq Resource
    /\ failures \subseteq Resource
    /\ file \in [Path -> Own \cup {"none", "foreign"}]
    /\ temp \in Own \cup {"none"}
    /\ cur \in Path \cup {"none"}
    /\ written \subseteq Path
    /\ wpc \in {"begin", "next", "write", "sync", "rename", "done", "failed", "killed"}
    /\ canceled \in BOOLEAN
    /\ clear \in {"none", "running", "over"}
    /\ aim \in {"validate", "load"}
    /\ rpc \in {"manifest", "report", "resources", "errors", "inventory", "valid", "invalid"}
    /\ got \subseteq Path
    /\ losses \in 0..MaxLosses

(* The files of the dump; errors.ndjson only if something failed.          *)
Plan == gathered \cup {"manifest", "report"} \cup (IF failures # {} THEN {"errors"} ELSE {})

Present == {f \in Path : file[f] # "none"}
Mine(f) == file[f] \in Own
Whole(f) == file[f] \in {"whole", "synced"}

WriteInit ==
    /\ gathered \in SUBSET Resource
    /\ failures \in SUBSET Resource
    /\ gathered \cap failures = {}
    /\ file = [f \in Path |-> "none"]
    /\ temp = "none"
    /\ cur = "none"
    /\ written = {}
    /\ wpc = "begin"
    /\ canceled = FALSE
    /\ clear = "none"
    /\ aim \in {"validate", "load"}
    /\ rpc = "manifest"
    /\ got = {}
    /\ losses = 0

-----------------------------------------------------------------------------
(* The writer.                                                             *)

Goto(l) == wpc' = l
Stopped == canceled \/ "io" \in Faults

(* Every path of the dump must be absent before anything is written.       *)
Begin ==
    /\ wpc = "begin"
    /\ \/ ~canceled /\ Plan \cap Present = {} /\ Goto("next")
       \/ (Stopped \/ Plan \cap Present # {}) /\ Goto("failed")
    /\ UNCHANGED <<contents, file, temp, cur, written, canceled, clear, reader, losses>>

(* Mutant of Following: the manifest is not kept for the end.              *)
FollowingAny(f) == f \in Plan \ written

(* The order of the files: resources, report, errors, manifest.            *)
Following(f) ==
    /\ f \in Plan \ written
    /\ f = "report" => gathered \subseteq written
    /\ f = "errors" => "report" \in written
    /\ f = "manifest" => Plan \ {"manifest"} \subseteq written
    /\ f \in Resource => "report" \notin written

(* The path is looked at again, and the temporary file created.            *)
Open ==
    /\ wpc = "next"
    /\ \E f \in Plan :
          /\ Following(f)
          /\ \/ ~canceled /\ file[f] = "none" /\ temp' = "short" /\ cur' = f /\ Goto("write")
             \/ (Stopped \/ file[f] # "none") /\ Goto("failed") /\ UNCHANGED <<temp, cur>>
    /\ UNCHANGED <<contents, file, written, canceled, clear, reader, losses>>

(* The deferred removal of the temporary file, whose own error is ignored. *)
Abandon ==
    /\ temp' = "none" \/ ("io" \in Faults /\ UNCHANGED temp)
    /\ Goto("failed")

Write ==
    /\ wpc = "write"
    /\ \/ ~canceled /\ temp' = "whole" /\ Goto("sync")
       \/ Stopped /\ Abandon
    /\ UNCHANGED <<contents, file, cur, written, canceled, clear, reader, losses>>

(* Mutant of Sync: the temporary file is renamed before it is on the disk. *)
SyncSkipped ==
    /\ wpc = "sync"
    /\ Goto("rename")
    /\ UNCHANGED <<contents, file, temp, cur, written, canceled, clear, reader, losses>>

Sync ==
    /\ wpc = "sync"
    /\ \/ ~canceled /\ temp' = "synced" /\ Goto("rename")
       \/ Stopped /\ Abandon
    /\ UNCHANGED <<contents, file, cur, written, canceled, clear, reader, losses>>

(* The temporary file becomes the final one.                               *)
Place ==
    /\ file' = [file EXCEPT ![cur] = temp]
    /\ temp' = "none"
    /\ written' = written \cup {cur}

AfterFile == IF cur = "manifest" THEN "done" ELSE "next"

(* Mutant of Rename: the context is checked after the rename.              *)
RenameThenCheck ==
    /\ wpc = "rename"
    /\ file[cur] = "none"
    /\ Place
    /\ Goto(IF canceled THEN "failed" ELSE AfterFile)
    /\ UNCHANGED <<contents, cur, canceled, clear, reader, losses>>

(* renameNoReplace; after the manifest the writer returns at once.         *)
Rename ==
    /\ wpc = "rename"
    /\ \/ ~canceled /\ file[cur] = "none" /\ Place /\ Goto(AfterFile)
       \/ (Stopped \/ file[cur] # "none") /\ Abandon /\ UNCHANGED <<file, written>>
    /\ UNCHANGED <<contents, cur, canceled, clear, reader, losses>>

-----------------------------------------------------------------------------
(* What happens to the writer and to the directory.                        *)

Cancel ==
    /\ "cancel" \in Faults
    /\ Active /\ ~canceled
    /\ canceled' = TRUE
    /\ UNCHANGED <<contents, file, temp, cur, written, wpc, clear, reader, losses>>

Kill ==
    /\ "kill" \in Faults
    /\ Active
    /\ Goto("killed")
    /\ UNCHANGED <<contents, file, temp, cur, written, canceled, clear, reader, losses>>

(* Somebody puts a file under a name of the dump; it is no part of one.    *)
Intrude ==
    /\ "foreign" \in Faults
    /\ clear = "none"
    /\ \E f \in Path \ Present : file' = [file EXCEPT ![f] = "foreign"]
    /\ UNCHANGED <<contents, temp, writer, clear, reader, losses>>

(* All processes end; any rename may be forgotten, and a file whose data   *)
(* was not synced is short.                                                *)
Survives(x) == IF x = "whole" THEN "short" ELSE x

PowerLoss ==
    /\ losses < MaxLosses
    /\ losses' = losses + 1
    /\ \E lost \in SUBSET Present :
          file' = [f \in Path |-> IF f \in lost THEN "none" ELSE Survives(file[f])]
    /\ temp' \in {"none", Survives(temp)}
    /\ wpc' = IF Active THEN "killed" ELSE wpc
    /\ clear' = IF clear = "running" THEN "over" ELSE clear
    /\ rpc' = "manifest"
    /\ got' = {}
    /\ UNCHANGED <<contents, cur, written, canceled, aim>>

(* The run clears what it did not publish, if it still can; a run with     *)
(* --force clears what it found to be a complete dump and has replaced.    *)
StartClear ==
    /\ clear = "none"
    /\ \/ wpc \in {"failed", "done"} /\ losses = 0
       \/ /\ wpc = "done" /\ failures = {}
          /\ Present = Plan /\ (\A f \in Plan : Whole(f)) /\ temp = "none"
    /\ clear' = "running"
    /\ UNCHANGED <<contents, file, temp, writer, reader, losses>>

(* One entry after the other, in the order of the directory.               *)
RemoveEntry ==
    /\ clear = "running"
    /\ \/ \E f \in Present : file' = [file EXCEPT ![f] = "none"] /\ UNCHANGED temp
       \/ temp # "none" /\ temp' = "none" /\ UNCHANGED file
    /\ UNCHANGED <<contents, writer, clear, reader, losses>>

EndClear ==
    /\ clear = "running"
    /\ (Present = {} /\ temp = "none") \/ {"io", "kill"} \cap Faults # {}
    /\ clear' = "over"
    /\ UNCHANGED <<contents, file, temp, writer, reader, losses>>

-----------------------------------------------------------------------------
(* The reader.  A publisher that validates a dump reads the resources      *)
(* before it looks for anything missing or unexpected; the loader of diff, *)
(* list and get reads them after that.                                     *)

AfterReport == IF aim = "validate" THEN "resources" ELSE "errors"
AfterResources == IF aim = "validate" THEN "errors" ELSE "valid"
AfterInventory == IF aim = "validate" THEN "valid" ELSE "resources"

(* A file that is not there or does not parse refuses the dump.            *)
ReadFile(f, next) ==
    IF Whole(f) THEN rpc' = next /\ got' = got \cup {f}
    ELSE rpc' = "invalid" /\ UNCHANGED got

ReadManifest ==
    /\ rpc = "manifest"
    /\ ReadFile("manifest", "report")
    /\ UNCHANGED <<contents, file, temp, writer, clear, aim, losses>>

ReadReport ==
    /\ rpc = "report"
    /\ ReadFile("report", AfterReport)
    /\ UNCHANGED <<contents, file, temp, writer, clear, aim, losses>>

(* Mutant of ScanResource: a file that is not there is passed over.        *)
ScanResourceIfThere ==
    /\ rpc = "resources"
    /\ \/ /\ {r \in gathered : Mine(r)} \subseteq got
          /\ rpc' = AfterResources
          /\ UNCHANGED got
       \/ \E r \in gathered \ got : Mine(r) /\ ReadFile(r, "resources")
    /\ UNCHANGED <<contents, file, temp, writer, clear, aim, losses>>

(* Every file of a resource that the manifest says was collected.          *)
ScanResource ==
    /\ rpc = "resources"
    /\ \/ gathered \subseteq got /\ rpc' = AfterResources /\ UNCHANGED got
       \/ \E r \in gathered \ got : ReadFile(r, "resources")
    /\ UNCHANGED <<contents, file, temp, writer, clear, aim, losses>>

ReadErrors ==
    /\ rpc = "errors"
    /\ IF failures # {} THEN ReadFile("errors", "inventory")
       ELSE /\ rpc' = IF "errors" \in Present THEN "invalid" ELSE "inventory"
            /\ UNCHANGED got
    /\ UNCHANGED <<contents, file, temp, writer, clear, aim, losses>>

(* No file is missing, and none is there that the manifest does not name,  *)
(* temporary files included.                                               *)
Inventory ==
    /\ rpc = "inventory"
    /\ rpc' = IF Present = Plan /\ temp = "none" THEN AfterInventory ELSE "invalid"
    /\ UNCHANGED <<contents, file, temp, writer, clear, aim, got, losses>>

(* The reader is canceled, or cannot read.                                 *)
StopReading ==
    /\ {"cancel", "io"} \cap Faults # {}
    /\ rpc \notin {"valid", "invalid"}
    /\ rpc' = "invalid"
    /\ UNCHANGED <<contents, file, temp, writer, clear, aim, got, losses>>

(* Nobody has anything left to do.                                         *)
Finished ==
    /\ ~Active /\ clear # "running" /\ rpc \in {"valid", "invalid"}
    /\ UNCHANGED artifact

WriteNext ==
    \/ Begin \/ Open \/ Write \/ Sync \/ Rename
    \/ Cancel \/ Kill \/ Intrude \/ PowerLoss
    \/ StartClear \/ RemoveEntry \/ EndClear
    \/ ReadManifest \/ ReadReport \/ ScanResource \/ ReadErrors \/ Inventory \/ StopReading
    \/ Finished

WriteSpec == WriteInit /\ [][WriteNext]_artifact

-----------------------------------------------------------------------------
(* Properties.                                                             *)

(* A manifest is evidence: the run that wrote it has not failed, however   *)
(* it was stopped, and every other file of its dump is in place until the  *)
(* directory is cleared or power is lost ("never a manifest that falsely   *)
(* declares the artifact complete", writeArtifactContext).                 *)
ManifestLast ==
    Mine("manifest") =>
        /\ wpc = "done"
        /\ losses = 0 /\ clear = "none" => \A f \in Plan : Mine(f)

(* No file of the run under a final name is ever half written, even after  *)
(* a power loss: a reader finds whole files or none.                       *)
FinalFilesWhole == \A f \in Path : Mine(f) => Whole(f)

(* Whoever accepts a dump has read every file of it whole, and of a run    *)
(* that reported success, though files were added, forgotten or cleared    *)
(* while it was reading; the loader reads the resources when it has looked *)
(* for missing files already (validateArtifactRootContext, loadDump).      *)
ValidIsWhole == rpc = "valid" => wpc = "done" /\ got = Plan

-----------------------------------------------------------------------------
(* The inductive invariant behind them.                                    *)

(* What the writer knows while it works: the file it is at is the next     *)
(* one, and what it finalized is still there, for only a power loss and    *)
(* clearing take files away, and neither happens before it ends.           *)
WriterInv ==
    /\ wpc = "begin" => written = {}
    /\ wpc \in {"write", "sync", "rename"} => Following(cur)
    /\ wpc = "sync" => temp = "whole"
    /\ wpc = "rename" => temp = "synced"
    /\ Active => losses = 0 /\ clear = "none"
    /\ losses = 0 /\ clear = "none" => \A f \in written : Mine(f)
    /\ "manifest" \in written => wpc = "done" /\ Plan \subseteq written

(* What the directory holds of the run is synced, and was finalized.       *)
FileInv == \A f \in Path : Mine(f) => file[f] = "synced" /\ f \in written

(* What the reader has read by now.                                        *)
Errors == Plan \cap {"errors"}
ReaderInv ==
    /\ rpc = "manifest" => got = {}
    /\ rpc \notin {"manifest", "invalid"} => "manifest" \in got /\ "manifest" \in written
    /\ rpc \in {"resources", "errors", "inventory", "valid"} => "report" \in got
    /\ rpc \in {"errors", "inventory"} /\ aim = "validate" => gathered \subseteq got
    /\ rpc = "inventory" => Errors \subseteq got
    /\ rpc = "resources" /\ aim = "load" => Errors \subseteq got
    /\ rpc = "valid" => gathered \cup Errors \subseteq got
    /\ got \subseteq Plan

WInv == WriteTypeOK /\ WriterInv /\ FileInv /\ ReaderInv

=============================================================================
