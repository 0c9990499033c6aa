------------------------------ MODULE Publish ------------------------------
(***************************************************************************)
(* fsutil.PublishAtomic, preceded by the preflight every caller runs       *)
(* (app.prepareOutput), executed by several operations on one final path.  *)
(* Each system call is a step that may succeed or fail; between any two    *)
(* steps another operation may run, another program may create the target, *)
(* the process may be killed, or the machine may lose power.               *)
(*                                                                         *)
(* The platform is left open: a renameNoReplace may be one system call, as *)
(* on linux, darwin and windows, or the link and removal of the others.    *)
(*                                                                         *)
(* The file system is modelled as the code relies on it.  dir is the       *)
(* directory as processes see it, disk the directory as last written back; *)
(* written and durable count the chunks of an operation's file in the page *)
(* cache and on the medium.  Nothing ties the write-back of the directory  *)
(* to that of the data: that is what PublishAtomic's Sync is for.          *)
(***************************************************************************)
EXTENDS Naturals

CONSTANTS Ops,             \* publication attempts on the same final path
          Prior,           \* a file another program created there
          NoFile,          \* a name that is absent
          Final,           \* the name finalPath
          Chunks,          \* writes the write callback makes before it returns nil
          MaxPowerLoss     \* bound: power losses in one behaviour

ASSUME ConstantsAssumption ==
    /\ Prior \notin Ops /\ NoFile \notin Ops
    /\ Final \notin Ops \cup {Prior, NoFile}
    /\ NoFile # Prior
    /\ Chunks \in Nat \ {0} /\ MaxPowerLoss \in Nat

Inodes == Ops \cup {Prior}
Names == Ops \cup {Final}    \* operation p's temporary file has the name p

VARIABLES dir, disk, written, durable, pc, allow, result, losses,
          late,  \* history: operations whose os.Remove failed after os.Link
          kept   \* history: operations whose deferred os.Remove failed

fsVars == <<dir, disk, written, durable>>
removals == <<late, kept>>
vars == <<fsVars, pc, allow, result, losses, removals>>

Active == {"preflight", "create", "write", "sync", "close", "rename",
           "unlink", "cleanup", "published"}
PC == {"idle", "done", "dead"} \cup Active

TypeOK ==
    /\ dir \in [Names -> Inodes \cup {NoFile}]
    /\ disk \in [Names -> Inodes \cup {NoFile}]
    /\ written \in [Ops -> 0..Chunks]
    /\ durable \in [Ops -> 0..Chunks]
    /\ pc \in [Ops -> PC]
    /\ allow \in [Ops -> BOOLEAN]
    /\ result \in [Ops -> {"none", "ok", "err"}]
    /\ losses \in 0..MaxPowerLoss
    /\ late \subseteq Ops /\ kept \subseteq Ops

Init ==
    /\ \E old \in {Prior, NoFile} :
          dir = [n \in Names |-> IF n = Final THEN old ELSE NoFile]
    /\ disk = dir
    /\ written = [p \in Ops |-> 0]
    /\ durable = [p \in Ops |-> 0]
    /\ pc = [p \in Ops |-> "idle"]
    /\ allow = [p \in Ops |-> FALSE]
    /\ result = [p \in Ops |-> "none"]
    /\ losses = 0
    /\ late = {} /\ kept = {}

-----------------------------------------------------------------------------
Goto(p, from, to) == pc[p] = from /\ pc' = [pc EXCEPT ![p] = to]

Finish(p, from, r) ==
    /\ Goto(p, from, "done")
    /\ result' = [result EXCEPT ![p] = r]

-----------------------------------------------------------------------------
(* Faulty variants of the actions below, one bug each; the properties must  *)
(* reject a specification that has one in place of the action it varies.    *)

\* The callback writes past the end of what it was given.
WriteOneMore(p) ==
    /\ pc[p] = "write"
    /\ IF written[p] <= Chunks
         THEN /\ written' = [written EXCEPT ![p] = @ + 1]
              /\ UNCHANGED pc
         ELSE /\ pc' = [pc EXCEPT ![p] = "sync"]
              /\ UNCHANGED written
    /\ UNCHANGED <<dir, disk, durable, allow, result, losses, removals>>

\* The callback swallows a write error.
WriteErrorSwallowed(p) ==
    /\ pc[p] = "write"
    /\ \/ /\ written[p] < Chunks
          /\ written' = [written EXCEPT ![p] = @ + 1]
          /\ UNCHANGED pc
       \/ /\ pc' = [pc EXCEPT ![p] = "sync"]
          /\ UNCHANGED written
    /\ UNCHANGED <<dir, disk, durable, allow, result, losses, removals>>

\* No tmp.Sync().
SyncSkipped(p) ==
    /\ Goto(p, "sync", "close")
    /\ UNCHANGED <<fsVars, allow, result, losses, removals>>

\* A step that may fail, such as the Chmod, comes after the rename.
StepFailsAfterRename(p) ==
    /\ pc[p] \in {"write", "sync", "close", "rename", "published"}
    /\ pc' = [pc EXCEPT ![p] = "cleanup"]
    /\ UNCHANGED <<fsVars, allow, result, losses, removals>>

\* The deferred function closes the temporary file and leaves it there.
CleanupClosesOnly(p) ==
    /\ Finish(p, "cleanup", "err")
    /\ UNCHANGED <<fsVars, allow, losses, removals>>

-----------------------------------------------------------------------------
(* PublishAtomic. *)

\* The caller chooses allowOverwrite (Protect's Overwrite; FALSE everywhere else).
Start(p) ==
    /\ Goto(p, "idle", "preflight")
    /\ \E a \in BOOLEAN : allow' = [allow EXCEPT ![p] = a]
    /\ UNCHANGED <<fsVars, result, losses, removals>>

\* ValidateOutputTarget: Stat may also fail, as may MkdirAll of the parent.
Preflight(p) ==
    /\ \/ /\ allow[p] \/ dir[Final] = NoFile
          /\ Goto(p, "preflight", "create")
          /\ UNCHANGED result
       \/ Finish(p, "preflight", "err")
    /\ UNCHANGED <<fsVars, allow, losses, removals>>

\* Before CreateTemp has succeeded no cleanup is deferred.
CreateTemp(p) ==
    /\ \/ /\ Goto(p, "create", "write")
          /\ dir' = [dir EXCEPT ![p] = p]
          /\ UNCHANGED result
       \/ /\ Finish(p, "create", "err")
          /\ UNCHANGED dir
    /\ UNCHANGED <<disk, written, durable, allow, losses, removals>>

\* One write of the callback; it returns nil only when all of them are done.
Write(p) ==
    /\ pc[p] = "write"
    /\ IF written[p] < Chunks
         THEN /\ written' = [written EXCEPT ![p] = @ + 1]
              /\ UNCHANGED pc
         ELSE /\ pc' = [pc EXCEPT ![p] = "sync"]
              /\ UNCHANGED written
    /\ UNCHANGED <<dir, disk, durable, allow, result, losses, removals>>

Sync(p) ==
    /\ Goto(p, "sync", "close")
    /\ durable' = [durable EXCEPT ![p] = written[p]]
    /\ UNCHANGED <<dir, disk, written, allow, result, losses, removals>>

\* Close and Chmod change nothing another process or a restart can observe.
Close(p) ==
    /\ Goto(p, "close", "rename")
    /\ UNCHANGED <<fsVars, allow, result, losses, removals>>

\* An error (or a panic) of the callback, Sync, Close, Chmod or the rename.
StepFails(p) ==
    /\ pc[p] \in {"write", "sync", "close", "rename"}
    /\ pc' = [pc EXCEPT ![p] = "cleanup"]
    /\ UNCHANGED <<fsVars, allow, result, losses, removals>>

MoveTo(p) == dir' = [dir EXCEPT ![Final] = p, ![p] = NoFile]

\* os.Rename, which replaces, or the renameNoReplace of the platform.
Rename(p) ==
    /\ \/ /\ allow[p]
          /\ Goto(p, "rename", "published")
          /\ MoveTo(p)
       \/ /\ ~allow[p] /\ dir[Final] = NoFile
          /\ Goto(p, "rename", "published")
          /\ MoveTo(p)
       \/ /\ ~allow[p] /\ dir[Final] = NoFile
          /\ Goto(p, "rename", "unlink")
          /\ dir' = [dir EXCEPT ![Final] = p]
    /\ UNCHANGED <<disk, written, durable, allow, result, losses, removals>>

\* os.Remove after os.Link in rename_other.go; its error is the caller's error.
Unlink(p) ==
    /\ \/ /\ Goto(p, "unlink", "published")
          /\ dir' = [dir EXCEPT ![p] = NoFile]
          /\ UNCHANGED late
       \/ /\ Goto(p, "unlink", "cleanup")
          /\ late' = late \cup {p}
          /\ UNCHANGED dir
    /\ UNCHANGED <<disk, written, durable, allow, result, losses, kept>>

\* The deferred function; the error of os.Remove is ignored.
Cleanup(p) ==
    /\ Finish(p, "cleanup", "err")
    /\ \/ /\ dir' = [dir EXCEPT ![p] = NoFile]
          /\ UNCHANGED kept
       \/ /\ kept' = kept \cup {p}
          /\ UNCHANGED dir
    /\ UNCHANGED <<disk, written, durable, allow, losses, late>>

Return(p) ==
    /\ Finish(p, "published", "ok")
    /\ UNCHANGED <<fsVars, allow, losses, removals>>

-----------------------------------------------------------------------------
(* The environment. *)

Kill(p) ==
    /\ pc[p] \in Active
    /\ pc' = [pc EXCEPT ![p] = "dead"]
    /\ UNCHANGED <<fsVars, allow, result, losses, removals>>

WriteBackData(p) ==
    /\ durable[p] < written[p]
    /\ durable' = [durable EXCEPT ![p] = @ + 1]
    /\ UNCHANGED <<dir, disk, written, pc, allow, result, losses, removals>>

WriteBackDir ==
    /\ disk # dir
    /\ disk' = dir
    /\ UNCHANGED <<dir, written, durable, pc, allow, result, losses, removals>>

PowerLoss ==
    /\ losses < MaxPowerLoss
    /\ losses' = losses + 1
    /\ dir' = disk
    /\ written' = durable
    /\ pc' = [p \in Ops |-> IF pc[p] \in Active THEN "dead" ELSE pc[p]]
    /\ UNCHANGED <<disk, durable, allow, result, removals>>

OtherCreates ==
    /\ dir[Final] = NoFile
    /\ dir' = [dir EXCEPT ![Final] = Prior]
    /\ UNCHANGED <<disk, written, durable, pc, allow, result, losses, removals>>

Step(p) ==
    \/ Start(p) \/ Preflight(p) \/ CreateTemp(p) \/ Write(p) \/ Sync(p)
    \/ Close(p) \/ StepFails(p) \/ Rename(p) \/ Unlink(p) \/ Cleanup(p)
    \/ Return(p)

Next ==
    \/ \E p \in Ops : Step(p) \/ Kill(p) \/ WriteBackData(p)
    \/ WriteBackDir
    \/ PowerLoss
    \/ OtherCreates

Spec == Init /\ [][Next]_vars

-----------------------------------------------------------------------------
(* Safety. *)

\* A reader of the final path never sees a partial file, and neither does a
\* reader after a power loss: what the directory names, now or on the medium,
\* is complete there (fsutil.go:104-113, README "do not publish partial output").
NeverPartial ==
    \A p \in Ops :
        /\ dir[Final] = p => written[p] = Chunks
        /\ disk[Final] = p => durable[p] = Chunks

\* An operation that returned an error left nothing of its own at the final
\* path, nor does one still cleaning up, unless the error is that of os.Remove
\* after os.Link (fsutil.go:111-113).
FailureLeavesTarget ==
    \A p \in Ops \ late :
        pc[p] = "cleanup" \/ result[p] = "err" =>
            dir[Final] # p /\ disk[Final] # p

\* No temporary file outlives the call that made it unless the process was
\* killed, the removal itself failed, or a power loss undid the removal.
NoOrphanTemp ==
    \A p \in Ops :
        dir[p] # NoFile => pc[p] \in Active \cup {"dead"} \/ p \in kept \/ losses > 0

\* Only an operation that asked to overwrite replaces an existing target, even
\* when the target appeared after its preflight (fsutil.go:107-109).
NeverOverwritesUnasked ==
    [][dir[Final] # NoFile /\ dir'[Final] # dir[Final] /\ losses' = losses
         => dir'[Final] \in {p \in Ops : allow[p]}]_vars

-----------------------------------------------------------------------------
(* Refinement. *)

\* A file whose visible chunks are incomplete refines no abstract content; a
\* name is none.
Torn == Final

Seen(d, data) ==
    IF d[Final] \in Ops /\ data[d[Final]] # Chunks THEN Torn ELSE d[Final]

PhaseOf(p) ==
    IF pc[p] = "done" THEN IF p \in late THEN "late" ELSE result[p]
    ELSE IF pc[p] \in {"idle", "dead"} THEN pc[p]
    ELSE IF pc[p] \in {"unlink", "published"} \/ p \in late THEN "committed" ELSE "pending"

Abstract == INSTANCE AtomicPublish WITH
    target <- Seen(dir, written),
    stable <- Seen(disk, durable),
    phase <- [p \in Ops |-> PhaseOf(p)],
    overwrite <- allow

\* PublishAtomic is the atomic publication its comment promises.
PublishesAtomically == Abstract!Spec
=============================================================================
