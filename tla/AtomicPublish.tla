---------------------------- MODULE AtomicPublish ----------------------------
(***************************************************************************)
(* What fsutil.PublishAtomic promises its callers, with no temporary file, *)
(* no partial write and no file system in it: one named target that every  *)
(* operation either replaces whole, in one step, or leaves alone.  target  *)
(* is what a reader of the path finds, stable what a power loss would      *)
(* bring back.                                                             *)
(***************************************************************************)
CONSTANTS Ops,     \* publication attempts; each writes a content of its own
          Prior,   \* content some other program put there
          NoFile   \* the path does not exist

VARIABLES target, stable, phase, overwrite

vars == <<target, stable, phase, overwrite>>

Content == Ops \cup {Prior, NoFile}
Phase == {"idle", "pending", "committed", "ok", "err", "late", "dead"}

TypeOK ==
    /\ target \in Content
    /\ stable \in Content
    /\ phase \in [Ops -> Phase]
    /\ overwrite \in [Ops -> BOOLEAN]

Init ==
    /\ target \in {Prior, NoFile}
    /\ stable = target
    /\ phase = [p \in Ops |-> "idle"]
    /\ overwrite = [p \in Ops |-> FALSE]

Request(p) ==
    /\ phase[p] = "idle"
    /\ \E o \in BOOLEAN : overwrite' = [overwrite EXCEPT ![p] = o]
    /\ phase' = [phase EXCEPT ![p] = "pending"]
    /\ UNCHANGED <<target, stable>>

\* The only step by which an operation changes the target.
Commit(p) ==
    /\ phase[p] = "pending"
    /\ overwrite[p] \/ target = NoFile
    /\ target' = p
    /\ phase' = [phase EXCEPT ![p] = "committed"]
    /\ UNCHANGED <<stable, overwrite>>

\* Success is reported only after the commit, failure only without one, but
\* for the late error of a platform that publishes by a link and a removal.
Report(p) ==
    /\ \/ /\ phase[p] = "committed"
          /\ \E r \in {"ok", "late"} : phase' = [phase EXCEPT ![p] = r]
       \/ phase[p] = "pending" /\ phase' = [phase EXCEPT ![p] = "err"]
    /\ UNCHANGED <<target, stable, overwrite>>

Die(p) ==
    /\ phase[p] \in {"pending", "committed"}
    /\ phase' = [phase EXCEPT ![p] = "dead"]
    /\ UNCHANGED <<target, stable, overwrite>>

Stabilize ==
    /\ stable' = target
    /\ UNCHANGED <<target, phase, overwrite>>

PowerLoss ==
    /\ target' = stable
    /\ phase' = [p \in Ops |->
                    IF phase[p] \in {"pending", "committed"} THEN "dead" ELSE phase[p]]
    /\ UNCHANGED <<stable, overwrite>>

OtherCreates ==
    /\ target = NoFile
    /\ target' = Prior
    /\ UNCHANGED <<stable, phase, overwrite>>

Next ==
    \/ \E p \in Ops : Request(p) \/ Commit(p) \/ Report(p) \/ Die(p)
    \/ Stabilize
    \/ PowerLoss
    \/ OtherCreates

Spec == Init /\ [][Next]_vars
=============================================================================
