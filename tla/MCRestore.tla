----------------------------- MODULE MCRestore -----------------------------
(***************************************************************************)
(* Restores, whose model values and files are interchangeable, or the      *)
(* merge of two trees: a behaviour is of one while the other rests.        *)
(***************************************************************************)
EXTENDS RestoreParts, TLC

VARIABLE part

Symmetry == Permutations(Ops) \cup Permutations(Files)

\* Two levels, and in each a name that a renamed entry can take.
SomeMergePaths ==
    LET taken(n) == {<<n>>, <<n, 1>>}
    IN  {<<m>> : m \in taken(1)} \cup (taken(1) \X taken(2))

NoFiles == <<>>

mergeVars == <<src, dst, conflict, listed, status, existing>>

PartInit ==
    /\ part \in {"restore", "merge"}
    /\ Init
    /\ part = "merge" => dest = NoTree /\ content = [t \in Trees |-> [f \in Files |-> {}]]
    /\ IF part = "merge" THEN Merging!Init ELSE conflict = "skip" /\ Merging!InitWith({NoFiles})

PartNext ==
    /\ \/ part = "restore" /\ Next /\ UNCHANGED mergeVars
       \/ part = "merge" /\ Merging!Next /\ UNCHANGED vars
    /\ UNCHANGED part

PartSpec == PartInit /\ [][PartNext]_<<part, vars, mergeVars>>
=============================================================================
