----------------------------- MODULE MCCommands -----------------------------
(***************************************************************************)
(* The smaller parts, each on a small instance: manifests, keys and        *)
(* signatures, the benchmark, the effective policy, and the forms and      *)
(* screens of the interface.  They share no state, and a process runs one  *)
(* command: a behaviour is of one part while the others rest.              *)
(***************************************************************************)
EXTENDS CommandParts, Integers, SequencesExt

CONSTANT Parts   \* those that run

VARIABLE part

manifestVars ==
    <<trees, manifests, commands, command, roots, pc, todo, visit, entries, built, during,
      changes, clock>>
trialVars == <<goal, phase, index, cancelled, successes, failures, reported, err, answer>>
policyVars == <<configured, environment, named, resolved>>
formVars ==
    <<kind, input, dir, keyFile, password, confirmation, credential, choice, overwrite, focus,
      typing, shows, slot, selected, request>>
screenVars ==
    <<screen, form, pendingKind, pending, typed, operationID, cancel, cancelRequested, progress,
      shown, job, withdrawn, events, emitted, waiter, msgs, copies>>

-----------------------------------------------------------------------------
(* Two levels, links, an empty directory, and a name and a link target that *)
(* are not UTF-8.                                                           *)

Datum(n, x) == [size |-> n, text |-> x]
TreeNodes ==
    [type : {"file"}, data : {Datum(1, 1), Datum(1, 2)}]
        \cup [type : {"directory"}, data : {Datum(1, 0), Datum(2, 0)}]
        \cup [type : {"symlink"}, data : {Datum(1, 1), Datum(1, 2)}]
DirectoryStarts ==
    LET node(t, data, mode) == [type |-> t, data |-> data, mode |-> mode, ino |-> 0, mtime |-> 0]
        file == node("file", Datum(1, 1), "read")
        dirNode == node("directory", Datum(1, 0), "write")
    IN  {(<<1>> :> dirNode) @@ (<<1, 1>> :> file)}

NodePaths == {<<1>>, <<1, 1>>, <<2>>}

(* A chain of commands that begins with nothing but an input, with a key,   *)
(* its public half or a signature in place, or with a link to a key.        *)

KeyStarts ==
    LET file(n, c) == [type |-> "file", ino |-> 0 - n, content |-> c, exposed |-> FALSE]
        text == [kind |-> "data", text |-> 1]
        data == "input" :> file(1, text)
        key == "key" :> file(2, [kind |-> "private", type |-> "signing", key |-> 1])
        public == "public" :> file(3, [kind |-> "public", type |-> "signing", key |-> 1])
        signature == "signature" :> file(4, [kind |-> "signature", key |-> 1, by |-> 1, text |-> text])
        other == "other" :> file(5, [kind |-> "private", type |-> "x25519", key |-> 2])
        link == "key" :> [type |-> "link", ino |-> 0 - 6, to |-> "other"]
    IN  {data, data @@ key, data @@ key @@ public, data @@ public @@ signature, data @@ other @@ link}

SomeCodecs == <<2, 1>>
SomeCiphers == <<1, 2>>

(* Sizes of four bits, and files that set one or two things.                *)

BuiltIn == [plain |-> [compression |-> "c1", cipher |-> "x1", size |-> 2, destination |-> Unset,
                       verify |-> FALSE],
            strict |-> [compression |-> "c2", cipher |-> "x2", size |-> 1, destination |-> Unset,
                        verify |-> TRUE]]
DefaultFile == [profile |-> "plain", compression |-> "c2", cipher |-> "x1", size |-> <<3, 1>>,
                destination |-> Unset, verify |-> FALSE]
SomeFiles ==
    [profile : {Unset, "strict"}]
        \cup [profile : {Unset, "strict"}, size : {Unset}]
        \cup [compression : {Unset, "c1"}, cipher : {Unset, "x2"}, destination : {"d"}]
        \cup [size : (0..17) \X {1, 4}, verify : BOOLEAN]
SomeNames == {Unset, "plain", "strict", "default"}

FormNames == {<<"data">>, <<"cys">>, <<"data", "cys">>}
FormOptions == [credential |-> 2, codec |-> 3, cipher |-> 2, algorithm |-> 3]

-----------------------------------------------------------------------------
NoFiles == [p \in {} |-> Unset]

PartInit ==
    /\ part \in Parts
    /\ IF part = "manifest" THEN M!Init ELSE M!InitWith({NoFiles})
    /\ IF part = "keys" THEN Init ELSE InitWith({NoFiles})
    /\ IF part = "benchmark" THEN B!Init ELSE B!InitWith({"none"})
    /\ IF part = "policy" THEN P!Init ELSE P!Idle
    /\ IF part = "form" THEN Forms!Init ELSE kind = "inspect" /\ Forms!Idle
    /\ Ui!Init

OthersRest ==
    /\ part = "manifest" \/ (part # "manifest" /\ UNCHANGED manifestVars)
    /\ part = "keys" \/ (part # "keys" /\ UNCHANGED vars)
    /\ part = "benchmark" \/ (part # "benchmark" /\ UNCHANGED trialVars)
    /\ part = "policy" \/ (part # "policy" /\ UNCHANGED policyVars)
    /\ part = "form" \/ (part # "form" /\ UNCHANGED formVars)
    /\ part = "tui" \/ (part # "tui" /\ UNCHANGED screenVars)

PartNext ==
    /\ \/ part = "manifest" /\ M!Next
       \/ part = "keys" /\ Next
       \/ part = "benchmark" /\ B!Next
       \/ part = "policy" /\ P!Next
       \/ part = "form" /\ Forms!Next
       \/ part = "tui" /\ Ui!Next
    /\ OthersRest
    /\ UNCHANGED part

partVars == <<part, manifestVars, vars, trialVars, policyVars, formVars, screenVars>>

PartSpec == PartInit /\ [][PartNext]_partVars
=============================================================================
