--------------------------- MODULE EnvelopeProofs ---------------------------
(***************************************************************************)
(* The safety properties of Envelope, for any requests, processes and keys *)
(* and any number of rekeyings and of damaged files.                       *)
(*                                                                         *)
(* The inductive invariant says of every file, and of the one a rekeying   *)
(* has read, what is to be said of a file; of every outcome, also of the   *)
(* one about to be reported, that it stands; and of every batch how far it *)
(* is.                                                                     *)
(***************************************************************************)
EXTENDS Envelope, WellFoundedInduction, TLAPS

FileType ==
    [stanzas : Seq(Keys), payload : Nat, intact : BOOLEAN,
     opens : SUBSET Keys, unnamed : SUBSET Keys, whole : BOOLEAN, by : SUBSET Keys]
ItemType == [status : {"success", "error", "unverified", "late"}, payload : Nat]
ProcType ==
    [pc : {"idle", "prepare", "publish", "finish"}, job : Jobs,
     items : Seq(ItemType), input : FileType]

TypeOK ==
    /\ files \in [Names -> FileType]
    /\ proc \in [Procs -> ProcType]
    /\ {begun, made, damaged} \subseteq Nat
    /\ replaced \subseteq Names \X Nat

\* A file is readable, opens as asked, and is usable by who rekeyed it.
Sound(file) ==
    /\ ReadHeader(file.stanzas) /\ ToSet(file.stanzas) = file.opens \ file.unnamed
    /\ file.unnamed \cap PublicKeys = {}
    /\ file.by # {} => file.whole /\ Unwraps(file.stanzas, file.by)

SoundFiles == \A n \in Names : Present(n) => Sound(files[n])

\* What a rekeying has read was there.
SoundInput(p) ==
    /\ proc[p].pc = "publish" /\ proc[p].job.op = "rekey" =>
          proc[p].input.payload # 0 /\ Sound(proc[p].input)
    /\ proc[p].pc = "finish" => proc[p].input.payload # 0 /\ proc[p].job.op = "protect"

\* Where the files are fs and those in rep have been replaced, the file n with
\* this payload can be opened with what the request gave.
StandsIn(fs, rep, n, payload, job) ==
    /\ payload # 0
    /\ \/ <<n, payload>> \in rep
       \/ /\ fs[n].payload = payload
          /\ fs[n].intact => Decrypts(fs[n], CallerHas(job) \cup ToSet(job.pubs))
Stands(n, payload, job) == StandsIn(files, replaced, n, payload, job)
StandsNext(n, payload, job) == StandsIn(files', replaced', n, payload, job)

Outcomes(p) ==
    /\ \A i \in DOMAIN proc[p].items : proc[p].items[i].status = "success" =>
          Stands(proc[p].job.outs[i], proc[p].items[i].payload, proc[p].job)
    /\ proc[p].pc = "finish" => Stands(Out(p), proc[p].input.payload, proc[p].job)

Successes(items) == \A i \in DOMAIN items : items[i].status = "success"

\* A batch that is not at its end has no error, or is to continue after one.
Going(p) ==
    /\ Len(proc[p].items) <= Len(proc[p].job.outs)
    /\ proc[p].pc # "idle" =>
          /\ Len(proc[p].items) < Len(proc[p].job.outs)
          /\ proc[p].job.more \/ Successes(proc[p].items)

\* A batch that has ended is at its end or at its first error.
Stopped(p) ==
    proc[p].pc = "idle" /\ proc[p].items # <<>> =>
        IF proc[p].job.more \/ Successes(proc[p].items)
        THEN Len(proc[p].items) = Len(proc[p].job.outs)
        ELSE \A i \in 1..(Len(proc[p].items) - 1) : proc[p].items[i].status = "success"

Inv ==
    /\ TypeOK /\ SoundFiles
    /\ \A p \in Procs : SoundInput(p) /\ Outcomes(p) /\ Going(p) /\ Stopped(p)

-----------------------------------------------------------------------------
(* Induction.  A set of natural numbers that is not empty has a least        *)
(* element: what is to be shown of every number is shown of the least one   *)
(* it could fail for.                                                       *)

Less == {ss \in Nat \X Nat : ss[1] < ss[2]}

LEMMA LeastElement ==
    ASSUME NEW T \in SUBSET Nat, T # {}
    PROVE  \E x \in T : \A y \in T : x <= y
<1>1. IsWellFoundedOn(Less, Nat)
    BY NatLessThanWellFounded DEF OpToRel, Less
<1>2. PICK x \in T : \A y \in T : ~(<<y, x>> \in Less)
    BY <1>1, WFMin
<1>3. ASSUME NEW y \in T PROVE x <= y
    <2>1. x \in Nat /\ y \in Nat
        BY <1>3
    <2>2. ASSUME y < x PROVE <<y, x>> \in Less
        BY <2>1, <2>2 DEF Less
    <2> QED
        BY <1>2, <1>3, <2>1, <2>2
<1> QED
    BY <1>2, <1>3

(* The loop over the stanzas. *)

\* One turn of it: the stanzas kept before are out, and i is the next.
Turn(stanzas, keep, out, i) == IF stanzas[i] \in keep THEN Append(out, stanzas[i]) ELSE out

Loops(f, stanzas, keep, n) ==
    f = [i \in 0..n |-> IF i = 0 THEN <<>> ELSE Turn(stanzas, keep, f[i - 1], i)]

LEMMA LoopExists ==
    ASSUME NEW stanzas, NEW keep
    PROVE  \A n \in Nat : \E f : Loops(f, stanzas, keep, n)
<1> DEFINE T == {n \in Nat : ~\E f : Loops(f, stanzas, keep, n)}
<1> SUFFICES ASSUME T # {} PROVE FALSE
    OBVIOUS
<1>1. PICK m \in T : \A n \in T : m <= n
    BY LeastElement
<1>2. CASE m = 0
    <2>1. Loops([i \in 0..0 |-> <<>>], stanzas, keep, 0)
        BY DEF Loops
    <2> QED
        BY <1>1, <1>2, <2>1
<1>3. CASE m # 0
    <2>1. m - 1 \in Nat /\ m - 1 \notin T /\ m \in Nat
        BY <1>1, <1>3
    <2>2. PICK g : Loops(g, stanzas, keep, m - 1)
        BY <2>1
    <2> DEFINE f == [i \in 0..m |-> IF i = m THEN Turn(stanzas, keep, g[m - 1], m) ELSE g[i]]
    <2>3. \A i \in 0..(m - 1) : g[i] = IF i = 0 THEN <<>> ELSE Turn(stanzas, keep, g[i - 1], i)
        BY <2>2 DEF Loops
    <2>4. \A i \in 0..m : f[i] = IF i = 0 THEN <<>> ELSE Turn(stanzas, keep, f[i - 1], i)
        BY <1>3, <2>1, <2>3
    <2>5. Loops(f, stanzas, keep, m)
        BY <2>4 DEF Loops
    <2> QED
        BY <1>1, <2>5
<1> QED
    BY <1>2, <1>3

LEMMA ToSetConcat ==
    ASSUME NEW S, NEW s \in Seq(S), NEW t \in Seq(S)
    PROVE  ToSet(s \o t) = ToSet(s) \cup ToSet(t)
<1>1. /\ DOMAIN s = 1..Len(s) /\ DOMAIN t = 1..Len(t) /\ Len(s) \in Nat /\ Len(t) \in Nat
      /\ DOMAIN (s \o t) = 1..(Len(s) + Len(t))
    OBVIOUS
<1>2. \A i \in 1..Len(s) : i \in DOMAIN (s \o t) /\ (s \o t)[i] = s[i]
    BY <1>1
<1>3. \A i \in 1..Len(t) : i + Len(s) \in DOMAIN (s \o t) /\ (s \o t)[i + Len(s)] = t[i]
    BY <1>1
<1>4. ASSUME NEW i \in DOMAIN (s \o t), i \notin 1..Len(s)
      PROVE  i - Len(s) \in 1..Len(t) /\ (s \o t)[i] = t[i - Len(s)]
    BY <1>1, <1>4
<1>5. ASSUME NEW e \in ToSet(s \o t)
      PROVE  e \in ToSet(s) \cup ToSet(t)
    <2>1. PICK i \in DOMAIN (s \o t) : (s \o t)[i] = e
        BY <1>5 DEF ToSet
    <2>2. CASE i \in 1..Len(s)
        BY <1>1, <1>2, <2>1, <2>2 DEF ToSet
    <2>3. CASE i \notin 1..Len(s)
        <3>1. i - Len(s) \in DOMAIN t /\ t[i - Len(s)] = e
            BY <1>1, <1>4, <2>1, <2>3
        <3> QED
            BY <3>1 DEF ToSet
    <2> QED
        BY <2>2, <2>3
<1>6. ASSUME NEW e \in ToSet(s)
      PROVE  e \in ToSet(s \o t)
    BY <1>1, <1>2, <1>6 DEF ToSet
<1>7. ASSUME NEW e \in ToSet(t)
      PROVE  e \in ToSet(s \o t)
    <2>1. PICK i \in 1..Len(t) : t[i] = e
        BY <1>1, <1>7 DEF ToSet
    <2>2. i + Len(s) \in DOMAIN (s \o t) /\ (s \o t)[i + Len(s)] = e
        BY <1>3, <2>1
    <2> QED
        BY <2>2 DEF ToSet
<1> QED
    BY <1>5, <1>6, <1>7

LEMMA ToSetAppend ==
    ASSUME NEW S, NEW s \in Seq(S), NEW e \in S
    PROVE  ToSet(Append(s, e)) = ToSet(s) \cup {e}
<1>1. Append(s, e) = s \o <<e>> /\ <<e>> \in Seq(S)
    OBVIOUS
<1>2. ToSet(<<e>>) = {e}
    BY DEF ToSet
<1>3. ToSet(s \o <<e>>) = ToSet(s) \cup ToSet(<<e>>)
    BY <1>1, ToSetConcat, Zenon
<1> QED
    BY <1>1, <1>2, <1>3

LEMMA KeepingFacts ==
    ASSUME NEW S, NEW stanzas \in Seq(S), NEW keep
    PROVE  /\ Keeping(stanzas, keep) \in Seq(S)
           /\ ToSet(Keeping(stanzas, keep)) = ToSet(stanzas) \cap keep
<1> DEFINE f == CHOOSE g : Loops(g, stanzas, keep, Len(stanzas))
           Good(i) == /\ f[i] \in Seq(S)
                      /\ ToSet(f[i]) = {stanzas[j] : j \in 1..i} \cap keep
           T == {i \in 0..Len(stanzas) : ~Good(i)}
<1>1. Keeping(stanzas, keep) = f[Len(stanzas)]
    BY DEF Keeping, Loops, Turn
<1>2. Len(stanzas) \in Nat
    OBVIOUS
<1>3. Loops(f, stanzas, keep, Len(stanzas))
    BY <1>2, LoopExists
<1>4. \A i \in 0..Len(stanzas) : f[i] = IF i = 0 THEN <<>> ELSE Turn(stanzas, keep, f[i - 1], i)
    BY <1>3 DEF Loops
<1> HIDE DEF f
<1>5. Good(0)
    <2>1. f[0] = <<>>
        BY <1>2, <1>4
    <2>2. ToSet(f[0]) = {} /\ {stanzas[j] : j \in 1..0} = {}
        BY <2>1 DEF ToSet
    <2> QED
        BY <2>1, <2>2
<1>6. ASSUME NEW i \in 1..Len(stanzas), Good(i - 1)
      PROVE  Good(i)
    <2>1. f[i] = Turn(stanzas, keep, f[i - 1], i)
        BY <1>4
    <2>2. stanzas[i] \in S
        OBVIOUS
    <2>3. f[i] \in Seq(S)
        BY <1>6, <2>1, <2>2 DEF Turn
    <2>4. {stanzas[j] : j \in 1..i} = {stanzas[j] : j \in 1..(i - 1)} \cup {stanzas[i]}
        OBVIOUS
    <2>5. ToSet(Append(f[i - 1], stanzas[i])) = ToSet(f[i - 1]) \cup {stanzas[i]}
        BY <1>6, <2>2, ToSetAppend
    <2> QED
        BY <1>6, <2>1, <2>3, <2>4, <2>5 DEF Turn
<1>7. T = {}
    <2> SUFFICES ASSUME T # {} PROVE FALSE
        OBVIOUS
    <2>1. T \in SUBSET Nat
        BY <1>2
    <2>2. PICK m \in T : \A n \in T : m <= n
        <3> HIDE DEF T
        <3> QED
            BY <2>1, LeastElement
    <2>3. m \in 1..Len(stanzas)
        BY <1>2, <1>5, <2>2
    <2>4. m - 1 \in 0..Len(stanzas) /\ m - 1 \notin T
        <3> HIDE DEF T
        <3> QED
            BY <1>2, <2>2, <2>3
    <2> QED
        BY <1>6, <2>2, <2>3, <2>4
<1>8. Good(Len(stanzas))
    BY <1>2, <1>7
<1>9. ToSet(stanzas) = {stanzas[j] : j \in 1..Len(stanzas)}
    BY DEF ToSet
<1> QED
    BY <1>1, <1>8, <1>9

-----------------------------------------------------------------------------
(* The headers that are written. *)

LEMMA JobFacts ==
    ASSUME NEW job \in Jobs
    PROVE  /\ job.op = "rekey" \/ (job.op = "protect" /\ job.new = NoCredential)
           /\ job.outs \in Seq(Names) /\ job.outs # <<>> /\ job.in \in Names
           /\ job.cred \in Passwords \cup RawKeys \cup {NoCredential}
           /\ job.new \in Passwords \cup RawKeys \cup {NoCredential}
           /\ job.pubs \in Seq(PublicKeys)
           /\ job.ids \subseteq PublicKeys /\ job.removes \subseteq PublicKeys \cup {NoId}
           /\ job.overwrite \in BOOLEAN /\ job.verify \in BOOLEAN /\ job.more \in BOOLEAN
BY JobsAssumption

\* What is wrapped has a stanza for each recipient and reads back as a header.
LEMMA WrapFacts ==
    ASSUME NEW cred \in Passwords \cup RawKeys \cup {NoCredential},
           NEW pubs \in Seq(PublicKeys), Wrap(cred, pubs) # <<>>
    PROVE  /\ Wrap(cred, pubs) \in Seq(Keys)
           /\ ToSet(Wrap(cred, pubs)) = Secrets(cred) \cup ToSet(pubs)
           /\ ReadHeader(Wrap(cred, pubs))
<1> DEFINE own == IF cred = NoCredential THEN <<>> ELSE <<cred>>
           out == own \o pubs
<1>1. /\ Wrap(cred, pubs) = out /\ out # <<>> /\ Len(out) <= MaxRecipients
      /\ IsInjective(pubs)
    BY DEF Wrap
<1>2. own \in Seq(Keys) /\ pubs \in Seq(Keys) /\ MaxRecipients \in Nat
    <2>1. PublicKeys \subseteq Keys /\ (cred = NoCredential \/ cred \in Keys)
        BY DEF Keys
    <2>2. pubs \in Seq(Keys)
        BY <2>1
    <2>3. own \in Seq(Keys)
        BY <2>1
    <2> QED
        BY <2>2, <2>3, ConstantsAssumption
<1>3. ToSet(own) = Secrets(cred)
    <2>1. CASE cred = NoCredential
        BY <2>1 DEF ToSet, Secrets
    <2>2. CASE cred # NoCredential
        BY <2>2 DEF ToSet, Secrets
    <2> QED
        BY <2>1, <2>2
<1>4. Len(own) \in {0, 1} /\ \A i \in 1..Len(own) : own[i] = cred /\ cred # NoCredential
    OBVIOUS
<1> HIDE DEF own
<1>5. out \in Seq(Keys) /\ ToSet(out) = ToSet(own) \cup ToSet(pubs)
    BY <1>2, ToSetConcat
<1>6. /\ DOMAIN out = 1..(Len(own) + Len(pubs)) /\ Len(out) = Len(own) + Len(pubs)
      /\ DOMAIN pubs = 1..Len(pubs) /\ Len(pubs) \in Nat /\ Len(own) \in Nat
    BY <1>2
<1>7. ASSUME NEW i \in DOMAIN out
      PROVE  \/ i \in 1..Len(own) /\ out[i] = cred /\ cred \in Passwords \cup RawKeys
             \/ /\ i - Len(own) \in DOMAIN pubs /\ out[i] = pubs[i - Len(own)]
                /\ out[i] \in PublicKeys
    <2>1. CASE i \in 1..Len(own)
        BY <1>2, <1>4, <2>1
    <2>2. CASE i \notin 1..Len(own)
        BY <1>2, <1>6, <2>2
    <2> QED
        BY <2>1, <2>2
<1>8. PublicsDiffer(out)
    <2> SUFFICES ASSUME NEW i \in DOMAIN out, NEW j \in DOMAIN out,
                        out[i] \in PublicKeys, out[i] = out[j]
                 PROVE  i = j
        BY DEF PublicsDiffer
    <2>1. /\ i - Len(own) \in DOMAIN pubs /\ j - Len(own) \in DOMAIN pubs
          /\ pubs[i - Len(own)] = pubs[j - Len(own)]
        BY <1>7, ConstantsAssumption
    <2>2. i - Len(own) = j - Len(own)
        BY <1>1, <2>1 DEF IsInjective
    <2> QED
        BY <1>6, <2>2
<1>9. OnePassword(out)
    <2> SUFFICES ASSUME NEW i \in DOMAIN out, NEW j \in DOMAIN out,
                        out[i] \in Passwords, out[j] \in Passwords
                 PROVE  i = j
        BY DEF OnePassword
    <2>1. i \in 1..Len(own) /\ j \in 1..Len(own)
        BY <1>7, ConstantsAssumption
    <2> QED
        BY <1>4, <2>1
<1>10. Len(out) \in 1..MaxRecipients
    <2>1. Len(out) # 0
        BY <1>1, <1>5
    <2> QED
        BY <1>1, <1>2, <1>6, <2>1
<1> HIDE DEF out
<1> QED
    BY <1>1, <1>3, <1>5, <1>8, <1>9, <1>10 DEF ReadHeader

\* A rekeying keeps the access of everybody whose id it is not to remove.
LEMMA ReplacementFacts ==
    ASSUME NEW job \in Jobs, NEW stanzas \in Seq(Keys), Replacement(stanzas, job) # <<>>
    PROVE  /\ Replacement(stanzas, job) \in Seq(Keys)
           /\ ToSet(Replacement(stanzas, job)) =
                ({k \in ToSet(stanzas) : Id(k) \notin job.removes} \cap
                    (IF job.new = NoCredential THEN Keys ELSE PublicKeys))
                \cup Secrets(job.new) \cup ToSet(job.pubs)
<1> DEFINE adding == job.new # NoCredential \/ job.pubs # <<>>
           added == IF adding THEN Wrap(job.new, job.pubs) ELSE <<>>
<1>1. adding => added # <<>>
    BY DEF Replacement
<1>2. Replacement(stanzas, job) = Kept(stanzas, job) \o added
    BY DEF Replacement
<1>3. added \in Seq(Keys) /\ ToSet(added) = Secrets(job.new) \cup ToSet(job.pubs)
    <2>1. CASE adding
        BY <1>1, <2>1, WrapFacts, JobFacts
    <2>2. CASE ~adding
        BY <2>2 DEF ToSet, Secrets
    <2> QED
        BY <2>1, <2>2
<1>4. /\ Kept(stanzas, job) \in Seq(Keys)
      /\ ToSet(Kept(stanzas, job)) = ToSet(stanzas) \cap {k \in Keys :
            Id(k) \notin job.removes /\ ~(job.new # NoCredential /\ k \notin PublicKeys)}
    BY KeepingFacts DEF Kept
<1>5. ToSet(stanzas) \subseteq Keys /\ PublicKeys \subseteq Keys
    BY DEF ToSet, Keys
<1> HIDE DEF added
<1>6. /\ Kept(stanzas, job) \o added \in Seq(Keys)
      /\ ToSet(Kept(stanzas, job) \o added) = ToSet(Kept(stanzas, job)) \cup ToSet(added)
    BY <1>3, <1>4, ToSetConcat
<1> QED
    BY <1>2, <1>3, <1>4, <1>5, <1>6

-----------------------------------------------------------------------------
(* Steps of a process. *)

LEMMA NoFileFacts == NoFile \in FileType /\ NoFile.payload = 0
<1>1. <<>> \in Seq(Keys)
    OBVIOUS
<1> QED
    BY <1>1 DEF NoFile, FileType

\* The fields of a process that a proof looks at.
LEMMA ProcFacts ==
    ASSUME TypeOK, NEW p \in Procs
    PROVE  /\ proc[p].pc \in {"idle", "prepare", "publish", "finish"}
           /\ proc[p].job \in Jobs /\ proc[p].job.outs \in Seq(Names)
           /\ proc[p].items \in Seq(ItemType) /\ proc[p].input \in FileType
           /\ proc[p].input.stanzas \in Seq(Keys) /\ proc[p].input.payload \in Nat
           /\ proc[p].input.intact \in BOOLEAN
<1>1. proc[p] \in ProcType
    BY DEF TypeOK
<1>2. /\ proc[p].pc \in {"idle", "prepare", "publish", "finish"}
      /\ proc[p].job \in Jobs /\ proc[p].items \in Seq(ItemType)
      /\ proc[p].input \in FileType
    BY <1>1 DEF ProcType
<1> QED
    BY <1>2, JobFacts DEF FileType

\* The output of the item at hand is one of the job's.
LEMMA OutFacts ==
    ASSUME TypeOK, NEW p \in Procs, Going(p), proc[p].pc # "idle"
    PROVE  /\ Out(p) \in Names
           /\ Len(proc[p].items) + 1 \in DOMAIN proc[p].job.outs
<1>1. /\ Len(proc[p].items) \in Nat /\ Len(proc[p].job.outs) \in Nat
      /\ DOMAIN proc[p].job.outs = 1..Len(proc[p].job.outs)
    BY ProcFacts
<1>2. Len(proc[p].items) + 1 \in DOMAIN proc[p].job.outs
    BY <1>1 DEF Going
<1> QED
    BY <1>2, ProcFacts DEF Out

LEMMA ItemEndsFacts ==
    ASSUME TypeOK, NEW p \in Procs, NEW payload \in Nat,
           NEW status \in {"success", "error", "unverified", "late"},
           ItemEnds(p, status, payload)
    PROVE  /\ proc' \in [Procs -> ProcType]
           /\ \A q \in Procs \ {p} : proc'[q] = proc[q]
           /\ proc'[p].job = proc[p].job /\ proc'[p].input = proc[p].input
           /\ proc'[p].items = Append(proc[p].items, Item(status, payload))
           /\ proc'[p].pc = IF /\ Len(proc[p].items) + 1 < Len(proc[p].job.outs)
                               /\ status = "success" \/ proc[p].job.more
                            THEN "prepare" ELSE "idle"
<1> DEFINE items == Append(proc[p].items, Item(status, payload))
           goesOn == /\ Len(items) < Len(proc[p].job.outs)
                     /\ status = "success" \/ proc[p].job.more
           next == IF goesOn THEN "prepare" ELSE "idle"
<1>1. Item(status, payload) \in ItemType
    BY DEF Item, ItemType
<1>2. items \in Seq(ItemType) /\ Len(items) = Len(proc[p].items) + 1
    BY <1>1, ProcFacts
<1>3. next \in {"idle", "prepare"}
    OBVIOUS
<1>4. proc' = [proc EXCEPT ![p].items = items, ![p].pc = next]
    BY DEF ItemEnds
<1> HIDE DEF items, next
<1>5. proc[p] \in ProcType /\ proc \in [Procs -> ProcType]
    BY DEF TypeOK
<1>6. proc' \in [Procs -> ProcType]
    BY <1>2, <1>3, <1>4, <1>5 DEF ProcType
<1>7. /\ \A q \in Procs \ {p} : proc'[q] = proc[q]
      /\ proc'[p].job = proc[p].job /\ proc'[p].input = proc[p].input
      /\ proc'[p].items = items /\ proc'[p].pc = next
    BY <1>4, <1>5 DEF ProcType
<1>8. next = IF /\ Len(proc[p].items) + 1 < Len(proc[p].job.outs)
                /\ status = "success" \/ proc[p].job.more
             THEN "prepare" ELSE "idle"
    BY <1>2 DEF next
<1>9. proc'[p].items = Append(proc[p].items, Item(status, payload))
    BY <1>7 DEF items
<1> QED
    BY <1>6, <1>7, <1>8, <1>9

\* What a step of a process does: it takes up a request or an item, it ends an
\* item without a publication, or it publishes.
Prepares(p) ==
    /\ Working(p, "prepare")
    /\ \/ /\ proc[p].job.op = "protect"
          /\ proc' = [proc EXCEPT ![p].pc = "publish"]
       \/ /\ proc[p].job.op = "rekey" /\ Present(proc[p].job.in)
          /\ proc' = [proc EXCEPT ![p].pc = "publish", ![p].input = files[proc[p].job.in]]
    /\ UNCHANGED <<files, made, replaced>>

Ends(p) ==
    /\ ~Working(p, "idle")
    /\ \E status \in {"success", "error", "unverified", "late"}, payload \in Nat :
          /\ ItemEnds(p, status, payload)
          /\ status = "success" => Working(p, "finish") /\ payload = proc[p].input.payload
    /\ UNCHANGED <<files, made, replaced>>

Protects(p, file) ==
    /\ Working(p, "publish") /\ proc[p].job.op = "protect"
    /\ file = Protected(proc[p].job, Wrap(proc[p].job.cred, proc[p].job.pubs))
    /\ file.stanzas # <<>>
    /\ made' = made + 1
    /\ files' = [files EXCEPT ![Out(p)] = file]
    /\ replaced' = replaced \cup Replaces(Out(p))
    /\ proc' = [proc EXCEPT ![p].pc = "finish", ![p].input = file]

\* What a rekeying writes.
Rekeyed(job, input) ==
    [input EXCEPT
        !.stanzas = Replacement(input.stanzas, job),
        !.opens = ((@ \ job.removes) \cap
                      (IF job.new = NoCredential THEN Keys ELSE PublicKeys))
                  \cup Secrets(job.new) \cup ToSet(job.pubs),
        !.unnamed = (@ \cup IF NoId \in job.removes THEN input.opens \ PublicKeys ELSE {})
                    \ Secrets(job.new),
        !.whole = input.intact,
        !.by = CallerHas(job)]

Rekeys(p, file) ==
    /\ Working(p, "publish") /\ proc[p].job.op = "rekey"
    /\ file = Rekeyed(proc[p].job, proc[p].input)
    /\ file.stanzas # <<>> /\ Verified(file, proc[p].job) /\ ~Present(Out(p))
    /\ files' = [files EXCEPT ![Out(p)] = file]
    /\ ItemEnds(p, "success", proc[p].input.payload)
    /\ UNCHANGED <<made, replaced>>

LEMMA StepShape ==
    ASSUME TypeOK, NEW p \in Procs,
           \/ PrepareProtect(p) \/ PrepareRekey(p) \/ PublishProtect(p)
           \/ Finish(p) \/ FailsLate(p) \/ PublishRekey(p) \/ Fails(p)
    PROVE  /\ UNCHANGED <<begun, damaged>>
           /\ Prepares(p) \/ Ends(p) \/ (\E file : Protects(p, file)) \/ (\E file : Rekeys(p, file))
<1> USE ProcFacts DEF Stays
<1>1. ASSUME Error(p), ~Working(p, "idle")
      PROVE  Ends(p)
    BY <1>1 DEF Error, Ends
<1>2. CASE PrepareProtect(p)
    BY <1>1, <1>2 DEF PrepareProtect, Prepares, Working
<1>3. CASE PrepareRekey(p)
    BY <1>1, <1>3 DEF PrepareRekey, Prepares, Working
<1>4. CASE PublishProtect(p)
    BY <1>1, <1>4 DEF PublishProtect, Protects, Working
<1>5. CASE Finish(p)
    BY <1>5 DEF Finish, Ends, Working
<1>6. CASE FailsLate(p)
    BY <1>6 DEF FailsLate, Ends, Working
<1>7. CASE PublishRekey(p)
    BY <1>1, <1>7 DEF PublishRekey, Rekeys, Rekeyed, Working
<1>8. CASE Fails(p)
    BY <1>1, <1>8 DEF Fails, Working
<1> QED
    BY <1>2, <1>3, <1>4, <1>5, <1>6, <1>7, <1>8

LEMMA PreparesFacts ==
    ASSUME TypeOK, NEW p \in Procs, Prepares(p)
    PROVE  /\ proc' \in [Procs -> ProcType]
           /\ \A q \in Procs \ {p} : proc'[q] = proc[q]
           /\ proc[p].pc = "prepare" /\ proc'[p].pc = "publish"
           /\ proc'[p].job = proc[p].job /\ proc'[p].items = proc[p].items
           /\ proc[p].job.op = "rekey" =>
                 Present(proc[p].job.in) /\ proc'[p].input = files[proc[p].job.in]
<1>1. proc[p] \in ProcType /\ proc \in [Procs -> ProcType]
    BY DEF TypeOK
<1>2. files[proc[p].job.in] \in FileType
    BY ProcFacts, JobFacts DEF TypeOK
<1>3. CASE proc[p].job.op = "protect"
    <2>1. proc[p].pc = "prepare" /\ proc' = [proc EXCEPT ![p].pc = "publish"]
        BY <1>3 DEF Prepares, Working
    <2> QED
        BY <1>1, <1>3, <2>1 DEF ProcType
<1>4. CASE proc[p].job.op # "protect"
    <2>1. /\ Present(proc[p].job.in) /\ proc[p].pc = "prepare"
          /\ proc' = [proc EXCEPT ![p].pc = "publish", ![p].input = files[proc[p].job.in]]
        BY <1>4 DEF Prepares, Working
    <2> QED
        BY <1>1, <1>2, <2>1 DEF ProcType
<1> QED
    BY <1>3, <1>4

LEMMA ProtectsFacts ==
    ASSUME TypeOK, NEW p \in Procs, Going(p), NEW file, Protects(p, file)
    PROVE  /\ file \in FileType /\ file.payload # 0 /\ Sound(file)
           /\ Decrypts(file, CallerHas(proc[p].job) \cup ToSet(proc[p].job.pubs))
           /\ proc' \in [Procs -> ProcType]
           /\ \A q \in Procs \ {p} : proc'[q] = proc[q]
           /\ proc[p].pc = "publish" /\ proc[p].job.op = "protect" /\ proc'[p].pc = "finish"
           /\ proc'[p].job = proc[p].job /\ proc'[p].items = proc[p].items
           /\ proc'[p].input = file
<1> DEFINE job == proc[p].job
           stanzas == Wrap(job.cred, job.pubs)
<1>1. job \in Jobs /\ job.op = "protect" /\ stanzas # <<>> /\ file = Protected(job, stanzas)
    BY ProcFacts DEF Protects, Protected
<1>2. job.new = NoCredential /\ job.pubs \in Seq(PublicKeys)
    BY <1>1, JobFacts
<1>3. /\ stanzas \in Seq(Keys) /\ ReadHeader(stanzas)
      /\ ToSet(stanzas) = Secrets(job.cred) \cup ToSet(job.pubs)
    BY <1>1, WrapFacts, JobFacts
<1>4. ToSet(stanzas) \subseteq Keys /\ ToSet(stanzas) # {}
    <2>1. 1 \in DOMAIN stanzas
        BY <1>1, <1>3
    <2> QED
        BY <1>3, <2>1 DEF ToSet
<1> HIDE DEF stanzas
<1>5. /\ file.stanzas = stanzas /\ file.payload = made + 1 /\ file.intact = TRUE
      /\ file.whole = TRUE /\ file.by = {}
      /\ file.opens = Secrets(job.cred) \cup ToSet(job.pubs) /\ file.unnamed = {}
      /\ file \in [stanzas : Seq(Keys), payload : Nat, intact : BOOLEAN,
                   opens : SUBSET Keys, unnamed : SUBSET Keys, whole : BOOLEAN, by : SUBSET Keys]
    <2>1. made \in Nat
        BY DEF TypeOK
    <2> QED
        BY <1>1, <1>3, <1>4, <2>1 DEF Protected
<1>6. Sound(file)
    BY <1>3, <1>5 DEF Sound
<1>7. Decrypts(file, CallerHas(job) \cup ToSet(job.pubs))
    BY <1>2, <1>3, <1>4, <1>5 DEF Decrypts, Unwraps, CallerHas
<1>8. file \in FileType /\ file.payload # 0
    BY <1>5 DEF FileType, TypeOK
<1>9. proc[p] \in ProcType /\ proc \in [Procs -> ProcType]
    BY DEF TypeOK
<1> QED
    BY <1>6, <1>7, <1>8, <1>9 DEF Protects, Working, ProcType

\* Who is asked to be able to open what a rekeying writes, and who is taken along
\* by the removal of the empty id.
OpensNext(job, opens) ==
    ((opens \ job.removes) \cap (IF job.new = NoCredential THEN Keys ELSE PublicKeys))
    \cup Secrets(job.new) \cup ToSet(job.pubs)
UnnamedNext(job, opens, unnamed) ==
    (unnamed \cup IF NoId \in job.removes THEN opens \ PublicKeys ELSE {}) \ Secrets(job.new)

\* The others are who can open it.
LEMMA RekeyedAccess ==
    ASSUME NEW job \in Jobs, NEW stanzas \in Seq(Keys), Replacement(stanzas, job) # <<>>,
           NEW opens \in SUBSET Keys, NEW unnamed \in SUBSET Keys,
           ToSet(stanzas) = opens \ unnamed, unnamed \cap PublicKeys = {}
    PROVE  /\ Replacement(stanzas, job) \in Seq(Keys)
           /\ ToSet(Replacement(stanzas, job)) =
                OpensNext(job, opens) \ UnnamedNext(job, opens, unnamed)
           /\ OpensNext(job, opens) \subseteq Keys /\ UnnamedNext(job, opens, unnamed) \subseteq Keys
           /\ UnnamedNext(job, opens, unnamed) \cap PublicKeys = {}
<1> DEFINE opensNext == OpensNext(job, opens)
           unnamedNext == UnnamedNext(job, opens, unnamed)
<1>1. /\ Replacement(stanzas, job) \in Seq(Keys)
      /\ ToSet(Replacement(stanzas, job)) =
            ({k \in opens \ unnamed : Id(k) \notin job.removes} \cap
                (IF job.new = NoCredential THEN Keys ELSE PublicKeys))
            \cup Secrets(job.new) \cup ToSet(job.pubs)
    BY ReplacementFacts
<1>2. /\ job.removes \subseteq PublicKeys \cup {NoId} /\ NoId \notin Keys
      /\ PublicKeys \subseteq Keys /\ ToSet(job.pubs) \subseteq PublicKeys
      /\ Secrets(job.new) \subseteq Keys
    <2>1. job.pubs \in Seq(PublicKeys) /\ job.removes \subseteq PublicKeys \cup {NoId}
        BY JobFacts
    <2>2. Secrets(job.new) \subseteq Keys
        BY JobFacts DEF Secrets, Keys
    <2> QED
        BY <2>1, <2>2, ConstantsAssumption DEF ToSet, Keys
<1>3. \A k \in Keys : Id(k) \notin job.removes <=>
                         k \notin job.removes /\ (k \in PublicKeys \/ NoId \notin job.removes)
    BY <1>2 DEF Id
<1>4. ASSUME NEW k \in Keys
      PROVE  k \in ToSet(Replacement(stanzas, job)) <=> k \in opensNext \ unnamedNext
    <2>1. CASE job.new = NoCredential
        BY <1>1, <1>2, <1>3, <2>1 DEF OpensNext, UnnamedNext
    <2>2. CASE job.new # NoCredential
        BY <1>1, <1>2, <1>3, <2>2 DEF OpensNext, UnnamedNext
    <2> QED
        BY <2>1, <2>2
<1>5. opensNext \subseteq Keys /\ unnamedNext \subseteq Keys /\ unnamedNext \cap PublicKeys = {}
    BY <1>2 DEF OpensNext, UnnamedNext
<1>6. ToSet(Replacement(stanzas, job)) \subseteq Keys
    BY <1>1 DEF ToSet
<1> QED
    BY <1>1, <1>4, <1>5, <1>6

LEMMA RekeysFacts ==
    ASSUME TypeOK, NEW p \in Procs, Going(p), SoundInput(p), NEW file, Rekeys(p, file)
    PROVE  /\ file \in FileType /\ file.payload # 0 /\ file.payload = proc[p].input.payload
           /\ Sound(file)
           /\ Decrypts(file, CallerHas(proc[p].job) \cup ToSet(proc[p].job.pubs))
           /\ proc[p].pc = "publish"
<1> DEFINE job == proc[p].job
           input == proc[p].input
<1>1. /\ job \in Jobs /\ job.op = "rekey" /\ proc[p].pc = "publish"
      /\ file = Rekeyed(job, input) /\ file.stanzas # <<>> /\ Verified(file, job)
    BY ProcFacts DEF Rekeys, Working
<1>2. /\ input \in FileType /\ input.stanzas \in Seq(Keys) /\ input.payload \in Nat
      /\ input.intact \in BOOLEAN /\ input.payload # 0
      /\ ToSet(input.stanzas) = input.opens \ input.unnamed /\ input.unnamed \cap PublicKeys = {}
      /\ input.opens \subseteq Keys /\ input.unnamed \subseteq Keys
    BY <1>1, ProcFacts DEF SoundInput, Sound, FileType
<1>3. /\ file.stanzas = Replacement(input.stanzas, job) /\ file.payload = input.payload
      /\ file.intact = input.intact /\ file.whole = input.intact /\ file.by = CallerHas(job)
      /\ file.opens = ((input.opens \ job.removes) \cap
                          (IF job.new = NoCredential THEN Keys ELSE PublicKeys))
                      \cup Secrets(job.new) \cup ToSet(job.pubs)
      /\ file.unnamed = (input.unnamed \cup IF NoId \in job.removes
                                            THEN input.opens \ PublicKeys ELSE {})
                        \ Secrets(job.new)
    BY <1>1, <1>2 DEF Rekeyed, FileType
<1>4. /\ file.stanzas \in Seq(Keys) /\ ToSet(file.stanzas) = file.opens \ file.unnamed
      /\ file.opens \subseteq Keys /\ file.unnamed \subseteq Keys
      /\ file.unnamed \cap PublicKeys = {}
    <2>1. /\ Replacement(input.stanzas, job) # <<>> /\ job \in Jobs /\ input.stanzas \in Seq(Keys)
          /\ input.opens \in SUBSET Keys /\ input.unnamed \in SUBSET Keys
        BY <1>1, <1>2, <1>3
    <2>2. /\ file.opens = OpensNext(job, input.opens)
          /\ file.unnamed = UnnamedNext(job, input.opens, input.unnamed)
        BY <1>3 DEF OpensNext, UnnamedNext
    <2> QED
        BY <1>2, <1>3, <2>1, <2>2, RekeyedAccess
<1>6. CallerHas(job) \subseteq Keys
    <2>1. /\ job.ids \subseteq PublicKeys
          /\ job.cred \in Keys \cup {NoCredential} /\ job.new \in Keys \cup {NoCredential}
        BY <1>1, JobFacts DEF Keys
    <2>2. Secrets(IF job.new = NoCredential THEN job.cred ELSE job.new) \subseteq Keys
        BY <2>1 DEF Secrets
    <2> QED
        BY <2>1, <2>2 DEF CallerHas, Keys
<1>7. file \in FileType
    BY <1>1, <1>2, <1>3, <1>4, <1>6 DEF Rekeyed, FileType
<1>8. ReadHeader(file.stanzas) /\ Unwraps(file.stanzas, CallerHas(job)) /\ file.intact
    BY <1>1 DEF Verified, Decrypts
<1>9. Sound(file) /\ Decrypts(file, CallerHas(job) \cup ToSet(job.pubs))
    BY <1>3, <1>4, <1>8 DEF Sound, Decrypts, Unwraps
<1> QED
    BY <1>1, <1>2, <1>3, <1>7, <1>9

-----------------------------------------------------------------------------
(* Types and files. *)

LEMMA InitTypeOK == Init => TypeOK
<1> SUFFICES ASSUME Init PROVE TypeOK
    OBVIOUS
<1>1. (CHOOSE job \in Jobs : TRUE) \in Jobs
    BY JobsAssumption
<1>2. <<>> \in Seq(ItemType)
    OBVIOUS
<1> QED
    BY <1>1, <1>2, NoFileFacts DEF Init, TypeOK, ProcType

LEMMA StepTypeOK ==
    ASSUME TypeOK, NEW p \in Procs, Going(p), SoundInput(p), UNCHANGED <<begun, damaged>>,
           Prepares(p) \/ Ends(p) \/ (\E file : Protects(p, file)) \/ (\E file : Rekeys(p, file))
    PROVE  TypeOK'
<1>1. CASE Prepares(p)
    BY <1>1, PreparesFacts DEF Prepares, TypeOK
<1>2. CASE Ends(p)
    BY <1>2, ItemEndsFacts DEF Ends, TypeOK
<1>3. ASSUME NEW file, Protects(p, file)
      PROVE  TypeOK'
    <2>1. file \in FileType /\ proc' \in [Procs -> ProcType] /\ Out(p) \in Names
        BY <1>3, ProtectsFacts, OutFacts
    <2>2. Replaces(Out(p)) \subseteq Names \X Nat
        BY <2>1 DEF Replaces, TypeOK, FileType
    <2> QED
        <3>1. files' \in [Names -> FileType]
            BY <1>3, <2>1 DEF Protects, TypeOK
        <3>2. replaced' \subseteq Names \X Nat
            BY <1>3, <2>2 DEF Protects, TypeOK
        <3>3. {begun, made, damaged}' \subseteq Nat
            <4>1. begun \in Nat /\ made \in Nat /\ damaged \in Nat
                BY DEF TypeOK
            <4>2. made' = made + 1
                BY <1>3 DEF Protects
            <4> QED
                BY <4>1, <4>2
        <3> QED
            BY <2>1, <3>1, <3>2, <3>3 DEF TypeOK
<1>4. ASSUME NEW file, Rekeys(p, file)
      PROVE  TypeOK'
    <2>1. file \in FileType /\ Out(p) \in Names
        BY <1>4, RekeysFacts, OutFacts
    <2>2. proc' \in [Procs -> ProcType]
        BY <1>4, ItemEndsFacts, ProcFacts DEF Rekeys
    <2> QED
        BY <1>4, <2>1, <2>2 DEF Rekeys, TypeOK
<1> QED
    BY <1>1, <1>2, <1>3, <1>4

LEMMA BeginTypeOK ==
    ASSUME TypeOK, NEW p \in Procs, Begin(p)
    PROVE  /\ TypeOK' /\ UNCHANGED <<files, made, damaged, replaced>>
           /\ \A q \in Procs \ {p} : proc'[q] = proc[q]
           /\ proc'[p].pc = "prepare" /\ proc'[p].items = <<>> /\ proc'[p].job \in Jobs
<1>1. PICK job \in Jobs :
         proc' = [proc EXCEPT ![p] =
            [pc |-> "prepare", job |-> job, items |-> <<>>, input |-> NoFile]]
    BY DEF Begin
<1>2. [pc |-> "prepare", job |-> job, items |-> <<>>, input |-> NoFile] \in ProcType
    <2>1. <<>> \in Seq(ItemType)
        OBVIOUS
    <2> QED
        BY <2>1, NoFileFacts DEF ProcType
<1> QED
    BY <1>1, <1>2 DEF Begin, TypeOK

LEMMA DamageFacts ==
    ASSUME TypeOK, Damage
    PROVE  /\ TypeOK' /\ UNCHANGED <<proc, begun, made, replaced>>
           /\ \A n \in Names :
                 /\ files'[n].stanzas = files[n].stanzas /\ files'[n].payload = files[n].payload
                 /\ files'[n].opens = files[n].opens /\ files'[n].unnamed = files[n].unnamed
                 /\ files'[n].whole = files[n].whole
                 /\ files'[n].by = files[n].by
                 /\ files'[n].intact = files[n].intact \/ files'[n].intact = FALSE
<1>1. PICK n \in Names : files' = [files EXCEPT ![n].intact = FALSE]
    BY DEF Damage
<1>2. files \in [Names -> FileType]
    BY DEF TypeOK
<1>3. files' \in [Names -> FileType]
    BY <1>1, <1>2 DEF FileType
<1>4. \A m \in Names \ {n} : files'[m] = files[m]
    BY <1>1, <1>2
<1>5. /\ files'[n].stanzas = files[n].stanzas /\ files'[n].payload = files[n].payload
      /\ files'[n].opens = files[n].opens /\ files'[n].unnamed = files[n].unnamed
      /\ files'[n].whole = files[n].whole
      /\ files'[n].by = files[n].by /\ files'[n].intact = FALSE
    BY <1>1, <1>2 DEF FileType
<1> QED
    <2>1. UNCHANGED <<proc, begun, made, replaced>> /\ damaged' = damaged + 1
        BY DEF Damage
    <2>2. TypeOK'
        BY <1>3, <2>1 DEF TypeOK
    <2>3. ASSUME NEW m \in Names
          PROVE  /\ files'[m].stanzas = files[m].stanzas /\ files'[m].payload = files[m].payload
                 /\ files'[m].opens = files[m].opens /\ files'[m].unnamed = files[m].unnamed
                 /\ files'[m].whole = files[m].whole
                 /\ files'[m].by = files[m].by
                 /\ files'[m].intact = files[m].intact \/ files'[m].intact = FALSE
        <3>1. CASE m = n
            BY <1>5, <3>1
        <3>2. CASE m # n
            BY <1>4, <3>2
        <3> QED
            BY <3>1, <3>2
    <2> QED
        BY <2>1, <2>2, <2>3

LEMMA DamageSound ==
    ASSUME TypeOK, Damage, SoundFiles
    PROVE  SoundFiles'
BY DamageFacts DEF SoundFiles, Present, Sound

LEMMA StepSoundFiles ==
    ASSUME TypeOK, NEW p \in Procs, Going(p), SoundInput(p), SoundFiles,
           Prepares(p) \/ Ends(p) \/ (\E file : Protects(p, file)) \/ (\E file : Rekeys(p, file))
    PROVE  SoundFiles'
<1>1. CASE Prepares(p) \/ Ends(p)
    BY <1>1 DEF Prepares, Ends, SoundFiles, Present
<1>2. ASSUME NEW file, Sound(file), files' = [files EXCEPT ![Out(p)] = file]
      PROVE  SoundFiles'
    <2>1. \A n \in Names : files'[n] = file \/ files'[n] = files[n]
        BY <1>2 DEF TypeOK
    <2> QED
        BY <1>2, <2>1 DEF SoundFiles, Present
<1> QED
    <2>1. ASSUME NEW file, Protects(p, file)
          PROVE  SoundFiles'
        <3>1. Sound(file) /\ files' = [files EXCEPT ![Out(p)] = file]
            BY <2>1, ProtectsFacts DEF Protects
        <3> QED
            BY <1>2, <3>1
    <2>2. ASSUME NEW file, Rekeys(p, file)
          PROVE  SoundFiles'
        <3>1. Sound(file) /\ files' = [files EXCEPT ![Out(p)] = file]
            BY <2>2, RekeysFacts DEF Rekeys
        <3> QED
            BY <1>2, <3>1
    <2> QED
        BY <1>1, <2>1, <2>2

\* What a rekeying has read stays what it was.
LEMMA StepSoundInput ==
    ASSUME TypeOK, NEW p \in Procs, Going(p), SoundInput(p), SoundFiles,
           Prepares(p) \/ Ends(p) \/ (\E file : Protects(p, file)) \/ (\E file : Rekeys(p, file))
    PROVE  SoundInput(p)'
<1>1. CASE Prepares(p)
    <2>1. proc[p].job.op = "rekey" => files[proc[p].job.in].payload # 0
                                      /\ Sound(files[proc[p].job.in])
        BY <1>1, PreparesFacts, ProcFacts, JobFacts DEF SoundFiles, Present
    <2> QED
        BY <1>1, <2>1, PreparesFacts DEF SoundInput, Sound
<1>2. CASE Ends(p)
    <2>1. proc'[p].pc \in {"prepare", "idle"}
        BY <1>2, ItemEndsFacts DEF Ends
    <2> QED
        BY <2>1 DEF SoundInput
<1>3. ASSUME NEW file, Protects(p, file)
      PROVE  SoundInput(p)'
    BY <1>3, ProtectsFacts DEF SoundInput
<1>4. ASSUME NEW file, Rekeys(p, file)
      PROVE  SoundInput(p)'
    <2>1. proc'[p].pc \in {"prepare", "idle"}
        BY <1>4, ItemEndsFacts, ProcFacts DEF Rekeys
    <2> QED
        BY <2>1 DEF SoundInput
<1> QED
    BY <1>1, <1>2, <1>3, <1>4

-----------------------------------------------------------------------------
(* Outcomes. *)

\* A file that stands for an outcome is not replaced except by a request to
\* overwrite, whose replacement is on record.
LEMMA StandsStays ==
    ASSUME TypeOK, NEW p \in Procs, Going(p), SoundInput(p),
           Prepares(p) \/ Ends(p) \/ (\E file : Protects(p, file)) \/ (\E file : Rekeys(p, file)),
           NEW n \in Names, NEW payload, NEW job, Stands(n, payload, job)
    PROVE  StandsNext(n, payload, job)
<1>1. CASE Prepares(p) \/ Ends(p)
    BY <1>1 DEF Prepares, Ends, Stands, StandsNext
<1>2. ASSUME NEW file, Protects(p, file)
      PROVE  StandsNext(n, payload, job)
    <2>1. /\ \A m \in Names \ {Out(p)} : files'[m] = files[m]
          /\ replaced' = replaced \cup Replaces(Out(p))
        BY <1>2 DEF Protects, TypeOK
    <2>2. n = Out(p) /\ files[n].payload = payload => <<n, payload>> \in replaced'
        BY <2>1 DEF Replaces, Present, Stands, StandsIn
    <2> QED
        BY <2>1, <2>2 DEF Stands, StandsNext, StandsIn
<1>3. ASSUME NEW file, Rekeys(p, file)
      PROVE  StandsNext(n, payload, job)
    <2>1. /\ \A m \in Names \ {Out(p)} : files'[m] = files[m]
          /\ replaced' = replaced /\ files[Out(p)].payload = 0
        BY <1>3 DEF Rekeys, TypeOK, Present
    <2> QED
        BY <2>1 DEF Stands, StandsNext, StandsIn
<1> QED
    BY <1>1, <1>2, <1>3

LEMMA DamageStands ==
    ASSUME TypeOK, Damage,
           NEW n \in Names, NEW payload, NEW job, Stands(n, payload, job)
    PROVE  StandsNext(n, payload, job)
BY DamageFacts DEF Stands, StandsNext, StandsIn, Decrypts

\* Names of outputs.
LEMMA OutsFacts ==
    ASSUME TypeOK, NEW p \in Procs, Going(p)
    PROVE  \A i \in DOMAIN proc[p].items : proc[p].job.outs[i] \in Names
<1>1. proc[p].items \in Seq(ItemType) /\ proc[p].job.outs \in Seq(Names)
    BY ProcFacts
<1> QED
    BY <1>1 DEF Going

\* What is said of the outcomes of a process that makes no step.
LEMMA OtherOutcomes ==
    ASSUME TypeOK, NEW q \in Procs, Outcomes(q), Going(q),
           proc'[q] = proc[q],
           \A n \in Names : \A payload, job :
               Stands(n, payload, job) => StandsNext(n, payload, job)
    PROVE  Outcomes(q)'
<1>1. \A i \in DOMAIN proc[q].items : proc[q].job.outs[i] \in Names
    BY OutsFacts
<1>2. proc[q].pc = "finish" => Out(q) \in Names
    BY OutFacts
<1>3. Out(q)' = Out(q)
    BY DEF Out
<1> QED
    BY <1>1, <1>2, <1>3 DEF Outcomes, Stands, StandsNext

\* An item that ends leaves the earlier ones as they are.
LEMMA EndingOutcomes ==
    ASSUME TypeOK, NEW p \in Procs, Outcomes(p), Going(p), proc[p].pc # "idle",
           NEW payload \in Nat, NEW status \in {"success", "error", "unverified", "late"},
           ItemEnds(p, status, payload),
           status = "success" => StandsNext(Out(p), payload, proc[p].job),
           \A n \in Names : \A load, job : Stands(n, load, job) => StandsNext(n, load, job)
    PROVE  Outcomes(p)'
<1> DEFINE items == proc[p].items
           item == Item(status, payload)
<1>1. /\ proc'[p].items = Append(items, item) /\ proc'[p].job = proc[p].job
      /\ proc'[p].pc # "finish"
    BY ItemEndsFacts
<1>2. items \in Seq(ItemType) /\ Len(items) < Len(proc[p].job.outs)
    BY ProcFacts DEF Going
<1>3. /\ DOMAIN Append(items, item) = DOMAIN items \cup {Len(items) + 1}
      /\ Append(items, item)[Len(items) + 1] = item
      /\ \A i \in DOMAIN items : Append(items, item)[i] = items[i]
    BY <1>2
<1>4. \A i \in DOMAIN items : proc[p].job.outs[i] \in Names
    BY <1>2, OutsFacts
<1>5. item.status = status /\ item.payload = payload
    BY DEF Item
<1>6. Out(p) = proc[p].job.outs[Len(items) + 1]
    BY DEF Out
<1> HIDE DEF items, item
<1>7. ASSUME NEW i \in DOMAIN Append(items, item), Append(items, item)[i].status = "success"
      PROVE  StandsNext(proc[p].job.outs[i], Append(items, item)[i].payload, proc[p].job)
    <2>1. CASE i \in DOMAIN items
        BY <1>3, <1>4, <1>7, <2>1 DEF Outcomes, items, Stands
    <2>2. CASE i = Len(items) + 1
        BY <1>3, <1>5, <1>6, <1>7, <2>2
    <2> QED
        BY <1>3, <2>1, <2>2
<1> QED
    BY <1>1, <1>7 DEF Outcomes, Stands, StandsNext, items, item

LEMMA StepOutcomes ==
    ASSUME TypeOK, NEW p \in Procs, Outcomes(p), Going(p), SoundInput(p),
           Prepares(p) \/ Ends(p) \/ (\E file : Protects(p, file)) \/ (\E file : Rekeys(p, file))
    PROVE  Outcomes(p)'
<1>1. \A n \in Names : \A payload, job : Stands(n, payload, job) => StandsNext(n, payload, job)
    BY StandsStays
<1>2. \A i \in DOMAIN proc[p].items : proc[p].job.outs[i] \in Names
    BY OutsFacts
<1>3. CASE Prepares(p)
    BY <1>1, <1>2, <1>3, PreparesFacts DEF Outcomes, Stands, StandsNext
<1>4. CASE Ends(p)
    <2>1. PICK status \in {"success", "error", "unverified", "late"}, payload \in Nat :
             /\ ItemEnds(p, status, payload)
             /\ status = "success" => proc[p].pc = "finish" /\ payload = proc[p].input.payload
        BY <1>4 DEF Ends, Working
    <2>2. proc[p].pc # "idle"
        BY <1>4 DEF Ends, Working
    <2>3. status = "success" => StandsNext(Out(p), payload, proc[p].job)
        <3> SUFFICES ASSUME status = "success" PROVE StandsNext(Out(p), payload, proc[p].job)
            OBVIOUS
        <3>1. Stands(Out(p), payload, proc[p].job)
            BY <2>1 DEF Outcomes
        <3> QED
            BY <1>1, <2>2, <3>1, OutFacts
    <2> QED
        BY <1>1, <2>1, <2>2, <2>3, EndingOutcomes
<1>5. ASSUME NEW file, Protects(p, file)
      PROVE  Outcomes(p)'
    <2>1. /\ proc'[p].job = proc[p].job /\ proc'[p].items = proc[p].items
          /\ proc'[p].input = file /\ Out(p) \in Names
        BY <1>5, ProtectsFacts, OutFacts
    <2>2. Out(p)' = Out(p)
        BY <2>1 DEF Out
    <2>3. files'[Out(p)] = file
        BY <1>5, <2>1 DEF Protects, TypeOK
    <2>4. StandsNext(Out(p), file.payload, proc[p].job)
        BY <1>5, <2>3, ProtectsFacts DEF StandsNext, StandsIn
    <2> QED
        BY <1>1, <1>2, <2>1, <2>2, <2>4 DEF Outcomes, Stands, StandsNext
<1>6. ASSUME NEW file, Rekeys(p, file)
      PROVE  Outcomes(p)'
    <2>1. /\ proc[p].pc # "idle" /\ Out(p) \in Names /\ proc[p].input.payload \in Nat
          /\ ItemEnds(p, "success", proc[p].input.payload)
        BY <1>6, RekeysFacts, OutFacts, ProcFacts DEF Rekeys
    <2>2. files'[Out(p)] = file
        BY <1>6, <2>1 DEF Rekeys, TypeOK
    <2>3. StandsNext(Out(p), proc[p].input.payload, proc[p].job)
        BY <1>6, <2>2, RekeysFacts DEF StandsNext, StandsIn
    <2> QED
        BY <1>1, <2>1, <2>3, EndingOutcomes
<1> QED
    BY <1>3, <1>4, <1>5, <1>6

-----------------------------------------------------------------------------
(* Batches. *)

LEMMA EndingBatch ==
    ASSUME TypeOK, NEW p \in Procs, Going(p), proc[p].pc # "idle",
           NEW payload \in Nat, NEW status \in {"success", "error", "unverified", "late"},
           ItemEnds(p, status, payload)
    PROVE  Going(p)' /\ Stopped(p)'
<1> DEFINE items == proc[p].items
           after == proc'[p].items
           outs == proc[p].job.outs
<1>1. /\ after = Append(items, Item(status, payload)) /\ proc'[p].job = proc[p].job
      /\ proc'[p].pc = IF Len(items) + 1 < Len(outs) /\ (status = "success" \/ proc[p].job.more)
                       THEN "prepare" ELSE "idle"
    BY ItemEndsFacts
<1>2. /\ items \in Seq(ItemType) /\ Len(items) \in Nat /\ Len(outs) \in Nat
      /\ Len(items) < Len(outs) /\ (proc[p].job.more \/ Successes(items))
    BY ProcFacts DEF Going
<1>3. Item(status, payload).status = status
    BY DEF Item
<1> HIDE DEF items, outs
<1>4. /\ Len(after) = Len(items) + 1 /\ after[Len(items) + 1] = Item(status, payload)
      /\ DOMAIN after = 1..(Len(items) + 1)
      /\ \A i \in 1..Len(items) : i \in DOMAIN items /\ after[i] = items[i]
      /\ DOMAIN items = 1..Len(items)
    BY <1>1, <1>2
<1> HIDE DEF after
<1>5. Successes(after) <=> Successes(items) /\ status = "success"
    <2>1. 1..(Len(items) + 1) = 1..Len(items) \cup {Len(items) + 1}
        BY <1>2
    <2> QED
        BY <1>3, <1>4, <2>1 DEF Successes
<1>6. Going(p)'
    <2>1. Len(after) <= Len(outs)
        BY <1>2, <1>4
    <2>2. proc'[p].pc # "idle" =>
             Len(after) < Len(outs) /\ (proc[p].job.more \/ Successes(after))
        BY <1>1, <1>2, <1>4, <1>5
    <2> QED
        BY <1>1, <2>1, <2>2 DEF Going, after, outs, Successes
<1>7. Stopped(p)'
    <2>1. CASE proc'[p].pc = "idle" /\ (proc[p].job.more \/ Successes(after))
        <3>1. Len(after) = Len(outs)
            BY <1>1, <1>2, <1>4, <1>5, <2>1
        <3> QED
            BY <1>1, <2>1, <3>1 DEF Stopped, after, outs, Successes
    <2>2. CASE ~(proc[p].job.more \/ Successes(after))
        <3>1. \A i \in 1..(Len(after) - 1) : after[i].status = "success"
            BY <1>2, <1>4, <2>2 DEF Successes
        <3> QED
            BY <1>1, <2>2, <3>1 DEF Stopped, after, Successes
    <2>3. CASE proc'[p].pc # "idle"
        BY <2>3 DEF Stopped
    <2> QED
        BY <2>1, <2>2, <2>3
<1> QED
    BY <1>6, <1>7

LEMMA StepBatch ==
    ASSUME TypeOK, NEW p \in Procs, Going(p), SoundInput(p),
           Prepares(p) \/ Ends(p) \/ (\E file : Protects(p, file)) \/ (\E file : Rekeys(p, file))
    PROVE  Going(p)' /\ Stopped(p)'
<1>1. CASE Prepares(p)
    BY <1>1, PreparesFacts DEF Going, Stopped, Successes
<1>2. CASE Ends(p)
    BY <1>2, EndingBatch DEF Ends, Working
<1>3. ASSUME NEW file, Protects(p, file)
      PROVE  Going(p)' /\ Stopped(p)'
    <2>1. /\ proc[p].pc = "publish" /\ proc'[p].pc = "finish"
          /\ proc'[p].job = proc[p].job /\ proc'[p].items = proc[p].items
        BY <1>3, ProtectsFacts
    <2> QED
        BY <2>1 DEF Going, Stopped, Successes
<1>4. ASSUME NEW file, Rekeys(p, file)
      PROVE  Going(p)' /\ Stopped(p)'
    BY <1>4, EndingBatch, ProcFacts DEF Rekeys, Working
<1> QED
    BY <1>1, <1>2, <1>3, <1>4

-----------------------------------------------------------------------------
(* The inductive invariant. *)

LEMMA InitInv == Init => Inv
<1> SUFFICES ASSUME Init PROVE Inv
    OBVIOUS
<1>1. TypeOK
    BY InitTypeOK
<1>2. SoundFiles
    BY NoFileFacts DEF Init, SoundFiles, Present
<1>3. ASSUME NEW p \in Procs
      PROVE  SoundInput(p) /\ Outcomes(p) /\ Going(p) /\ Stopped(p)
    <2>1. proc[p].pc = "idle" /\ proc[p].items = <<>>
        BY DEF Init
    <2>2. Len(proc[p].job.outs) \in Nat
        BY <1>1, ProcFacts
    <2> QED
        BY <2>1, <2>2 DEF SoundInput, Outcomes, Going, Stopped
<1> QED
    BY <1>1, <1>2, <1>3 DEF Inv

\* A process that makes no step, while outcomes go on to stand.
LEMMA OtherProc ==
    ASSUME Inv, NEW q \in Procs, proc'[q] = proc[q],
           \A n \in Names : \A payload, job :
               Stands(n, payload, job) => StandsNext(n, payload, job)
    PROVE  (SoundInput(q) /\ Outcomes(q) /\ Going(q) /\ Stopped(q))'
<1>1. Outcomes(q)'
    BY OtherOutcomes DEF Inv
<1>2. (SoundInput(q) /\ Going(q) /\ Stopped(q))'
    BY DEF Inv, SoundInput, Going, Stopped, Successes, Sound
<1> QED
    BY <1>1, <1>2

LEMMA BeginInv ==
    ASSUME Inv, NEW p \in Procs, Begin(p)
    PROVE  Inv'
<1>1. /\ TypeOK' /\ UNCHANGED <<files, made, damaged, replaced>>
      /\ \A q \in Procs \ {p} : proc'[q] = proc[q]
      /\ proc'[p].pc = "prepare" /\ proc'[p].items = <<>> /\ proc'[p].job \in Jobs
    BY BeginTypeOK DEF Inv
<1>2. SoundFiles'
    BY <1>1 DEF Inv, SoundFiles, Present
<1>3. \A n \in Names : \A payload, job : Stands(n, payload, job) => StandsNext(n, payload, job)
    BY <1>1 DEF Stands, StandsNext
<1>4. (SoundInput(p) /\ Outcomes(p) /\ Going(p) /\ Stopped(p))'
    <2>1. proc'[p].job.outs \in Seq(Names) /\ proc'[p].job.outs # <<>>
        BY <1>1, JobFacts
    <2>2. 0 < Len(proc'[p].job.outs)
        BY <2>1
    <2> QED
        BY <1>1, <2>2 DEF SoundInput, Outcomes, Going, Stopped, Successes
<1> QED
    BY <1>1, <1>2, <1>3, <1>4, OtherProc DEF Inv

LEMMA DamageInv ==
    ASSUME Inv, Damage
    PROVE  Inv'
<1>1. TypeOK' /\ SoundFiles' /\ proc' = proc
    BY DamageFacts, DamageSound DEF Inv
<1>2. \A n \in Names : \A payload, job : Stands(n, payload, job) => StandsNext(n, payload, job)
    BY DamageStands DEF Inv
<1> QED
    BY <1>1, <1>2, OtherProc DEF Inv

LEMMA NextInv == Inv /\ [Next]_vars => Inv'
<1> SUFFICES ASSUME Inv, [Next]_vars PROVE Inv'
    OBVIOUS
<1>1. ASSUME NEW p \in Procs,
             \/ PrepareProtect(p) \/ PrepareRekey(p) \/ PublishProtect(p)
             \/ Finish(p) \/ FailsLate(p) \/ PublishRekey(p) \/ Fails(p)
      PROVE  Inv'
    <2>1. TypeOK /\ SoundFiles /\ SoundInput(p) /\ Outcomes(p) /\ Going(p)
        BY DEF Inv
    <2>2. /\ UNCHANGED <<begun, damaged>>
          /\ Prepares(p) \/ Ends(p) \/ (\E file : Protects(p, file)) \/ (\E file : Rekeys(p, file))
        BY <1>1, <2>1, StepShape
    <2>3. TypeOK' /\ SoundFiles'
        BY <2>1, <2>2, StepTypeOK, StepSoundFiles
    <2>4. (SoundInput(p) /\ Outcomes(p) /\ Going(p) /\ Stopped(p))'
        BY <2>1, <2>2, StepSoundInput, StepOutcomes, StepBatch
    <2>5. \A n \in Names : \A payload, job : Stands(n, payload, job) => StandsNext(n, payload, job)
        BY <2>1, <2>2, StandsStays
    <2>6. \A q \in Procs \ {p} : proc'[q] = proc[q]
        <3>1. CASE Prepares(p)
            BY <2>1, <3>1, PreparesFacts
        <3>2. CASE Ends(p)
            BY <2>1, <3>2, ItemEndsFacts DEF Ends
        <3>3. ASSUME NEW file, Protects(p, file)
              PROVE  \A q \in Procs \ {p} : proc'[q] = proc[q]
            BY <2>1, <3>3, ProtectsFacts
        <3>4. ASSUME NEW file, Rekeys(p, file)
              PROVE  \A q \in Procs \ {p} : proc'[q] = proc[q]
            BY <2>1, <3>4, ItemEndsFacts, ProcFacts DEF Rekeys
        <3> QED
            BY <2>2, <3>1, <3>2, <3>3, <3>4
    <2> QED
        BY <2>3, <2>4, <2>5, <2>6, OtherProc DEF Inv
<1>2. CASE UNCHANGED vars
    BY <1>2 DEF vars, Inv, TypeOK, SoundFiles, Present, SoundInput, Outcomes, Stands, Out,
               Going, Stopped
<1> QED
    BY <1>1, <1>2, BeginInv, DamageInv DEF Next

THEOREM Invariance == Spec => []Inv
<1>1. Init => Inv
    BY InitInv
<1>2. Inv /\ [Next]_vars => Inv'
    BY NextInv
<1> QED
    BY <1>1, <1>2, PTL DEF Spec

-----------------------------------------------------------------------------
(* The properties. *)

\* Every file, request and outcome is of its type, for any requests.
THEOREM TypeCorrect == Spec => []TypeOK
<1>1. Inv => TypeOK
    BY DEF Inv
<1> QED
    BY <1>1, Invariance, PTL

\* After any chain of protections and rekeyings, by any processes, every file has
\* a header the program accepts and opens for exactly those it was given to and
\* not taken from, a removal of the empty id taking every password and raw key
\* (container.Rekey, wrapRecipients).
THEOREM AccessIsExact == Spec => []AccessIsAsAsked
<1>1. Inv => AccessIsAsAsked
    BY DEF Inv, SoundFiles, Sound, AccessIsAsAsked, Readable, OpensAsAsked
<1> QED
    BY <1>1, Invariance, PTL

\* No rekeying publishes a file that is damaged or that its writer cannot open
\* (Service.Rekey).
THEOREM RekeyingIsUsable == Spec => []RekeyedIsUsable
<1>1. Inv => RekeyedIsUsable
    BY DEF Inv, SoundFiles, Sound, RekeyedIsUsable
<1> QED
    BY <1>1, Invariance, PTL

\* A success that was reported stands until a request to overwrite its file, and
\* a batch stops where it should (BatchProtect, Protect, Rekey).
THEOREM OutcomesAreTrue == Spec => []OutcomesStand
<1>1. ASSUME Inv PROVE SuccessStands
    <2> SUFFICES ASSUME NEW p \in Procs, NEW i \in DOMAIN proc[p].items,
                        proc[p].items[i].status = "success"
                 PROVE  Stands(proc[p].job.outs[i], proc[p].items[i].payload, proc[p].job)
        BY DEF SuccessStands, Stands, StandsIn
    <2> QED
        BY <1>1 DEF Inv, Outcomes
<1>2. ASSUME Inv PROVE BatchStops
    BY <1>2 DEF Inv, Stopped, Successes, BatchStops
<1>3. Inv => OutcomesStand
    BY <1>1, <1>2 DEF OutcomesStand
<1> QED
    BY <1>3, Invariance, PTL
=============================================================================
