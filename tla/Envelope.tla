------------------------------ MODULE Envelope ------------------------------
(***************************************************************************)
(* Protected files and who can open them: Service.Protect, BatchProtect    *)
(* and Rekey, run by several processes on the same directory.  A file has  *)
(* a payload under a content key, and in its header one stanza per         *)
(* recipient, which holds the content key wrapped for that recipient.      *)
(*                                                                         *)
(* A stanza is its key: a password, a raw key or a public key, whose       *)
(* identity opens it and whose fingerprint names it; the others have the   *)
(* empty id.  A publication is one step, as AtomicPublish has it.          *)
(***************************************************************************)
EXTENDS Naturals, SequencesExt

CONSTANTS Procs, Names,
          Passwords, RawKeys, PublicKeys, NoCredential,
          NoId,           \* the empty id
          MaxRecipients,  \* container.MaxRecipients
          Jobs,           \* bound: the requests that are made
          MaxJobs,        \* bound: requests that are begun
          MaxDamage       \* bound: files damaged by others

Keys == Passwords \cup RawKeys \cup PublicKeys

ASSUME ConstantsAssumption ==
    /\ Passwords \cap RawKeys = {} /\ (Passwords \cup RawKeys) \cap PublicKeys = {}
    /\ {NoCredential, NoId} \cap Keys = {}
    /\ {MaxRecipients, MaxJobs, MaxDamage} \subseteq Nat

\* There are requests to make; only a rekeying has a credential to change to.
\* Nothing checks the ids of whom a rekeying is to remove: they may be of no
\* recipient, or empty.
ASSUME JobsAssumption ==
    /\ Jobs # {}
    /\ \A job \in Jobs :
        /\ job.op = "rekey" \/ (job.op = "protect" /\ job.new = NoCredential)
        /\ job.outs \in Seq(Names) \ {<<>>} /\ job.in \in Names
        /\ {job.cred, job.new} \subseteq Passwords \cup RawKeys \cup {NoCredential}
        /\ job.pubs \in Seq(PublicKeys)
        /\ job.ids \subseteq PublicKeys /\ job.removes \subseteq PublicKeys \cup {NoId}
        /\ {job.overwrite, job.verify, job.more} \subseteq BOOLEAN

VARIABLES
    files,       \* what is under each name
    proc,        \* what each process is doing
    begun, made, damaged,   \* requests begun, payloads made, files damaged
    replaced     \* history: names and payloads that a request to overwrite has replaced

vars == <<files, proc, begun, made, damaged, replaced>>

\* opens: who was given the file and not removed; unnamed: those of them whom the
\* removal of the empty id has taken along; whole: it was whole when it was
\* published; by: what its writer can open it with.  All four are history.
NoFile ==
    [stanzas |-> <<>>, payload |-> 0, intact |-> FALSE,
     opens |-> {}, unnamed |-> {}, whole |-> TRUE, by |-> {}]
Present(n) == files[n].payload # 0

Secrets(cred) == {cred} \ {NoCredential}

-----------------------------------------------------------------------------
(* The recipients of a header. *)

\* No recipient has two stanzas.
PublicsDiffer(stanzas) ==
    \A i, j \in DOMAIN stanzas :
        stanzas[i] \in PublicKeys /\ stanzas[i] = stanzas[j] => i = j

OnePassword(stanzas) ==
    \A i, j \in DOMAIN stanzas : {stanzas[i], stanzas[j]} \subseteq Passwords => i = j

\* readHeader
ReadHeader(stanzas) ==
    /\ Len(stanzas) \in 1..MaxRecipients
    /\ OnePassword(stanzas) /\ PublicsDiffer(stanzas)

\* unwrapRecipients: some stanza yields the content key.
Unwraps(stanzas, auth) == ToSet(stanzas) \cap auth # {}

\* Decrypt, to the end of the payload.
Decrypts(file, auth) == ReadHeader(file.stanzas) /\ Unwraps(file.stanzas, auth) /\ file.intact

\* Faulty: a public key may be given twice.
WrapDuplicates(cred, pubs) ==
    LET out == (IF cred = NoCredential THEN <<>> ELSE <<cred>>) \o pubs
    IN  IF Len(out) <= MaxRecipients THEN out ELSE <<>>

\* wrapRecipients; no stanzas is an error.
Wrap(cred, pubs) ==
    LET out == (IF cred = NoCredential THEN <<>> ELSE <<cred>>) \o pubs
    IN  IF IsInjective(pubs) /\ Len(out) <= MaxRecipients THEN out ELSE <<>>

\* A loop that appends the stanzas it keeps.  SelectSeq has no facts to prove with.
Keeping(stanzas, keep) ==
    LET upTo[i \in 0..Len(stanzas)] ==
            IF i = 0 THEN <<>>
            ELSE IF stanzas[i] \in keep THEN Append(upTo[i - 1], stanzas[i])
            ELSE upTo[i - 1]
    IN  upTo[Len(stanzas)]

\* What a removal names a stanza by.
Id(k) == IF k \in PublicKeys THEN k ELSE NoId

\* Faulty: only a password is replaced by a new credential.
KeptRawKeys(stanzas, job) ==
    Keeping(stanzas, {k \in Keys :
        Id(k) \notin job.removes /\ ~(job.new # NoCredential /\ k \in Passwords)})

\* A new credential takes the place of every symmetric one.
Kept(stanzas, job) ==
    Keeping(stanzas, {k \in Keys :
        Id(k) \notin job.removes /\ ~(job.new # NoCredential /\ k \notin PublicKeys)})

\* container.Rekey; no stanzas is an error.
Replacement(stanzas, job) ==
    LET adding == job.new # NoCredential \/ job.pubs # <<>>
        added == IF adding THEN Wrap(job.new, job.pubs) ELSE <<>>
        all == Kept(stanzas, job) \o added
    IN  IF adding => added # <<>>
        THEN IF Len(all) <= MaxRecipients /\ PublicsDiffer(all) THEN all ELSE <<>>
        ELSE <<>>

-----------------------------------------------------------------------------
(* A process works through the items of its request. *)

Item(status, payload) == [status |-> status, payload |-> payload]

Working(p, pc) == proc[p].pc = pc
Out(p) == proc[p].job.outs[Len(proc[p].items) + 1]

\* Faulty: an error does not end a batch.
ItemEndsCounted(p, status, payload) ==
    LET items == Append(proc[p].items, Item(status, payload))
        goesOn == Len(items) < Len(proc[p].job.outs)
    IN  proc' = [proc EXCEPT ![p].items = items,
                             ![p].pc = IF goesOn THEN "prepare" ELSE "idle"]

\* The loop of BatchProtect; Protect and Rekey have one item.
ItemEnds(p, status, payload) ==
    LET items == Append(proc[p].items, Item(status, payload))
        goesOn == Len(items) < Len(proc[p].job.outs) /\ (status = "success" \/ proc[p].job.more)
    IN  proc' = [proc EXCEPT ![p].items = items,
                             ![p].pc = IF goesOn THEN "prepare" ELSE "idle"]

Error(p) == ItemEnds(p, "error", 0) /\ UNCHANGED <<files, made, replaced>>

Stays == UNCHANGED <<begun, damaged>>

\* batchPaths refuses a request with two inputs for one output.
Begin(p) ==
    /\ Working(p, "idle") /\ begun < MaxJobs
    /\ begun' = begun + 1
    /\ \E job \in Jobs :
          /\ IsInjective(job.outs)
          /\ proc' = [proc EXCEPT ![p] = [pc |-> "prepare", job |-> job, items |-> <<>>, input |-> NoFile]]
    /\ UNCHANGED <<files, made, damaged, replaced>>

\* prepareOutput, and for a protection everything up to the encryption.
PrepareProtect(p) ==
    /\ Working(p, "prepare") /\ proc[p].job.op = "protect"
    /\ IF Present(Out(p)) /\ ~proc[p].job.overwrite
         THEN Error(p)
         ELSE proc' = [proc EXCEPT ![p].pc = "publish"] /\ UNCHANGED <<files, made, replaced>>
    /\ Stays

\* prepareOutput, and the input is opened: what is opened is what is read,
\* whatever the name refers to later.
PrepareRekey(p) ==
    /\ Working(p, "prepare") /\ proc[p].job.op = "rekey"
    /\ IF Present(Out(p)) \/ ~Present(proc[p].job.in)
         THEN Error(p)
         ELSE /\ proc' = [proc EXCEPT ![p].pc = "publish", ![p].input = files[proc[p].job.in]]
              /\ UNCHANGED <<files, made, replaced>>
    /\ Stays

Replaces(n) == IF Present(n) THEN {<<n, files[n].payload>>} ELSE {}

\* What container.Encrypt makes.
Protected(job, stanzas) ==
    [stanzas |-> stanzas, payload |-> made + 1, intact |-> TRUE, whole |-> TRUE,
     opens |-> Secrets(job.cred) \cup ToSet(job.pubs), unnamed |-> {}, by |-> {}]

\* Faulty: what was found before the encryption is relied on.
PublishProtectUnchecked(p) ==
    LET job == proc[p].job
        file == Protected(job, Wrap(job.cred, job.pubs))
    IN
    /\ Working(p, "publish") /\ job.op = "protect"
    /\ IF file.stanzas = <<>>
         THEN Error(p)
         ELSE /\ made' = made + 1
              /\ files' = [files EXCEPT ![Out(p)] = file]
              /\ replaced' = IF job.overwrite THEN replaced \cup Replaces(Out(p)) ELSE replaced
              /\ proc' = [proc EXCEPT ![p].pc = "finish", ![p].input = file]
    /\ Stays

\* container.Encrypt into the new file, and its publication.
PublishProtect(p) ==
    LET job == proc[p].job
        file == Protected(job, Wrap(job.cred, job.pubs))
    IN
    /\ Working(p, "publish") /\ job.op = "protect"
    /\ IF file.stanzas = <<>> \/ (Present(Out(p)) /\ ~job.overwrite)
         THEN Error(p)
         ELSE /\ made' = made + 1
              /\ files' = [files EXCEPT ![Out(p)] = file]
              /\ replaced' = replaced \cup Replaces(Out(p))
              /\ proc' = [proc EXCEPT ![p].pc = "finish", ![p].input = file]
    /\ Stays

\* VerifyAfter verifies what the path refers to by now, with the credential and
\* without identities.
Finish(p) ==
    LET job == proc[p].job IN
    /\ Working(p, "finish")
    /\ IF job.verify => Decrypts(files[Out(p)], Secrets(job.cred))
         THEN ItemEnds(p, "success", proc[p].input.payload)
         ELSE ItemEnds(p, "unverified", proc[p].input.payload)
    /\ UNCHANGED <<files, made, replaced>> /\ Stays

\* A cancellation, or the output or the workspace cannot be looked at or closed.
FailsLate(p) ==
    /\ Working(p, "finish")
    /\ ItemEnds(p, "late", proc[p].input.payload)
    /\ UNCHANGED <<files, made, replaced>> /\ Stays

\* What the caller of a rekeying has from then on.
CallerHas(job) ==
    job.ids \cup Secrets(IF job.new = NoCredential THEN job.cred ELSE job.new)

\* Faulty: the header of the new file is read back, and nothing else.
VerifiedHeader(output, job) == ReadHeader(output.stanzas)

\* The new file is decrypted before it is published.
Verified(output, job) == Decrypts(output, CallerHas(job))

PublishRekey(p) ==
    LET job == proc[p].job
        input == proc[p].input
        output == [input EXCEPT
            !.stanzas = Replacement(input.stanzas, job),
            !.opens = ((@ \ job.removes) \cap
                          (IF job.new = NoCredential THEN Keys ELSE PublicKeys))
                      \cup Secrets(job.new) \cup ToSet(job.pubs),
            !.unnamed = (@ \cup IF NoId \in job.removes THEN input.opens \ PublicKeys ELSE {})
                        \ Secrets(job.new),
            !.whole = input.intact,
            !.by = CallerHas(job)]
    IN
    /\ Working(p, "publish") /\ job.op = "rekey"
    /\ IF /\ ReadHeader(input.stanzas) /\ Unwraps(input.stanzas, Secrets(job.cred) \cup job.ids)
          /\ output.stanzas # <<>>
          /\ Verified(output, job)
          /\ ~Present(Out(p))
         THEN /\ files' = [files EXCEPT ![Out(p)] = output]
              /\ ItemEnds(p, "success", input.payload)
              /\ UNCHANGED <<made, replaced>>
         ELSE Error(p)
    /\ Stays

\* A cancellation, or any step that fails before the publication.
Fails(p) == (Working(p, "prepare") \/ Working(p, "publish")) /\ Error(p) /\ Stays

Damage ==
    /\ damaged < MaxDamage
    /\ damaged' = damaged + 1
    /\ \E n \in {m \in Names : Present(m)} : files' = [files EXCEPT ![n].intact = FALSE]
    /\ UNCHANGED <<proc, begun, made, replaced>>

Next ==
    \/ \E p \in Procs :
          \/ Begin(p) \/ PrepareProtect(p) \/ PrepareRekey(p)
          \/ PublishProtect(p) \/ Finish(p) \/ FailsLate(p) \/ PublishRekey(p) \/ Fails(p)
    \/ Damage

Init ==
    /\ files = [n \in Names |-> NoFile]
    /\ proc = [p \in Procs |-> [pc |-> "idle", job |-> CHOOSE job \in Jobs : TRUE,
                                items |-> <<>>, input |-> NoFile]]
    /\ begun = 0 /\ made = 0 /\ damaged = 0 /\ replaced = {}

Spec == Init /\ [][Next]_vars

-----------------------------------------------------------------------------
(* Properties. *)

\* No chain of protections and rekeyings ends in a file whose header the program
\* itself rejects: too many recipients, two passwords, a recipient twice
\* (container.go:421-447).
Readable == \A n \in Names : Present(n) => ReadHeader(files[n].stanzas)

\* After any chain of rekeyings a file is opened by exactly those it was given to
\* and not taken from: the removal of a fingerprint takes the access of nobody else,
\* an addition survives a removal of the same recipient, a new credential ends every
\* old symmetric one (container.go:337-369).  The removal of the empty id, which the
\* stanzas of all passwords and raw keys have, takes those there are then as well,
\* and no recipient who has a fingerprint (container.go:342-345, 481, 503).
OpensAsAsked ==
    \A n \in Names : Present(n) =>
        /\ ToSet(files[n].stanzas) = files[n].opens \ files[n].unnamed
        /\ files[n].unnamed \cap PublicKeys = {}

\* Who has rekeyed a file can open the result, and the result is whole: neither
\* the removal of one's own access nor a damaged input is published
\* (rekey.go:79-90).
RekeyedIsUsable ==
    \A n \in Names :
        Present(n) /\ files[n].by # {} =>
            files[n].whole /\ Unwraps(files[n].stanzas, files[n].by)

\* What a request has reported as a success is there and can be opened with what
\* the request gave, unless another request asked to overwrite it: two requests
\* for one name do not both succeed.
SuccessStands ==
    \A p \in Procs : \A i \in DOMAIN proc[p].items :
        LET item == proc[p].items[i]
            job == proc[p].job
            file == files[job.outs[i]]
        IN  item.status = "success" =>
                \/ <<job.outs[i], item.payload>> \in replaced
                \/ /\ file.payload = item.payload
                   /\ file.intact => Decrypts(file, CallerHas(job) \cup ToSet(job.pubs))

\* A batch that is not to continue after an error does nothing after one
\* (batch.go:58-60), and one that is to continue leaves nothing out.
BatchStops ==
    \A p \in Procs :
        LET items == proc[p].items
            job == proc[p].job
        IN  proc[p].pc = "idle" /\ items # <<>> =>
                IF job.more \/ \A i \in DOMAIN items : items[i].status = "success"
                THEN Len(items) = Len(job.outs)
                ELSE \A i \in 1..(Len(items) - 1) : items[i].status = "success"

\* The description of --verify-after (ui/cli/protect.go:100), "reopen and fully
\* verify the published artifact": an artifact that is in place and undamaged is
\* not reported as one that failed verification.
VerifyAfterHolds ==
    \A p \in Procs : \A i \in DOMAIN proc[p].items :
        LET item == proc[p].items[i]
            file == files[proc[p].job.outs[i]]
        IN  item.status = "unverified" => ~(file.payload = item.payload /\ file.intact)

\* A file is opened by those it was given to, and by the program at all.
AccessIsAsAsked == Readable /\ OpensAsAsked

\* What a request or a batch reports is what it has done.
OutcomesStand == SuccessStands /\ BatchStops
=============================================================================
