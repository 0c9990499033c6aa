-------------------------------- MODULE Keys --------------------------------
(***************************************************************************)
(* Identities, detached signatures and raw keys: the commands of           *)
(* app/identity.go and app/key.go, which read and publish small files that *)
(* other programs replace, remove and link meanwhile.  One command runs at *)
(* a time.  A key pair is a number; what is signed is known by the file    *)
(* that holds it, and nobody signs with a key that is not his.             *)
(***************************************************************************)
EXTENDS Naturals, Integers, FiniteSets

CONSTANTS KeyPaths, PublicPaths, SignaturePaths, InputPaths,
          Texts,       \* what there is to sign
          Starts,      \* the files there may be at first, with key pairs 1 and 2
          MaxCalls,    \* bound: commands in one behaviour
          MaxOthers    \* bound: steps of other programs

\* Files have numbers of their own, of those there are before the first command;
\* where there is a signature it is at a path for one.
ASSUME ConstantsAssumption ==
    /\ {MaxCalls, MaxOthers} \subseteq Nat
    /\ \A f \in Starts : \A p \in DOMAIN f :
          /\ f[p].ino \in Int /\ f[p].ino < 1
          /\ \A q \in DOMAIN f : f[q].ino = f[p].ino => q = p
          /\ f[p].type = "file" /\ f[p].content.kind = "signature" => p \in SignaturePaths

VARIABLES
    files,        \* what each path names, where it names something
    call, at,     \* the running command and its next step
    held,         \* what it has read
    seen,         \* history: the files there have been since it began,
    disturbed,    \* whether another program has acted,
    made,         \* and what the command has published
    signed,       \* history: who has signed what
    result,       \* of the last command
    calls, others, \* how many there have been
    pairs,        \* key pairs that have been generated
    fresh         \* the next file's number

vars ==
    <<files, call, at, held, seen, disturbed, made, signed, result, calls, others, pairs, fresh>>

Stranger == 0     \* whose key pair is another program's

Private(type, k) == [kind |-> "private", type |-> type, key |-> k]
Raw(k) == [kind |-> "raw", key |-> k]
Public(type, k) == [kind |-> "public", type |-> type, key |-> k]
Signature(k, by, text) == [kind |-> "signature", key |-> k, by |-> by, text |-> text]
Data(text) == [kind |-> "data", text |-> text]

File(c, exposed) == [type |-> "file", ino |-> fresh, content |-> c, exposed |-> exposed]
Link(to) == [type |-> "link", ino |-> fresh, to |-> to]

NoContent == [kind |-> "none"]
NoCall == [op |-> "none"]
NoResult == [call |-> NoCall, ok |-> FALSE, io |-> FALSE]
Nothing == [opened |-> FALSE]

Exists(f, p) == p \in DOMAIN f
Regular(f, p) == Exists(f, p) /\ f[p].type = "file"

\* The files when p names the node n.
Naming(p, n) == [q \in DOMAIN files \cup {p} |-> IF q = p THEN n ELSE files[q]]

\* The files that Open finds at a path, which may be a link: none, or one.
Opens(f, p) ==
    IF Regular(f, p) THEN {f[p]}
    ELSE {f[q] : q \in {q \in DOMAIN f : Exists(f, p) /\ f[p].to = q /\ Regular(f, q)}}

-----------------------------------------------------------------------------
Counts == <<calls, others, disturbed>>

Finish(r) ==
    /\ at' = "idle" /\ held' = Nothing /\ call' = NoCall
    /\ result' = r
    /\ UNCHANGED Counts

\* A command succeeds, refuses what it has found, or aborts because a call of the
\* system has failed.
Succeed(k) == Finish([call |-> call, ok |-> TRUE, io |-> FALSE, key |-> k])
Refuse == Finish([call |-> call, ok |-> FALSE, io |-> FALSE])
Abort == Finish([call |-> call, ok |-> FALSE, io |-> TRUE])

Disk == <<files, seen, made, fresh, pairs, signed>>
Fail == Refuse /\ UNCHANGED Disk

Continue(to, h) == at' = to /\ held' = h /\ UNCHANGED <<call, result, Counts>>

\* Any step may fail before it has changed anything: a cancelled context, the random
\* source, a publication that did not happen, an open, Stat, Lstat or read of a file
\* that is there, also where the command only reads back what it has published.
Fails == at # "idle" /\ Abort /\ UNCHANGED Disk

\* PublishAtomic without overwriting.  Where the publication is a link and a removal
\* the error of the removal comes after it.
PublishFile(p, c) ==
    /\ files' = Naming(p, File(c, FALSE))
    /\ made' = c
    /\ fresh' = fresh + 1
    /\ seen' = seen \cup {files'}

\* Generate, of an identity or a raw key.
Generate ==
    /\ at = "generate"
    /\ IF Exists(files, call.private) THEN Fail
       ELSE /\ pairs' = pairs + 1
            /\ PublishFile(call.private, IF call.type = "raw" THEN Raw(pairs') ELSE Private(call.type, pairs'))
            /\ Continue("open", held) \/ Abort
            /\ UNCHANGED signed

Open ==
    /\ at = "open"
    /\ \/ \E n \in Opens(files, call.private) : Continue("lstat", [opened |-> TRUE, node |-> n])
       \/ Opens(files, call.private) = {} /\ Refuse
    /\ UNCHANGED Disk

\* Faulty: the path names a regular file, whichever.
AnyFile(opened, p) == Regular(files, p)

\* The opened file is what the path itself still names.
SameFile(opened, p) == Regular(files, p) /\ files[p].ino = opened.ino

\* Faulty: what others may read is refused for every kind of key.
MayUseUnexposed(n) == ~n.exposed

\* Only raw keys must not be readable by others.
MayUse(n) == call.type = "raw" => ~n.exposed

Fits(n) ==
    IF call.type = "raw" THEN n.content.kind = "raw"
    ELSE /\ n.content.kind = "private"
         /\ call.op = "sign" => n.content.type = "signing"

\* loadPrivate and keymanage.Load, and what is done with the key.
LoadPrivate ==
    /\ at = "lstat"
    /\ LET n == held.node IN
       IF ~(SameFile(n, call.private) /\ MayUse(n) /\ Fits(n)) THEN Fail
       ELSE /\ UNCHANGED Disk
            /\ CASE call.op \in {"generate", "validate"} -> Succeed(n.content.key)
                 [] call.op = "public" -> Continue("output", held)
                 [] call.op = "sign" -> Continue("digest", held)

\* Sign and Verify read the input after the keys.
Digest(n) == n.content

\* Faulty: a signature is good for whatever its signer signed.
AnyText(s, text) == s.by = s.key

\* ed25519.Verify with the public key that the signature carries.
Valid(s, text) == s.by = s.key /\ s.text = text

ReadInput ==
    /\ at = "digest"
    /\ UNCHANGED Disk
    /\ \/ Opens(files, call.input) = {} /\ Refuse
       \/ \E n \in Opens(files, call.input) :
             CASE call.op = "sign" -> Continue("output", [opened |-> TRUE, node |-> held.node, text |-> Digest(n)])
               [] call.op = "verify" ->
                    IF Valid(held.signature, Digest(n)) THEN Succeed(held.signature.key)
                    ELSE Refuse

\* WritePublic, or the end of Sign.
Output ==
    /\ at = "output"
    /\ LET key == held.node.content IN
       IF Exists(files, call.output) THEN Fail
       ELSE CASE call.op = "public" ->
                   /\ PublishFile(call.output, Public(key.type, key.key))
                   /\ Succeed(key.key) \/ Abort
                   /\ UNCHANGED <<signed, pairs>>
              [] call.op = "sign" ->
                   /\ PublishFile(call.output, Signature(key.key, key.key, held.text))
                   /\ signed' = signed \cup {<<key.key, held.text>>}
                   /\ Continue("inspect", held) \/ Abort
                   /\ UNCHANGED pairs

\* Service.Sign reads back what it published.
Inspect ==
    /\ at = "inspect"
    /\ \/ \E n \in Opens(files, call.output) :
             n.content.kind = "signature" /\ Succeed(n.content.key)
       \/ ~(\E n \in Opens(files, call.output) : n.content.kind = "signature")
          /\ Refuse
    /\ UNCHANGED Disk

\* InspectSignature, for Verify.
ReadSignature ==
    /\ at = "signature"
    /\ \/ \E n \in Opens(files, call.signature) :
             n.content.kind = "signature" /\ Continue("trusted", [opened |-> FALSE, signature |-> n.content])
       \/ ~(\E n \in Opens(files, call.signature) : n.content.kind = "signature")
          /\ Refuse
    /\ UNCHANGED Disk

\* Faulty: any public identity will do.
AnySigner(s, public) == public.type = "signing"

\* The fingerprint of the signature's key, of the type "signing", is the trusted one.
TrustedSigner(s, public) == public.type = "signing" /\ public.key = s.key

\* A fingerprint is taken as it is, a path names a public identity.
Trusts(t) ==
    \/ t.by = "fingerprint" /\ t.key = held.signature.key
    \/ /\ t.by = "path"
       /\ \E n \in Opens(files, t.path) :
             n.content.kind = "public" /\ TrustedSigner(held.signature, n.content)

LoadTrusted ==
    /\ at = "trusted"
    /\ IF Trusts(call.trusted) THEN Continue("digest", held) ELSE Refuse
    /\ UNCHANGED Disk

-----------------------------------------------------------------------------
(* The commands. *)

Begin(c, step) ==
    /\ at = "idle" /\ calls < MaxCalls
    /\ call' = c /\ at' = step
    /\ calls' = calls + 1
    /\ seen' = {files} /\ disturbed' = FALSE /\ made' = NoContent /\ result' = NoResult
    /\ UNCHANGED <<files, held, signed, others, pairs, fresh>>

IdentityGenerate == \E t \in {"signing", "x25519"}, p \in KeyPaths :
    Begin([op |-> "generate", type |-> t, private |-> p], "generate")
KeyGenerate == \E p \in KeyPaths :
    Begin([op |-> "generate", type |-> "raw", private |-> p], "generate")
KeyValidate == \E p \in KeyPaths :
    Begin([op |-> "validate", type |-> "raw", private |-> p], "open")
IdentityPublic == \E p \in KeyPaths, o \in PublicPaths :
    Begin([op |-> "public", type |-> "identity", private |-> p, output |-> o], "open")
Sign == \E i \in InputPaths, p \in KeyPaths, o \in SignaturePaths :
    Begin([op |-> "sign", type |-> "identity", input |-> i, private |-> p, output |-> o], "open")
Trusted ==
    [by : {"path"}, path : PublicPaths] \cup [by : {"fingerprint"}, key : {Stranger} \cup 1..pairs]
SignatureVerify == \E i \in InputPaths, s \in SignaturePaths, t \in Trusted :
    Begin([op |-> "verify", input |-> i, signature |-> s, trusted |-> t], "signature")

-----------------------------------------------------------------------------
(* Other programs, which have a key pair of their own.  A link is told from *)
(* a file only where a private key is read, so it is only made there.       *)

Foreign(p) ==
    IF p \in KeyPaths THEN {Private("signing", Stranger), Raw(Stranger)}
    ELSE IF p \in PublicPaths THEN {Public("signing", Stranger), Public("x25519", Stranger)}
    ELSE IF p \in SignaturePaths THEN {Signature(k, Stranger, Data(t)) : k \in {1, Stranger}, t \in Texts}
    ELSE {Data(t) : t \in Texts}

Paths == KeyPaths \cup PublicPaths \cup SignaturePaths \cup InputPaths

Other(p) ==
    /\ others < MaxOthers /\ others' = others + 1
    /\ at # "idle" \/ calls \in 1..(MaxCalls - 1)
    /\ \/ Exists(files, p) /\ files' = [q \in DOMAIN files \ {p} |-> files[q]]
       \/ \E c \in Foreign(p), exposed \in BOOLEAN :
             /\ exposed => c.kind \in {"private", "raw"}
             /\ files' = Naming(p, File(c, exposed))
       \/ /\ p \in KeyPaths
          /\ \E q \in (KeyPaths \cap DOMAIN files) \ {p} : files' = Naming(p, Link(q))
    /\ fresh' = fresh + 1
    /\ seen' = IF at = "idle" THEN seen ELSE seen \cup {files'}
    /\ disturbed' = TRUE /\ result' = NoResult
    /\ UNCHANGED <<call, at, held, made, signed, calls, pairs>>

-----------------------------------------------------------------------------
InitWith(starts) ==
    /\ files \in starts
    /\ call = NoCall /\ at = "idle" /\ held = Nothing /\ seen = {files}
    /\ disturbed = FALSE /\ made = NoContent
    /\ signed = {<<Stranger, Data(t)>> : t \in Texts}
                     \cup {<<files[p].content.by, files[p].content.text>> : p \in DOMAIN files \cap SignaturePaths}
    /\ result = NoResult /\ calls = 0 /\ others = 0
    /\ pairs = 2 /\ fresh = 1

Init == InitWith(Starts)

Next ==
    \/ IdentityGenerate \/ KeyGenerate \/ KeyValidate \/ IdentityPublic \/ Sign \/ SignatureVerify
    \/ Generate \/ Open \/ LoadPrivate \/ ReadInput \/ Output \/ Inspect
    \/ ReadSignature \/ LoadTrusted \/ Fails
    \/ \E p \in Paths : Other(p)

Spec == Init /\ [][Next]_vars

-----------------------------------------------------------------------------
(* Properties. *)

Is(f, p, kind) == Regular(f, p) /\ f[p].content.kind = kind

\* The keys that a trusted signer may be known by.
SignersIn(f, t) ==
    IF t.by = "fingerprint" THEN {t.key}
    ELSE {n.content.key : n \in {x \in Opens(f, t.path) : /\ x.content.kind = "public"
                                                         /\ x.content.type = "signing"}}

\* A verification that succeeds, whatever was replaced while it ran, names the
\* trusted signer, and the input held something that he has signed
\* (identity.go:168-212).
VerifiedWasSigned ==
    result.call.op = "verify" /\ result.ok =>
        /\ \E f \in seen : result.key \in SignersIn(f, result.call.trusted)
        /\ \E f \in seen : \E n \in Opens(f, result.call.input) : <<result.key, n.content>> \in signed

\* At some moment the path itself named a private key k, or led to the content t.
NamedKey(moments, p, k) ==
    \E f \in moments : /\ Is(f, p, "private") \/ Is(f, p, "raw")
                       /\ f[p].content.key = k
HadContent(moments, p, t) == \E f \in moments : \E n \in Opens(f, p) : n.content = t

\* What a command has published is of the key that its path named while it ran, and
\* signs what its input held.
MadeOf(c, moments, m) ==
    m # NoContent =>
        /\ c.op \in {"public", "sign"} => NamedKey(moments, c.private, m.key)
        /\ c.op = "sign" => HadContent(moments, c.input, m.text)

\* The private key that a command has used is one that its path itself named while
\* it ran, never what a link of that name led to, also where the command has
\* published a public half or a signature and then failed (identity.go:123-147 and
\* 229-258, key.go:36-65).
KeyIsOfItsFile ==
    /\ result.ok /\ result.call.op \in {"generate", "validate", "public"} =>
          NamedKey(seen, result.call.private, result.key)
    /\ MadeOf(result.call, seen, made)

\* What a command reports, and what it has published, is true of what it has read.
ReportsAreTrue == VerifiedWasSigned /\ KeyIsOfItsFile

\* What a command needs to succeed.
Ready(f, c) ==
    CASE c.op = "generate" -> ~Exists(f, c.private)
      [] c.op = "validate" -> Is(f, c.private, "raw") /\ ~f[c.private].exposed
      [] c.op = "public" -> Is(f, c.private, "private") /\ ~Exists(f, c.output)
      [] c.op = "sign" -> /\ Is(f, c.private, "private") /\ f[c.private].content.type = "signing"
                          /\ Regular(f, c.input) /\ ~Exists(f, c.output)
      [] c.op = "verify" -> /\ Is(f, c.signature, "signature") /\ Regular(f, c.input)
                            /\ LET s == f[c.signature].content IN
                               /\ s.key \in SignersIn(f, c.trusted) /\ s.by = s.key
                               /\ s.text = f[c.input].content

\* The files g are the files f and what was published at p, where nothing was.
Adds(f, g, p, c) ==
    /\ ~Exists(f, p) /\ DOMAIN g = DOMAIN f \cup {p}
    /\ \A q \in DOMAIN f : g[q] = f[q]
    /\ g[p].type = "file" /\ g[p].content = c /\ ~g[p].exposed

Target(c) == IF c.op = "generate" THEN c.private ELSE c.output

\* There have been the files f, and those when m was published if it was.
OnlyItsFile(moments, f, c, m) ==
    IF m = NoContent THEN moments = {f}
    ELSE \E before \in moments : moments = {before, f} /\ Adds(before, f, Target(c), m)

\* A command that no other program disturbs changes nothing, except that it publishes
\* one file whole, which it may have done even if it aborts: the late error of a
\* publication and the failure to read it back leave a key or a signature in place
\* (rename_other.go:21, app/identity.go:26-32 and 65-69, app/key.go:26-32).  It
\* refuses only when it lacked what it needs, and then has published nothing, so that
\* the keys, halves and signatures that these commands make are good for the others;
\* and a success names the key of what was published.
ReadyCallsSucceed ==
    result.call # NoCall /\ ~disturbed =>
        /\ OnlyItsFile(seen, files, result.call, made)
        /\ ~result.ok /\ ~result.io => made = NoContent /\ ~Ready(files, result.call)
        /\ result.ok /\ result.call.op \in {"generate", "public", "sign"} =>
              made # NoContent /\ made.key = result.key
=============================================================================
