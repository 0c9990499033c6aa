--------------------------- MODULE CommandsProofs ---------------------------
(***************************************************************************)
(* The smaller parts, for any values of their constants: Keys, Form,       *)
(* Manifest, Policy, Benchmark and Tui.  They share no state.              *)
(*                                                                         *)
(* Keys.  Files are told apart by their numbers, so what a command has     *)
(* seen under a number is what the file of that number still holds         *)
(* (HeldNode); whatever is a signature was made by who it says, in a file  *)
(* or in the command's hands (SignaturesAreMade); the files there have     *)
(* been since the command began include where it found what it holds       *)
(* (Found); and if nobody disturbed it they are the files there are, but   *)
(* for its own output (Undisturbed).  Any step may abort (FailsInv).       *)
(*                                                                         *)
(* Form.  A field holds a secret only if the form asks for it (SecretInv), *)
(* a list or a picker is over the slot that has the focus (ShownInv), and  *)
(* the slots that come and go with the kind of credential leave the slot   *)
(* where it is chosen in its place (CredentialSlots).                      *)
(*                                                                         *)
(* Manifest.  A tree holds whatever is above what it holds (Sound); what   *)
(* still has the time it had when it was visited holds what it held then   *)
(* (SameTime, kept by every edit: IsEdit); what has been there since the   *)
(* walk began has an entry or is below what is still to be visited         *)
(* (CoverInv); and a manifest of a tree that nobody edited has exactly the *)
(* entries of that tree (Exact), which is what comparisons rest on.        *)
(*                                                                         *)
(* Policy.  A number of units is accepted exactly when its product is a    *)
(* record size, which is then what is stored (SizesFit).                   *)
(*                                                                         *)
(* Benchmark.  What was tried is what is listed before the next            *)
(* combination, and nothing twice (TriedSoFar); the list has every         *)
(* combination once (AllFacts); and the loop of a recommendation keeps the *)
(* first of the best it has passed (BestFacts).                            *)
(*                                                                         *)
(* Tui.  Beside the properties themselves the invariant says what the late *)
(* messages still on their way to Update can be: a completion arrives      *)
(* once, and on the running screen when it is of the last operation; an    *)
(* event arrives once, newer than the one shown and older than the one in  *)
(* the channel.                                                            *)
(***************************************************************************)
EXTENDS CommandParts, SequenceTheorems, FiniteSetTheorems, NaturalsInduction,
        WellFoundedInduction, TLAPS

-----------------------------------------------------------------------------
(* Keys. *)

\* Files are told apart by their numbers.
Numbered ==
    /\ fresh \in Int
    /\ \A p \in DOMAIN files : files[p].ino \in Int /\ files[p].ino < fresh
    /\ \A p, q \in DOMAIN files : files[p].ino = files[q].ino => p = q

\* What n's number names is n.
Known(n) ==
    /\ n.ino \in Int /\ n.ino < fresh
    /\ \A q \in DOMAIN files : files[q].ino = n.ino => files[q] = n

HeldNode ==
    at \in {"lstat", "output", "inspect"} \/ (at = "digest" /\ call.op = "sign") => Known(held.node)

\* Signatures were made by who they say, on what they say.
Witnessed(s) == <<s.by, s.text>> \in signed
Signs(n) == n.type = "file" /\ n.content.kind = "signature"
Verifies == at = "trusted" \/ (at = "digest" /\ call.op = "verify")

SignaturesAreMade ==
    /\ \A t \in Texts : <<Stranger, Data(t)>> \in signed
    /\ \A p \in DOMAIN files : Signs(files[p]) => Witnessed(files[p].content)
    /\ Verifies => Witnessed(held.signature)

\* Which steps a command takes.
Steps ==
    /\ at \in {"idle", "generate", "open", "lstat", "digest", "output", "inspect", "signature", "trusted"}
    /\ at = "generate" => call.op = "generate"
    /\ at \in {"open", "lstat"} => call.op \in {"generate", "validate", "public", "sign"}
    /\ at = "digest" => call.op \in {"sign", "verify"}
    /\ at = "output" => call.op \in {"public", "sign"}
    /\ at = "inspect" => call.op = "sign"
    /\ at \in {"signature", "trusted"} => call.op = "verify"
    /\ call.op = "validate" => call.type = "raw"
    /\ call.op \in {"public", "sign"} => call.type = "identity"
    /\ call.op = "verify" => call.trusted.by \in {"path", "fingerprint"}

\* What a command has found so far, and what it has published.
Found ==
    /\ at # "idle" => files \in seen /\ result = NoResult /\ MadeOf(call, seen, made)
    /\ at \notin {"idle", "inspect"} /\ ~(call.op = "generate" /\ at \in {"open", "lstat"}) =>
          made = NoContent
    /\ at = "output" \/ (at = "digest" /\ call.op = "sign") =>
          NamedKey(seen, call.private, held.node.content.key)
    /\ at = "output" /\ call.op = "sign" => HadContent(seen, call.input, held.text)
    /\ at = "digest" /\ call.op = "verify" =>
          \E f \in seen : held.signature.key \in SignersIn(f, call.trusted)

\* What an undisturbed command has found is what there is.
Generated ==
    /\ Is(files, call.private, IF call.type = "raw" THEN "raw" ELSE "private")
    /\ ~files[call.private].exposed
    /\ made # NoContent /\ files[call.private].content = made

Undisturbed ==
    ~disturbed /\ at # "idle" =>
        /\ OnlyItsFile(seen, files, call, made)
        /\ call.op = "generate" /\ at \in {"open", "lstat"} => Generated
        /\ at = "lstat" /\ Regular(files, call.private) => held.node = files[call.private]
        /\ at = "inspect" =>
              /\ Is(files, call.output, "signature")
              /\ made # NoContent /\ files[call.output].content = made
        /\ Verifies /\ Regular(files, call.signature) => held.signature = files[call.signature].content

KeysInv ==
    /\ Numbered /\ HeldNode /\ SignaturesAreMade /\ Steps /\ Found /\ Undisturbed
    /\ ReportsAreTrue /\ ReadyCallsSucceed

LEMMA KeysInit ==
    Init => KeysInv
<1> SUFFICES ASSUME Init PROVE KeysInv
    OBVIOUS
<1> USE DEF Init, InitWith
<1>1. Numbered
    BY ConstantsAssumption DEF Numbered
<1>2. SignaturesAreMade
    BY ConstantsAssumption DEF SignaturesAreMade, Signs, Witnessed, Verifies
<1>3. HeldNode /\ Steps /\ Found /\ Undisturbed
    BY DEF HeldNode, Steps, Found, Undisturbed, NoCall
<1>4. ReportsAreTrue /\ ReadyCallsSucceed
    BY DEF ReportsAreTrue, VerifiedWasSigned, KeyIsOfItsFile, MadeOf, ReadyCallsSucceed, NoResult
<1> QED
    BY <1>1, <1>2, <1>3, <1>4 DEF KeysInv

-----------------------------------------------------------------------------
(* Files that come and go. *)

LEMMA OpensFacts ==
    ASSUME NEW f, NEW p
    PROVE  /\ \A n \in Opens(f, p) : n.type = "file" /\ \E q \in DOMAIN f : f[q] = n
           /\ Regular(f, p) => Opens(f, p) = {f[p]}
BY DEF Opens, Regular, Exists

LEMMA OpenedIsKnown ==
    ASSUME Numbered, NEW p, NEW n \in Opens(files, p)
    PROVE  Known(n)
<1>1. PICK q \in DOMAIN files : files[q] = n
    BY OpensFacts
<1> QED
    BY <1>1 DEF Numbered, Known

LEMMA OpenedIsMade ==
    ASSUME SignaturesAreMade, NEW p, NEW n \in Opens(files, p), n.content.kind = "signature"
    PROVE  Witnessed(n.content)
<1>1. PICK q \in DOMAIN files : files[q] = n /\ n.type = "file"
    BY OpensFacts
<1> QED
    BY <1>1 DEF SignaturesAreMade, Signs

\* A node with a new number is named, or a name is removed.
Named(p, n) == n.ino = fresh /\ files' = Naming(p, n) /\ fresh' = fresh + 1
Removed(p) == files' = [q \in DOMAIN files \ {p} |-> files[q]] /\ fresh' = fresh + 1

LEMMA NamedFacts ==
    ASSUME NEW p, NEW n, Named(p, n)
    PROVE  /\ DOMAIN files' = DOMAIN files \cup {p}
           /\ files'[p] = n /\ n.ino = fresh /\ fresh' = fresh + 1
           /\ \A q \in DOMAIN files' : q # p => q \in DOMAIN files /\ files'[q] = files[q]
BY DEF Named, Naming

LEMMA RemovedFacts ==
    ASSUME NEW p, Removed(p)
    PROVE  /\ DOMAIN files' = DOMAIN files \ {p} /\ fresh' = fresh + 1
           /\ \A q \in DOMAIN files' : q \in DOMAIN files /\ files'[q] = files[q]
BY DEF Removed

LEMMA Later == \A i, j \in Int : i < j => i < j + 1 /\ i # j /\ j < j + 1 /\ j + 1 \in Int
OBVIOUS

LEMMA NumberedNext ==
    ASSUME Numbered, NEW p, NEW n, Named(p, n) \/ Removed(p)
    PROVE  Numbered'
<1>1. /\ fresh \in Int /\ fresh' = fresh + 1
      /\ \A q \in DOMAIN files : files[q].ino \in Int /\ files[q].ino < fresh
      /\ \A q, r \in DOMAIN files : files[q].ino = files[r].ino => q = r
    BY NamedFacts, RemovedFacts DEF Numbered
<1>2. fresh' \in Int /\ fresh < fresh'
    BY <1>1
<1>3. CASE Named(p, n)
    <2>1. /\ files'[p].ino = fresh
          /\ \A q \in DOMAIN files' : q # p => files'[q] = files[q] /\ q \in DOMAIN files
        BY <1>3, NamedFacts
    <2>2. ASSUME NEW q \in DOMAIN files' PROVE files'[q].ino \in Int /\ files'[q].ino < fresh'
        <3>1. CASE q = p
            BY <1>1, <1>2, <2>1, <3>1
        <3>2. CASE q # p
            BY <1>1, <2>1, <2>2, <3>2, Later
        <3> QED
            BY <3>1, <3>2
    <2>3. ASSUME NEW q \in DOMAIN files', NEW r \in DOMAIN files', files'[q].ino = files'[r].ino
          PROVE  q = r
        <3>1. \A s \in DOMAIN files' : s # p => files'[s].ino # fresh
            BY <1>1, <2>1, Later
        <3> QED
            BY <1>1, <2>1, <2>3, <3>1, Zenon
    <2> QED
        BY <1>2, <2>2, <2>3 DEF Numbered
<1>4. CASE Removed(p)
    <2>1. \A q \in DOMAIN files' : files'[q] = files[q] /\ q \in DOMAIN files
        BY <1>4, RemovedFacts
    <2>2. \A q \in DOMAIN files' : files'[q].ino \in Int /\ files'[q].ino < fresh'
        BY <1>1, <2>1, Later
    <2>3. \A q, r \in DOMAIN files' : files'[q].ino = files'[r].ino => q = r
        BY <1>1, <2>1, Zenon
    <2> QED
        BY <1>2, <2>2, <2>3 DEF Numbered
<1> QED
    BY <1>3, <1>4

\* What is known stays known.
KnownNext(n) ==
    /\ n.ino \in Int /\ n.ino < fresh'
    /\ \A q \in DOMAIN files' : files'[q].ino = n.ino => files'[q] = n

LEMMA KnownStays ==
    ASSUME Numbered, NEW p, NEW n, Named(p, n) \/ Removed(p), NEW known, Known(known)
    PROVE  KnownNext(known)
<1>1. /\ fresh \in Int /\ fresh' = fresh + 1
      /\ known.ino \in Int /\ known.ino < fresh
      /\ \A q \in DOMAIN files : files[q].ino = known.ino => files[q] = known
    BY NamedFacts, RemovedFacts DEF Numbered, Known
<1>2. known.ino < fresh' /\ known.ino # fresh
    BY <1>1, Later
<1>3. \A q \in DOMAIN files' : files'[q].ino # fresh => files'[q] = files[q] /\ q \in DOMAIN files
    <2>1. CASE Named(p, n)
        BY <2>1, NamedFacts
    <2>2. CASE Removed(p)
        BY <2>2, RemovedFacts
    <2> QED
        BY <2>1, <2>2
<1>4. \A q \in DOMAIN files' : files'[q].ino = known.ino => files'[q] = known
    BY <1>1, <1>2, <1>3, Zenon
<1> QED
    BY <1>1, <1>2, <1>4 DEF KnownNext

\* The part of SignaturesAreMade that is about the files.
FilesAreMade ==
    /\ \A t \in Texts : <<Stranger, Data(t)>> \in signed
    /\ \A p \in DOMAIN files : Signs(files[p]) => Witnessed(files[p].content)

LEMMA MadeNext ==
    ASSUME FilesAreMade, NEW p, NEW n, Named(p, n) \/ Removed(p), signed \subseteq signed',
           Signs(n) => <<n.content.by, n.content.text>> \in signed'
    PROVE  FilesAreMade'
<1>1. CASE Named(p, n)
    <2>1. \A q \in DOMAIN files' : q # p => (Signs(files'[q]) => Witnessed(files'[q].content))
        BY <1>1, NamedFacts DEF FilesAreMade
    <2>2. \A s : Witnessed(s) => <<s.by, s.text>> \in signed'
        BY DEF Witnessed
    <2>3. files'[p] = n /\ DOMAIN files' = DOMAIN files \cup {p}
        BY <1>1, NamedFacts
    <2>4. \A q \in DOMAIN files' :
             Signs(files'[q]) => <<files'[q].content.by, files'[q].content.text>> \in signed'
        BY <2>1, <2>2, <2>3, Zenon
    <2>5. \A x : Signs(x)' <=> Signs(x)
        BY DEF Signs
    <2> QED
        BY <2>4, <2>5 DEF FilesAreMade, Witnessed, Signs
<1>2. CASE Removed(p)
    BY <1>2, RemovedFacts DEF FilesAreMade, Witnessed, Signs
<1> QED
    BY <1>1, <1>2

-----------------------------------------------------------------------------
(* The ways a step ends. *)

LEMMA Ends ==
    ASSUME Numbered', FilesAreMade', at' = "idle", call' = NoCall
    PROVE  Numbered' /\ HeldNode' /\ SignaturesAreMade' /\ Steps' /\ Found' /\ Undisturbed'
BY DEF HeldNode, SignaturesAreMade, FilesAreMade, Verifies, Steps, Found, Undisturbed, NoCall

LEMMA DiskStays ==
    ASSUME KeysInv, UNCHANGED Disk
    PROVE  Numbered' /\ FilesAreMade'
BY DEF KeysInv, Disk, Numbered, SignaturesAreMade, FilesAreMade, Witnessed

SignedIn(c, k) ==
    /\ \E f \in seen' : k \in SignersIn(f, c.trusted)
    /\ \E f \in seen' : \E n \in Opens(f, c.input) : <<k, n.content>> \in signed'

\* A command ends with the result r.
LEMMA Finishes ==
    ASSUME KeysInv, NEW r, Finish(r), r.call = call, Numbered', FilesAreMade',
           r.ok /\ call.op = "verify" => SignedIn(call, r.key),
           r.ok /\ call.op \in {"generate", "validate", "public"} => NamedKey(seen', call.private, r.key),
           MadeOf(call, seen', made'),
           ~disturbed =>
              /\ OnlyItsFile(seen', files', call, made')
              /\ ~r.ok /\ ~r.io => made' = NoContent /\ ~Ready(files', call)
              /\ r.ok /\ call.op \in {"generate", "public", "sign"} =>
                    made' # NoContent /\ made'.key = r.key
    PROVE  KeysInv'
<1>1. at' = "idle" /\ call' = NoCall /\ result' = r /\ disturbed' = disturbed
    BY DEF Finish, Counts
<1> DEFINE c == call
<1>2. result'.call = c
    BY <1>1
<1> HIDE DEF c
<1>3. /\ r.ok /\ c.op = "verify" => SignedIn(c, r.key)
      /\ r.ok /\ c.op \in {"generate", "validate", "public"} => NamedKey(seen', c.private, r.key)
      /\ MadeOf(c, seen', made')
      /\ ~disturbed' =>
              /\ OnlyItsFile(seen', files', c, made')
              /\ ~r.ok /\ ~r.io => made' = NoContent /\ ~Ready(files', c)
              /\ r.ok /\ c.op \in {"generate", "public", "sign"} =>
                    made' # NoContent /\ made'.key = r.key
    BY <1>1 DEF c
<1>4. ReportsAreTrue'
    BY <1>1, <1>2, <1>3 DEF ReportsAreTrue, VerifiedWasSigned, KeyIsOfItsFile, SignedIn
<1>5. ReadyCallsSucceed'
    BY <1>1, <1>2, <1>3 DEF ReadyCallsSucceed
<1> QED
    BY <1>1, <1>4, <1>5, Ends DEF KeysInv

\* A refusal is right where nothing has been published and the command was not ready.
LEMMA Refuses ==
    ASSUME KeysInv, at # "idle", Refuse, UNCHANGED Disk,
           ~disturbed => made = NoContent /\ ~Ready(files, call)
    PROVE  KeysInv'
<1> DEFINE r == [call |-> call, ok |-> FALSE, io |-> FALSE]
<1>1. Finish(r) /\ r.call = call /\ r.ok = FALSE /\ r.io = FALSE
    BY DEF Refuse
<1> HIDE DEF r
<1>2. seen' = seen /\ files' = files /\ made' = made
    BY DEF Disk
<1>3. MadeOf(call, seen', made')
    BY <1>2 DEF KeysInv, Found
<1>4. ~disturbed => OnlyItsFile(seen', files', call, made')
    BY <1>2 DEF KeysInv, Undisturbed
<1>5. ~disturbed => made' = NoContent /\ ~Ready(files', call)
    BY <1>2
<1> QED
    BY <1>1, <1>3, <1>4, <1>5, DiskStays, Finishes

\* A command may abort at any time, whatever it has published.
LEMMA Aborts ==
    ASSUME KeysInv, Abort, Numbered', FilesAreMade', MadeOf(call, seen', made'),
           ~disturbed => OnlyItsFile(seen', files', call, made')
    PROVE  KeysInv'
<1> DEFINE r == [call |-> call, ok |-> FALSE, io |-> TRUE]
<1>1. Finish(r) /\ r.call = call /\ r.ok = FALSE /\ r.io = TRUE
    BY DEF Abort
<1> HIDE DEF r
<1> QED
    BY <1>1, Finishes

LEMMA FailsInv ==
    ASSUME KeysInv, Fails
    PROVE  KeysInv'
<1>1. at # "idle" /\ Abort /\ UNCHANGED Disk
    BY DEF Fails
<1>2. seen' = seen /\ files' = files /\ made' = made
    BY <1>1 DEF Disk
<1>3. MadeOf(call, seen', made')
    BY <1>1, <1>2 DEF KeysInv, Found
<1>4. ~disturbed => OnlyItsFile(seen', files', call, made')
    BY <1>1, <1>2 DEF KeysInv, Undisturbed
<1> QED
    BY <1>1, <1>3, <1>4, DiskStays, Aborts

LEMMA Succeeds ==
    ASSUME KeysInv, NEW k, Succeed(k), Numbered', FilesAreMade',
           call.op = "verify" => SignedIn(call, k),
           call.op \in {"generate", "validate", "public"} => NamedKey(seen', call.private, k),
           MadeOf(call, seen', made'),
           ~disturbed =>
              /\ OnlyItsFile(seen', files', call, made')
              /\ call.op \in {"generate", "public", "sign"} => made' # NoContent /\ made'.key = k
    PROVE  KeysInv'
<1> DEFINE r == [call |-> call, ok |-> TRUE, io |-> FALSE, key |-> k]
<1>1. Finish(r) /\ r.call = call /\ r.ok = TRUE /\ r.io = FALSE /\ r.key = k
    BY DEF Succeed
<1> HIDE DEF r
<1> QED
    BY <1>1, Finishes

\* As long as a command runs there is no result.
LEMMA GoesOn ==
    ASSUME Numbered', HeldNode', SignaturesAreMade', Steps', Found', Undisturbed', result' = NoResult
    PROVE  KeysInv'
<1>1. result'.ok = FALSE /\ result'.call = NoCall
    BY DEF NoResult
<1>2. MadeOf(NoCall, seen', made')
    BY DEF MadeOf, NoCall
<1>3. ReportsAreTrue'
    BY <1>1, <1>2 DEF ReportsAreTrue, VerifiedWasSigned, KeyIsOfItsFile, NoCall
<1>4. ReadyCallsSucceed'
    BY <1>1 DEF ReadyCallsSucceed
<1> QED
    BY <1>3, <1>4 DEF KeysInv

\* A file is published where nothing was.
LEMMA Publishes ==
    ASSUME KeysInv, at # "idle", made = NoContent, NEW c, c # NoContent, NEW p,
           ~Exists(files, p), PublishFile(p, c), p = Target(call)
    PROVE  /\ Named(p, File(c, FALSE)) /\ seen' = seen \cup {files'} /\ made' = c
           /\ files'[p].type = "file" /\ files'[p].content = c /\ ~files'[p].exposed
           /\ ~disturbed => OnlyItsFile(seen', files', call, made')
<1> DEFINE n == File(c, FALSE)
<1>1. n.ino = fresh /\ n.type = "file" /\ n.content = c /\ n.exposed = FALSE
    BY DEF File
<1>2. Named(p, n) /\ seen' = seen \cup {files'} /\ made' = c
    BY <1>1 DEF Named, PublishFile
<1> HIDE DEF n
<1>3. /\ DOMAIN files' = DOMAIN files \cup {p} /\ files'[p] = n
      /\ \A q \in DOMAIN files : q # p => files'[q] = files[q]
    BY <1>2 DEF Named, Naming
<1>4. Adds(files, files', p, c)
    BY <1>1, <1>3 DEF Adds, Exists
<1>5. ASSUME ~disturbed PROVE OnlyItsFile(seen', files', call, made')
    <2>1. seen = {files}
        BY <1>5 DEF KeysInv, Undisturbed, OnlyItsFile
    <2>2. seen' = {files, files'} /\ files \in seen'
        BY <1>2, <2>1
    <2>3. Adds(files, files', Target(call), made')
        BY <1>2, <1>4
    <2>4. made' # NoContent
        BY <1>2
    <2> QED
        BY <2>2, <2>3, <2>4 DEF OnlyItsFile
<1> QED
    BY <1>1, <1>2, <1>3, <1>5 DEF n

LEMMA Begins ==
    ASSUME KeysInv, NEW c, NEW step, Begin(c, step),
           \/ step = "generate" /\ c.op = "generate"
           \/ step = "open" /\ c.op = "validate" /\ c.type = "raw"
           \/ step = "open" /\ c.op \in {"public", "sign"} /\ c.type = "identity"
           \/ step = "signature" /\ c.op = "verify" /\ c.trusted.by \in {"path", "fingerprint"}
    PROVE  KeysInv'
<1>1. /\ call' = c /\ at' = step /\ seen' = {files} /\ made' = NoContent /\ result' = NoResult
      /\ UNCHANGED <<files, held, signed, fresh>>
    BY DEF Begin
<1>2. Numbered' /\ FilesAreMade'
    BY <1>1 DEF KeysInv, Numbered, SignaturesAreMade, FilesAreMade, Witnessed
<1>3. HeldNode' /\ SignaturesAreMade'
    BY <1>1, <1>2 DEF HeldNode, SignaturesAreMade, FilesAreMade, Verifies
<1>4. Steps' /\ Found'
    BY <1>1 DEF Steps, Found, MadeOf
<1>5. Undisturbed'
    BY <1>1 DEF Undisturbed, Verifies, OnlyItsFile
<1> QED
    BY <1>1, <1>2, <1>3, <1>4, <1>5, GoesOn
\* A step that reads: the next step is to, with h held.
LEMMA Reads ==
    ASSUME KeysInv, at # "idle", NEW to, NEW h, Continue(to, h), UNCHANGED Disk
    PROVE  /\ at' = to /\ held' = h
           /\ UNCHANGED <<call, result, disturbed, made, files, seen, signed, fresh>>
           /\ result' = NoResult /\ Numbered' /\ FilesAreMade'
           /\ (Steps' /\ HeldNode' /\ SignaturesAreMade' /\ Found' /\ Undisturbed') => KeysInv'
<1>1. /\ at' = to /\ held' = h
      /\ UNCHANGED <<call, result, disturbed, made, files, seen, signed, fresh>>
    BY DEF Continue, Counts, Disk
<1>2. result' = NoResult
    BY <1>1 DEF KeysInv, Found
<1> QED
    BY <1>1, <1>2, DiskStays, GoesOn

LEMMA ReadyFacts ==
    ASSUME NEW f, NEW c, Ready(f, c)
    PROVE  /\ c.op = "generate" => ~Exists(f, c.private)
           /\ c.op = "validate" => Is(f, c.private, "raw") /\ ~f[c.private].exposed
           /\ c.op = "public" => Is(f, c.private, "private") /\ ~Exists(f, c.output)
           /\ c.op = "sign" => /\ Is(f, c.private, "private") /\ f[c.private].content.type = "signing"
                               /\ Regular(f, c.input) /\ ~Exists(f, c.output)
           /\ c.op = "verify" => /\ Is(f, c.signature, "signature") /\ Regular(f, c.input)
                                 /\ f[c.signature].content.key \in SignersIn(f, c.trusted)
                                 /\ f[c.signature].content.by = f[c.signature].content.key
                                 /\ f[c.signature].content.text = f[c.input].content
BY DEF Ready

-----------------------------------------------------------------------------
(* The steps. *)

LEMMA GenerateInv ==
    ASSUME KeysInv, Generate
    PROVE  KeysInv'
<1>1. at = "generate" /\ call.op = "generate" /\ made = NoContent
    BY DEF Generate, KeysInv, Steps, Found
<1>2. CASE Exists(files, call.private)
    <2>1. ~Ready(files, call)
        BY <1>1, <1>2, ReadyFacts
    <2> QED
        BY <1>1, <1>2, <2>1, Refuses DEF Generate, Fail
<1>3. CASE ~Exists(files, call.private)
    <2> DEFINE c == IF call.type = "raw" THEN Raw(pairs') ELSE Private(call.type, pairs')
               n == File(c, FALSE)
    <2>1. PublishFile(call.private, c) /\ (Continue("open", held) \/ Abort) /\ UNCHANGED signed
        BY <1>3 DEF Generate
    <2>2. /\ n.type = "file" /\ n.content = c /\ n.exposed = FALSE /\ n.ino = fresh
          /\ c.kind = IF call.type = "raw" THEN "raw" ELSE "private"
          /\ c # NoContent
        BY DEF File, Raw, Private, NoContent
    <2> HIDE DEF c
    <2>3. /\ Named(call.private, n) /\ seen' = seen \cup {files'} /\ made' = c
          /\ files'[call.private].type = "file" /\ files'[call.private].content = c
          /\ ~files'[call.private].exposed
          /\ ~disturbed => OnlyItsFile(seen', files', call, made')
        BY <1>1, <1>3, <2>1, <2>2, Publishes DEF Target
    <2> HIDE DEF n
    <2>5. Numbered'
        BY <2>3, NumberedNext DEF KeysInv
    <2>6. ~Signs(n)
        BY <2>2 DEF Signs
    <2>7. FilesAreMade'
        BY <2>1, <2>3, <2>6, MadeNext DEF KeysInv, SignaturesAreMade, FilesAreMade
    <2>13. MadeOf(call, seen', made')
        BY <1>1 DEF MadeOf
    <2>14. CASE Abort
        BY <2>3, <2>5, <2>7, <2>13, <2>14, Aborts
    <2>15. CASE Continue("open", held)
        <3>4. at' = "open" /\ UNCHANGED <<call, result, held, disturbed, signed>>
            BY <2>1, <2>15 DEF Continue, Counts
        <3>8. HeldNode' /\ SignaturesAreMade' /\ Steps'
            BY <1>1, <2>7, <3>4 DEF KeysInv, HeldNode, SignaturesAreMade, FilesAreMade, Verifies, Steps
        <3>9. Found' /\ result' = NoResult
            BY <1>1, <2>3, <2>13, <3>4 DEF KeysInv, Found
        <3>10. call.private \in DOMAIN files'
            BY <2>3 DEF Named, Naming
        <3>11. Generated'
            BY <2>2, <2>3, <3>4, <3>10 DEF Generated, Is, Regular, Exists
        <3>12. Undisturbed'
            BY <1>1, <2>3, <3>4, <3>11 DEF Undisturbed, Verifies
        <3> QED
            BY <2>5, <3>8, <3>9, <3>12, GoesOn
    <2> QED
        BY <2>1, <2>14, <2>15
<1> QED
    BY <1>2, <1>3

LEMMA OpenInv ==
    ASSUME KeysInv, Open
    PROVE  KeysInv'
<1>1. at = "open" /\ call.op \in {"generate", "validate", "public", "sign"}
    BY DEF Open, KeysInv, Steps
<1>2. ASSUME NEW n \in Opens(files, call.private), Continue("lstat", [opened |-> TRUE, node |-> n]),
             UNCHANGED Disk
      PROVE  KeysInv'
    <2>1. at' = "lstat" /\ held'.node = n /\ UNCHANGED <<call, disturbed, made, files, seen, signed, fresh>>
        BY <1>1, <1>2, Reads
    <2>2. HeldNode'
        BY <1>2, <2>1, OpenedIsKnown DEF KeysInv, HeldNode, Known
    <2>3. Steps' /\ SignaturesAreMade' /\ Found'
        BY <1>1, <1>2, <2>1, Reads DEF KeysInv, Steps, SignaturesAreMade, FilesAreMade, Verifies, Found
    <2>4. Regular(files, call.private) => n = files[call.private]
        BY <1>2, OpensFacts
    <2>5. Undisturbed'
        BY <1>1, <2>1, <2>4 DEF KeysInv, Undisturbed, Verifies, Generated, Is, Regular, Exists
    <2> QED
        BY <1>1, <1>2, <2>2, <2>3, <2>5, Reads
<1>3. ASSUME Opens(files, call.private) = {}, Refuse, UNCHANGED Disk
      PROVE  KeysInv'
    <2>1. ~Regular(files, call.private)
        BY <1>3, OpensFacts
    <2>2. ~disturbed => made = NoContent /\ ~Ready(files, call)
        BY <1>1, <2>1, ReadyFacts DEF KeysInv, Undisturbed, Generated, Is, Found
    <2> QED
        BY <1>1, <1>3, <2>2, Refuses
<1> QED
    BY <1>2, <1>3 DEF Open

LEMMA LoadPrivateInv ==
    ASSUME KeysInv, LoadPrivate
    PROVE  KeysInv'
<1> DEFINE n == held.node
<1>1. at = "lstat" /\ call.op \in {"generate", "validate", "public", "sign"} /\ Known(n)
    BY DEF LoadPrivate, KeysInv, Steps, HeldNode
<1>2. CASE ~(SameFile(n, call.private) /\ MayUse(n) /\ Fits(n))
    <2>1. ASSUME ~disturbed, Regular(files, call.private)
          PROVE  n = files[call.private] /\ SameFile(n, call.private)
        BY <1>1, <2>1 DEF KeysInv, Undisturbed, SameFile
    <2>2. ASSUME ~disturbed, call.op = "generate" PROVE FALSE
        <3>1. Generated
            BY <1>1, <2>2 DEF KeysInv, Undisturbed
        <3> QED
            BY <1>2, <2>1, <2>2, <3>1 DEF Generated, Is, MayUse, Fits
    <2>3. ASSUME ~disturbed, call.op # "generate", Ready(files, call) PROVE FALSE
        <3>1. Regular(files, call.private)
            BY <1>1, <2>3, ReadyFacts DEF Is
        <3>2. MayUse(n) /\ Fits(n)
            BY <1>1, <2>1, <2>3, <3>1, ReadyFacts DEF KeysInv, Steps, MayUse, Fits, Is
        <3> QED
            BY <1>2, <2>1, <2>3, <3>1, <3>2
    <2>4. ~disturbed => made = NoContent /\ ~Ready(files, call)
        BY <1>1, <2>2, <2>3 DEF KeysInv, Found
    <2> QED
        BY <1>1, <1>2, <2>4, Refuses DEF LoadPrivate, Fail
<1>3. CASE SameFile(n, call.private) /\ MayUse(n) /\ Fits(n)
    <2>1. /\ UNCHANGED Disk
          /\ \/ call.op \in {"generate", "validate"} /\ Succeed(n.content.key)
             \/ call.op = "public" /\ Continue("output", held)
             \/ call.op = "sign" /\ Continue("digest", held)
        BY <1>1, <1>3 DEF LoadPrivate
    <2>2. files[call.private] = n /\ Regular(files, call.private)
        BY <1>1, <1>3 DEF SameFile, Known, Regular, Exists
    <2>3. Is(files, call.private, "private") \/ Is(files, call.private, "raw")
        BY <1>3, <2>2 DEF Fits, Is
    <2>4. files \in seen
        BY <1>1 DEF KeysInv, Found
    <2>5. CASE call.op \in {"generate", "validate"} /\ Succeed(n.content.key)
        <3>1. seen' = seen /\ files' = files /\ made' = made
            BY <2>1 DEF Disk
        <3>2. NamedKey(seen', call.private, n.content.key)
            BY <2>2, <2>3, <2>4, <3>1 DEF NamedKey
        <3>3. MadeOf(call, seen', made')
            BY <1>1, <3>1 DEF KeysInv, Found
        <3>4. ~disturbed => OnlyItsFile(seen', files', call, made')
            BY <1>1, <3>1 DEF KeysInv, Undisturbed
        <3>5. ~disturbed /\ call.op = "generate" => made' # NoContent /\ made'.key = n.content.key
            BY <1>1, <2>2, <3>1 DEF KeysInv, Undisturbed, Generated
        <3> QED
            BY <2>1, <2>5, <3>2, <3>3, <3>4, <3>5, DiskStays, Succeeds
    <2>6. ASSUME NEW to \in {"output", "digest"}, Continue(to, held),
                 call.op = IF to = "output" THEN "public" ELSE "sign"
          PROVE  KeysInv'
        <3>1. at' = to /\ UNCHANGED <<held, call, disturbed, made, files, seen, signed, fresh>>
            BY <1>1, <2>1, <2>6, Reads
        <3>2. NamedKey(seen, call.private, n.content.key)
            BY <2>2, <2>3, <2>4 DEF NamedKey
        <3>3. HeldNode' /\ Steps' /\ SignaturesAreMade'
            BY <1>1, <2>1, <2>6, <3>1, Reads
               DEF KeysInv, HeldNode, Known, Steps, SignaturesAreMade, FilesAreMade, Verifies
        <3>4. Found'
            BY <1>1, <2>1, <2>4, <2>6, <3>1, <3>2, Reads DEF KeysInv, Found
        <3>5. Undisturbed'
            BY <1>1, <2>6, <3>1 DEF KeysInv, Undisturbed, Verifies
        <3> QED
            BY <1>1, <2>1, <2>6, <3>3, <3>4, <3>5, Reads
    <2> QED
        BY <2>1, <2>5, <2>6
<1> QED
    BY <1>2, <1>3
LEMMA ReadInputInv ==
    ASSUME KeysInv, ReadInput
    PROVE  KeysInv'
<1>1. /\ at = "digest" /\ call.op \in {"sign", "verify"} /\ UNCHANGED Disk
      /\ files \in seen /\ made = NoContent
    BY DEF ReadInput, KeysInv, Steps, Found
<1>2. ASSUME Opens(files, call.input) = {}, Refuse PROVE KeysInv'
    <2>1. ~Regular(files, call.input)
        BY <1>2, OpensFacts
    <2>2. ~Ready(files, call)
        BY <1>1, <2>1, ReadyFacts
    <2> QED
        BY <1>1, <1>2, <2>2, Refuses
<1>3. ASSUME NEW n \in Opens(files, call.input), call.op = "sign",
             Continue("output", [opened |-> TRUE, node |-> held.node, text |-> Digest(n)])
      PROVE  KeysInv'
    <2>1. /\ at' = "output" /\ held'.node = held.node
          /\ UNCHANGED <<call, disturbed, made, files, seen, signed, fresh>>
        BY <1>1, <1>3, Reads
    <2>2. HeldNode' /\ Steps' /\ SignaturesAreMade'
        BY <1>1, <1>3, <2>1, Reads
           DEF KeysInv, HeldNode, Known, Steps, SignaturesAreMade, FilesAreMade, Verifies
    <2>3. HadContent(seen, call.input, held'.text)
        BY <1>1, <1>3, Reads DEF HadContent, Digest
    <2>4. Found'
        BY <1>1, <1>3, <2>1, <2>3, Reads DEF KeysInv, Found
    <2>5. Undisturbed'
        BY <1>1, <1>3, <2>1 DEF KeysInv, Undisturbed, Verifies
    <2> QED
        BY <1>1, <1>3, <2>2, <2>4, <2>5, Reads
<1>4. ASSUME NEW n \in Opens(files, call.input), call.op = "verify",
             Valid(held.signature, Digest(n)), Succeed(held.signature.key)
      PROVE  KeysInv'
    <2>1. Witnessed(held.signature)
        BY <1>1, <1>4 DEF KeysInv, SignaturesAreMade, Verifies
    <2>2. <<held.signature.key, n.content>> \in signed
        BY <1>4, <2>1 DEF Valid, Digest, Witnessed
    <2>3. SignedIn(call, held.signature.key)
        BY <1>1, <1>4, <2>2 DEF KeysInv, Found, SignedIn, Disk
    <2>4. seen' = seen /\ files' = files /\ made' = made
        BY <1>1 DEF Disk
    <2>5. MadeOf(call, seen', made') /\ (~disturbed => OnlyItsFile(seen', files', call, made'))
        BY <1>1, <2>4 DEF KeysInv, Found, Undisturbed
    <2> QED
        BY <1>1, <1>4, <2>3, <2>5, DiskStays, Succeeds
<1>5. ASSUME NEW n \in Opens(files, call.input), call.op = "verify",
             ~Valid(held.signature, Digest(n)), Refuse
      PROVE  KeysInv'
    <2>1. ASSUME ~disturbed, Ready(files, call) PROVE FALSE
        <3>1. Is(files, call.signature, "signature") /\ n = files[call.input]
            BY <1>5, <2>1, ReadyFacts, OpensFacts
        <3>2. held.signature = files[call.signature].content
            BY <1>1, <1>5, <2>1, <3>1 DEF KeysInv, Undisturbed, Verifies, Is
        <3> QED
            BY <1>5, <2>1, <3>1, <3>2, ReadyFacts DEF Valid, Digest
    <2> QED
        BY <1>1, <1>5, <2>1, Refuses
<1>6. CASE Opens(files, call.input) = {} /\ Refuse
    BY <1>2, <1>6
<1>7. ASSUME NEW n \in Opens(files, call.input),
             CASE call.op = "sign" ->
                     Continue("output", [opened |-> TRUE, node |-> held.node, text |-> Digest(n)])
               [] call.op = "verify" ->
                     IF Valid(held.signature, Digest(n)) THEN Succeed(held.signature.key) ELSE Refuse
      PROVE  KeysInv'
    <2>1. CASE call.op = "sign"
        BY <1>3, <1>7, <2>1
    <2>2. CASE call.op = "verify"
        BY <1>4, <1>5, <1>7, <2>2
    <2> QED
        BY <1>1, <2>1, <2>2
<1> QED
    BY <1>6, <1>7 DEF ReadInput

LEMMA OutputInv ==
    ASSUME KeysInv, Output
    PROVE  KeysInv'
<1> DEFINE key == held.node.content
<1>1. /\ at = "output" /\ call.op \in {"public", "sign"} /\ Known(held.node) /\ made = NoContent
      /\ NamedKey(seen, call.private, key.key)
      /\ call.op = "sign" => HadContent(seen, call.input, held.text)
    BY DEF Output, KeysInv, Steps, HeldNode, Found
<1>2. CASE Exists(files, call.output)
    <2>1. ~Ready(files, call)
        BY <1>1, <1>2, ReadyFacts
    <2> QED
        BY <1>1, <1>2, <2>1, Refuses DEF Output, Fail
<1>3. CASE ~Exists(files, call.output) /\ call.op = "public"
    <2> DEFINE c == Public(key.type, key.key)
               n == File(c, FALSE)
    <2>1. PublishFile(call.output, c) /\ (Succeed(key.key) \/ Abort) /\ signed' = signed
        BY <1>3 DEF Output
    <2>2. n.ino = fresh /\ n.content.kind = "public" /\ c # NoContent /\ c.key = key.key
        BY DEF File, Public, NoContent
    <2> HIDE DEF c
    <2>3. /\ Named(call.output, n) /\ seen' = seen \cup {files'} /\ made' = c
          /\ ~disturbed => OnlyItsFile(seen', files', call, made')
        BY <1>1, <1>3, <2>1, <2>2, Publishes DEF Target
    <2> HIDE DEF n
    <2>4. Numbered' /\ FilesAreMade'
        BY <2>1, <2>2, <2>3, NumberedNext, MadeNext DEF KeysInv, SignaturesAreMade, FilesAreMade, Signs
    <2>5. NamedKey(seen', call.private, key.key)
        BY <1>1, <2>3 DEF NamedKey
    <2>6. MadeOf(call, seen', made')
        BY <1>3, <2>2, <2>3, <2>5 DEF MadeOf
    <2>7. made' # NoContent /\ made'.key = key.key
        BY <2>2, <2>3
    <2>8. CASE Succeed(key.key)
        BY <1>3, <2>3, <2>4, <2>5, <2>6, <2>7, <2>8, Succeeds
    <2>9. CASE Abort
        BY <2>3, <2>4, <2>6, <2>9, Aborts
    <2> QED
        BY <2>1, <2>8, <2>9
<1>4. CASE ~Exists(files, call.output) /\ call.op = "sign"
    <2> DEFINE s == Signature(key.key, key.key, held.text)
               n == File(s, FALSE)
    <2>1. /\ PublishFile(call.output, s) /\ (Continue("inspect", held) \/ Abort)
          /\ signed' = signed \cup {<<key.key, held.text>>}
        BY <1>4 DEF Output
    <2>2. /\ n.ino = fresh /\ n.type = "file" /\ n.content = s
          /\ s.kind = "signature" /\ s.by = key.key /\ s.text = held.text /\ s.key = key.key
          /\ s # NoContent
        BY DEF File, Signature, NoContent
    <2> HIDE DEF s
    <2>3. /\ Named(call.output, n) /\ seen' = seen \cup {files'} /\ made' = s
          /\ files'[call.output].type = "file" /\ files'[call.output].content = s
          /\ ~disturbed => OnlyItsFile(seen', files', call, made')
        BY <1>1, <1>4, <2>1, <2>2, Publishes DEF Target
    <2> HIDE DEF n
    <2>5. Numbered'
        BY <2>3, NumberedNext DEF KeysInv
    <2>6. <<n.content.by, n.content.text>> \in signed'
        BY <2>1, <2>2
    <2>7. FilesAreMade'
        BY <2>1, <2>3, <2>6, MadeNext DEF KeysInv, SignaturesAreMade, FilesAreMade
    <2>14. MadeOf(call, seen', made')
        <3>1. NamedKey(seen', call.private, s.key) /\ HadContent(seen', call.input, s.text)
            BY <1>1, <1>4, <2>2, <2>3 DEF NamedKey, HadContent
        <3> QED
            BY <2>3, <3>1 DEF MadeOf
    <2>15. CASE Abort
        BY <2>3, <2>5, <2>7, <2>14, <2>15, Aborts
    <2>16. CASE Continue("inspect", held)
        <3>4. at' = "inspect" /\ UNCHANGED <<call, result, held, disturbed>>
            BY <2>16 DEF Continue, Counts
        <3>8. KnownNext(held.node)
            BY <1>1, <2>3, KnownStays DEF KeysInv
        <3>9. HeldNode' /\ SignaturesAreMade' /\ Steps'
            BY <1>4, <2>7, <3>4, <3>8
               DEF KeysInv, HeldNode, Known, KnownNext, SignaturesAreMade, FilesAreMade, Verifies, Steps
        <3>10. Found' /\ result' = NoResult
            BY <1>1, <2>3, <2>14, <3>4 DEF KeysInv, Found
        <3>11. call.output \in DOMAIN files'
            BY <2>3 DEF Named, Naming
        <3>12. Is(files, call.output, "signature")'
            BY <2>2, <2>3, <3>4, <3>11 DEF Is, Regular, Exists
        <3>13. Undisturbed'
            BY <1>4, <2>2, <2>3, <3>4, <3>12 DEF Undisturbed, Verifies
        <3> QED
            BY <2>5, <3>9, <3>10, <3>13, GoesOn
    <2> QED
        BY <2>1, <2>15, <2>16
<1> QED
    BY <1>1, <1>2, <1>3, <1>4

LEMMA InspectInv ==
    ASSUME KeysInv, Inspect
    PROVE  KeysInv'
<1>1. at = "inspect" /\ call.op = "sign" /\ UNCHANGED Disk
    BY DEF Inspect, KeysInv, Steps
<1>4. seen' = seen /\ files' = files /\ made' = made
    BY <1>1 DEF Disk
<1>5. MadeOf(call, seen', made') /\ (~disturbed => OnlyItsFile(seen', files', call, made'))
    BY <1>1, <1>4 DEF KeysInv, Found, Undisturbed
<1>2. ASSUME NEW n \in Opens(files, call.output), Succeed(n.content.key) PROVE KeysInv'
    <2>1. ASSUME ~disturbed PROVE made # NoContent /\ n.content = made
        <3>1. /\ Is(files, call.output, "signature")
              /\ made # NoContent /\ files[call.output].content = made
            BY <1>1, <2>1 DEF KeysInv, Undisturbed
        <3> QED
            BY <1>2, <3>1, OpensFacts DEF Is
    <2>2. ~disturbed => made' # NoContent /\ made'.key = n.content.key
        BY <1>4, <2>1
    <2> QED
        BY <1>1, <1>2, <1>5, <2>2, DiskStays, Succeeds
<1>3. ASSUME ~(\E n \in Opens(files, call.output) : n.content.kind = "signature"), Refuse PROVE KeysInv'
    <2>1. ~Is(files, call.output, "signature")
        BY <1>3, OpensFacts DEF Is
    <2>2. disturbed
        BY <1>1, <2>1 DEF KeysInv, Undisturbed
    <2> QED
        BY <1>1, <1>3, <2>2, Refuses
<1> QED
    BY <1>2, <1>3 DEF Inspect

LEMMA ReadSignatureInv ==
    ASSUME KeysInv, ReadSignature
    PROVE  KeysInv'
<1>1. at = "signature" /\ call.op = "verify" /\ UNCHANGED Disk /\ made = NoContent
    BY DEF ReadSignature, KeysInv, Steps, Found
<1>2. ASSUME NEW n \in Opens(files, call.signature), n.content.kind = "signature",
             Continue("trusted", [opened |-> FALSE, signature |-> n.content])
      PROVE  KeysInv'
    <2>1. /\ at' = "trusted" /\ held'.signature = n.content
          /\ UNCHANGED <<call, disturbed, made, files, seen, signed, fresh>>
        BY <1>1, <1>2, Reads
    <2>2. Witnessed(n.content)
        BY <1>2, OpenedIsMade DEF KeysInv
    <2>3. HeldNode' /\ Steps' /\ Found'
        BY <1>1, <1>2, <2>1, Reads DEF KeysInv, HeldNode, Steps, Found
    <2>4. SignaturesAreMade'
        BY <1>1, <1>2, <2>1, <2>2, Reads DEF SignaturesAreMade, FilesAreMade, Witnessed
    <2>5. Regular(files, call.signature) => n = files[call.signature]
        BY <1>2, OpensFacts
    <2>6. Undisturbed'
        BY <1>1, <2>1, <2>5 DEF KeysInv, Undisturbed, Regular, Exists
    <2> QED
        BY <1>1, <1>2, <2>3, <2>4, <2>6, Reads
<1>3. ASSUME ~(\E n \in Opens(files, call.signature) : n.content.kind = "signature"), Refuse
      PROVE  KeysInv'
    <2>1. ~Is(files, call.signature, "signature")
        BY <1>3, OpensFacts DEF Is
    <2>2. ~Ready(files, call)
        BY <1>1, <2>1, ReadyFacts
    <2> QED
        BY <1>1, <1>3, <2>2, Refuses
<1> QED
    BY <1>2, <1>3 DEF ReadSignature

\* What LoadTrusted accepts is one of the keys that the trusted signer may be known by.
LEMMA TrustedSigns ==
    ASSUME NEW t, t.by \in {"path", "fingerprint"}
    PROVE  Trusts(t) <=> held.signature.key \in SignersIn(files, t)
BY DEF Trusts, TrustedSigner, SignersIn

LEMMA LoadTrustedInv ==
    ASSUME KeysInv, LoadTrusted
    PROVE  KeysInv'
<1>1. /\ at = "trusted" /\ call.op = "verify" /\ UNCHANGED Disk
      /\ files \in seen /\ made = NoContent
      /\ call.trusted.by \in {"path", "fingerprint"}
    BY DEF LoadTrusted, KeysInv, Steps, Found
<1>2. CASE Trusts(call.trusted) /\ Continue("digest", held)
    <2>1. at' = "digest" /\ UNCHANGED <<held, call, disturbed, made, files, seen, signed, fresh>>
        BY <1>1, <1>2, Reads
    <2>2. held.signature.key \in SignersIn(files, call.trusted)
        BY <1>1, <1>2, TrustedSigns
    <2>3. HeldNode' /\ Steps' /\ SignaturesAreMade'
        BY <1>1, <1>2, <2>1, Reads DEF KeysInv, HeldNode, Steps, SignaturesAreMade, FilesAreMade,
                                      Verifies, Witnessed
    <2>4. Found'
        BY <1>1, <1>2, <2>1, <2>2, Reads DEF KeysInv, Found
    <2>5. Undisturbed'
        BY <1>1, <2>1 DEF KeysInv, Undisturbed, Verifies, Regular, Exists
    <2> QED
        BY <1>1, <1>2, <2>3, <2>4, <2>5, Reads
<1>3. CASE ~Trusts(call.trusted) /\ Refuse
    <2>1. ASSUME ~disturbed, Ready(files, call) PROVE FALSE
        <3>1. held.signature = files[call.signature].content
            BY <1>1, <2>1, ReadyFacts DEF KeysInv, Undisturbed, Verifies, Is
        <3> QED
            BY <1>1, <1>3, <2>1, <3>1, ReadyFacts, TrustedSigns
    <2> QED
        BY <1>1, <1>3, <2>1, Refuses
<1> QED
    BY <1>2, <1>3 DEF LoadTrusted

LEMMA BeginInv ==
    ASSUME KeysInv,
           \/ IdentityGenerate \/ KeyGenerate \/ KeyValidate \/ IdentityPublic \/ Sign
           \/ SignatureVerify
    PROVE  KeysInv'
<1>1. CASE IdentityGenerate \/ KeyGenerate
    BY <1>1, Begins DEF IdentityGenerate, KeyGenerate
<1>2. CASE KeyValidate
    BY <1>2, Begins DEF KeyValidate
<1>3. CASE IdentityPublic \/ Sign
    BY <1>3, Begins DEF IdentityPublic, Sign
<1>4. CASE SignatureVerify
    <2>1. \A t \in Trusted : t.by \in {"path", "fingerprint"}
        BY DEF Trusted
    <2> QED
        BY <1>4, <2>1, Begins DEF SignatureVerify
<1> QED
    BY <1>1, <1>2, <1>3, <1>4

\* Another program names a node, which is no signature but of its own, or removes a name.
LEMMA OtherIs ==
    ASSUME NEW p, Other(p)
    PROVE  \/ Removed(p)
           \/ \E n : Named(p, n) /\ (Signs(n) => \E t \in Texts : /\ n.content.by = Stranger
                                                                 /\ n.content.text = Data(t))
<1>1. fresh' = fresh + 1
    BY DEF Other
<1>2. CASE files' = [q \in DOMAIN files \ {p} |-> files[q]]
    BY <1>1, <1>2 DEF Removed
<1>3. ASSUME NEW c \in Foreign(p), NEW exposed, files' = Naming(p, File(c, exposed))
      PROVE  \E n : Named(p, n) /\ (Signs(n) => \E t \in Texts : /\ n.content.by = Stranger
                                                                /\ n.content.text = Data(t))
    <2>1. c.kind = "signature" => \E t \in Texts : c.by = Stranger /\ c.text = Data(t)
        BY <1>3 DEF Foreign, Private, Raw, Public, Signature, Data
    <2>2. File(c, exposed).ino = fresh /\ File(c, exposed).content = c
        BY DEF File
    <2> QED
        BY <1>1, <1>3, <2>1, <2>2 DEF Named, Signs
<1>4. ASSUME NEW to, files' = Naming(p, Link(to))
      PROVE  \E n : Named(p, n) /\ ~Signs(n)
    <2>1. Link(to).ino = fresh /\ Link(to).type = "link"
        BY DEF Link
    <2> QED
        BY <1>1, <1>4, <2>1 DEF Named, Signs
<1> QED
    BY <1>2, <1>3, <1>4 DEF Other

LEMMA OtherInv ==
    ASSUME KeysInv, NEW p, Other(p)
    PROVE  KeysInv'
<1>1. /\ disturbed' = TRUE /\ result' = NoResult /\ UNCHANGED <<call, at, held, made, signed>>
      /\ seen' = IF at = "idle" THEN seen ELSE seen \cup {files'}
    BY DEF Other
<1>2. PICK n : /\ Named(p, n) \/ Removed(p)
               /\ Signs(n) => Removed(p) \/ <<n.content.by, n.content.text>> \in signed
    BY OtherIs DEF KeysInv, SignaturesAreMade
<1>3. Numbered' /\ (Known(held.node) => KnownNext(held.node))
    BY <1>2, NumberedNext, KnownStays DEF KeysInv
<1>4. FilesAreMade'
    <2>1. CASE Removed(p)
        <3>1. Removed(p) /\ ~Signs([type |-> "none"])
            BY <2>1 DEF Signs
        <3> QED
            BY <1>1, <3>1, MadeNext DEF KeysInv, SignaturesAreMade, FilesAreMade
    <2>2. CASE ~Removed(p)
        BY <1>1, <1>2, <2>2, MadeNext DEF KeysInv, SignaturesAreMade, FilesAreMade
    <2> QED
        BY <2>1, <2>2
<1>5. HeldNode' /\ Steps'
    BY <1>1, <1>3 DEF KeysInv, HeldNode, Known, KnownNext, Steps
<1>6. SignaturesAreMade'
    BY <1>1, <1>4 DEF KeysInv, SignaturesAreMade, FilesAreMade, Verifies, Witnessed
<1>7. Found'
    <2>1. seen \subseteq seen'
        BY <1>1
    <2>2. /\ \A q, k : NamedKey(seen, q, k) => NamedKey(seen', q, k)
          /\ \A q, t : HadContent(seen, q, t) => HadContent(seen', q, t)
        BY <2>1 DEF NamedKey, HadContent
    <2>3. MadeOf(call, seen, made) => MadeOf(call, seen', made)
        BY <2>2 DEF MadeOf
    <2> QED
        BY <1>1, <2>1, <2>2, <2>3 DEF KeysInv, Found
<1>8. Undisturbed'
    BY <1>1 DEF Undisturbed
<1> QED
    BY <1>1, <1>3, <1>5, <1>6, <1>7, <1>8, GoesOn

LEMMA KeysNext == KeysInv /\ [Next]_vars => KeysInv'
<1> SUFFICES ASSUME KeysInv, [Next]_vars PROVE KeysInv'
    OBVIOUS
<1>1. CASE Next
    BY <1>1, BeginInv, GenerateInv, OpenInv, LoadPrivateInv, ReadInputInv, OutputInv, InspectInv,
       ReadSignatureInv, LoadTrustedInv, FailsInv, OtherInv DEF Next
<1>2. CASE UNCHANGED vars
    <2>1. Numbered' /\ HeldNode'
        BY <1>2 DEF vars, KeysInv, Numbered, HeldNode, Known
    <2>2. SignaturesAreMade'
        BY <1>2 DEF vars, KeysInv, SignaturesAreMade, Signs, Witnessed, Verifies
    <2>3. Steps' /\ Found'
        BY <1>2 DEF vars, KeysInv, Steps, Found
    <2>4. Undisturbed'
        BY <1>2 DEF vars, KeysInv, Undisturbed, Generated, Verifies, Is, Regular, Exists
    <2>5. ReportsAreTrue' /\ ReadyCallsSucceed'
        BY <1>2 DEF vars, KeysInv, ReportsAreTrue, VerifiedWasSigned, KeyIsOfItsFile, ReadyCallsSucceed
    <2> QED
        BY <2>1, <2>2, <2>3, <2>4, <2>5 DEF KeysInv
<1> QED
    BY <1>1, <1>2

\* Every state of Keys has what the commands of app/identity.go and app/key.go rely on.
THEOREM KeysInvariant == Spec => []KeysInv
<1>1. Init => KeysInv
    BY KeysInit
<1> QED
    BY <1>1, KeysNext, PTL DEF Spec

\* A verification that succeeds names the trusted signer and an input that he has
\* signed, and a key that was used is of the file its path named, whatever other
\* programs replace or link while the command runs (identity.go:168-258,
\* key.go:36-65).
THEOREM VerificationsAreTrue == Spec => []ReportsAreTrue
<1>1. KeysInv => ReportsAreTrue
    BY DEF KeysInv
<1> QED
    BY <1>1, KeysInvariant, PTL

\* A command that no other program disturbs changes nothing but its own output, which
\* it publishes whole, and refuses only when it lacked what it needs and without
\* having published; only a failing call of the system may end it otherwise, and then
\* its output may be there.  Keys, public halves and signatures made by these commands
\* are good for the others (identity.go:41-197, key.go:18-65).
THEOREM ReadyCommandsSucceed == Spec => []ReadyCallsSucceed
<1>1. KeysInv => ReadyCallsSucceed
    BY DEF KeysInv
<1> QED
    BY <1>1, KeysInvariant, PTL

-----------------------------------------------------------------------------
(* Form: the slots. *)

\* What a slot may be.
Fields ==
    {"input", "output", "credential", "password", "confirmation", "keyfile", "codec", "cipher",
     "algorithm", "overwrite", "submit"}

LEMMA Elements ==
    ASSUME NEW s \in Seq(Fields), NEW x
    PROVE  x \in Forms!ToSet(s) <=> \E i \in 1..Len(s) : s[i] = x
BY DEF Forms!ToSet

LEMMA Concatenation ==
    ASSUME NEW s \in Seq(Fields), NEW t \in Seq(Fields)
    PROVE  /\ s \o t \in Seq(Fields) /\ Len(s \o t) = Len(s) + Len(t)
           /\ \A i \in 1..Len(s) : (s \o t)[i] = s[i]
           /\ \A i \in 1..Len(s \o t) : i > Len(s) => (s \o t)[i] \in Forms!ToSet(t)
           /\ Forms!ToSet(s \o t) = Forms!ToSet(s) \cup Forms!ToSet(t)
<1>1. s \o t \in Seq(Fields) /\ Len(s \o t) = Len(s) + Len(t) /\ Len(s) \in Nat /\ Len(t) \in Nat
    OBVIOUS
<1>2. \A i \in 1..Len(s) : (s \o t)[i] = s[i]
    OBVIOUS
<1>3. \A i \in 1..Len(t) : (s \o t)[Len(s) + i] = t[i]
    OBVIOUS
<1>4. ASSUME NEW x \in Forms!ToSet(s \o t) PROVE x \in Forms!ToSet(s) \cup Forms!ToSet(t)
    <2>1. PICK i \in 1..(Len(s) + Len(t)) : (s \o t)[i] = x
        BY <1>1, Elements
    <2>2. CASE i <= Len(s)
        BY <1>1, <1>2, <2>1, <2>2, Elements
    <2>3. CASE i > Len(s)
        <3>1. i - Len(s) \in 1..Len(t) /\ i = Len(s) + (i - Len(s))
            BY <1>1, <2>3
        <3> QED
            BY <1>3, <2>1, <3>1, Elements
    <2> QED
        BY <1>1, <2>2, <2>3
<1>5. ASSUME NEW x \in Forms!ToSet(s) PROVE x \in Forms!ToSet(s \o t)
    <2>1. PICK i \in 1..Len(s) : s[i] = x
        BY Elements
    <2>2. i \in 1..Len(s \o t) /\ (s \o t)[i] = x
        BY <1>1, <1>2, <2>1
    <2> QED
        BY <1>1, <2>2, Elements
<1>6. ASSUME NEW x \in Forms!ToSet(t) PROVE x \in Forms!ToSet(s \o t)
    <2>1. PICK i \in 1..Len(t) : t[i] = x
        BY Elements
    <2>2. Len(s) + i \in 1..Len(s \o t) /\ (s \o t)[Len(s) + i] = x
        BY <1>1, <1>3, <2>1
    <2> QED
        BY <1>1, <2>2, Elements
<1>7. ASSUME NEW i \in 1..Len(s \o t), i > Len(s) PROVE (s \o t)[i] \in Forms!ToSet(t)
    <2>1. i - Len(s) \in 1..Len(t) /\ i = Len(s) + (i - Len(s))
        BY <1>1, <1>7
    <2> QED
        BY <1>3, <2>1, Elements
<1> QED
    BY <1>1, <1>2, <1>4, <1>5, <1>6, <1>7, Zenon

LEMMA FieldNames ==
    /\ "input" \in Fields /\ "output" \in Fields /\ "credential" \in Fields
    /\ "password" \in Fields /\ "confirmation" \in Fields /\ "keyfile" \in Fields
    /\ "codec" \in Fields /\ "cipher" \in Fields /\ "algorithm" \in Fields
    /\ "overwrite" \in Fields /\ "submit" \in Fields
BY DEF Fields

LEMMA NoneListed == <<>> \in Seq(Fields) /\ Forms!ToSet(<<>>) = {}
BY EmptySeq DEF Forms!ToSet

LEMMA OneListed == \A a \in Fields : <<a>> \in Seq(Fields) /\ Forms!ToSet(<<a>>) = {a}
BY DEF Forms!ToSet

LEMMA TwoListed == \A a, b \in Fields : <<a, b>> \in Seq(Fields) /\ Forms!ToSet(<<a, b>>) = {a, b}
BY DEF Forms!ToSet

LEMMA ThreeListed ==
    \A a, b, c \in Fields : <<a, b, c>> \in Seq(Fields) /\ Forms!ToSet(<<a, b, c>>) = {a, b, c}
BY DEF Forms!ToSet

LEMMA FourListed ==
    \A a, b, c, d \in Fields :
        <<a, b, c, d>> \in Seq(Fields) /\ Forms!ToSet(<<a, b, c, d>>) = {a, b, c, d}
BY DEF Forms!ToSet

\* The secrets that a form asks for.
Asked ==
    IF ~Forms!HasCredential THEN {}
    ELSE IF credential = "key" THEN {"keyfile"}
    ELSE {"password"} \cup (IF kind = "protect" THEN {"confirmation"} ELSE {})

\* Where the kind of credential is chosen, whichever it is.
CredentialSlot == IF kind \in {"protect", "restore"} THEN 3 ELSE 2

LEMMA SecretSlots ==
    ASSUME kind \in {"protect", "restore", "verify", "list"}, credential \in {"password", "key"},
           NEW confirm, confirm = IF kind = "protect" THEN <<"confirmation">> ELSE <<>>
    PROVE  Forms!Secrets(confirm) \in Seq(Fields) /\ Forms!ToSet(Forms!Secrets(confirm)) = Asked
<1>1. confirm \in Seq(Fields) /\ Forms!ToSet(confirm) = IF kind = "protect" THEN {"confirmation"} ELSE {}
    BY NoneListed, OneListed, FieldNames
<1>2. <<"password">> \in Seq(Fields) /\ Forms!ToSet(<<"password">>) = {"password"}
    BY OneListed, FieldNames
<1>3. <<"keyfile">> \in Seq(Fields) /\ Forms!ToSet(<<"keyfile">>) = {"keyfile"}
    BY OneListed, FieldNames
<1>4. CASE credential = "password"
    BY <1>1, <1>2, <1>4, Concatenation DEF Forms!Secrets, Forms!HasCredential, Asked
<1>5. CASE credential = "key"
    BY <1>3, <1>5 DEF Forms!Secrets, Forms!HasCredential, Asked
<1> QED
    BY <1>4, <1>5

LEMMA CredentialSlots ==
    ASSUME kind \in {"protect", "restore", "verify", "list"}, credential \in {"password", "key"}
    PROVE  /\ Forms!Slots \in Seq(Fields) /\ CredentialSlot \in 1..Len(Forms!Slots)
           /\ \A i \in 1..Len(Forms!Slots) : Forms!Slots[i] = "credential" <=> i = CredentialSlot
           /\ Forms!ToSet(Forms!Slots) \cap {"password", "confirmation", "keyfile"} = Asked
<1> DEFINE confirm == IF kind = "protect" THEN <<"confirmation">> ELSE <<>>
           top == IF kind \in {"protect", "restore"} THEN <<"input", "output", "credential">>
                  ELSE <<"input", "credential">>
           middle == Forms!Secrets(confirm)
           bottom == IF kind = "protect" THEN <<"codec", "cipher", "overwrite", "submit">>
                     ELSE <<"submit">>
<1>1. Forms!Slots = top \o middle \o bottom
    BY DEF Forms!Slots
<1>2. middle \in Seq(Fields) /\ Forms!ToSet(middle) = Asked
    BY SecretSlots
<1>3. bottom \in Seq(Fields) /\ Forms!ToSet(bottom) \subseteq {"codec", "cipher", "overwrite", "submit"}
    <2>1. /\ <<"codec", "cipher", "overwrite", "submit">> \in Seq(Fields)
          /\ Forms!ToSet(<<"codec", "cipher", "overwrite", "submit">>) =
                {"codec", "cipher", "overwrite", "submit"}
        BY FourListed, FieldNames
    <2>2. <<"submit">> \in Seq(Fields) /\ Forms!ToSet(<<"submit">>) = {"submit"}
        BY OneListed, FieldNames
    <2> QED
        BY <2>1, <2>2
<1>4. top \in Seq(Fields) /\ Forms!ToSet(top) \subseteq {"input", "output", "credential"}
    <2>1. CASE kind \in {"protect", "restore"}
        BY <2>1, ThreeListed, FieldNames
    <2>2. CASE kind \notin {"protect", "restore"}
        BY <2>2, TwoListed, FieldNames
    <2> QED
        BY <2>1, <2>2
<1>5. Len(top) = CredentialSlot /\ \A i \in 1..Len(top) : top[i] = "credential" <=> i = CredentialSlot
    BY DEF CredentialSlot
<1> HIDE DEF middle, top, bottom
<1> DEFINE first == top \o middle
<1>6. /\ first \in Seq(Fields) /\ Len(first) = Len(top) + Len(middle)
      /\ \A i \in 1..Len(top) : first[i] = top[i]
      /\ \A i \in 1..Len(first) : i > Len(top) => first[i] \in Asked
      /\ Forms!ToSet(first) = Forms!ToSet(top) \cup Asked
    BY <1>2, <1>4, Concatenation
<1> HIDE DEF first
<1> DEFINE slots == first \o bottom
<1>7. /\ slots \in Seq(Fields) /\ Len(slots) = Len(first) + Len(bottom)
      /\ \A i \in 1..Len(first) : slots[i] = first[i]
      /\ \A i \in 1..Len(slots) : i > Len(first) => slots[i] \in Forms!ToSet(bottom)
      /\ Forms!ToSet(slots) = Forms!ToSet(first) \cup Forms!ToSet(bottom)
    BY <1>3, <1>6, Concatenation
<1>8. slots = Forms!Slots
    BY <1>1 DEF first
<1> HIDE DEF slots
<1>9. Asked \subseteq {"password", "confirmation", "keyfile"}
    BY DEF Asked
<1>10. /\ Len(top) \in Nat /\ Len(first) \in Nat /\ Len(slots) \in Nat /\ Len(middle) \in Nat
       /\ Len(bottom) \in Nat /\ CredentialSlot \in {2, 3}
    BY <1>2, <1>3, <1>4, <1>6, <1>7 DEF CredentialSlot
<1>11. ASSUME NEW i \in 1..Len(slots) PROVE slots[i] = "credential" <=> i = CredentialSlot
    <2>1. CASE i <= Len(top)
        BY <1>5, <1>6, <1>7, <1>10, <2>1
    <2>2. CASE i > Len(top) /\ i <= Len(first)
        BY <1>5, <1>6, <1>7, <1>9, <1>10, <2>2
    <2>3. CASE i > Len(first)
        BY <1>3, <1>5, <1>6, <1>7, <1>10, <2>3
    <2> QED
        BY <1>10, <2>1, <2>2, <2>3
<1>12. Forms!ToSet(slots) \cap {"password", "confirmation", "keyfile"} = Asked
    BY <1>3, <1>4, <1>6, <1>7, <1>9
<1>13. CredentialSlot \in 1..Len(slots)
    BY <1>5, <1>6, <1>7, <1>10
<1> QED
    BY <1>7, <1>8, <1>11, <1>12, <1>13

LEMMA OtherSlots ==
    ASSUME kind \in {"hash", "benchmark", "inspect"}
    PROVE  /\ Forms!Slots \in Seq(Fields) /\ Len(Forms!Slots) > 0
           /\ \A i \in 1..Len(Forms!Slots) : Forms!Slots[i] # "credential"
           /\ Forms!ToSet(Forms!Slots) \cap {"password", "confirmation", "keyfile"} = {}
<1>1. CASE kind = "hash"
    <2> DEFINE slots == <<"input", "algorithm", "submit">>
    <2>1. slots \in Seq(Fields) /\ Forms!ToSet(slots) = {"input", "algorithm", "submit"}
        BY ThreeListed, FieldNames
    <2>2. Len(slots) > 0 /\ \A i \in 1..Len(slots) : slots[i] # "credential"
        OBVIOUS
    <2>3. Forms!Slots = slots
        BY <1>1 DEF Forms!Slots
    <2> QED
        BY <2>1, <2>2, <2>3
<1>2. CASE kind = "benchmark"
    <2> DEFINE slots == <<"input", "output", "submit">>
    <2>1. slots \in Seq(Fields) /\ Forms!ToSet(slots) = {"input", "output", "submit"}
        BY ThreeListed, FieldNames
    <2>2. Len(slots) > 0 /\ \A i \in 1..Len(slots) : slots[i] # "credential"
        OBVIOUS
    <2>3. Forms!Slots = slots
        BY <1>2 DEF Forms!Slots
    <2> QED
        BY <2>1, <2>2, <2>3
<1>3. CASE kind = "inspect"
    <2> DEFINE slots == <<"input", "submit">>
    <2>1. slots \in Seq(Fields) /\ Forms!ToSet(slots) = {"input", "submit"}
        BY TwoListed, FieldNames
    <2>2. Len(slots) > 0 /\ \A i \in 1..Len(slots) : slots[i] # "credential"
        OBVIOUS
    <2>3. Forms!Slots = slots
        BY <1>3 DEF Forms!Slots
    <2> QED
        BY <2>1, <2>2, <2>3
<1> QED
    BY <1>1, <1>2, <1>3

LEMMA SlotsFacts ==
    ASSUME kind \in Forms!Kinds, credential \in {"password", "key"}
    PROVE  /\ Forms!Slots \in Seq(Fields) /\ Len(Forms!Slots) \in Nat \ {0}
           /\ \A i \in 1..Len(Forms!Slots) :
                 Forms!Slots[i] = "credential" => i = CredentialSlot /\ Forms!HasCredential
           /\ Forms!HasCredential =>
                 CredentialSlot <= Len(Forms!Slots) /\ Forms!Slots[CredentialSlot] = "credential"
           /\ Forms!ToSet(Forms!Slots) \cap {"password", "confirmation", "keyfile"} = Asked
<1>1. CASE kind \in {"protect", "restore", "verify", "list"}
    <2>1. Forms!HasCredential
        BY <1>1 DEF Forms!HasCredential
    <2>2. Len(Forms!Slots) \in Nat
        BY <1>1, CredentialSlots
    <2> QED
        BY <1>1, <2>1, <2>2, CredentialSlots
<1>2. CASE kind \in {"hash", "benchmark", "inspect"}
    <2>1. ~Forms!HasCredential /\ Asked = {}
        BY <1>2 DEF Forms!HasCredential, Asked
    <2>2. Len(Forms!Slots) \in Nat
        BY <1>2, OtherSlots
    <2> QED
        BY <1>2, <2>1, <2>2, OtherSlots
<1> QED
    BY <1>1, <1>2 DEF Forms!Kinds

LEMMA SlotsStay ==
    ASSUME UNCHANGED <<kind, credential>>
    PROVE  Forms!Slots' = Forms!Slots
BY DEF Forms!Slots, Forms!Secrets

LEMMA Cycles ==
    ASSUME NEW count \in Nat \ {0}, NEW i \in 0..(count - 1), NEW delta \in {-1, 1}
    PROVE  Forms!Cycle(i, delta, count) \in 0..(count - 1)
BY DEF Forms!Cycle

-----------------------------------------------------------------------------
\* What is shown is over the slot that has the focus.
FormInv ==
    /\ kind \in Forms!Kinds /\ credential \in {"password", "key"}
    /\ choice \in [Forms!Selections -> Nat]
    /\ shows \in {"picker", "dropdown"} => slot = Forms!Current
    /\ shows = "dropdown" => slot \in Forms!Dropdowns
    /\ Forms!FormIsHonest

\* The parts of it, of which an action disturbs some.
FocusInv ==
    /\ focus \in 0..(Len(Forms!Slots) - 1)
    /\ typing = {Forms!Current} \cap {"password", "confirmation"}

ChoiceInv ==
    /\ choice \in [Forms!Selections -> Nat]
    /\ \A c \in Forms!Selections : choice[c] \in 0..(Options[c] - 1)

SecretInv ==
    /\ password # Empty => "password" \in Asked
    /\ confirmation # Empty => "confirmation" \in Asked
    /\ keyFile # Empty => "keyfile" \in Asked

ShownInv ==
    /\ shows \in {"picker", "dropdown"} => slot = Forms!Current
    /\ shows = "dropdown" => slot \in Forms!Dropdowns /\ selected \in 0..(Options[slot] - 1)

RequestInv ==
    /\ shows = "confirm" =>
          /\ request = Forms!Request
          /\ kind = "protect" /\ credential = "password" => password = confirmation
    /\ shows # "confirm" => request = Forms!NoRequest

KindInv == kind \in Forms!Kinds /\ credential \in {"password", "key"}

LEMMA FormParts ==
    FormInv <=> KindInv /\ FocusInv /\ ChoiceInv /\ SecretInv /\ ShownInv /\ RequestInv
<1> DEFINE in == Forms!ToSet(Forms!Slots)
<1>1. KindInv => \A s \in {"password", "confirmation", "keyfile"} : s \in in <=> s \in Asked
    BY SlotsFacts, Zenon DEF KindInv
<1> HIDE DEF in
<1> USE DEF FormInv, Forms!FormIsHonest, Forms!RequestIsShown, Forms!FocusIsShown
<1>2. FormInv => KindInv /\ FocusInv /\ ChoiceInv /\ ShownInv /\ RequestInv
    BY DEF KindInv, FocusInv, ChoiceInv, ShownInv, RequestInv
<1>3. FormInv => SecretInv
    BY <1>1 DEF KindInv, SecretInv, in
<1>4. ASSUME KindInv, FocusInv, ChoiceInv, SecretInv, ShownInv, RequestInv PROVE FormInv
    <2>1. Forms!RequestIsShown
        BY <1>1, <1>4 DEF RequestInv, SecretInv, in
    <2>2. Forms!FocusIsShown
        BY <1>4 DEF FocusInv, ChoiceInv, ShownInv
    <2> QED
        BY <1>4, <2>1, <2>2 DEF KindInv, ChoiceInv, ShownInv
<1> QED
    BY <1>2, <1>3, <1>4

LEMMA FormPartsNext ==
    KindInv' /\ FocusInv' /\ ChoiceInv' /\ SecretInv' /\ ShownInv' /\ RequestInv' => FormInv'
BY FormParts, PTL

LEMMA FocusStays ==
    ASSUME FocusInv, UNCHANGED <<kind, credential, focus>>
    PROVE  /\ Forms!Current' = Forms!Current
           /\ typing' = typing => FocusInv'
BY SlotsStay DEF FocusInv, Forms!Current

LEMMA AskedStays ==
    ASSUME UNCHANGED <<kind, credential>>
    PROVE  Asked' = Asked
BY DEF Asked, Forms!HasCredential

LEMMA OptionsFacts ==
    /\ \A s \in {"credential"} \cup Forms!Selections : Options[s] \in Nat \ {0}
    /\ Options["credential"] = 2
BY FormAssumption DEF Forms!ConstantsAssumption, Forms!Selections

LEMMA FormInit ==
    ASSUME Forms!Init
    PROVE  FormInv
<1> USE DEF Forms!Init, Forms!Idle
<1>1. KindInv
    BY DEF KindInv
<1>2. ChoiceInv
    BY OptionsFacts DEF ChoiceInv, Forms!Selections
<1>3. SecretInv /\ ShownInv /\ RequestInv
    BY DEF SecretInv, ShownInv, RequestInv
<1>4. FocusInv
    <2>1. /\ Forms!Slots \in Seq(Fields) /\ Len(Forms!Slots) \in Nat \ {0}
          /\ Forms!ToSet(Forms!Slots) \cap {"password", "confirmation", "keyfile"} = Asked
        BY <1>1, SlotsFacts DEF KindInv
    <2>2. Forms!Slots[1] = "input"
        BY DEF Forms!Slots, Forms!Kinds, Forms!Secrets
    <2> QED
        BY <2>1, <2>2 DEF FocusInv, Forms!Current
<1> QED
    BY <1>1, <1>2, <1>3, <1>4, FormParts

\* A step that leaves the kinds alone.
LEMMA SameSlots ==
    ASSUME KindInv, UNCHANGED <<kind, credential>>
    PROVE  KindInv' /\ Forms!Slots' = Forms!Slots /\ Asked' = Asked
BY SlotsStay, AskedStays DEF KindInv

LEMMA CurrentIsAsked ==
    ASSUME KindInv, FocusInv, Forms!Current \in {"password", "confirmation", "keyfile"}
    PROVE  Forms!Current \in Asked
<1>1. Forms!Slots \in Seq(Fields) /\ Len(Forms!Slots) \in Nat
    BY SlotsFacts DEF KindInv
<1>2. focus + 1 \in 1..Len(Forms!Slots)
    BY <1>1 DEF FocusInv
<1>3. Forms!Current \in Forms!ToSet(Forms!Slots)
    BY <1>1, <1>2, Elements DEF Forms!Current
<1> QED
    BY <1>3, SlotsFacts DEF KindInv

LEMMA SlotsFactsNext ==
    KindInv' /\ Forms!HasCredential' =>
        /\ Len(Forms!Slots') \in Nat \ {0} /\ CredentialSlot' <= Len(Forms!Slots')
        /\ Forms!Slots'[CredentialSlot'] = "credential"
<1> DEFINE Chooses == /\ Len(Forms!Slots) \in Nat \ {0} /\ CredentialSlot <= Len(Forms!Slots)
                      /\ Forms!Slots[CredentialSlot] = "credential"
<1>1. KindInv /\ Forms!HasCredential => Chooses
    BY SlotsFacts DEF KindInv
<1> HIDE DEF Chooses
<1>2. KindInv' /\ Forms!HasCredential' => Chooses'
    BY <1>1, PTL
<1> QED
    BY <1>2 DEF Chooses

LEMMA MoveInv ==
    ASSUME FormInv, Forms!Move
    PROVE  FormInv'
<1>1. PICK delta \in {-1, 1} :
          /\ shows = "form" /\ focus' = Forms!Cycle(focus, delta, Len(Forms!Slots))
          /\ typing' = {Forms!Slots[focus' + 1]} \cap {"password", "confirmation"}
          /\ UNCHANGED <<kind, credential, password, confirmation, keyFile, choice, shows, slot, selected,
                         request, input, dir, overwrite>>
    BY DEF Forms!Move, Forms!SyncFocus, Forms!secrets, Forms!values, Forms!overlay
<1>2. KindInv' /\ Forms!Slots' = Forms!Slots /\ Asked' = Asked
    BY <1>1, SameSlots, FormParts
<1>3. FocusInv'
    <2>1. Len(Forms!Slots) \in Nat \ {0}
        BY SlotsFacts, FormParts DEF KindInv
    <2>2. focus' \in 0..(Len(Forms!Slots) - 1)
        BY <1>1, <2>1, Cycles, FormParts DEF FocusInv
    <2> QED
        BY <1>1, <1>2, <2>2 DEF FocusInv, Forms!Current
<1>4. ChoiceInv' /\ SecretInv' /\ ShownInv' /\ RequestInv'
    BY <1>1, <1>2, FormParts DEF ChoiceInv, SecretInv, ShownInv, RequestInv
<1> QED
    BY <1>2, <1>3, <1>4, FormPartsNext

LEMMA QuickAdjustInv ==
    ASSUME FormInv, Forms!QuickAdjust
    PROVE  FormInv'
<1>1. /\ shows = "form"
      /\ UNCHANGED <<kind, credential, password, confirmation, keyFile, focus, typing, shows, slot, selected,
                     request>>
    BY DEF Forms!QuickAdjust, Forms!secrets, Forms!overlay
<1>2. KindInv' /\ Forms!Slots' = Forms!Slots /\ Asked' = Asked
    BY <1>1, SameSlots, FormParts
<1>3. FocusInv' /\ SecretInv' /\ ShownInv' /\ RequestInv'
    BY <1>1, <1>2, FocusStays, FormParts DEF SecretInv, ShownInv, RequestInv
<1>4. ChoiceInv'
    <2>1. CASE UNCHANGED choice
        BY <2>1, FormParts DEF ChoiceInv
    <2>2. ASSUME NEW delta \in {-1, 1}, Forms!Current \in Forms!Selections,
                 choice' = [choice EXCEPT ![Forms!Current] =
                               Forms!Cycle(@, delta, Options[Forms!Current])]
          PROVE  ChoiceInv'
        <3> DEFINE c == Forms!Current
        <3>1. Options[c] \in Nat \ {0}
            BY <2>2, OptionsFacts DEF Forms!Selections
        <3>2. ChoiceInv
            BY FormParts
        <3>3. Forms!Cycle(choice[c], delta, Options[c]) \in 0..(Options[c] - 1)
            BY <2>2, <3>1, <3>2, Cycles DEF ChoiceInv
        <3> HIDE DEF c
        <3> QED
            BY <2>2, <3>1, <3>2, <3>3 DEF ChoiceInv, c
    <2> QED
        BY <2>1, <2>2 DEF Forms!QuickAdjust
<1> QED
    BY <1>2, <1>3, <1>4, FormPartsNext

LEMMA TypeInv ==
    ASSUME FormInv, Forms!Type
    PROVE  FormInv'
<1>1. /\ shows = "form" /\ Forms!Current \in typing
      /\ UNCHANGED <<kind, credential, keyFile, choice, focus, typing, shows, slot, selected, request>>
      /\ \/ Forms!Current = "password" /\ UNCHANGED confirmation
         \/ Forms!Current = "confirmation" /\ UNCHANGED password
    BY DEF Forms!Type, Forms!values, Forms!overlay
<1>2. KindInv' /\ Forms!Slots' = Forms!Slots /\ Asked' = Asked
    BY <1>1, SameSlots, FormParts
<1>3. FocusInv' /\ ChoiceInv' /\ ShownInv' /\ RequestInv'
    BY <1>1, <1>2, FocusStays, FormParts DEF ChoiceInv, ShownInv, RequestInv
<1>4. SecretInv'
    BY <1>1, <1>2, CurrentIsAsked, FormParts DEF SecretInv
<1> QED
    BY <1>2, <1>3, <1>4, FormPartsNext

LEMMA OverlayInv ==
    ASSUME FormInv,
           Forms!OpenDropdown \/ Forms!MoveInDropdown \/ Forms!OpenPicker \/ Forms!CloseOverlay
    PROVE  FormInv'
<1> USE DEF Forms!secrets, Forms!values
<1>1. /\ shows # "confirm" /\ shows' # "confirm"
      /\ UNCHANGED <<kind, credential, password, confirmation, keyFile, choice, focus, typing, request>>
    BY DEF Forms!OpenDropdown, Forms!MoveInDropdown, Forms!OpenPicker, Forms!CloseOverlay
<1>2. KindInv' /\ Forms!Slots' = Forms!Slots /\ Asked' = Asked
    BY <1>1, SameSlots, FormParts
<1>3. FocusInv' /\ Forms!Current' = Forms!Current
    BY <1>1, FocusStays, FormParts
<1>4. ChoiceInv' /\ SecretInv' /\ RequestInv'
    BY <1>1, <1>2, FormParts DEF ChoiceInv, SecretInv, RequestInv, Forms!NoRequest
<1>5. ShownInv'
    <2>1. CASE Forms!OpenDropdown
        <3>1. Forms!DropdownIndex(Forms!Current) \in 0..(Options[Forms!Current] - 1)
            BY <2>1, OptionsFacts, FormParts
               DEF Forms!OpenDropdown, Forms!DropdownIndex, Forms!Dropdowns, ChoiceInv
        <3> QED
            BY <1>3, <2>1, <3>1 DEF Forms!OpenDropdown, ShownInv
    <2>2. CASE Forms!MoveInDropdown
        <3>1. /\ shows = "dropdown" /\ slot = Forms!Current /\ slot \in Forms!Dropdowns
              /\ selected \in 0..(Options[slot] - 1) /\ Options[slot] \in Nat \ {0}
            BY <2>2, OptionsFacts, FormParts
               DEF Forms!MoveInDropdown, ShownInv, Forms!Dropdowns, Forms!Selections
        <3>2. selected' \in 0..(Options[slot] - 1)
            BY <2>2, <3>1, Cycles DEF Forms!MoveInDropdown
        <3> QED
            BY <1>3, <2>2, <3>1, <3>2 DEF Forms!MoveInDropdown, ShownInv
    <2>3. CASE Forms!OpenPicker \/ Forms!CloseOverlay
        BY <1>3, <2>3 DEF Forms!OpenPicker, Forms!CloseOverlay, ShownInv
    <2> QED
        BY <2>1, <2>2, <2>3
<1> QED
    BY <1>2, <1>3, <1>4, <1>5, FormPartsNext

LEMMA ApplyDropdownInv ==
    ASSUME FormInv, Forms!ApplyDropdown
    PROVE  FormInv'
<1> DEFINE chosen == IF selected = 1 THEN "key" ELSE "password"
<1>1. /\ shows = "dropdown" /\ slot = Forms!Current /\ shows' = "form"
      /\ UNCHANGED <<kind, focus, request>>
    BY FormParts DEF Forms!ApplyDropdown, ShownInv
<1>2. ShownInv' /\ RequestInv'
    BY <1>1, FormParts DEF ShownInv, RequestInv, Forms!NoRequest
<1>3. CASE slot # "credential"
    <2>1. /\ UNCHANGED <<credential, password, confirmation, keyFile, typing>>
          /\ choice' = [choice EXCEPT ![slot] = selected]
        BY <1>3 DEF Forms!ApplyDropdown, Forms!secrets
    <2>2. KindInv' /\ Asked' = Asked
        BY <1>1, <2>1, SameSlots, FormParts
    <2>3. FocusInv' /\ SecretInv'
        BY <1>1, <2>1, <2>2, FocusStays, FormParts DEF SecretInv
    <2>4. ChoiceInv'
        <3>1. /\ slot \in Forms!Selections /\ selected \in 0..(Options[slot] - 1)
              /\ Options[slot] \in Nat \ {0}
            BY <1>1, <1>3, OptionsFacts, FormParts
               DEF ShownInv, Forms!Dropdowns, Forms!Selections
        <3> QED
            BY <2>1, <3>1, FormParts DEF ChoiceInv
    <2> QED
        BY <1>2, <2>2, <2>3, <2>4, FormPartsNext
<1>4. CASE slot = "credential" /\ chosen = credential
    <2>1. UNCHANGED <<credential, password, confirmation, keyFile, typing, choice>>
        BY <1>4 DEF Forms!ApplyDropdown, Forms!EmptyOther, Forms!secrets
    <2>2. KindInv' /\ Asked' = Asked
        BY <1>1, <2>1, SameSlots, FormParts
    <2>3. FocusInv' /\ SecretInv' /\ ChoiceInv'
        BY <1>1, <2>1, <2>2, FocusStays, FormParts DEF SecretInv, ChoiceInv
    <2> QED
        BY <1>2, <2>2, <2>3, FormPartsNext
<1>5. CASE slot = "credential" /\ chosen # credential
    <2>1. /\ credential' = chosen /\ choice' = choice /\ Forms!EmptyOther(chosen)
          /\ typing' = {"credential"} \cap {"password", "confirmation"}
        BY <1>1, <1>5 DEF Forms!ApplyDropdown, Forms!SyncFocus
    <2>2. KindInv' /\ ChoiceInv'
        BY <1>1, <2>1, FormParts DEF KindInv, ChoiceInv
    <2>3. /\ Forms!Slots \in Seq(Fields) /\ Len(Forms!Slots) \in Nat \ {0}
          /\ focus \in 0..(Len(Forms!Slots) - 1)
          /\ Forms!Slots[focus + 1] = "credential"
        BY <1>1, <1>5, SlotsFacts, FormParts DEF KindInv, FocusInv, Forms!Current
    <2>4. focus + 1 = CredentialSlot /\ Forms!HasCredential
        BY <2>3, SlotsFacts, FormParts DEF KindInv
    <2>5. CredentialSlot' = CredentialSlot /\ Forms!HasCredential'
        BY <1>1, <2>4 DEF CredentialSlot, Forms!HasCredential
    <2>6. /\ Len(Forms!Slots') \in Nat \ {0}
          /\ CredentialSlot <= Len(Forms!Slots') /\ Forms!Slots'[CredentialSlot] = "credential"
        BY <2>2, <2>5, SlotsFactsNext DEF KindInv
    <2>7. FocusInv'
        BY <1>1, <2>1, <2>3, <2>4, <2>6 DEF FocusInv, Forms!Current
    <2>8. SecretInv'
        <3>1. CASE chosen = "key"
            <4>1. credential = "password" /\ password' = Empty /\ confirmation' = Empty /\ keyFile' = keyFile
                BY <1>5, <2>1, <3>1, FormParts DEF Forms!EmptyOther, KindInv
            <4>2. keyFile = Empty
                BY <4>1, FormParts DEF SecretInv, Asked
            <4> QED
                BY <4>1, <4>2 DEF SecretInv
        <3>2. CASE chosen = "password"
            <4>1. credential = "key" /\ keyFile' = Empty /\ UNCHANGED <<password, confirmation>>
                BY <1>5, <2>1, <3>2, FormParts DEF Forms!EmptyOther, KindInv
            <4>2. password = Empty /\ confirmation = Empty
                BY <4>1, FormParts DEF SecretInv, Asked
            <4> QED
                BY <4>1, <4>2 DEF SecretInv
        <3> QED
            BY <3>1, <3>2
    <2> QED
        BY <1>2, <2>2, <2>7, <2>8, FormPartsNext
<1> QED
    BY <1>3, <1>4, <1>5

LEMMA SetPathInv ==
    ASSUME FormInv, Forms!SetPath
    PROVE  FormInv'
<1>1. /\ shows = "picker" /\ shows' = "form" /\ slot = Forms!Current
      /\ UNCHANGED <<kind, credential, password, confirmation, choice, focus, typing, selected, request>>
      /\ slot = "keyfile" \/ UNCHANGED keyFile
    BY FormParts DEF Forms!SetPath, ShownInv
<1>2. KindInv' /\ Asked' = Asked
    BY <1>1, SameSlots, FormParts
<1>3. FocusInv' /\ ChoiceInv' /\ ShownInv' /\ RequestInv'
    BY <1>1, <1>2, FocusStays, FormParts DEF ChoiceInv, ShownInv, RequestInv
<1>4. SecretInv'
    BY <1>1, <1>2, CurrentIsAsked, FormParts DEF SecretInv
<1> QED
    BY <1>2, <1>3, <1>4, FormPartsNext

LEMMA RequestsInv ==
    ASSUME FormInv, Forms!Submit \/ Forms!EscConfirm \/ Forms!Leave \/ Forms!Enter
    PROVE  FormInv'
<1> USE DEF Forms!values, Forms!overlay, Forms!secrets
<1>1. /\ UNCHANGED <<kind, credential, input, dir, overwrite, choice, focus, typing, slot, selected>>
      /\ shows' \notin {"picker", "dropdown"}
    BY DEF Forms!Submit, Forms!EscConfirm, Forms!Leave, Forms!Enter
<1>2. KindInv' /\ Asked' = Asked /\ Forms!Slots' = Forms!Slots
    BY <1>1, SameSlots, FormParts
<1>3. FocusInv' /\ ChoiceInv' /\ ShownInv'
    BY <1>1, <1>2, FocusStays, FormParts DEF ChoiceInv, ShownInv
<1>4. CASE Forms!Submit
    <2>1. UNCHANGED <<password, confirmation, keyFile>> /\ request' = Forms!Request /\ shows' = "confirm"
        BY <1>4 DEF Forms!Submit
    <2>2. kind = "protect" /\ credential = "password" => password = confirmation
        BY <1>4 DEF Forms!Submit, Forms!HasCredential, Forms!CredentialGiven
    <2>3. Forms!Request' = Forms!Request
        BY <1>1, <1>2, <2>1
           DEF Forms!Request, Forms!HasOutput, Forms!HasCredential, Forms!OutputPreview
    <2>4. SecretInv' /\ RequestInv'
        BY <1>1, <1>2, <2>1, <2>2, <2>3, FormParts DEF SecretInv, RequestInv
    <2> QED
        BY <1>2, <1>3, <2>4, FormPartsNext
<1>5. CASE ~Forms!Submit
    <2>1. /\ shows' # "confirm" /\ request' = Forms!NoRequest
          /\ UNCHANGED <<password, confirmation, keyFile>> \/ Forms!ClearSecrets
        BY <1>5, FormParts DEF Forms!EscConfirm, Forms!Leave, Forms!Enter, RequestInv
    <2>2. SecretInv' /\ RequestInv'
        BY <1>2, <2>1, FormParts DEF SecretInv, RequestInv, Forms!ClearSecrets, Forms!NoRequest
    <2> QED
        BY <1>2, <1>3, <2>2, FormPartsNext
<1> QED
    BY <1>4, <1>5

LEMMA FormNext == FormInv /\ [Forms!Next]_Forms!vars => FormInv'
<1> SUFFICES ASSUME FormInv, [Forms!Next]_Forms!vars PROVE FormInv'
    OBVIOUS
<1>1. CASE Forms!Next
    BY <1>1, MoveInv, QuickAdjustInv, TypeInv, OverlayInv, ApplyDropdownInv, SetPathInv, RequestsInv
       DEF Forms!Next
<1>2. CASE UNCHANGED Forms!vars
    <2>1. UNCHANGED <<kind, credential, input, dir, overwrite, choice, focus, typing, slot, selected, shows,
                      request, password, confirmation, keyFile>>
        BY <1>2 DEF Forms!vars, Forms!secrets, Forms!values, Forms!overlay
    <2>2. KindInv' /\ Asked' = Asked /\ Forms!Slots' = Forms!Slots
        BY <2>1, SameSlots, FormParts
    <2>3. FocusInv' /\ ChoiceInv' /\ SecretInv' /\ ShownInv'
        BY <2>1, <2>2, FocusStays, FormParts DEF ChoiceInv, SecretInv, ShownInv
    <2>4. Forms!Request' = Forms!Request
        BY <2>1, <2>2
           DEF Forms!Request, Forms!HasOutput, Forms!HasCredential, Forms!OutputPreview
    <2>5. RequestInv'
        BY <2>1, <2>4, FormParts DEF RequestInv, Forms!NoRequest
    <2> QED
        BY <2>2, <2>3, <2>5, FormPartsNext
<1> QED
    BY <1>1, <1>2

\* The request that awaits confirmation is what the form shows, a hidden field holds
\* no secret, and what is typed goes to the slot that is shown to have the focus, for
\* any paths, passwords and lists of choices (forms.go:131-312, model.go:315-467).
THEOREM RequestsAreHonest ==
    Forms!Spec => []FormIsHonest
<1>1. Forms!Init => FormInv
    BY FormInit
<1>2. FormInv /\ [Forms!Next]_Forms!vars => FormInv'
    BY FormNext
<1>3. FormInv => FormIsHonest
    BY DEF FormInv, FormIsHonest
<1> QED
    BY <1>1, <1>2, <1>3, PTL DEF Forms!Spec

-----------------------------------------------------------------------------
(* Manifest: the invariant. *)

\* The first names of a path.
Up(p, i) == SubSeq(p, 1, i)

\* A tree as of a time.
Sound(t, time) ==
    /\ M!IsTree(t)
    /\ \A p \in DOMAIN t :
          t[p] \in [type : M!Types, data : M!Data, mode : M!Modes, ino : Nat, mtime : 0..time]

\* What an entry of a tree says that nobody edits.
EntryOf(p, node) ==
    M!Entry(p, node,
            IF node.type = "file" THEN M!Digest(node.data, node.data) ELSE <<>>,
            IF node.type = "symlink" THEN node.data ELSE M!NoTarget)

EntriesOf(t) == {EntryOf(p, t[p]) : p \in DOMAIN t}

Typed(t) == \A p \in DOMAIN t : t[p].type \in M!Types

Exact(mf) == M!Quiet(mf.of) => \A t \in mf.of : Typed(t) /\ mf.entries = EntriesOf(t)
ExactWhenRead(mf) ==
    mf.there /\ M!Quiet(mf.of) =>
        \A t \in mf.of : M!Encodable(t) => Typed(t) /\ mf.entries = EntriesOf(t)

Good(mf) == mf.there => M!FilesAreOfOneMoment(mf) /\ M!NothingIsMissing(mf)

DiskInv ==
    /\ clock \in Nat /\ DOMAIN trees = Trees /\ DOMAIN manifests = Outputs
    /\ \A r \in Trees : Sound(trees[r], clock)
    /\ \A o \in Outputs : Good(manifests[o]) /\ ExactWhenRead(manifests[o])

\* A command walks one tree or two, and the second has the manifest of the first.
RootsInv ==
    /\ pc = "idle" <=> roots = <<>>
    /\ pc # "idle" => roots = <<M!Root>> \/ roots = <<M!Root, roots[2]>>
    /\ built = <<>> \/ built = <<built[1]>>
    /\ built # <<>> =>
          /\ Tail(roots) = <<>> /\ Good(built[1])
          /\ \/ command.op = "compare" /\ Exact(built[1])
             \/ command.op = "verify" /\ built[1].there /\ ExactWhenRead(built[1])
    /\ pc # "idle" =>
          /\ Tail(roots) # <<>> => command.op = "compare"
          /\ Tail(roots) = <<>> /\ command.op # "create" => built # <<>>

Items(ps) == [path : ps, dir : BOOLEAN]

\* What has been seen of the tree.
WalkInv ==
    /\ M!Tree \in during /\ IsFiniteSet(during)
    /\ \A t \in during : Sound(t, clock)
    /\ todo \in Seq(Items(TreePaths))

\* Each entry for a file is of one of the trees that there have been.
EntriesInv ==
    /\ \A e \in entries :
          e = [path |-> e.path, type |-> e.type, size |-> e.size, mode |-> e.mode,
               digest |-> e.digest, target |-> e.target]
    /\ \A e \in entries : e.type = "file" =>
          \E t \in during : \E p \in DOMAIN t :
             p = e.path /\ M!Entry(p, t[p], M!Digest(t[p].data, t[p].data), M!NoTarget) = e
    /\ during = {M!Tree} =>
          \A e \in entries : e.path \in DOMAIN M!Tree /\ e = EntryOf(e.path, M!Tree[e.path])

\* What has still the time it had when it was visited holds what it held.
SameTime == M!There /\ M!Tree[visit.path].mtime = visit.before.mtime

VisitInv ==
    /\ pc # "next" => visit.path \in TreePaths /\ visit.dir \in BOOLEAN
    /\ pc \notin {"next", "descend"} =>
          \E t \in during : visit.path \in DOMAIN t /\ t[visit.path] = visit.before
    /\ pc \in {"open", "read", "again"} => visit.before.type = "file"
    /\ pc = "readlink" => visit.before.type = "symlink"
    /\ pc = "directory" => visit.before.type = "directory"
    /\ pc \in {"open", "read", "again"} /\ SameTime =>
          /\ M!Tree[visit.path].data = visit.before.data
          /\ pc = "read" => visit.opened.data = visit.before.data
          /\ pc = "again" => visit.digest = M!Digest(visit.before.data, visit.before.data)

\* What has always been there has an entry, or is on the way of the walk.
OnTheWay(x, p, least) ==
    \E k \in 1..Len(p) : x.path = Up(p, k) /\ (k < Len(p) => x.dir) /\ (least => k < Len(p))

Covered(p) ==
    \/ \E e \in entries : e.path = p
    \/ \E i \in DOMAIN todo : OnTheWay(todo[i], p, FALSE)
    \/ pc # "next" /\ OnTheWay(visit, p, pc = "descend")

CoverInv == \A p \in TreePaths : (\A t \in during : p \in DOMAIN t) => Covered(p)

WalkSteps == {"idle", "next", "open", "readlink", "directory", "read", "again", "descend"}

ManifestInv ==
    /\ DiskInv /\ RootsInv /\ M!ChangesAreExact /\ pc \in WalkSteps
    /\ pc # "idle" => WalkInv /\ EntriesInv /\ VisitInv /\ CoverInv

-----------------------------------------------------------------------------
(* Manifest: paths. *)

\* Two names of one operator.
LEMMA FiniteFacts ==
    \A S : M!Cardinality(S) = Cardinality(S) /\ (M!IsFiniteSet(S) <=> IsFiniteSet(S))
BY DEF M!Cardinality, M!IsFiniteSet, Cardinality, IsFiniteSet

LEMMA PrefixFacts ==
    ASSUME NEW s \in Seq(Nat), NEW t \in Seq(Nat)
    PROVE  M!IsPrefix(s, t) <=> Len(s) <= Len(t) /\ \A i \in 1..Len(s) : s[i] = t[i]
<1>1. CASE Len(s) <= Len(t)
    <2> DEFINE a == SubSeq(s, 1, Len(s))
               b == SubSeq(t, 1, Len(s))
    <2>1. a \in Seq(Nat) /\ b \in Seq(Nat) /\ Len(a) = Len(s) /\ Len(b) = Len(s)
        BY <1>1
    <2>2. \A i \in 1..Len(s) : a[i] = s[i] /\ b[i] = t[i]
        BY <1>1
    <2>3. (\A i \in 1..Len(s) : a[i] = b[i]) => a = b
        BY <2>1, SeqEqual
    <2> HIDE DEF a, b
    <2>4. M!IsPrefix(s, t) <=> a = b
        BY <1>1 DEF M!IsPrefix, a, b
    <2> QED
        BY <1>1, <2>2, <2>3, <2>4
<1>2. CASE ~(Len(s) <= Len(t))
    BY <1>2 DEF M!IsPrefix
<1> QED
    BY <1>1, <1>2

LEMMA UpFacts ==
    ASSUME NEW p \in Seq(Nat), NEW i \in 0..Len(p)
    PROVE  /\ Up(p, i) \in Seq(Nat) /\ Len(Up(p, i)) = i /\ M!IsPrefix(Up(p, i), p)
           /\ \A k \in 1..i : Up(p, i)[k] = p[k]
           /\ i > 0 => Up(p, i) # <<>>
<1>1. /\ Up(p, i) \in Seq(Nat) /\ Len(Up(p, i)) = i
      /\ \A k \in 1..i : Up(p, i)[k] = p[k]
    BY DEF Up
<1>2. i > 0 => Up(p, i) # <<>>
    BY <1>1, EmptySeq
<1>3. M!IsPrefix(Up(p, i), p)
    BY <1>1, PrefixFacts
<1> QED
    BY <1>1, <1>2, <1>3

LEMMA UpUp ==
    ASSUME NEW p \in Seq(Nat), NEW j \in 0..Len(p), NEW i \in 0..j
    PROVE  /\ Up(Up(p, j), i) = Up(p, i) /\ M!IsPrefix(Up(p, i), Up(p, j))
           /\ Up(p, Len(p)) = p /\ Up(p, 0) = <<>>
<1> DEFINE u == Up(p, j)
<1>0. i \in 0..Len(p) /\ j \in 0..Len(p) /\ i <= j
    OBVIOUS
<1>1. u \in Seq(Nat) /\ Len(u) = j /\ \A k \in 1..j : u[k] = p[k]
    BY UpFacts
<1>2. /\ Up(u, i) \in Seq(Nat) /\ Len(Up(u, i)) = i /\ M!IsPrefix(Up(u, i), u)
      /\ \A k \in 1..i : Up(u, i)[k] = u[k]
    BY <1>1, UpFacts
<1>3. Up(p, i) \in Seq(Nat) /\ Len(Up(p, i)) = i /\ \A k \in 1..i : Up(p, i)[k] = p[k]
    BY <1>0, UpFacts
<1>4. Up(u, i) = Up(p, i)
    <2> HIDE DEF u
    <2>0. \A k \in 1..i : k \in 1..j
        BY <1>0
    <2>1. \A k \in 1..i : Up(u, i)[k] = Up(p, i)[k]
        BY <2>0, <1>1, <1>2, <1>3
    <2> QED
        BY <1>2, <1>3, <2>1, SeqEqual
<1>5. Up(p, Len(p)) = p
    <2>1. /\ Up(p, Len(p)) \in Seq(Nat) /\ Len(Up(p, Len(p))) = Len(p)
          /\ \A k \in 1..Len(p) : Up(p, Len(p))[k] = p[k]
        BY UpFacts
    <2> QED
        BY <2>1, SeqEqual
<1>6. Up(p, 0) = <<>>
    <2>1. Up(p, 0) \in Seq(Nat) /\ Len(Up(p, 0)) = 0
        BY UpFacts
    <2> QED
        BY <2>1, EmptySeq
<1> QED
    BY <1>2, <1>4, <1>5, <1>6

LEMMA PrefixOrder ==
    ASSUME NEW p \in Seq(Nat), NEW q \in Seq(Nat), NEW i \in 0..Len(q)
    PROVE  /\ M!IsPrefix(p, p)
           /\ M!IsPrefix(p, Up(q, i)) => M!IsPrefix(p, q)
           /\ M!IsPrefix(p, q) => Len(p) <= Len(q) /\ p = Up(q, Len(p))
<1>1. M!IsPrefix(p, p) /\ (M!IsPrefix(p, q) => Len(p) <= Len(q))
    BY PrefixFacts
<1>2. ASSUME M!IsPrefix(p, Up(q, i)) PROVE M!IsPrefix(p, q)
    <2> DEFINE u == Up(q, i)
    <2>1. u \in Seq(Nat) /\ Len(u) = i /\ \A k \in 1..i : u[k] = q[k]
        BY UpFacts
    <2>2. M!IsPrefix(p, u)
        BY <1>2
    <2> HIDE DEF u
    <2>3. Len(p) <= Len(u) /\ \A k \in 1..Len(p) : p[k] = u[k]
        BY <2>1, <2>2, PrefixFacts
    <2>4. Len(p) <= Len(q) /\ \A k \in 1..Len(p) : p[k] = q[k]
        BY <2>1, <2>3
    <2> QED
        BY <2>4, PrefixFacts
<1>3. ASSUME M!IsPrefix(p, q) PROVE p = Up(q, Len(p))
    <2>1. Len(p) \in 0..Len(q) /\ \A k \in 1..Len(p) : p[k] = q[k]
        BY <1>3, PrefixFacts
    <2> DEFINE n == Len(p)
               u == Up(q, n)
    <2>2. u \in Seq(Nat) /\ Len(u) = n /\ \A k \in 1..n : u[k] = q[k]
        BY <2>1, UpFacts
    <2>3. \A k \in 1..Len(p) : u[k] = p[k]
        BY <2>1, <2>2
    <2> HIDE DEF u
    <2> QED
        BY <2>2, <2>3, SeqEqual DEF u
<1> QED
    BY <1>1, <1>2, <1>3

LEMMA Siblings ==
    ASSUME NEW d \in Seq(Nat), NEW p \in Seq(Nat), NEW q \in Seq(Nat),
           Len(p) = Len(d) + 1, Len(q) = Len(d) + 1,
           M!IsPrefix(d, p), M!IsPrefix(d, q), p[Len(p)] = q[Len(q)]
    PROVE  p = q
<1>1. /\ \A k \in 1..Len(d) : d[k] = p[k]
      /\ \A k \in 1..Len(d) : d[k] = q[k]
    BY PrefixFacts
<1>2. \A k \in 1..Len(p) : k \in 1..Len(d) \/ k = Len(p)
    BY LenProperties
<1>3. \A k \in 1..Len(p) : p[k] = q[k]
    BY <1>1, <1>2
<1> QED
    BY <1>3, SeqEqual

-----------------------------------------------------------------------------
(* Manifest: a directory's list. *)

Smaller(ps, p) == {q \in ps : M!Last(q) < M!Last(p)}

LEMMA Ranks ==
    ASSUME NEW ps, IsFiniteSet(ps),
           \A p \in ps : M!Last(p) \in Nat,
           \A p, q \in ps : M!Last(p) = M!Last(q) => p = q
    PROVE  /\ Cardinality(ps) \in Nat
           /\ \A i \in 1..Cardinality(ps) : \E p \in ps : Cardinality(Smaller(ps, p)) = i - 1
           /\ \A p \in ps : Cardinality(Smaller(ps, p)) + 1 \in 1..Cardinality(ps)
           /\ \A p, q \in ps : Cardinality(Smaller(ps, p)) = Cardinality(Smaller(ps, q)) => p = q
<1> DEFINE n == Cardinality(ps)
           rank == [p \in ps |-> Cardinality(Smaller(ps, p))]
<1>1. n \in Nat
    BY FS_CardinalityType
<1>2. ASSUME NEW p \in ps
      PROVE  /\ IsFiniteSet(Smaller(ps, p)) /\ Cardinality(Smaller(ps, p)) \in Nat
             /\ Cardinality(Smaller(ps, p)) < n
    <2>1. Smaller(ps, p) \in SUBSET ps /\ p \notin Smaller(ps, p)
        BY DEF Smaller
    <2>2. /\ IsFiniteSet(Smaller(ps, p)) /\ Cardinality(Smaller(ps, p)) <= n
          /\ Cardinality(Smaller(ps, p)) # n
        BY <2>1, FS_Subset
    <2> QED
        BY <1>1, <2>2, FS_CardinalityType
<1>3. ASSUME NEW p \in ps, NEW q \in ps, M!Last(p) < M!Last(q)
      PROVE  Cardinality(Smaller(ps, p)) < Cardinality(Smaller(ps, q))
    <2>1. Smaller(ps, p) \in SUBSET Smaller(ps, q)
        BY <1>3 DEF Smaller
    <2>2. p \in Smaller(ps, q) /\ p \notin Smaller(ps, p)
        BY <1>3 DEF Smaller
    <2>3. /\ Cardinality(Smaller(ps, p)) <= Cardinality(Smaller(ps, q))
          /\ Cardinality(Smaller(ps, p)) # Cardinality(Smaller(ps, q))
        BY <1>2, <2>1, <2>2, FS_Subset
    <2> QED
        BY <1>2, <2>3
<1>4. ASSUME NEW p \in ps, NEW q \in ps, Cardinality(Smaller(ps, p)) = Cardinality(Smaller(ps, q))
      PROVE  p = q
    <2>1. ~(M!Last(p) < M!Last(q)) /\ ~(M!Last(q) < M!Last(p))
        BY <1>2, <1>3, <1>4
    <2> QED
        BY <2>1
<1>5. \A p \in ps : rank[p] = Cardinality(Smaller(ps, p)) /\ rank[p] \in 0..(n - 1)
    BY <1>1, <1>2
<1>6. rank \in [ps -> 0..(n - 1)]
    BY <1>5
<1> HIDE DEF rank
<1>7. rank \in Injection(ps, 0..(n - 1))
    BY <1>4, <1>5, <1>6 DEF Injection, IsInjective
<1>8. IsFiniteSet(0..(n - 1)) /\ Cardinality(0..(n - 1)) = n
    BY <1>1, FS_Interval
<1>9. rank \in Surjection(ps, 0..(n - 1))
    BY <1>7, <1>8, FS_Injection
<1>10. ASSUME NEW i \in 1..n PROVE \E p \in ps : Cardinality(Smaller(ps, p)) = i - 1
    <2>1. i - 1 \in 0..(n - 1)
        BY <1>1
    <2> QED
        BY <1>5, <1>9, <2>1 DEF Surjection
<1> QED
    BY <1>1, <1>2, <1>4, <1>10

LEMMA FunctionIsSequence ==
    ASSUME NEW S, NEW n \in Nat, NEW f \in [1..n -> S]
    PROVE  f \in Seq(S) /\ Len(f) = n
OBVIOUS

\* A list of what is in a directory.
Lists(list, t, d) ==
    /\ list \in Seq(Items(DOMAIN t))
    /\ \A i \in 1..Len(list) : list[i].dir = (t[list[i].path].type = "directory")
    /\ \A p \in DOMAIN t : Len(p) = Len(d) + 1 /\ M!IsPrefix(d, p) =>
          \E i \in 1..Len(list) : list[i].path = p

LEMMA Listing ==
    ASSUME NEW t, IsFiniteSet(DOMAIN t), DOMAIN t \subseteq Seq(Nat), NEW d \in Seq(Nat)
    PROVE  Lists(M!ReadDir(t, d), t, d)
<1> DEFINE ps == {p \in DOMAIN t : Len(p) = Len(d) + 1 /\ M!IsPrefix(d, p)}
           n == Cardinality(ps)
           sorted(i) == CHOOSE p \in ps : Cardinality(Smaller(ps, p)) = i - 1
           list == [i \in 1..n |-> [path |-> sorted(i), dir |-> t[sorted(i)].type = "directory"]]
<1>1. IsFiniteSet(ps)
    BY FS_Subset
<1>2. \A p \in ps : M!Last(p) \in Nat
    BY DEF M!Last
<1>3. \A p, q \in ps : M!Last(p) = M!Last(q) => p = q
    BY Siblings DEF M!Last
<1>4. /\ n \in Nat
      /\ \A i \in 1..n : \E p \in ps : Cardinality(Smaller(ps, p)) = i - 1
      /\ \A p \in ps : Cardinality(Smaller(ps, p)) + 1 \in 1..n
      /\ \A p, q \in ps : Cardinality(Smaller(ps, p)) = Cardinality(Smaller(ps, q)) => p = q
    <2> HIDE DEF ps
    <2> QED
        BY <1>1, <1>2, <1>3, Ranks
<1>5. M!ReadDir(t, d) = list
    BY FiniteFacts DEF M!ReadDir, Smaller
<1>6. \A i \in 1..n : sorted(i) \in ps /\ Cardinality(Smaller(ps, sorted(i))) = i - 1
    <2> HIDE DEF ps
    <2> QED
        BY <1>4
<1>7. \A i \in 1..n : sorted(i) \in DOMAIN t
    BY <1>6
<1>8. ASSUME NEW p \in ps PROVE \E i \in 1..n : sorted(i) = p
    <2> DEFINE i == Cardinality(Smaller(ps, p)) + 1
    <2>1. i \in 1..n /\ i - 1 = Cardinality(Smaller(ps, p))
        <3>1. i \in 1..n
            BY <1>4
        <3>2. Cardinality(Smaller(ps, p)) \in Nat
            BY <1>1, FS_Subset, FS_CardinalityType DEF Smaller
        <3> QED
            BY <3>1, <3>2
    <2>2. sorted(i) \in ps /\ Cardinality(Smaller(ps, sorted(i))) = i - 1
        BY <1>6, <2>1
    <2>3. sorted(i) = p
        <3> HIDE DEF i, sorted, ps
        <3> QED
            BY <1>4, <2>1, <2>2
    <2> QED
        BY <2>1, <2>3
<1> HIDE DEF sorted, ps
<1>9. list \in Seq(Items(DOMAIN t)) /\ Len(list) = n
    <2>1. \A i \in 1..n : list[i] \in Items(DOMAIN t)
        BY <1>7 DEF Items
    <2>2. list \in [1..n -> Items(DOMAIN t)]
        BY <2>1
    <2> HIDE DEF list, n
    <2> QED
        BY <1>4, <2>2, FunctionIsSequence
<1>10. \A i \in 1..n : list[i].path = sorted(i) /\ list[i].dir = (t[sorted(i)].type = "directory")
    OBVIOUS
<1>11. ASSUME NEW p \in DOMAIN t, Len(p) = Len(d) + 1, M!IsPrefix(d, p)
       PROVE  \E i \in 1..n : list[i].path = p
    <2>1. p \in ps
        BY <1>11 DEF ps
    <2> QED
        BY <1>8, <1>10, <2>1
<1> HIDE DEF list
<1> QED
    BY <1>5, <1>9, <1>10, <1>11 DEF Lists

LEMMA ListingType ==
    ASSUME NEW t, M!IsTree(t), NEW d \in Seq(Nat)
    PROVE  M!ReadDir(t, d) \in Seq(Items(TreePaths))
<1>1. DOMAIN t \subseteq TreePaths /\ TreePaths \subseteq Seq(Nat) /\ IsFiniteSet(DOMAIN t)
    BY TreeAssumption, FiniteFacts, FS_Subset DEF M!IsTree, M!ConstantsAssumption
<1>2. DOMAIN t \subseteq Seq(Nat)
    BY <1>1
<1>3. M!ReadDir(t, d) \in Seq(Items(DOMAIN t))
    BY <1>1, <1>2, Listing DEF Lists
<1>4. Items(DOMAIN t) \subseteq Items(TreePaths)
    BY <1>1 DEF Items
<1> QED
    BY <1>3, <1>4, SeqMonotonic

\* What is somewhere below a directory is below something on the directory's list.
LEMMA ListingCovers ==
    ASSUME NEW t, M!IsTree(t), NEW p \in DOMAIN t, NEW k \in 0..(Len(p) - 1)
    PROVE  \E i \in DOMAIN M!ReadDir(t, Up(p, k)) : OnTheWay(M!ReadDir(t, Up(p, k))[i], p, FALSE)
<1> DEFINE d == Up(p, k)
           q == Up(p, k + 1)
           list == M!ReadDir(t, d)
<1>1. DOMAIN t \subseteq TreePaths /\ TreePaths \subseteq Seq(Nat) /\ IsFiniteSet(DOMAIN t)
    BY TreeAssumption, FiniteFacts, FS_Subset DEF M!IsTree, M!ConstantsAssumption
<1>2. DOMAIN t \subseteq Seq(Nat) /\ p \in Seq(Nat)
    BY <1>1
<1>3. k \in 0..Len(p) /\ k + 1 \in 1..Len(p) /\ k + 1 \in 0..Len(p) /\ k \in 0..(k + 1) /\ k \in Nat
    BY <1>2
<1>4. d \in Seq(Nat) /\ q \in Seq(Nat) /\ Len(q) = Len(d) + 1 /\ M!IsPrefix(d, q)
    <2>1. d \in Seq(Nat) /\ Len(d) = k
        BY <1>2, <1>3, UpFacts
    <2>2. q \in Seq(Nat) /\ Len(q) = k + 1
        BY <1>2, <1>3, UpFacts
    <2>3. M!IsPrefix(d, q)
        BY <1>2, <1>3, UpUp
    <2> QED
        BY <2>1, <2>2, <2>3
<1>5. q \in DOMAIN t /\ (k + 1 < Len(p) => t[q].type = "directory")
    <2>1. CASE k + 1 = Len(p)
        <3>1. Up(p, Len(p)) = p
            BY <1>2, <1>3, UpUp
        <3> QED
            BY <2>1, <3>1
    <2>2. CASE k + 1 < Len(p)
        <3>1. k + 1 \in 1..(Len(p) - 1)
            BY <1>2, <1>3, <2>2
        <3> QED
            BY <3>1 DEF M!IsTree, Up
    <2> QED
        BY <1>2, <1>3, <2>1, <2>2
<1> HIDE DEF d, q
<1>6. IsFiniteSet(DOMAIN t) /\ DOMAIN t \subseteq Seq(Nat) /\ d \in Seq(Nat)
    BY <1>1, <1>2, <1>4
<1>7. /\ list \in Seq(Items(DOMAIN t))
      /\ \A i \in 1..Len(list) : list[i].dir = (t[list[i].path].type = "directory")
      /\ \A r \in DOMAIN t : Len(r) = Len(d) + 1 /\ M!IsPrefix(d, r) =>
            \E i \in 1..Len(list) : list[i].path = r
    <2>1. Lists(list, t, d)
        BY <1>6, Listing
    <2> HIDE DEF list
    <2> QED
        BY <2>1 DEF Lists
<1> HIDE DEF list
<1>8. PICK i \in 1..Len(list) : list[i].path = q
    BY <1>4, <1>5, <1>7
<1>9. i \in DOMAIN list
    BY <1>7
<1>10. k + 1 < Len(p) => list[i].dir
    BY <1>5, <1>7, <1>8
<1>11. OnTheWay(list[i], p, FALSE)
    BY <1>3, <1>8, <1>10 DEF OnTheWay, q
<1> QED
    BY <1>9, <1>11 DEF list, d

LEMMA ListingStarts ==
    ASSUME NEW t, M!IsTree(t), NEW p \in DOMAIN t
    PROVE  \E i \in DOMAIN M!ReadDir(t, <<>>) : OnTheWay(M!ReadDir(t, <<>>)[i], p, FALSE)
<1>1. p \in Seq(Nat) /\ p # <<>>
    BY TreeAssumption DEF M!IsTree, M!ConstantsAssumption
<1>2. Len(p) \in Nat /\ Len(p) > 0
    BY <1>1, EmptySeq
<1>3. 0 \in 0..Len(p) /\ 0 \in 0..(Len(p) - 1) /\ 0 \in 0..0
    BY <1>2
<1>4. Up(p, 0) = <<>>
    BY <1>1, <1>3, UpUp
<1> QED
    BY <1>3, <1>4, ListingCovers

LEMMA HeadFacts ==
    ASSUME NEW S, NEW s \in Seq(S), s # <<>>
    PROVE  /\ Head(s) = s[1] /\ 1 \in DOMAIN s /\ s[1] \in S /\ Tail(s) \in Seq(S)
           /\ \A i \in DOMAIN s : i # 1 => i - 1 \in DOMAIN Tail(s) /\ Tail(s)[i - 1] = s[i]
<1>1. Len(s) \in Nat /\ Len(s) > 0 /\ DOMAIN s = 1..Len(s)
    BY EmptySeq, LenProperties
<1>2. /\ Head(s) \in S /\ Tail(s) \in Seq(S) /\ Len(Tail(s)) = Len(s) - 1
      /\ \A i \in 1..Len(Tail(s)) : Tail(s)[i] = s[i + 1]
    BY HeadTailProperties
<1>3. Head(s) = s[1] /\ 1 \in DOMAIN s /\ s[1] \in S
    BY <1>1
<1>4. ASSUME NEW i \in DOMAIN s, i # 1
      PROVE  i - 1 \in DOMAIN Tail(s) /\ Tail(s)[i - 1] = s[i]
    <2>1. i - 1 \in 1..Len(Tail(s)) /\ (i - 1) + 1 = i
        BY <1>1, <1>2, <1>4
    <2>2. DOMAIN Tail(s) = 1..Len(Tail(s))
        BY <1>2, LenProperties
    <2> QED
        BY <1>2, <2>1, <2>2
<1> QED
    BY <1>2, <1>3, <1>4

LEMMA JoinFacts ==
    ASSUME NEW S, NEW s \in Seq(S), NEW t \in Seq(S)
    PROVE  /\ s \o t \in Seq(S)
           /\ \A i \in DOMAIN s : i \in DOMAIN (s \o t) /\ (s \o t)[i] = s[i]
           /\ \A i \in DOMAIN t : Len(s) + i \in DOMAIN (s \o t) /\ (s \o t)[Len(s) + i] = t[i]
<1>1. /\ s \o t \in Seq(S) /\ Len(s \o t) = Len(s) + Len(t)
      /\ \A i \in 1..(Len(s) + Len(t)) :
            (s \o t)[i] = IF i <= Len(s) THEN s[i] ELSE t[i - Len(s)]
    BY ConcatProperties
<1>2. /\ DOMAIN s = 1..Len(s) /\ DOMAIN t = 1..Len(t) /\ DOMAIN (s \o t) = 1..(Len(s) + Len(t))
      /\ Len(s) \in Nat /\ Len(t) \in Nat
    BY <1>1, LenProperties
<1>3. \A i \in DOMAIN s : i \in DOMAIN (s \o t) /\ (s \o t)[i] = s[i]
    BY <1>1, <1>2
<1>4. ASSUME NEW i \in DOMAIN t
      PROVE  Len(s) + i \in DOMAIN (s \o t) /\ (s \o t)[Len(s) + i] = t[i]
    <2>1. /\ Len(s) + i \in 1..(Len(s) + Len(t)) /\ ~(Len(s) + i <= Len(s))
          /\ (Len(s) + i) - Len(s) = i
        BY <1>2
    <2> QED
        BY <1>1, <1>2, <2>1
<1> QED
    BY <1>1, <1>3, <1>4

-----------------------------------------------------------------------------
(* Manifest: what other programs do to a tree. *)

LEMMA NodeFields ==
    ASSUME NEW k \in Nat, NEW n,
           n \in [type : M!Types, data : M!Data, mode : M!Modes, ino : Nat, mtime : 0..k]
    PROVE  /\ n = [type |-> n.type, data |-> n.data, mode |-> n.mode, ino |-> n.ino, mtime |-> n.mtime]
           /\ n.type \in M!Types /\ n.data \in M!Data /\ n.mode \in M!Modes
                  /\ n.ino \in Nat /\ n.mtime \in 0..k
OBVIOUS

LEMMA SoundLater ==
    ASSUME NEW t, NEW k \in Nat, Sound(t, k)
    PROVE  Sound(t, k + 1)
<1>1. ASSUME NEW p \in DOMAIN t
      PROVE  t[p] \in [type : M!Types, data : M!Data, mode : M!Modes, ino : Nat, mtime : 0..(k + 1)]
    <2>1. t[p] \in [type : M!Types, data : M!Data, mode : M!Modes, ino : Nat, mtime : 0..k]
        BY DEF Sound
    <2>2. t[p].mtime \in 0..(k + 1)
        BY <2>1
    <2> QED
        BY <2>1, <2>2
<1> QED
    BY <1>1 DEF Sound

\* A change of one tree to another at a time: what has not been changed is of before.
IsEdit(t, u, now) ==
    /\ Sound(u, now)
    /\ \A p \in DOMAIN u : \/ u[p].mtime = now
                           \/ /\ p \in DOMAIN t
                              /\ u[p].mtime = t[p].mtime /\ u[p].data = t[p].data

LEMMA WithoutFacts ==
    ASSUME NEW t, NEW p \in TreePaths, M!IsTree(t)
    PROVE  /\ DOMAIN M!Without(t, p) = {q \in DOMAIN t : ~M!IsPrefix(p, q)}
           /\ \A q \in DOMAIN M!Without(t, p) : M!Without(t, p)[q] = t[q] /\ q # p
           /\ M!IsTree(M!Without(t, p))
<1>1. /\ DOMAIN M!Without(t, p) = {q \in DOMAIN t : ~M!IsPrefix(p, q)}
      /\ \A q \in DOMAIN M!Without(t, p) : M!Without(t, p)[q] = t[q]
    BY DEF M!Without
<1>2. DOMAIN t \subseteq TreePaths /\ TreePaths \subseteq Seq(Nat) \ {<<>>}
    BY TreeAssumption DEF M!IsTree, M!ConstantsAssumption
<1>3. ASSUME NEW q \in DOMAIN M!Without(t, p) PROVE q # p
    BY <1>1, <1>2, PrefixFacts
<1>4. ASSUME NEW q \in DOMAIN M!Without(t, p), NEW i \in 1..(Len(q) - 1)
      PROVE  /\ SubSeq(q, 1, i) \in DOMAIN M!Without(t, p)
             /\ M!Without(t, p)[SubSeq(q, 1, i)].type = "directory"
    <2>1. q \in DOMAIN t /\ ~M!IsPrefix(p, q) /\ q \in Seq(Nat) /\ i \in 0..Len(q)
        BY <1>1, <1>2
    <2>2. SubSeq(q, 1, i) \in DOMAIN t /\ t[SubSeq(q, 1, i)].type = "directory"
        BY <2>1 DEF M!IsTree
    <2>3. ~M!IsPrefix(p, SubSeq(q, 1, i))
        BY <1>2, <2>1, PrefixOrder DEF Up
    <2> QED
        BY <1>1, <2>2, <2>3
<1> QED
    BY <1>1, <1>2, <1>3, <1>4 DEF M!IsTree

LEMMA WithoutIsEdit ==
    ASSUME NEW t, NEW k \in Nat, Sound(t, k), NEW p \in TreePaths
    PROVE  IsEdit(t, M!Without(t, p), k + 1)
<1>1. /\ DOMAIN M!Without(t, p) = {q \in DOMAIN t : ~M!IsPrefix(p, q)}
      /\ \A q \in DOMAIN M!Without(t, p) : M!Without(t, p)[q] = t[q]
      /\ M!IsTree(M!Without(t, p))
    BY WithoutFacts DEF Sound
<1>2. Sound(t, k + 1)
    BY SoundLater
<1>3. Sound(M!Without(t, p), k + 1)
    BY <1>1, <1>2 DEF Sound
<1> QED
    BY <1>1, <1>3 DEF IsEdit

LEMMA PutIsEdit ==
    ASSUME clock \in Nat, NEW t, Sound(t, clock),
           NEW p \in TreePaths,
           Len(p) = 1 \/ \E q \in DOMAIN t : q = M!Parent(p) /\ t[q].type = "directory",
           NEW n \in Nodes
    PROVE  IsEdit(t, M!Put(t, p, n), clock + 1)
<1> DEFINE k == clock
           node == M!Node(n.type, n.data, "read", k + 1)
           u == M!Put(t, p, n)
<1>1. n.type \in M!Types /\ n.data \in M!Data
    BY TreeAssumption DEF M!ConstantsAssumption
<1>2. /\ node \in [type : M!Types, data : M!Data, mode : M!Modes, ino : Nat, mtime : 0..(k + 1)]
      /\ node.mtime = k + 1
    BY <1>1 DEF M!Node, M!Modes
<1>3. /\ DOMAIN M!Without(t, p) = {q \in DOMAIN t : ~M!IsPrefix(p, q)}
      /\ \A q \in DOMAIN M!Without(t, p) : M!Without(t, p)[q] = t[q] /\ q # p
      /\ M!IsTree(M!Without(t, p))
    BY WithoutFacts DEF Sound
<1>4. DOMAIN t \subseteq TreePaths /\ TreePaths \subseteq Seq(Nat) \ {<<>>} /\ M!IsTree(t)
    BY TreeAssumption DEF Sound, M!IsTree, M!ConstantsAssumption
<1> HIDE DEF node
<1>5. /\ DOMAIN u = DOMAIN M!Without(t, p) \cup {p} /\ u[p] = node
      /\ \A q \in DOMAIN M!Without(t, p) : u[q] = t[q]
    BY <1>3 DEF M!Put, M!Now, node
<1> HIDE DEF u, k
<1>6. Sound(t, k + 1)
    BY SoundLater DEF k
<1>7. ASSUME NEW q \in DOMAIN u
      PROVE  u[q] \in [type : M!Types, data : M!Data, mode : M!Modes, ino : Nat, mtime : 0..(k + 1)]
    BY <1>2, <1>3, <1>5, <1>6 DEF Sound
<1>8. ASSUME NEW i \in 1..(Len(p) - 1)
      PROVE  SubSeq(p, 1, i) \in DOMAIN u /\ u[SubSeq(p, 1, i)].type = "directory"
    <2> DEFINE l == Len(p)
    <2>1. p \in Seq(Nat) /\ l # 1 /\ i \in 0..(l - 1) /\ l - 1 \in 0..l
        <3>1. p \in Seq(Nat)
            BY <1>4
        <3>2. l \in Nat /\ i \in 1..(l - 1)
            BY <3>1, LenProperties
        <3> HIDE DEF l
        <3> QED
            BY <3>1, <3>2
    <2> DEFINE d == Up(p, Len(p) - 1)
    <2>2. d \in DOMAIN t /\ t[d].type = "directory"
        BY <2>1 DEF M!Parent, M!Front, Up
    <2>3. d \in Seq(Nat) /\ Len(d) = Len(p) - 1 /\ Up(d, i) = Up(p, i)
        BY <2>1, UpFacts, UpUp
    <2>4. Up(p, i) \in DOMAIN t /\ t[Up(p, i)].type = "directory"
        <3>1. CASE i = Len(p) - 1
            BY <2>2, <3>1
        <3>2. CASE i < Len(p) - 1
            <4> HIDE DEF d
            <4>1. i \in 1..(Len(d) - 1)
                BY <2>3, <3>2
            <4> QED
                BY <1>4, <2>2, <2>3, <4>1 DEF M!IsTree, Up
        <3> QED
            BY <2>1, <3>1, <3>2
    <2>5. ~M!IsPrefix(p, Up(p, i))
        <3>1. Up(p, i) \in Seq(Nat) /\ Len(Up(p, i)) = i
            BY <2>1, UpFacts
        <3>2. ~(Len(p) <= i)
            BY <2>1
        <3> QED
            BY <2>1, <3>1, <3>2, PrefixFacts
    <2> QED
        BY <1>3, <1>5, <2>4, <2>5 DEF Up
<1>9. ASSUME NEW q \in DOMAIN M!Without(t, p), NEW i \in 1..(Len(q) - 1)
      PROVE  SubSeq(q, 1, i) \in DOMAIN u /\ u[SubSeq(q, 1, i)].type = "directory"
    <2>1. /\ SubSeq(q, 1, i) \in DOMAIN M!Without(t, p)
          /\ M!Without(t, p)[SubSeq(q, 1, i)].type = "directory"
        BY <1>3 DEF M!IsTree
    <2> QED
        BY <1>3, <1>5, <2>1
<1>10. M!IsTree(u)
    <2>1. DOMAIN u \subseteq TreePaths
        BY <1>3, <1>4, <1>5
    <2> QED
        BY <1>5, <1>8, <1>9, <2>1 DEF M!IsTree
<1>11. ASSUME NEW q \in DOMAIN u
       PROVE  \/ u[q].mtime = k + 1
              \/ q \in DOMAIN t /\ u[q].mtime = t[q].mtime /\ u[q].data = t[q].data
    BY <1>2, <1>3, <1>5
<1>12. IsEdit(t, u, k + 1)
    BY <1>7, <1>10, <1>11 DEF IsEdit, Sound
<1> QED
    BY <1>12 DEF u, k

LEMMA ChangeIsEdit ==
    ASSUME NEW t, NEW u, NEW v, NEW now \in Nat, IsEdit(t, u, now), DOMAIN v = DOMAIN u,
           \A q \in DOMAIN u :
              /\ v[q] \in [type : M!Types, data : M!Data, mode : M!Modes, ino : Nat, mtime : 0..now]
              /\ v[q].type = u[q].type
              /\ v[q].mtime = now \/ (v[q].mtime = u[q].mtime /\ v[q].data = u[q].data)
    PROVE  IsEdit(t, v, now)
<1>1. M!IsTree(v)
    BY DEF IsEdit, Sound, M!IsTree
<1>2. Sound(v, now)
    BY <1>1 DEF Sound
<1> QED
    BY <1>2 DEF IsEdit

LEMMA WrittenIsEdit ==
    ASSUME clock \in Nat, NEW t, NEW u, IsEdit(t, u, clock + 1), NEW a, NEW d \in M!Data
    PROVE  IsEdit(t, M!Written(u, a, d), clock + 1)
<1> DEFINE now == clock + 1
           v == M!Written(u, a, d)
<1>0. now \in Nat /\ IsEdit(t, u, now)
    OBVIOUS
<1> HIDE DEF now
<1>1. ASSUME NEW q \in DOMAIN u
      PROVE  /\ v[q] \in [type : M!Types, data : M!Data, mode : M!Modes, ino : Nat, mtime : 0..now]
             /\ v[q].type = u[q].type
             /\ v[q].mtime = now \/ (v[q].mtime = u[q].mtime /\ v[q].data = u[q].data)
    <2>1. u[q] \in [type : M!Types, data : M!Data, mode : M!Modes, ino : Nat, mtime : 0..now]
        BY <1>0 DEF IsEdit, Sound
    <2>2. CASE q # a
        <3>1. v[q] = u[q]
            BY <2>2 DEF M!Written
        <3> QED
            BY <2>1, <3>1
    <2>3. CASE q = a
        <3>1. v[q] = [u[q] EXCEPT !.data = d, !.mtime = now]
            BY <2>3 DEF M!Written, M!Now, now
        <3>2. v[q] = [type |-> u[q].type, data |-> d, mode |-> u[q].mode, ino |-> u[q].ino,
                      mtime |-> now]
            BY <2>1, <3>1
        <3> QED
            BY <1>0, <2>1, <3>2
    <2> QED
        BY <2>2, <2>3
<1>2. DOMAIN v = DOMAIN u
    BY DEF M!Written
<1> HIDE DEF v
<1>3. IsEdit(t, v, now)
    BY <1>0, <1>1, <1>2, ChangeIsEdit
<1> QED
    BY <1>3 DEF v, now

LEMMA ModeIsEdit ==
    ASSUME NEW t, NEW k \in Nat, Sound(t, k), NEW a, NEW mode \in M!Modes
    PROVE  IsEdit(t, [t EXCEPT ![a].mode = mode], k + 1)
<1> DEFINE v == [t EXCEPT ![a].mode = mode]
<1>1. IsEdit(t, t, k + 1)
    BY SoundLater DEF IsEdit
<1>2. ASSUME NEW q \in DOMAIN t
      PROVE  /\ v[q] \in [type : M!Types, data : M!Data, mode : M!Modes, ino : Nat, mtime : 0..(k + 1)]
             /\ v[q].type = t[q].type
             /\ v[q].mtime = t[q].mtime /\ v[q].data = t[q].data
    <2>1. t[q] \in [type : M!Types, data : M!Data, mode : M!Modes, ino : Nat, mtime : 0..(k + 1)]
        BY <1>1 DEF IsEdit, Sound
    <2>2. CASE q # a
        <3>1. v[q] = t[q]
            BY <2>2
        <3> QED
            BY <2>1, <3>1
    <2>3. CASE q = a
        <3>1. v[q] = [t[q] EXCEPT !.mode = mode]
            BY <2>3
        <3>2. v[q] = [type |-> t[q].type, data |-> t[q].data, mode |-> mode, ino |-> t[q].ino,
                      mtime |-> t[q].mtime]
            BY <2>1, <3>1
        <3> QED
            BY <2>1, <3>2
    <2> QED
        BY <2>2, <2>3
<1>3. DOMAIN v = DOMAIN t
    OBVIOUS
<1> HIDE DEF v
<1>4. IsEdit(t, v, k + 1)
    BY <1>1, <1>2, <1>3, ChangeIsEdit
<1> QED
    BY <1>4 DEF v

LEMMA EditedIsEdit ==
    ASSUME clock \in Nat, NEW t, Sound(t, clock), NEW u \in M!Edited(t)
    PROVE  IsEdit(t, u, clock + 1)
<1>1. DOMAIN t \subseteq TreePaths
    BY DEF Sound, M!IsTree
<1>2. \A type : M!Contents(type) \subseteq M!Data
    BY TreeAssumption DEF M!Contents, M!ConstantsAssumption
<1>3. ASSUME NEW s, IsEdit(t, s, clock + 1), NEW p, NEW v \in M!Relisted(s, p)
      PROVE  IsEdit(t, v, clock + 1)
    <2>1. CASE v = s
        BY <1>3, <2>1
    <2>2. CASE \E d \in M!Contents("directory") : v = M!Written(s, M!Parent(p), d)
        <3>1. PICK d \in M!Data : v = M!Written(s, M!Parent(p), d)
            BY <1>2, <2>2
        <3>2. IsEdit(t, M!Written(s, M!Parent(p), d), clock + 1)
            BY <1>3, WrittenIsEdit
        <3> QED
            BY <3>1, <3>2
    <2> QED
        BY <1>3, <2>1, <2>2 DEF M!Relisted
<1>4. CASE \E p \in DOMAIN t : u \in M!Relisted(M!Without(t, p), p)
    BY <1>1, <1>3, <1>4, WithoutIsEdit
<1>5. CASE \E p \in TreePaths, n \in Nodes :
              /\ Len(p) = 1 \/ \E q \in DOMAIN t : q = M!Parent(p) /\ t[q].type = "directory"
              /\ u \in M!Relisted(M!Put(t, p, n), p)
    BY <1>3, <1>5, PutIsEdit
<1>6. CASE \E p \in DOMAIN t, d \in M!Contents("file") : u = M!Written(t, p, d)
    <2>1. IsEdit(t, t, clock + 1)
        BY SoundLater DEF IsEdit
    <2>2. PICK p \in DOMAIN t, d \in M!Data : u = M!Written(t, p, d)
        BY <1>2, <1>6
    <2>3. IsEdit(t, M!Written(t, p, d), clock + 1)
        BY <2>1, WrittenIsEdit
    <2> QED
        BY <2>2, <2>3
<1>7. CASE \E p \in DOMAIN t, mode \in M!Modes : u = [t EXCEPT ![p].mode = mode]
    <2>1. PICK p \in DOMAIN t, mode \in M!Modes : u = [t EXCEPT ![p].mode = mode]
        BY <1>7
    <2>2. IsEdit(t, [t EXCEPT ![p].mode = mode], clock + 1)
        BY ModeIsEdit
    <2> QED
        BY <2>1, <2>2
<1>8. \/ \E p \in DOMAIN t : u \in M!Relisted(M!Without(t, p), p)
      \/ \E p \in TreePaths, n \in Nodes :
              /\ Len(p) = 1 \/ \E q \in DOMAIN t : q = M!Parent(p) /\ t[q].type = "directory"
              /\ u \in M!Relisted(M!Put(t, p, n), p)
      \/ \E p \in DOMAIN t, d \in M!Contents("file") : u = M!Written(t, p, d)
      \/ \E p \in DOMAIN t, mode \in M!Modes : u = [t EXCEPT ![p].mode = mode]
    <2> DEFINE within == {p \in TreePaths :
            Len(p) = 1 \/ \E q \in DOMAIN t : q = M!Parent(p) /\ t[q].type = "directory"}
               plain == {p \in DOMAIN t : t[p].type = "file"}
               removed == UNION {M!Relisted(M!Without(t, p), p) : p \in DOMAIN t}
               put == UNION {M!Relisted(M!Put(t, p, n), p) :
                                p \in within, n \in Nodes}
               rewritten == {M!Written(t, p, d) : p \in plain, d \in M!Contents("file")}
               moded == {[t EXCEPT ![p].mode = mode] : p \in DOMAIN t, mode \in M!Modes}
    <2>1. u \in removed \cup put \cup rewritten \cup moded
        BY DEF M!Edited
    <2>2. u \in removed => \E p \in DOMAIN t : u \in M!Relisted(M!Without(t, p), p)
        OBVIOUS
    <2>3. u \in put => \E p \in within, n \in Nodes :
                          u \in M!Relisted(M!Put(t, p, n), p)
        OBVIOUS
    <2>4. u \in rewritten =>
              \E p \in DOMAIN t, d \in M!Contents("file") : u = M!Written(t, p, d)
        OBVIOUS
    <2>5. u \in moded => \E p \in DOMAIN t, mode \in M!Modes : u = [t EXCEPT ![p].mode = mode]
        OBVIOUS
    <2> HIDE DEF removed, put, rewritten, moded
    <2> QED
        BY <2>1, <2>2, <2>3, <2>4, <2>5
<1> QED
    BY <1>4, <1>5, <1>6, <1>7, <1>8

-----------------------------------------------------------------------------
(* Manifest: the invariant. *)

LEMMA UnderSound ==
    ASSUME DiskInv, NEW root
    PROVE  Sound(M!Under(root), clock)
<1>1. CASE root \in Trees
    BY <1>1 DEF DiskInv, M!Under
<1>2. CASE root \notin Trees
    <2>1. M!Under(root) = M!Nothing /\ DOMAIN M!Nothing = {}
        BY <1>2 DEF M!Under, M!Nothing
    <2> QED
        BY <2>1 DEF Sound, M!IsTree
<1> QED
    BY <1>1, <1>2

LEMMA ManifestInit ==
    M!Init => ManifestInv
<1> SUFFICES ASSUME M!Init PROVE ManifestInv
    OBVIOUS
<1>1. trees \in [Trees -> TreeStarts] /\ clock = 0 /\ manifests = [o \in Outputs |-> M!NoManifest]
    BY DEF M!Init, M!InitWith
<1>2. ASSUME NEW t \in TreeStarts PROVE Sound(t, 0)
    <2>1. \A p \in DOMAIN t :
             t[p] \in [type : M!Types, data : M!Data, mode : M!Modes, ino : Nat, mtime : {0}]
        BY TreeAssumption DEF M!ConstantsAssumption
    <2>2. \A p \in DOMAIN t :
             t[p] \in [type : M!Types, data : M!Data, mode : M!Modes, ino : Nat, mtime : 0..0]
        BY <2>1
    <2>3. M!IsTree(t)
        BY TreeAssumption DEF M!ConstantsAssumption
    <2> QED
        BY <2>2, <2>3 DEF Sound
<1>3. \A o \in Outputs : Good(manifests[o]) /\ ExactWhenRead(manifests[o])
    BY <1>1 DEF Good, ExactWhenRead, M!NoManifest
<1>4. DiskInv
    BY <1>1, <1>2, <1>3 DEF DiskInv
<1>5. M!ChangesAreExact
    BY DEF M!Init, M!InitWith, M!ChangesAreExact
<1> QED
    BY <1>4, <1>5 DEF M!Init, M!InitWith, ManifestInv, RootsInv, WalkSteps

LEMMA DiskFrame ==
    ASSUME DiskInv, UNCHANGED M!Disk
    PROVE  DiskInv'
BY DEF DiskInv, M!Disk

LEMMA ChangesFrame ==
    ASSUME M!ChangesAreExact, UNCHANGED changes
    PROVE  M!ChangesAreExact'
BY DEF M!ChangesAreExact

LEMMA ManifestFails ==
    ASSUME ManifestInv, M!Fail
    PROVE  ManifestInv'
<1>1. DiskInv'
    BY DiskFrame DEF ManifestInv, M!Fail
<1>2. M!ChangesAreExact'
    BY ChangesFrame DEF ManifestInv, M!Fail
<1> QED
    BY <1>1, <1>2 DEF ManifestInv, M!Fail, M!Ended, RootsInv, WalkSteps

\* A walk begins with the whole of the tree before it.
LEMMA WalkBegins ==
    ASSUME DiskInv, UNCHANGED <<trees, clock>>,
           NEW rs, rs # <<>>, NEW ms, M!Walk(rs, ms)
    PROVE  /\ pc' = "next"
           /\ WalkInv' /\ EntriesInv' /\ VisitInv' /\ CoverInv'
<1> DEFINE T == M!Under(Head(rs))
<1>1. /\ roots' = rs /\ todo' = M!ReadDir(T, <<>>) /\ visit' = M!NoVisit /\ entries' = {}
      /\ during' = {T} /\ pc' = "next"
    BY DEF M!Walk
<1>2. M!Tree' = T
    BY <1>1 DEF M!Tree, M!Root, M!Under
<1>3. Sound(T, clock) /\ M!IsTree(T)
    BY UnderSound DEF Sound
<1>4. todo' \in Seq(Items(TreePaths))
    BY <1>1, <1>3, ListingType, EmptySeq
<1>5. \A p \in DOMAIN T : \E i \in DOMAIN todo' : OnTheWay(todo'[i], p, FALSE)
    BY <1>1, <1>3, ListingStarts
<1> HIDE DEF T
<1>7. WalkInv'
    BY <1>1, <1>2, <1>3, <1>4, FS_Singleton DEF WalkInv
<1>8. EntriesInv' /\ VisitInv'
    BY <1>1 DEF EntriesInv, VisitInv
<1>9. \A p \in DOMAIN T : Covered(p)'
    BY <1>5 DEF Covered
<1>10. CoverInv'
    BY <1>1, <1>9 DEF CoverInv
<1> QED
    BY <1>1, <1>7, <1>8, <1>10

LEMMA RootsBegin ==
    ASSUME NEW rs, NEW ms, M!Walk(rs, ms),
           \/ rs = <<rs[1]>> /\ ms = <<>> /\ command'.op = "create"
           \/ /\ rs = <<rs[1]>> /\ ms = <<ms[1]>> /\ Good(ms[1])
              /\ \/ command'.op = "compare" /\ Exact(ms[1])
                 \/ command'.op = "verify" /\ ms[1].there /\ ExactWhenRead(ms[1])
           \/ rs = <<rs[1], rs[2]>> /\ ms = <<>> /\ command'.op = "compare"
    PROVE  RootsInv'
<1>1. pc' = "next" /\ roots' = rs /\ built' = ms
    BY DEF M!Walk
<1>2. rs # <<>>
    OBVIOUS
<1>3. ASSUME rs = <<rs[1]>> PROVE Head(rs) = rs[1] /\ Tail(rs) = <<>>
    <2>1. PICK a : rs = <<a>>
        BY <1>3
    <2> QED
        BY <2>1
<1>4. CASE rs = <<rs[1]>> /\ ms = <<>> /\ command'.op = "create"
    BY <1>1, <1>2, <1>3, <1>4 DEF RootsInv, M!Root
<1>5. CASE /\ rs = <<rs[1]>> /\ ms = <<ms[1]>> /\ Good(ms[1])
           /\ \/ command'.op = "compare" /\ Exact(ms[1])
              \/ command'.op = "verify" /\ ms[1].there /\ ExactWhenRead(ms[1])
    BY <1>1, <1>2, <1>3, <1>5 DEF RootsInv, M!Root
<1>6. CASE rs = <<rs[1], rs[2]>> /\ ms = <<>> /\ command'.op = "compare"
    <2>1. Head(rs) = rs[1] /\ Tail(rs) # <<>>
        <3>1. PICK a, b : rs = <<a, b>>
            BY <1>6
        <3> QED
            BY <3>1
    <2> QED
        BY <1>1, <1>2, <1>6, <2>1 DEF RootsInv, M!Root
<1> QED
    BY <1>4, <1>5, <1>6

LEMMA WalkBeginsInv ==
    ASSUME ManifestInv, NEW c, NEW rs, NEW ms, M!Begin(c, rs, ms),
           \/ rs = <<rs[1]>> /\ ms = <<>> /\ c.op = "create"
           \/ /\ rs = <<rs[1]>> /\ ms = <<ms[1]>> /\ Good(ms[1])
              /\ c.op = "verify" /\ ms[1].there /\ ExactWhenRead(ms[1])
           \/ rs = <<rs[1], rs[2]>> /\ ms = <<>> /\ c.op = "compare"
    PROVE  ManifestInv'
<1>1. UNCHANGED M!Disk /\ M!Walk(rs, ms) /\ DiskInv /\ command' = c
    BY DEF M!Begin, ManifestInv
<1>2. rs # <<>>
    OBVIOUS
<1>3. pc' = "next" /\ WalkInv' /\ EntriesInv' /\ VisitInv' /\ CoverInv'
    BY <1>1, <1>2, WalkBegins DEF M!Disk
<1>4. DiskInv' /\ M!ChangesAreExact'
    BY <1>1, DiskFrame, ChangesFrame DEF M!Begin, ManifestInv
<1>5. RootsInv'
    BY <1>1, RootsBegin
<1> QED
    BY <1>3, <1>4, <1>5 DEF ManifestInv, WalkSteps

LEMMA CommandsInv ==
    ASSUME ManifestInv
    PROVE  /\ \A t \in Trees, o \in Outputs :
                  M!ManifestCreate(t, o) \/ M!ManifestVerify(t, o) => ManifestInv'
           /\ \A l, r \in Trees \cup Outputs : M!Compare(l, r) => ManifestInv'
<1>1. ASSUME NEW t \in Trees, NEW o \in Outputs, M!ManifestCreate(t, o) PROVE ManifestInv'
    <2> DEFINE c == [op |-> "create", left |-> t, right |-> o]
               rs == <<t>>
               ms == <<>>
    <2>1. M!Begin(c, rs, ms) /\ rs = <<rs[1]>> /\ ms = <<>> /\ c.op = "create"
        BY <1>1 DEF M!ManifestCreate
    <2> HIDE DEF c, rs, ms
    <2> QED
        BY <2>1, WalkBeginsInv
<1>2. ASSUME NEW t \in Trees, NEW o \in Outputs, M!ManifestVerify(t, o) PROVE ManifestInv'
    <2> DEFINE c == [op |-> "verify", left |-> o, right |-> t]
               rs == <<t>>
               ms == <<manifests[o]>>
    <2>1. Good(manifests[o]) /\ ExactWhenRead(manifests[o])
        BY DEF ManifestInv, DiskInv
    <2>2. /\ M!Begin(c, rs, ms) /\ rs = <<rs[1]>> /\ ms = <<ms[1]>> /\ c.op = "verify"
          /\ ms[1] = manifests[o] /\ ms[1].there
        BY <1>2 DEF M!ManifestVerify, M!Loads
    <2> HIDE DEF c, rs, ms
    <2> QED
        BY <2>1, <2>2, WalkBeginsInv
<1>3. ASSUME NEW l \in Trees \cup Outputs, NEW r \in Trees \cup Outputs, M!Compare(l, r)
                 PROVE ManifestInv'
    <2> DEFINE c == [op |-> "compare", left |-> l, right |-> r]
               rs == <<l, r>>
               ms == <<>>
    <2>1. M!Begin(c, rs, ms) /\ rs = <<rs[1], rs[2]>> /\ ms = <<>> /\ c.op = "compare"
        BY <1>3 DEF M!Compare
    <2> HIDE DEF c, rs, ms
    <2> QED
        BY <2>1, WalkBeginsInv
<1> QED
    BY <1>1, <1>2, <1>3

LEMMA Continues ==
    ASSUME ManifestInv, pc # "idle", NEW to \in WalkSteps \ {"idle"}, M!Continue(to)
    PROVE  /\ DiskInv' /\ RootsInv' /\ pc' = to /\ pc' \in WalkSteps /\ pc' # "idle"
           /\ M!Tree' = M!Tree /\ M!Tree' \in during' /\ during' = during /\ IsFiniteSet(during')
           /\ \A t \in during' : Sound(t, clock)'
           /\ M!ChangesAreExact'
<1>1. DiskInv' /\ M!ChangesAreExact'
    BY DiskFrame, ChangesFrame DEF ManifestInv, M!Continue
<1>2. pc' = to /\ UNCHANGED <<trees, clock, command, roots, built, during>>
    BY DEF M!Continue, M!Disk
<1>3. RootsInv'
    BY <1>2 DEF ManifestInv, RootsInv, M!Root
<1>4. M!Tree' = M!Tree
    BY <1>2 DEF M!Tree, M!Root, M!Under
<1>5. M!Tree \in during /\ IsFiniteSet(during) /\ \A t \in during : Sound(t, clock)
    BY DEF ManifestInv, WalkInv
<1>6. \A t \in during' : Sound(t, clock)'
    BY <1>2, <1>5
<1> QED
    BY <1>1, <1>2, <1>3, <1>4, <1>5, <1>6

LEMMA LstatInv ==
    ASSUME ManifestInv, M!Lstat
    PROVE  ManifestInv'
<1> DEFINE t == Head(todo)
           node == M!Tree[t.path]
           to == CASE node.type = "file" -> "open"
                   [] node.type = "symlink" -> "readlink"
                   [] node.type = "directory" -> "directory"
<1>1. CASE M!Fail
    BY <1>1, ManifestFails
<1>2. CASE /\ t.path \in DOMAIN M!Tree /\ node.type \in M!Types
           /\ visit' = [path |-> t.path, dir |-> t.dir, before |-> node]
           /\ todo' = Tail(todo)
           /\ UNCHANGED entries
           /\ M!Continue(to)
    <2>1. pc = "next" /\ todo # <<>> /\ WalkInv /\ EntriesInv /\ CoverInv
        BY DEF M!Lstat, ManifestInv
    <2>2. /\ t = todo[1] /\ 1 \in DOMAIN todo /\ t.path \in TreePaths /\ t.dir \in BOOLEAN
          /\ todo' \in Seq(Items(TreePaths))
          /\ \A i \in DOMAIN todo : i # 1 => i - 1 \in DOMAIN todo' /\ todo'[i - 1] = todo[i]
        <3>1. todo \in Seq(Items(TreePaths)) /\ todo # <<>>
            BY <2>1 DEF WalkInv
        <3>2. /\ t = todo[1] /\ 1 \in DOMAIN todo /\ t \in Items(TreePaths)
              /\ Tail(todo) \in Seq(Items(TreePaths))
              /\ \A i \in DOMAIN todo :
                    i # 1 => i - 1 \in DOMAIN Tail(todo) /\ Tail(todo)[i - 1] = todo[i]
            BY <3>1, HeadFacts
        <3>3. t.path \in TreePaths /\ t.dir \in BOOLEAN
            BY <3>2 DEF Items
        <3> QED
            BY <1>2, <3>2, <3>3
    <2>3. /\ to \in {"open", "readlink", "directory"}
          /\ to = "open" => node.type = "file"
          /\ to = "readlink" => node.type = "symlink"
          /\ to = "directory" => node.type = "directory"
        BY <1>2 DEF M!Types
    <2> HIDE DEF to
    <2>4. /\ DiskInv' /\ RootsInv' /\ pc' = to /\ pc' \in WalkSteps /\ pc' # "idle"
          /\ M!Tree' = M!Tree /\ M!Tree' \in during' /\ during' = during /\ IsFiniteSet(during')
          /\ M!ChangesAreExact' /\ \A s \in during' : Sound(s, clock)'
        BY <1>2, <2>1, <2>3, Continues DEF WalkSteps
    <2>5. WalkInv'
        BY <2>2, <2>4 DEF WalkInv
    <2>6. EntriesInv'
        BY <1>2, <2>1, <2>4 DEF EntriesInv
    <2>7. visit'.path = t.path /\ visit'.dir = t.dir /\ visit'.before = node
        BY <1>2
    <2>8. VisitInv'
        BY <1>2, <2>2, <2>3, <2>4, <2>7 DEF VisitInv, SameTime
    <2>9. ASSUME NEW p \in TreePaths, Covered(p) PROVE Covered(p)'
        <3>1. CASE \E e \in entries : e.path = p
            BY <1>2, <3>1 DEF Covered
        <3>2. ASSUME NEW i \in DOMAIN todo, OnTheWay(todo[i], p, FALSE) PROVE Covered(p)'
            <4>1. CASE i = 1
                <5>1. OnTheWay(visit', p, FALSE)
                    BY <2>2, <2>7, <3>2, <4>1 DEF OnTheWay
                <5>2. (pc' = "descend") = FALSE /\ pc' # "next"
                    BY <2>3, <2>4
                <5> QED
                    BY <5>1, <5>2 DEF Covered
            <4>2. CASE i # 1
                BY <2>2, <3>2, <4>2 DEF Covered
            <4> QED
                BY <4>1, <4>2
        <3> QED
            BY <2>1, <2>9, <3>1, <3>2 DEF Covered
    <2>10. CoverInv'
        BY <2>1, <2>4, <2>9 DEF CoverInv
    <2> QED
        BY <2>4, <2>5, <2>6, <2>8, <2>10 DEF ManifestInv
<1> QED
    BY <1>1, <1>2 DEF M!Lstat

\* An entry is made of what was visited.
LEMMA EntryAdded ==
    ASSUME ManifestInv, pc \in {"readlink", "directory", "again"},
           NEW digest, NEW target, M!Add(digest, target), UNCHANGED <<todo, visit>>,
           M!Continue("descend"),
           digest = IF visit.before.type = "file"
                      THEN M!Digest(visit.before.data, visit.before.data) ELSE <<>>,
           visit.before.type = "file" => target = M!NoTarget,
           during = {M!Tree} =>
              target = IF visit.before.type = "symlink" THEN visit.before.data ELSE M!NoTarget
    PROVE  ManifestInv'
<1> DEFINE e == M!Entry(visit.path, visit.before, digest, target)
<1>1. /\ DiskInv' /\ RootsInv' /\ pc' = "descend" /\ pc' \in WalkSteps /\ pc' # "idle"
      /\ M!Tree' = M!Tree /\ M!Tree' \in during' /\ during' = during /\ IsFiniteSet(during')
      /\ M!ChangesAreExact' /\ \A t \in during' : Sound(t, clock)'
    BY Continues DEF WalkSteps
<1>2. WalkInv /\ EntriesInv /\ VisitInv /\ CoverInv
    BY DEF ManifestInv
<1>3. WalkInv'
    BY <1>1, <1>2 DEF WalkInv
<1>4. entries' = entries \cup {e}
    BY DEF M!Add
<1>5. PICK t \in during : visit.path \in DOMAIN t /\ t[visit.path] = visit.before
    BY <1>2 DEF VisitInv
<1>6. /\ e = [path |-> e.path, type |-> e.type, size |-> e.size, mode |-> e.mode,
              digest |-> e.digest, target |-> e.target]
      /\ e.path = visit.path /\ e.type = visit.before.type
    BY DEF M!Entry
<1>7. e.type = "file" => M!Entry(visit.path, t[visit.path],
                               M!Digest(t[visit.path].data, t[visit.path].data), M!NoTarget) = e
    BY <1>5, <1>6
<1>12. during = {M!Tree} =>
           visit.path \in DOMAIN M!Tree /\ e = EntryOf(visit.path, M!Tree[visit.path])
    BY <1>5, <1>6 DEF EntryOf, M!Entry
<1> HIDE DEF e
<1>8. EntriesInv'
    <2>1. \A x \in entries' :
             x = [path |-> x.path, type |-> x.type, size |-> x.size, mode |-> x.mode,
                  digest |-> x.digest, target |-> x.target]
        BY <1>2, <1>4, <1>6 DEF EntriesInv
    <2>2. \A x \in entries' : x.type = "file" =>
             \E s \in during : \E p \in DOMAIN s :
                p = x.path /\ M!Entry(p, s[p], M!Digest(s[p].data, s[p].data), M!NoTarget) = x
        BY <1>2, <1>4, <1>5, <1>6, <1>7 DEF EntriesInv
    <2>3. during = {M!Tree} =>
              \A x \in entries' : x.path \in DOMAIN M!Tree /\ x = EntryOf(x.path, M!Tree[x.path])
        BY <1>2, <1>4, <1>6, <1>12 DEF EntriesInv
    <2> QED
        BY <1>1, <2>1, <2>2, <2>3 DEF EntriesInv
<1>9. VisitInv'
    BY <1>1, <1>2 DEF VisitInv
<1>10. ASSUME NEW p \in TreePaths, Covered(p) PROVE Covered(p)'
    <2>1. CASE \E x \in entries : x.path = p
        BY <1>4, <2>1 DEF Covered
    <2>2. CASE \E i \in DOMAIN todo : OnTheWay(todo[i], p, FALSE)
        BY <2>2 DEF Covered
    <2>3. CASE OnTheWay(visit, p, pc = "descend")
        <3>1. PICK k \in 1..Len(p) : visit.path = Up(p, k) /\ (k < Len(p) => visit.dir)
            BY <2>3 DEF OnTheWay
        <3>2. CASE k < Len(p)
            BY <1>1, <3>1, <3>2 DEF OnTheWay, Covered
        <3>3. CASE k = Len(p)
            <4>1. visit.path = p
                BY TreeAssumption, <3>1, <3>3, UpUp DEF M!ConstantsAssumption
            <4> QED
                BY <1>4, <1>6, <4>1 DEF Covered
        <3> QED
            BY <3>1, <3>2, <3>3
    <2> QED
        BY <1>10, <2>1, <2>2, <2>3 DEF Covered
<1>11. CoverInv'
    BY <1>1, <1>2, <1>10 DEF CoverInv
<1> QED
    BY <1>1, <1>3, <1>8, <1>9, <1>11 DEF ManifestInv

LEMMA AddInv ==
    ASSUME ManifestInv, M!Readlink \/ M!Directory \/ M!LstatAgain
    PROVE  ManifestInv'
<1>1. CASE M!Fail
    BY <1>1, ManifestFails
<1>2. CASE M!Readlink /\ ~M!Fail
    <2>1. /\ pc = "readlink" /\ M!Add(<<>>, M!Tree[visit.path].data) /\ UNCHANGED <<todo, visit>>
          /\ M!Continue("descend")
        BY <1>2 DEF M!Readlink
    <2>2. visit.before.type = "symlink" /\ \E t \in during : t[visit.path] = visit.before
        BY <2>1 DEF ManifestInv, VisitInv
    <2>3. during = {M!Tree} => M!Tree[visit.path].data = visit.before.data
        BY <2>2
    <2> QED
        BY <2>1, <2>2, <2>3, EntryAdded
<1>3. CASE M!Directory
    <2>1. /\ pc = "directory" /\ M!Add(<<>>, M!NoTarget)
          /\ UNCHANGED <<todo, visit>> /\ M!Continue("descend")
        BY <1>3 DEF M!Directory
    <2>2. visit.before.type = "directory"
        BY <2>1 DEF ManifestInv, VisitInv
    <2> QED
        BY <2>1, <2>2, EntryAdded
<1>4. CASE M!LstatAgain /\ ~M!Fail
    <2>1. /\ pc = "again" /\ M!There /\ M!Tree[visit.path].mtime = visit.before.mtime
          /\ M!Add(visit.digest, M!NoTarget) /\ UNCHANGED <<todo, visit>> /\ M!Continue("descend")
        BY <1>4 DEF M!LstatAgain, M!Stable
    <2>2. visit.digest = M!Digest(visit.before.data, visit.before.data)
        BY <2>1 DEF ManifestInv, VisitInv, SameTime
    <2>3. visit.before.type = "file"
        BY <2>1 DEF ManifestInv, VisitInv
    <2> QED
        BY <2>1, <2>2, <2>3, EntryAdded
<1> QED
    BY <1>1, <1>2, <1>3, <1>4

LEMMA OpenFileInv ==
    ASSUME ManifestInv, M!Open
    PROVE  ManifestInv'
<1>1. CASE M!Fail
    BY <1>1, ManifestFails
<1>2. CASE ~M!Fail
    <2>1. /\ pc = "open" /\ visit' = [path |-> visit.path, dir |-> visit.dir, before |-> visit.before,
                                      opened |-> M!Tree[visit.path]]
          /\ UNCHANGED <<todo, entries>> /\ M!Continue("read")
        BY <1>2 DEF M!Open
    <2>2. WalkInv /\ EntriesInv /\ VisitInv /\ CoverInv
        BY <2>1 DEF ManifestInv
    <2>3. /\ DiskInv' /\ RootsInv' /\ pc' = "read" /\ pc' \in WalkSteps /\ pc' # "idle"
          /\ M!Tree' = M!Tree /\ M!Tree' \in during' /\ during' = during /\ IsFiniteSet(during')
          /\ M!ChangesAreExact' /\ \A t \in during' : Sound(t, clock)'
        BY <2>1, Continues DEF WalkSteps
    <2>4. /\ visit'.path = visit.path /\ visit'.dir = visit.dir /\ visit'.before = visit.before
          /\ visit'.opened = M!Tree[visit.path]
        BY <2>1
    <2>5. WalkInv' /\ EntriesInv'
        BY <2>1, <2>2, <2>3 DEF WalkInv, EntriesInv
    <2>6. VisitInv'
        BY <2>1, <2>2, <2>3, <2>4 DEF VisitInv, SameTime, M!There
    <2>7. CoverInv'
        BY <2>1, <2>2, <2>3, <2>4 DEF CoverInv, Covered, OnTheWay
    <2> QED
        BY <2>3, <2>5, <2>6, <2>7 DEF ManifestInv
<1> QED
    BY <1>1, <1>2

LEMMA ReadInv ==
    ASSUME ManifestInv, M!Read
    PROVE  ManifestInv'
<1> DEFINE same == M!There /\ M!Tree[visit.path].ino = visit.opened.ino
           rest == IF same THEN M!Tree[visit.path].data ELSE visit.opened.data
<1>1. /\ pc = "read" /\ visit' = [path |-> visit.path, dir |-> visit.dir, before |-> visit.before,
                                  digest |-> M!Digest(visit.opened.data, rest)]
      /\ UNCHANGED <<todo, entries>> /\ M!Continue("again")
    BY DEF M!Read
<1>2. WalkInv /\ EntriesInv /\ VisitInv /\ CoverInv
    BY <1>1 DEF ManifestInv
<1>3. /\ DiskInv' /\ RootsInv' /\ pc' = "again" /\ pc' \in WalkSteps /\ pc' # "idle"
      /\ M!Tree' = M!Tree /\ M!Tree' \in during' /\ during' = during /\ IsFiniteSet(during')
      /\ M!ChangesAreExact' /\ \A t \in during' : Sound(t, clock)'
    BY <1>1, Continues DEF WalkSteps
<1>4. SameTime => rest = visit.before.data /\ visit.opened.data = visit.before.data
    BY <1>1, <1>2 DEF VisitInv
<1> HIDE DEF rest
<1>5. /\ visit'.path = visit.path /\ visit'.dir = visit.dir /\ visit'.before = visit.before
      /\ visit'.digest = M!Digest(visit.opened.data, rest)
    BY <1>1
<1>6. WalkInv' /\ EntriesInv'
    BY <1>1, <1>2, <1>3 DEF WalkInv, EntriesInv
<1>7. VisitInv'
    BY <1>1, <1>2, <1>3, <1>4, <1>5 DEF VisitInv, SameTime, M!There
<1>8. CoverInv'
    BY <1>1, <1>2, <1>3, <1>5 DEF CoverInv, Covered, OnTheWay
<1> QED
    BY <1>3, <1>6, <1>7, <1>8 DEF ManifestInv

LEMMA DescendInv ==
    ASSUME ManifestInv, M!Descend
    PROVE  ManifestInv'
<1>1. CASE M!Fail
    BY <1>1, ManifestFails
<1>2. CASE ~M!Fail
    <2> DEFINE list == IF visit.dir THEN M!ReadDir(M!Tree, visit.path) ELSE <<>>
    <2>1. /\ pc = "descend" /\ visit' = M!NoVisit /\ UNCHANGED entries /\ M!Continue("next")
          /\ visit.dir => todo' = M!ReadDir(M!Tree, visit.path) \o todo
          /\ ~visit.dir => todo' = todo
        BY <1>2 DEF M!Descend
    <2>2. WalkInv /\ EntriesInv /\ VisitInv /\ CoverInv
        BY <2>1 DEF ManifestInv
    <2>3. /\ DiskInv' /\ RootsInv' /\ pc' = "next" /\ pc' \in WalkSteps /\ pc' # "idle"
          /\ M!Tree' = M!Tree /\ M!Tree' \in during' /\ during' = during /\ IsFiniteSet(during')
          /\ M!ChangesAreExact' /\ \A t \in during' : Sound(t, clock)'
        BY <2>1, Continues DEF WalkSteps
    <2>4. /\ visit.path \in TreePaths /\ visit.path \in Seq(Nat)
          /\ todo \in Seq(Items(TreePaths)) /\ M!IsTree(M!Tree)
        BY TreeAssumption, <2>1, <2>2 DEF VisitInv, WalkInv, Sound, M!ConstantsAssumption
    <2>5. list \in Seq(Items(TreePaths)) /\ todo' = list \o todo
        <3>1. M!ReadDir(M!Tree, visit.path) \in Seq(Items(TreePaths))
            BY <2>4, ListingType
        <3>2. <<>> \in Seq(Items(TreePaths)) /\ <<>> \o todo = todo
            BY <2>4, ConcatEmptySeq, EmptySeq
        <3> QED
            BY <2>1, <3>1, <3>2
    <2>6. /\ todo' \in Seq(Items(TreePaths))
          /\ \A i \in DOMAIN list : i \in DOMAIN todo' /\ todo'[i] = list[i]
          /\ \A i \in DOMAIN todo : Len(list) + i \in DOMAIN todo' /\ todo'[Len(list) + i] = todo[i]
        <3> HIDE DEF list
        <3> QED
            BY <2>4, <2>5, JoinFacts
    <2>7. WalkInv' /\ EntriesInv' /\ VisitInv'
        BY <2>1, <2>2, <2>3, <2>6 DEF WalkInv, EntriesInv, VisitInv
    <2>8. ASSUME NEW p \in DOMAIN M!Tree, p \in TreePaths, Covered(p) PROVE Covered(p)'
        <3>1. CASE \E e \in entries : e.path = p
            BY <2>1, <3>1 DEF Covered
        <3>2. CASE \E i \in DOMAIN todo : OnTheWay(todo[i], p, FALSE)
            <4> HIDE DEF list
            <4> QED
                BY <2>6, <3>2 DEF Covered
        <3>3. CASE OnTheWay(visit, p, TRUE)
            <4>1. PICK k \in 1..Len(p) : visit.path = Up(p, k) /\ visit.dir /\ k < Len(p)
                BY <3>3 DEF OnTheWay
            <4>2. k \in 0..(Len(p) - 1)
                BY TreeAssumption, <4>1, <2>8 DEF M!ConstantsAssumption
            <4>3. \E i \in DOMAIN M!ReadDir(M!Tree, Up(p, k)) :
                      OnTheWay(M!ReadDir(M!Tree, Up(p, k))[i], p, FALSE)
                BY <2>4, <2>8, <4>2, ListingCovers
            <4>4. list = M!ReadDir(M!Tree, Up(p, k))
                BY <4>1
            <4> HIDE DEF list
            <4>5. \E i \in DOMAIN list : OnTheWay(list[i], p, FALSE)
                BY <4>3, <4>4
            <4> QED
                BY <2>6, <4>5 DEF Covered
        <3>4. (pc = "descend") = TRUE
            BY <2>1
        <3> QED
            BY <2>8, <3>1, <3>2, <3>3, <3>4 DEF Covered
    <2>9. CoverInv'
        BY <2>2, <2>3, <2>8 DEF CoverInv
    <2> QED
        BY <2>3, <2>7, <2>9 DEF ManifestInv
<1> QED
    BY <1>1, <1>2

\* A link target that JSON can hold stays what it is, and so does that of a file.
LEMMA TargetFacts ==
    /\ \A d \in M!Data : d.text \notin Unencodable => M!EncodedTarget(d) = d
    /\ M!EncodedTarget(M!NoTarget) = M!NoTarget
<1>1. ASSUME NEW d \in M!Data, d.text \notin Unencodable PROVE M!EncodedTarget(d) = d
    BY <1>1 DEF M!EncodedTarget, M!Text, M!Data
<1>2. M!NoTarget \in M!Data /\ M!NoTarget.text \notin Unencodable
    BY TreeAssumption DEF M!ConstantsAssumption, M!NoTarget, M!Data
<1> QED
    BY <1>1, <1>2

\* The manifest of a walk, as it is compared and as it is published.
LEMMA BuiltGood ==
    ASSUME pc = "next", todo = <<>>, EntriesInv, CoverInv
    PROVE  /\ Good(M!Manifest(entries))
           /\ Good([M!Manifest(entries) EXCEPT !.entries = M!Marshal(@)])
<1> DEFINE mf == M!Manifest(entries)
           published == [mf EXCEPT !.entries = M!Marshal(@)]
<1>1. mf.entries = entries /\ mf.of = during
    BY DEF M!Manifest
<1>2. published.entries = M!Marshal(entries) /\ published.of = during
    BY DEF M!Manifest
<1>3. ASSUME NEW p \in TreePaths, \A t \in during : p \in DOMAIN t
      PROVE  \E e \in entries : e.path = p
    BY <1>3 DEF CoverInv, Covered
<1> DEFINE Published(e) == [e EXCEPT !.path = M!Encoded(@), !.target = M!EncodedTarget(@)]
<1>4. ASSUME NEW e \in entries
      PROVE  /\ Published(e) \in M!Marshal(entries)
             /\ Published(e) =
                   [path |-> M!Encoded(e.path), type |-> e.type, size |-> e.size, mode |-> e.mode,
                    digest |-> e.digest, target |-> M!EncodedTarget(e.target)]
    <2>1. e = [path |-> e.path, type |-> e.type, size |-> e.size, mode |-> e.mode,
               digest |-> e.digest, target |-> e.target]
        BY DEF EntriesInv
    <2>2. ASSUME NEW a, NEW b
          PROVE  [e EXCEPT !.path = a, !.target = b] =
                    [path |-> a, type |-> e.type, size |-> e.size, mode |-> e.mode,
                     digest |-> e.digest, target |-> b]
        <3> DEFINE f == [e EXCEPT !.path = a]
        <3>1. f = [path |-> a, type |-> e.type, size |-> e.size, mode |-> e.mode,
                   digest |-> e.digest, target |-> e.target]
            BY <2>1
        <3>2. [e EXCEPT !.path = a, !.target = b] = [f EXCEPT !.target = b]
            OBVIOUS
        <3> HIDE DEF f
        <3> QED
            BY <3>1, <3>2
    <2> QED
        BY <2>2 DEF M!Marshal
<1>5. ASSUME NEW e \in entries, e.type = "file"
      PROVE  \E t \in during : \E p \in DOMAIN t :
                p = e.path /\ M!Entry(p, t[p], M!Digest(t[p].data, t[p].data), M!NoTarget) = e
    BY <1>5 DEF EntriesInv
<1> HIDE DEF mf, published
<1>6. Good(mf)
    <2>1. M!FilesAreOfOneMoment(mf)
        BY <1>1, <1>5 DEF M!FilesAreOfOneMoment
    <2>2. M!NothingIsMissing(mf)
        BY <1>1, <1>3 DEF M!NothingIsMissing
    <2> QED
        BY <2>1, <2>2 DEF Good
<1>7. Good(published)
    <2>1. ASSUME NEW x \in M!Marshal(entries), x.type = "file"
          PROVE  \E t \in during : \E p \in DOMAIN t :
                    /\ M!Encoded(p) = x.path \/ p = x.path
                    /\ M!Entry(x.path, t[p], M!Digest(t[p].data, t[p].data), M!NoTarget) = x
        <3>1. PICK e \in entries : x = Published(e)
            BY DEF M!Marshal
        <3>2. x = [path |-> M!Encoded(e.path), type |-> e.type, size |-> e.size, mode |-> e.mode,
                   digest |-> e.digest, target |-> M!EncodedTarget(e.target)]
            BY <1>4, <3>1
        <3>3. e.type = "file" /\ x.path = M!Encoded(e.path)
            BY <2>1, <3>2
        <3>4. PICK t \in during : \E p \in DOMAIN t :
                 p = e.path /\ M!Entry(p, t[p], M!Digest(t[p].data, t[p].data), M!NoTarget) = e
            BY <1>5, <3>3
        <3>5. PICK p \in DOMAIN t :
                 p = e.path /\ M!Entry(p, t[p], M!Digest(t[p].data, t[p].data), M!NoTarget) = e
            BY <3>4
        <3>6. /\ e.type = t[p].type /\ e.size = t[p].data.size /\ e.mode = t[p].mode
              /\ e.digest = M!Digest(t[p].data, t[p].data) /\ e.target = M!NoTarget
            BY <3>5 DEF M!Entry
        <3>7. M!Entry(x.path, t[p], M!Digest(t[p].data, t[p].data), M!NoTarget) = x
            BY <3>2, <3>3, <3>6, TargetFacts DEF M!Entry
        <3> QED
            BY <3>3, <3>5, <3>7
    <2>2. M!FilesAreOfOneMoment(published)
        BY <1>2, <2>1 DEF M!FilesAreOfOneMoment
    <2>3. ASSUME NEW p \in TreePaths, \A t \in during : p \in DOMAIN t
          PROVE  \E x \in M!Marshal(entries) : x.path \in {p, M!Encoded(p)}
        <3>1. PICK e \in entries : e.path = p
            BY <1>3, <2>3
        <3>2. Published(e).path = M!Encoded(p)
            BY <1>4, <3>1
        <3> QED
            BY <1>4, <3>2
    <2>4. M!NothingIsMissing(published)
        BY <1>2, <2>3 DEF M!NothingIsMissing
    <2> QED
        BY <2>2, <2>4 DEF Good
<1> QED
    BY <1>6, <1>7 DEF mf, published

\* A manifest of a tree that nobody edited is that tree.
LEMMA BuiltExact ==
    ASSUME pc = "next", todo = <<>>, WalkInv, EntriesInv, CoverInv
    PROVE  /\ Exact(M!Manifest(entries))
           /\ ExactWhenRead([M!Manifest(entries) EXCEPT !.entries = M!Marshal(@)])
<1> DEFINE mf == M!Manifest(entries)
           published == [mf EXCEPT !.entries = M!Marshal(@)]
<1>1. mf.entries = entries /\ mf.of = during
    BY DEF M!Manifest
<1>2. published.entries = M!Marshal(entries) /\ published.of = during
    BY DEF M!Manifest
<1>3. M!Quiet(during) => during = {M!Tree}
    BY FiniteFacts, FS_Singleton DEF M!Quiet, WalkInv
<1>4. DOMAIN M!Tree \subseteq TreePaths /\ TreePaths \subseteq Seq(Nat)
    BY TreeAssumption DEF WalkInv, Sound, M!IsTree, M!ConstantsAssumption
<1>5. ASSUME during = {M!Tree} PROVE entries = EntriesOf(M!Tree)
    <2>1. ASSUME NEW e \in entries PROVE e \in EntriesOf(M!Tree)
        BY <1>5 DEF EntriesInv, EntriesOf
    <2>2. ASSUME NEW p \in DOMAIN M!Tree PROVE EntryOf(p, M!Tree[p]) \in entries
        <3>1. p \in TreePaths /\ \A t \in during : p \in DOMAIN t
            BY <1>4, <1>5
        <3>2. PICK e \in entries : e.path = p
            BY <3>1 DEF CoverInv, Covered
        <3> QED
            BY <1>5, <3>2 DEF EntriesInv
    <2> QED
        BY <2>1, <2>2 DEF EntriesOf
<1>6. ASSUME during = {M!Tree}, M!Encodable(M!Tree) PROVE M!Marshal(entries) = entries
    <2>1. ASSUME NEW e \in entries
          PROVE  [e EXCEPT !.path = M!Encoded(@), !.target = M!EncodedTarget(@)] = e
        <3>0. \A p \in DOMAIN M!Tree :
                 /\ M!ToSet(p) \cap Unencodable = {}
                 /\ M!Tree[p].type = "symlink" => M!Tree[p].data.text \notin Unencodable
            BY <1>6 DEF M!Encodable
        <3>1. e.path \in DOMAIN M!Tree /\ e.path \in Seq(Nat)
            BY <1>4, <1>6 DEF EntriesInv
        <3>2. M!ToSet(e.path) \cap Unencodable = {}
            BY <3>0, <3>1
        <3>3. \A i \in DOMAIN e.path : e.path[i] \notin Unencodable
            BY <3>2 DEF M!ToSet
        <3>4. M!Encoded(e.path) = e.path
            <4> DEFINE p == e.path
            <4>1. p \in Seq(Nat) /\ \A i \in DOMAIN p : p[i] \notin Unencodable
                BY <3>1, <3>3
            <4> HIDE DEF p
            <4>2. M!Encoded(p) = [i \in DOMAIN p |-> p[i]]
                BY <4>1 DEF M!Encoded, M!Text
            <4>3. M!Encoded(p) = p
                BY <4>1, <4>2
            <4> QED
                BY <4>3 DEF p
        <3>5. e = [path |-> e.path, type |-> e.type, size |-> e.size, mode |-> e.mode,
                   digest |-> e.digest, target |-> e.target]
            BY DEF EntriesInv
        <3>6. M!EncodedTarget(e.target) = e.target
            <4>1. e = EntryOf(e.path, M!Tree[e.path])
                BY <1>6 DEF EntriesInv
            <4>2. e.target = IF M!Tree[e.path].type = "symlink" THEN M!Tree[e.path].data ELSE M!NoTarget
                BY <4>1 DEF EntryOf, M!Entry
            <4>3. CASE M!Tree[e.path].type = "symlink"
                <5>1. M!Tree[e.path].data \in M!Data
                    BY <3>1 DEF WalkInv, Sound
                <5>2. M!Tree[e.path].data.text \notin Unencodable
                    BY <3>0, <3>1, <4>3
                <5> QED
                    BY <4>2, <4>3, <5>1, <5>2, TargetFacts
            <4>4. CASE M!Tree[e.path].type # "symlink"
                BY <4>2, <4>4, TargetFacts
            <4> QED
                BY <4>3, <4>4
        <3> QED
            BY <3>4, <3>5, <3>6
    <2> QED
        BY <2>1 DEF M!Marshal
<1> HIDE DEF mf, published
<1>9. Typed(M!Tree)
    BY DEF Typed, WalkInv, Sound
<1>7. Exact(mf)
    BY <1>1, <1>3, <1>5, <1>9 DEF Exact
<1>8. ExactWhenRead(published)
    BY <1>2, <1>3, <1>5, <1>6, <1>9 DEF ExactWhenRead
<1> QED
    BY <1>7, <1>8 DEF mf, published

\* Two entries of one path are the same if the nodes are.
LEMMA KindFacts ==
    ASSUME NEW p, NEW m, NEW n, m.type \in M!Types, n.type \in M!Types
    PROVE  LET k == M!Kind(EntryOf(p, m), EntryOf(p, n))
               differ == \/ m.type # n.type
                         \/ m.data.size # n.data.size \/ m.mode # n.mode
                         \/ m.type # "directory" /\ m.data # n.data
           IN  /\ k # "same" <=> differ
               /\ differ => k = IF m.type # n.type THEN "type-changed" ELSE "modified"
<1> DEFINE x == EntryOf(p, m)
           y == EntryOf(p, n)
<1>1. /\ x.type = m.type /\ x.size = m.data.size /\ x.mode = m.mode
      /\ x.digest = (IF m.type = "file" THEN <<m.data, m.data>> ELSE <<>>)
      /\ x.target = (IF m.type = "symlink" THEN m.data ELSE M!NoTarget)
    BY DEF EntryOf, M!Entry, M!Digest
<1>2. /\ y.type = n.type /\ y.size = n.data.size /\ y.mode = n.mode
      /\ y.digest = (IF n.type = "file" THEN <<n.data, n.data>> ELSE <<>>)
      /\ y.target = (IF n.type = "symlink" THEN n.data ELSE M!NoTarget)
    BY DEF EntryOf, M!Entry, M!Digest
<1> HIDE DEF x, y
<1>3. M!Kind(x, y) = IF m.type # n.type THEN "type-changed"
                   ELSE IF \/ x.digest # y.digest \/ x.target # y.target
                           \/ m.data.size # n.data.size \/ m.mode # n.mode
                   THEN "modified" ELSE "same"
    BY <1>1, <1>2 DEF M!Kind
<1>4. ASSUME m.type = n.type
      PROVE  (x.digest # y.digest \/ x.target # y.target \/ m.data.size # n.data.size \/ m.mode # n.mode)
                <=> \/ m.data.size # n.data.size \/ m.mode # n.mode
                    \/ m.type # "directory" /\ m.data # n.data
    <2>1. CASE m.type = "file"
        BY <1>1, <1>2, <1>4, <2>1
    <2>2. CASE m.type = "symlink"
        BY <1>1, <1>2, <1>4, <2>2
    <2>3. CASE m.type = "directory"
        BY <1>1, <1>2, <1>4, <2>3
    <2> QED
        BY <2>1, <2>2, <2>3 DEF M!Types
<1>5. /\ M!Kind(x, y) # "same" <=> \/ m.type # n.type
                                   \/ m.data.size # n.data.size \/ m.mode # n.mode
                                   \/ m.type # "directory" /\ m.data # n.data
      /\ M!Kind(x, y) # "same" =>
             M!Kind(x, y) = IF m.type # n.type THEN "type-changed" ELSE "modified"
    BY <1>3, <1>4
<1> QED
    BY <1>5 DEF x, y

LEMMA CompareExact ==
    ASSUME NEW s, NEW t, Typed(s), Typed(t)
    PROVE  M!CompareManifests(EntriesOf(s), EntriesOf(t)) = M!Differences(s, t)
<1> DEFINE a == EntriesOf(s)
           b == EntriesOf(t)
           unlike == {q \in a \X b : q[1].path = q[2].path /\ M!Kind(q[1], q[2]) # "same"}
           differ(p) == \/ s[p].type # t[p].type
                        \/ s[p].data.size # t[p].data.size \/ s[p].mode # t[p].mode
                        \/ s[p].type # "directory" /\ s[p].data # t[p].data
           kindOf(p) == IF s[p].type # t[p].type THEN "type-changed" ELSE "modified"
           changed == {q \in DOMAIN s \cap DOMAIN t : differ(q)}
<1>1. \A p, n : EntryOf(p, n).path = p
    BY DEF EntryOf, M!Entry
<1>3. \A p \in DOMAIN s \cap DOMAIN t :
         /\ M!Kind(EntryOf(p, s[p]), EntryOf(p, t[p])) # "same" <=> differ(p)
         /\ differ(p) => M!Kind(EntryOf(p, s[p]), EntryOf(p, t[p])) = kindOf(p)
    BY KindFacts DEF Typed
<1>4. \A x \in a : x.path \in DOMAIN s /\ x = EntryOf(x.path, s[x.path])
    BY <1>1 DEF EntriesOf
<1>5. \A y \in b : y.path \in DOMAIN t /\ y = EntryOf(y.path, t[y.path])
    BY <1>1 DEF EntriesOf
<1>6. \A p \in DOMAIN s : EntryOf(p, s[p]) \in a
    BY DEF EntriesOf
<1>7. \A p \in DOMAIN t : EntryOf(p, t[p]) \in b
    BY DEF EntriesOf
<1> HIDE DEF a, b, differ, kindOf
<1>2. {e.path : e \in a} = DOMAIN s /\ {e.path : e \in b} = DOMAIN t
    <2>1. {e.path : e \in a} = DOMAIN s
        BY <1>1, <1>4, <1>6
    <2>2. {e.path : e \in b} = DOMAIN t
        BY <1>1, <1>5, <1>7
    <2> QED
        BY <2>1, <2>2
<1>8. ASSUME NEW q \in unlike
      PROVE  q[1].path \in changed /\ M!Kind(q[1], q[2]) = kindOf(q[1].path)
    <2>1. q[1] \in a /\ q[2] \in b /\ q[1].path = q[2].path /\ M!Kind(q[1], q[2]) # "same"
        BY <1>8
    <2>2. /\ q[1].path \in DOMAIN s \cap DOMAIN t
          /\ q[1] = EntryOf(q[1].path, s[q[1].path]) /\ q[2] = EntryOf(q[1].path, t[q[1].path])
        BY <1>4, <1>5, <2>1
    <2>3. differ(q[1].path) /\ M!Kind(q[1], q[2]) = kindOf(q[1].path)
        BY <1>3, <2>1, <2>2
    <2> QED
        BY <2>2, <2>3
<1>9. ASSUME NEW p \in changed
      PROVE  \E q \in unlike : q[1].path = p /\ M!Kind(q[1], q[2]) = kindOf(p)
    <2> DEFINE x == EntryOf(p, s[p])
               y == EntryOf(p, t[p])
               q == <<x, y>>
    <2>1. x \in a /\ y \in b /\ x.path = p /\ y.path = p
        BY <1>1, <1>6, <1>7
    <2>2. M!Kind(x, y) # "same" /\ M!Kind(x, y) = kindOf(p)
        BY <1>3
    <2> HIDE DEF x, y
    <2>3. q[1] = x /\ q[2] = y /\ q \in a \X b
        BY <2>1
    <2>4. q \in unlike
        BY <2>1, <2>2, <2>3
    <2> QED
        BY <2>1, <2>2, <2>3, <2>4
<1>10. {[path |-> q[1].path, kind |-> M!Kind(q[1], q[2])] : q \in unlike}
          = {[path |-> p, kind |-> kindOf(p)] : p \in changed}
    <2> HIDE DEF unlike, changed
    <2>1. ASSUME NEW q \in unlike
          PROVE  [path |-> q[1].path, kind |-> M!Kind(q[1], q[2])]
                    \in {[path |-> p, kind |-> kindOf(p)] : p \in changed}
        BY <1>8
    <2>2. ASSUME NEW p \in changed
          PROVE  [path |-> p, kind |-> kindOf(p)]
                    \in {[path |-> q[1].path, kind |-> M!Kind(q[1], q[2])] : q \in unlike}
        BY <1>9
    <2> QED
        BY <2>1, <2>2
<1>11. M!CompareManifests(a, b) =
          {[path |-> p, kind |-> "added"] : p \in DOMAIN t \ DOMAIN s}
             \cup {[path |-> p, kind |-> "removed"] : p \in DOMAIN s \ DOMAIN t}
             \cup {[path |-> q[1].path, kind |-> M!Kind(q[1], q[2])] : q \in unlike}
    BY <1>2 DEF M!CompareManifests
<1> QED
    BY <1>10, <1>11 DEF M!Differences, a, b, differ, kindOf

LEMMA FinishInv ==
    ASSUME ManifestInv, M!Finish
    PROVE  ManifestInv'
<1> DEFINE mf == M!Manifest(entries)
           all == Append(built, mf)
<1>1. /\ pc = "next" /\ todo = <<>>
      /\ DiskInv /\ RootsInv /\ WalkInv /\ EntriesInv /\ CoverInv /\ M!ChangesAreExact
    BY DEF M!Finish, ManifestInv
<1>2. /\ Good(mf) /\ Good([mf EXCEPT !.entries = M!Marshal(@)])
      /\ Exact(mf) /\ ExactWhenRead([mf EXCEPT !.entries = M!Marshal(@)])
    BY <1>1, BuiltGood, BuiltExact
<1>6. mf.of = during
    BY DEF M!Manifest
<1> HIDE DEF mf
<1>3. CASE /\ Tail(roots) # <<>>
           /\ M!Walk(Tail(roots), all)
           /\ UNCHANGED <<M!Disk, commands, command, changes>>
    <2>1. roots = <<M!Root, roots[2]>> /\ built = <<>> /\ command.op = "compare"
        <3>1. roots # <<M!Root>>
            <4>1. Tail(<<M!Root>>) = <<>>
                OBVIOUS
            <4> QED
                BY <1>3, <4>1
        <3> QED
            BY <1>1, <1>3, <3>1 DEF RootsInv
    <2>2. Tail(roots) = <<roots[2]>>
        <3>1. PICK a, b : roots = <<a, b>>
            BY <2>1
        <3> QED
            BY <3>1
    <2>3. all = <<mf>>
        BY <2>1
    <2> HIDE DEF all
    <2>4. RootsInv'
        <3>1. M!Walk(<<roots[2]>>, <<mf>>)
            BY <1>3, <2>2, <2>3
        <3> DEFINE rs == <<roots[2]>>
                   ms == <<mf>>
        <3>2. /\ M!Walk(rs, ms) /\ command'.op = "compare"
              /\ rs = <<rs[1]>> /\ ms = <<ms[1]>> /\ Good(ms[1]) /\ Exact(ms[1])
            BY <1>2, <1>3, <2>1, <3>1
        <3> HIDE DEF rs, ms
        <3> QED
            BY <3>2, RootsBegin
    <2>5. pc' = "next" /\ WalkInv' /\ EntriesInv' /\ VisitInv' /\ CoverInv'
        BY <1>1, <1>3, WalkBegins DEF M!Disk
    <2>6. DiskInv' /\ M!ChangesAreExact'
        BY <1>1, <1>3, DiskFrame, ChangesFrame
    <2> QED
        BY <2>4, <2>5, <2>6 DEF ManifestInv, WalkSteps
<1>4. CASE /\ IF manifests[command.right].there THEN UNCHANGED manifests
              ELSE manifests' = [manifests EXCEPT ![command.right] = [mf EXCEPT !.entries = M!Marshal(@)]]
           /\ M!Ended
           /\ UNCHANGED <<trees, clock, changes>>
    <2>1. /\ DOMAIN manifests' = Outputs
          /\ \A o \in Outputs : Good(manifests'[o]) /\ ExactWhenRead(manifests'[o])
        BY <1>1, <1>2, <1>4 DEF DiskInv
    <2>2. DiskInv' /\ M!ChangesAreExact'
        BY <1>1, <1>4, <2>1, ChangesFrame DEF DiskInv
    <2> QED
        BY <1>4, <2>2 DEF ManifestInv, M!Ended, RootsInv, WalkSteps
<1>5. CASE /\ Tail(roots) = <<>> /\ command.op # "create"
           /\ changes' = [of |-> command, left |-> all[1].of, right |-> all[2].of,
                          list |-> M!CompareManifests(all[1].entries, all[2].entries)]
           /\ M!Ended /\ UNCHANGED M!Disk
    <2>1. built # <<>> /\ built = <<built[1]>>
        BY <1>1, <1>5 DEF RootsInv
    <2>2. \/ command.op = "compare" /\ Exact(built[1])
          \/ command.op = "verify" /\ built[1].there /\ ExactWhenRead(built[1])
        BY <1>1, <2>1 DEF RootsInv
    <2> DEFINE old == built[1]
    <2>3. all[1] = old /\ all[2] = mf
        <3>1. PICK m : built = <<m>>
            BY <2>1
        <3> QED
            BY <3>1
    <2> HIDE DEF all, old
    <2>4. /\ changes'.of = command /\ changes'.left = old.of /\ changes'.right = during
          /\ changes'.list = M!CompareManifests(old.entries, mf.entries)
        BY <1>5, <1>6, <2>3
    <2>5. ASSUME NEW s \in old.of, NEW t \in during, M!Quiet(old.of), M!Quiet(during),
                 M!Encodable(s) \/ command.op = "compare"
          PROVE  M!CompareManifests(old.entries, mf.entries) = M!Differences(s, t)
        <3>1. Typed(s) /\ old.entries = EntriesOf(s)
            BY <2>2, <2>5 DEF Exact, ExactWhenRead, old
        <3>2. Typed(t) /\ mf.entries = EntriesOf(t)
            BY <1>2, <1>6, <2>5 DEF Exact
        <3> QED
            BY <3>1, <3>2, CompareExact
    <2>6. M!ChangesAreExact'
        BY <2>4, <2>5 DEF M!ChangesAreExact
    <2>7. DiskInv'
        BY <1>1, <1>5, DiskFrame
    <2> QED
        BY <1>5, <2>6, <2>7 DEF ManifestInv, M!Ended, RootsInv, WalkSteps
<1> QED
    BY <1>3, <1>4, <1>5 DEF M!Finish, mf

LEMMA EditInv ==
    ASSUME ManifestInv, NEW r \in Trees, M!Edit(r)
    PROVE  ManifestInv'
<1>1. PICK t \in M!Edited(trees[r]) :
         /\ trees' = [trees EXCEPT ![r] = t]
         /\ during' = IF roots # <<>> /\ M!Root = r THEN during \cup {t} ELSE during
    BY DEF M!Edit
<1>2. /\ clock' = clock + 1
      /\ UNCHANGED <<manifests, commands, command, pc, roots, todo, visit, entries, built, changes>>
    BY DEF M!Edit, M!Now
<1>3. DiskInv /\ RootsInv /\ clock \in Nat
    BY DEF ManifestInv, DiskInv
<1>4. IsEdit(trees[r], t, clock + 1)
    BY <1>1, <1>3, EditedIsEdit DEF DiskInv
<1>8. M!ChangesAreExact'
    BY <1>2, ChangesFrame DEF ManifestInv
<1>5. DiskInv'
    <2>1. \A s \in Trees : Sound(trees[s], clock + 1)
        BY <1>3, SoundLater DEF DiskInv
    <2>2. \A s \in Trees : Sound(trees'[s], clock + 1)
        BY <1>1, <1>3, <1>4, <2>1 DEF DiskInv, IsEdit
    <2>3. DOMAIN trees' = Trees
        BY <1>1, <1>3 DEF DiskInv
    <2> QED
        BY <1>2, <1>3, <2>2, <2>3 DEF DiskInv
<1>6. RootsInv' /\ M!Root' = M!Root
    BY <1>2, <1>3 DEF RootsInv, M!Root
<1>7. ASSUME pc # "idle" PROVE WalkInv' /\ EntriesInv' /\ VisitInv' /\ CoverInv'
    <2>1. WalkInv /\ EntriesInv /\ VisitInv /\ CoverInv /\ roots # <<>>
        BY <1>3, <1>7 DEF ManifestInv, RootsInv
    <2>2. Sound(M!Tree, clock)
        BY <2>1 DEF WalkInv
    <2>3. /\ IsEdit(M!Tree, M!Tree', clock + 1) /\ M!Tree' \in during' /\ during \subseteq during'
          /\ \A s \in during' : Sound(s, clock + 1)
          /\ IsFiniteSet(during') /\ (during' = {M!Tree'} => during = {M!Tree} /\ M!Tree' = M!Tree)
        <3>1. \A s \in during : Sound(s, clock + 1)
            BY <1>3, <2>1, SoundLater DEF WalkInv
        <3>2. CASE M!Root = r
            <4>1. M!Tree = trees[r] /\ M!Tree' = t
                BY <1>1, <1>3, <1>6, <3>2 DEF M!Tree, M!Under, DiskInv
            <4>2. during' = during \cup {t}
                BY <1>1, <2>1, <3>2
            <4>3. IsFiniteSet(during')
                BY <2>1, <4>2, FS_AddElement DEF WalkInv
            <4>4. during' = {M!Tree'} => during = {M!Tree} /\ M!Tree' = M!Tree
                BY <2>1, <4>2 DEF WalkInv
            <4> QED
                BY <1>4, <3>1, <4>1, <4>2, <4>3, <4>4 DEF IsEdit
        <3>3. CASE M!Root # r
            <4>1. M!Tree' = M!Tree
                BY <1>1, <1>3, <1>6, <3>3 DEF M!Tree, M!Under, DiskInv
            <4>2. during' = during
                BY <1>1, <3>3
            <4>3. IsEdit(M!Tree, M!Tree, clock + 1)
                BY <2>1, <3>1 DEF IsEdit, WalkInv
            <4> QED
                BY <2>1, <3>1, <4>1, <4>2, <4>3 DEF WalkInv
        <3> QED
            BY <3>2, <3>3
    <2>4. WalkInv'
        BY <1>2, <2>1, <2>3 DEF WalkInv
    <2>5. EntriesInv'
        BY <1>2, <2>1, <2>3 DEF EntriesInv
    <2>6. ASSUME pc \in {"open", "read", "again"}, SameTime'
          PROVE  SameTime /\ M!Tree'[visit.path].data = M!Tree[visit.path].data
        <3>1. PICK s \in during : visit.path \in DOMAIN s /\ s[visit.path] = visit.before
            BY <2>1, <2>6 DEF VisitInv
        <3>2. visit.before.mtime \in 0..clock
            BY <2>1, <3>1 DEF WalkInv, Sound
        <3>3. visit.path \in DOMAIN M!Tree' /\ M!Tree'[visit.path].mtime = visit.before.mtime
            BY <1>2, <2>6 DEF SameTime, M!There
        <3>4. M!Tree'[visit.path].mtime # clock + 1
            BY <1>3, <3>2, <3>3
        <3>5. /\ visit.path \in DOMAIN M!Tree
              /\ M!Tree'[visit.path].mtime = M!Tree[visit.path].mtime
              /\ M!Tree'[visit.path].data = M!Tree[visit.path].data
            BY <2>3, <3>3, <3>4 DEF IsEdit
        <3> QED
            BY <3>3, <3>5 DEF SameTime, M!There
    <2>7. VisitInv'
        BY <1>2, <2>1, <2>3, <2>6 DEF VisitInv
    <2>8. CoverInv'
        BY <1>2, <2>1, <2>3 DEF CoverInv, Covered
    <2> QED
        BY <2>4, <2>5, <2>7, <2>8
<1> QED
    BY <1>2, <1>5, <1>6, <1>7, <1>8 DEF ManifestInv

LEMMA ManifestNext ==
    ASSUME ManifestInv, [M!Next]_(M!vars)
    PROVE  ManifestInv'
<1>1. CASE UNCHANGED M!vars
    <2>1. DiskInv' /\ M!ChangesAreExact'
        BY <1>1, DiskFrame, ChangesFrame DEF ManifestInv, M!vars, M!Disk
    <2> QED
        <3>1. /\ UNCHANGED <<trees, manifests, commands, command, pc, changes, clock>>
              /\ UNCHANGED <<roots, todo, visit, entries, built, during>>
            BY <1>1 DEF M!vars, M!walkVars
        <3>2. RootsInv'
            BY <3>1 DEF ManifestInv, RootsInv, M!Root
        <3>3. pc # "idle" => WalkInv' /\ EntriesInv'
            BY <3>1 DEF ManifestInv, M!Root, WalkInv, M!Tree, M!Under, EntriesInv
        <3>4. pc # "idle" => VisitInv' /\ CoverInv'
            BY <3>1 DEF ManifestInv, M!Root, M!Tree, M!Under, VisitInv, SameTime, M!There,
                        CoverInv, Covered
        <3> QED
            BY <2>1, <3>1, <3>2, <3>3, <3>4 DEF ManifestInv
<1>2. CASE M!Next
    BY <1>2, CommandsInv, LstatInv, AddInv, OpenFileInv, ReadInv, DescendInv, FinishInv, EditInv
           DEF M!Next
<1> QED
    BY <1>1, <1>2

\* Every state of Manifest has what its two properties rest on.
LEMMA ManifestInvariant == M!Spec => []ManifestInv
<1>1. M!Init => ManifestInv
    BY ManifestInit
<1>2. ManifestInv /\ [M!Next]_(M!vars) => ManifestInv'
    BY ManifestNext
<1> QED
    BY <1>1, <1>2, PTL DEF M!Spec

\* Whatever other programs do to a tree while a manifest of it is built, each file
\* entry is of one moment of the walk and what was there all the while has an entry,
\* for any trees, edits and commands (manifest.go:83-146).
THEOREM ManifestsAreOfTheWalk ==
    M!Spec => []ManifestIsOfTheWalk
<1>1. ManifestInv => ManifestIsOfTheWalk
    <2> SUFFICES ASSUME ManifestInv, NEW mf \in M!Manifests, mf.there
                 PROVE  M!FilesAreOfOneMoment(mf) /\ M!NothingIsMissing(mf)
        BY DEF ManifestIsOfTheWalk, M!ManifestIsOfTheWalk
    <2>1. CASE \E o \in Outputs : mf = manifests[o]
        BY <2>1 DEF ManifestInv, DiskInv, Good
    <2>2. CASE mf \in M!ToSet(built)
        BY <2>2 DEF M!ToSet, ManifestInv, RootsInv, Good
    <2> QED
        BY <2>1, <2>2 DEF M!Manifests
<1> QED
    BY <1>1, ManifestInvariant, PTL

\* A verification or a comparison of trees that nobody edited while they were walked
\* lists exactly what differs, for any trees (manifest.go:59-82 and 200-242); a
\* verification takes a name or a link target that JSON cannot hold for another one
\* (manifest.go:49).
THEOREM ListedChangesAreExact ==
    M!Spec => []ChangesAreExact
<1>1. ManifestInv => ChangesAreExact
    BY DEF ManifestInv, ChangesAreExact
<1> QED
    BY <1>1, ManifestInvariant, PTL

-----------------------------------------------------------------------------
(* Policy. *)

\* What is resolved, and what files and the environment can be.
PolicyInv ==
    /\ configured.there => configured.decodes \in BOOLEAN
    /\ DOMAIN configured.sets \subseteq DOMAIN Defaults
    /\ "size" \in DOMAIN configured.sets => configured.sets.size \in {Unset} \cup (Nat \X Units)
    /\ "verify" \in DOMAIN configured.sets => configured.sets.verify \in BOOLEAN
    /\ environment.verify \in BOOLEAN
    /\ P!PolicyIsLayered

\* The foremost of three layers.
LEMMA FirstOfThree ==
    ASSUME NEW a, NEW b, NEW c
    PROVE  P!First(<<a, b, c>>) = IF a # Unset THEN a ELSE IF b # Unset THEN b ELSE c
<1> DEFINE layers == <<a, b, c>>
           given == {i \in DOMAIN layers : layers[i] # Unset}
           least == CHOOSE i \in given : \A j \in given : i <= j
<1> SUFFICES P!First(layers) = IF a # Unset THEN a ELSE IF b # Unset THEN b ELSE c
    OBVIOUS
<1>1. DOMAIN layers = 1..3 /\ layers[1] = a /\ layers[2] = b /\ layers[3] = c
    OBVIOUS
<1>2. P!First(layers) = IF given = {} THEN Unset ELSE layers[least]
    BY DEF P!First
<1>3. /\ \A i \in given : i = 1 \/ i = 2 \/ i = 3
      /\ 1 \in given <=> a # Unset
      /\ 2 \in given <=> b # Unset
      /\ 3 \in given <=> c # Unset
    BY <1>1
<1>4. given # {} => least \in given /\ \A j \in given : least <= j
    <2> SUFFICES ASSUME given # {} PROVE \E i \in given : \A j \in given : i <= j
        OBVIOUS
    <2> HIDE DEF given
    <2>2. CASE 1 \in given
        BY <1>3, <2>2
    <2>3. CASE 1 \notin given /\ 2 \in given
        BY <1>3, <2>3
    <2>4. CASE 1 \notin given /\ 2 \notin given
        BY <1>3, <2>4
    <2> QED
        BY <2>2, <2>3, <2>4
<1> HIDE DEF layers, given, least
<1>5. CASE given = {}
    BY <1>2, <1>3, <1>5
<1>6. CASE given # {}
    <2>1. least = 1 \/ least = 2 \/ least = 3
        BY <1>3, <1>4, <1>6
    <2> QED
        BY <1>1, <1>2, <1>3, <1>4, <1>6, <2>1
<1> QED
    BY <1>5, <1>6

\* A number of units fits if dividing the limit by the unit says so, and its
\* product is then what is stored.
LEMMA SizesFit ==
    ASSUME NEW n \in Nat, NEW u \in Nat \ {0}, NEW m \in Nat
    PROVE  /\ n \in 1..m /\ n <= m \div u <=> n * u \in 1..m
           /\ n * u \in 1..m => (n * u) % (m + 1) = n * u
<1> DEFINE q == m \div u
           r == m % u
<1>1. q \in Nat /\ r \in 0..(u - 1) /\ m = u * q + r
    OBVIOUS
<1>2. n * u \in Nat /\ u * q \in Nat
    BY <1>1
<1> HIDE DEF q, r
<1>3. ASSUME n <= q PROVE n * u <= u * q
    BY <1>1, <1>3
<1>4. ASSUME ~(n <= q) PROVE n * u >= u * q + u
    <2>1. n >= q + 1
        BY <1>1, <1>4
    <2> QED
        BY <1>1, <2>1
<1>5. n <= n * u /\ (n = 0 => n * u = 0)
    OBVIOUS
<1>6. n <= q <=> n * u <= m
    BY <1>1, <1>2, <1>3, <1>4
<1> DEFINE s == n * u
<1>7. n \in 1..m /\ n <= q <=> s \in 1..m
    BY <1>2, <1>5, <1>6
<1> HIDE DEF s
<1>8. s \in 1..m => s % (m + 1) = s
    OBVIOUS
<1> QED
    BY <1>7, <1>8 DEF q, s

\* What the file and the defaults may say of sizes and verification.
LEMMA ConfigFacts ==
    ASSUME PolicyInv
    PROVE  /\ P!Config.size \in {Unset} \cup (Nat \X Units) /\ P!Config.verify \in BOOLEAN
           /\ environment.verify \in BOOLEAN
<1>1. "size" \in DOMAIN Defaults /\ "verify" \in DOMAIN Defaults
    BY PolicyAssumption DEF P!ConstantsAssumption, P!Settings
<1>2. Defaults.size \in {Unset} \cup (Nat \X Units) /\ Defaults.verify \in BOOLEAN
    BY <1>1, PolicyAssumption DEF P!ConstantsAssumption
<1>3. /\ P!Config.size = IF "size" \in DOMAIN configured.sets THEN configured.sets.size
                        ELSE Defaults.size
      /\ P!Config.verify = IF "verify" \in DOMAIN configured.sets THEN configured.sets.verify
                          ELSE Defaults.verify
    BY <1>1 DEF P!Config
<1> QED
    BY <1>2, <1>3 DEF PolicyInv

\* Three settings replaced.
LEMMA Overridden ==
    ASSUME NEW other, NEW e, NEW y, NEW w,
           other = [compression |-> other.compression, cipher |-> other.cipher,
                    size |-> other.size, destination |-> other.destination,
                    verify |-> other.verify]
    PROVE  [other EXCEPT !.compression = e, !.cipher = y, !.verify = w] =
               [compression |-> e, cipher |-> y, size |-> other.size,
                destination |-> other.destination, verify |-> w]
<1> DEFINE one == [other EXCEPT !.compression = e]
           two == [one EXCEPT !.cipher = y]
           three == [two EXCEPT !.verify = w]
<1>1. one = [compression |-> e, cipher |-> other.cipher, size |-> other.size,
           destination |-> other.destination, verify |-> other.verify]
    OBVIOUS
<1> HIDE DEF one
<1>2. two = [compression |-> e, cipher |-> y, size |-> other.size,
           destination |-> other.destination, verify |-> other.verify]
    BY <1>1
<1> HIDE DEF two
<1>3. three = [compression |-> e, cipher |-> y, size |-> other.size,
           destination |-> other.destination, verify |-> w]
    BY <1>2
<1> QED
    BY <1>3 DEF one, two

\* Nothing is resolved at first.
LEMMA PolicyInit ==
    P!Init => PolicyInv
<1> SUFFICES ASSUME P!Init PROVE PolicyInv
    OBVIOUS
<1>1. P!PolicyIsLayered
    BY DEF P!Init, P!Unresolved, P!PolicyIsLayered
<1>2. CASE configured = [there |-> FALSE, sets |-> [x \in {} |-> Unset]]
    <2>1. configured.there = FALSE /\ DOMAIN configured.sets = {}
        BY <1>2
    <2> QED
        BY <1>1, <2>1 DEF P!Init, PolicyInv
<1>3. CASE configured \in [there : {TRUE}, decodes : BOOLEAN, sets : ConfigFiles]
    BY <1>1, <1>3, PolicyAssumption DEF P!Init, PolicyInv, P!ConstantsAssumption
<1> QED
    BY <1>2, <1>3 DEF P!Init

\* What Resolve returns is what the layers say.
LEMMA ResolveInv ==
    ASSUME PolicyInv, P!Resolve
    PROVE  PolicyInv'
<1> DEFINE implicit == named = Unset /\ environment.profile = Unset
           ofFile(x) == IF implicit THEN P!Config[x] ELSE Unset
           name == P!First(<<named, environment.profile, P!Config.profile>>)
           product == P!Config.size[1] * P!Config.size[2]
           base == Profiles[name]
           settings == [compression |-> P!First(<<environment.compression, ofFile("compression"),
                                                base.compression>>),
                        cipher |-> P!First(<<environment.cipher, ofFile("cipher"), base.cipher>>),
                        size |-> IF ofFile("size") # Unset THEN product ELSE base.size,
                        destination |-> IF implicit THEN P!Config.destination ELSE base.destination,
                        verify |-> environment.verify \/ base.verify \/ (implicit /\ P!Config.verify)]
           readable == /\ configured.there => configured.decodes
                       /\ name \in DOMAIN Profiles
                       /\ ofFile("size") # Unset => product \in 1..MaxRecordSize
<1>1. UNCHANGED <<configured, environment, named>>
    BY DEF P!Resolve
<1>2. P!ProfileName = name /\ P!ProfileIsImplicit = implicit
    BY FirstOfThree DEF P!ProfileName, P!ProfileIsImplicit
<1>3. ASSUME P!Config.size # Unset
      PROVE  /\ P!SizeFits(P!Config.size) <=> product \in 1..MaxRecordSize
             /\ product \in 1..MaxRecordSize => P!ByteSize(P!Config.size) = product
    <2>1. P!Config.size \in Nat \X Units
        BY <1>3, ConfigFacts
    <2>2. P!Config.size[1] \in Nat /\ P!Config.size[2] \in Nat \ {0} /\ MaxRecordSize \in Nat
        BY <2>1, PolicyAssumption DEF P!ConstantsAssumption
    <2> QED
        BY <2>2, SizesFit DEF P!SizeFits, P!ByteSize
<1>4. resolved' = IF readable
                  THEN [done |-> TRUE, ok |-> TRUE, policy |-> P!FromEnvironment(P!FromFile(base))]
                  ELSE P!Failed
    BY <1>2, <1>3 DEF P!Resolve, PolicyInv
<1>5. ASSUME readable PROVE P!FromEnvironment(P!FromFile(base)) = settings
    <2>1. /\ base.verify \in BOOLEAN
          /\ base = [compression |-> base.compression, cipher |-> base.cipher, size |-> base.size,
                     destination |-> base.destination, verify |-> base.verify]
        BY <1>5, PolicyAssumption DEF P!ConstantsAssumption
    <2> HIDE DEF base, name
    <2> DEFINE middle == P!FromFile(base)
    <2>2. middle = [compression |-> IF ofFile("compression") # Unset THEN P!Config.compression
                                    ELSE base.compression,
                    cipher |-> IF ofFile("cipher") # Unset THEN P!Config.cipher ELSE base.cipher,
                    size |-> IF ofFile("size") # Unset THEN product ELSE base.size,
                    destination |-> IF implicit THEN P!Config.destination ELSE base.destination,
                    verify |-> base.verify \/ (implicit /\ P!Config.verify)]
        <3>1. CASE implicit
            BY <1>2, <1>3, <1>5, <2>1, <3>1, ConfigFacts DEF P!FromFile, P!Over
        <3>2. CASE ~implicit
            BY <1>2, <2>1, <3>2 DEF P!FromFile
        <3> QED
            BY <3>1, <3>2
    <2> HIDE DEF middle
    <2>3. P!FromEnvironment(middle) =
              [compression |-> P!Over(environment.compression, middle.compression),
               cipher |-> P!Over(environment.cipher, middle.cipher),
               size |-> middle.size, destination |-> middle.destination,
               verify |-> middle.verify \/ environment.verify]
        <3> HIDE DEF implicit, ofFile, product
        <3>1. P!FromEnvironment(middle) =
                  [middle EXCEPT !.compression = P!Over(environment.compression, middle.compression),
                                 !.cipher = P!Over(environment.cipher, middle.cipher),
                                 !.verify = middle.verify \/ environment.verify]
            BY <2>2 DEF P!FromEnvironment
        <3>2. middle = [compression |-> middle.compression, cipher |-> middle.cipher,
                        size |-> middle.size, destination |-> middle.destination,
                        verify |-> middle.verify]
            BY <2>2
        <3> QED
            BY <3>1, <3>2, Overridden
    <2>4. /\ P!Over(environment.compression, middle.compression) =
                P!First(<<environment.compression, ofFile("compression"), base.compression>>)
          /\ P!Over(environment.cipher, middle.cipher) =
                P!First(<<environment.cipher, ofFile("cipher"), base.cipher>>)
        BY <2>2, FirstOfThree DEF P!Over
    <2>5. (middle.verify \/ environment.verify) =
              (environment.verify \/ base.verify \/ (implicit /\ P!Config.verify))
        BY <2>1, <2>2, ConfigFacts
    <2> QED
        BY <2>2, <2>3, <2>4, <2>5 DEF middle
<1> HIDE DEF settings, readable
<1>6. /\ resolved'.done
      /\ resolved'.ok <=> readable
      /\ resolved'.ok => resolved'.policy = settings
    BY <1>4, <1>5 DEF P!Failed
<1>7. P!PolicyIsLayered'
    BY <1>1, <1>6 DEF P!PolicyIsLayered, P!Config, settings, readable
<1> QED
    BY <1>1, <1>7 DEF PolicyInv

\* Every setting of an effective policy is that of the foremost layer that has one,
\* its record size is the number of bytes that was written, and it is refused only
\* for a profile that does not exist or a file or a size that cannot be read, for any
\* profiles, files and width of a record size (config.go:108-193).
THEOREM PoliciesAreLayered ==
    P!Spec => []PolicyIsLayered
<1>1. PolicyInv /\ [P!Next]_(P!vars) => PolicyInv'
    <2>1. PolicyInv /\ UNCHANGED P!vars => PolicyInv'
        BY DEF P!vars, PolicyInv, P!PolicyIsLayered, P!Config
    <2> QED
        BY <2>1, ResolveInv DEF P!Next
<1>2. PolicyInv => PolicyIsLayered
    BY DEF PolicyInv, PolicyIsLayered
<1> QED
    BY <1>1, <1>2, PolicyInit, PTL DEF P!Spec

-----------------------------------------------------------------------------
(* Benchmark. *)

\* The order of the numbers, as the relation that the library's facts are about.
Lower == {p \in Nat \X Nat : p[1] < p[2]}

\* A set of numbers has a least one: what does without an induction rule.
LEMMA LeastElement ==
    ASSUME NEW T \in SUBSET Nat, T # {}
    PROVE  \E x \in T : \A y \in T : x <= y
<1>1. IsWellFoundedOn(Lower, Nat)
    BY NatLessThanWellFounded DEF OpToRel, Lower
<1>2. PICK x \in T : \A y \in T : ~(<<y, x>> \in Lower)
    BY <1>1, WFMin
<1>3. ASSUME NEW y \in T PROVE x <= y
    <2>1. x \in Nat /\ y \in Nat
        BY <1>3
    <2>2. ASSUME y < x PROVE <<y, x>> \in Lower
        BY <2>1, <2>2 DEF Lower
    <2> QED
        BY <1>2, <1>3, <2>1, <2>2
<1> QED
    BY <1>2, <1>3

\* Rows of n places: where the place r of the row q is.
LEMMA PlaceOf ==
    ASSUME NEW n \in Nat \ {0}, NEW q \in Nat, NEW r \in 0..(n - 1)
    PROVE  (q * n + r) \div n = q /\ (q * n + r) % n = r
<1> DEFINE k == q * n + r
           d == k \div n
           e == k % n
<1>1. k \in Nat /\ q * n \in Nat
    OBVIOUS
<1> HIDE DEF k
<1>2. d \in Nat /\ e \in 0..(n - 1) /\ k = n * d + e
    BY <1>1
<1> HIDE DEF d, e
<1>3. k = q * n + r /\ n * d \in Nat
    BY <1>2 DEF k
<1>4. ASSUME d < q PROVE FALSE
    <2>1. q >= d + 1
        BY <1>2, <1>4
    <2>2. q * n >= (d + 1) * n
        BY <1>2, <2>1
    <2>3. (d + 1) * n = n * d + n
        BY <1>2
    <2> QED
        BY <1>1, <1>2, <1>3, <2>2, <2>3
<1>5. ASSUME d > q PROVE FALSE
    <2>1. d >= q + 1
        BY <1>2, <1>5
    <2>2. n * d >= n * (q + 1)
        BY <1>2, <2>1
    <2>3. n * (q + 1) = q * n + n
        OBVIOUS
    <2> QED
        BY <1>1, <1>2, <1>3, <2>2, <2>3
<1>6. d = q
    BY <1>2, <1>4, <1>5
<1>7. n * d = q * n
    BY <1>6
<1> QED
    BY <1>1, <1>2, <1>3, <1>6, <1>7 DEF d, e, k

\* Which row and place a number is at.
LEMMA RowOf ==
    ASSUME NEW m \in Nat, NEW n \in Nat, NEW i \in 1..(m * n)
    PROVE  /\ n # 0
           /\ (i - 1) \div n \in 0..(m - 1) /\ (i - 1) % n \in 0..(n - 1)
           /\ i = ((i - 1) \div n) * n + ((i - 1) % n) + 1
<1>1. n # 0
    BY m * 0 = 0
<1> DEFINE k == i - 1
           d == k \div n
           e == k % n
<1>2. m * n \in Nat /\ k \in Nat /\ k < m * n
    OBVIOUS
<1> HIDE DEF k
<1>3. d \in Nat /\ e \in 0..(n - 1) /\ k = n * d + e
    BY <1>1, <1>2
<1> HIDE DEF d, e
<1>4. n * d = d * n /\ n * d \in Nat
    BY <1>3
<1>5. ASSUME d >= m PROVE FALSE
    <2>1. n * d >= n * m /\ n * m = m * n
        BY <1>3, <1>5
    <2> QED
        BY <1>2, <1>3, <1>4, <2>1
<1>6. d \in 0..(m - 1)
    BY <1>3, <1>5
<1>7. k = i - 1
    BY DEF k
<1>8. i = d * n + e + 1
    BY <1>3, <1>4, <1>7
<1> QED
    BY <1>1, <1>3, <1>6, <1>8 DEF d, e, k

\* Every combination is in the list, once.
LEMMA AllFacts ==
    /\ B!AllCombinations \in Seq(B!Combinations) /\ B!IsInjective(B!AllCombinations)
    /\ {B!AllCombinations[i] : i \in 1..Len(B!AllCombinations)} = B!Combinations
<1> DEFINE m == Len(CodecOrder)
           n == Len(CipherOrder)
           pair(i) == [codec |-> CodecOrder[((i - 1) \div n) + 1],
                       cipher |-> CipherOrder[((i - 1) % n) + 1]]
<1>1. /\ m \in Nat /\ n \in Nat /\ m * n \in Nat
      /\ DOMAIN CodecOrder = 1..m /\ DOMAIN CipherOrder = 1..n
      /\ B!IsInjective(CodecOrder) /\ B!IsInjective(CipherOrder)
    BY BenchmarkAssumption DEF B!ConstantsAssumption
<1>2. B!AllCombinations = [i \in 1..(m * n) |-> pair(i)]
    BY DEF B!AllCombinations
<1> HIDE DEF m, n
<1>3. ASSUME NEW i \in 1..(m * n)
      PROVE  /\ n # 0 /\ (i - 1) \div n \in 0..(m - 1) /\ (i - 1) % n \in 0..(n - 1)
             /\ i = ((i - 1) \div n) * n + ((i - 1) % n) + 1
             /\ ((i - 1) \div n) + 1 \in 1..m /\ ((i - 1) % n) + 1 \in 1..n
    <2>1. /\ n # 0 /\ (i - 1) \div n \in 0..(m - 1) /\ (i - 1) % n \in 0..(n - 1)
          /\ i = ((i - 1) \div n) * n + ((i - 1) % n) + 1
        BY <1>1, <1>3, RowOf
    <2> QED
        BY <1>1, <2>1
<1>4. ASSUME NEW i \in 1..(m * n) PROVE pair(i) \in B!Combinations
    <2>1. ((i - 1) \div n) + 1 \in DOMAIN CodecOrder /\ ((i - 1) % n) + 1 \in DOMAIN CipherOrder
        BY <1>1, <1>3
    <2> HIDE DEF n
    <2>2. /\ CodecOrder[((i - 1) \div n) + 1] \in B!ToSet(CodecOrder)
          /\ CipherOrder[((i - 1) % n) + 1] \in B!ToSet(CipherOrder)
        BY <2>1 DEF B!ToSet
    <2> QED
        BY <2>2 DEF B!Combinations
<1>5. B!AllCombinations \in Seq(B!Combinations) /\ Len(B!AllCombinations) = m * n
    <2> HIDE DEF pair
    <2> QED
        BY <1>1, <1>2, <1>4
<1>6. ASSUME NEW i \in 1..(m * n), NEW j \in 1..(m * n), pair(i) = pair(j) PROVE i = j
    <2> DEFINE qi == (i - 1) \div n
               qj == (j - 1) \div n
               ri == (i - 1) % n
               rj == (j - 1) % n
    <2>1. CodecOrder[qi + 1] = CodecOrder[qj + 1] /\ CipherOrder[ri + 1] = CipherOrder[rj + 1]
        BY <1>6
    <2>2. /\ qi + 1 \in 1..m /\ qj + 1 \in 1..m /\ ri + 1 \in 1..n /\ rj + 1 \in 1..n
          /\ qi \in 0..(m - 1) /\ qj \in 0..(m - 1) /\ ri \in 0..(n - 1) /\ rj \in 0..(n - 1)
          /\ i = qi * n + ri + 1 /\ j = qj * n + rj + 1
        BY <1>3
    <2> HIDE DEF qi, qj, ri, rj
    <2>3. qi + 1 = qj + 1 /\ ri + 1 = rj + 1
        BY <1>1, <2>1, <2>2 DEF B!IsInjective
    <2>4. qi = qj /\ ri = rj
        BY <1>1, <2>2, <2>3
    <2> QED
        BY <2>2, <2>4
<1>7. B!IsInjective(B!AllCombinations)
    BY <1>2, <1>6 DEF B!IsInjective
<1>8. ASSUME NEW c \in B!Combinations PROVE \E i \in 1..(m * n) : pair(i) = c
    <2>1. PICK a \in 1..m, b \in 1..n : c = [codec |-> CodecOrder[a], cipher |-> CipherOrder[b]]
        BY <1>1 DEF B!Combinations, B!ToSet
    <2> DEFINE q == a - 1
               r == b - 1
               i == q * n + r + 1
    <2>2. q \in Nat /\ r \in 0..(n - 1) /\ n \in Nat \ {0} /\ q + 1 <= m
        BY <1>1
    <2>3. (q * n + r) \div n = q /\ (q * n + r) % n = r
        BY <2>2, PlaceOf
    <2>4. q * n \in Nat /\ (q + 1) * n = q * n + n /\ (q + 1) * n <= m * n
        BY <1>1, <2>2
    <2> HIDE DEF q, r
    <2>5. i \in 1..(m * n) /\ i - 1 = q * n + r
        BY <1>1, <2>2, <2>4
    <2>6. q + 1 = a /\ r + 1 = b
        BY DEF q, r
    <2> HIDE DEF i
    <2> QED
        BY <2>1, <2>3, <2>5, <2>6
<1> QED
    BY <1>2, <1>4, <1>5, <1>7, <1>8

(* The loop over the successes. *)

\* One turn of the loop over the successes.
Better(x, best) == IF B!Score(x) > B!Score(best) THEN x ELSE best

Loop(f, xs, n) ==
    f = [i \in 1..n |-> IF i = 1 THEN xs[1] ELSE Better(xs[i], f[i - 1])]

\* The loop ends, however many there are.
LEMMA LoopExists ==
    ASSUME NEW xs
    PROVE  \A n \in Nat : \E f : Loop(f, xs, n)
<1> DEFINE T == {n \in Nat : ~\E f : Loop(f, xs, n)}
<1> SUFFICES ASSUME T # {} PROVE FALSE
    OBVIOUS
<1>1. PICK m \in T : \A n \in T : m <= n
    BY LeastElement
<1>2. CASE m = 0
    <2>1. Loop([i \in 1..0 |-> xs[1]], xs, 0)
        BY DEF Loop
    <2> QED
        BY <1>1, <1>2, <2>1
<1>3. CASE m # 0
    <2>1. m - 1 \in Nat /\ m - 1 \notin T /\ m \in Nat
        BY <1>1, <1>3
    <2>2. PICK g : Loop(g, xs, m - 1)
        BY <2>1
    <2> DEFINE last == IF m = 1 THEN xs[1] ELSE Better(xs[m], g[m - 1])
               f == [i \in 1..m |-> IF i = m THEN last ELSE g[i]]
    <2>3. \A i \in 1..(m - 1) : g[i] = IF i = 1 THEN xs[1] ELSE Better(xs[i], g[i - 1])
        BY <2>2 DEF Loop
    <2>4. \A i \in 1..m : f[i] = IF i = 1 THEN xs[1] ELSE Better(xs[i], f[i - 1])
        BY <1>3, <2>1, <2>3
    <2>5. Loop(f, xs, m)
        BY <2>4 DEF Loop
    <2> QED
        BY <1>1, <2>5
<1> QED
    BY <1>2, <1>3

\* The loop ends with the first of those with the highest score.
LEMMA BestFacts ==
    ASSUME NEW n \in Nat \ {0}, NEW xs, DOMAIN xs = 1..n, Len(xs) = n,
           \A i \in 1..n : B!Score(xs[i]) \in Int
    PROVE  \E i \in 1..n :
              /\ B!Best(xs) = xs[i]
              /\ \A j \in 1..n : \/ B!Score(xs[j]) < B!Score(xs[i])
                                 \/ B!Score(xs[j]) = B!Score(xs[i]) /\ i <= j
<1> DEFINE f == CHOOSE g : Loop(g, xs, n)
           FirstBest(k, i) ==
               /\ f[k] = xs[i]
               /\ \A j \in 1..k : \/ B!Score(xs[j]) < B!Score(xs[i])
                                  \/ B!Score(xs[j]) = B!Score(xs[i]) /\ i <= j
           Upheld(k) == \E i \in 1..k : FirstBest(k, i)
           T == {k \in 1..n : ~Upheld(k)}
<1>1. B!Best(xs) = f[n]
    BY DEF B!Best, Loop, Better
<1>2. Loop(f, xs, n)
    BY LoopExists
<1>3. \A k \in 1..n : f[k] = IF k = 1 THEN xs[1] ELSE Better(xs[k], f[k - 1])
    BY <1>2 DEF Loop
<1> HIDE DEF f
<1>4. Upheld(1)
    <2>1. f[1] = xs[1] /\ B!Score(xs[1]) \in Int
        BY <1>3
    <2> QED
        BY <2>1
<1>5. ASSUME NEW k \in 2..n, Upheld(k - 1) PROVE Upheld(k)
    <2>1. PICK i \in 1..(k - 1) : FirstBest(k - 1, i)
        BY <1>5
    <2>2. f[k] = Better(xs[k], f[k - 1]) /\ f[k - 1] = xs[i]
        BY <1>3, <2>1
    <2>3. /\ \A j \in 1..k : B!Score(xs[j]) \in Int /\ (j \in 1..(k - 1) \/ j = k)
          /\ k \in 1..k /\ i \in 1..k /\ i < k
        OBVIOUS
    <2>4. CASE B!Score(xs[k]) > B!Score(xs[i])
        <3>1. f[k] = xs[k]
            BY <2>2, <2>4 DEF Better
        <3>2. \A j \in 1..(k - 1) : B!Score(xs[j]) <= B!Score(xs[i])
            BY <2>1, <2>3
        <3>3. FirstBest(k, k)
            BY <2>3, <2>4, <3>1, <3>2
        <3> QED
            BY <2>3, <3>3
    <2>5. CASE ~(B!Score(xs[k]) > B!Score(xs[i]))
        <3>1. f[k] = xs[i]
            BY <2>2, <2>5 DEF Better
        <3>2. B!Score(xs[k]) < B!Score(xs[i]) \/ (B!Score(xs[k]) = B!Score(xs[i]) /\ i <= k)
            BY <2>3, <2>5
        <3>3. FirstBest(k, i)
            BY <2>1, <2>3, <3>1, <3>2
        <3> QED
            BY <2>3, <3>3
    <2> QED
        BY <2>4, <2>5
<1> HIDE DEF Upheld
<1>6. T = {}
    <2> SUFFICES ASSUME T # {} PROVE FALSE
        OBVIOUS
    <2>1. T \in SUBSET Nat
        OBVIOUS
    <2>2. PICK m \in T : \A k \in T : m <= k
        <3> HIDE DEF T
        <3> QED
            BY <2>1, LeastElement
    <2>3. m \in 2..n
        BY <1>4, <2>2
    <2>4. m - 1 \in 1..n /\ m - 1 \notin T
        <3> HIDE DEF T
        <3> QED
            BY <2>2, <2>3
    <2> QED
        BY <1>5, <2>2, <2>3, <2>4
<1>7. Upheld(n)
    BY <1>6
<1> QED
    BY <1>1, <1>7 DEF Upheld

-----------------------------------------------------------------------------
\* A trial that succeeded.
Trials == [combination : B!Combinations, duration : Nat, size : Nat, ratio : Nat]

\* No combination is twice among them.
Distinct(ss, fs) ==
    /\ B!IsInjective([i \in DOMAIN ss |-> ss[i].combination]) /\ B!IsInjective(fs)
    /\ \A s \in B!ToSet(ss) : s.combination \notin B!ToSet(fs)

\* Combinations are tried one after the other, and none twice.
TriedSoFar ==
    /\ index \in 1..(Len(B!AllCombinations) + 1)
    /\ successes \in Seq(Trials) /\ failures \in Seq(B!Combinations)
    /\ B!Tried(successes, failures) = {B!AllCombinations[i] : i \in 1..(index - 1)}
    /\ Distinct(successes, failures)

\* A benchmark that returned no error has tried them all, and what is recommended is
\* the best of them.
BenchmarkInv ==
    /\ goal \in B!Goals \cup {"report", "none"}
    /\ TriedSoFar
    /\ phase \in {"validate", "try", "returned", "answered"}
    /\ phase \in {"validate", "try"} => ~reported.there
    /\ answer.ok => phase = "answered"
    /\ phase = "answered" => goal # "report"
    /\ B!ReportIsComplete
    /\ B!RecommendationIsBest

\* When all were tried the report is complete.
LEMMA AllAreComplete ==
    ASSUME TriedSoFar, index > Len(B!AllCombinations)
    PROVE  B!Complete(successes, failures)
<1>1. index - 1 = Len(B!AllCombinations)
    BY AllFacts DEF TriedSoFar
<1> QED
    BY <1>1, AllFacts DEF TriedSoFar, B!Complete, Distinct

\* A benchmark begins with nothing tried.
LEMMA BenchmarkInit ==
    B!Init => BenchmarkInv
<1> SUFFICES ASSUME B!Init PROVE BenchmarkInv
    OBVIOUS
<1>1. /\ goal \in B!Goals \cup {"report", "none"} /\ phase = "validate" /\ index = 1
      /\ successes = <<>> /\ failures = <<>> /\ reported.there = FALSE /\ answer.ok = FALSE
    BY DEF B!Init, B!InitWith, B!NoReport, B!NoAnswer
<1>2. Len(B!AllCombinations) \in Nat
    BY AllFacts
<1>3. TriedSoFar
    <2>1. B!Tried(successes, failures) = {}
        BY <1>1 DEF B!Tried, B!ToSet
    <2>2. Distinct(successes, failures)
        BY <1>1 DEF Distinct, B!IsInjective, B!ToSet
    <2> QED
        BY <1>1, <1>2, <2>1, <2>2 DEF TriedSoFar
<1> QED
    BY <1>1, <1>3 DEF BenchmarkInv, B!ReportIsComplete, B!RecommendationIsBest

\* What is in a list after one more is appended.
LEMMA ToSetAppend ==
    ASSUME NEW S, NEW s \in Seq(S), NEW e \in S
    PROVE  B!ToSet(Append(s, e)) = B!ToSet(s) \cup {e}
<1>1. /\ DOMAIN s = 1..Len(s) /\ Len(s) \in Nat
      /\ DOMAIN Append(s, e) = 1..(Len(s) + 1) /\ Append(s, e)[Len(s) + 1] = e
      /\ \A i \in 1..Len(s) : Append(s, e)[i] = s[i]
    OBVIOUS
<1> QED
    BY <1>1 DEF B!ToSet

\* And where it is.
LEMMA AppendFacts ==
    ASSUME NEW S, NEW s \in Seq(S), NEW e \in S
    PROVE  /\ Append(s, e) \in Seq(S) /\ Append(s, e) # <<>>
           /\ DOMAIN s = 1..Len(s) /\ Len(s) \in Nat
           /\ DOMAIN Append(s, e) = 1..(Len(s) + 1) /\ Append(s, e)[Len(s) + 1] = e
           /\ \A i \in 1..Len(s) : Append(s, e)[i] = s[i]
OBVIOUS

\* One more success of a combination that was not tried.
LEMMA DistinctSuccess ==
    ASSUME NEW ss \in Seq(Trials), NEW fs \in Seq(B!Combinations), NEW s \in Trials,
           Distinct(ss, fs), s.combination \notin B!Tried(ss, fs)
    PROVE  /\ Distinct(Append(ss, s), fs)
           /\ B!Tried(Append(ss, s), fs) = B!Tried(ss, fs) \cup {s.combination}
<1> DEFINE ts == Append(ss, s)
<1>1. B!ToSet(ts) = B!ToSet(ss) \cup {s}
    BY ToSetAppend
<1>2. B!Tried(ts, fs) = B!Tried(ss, fs) \cup {s.combination}
    BY <1>1 DEF B!Tried
<1>3. \A t \in B!ToSet(ts) : t.combination \notin B!ToSet(fs)
    BY <1>1 DEF Distinct, B!Tried
<1>4. /\ DOMAIN ss = 1..Len(ss) /\ Len(ss) \in Nat
      /\ DOMAIN ts = 1..(Len(ss) + 1) /\ ts[Len(ss) + 1] = s
      /\ \A i \in 1..Len(ss) : ts[i] = ss[i]
    BY AppendFacts
<1>5. \A i \in 1..Len(ss) : ss[i].combination # s.combination
    BY <1>4 DEF B!Tried, B!ToSet
<1>6. \A i, j \in 1..Len(ss) : ss[i].combination = ss[j].combination => i = j
    BY <1>4 DEF Distinct, B!IsInjective
<1> HIDE DEF ts
<1>7. ASSUME NEW i \in DOMAIN ts, NEW j \in DOMAIN ts, ts[i].combination = ts[j].combination
      PROVE  i = j
    <2>1. (i \in 1..Len(ss) \/ i = Len(ss) + 1) /\ (j \in 1..Len(ss) \/ j = Len(ss) + 1)
        BY <1>4
    <2> QED
        BY <1>4, <1>5, <1>6, <1>7, <2>1
<1>8. B!IsInjective([i \in DOMAIN ts |-> ts[i].combination])
    BY <1>7 DEF B!IsInjective
<1> QED
    BY <1>2, <1>3, <1>8 DEF Distinct, ts

\* The same for a failure.
LEMMA DistinctFailure ==
    ASSUME NEW ss \in Seq(Trials), NEW fs \in Seq(B!Combinations), NEW c \in B!Combinations,
           Distinct(ss, fs), c \notin B!Tried(ss, fs)
    PROVE  /\ Distinct(ss, Append(fs, c))
           /\ B!Tried(ss, Append(fs, c)) = B!Tried(ss, fs) \cup {c}
<1> DEFINE gs == Append(fs, c)
<1>1. B!ToSet(gs) = B!ToSet(fs) \cup {c}
    BY ToSetAppend
<1>2. B!Tried(ss, gs) = B!Tried(ss, fs) \cup {c}
    BY <1>1 DEF B!Tried
<1>3. \A s \in B!ToSet(ss) : s.combination \notin B!ToSet(gs)
    BY <1>1 DEF Distinct, B!Tried
<1>4. /\ DOMAIN fs = 1..Len(fs) /\ Len(fs) \in Nat
      /\ DOMAIN gs = 1..(Len(fs) + 1) /\ gs[Len(fs) + 1] = c
      /\ \A i \in 1..Len(fs) : gs[i] = fs[i]
    BY AppendFacts
<1>5. \A i \in 1..Len(fs) : fs[i] # c
    BY <1>4 DEF B!Tried, B!ToSet
<1>6. \A i, j \in 1..Len(fs) : fs[i] = fs[j] => i = j
    BY <1>4 DEF Distinct, B!IsInjective
<1> HIDE DEF gs
<1>7. B!IsInjective(gs)
    BY <1>4, <1>5, <1>6 DEF B!IsInjective
<1> QED
    BY <1>2, <1>3, <1>7 DEF Distinct, gs

\* A trial adds the next combination, which was not tried before.
LEMMA TryInv ==
    ASSUME BenchmarkInv, B!Try
    PROVE  BenchmarkInv'
<1> DEFINE c == B!AllCombinations[index]
<1>1. /\ phase = "try" /\ phase' = "try"
      /\ index \in 1..Len(B!AllCombinations) /\ index' = index + 1
      /\ UNCHANGED <<goal, reported, answer>>
    BY AllFacts DEF B!Try, BenchmarkInv, TriedSoFar
<1>2. /\ Len(B!AllCombinations) \in Nat /\ DOMAIN B!AllCombinations = 1..Len(B!AllCombinations)
      /\ c \in B!Combinations
    BY <1>1, AllFacts
<1>3. c \notin B!Tried(successes, failures)
    <2>1. \A i \in 1..(index - 1) : i \in DOMAIN B!AllCombinations /\ i # index
        BY <1>1, <1>2
    <2>2. \A i \in 1..(index - 1) : B!AllCombinations[i] # c
        BY <1>1, <1>2, <2>1, AllFacts DEF B!IsInjective
    <2> QED
        BY <2>2 DEF BenchmarkInv, TriedSoFar
<1>4. {B!AllCombinations[i] : i \in 1..(index' - 1)} =
          {B!AllCombinations[i] : i \in 1..(index - 1)} \cup {c}
    <2>1. index' - 1 = index
        BY <1>1
    <2>2. \A i : i \in 1..index <=> i \in 1..(index - 1) \/ i = index
        BY <1>1
    <2> QED
        BY <2>1, <2>2
<1>5. TriedSoFar'
    <2> HIDE DEF c
    <2>1. index' \in 1..(Len(B!AllCombinations) + 1)
        BY <1>1, <1>2
    <2>2. CASE /\ \E d \in Durations, n \in Sizes :
                    successes' = Append(successes, [combination |-> c, duration |-> d, size |-> n,
                                                    ratio |-> B!Ratio(n)])
               /\ UNCHANGED failures
        <3>1. PICK d \in Durations, n \in Sizes :
                successes' = Append(successes, [combination |-> c, duration |-> d, size |-> n,
                                                ratio |-> B!Ratio(n)])
            BY <2>2
        <3> DEFINE s == [combination |-> c, duration |-> d, size |-> n, ratio |-> B!Ratio(n)]
        <3>2. d \in Nat /\ n \in Nat /\ OriginalSize \in Nat
            BY BenchmarkAssumption DEF B!ConstantsAssumption
        <3>3. B!Ratio(n) \in Nat
            BY <3>2 DEF B!Ratio
        <3>4. s \in Trials /\ s.combination = c
            BY <1>2, <3>2, <3>3 DEF Trials
        <3> HIDE DEF s
        <3>5. successes' = Append(successes, s)
            BY <3>1 DEF s
        <3>6. /\ Distinct(successes', failures')
              /\ B!Tried(successes', failures') = B!Tried(successes, failures) \cup {c}
            BY <1>3, <2>2, <3>4, <3>5, DistinctSuccess DEF BenchmarkInv, TriedSoFar
        <3>7. successes' \in Seq(Trials) /\ failures' \in Seq(B!Combinations)
            BY <2>2, <3>4, <3>5 DEF BenchmarkInv, TriedSoFar
        <3> QED
            BY <1>4, <2>1, <3>6, <3>7 DEF BenchmarkInv, TriedSoFar
    <2>3. CASE failures' = Append(failures, c) /\ UNCHANGED successes
        <3>1. /\ Distinct(successes', failures')
              /\ B!Tried(successes', failures') = B!Tried(successes, failures) \cup {c}
            BY <1>2, <1>3, <2>3, DistinctFailure DEF BenchmarkInv, TriedSoFar
        <3>2. successes' \in Seq(Trials) /\ failures' \in Seq(B!Combinations)
            BY <1>2, <2>3 DEF BenchmarkInv, TriedSoFar
        <3> QED
            BY <1>4, <2>1, <3>1, <3>2 DEF BenchmarkInv, TriedSoFar
    <2> QED
        BY <2>2, <2>3 DEF B!Try, c
<1> QED
    BY <1>1, <1>5 DEF BenchmarkInv, B!ReportIsComplete, B!RecommendationIsBest

\* What is recommended is one of the best there are, and the first of them by name.
LEMMA RecommendInv ==
    ASSUME BenchmarkInv, B!Recommend
    PROVE  BenchmarkInv'
<1>1. /\ phase = "returned" /\ phase' = "answered" /\ goal \in B!Goals
      /\ UNCHANGED <<goal, index, successes, failures, reported, err>>
    BY DEF B!Recommend
<1>2. TriedSoFar' /\ successes \in Seq(Trials)
    BY <1>1 DEF BenchmarkInv, TriedSoFar
<1>3. \A x \in Trials : B!Score(x) \in Int
    BY BenchmarkAssumption DEF Trials, B!Score, B!ConstantsAssumption
<1>4. ASSUME successes # <<>>
      PROVE  B!RecommendationIsBest'
    <2> DEFINE ss == successes
    <2>1. PICK xs \in B!Sorted(ss) :
              answer' = [ok |-> TRUE, combination |-> B!Best(xs).combination]
        BY <1>4 DEF B!Recommend
    <2>2. PICK p \in B!Bijection(DOMAIN ss, DOMAIN ss) :
              /\ xs = [i \in DOMAIN ss |-> ss[p[i]]]
              /\ \A i, j \in DOMAIN ss :
                    i < j => ~B!Before(ss[p[j]].combination, ss[p[i]].combination)
        BY <2>1 DEF B!Sorted
    <2> DEFINE n == Len(ss)
    <2>3. n \in Nat \ {0} /\ DOMAIN ss = 1..n /\ \A i \in 1..n : ss[i] \in Trials
        BY <1>2, <1>4
    <2>4. /\ \A i \in 1..n : p[i] \in 1..n
          /\ \A j \in 1..n : \E i \in 1..n : p[i] = j
        BY <2>2, <2>3 DEF B!Bijection, B!Injection, B!Surjection
    <2> HIDE DEF n
    <2>5. xs = [i \in 1..n |-> ss[p[i]]] /\ xs \in Seq(Trials) /\ DOMAIN xs = 1..n /\ Len(xs) = n
        <3>1. xs = [i \in 1..n |-> ss[p[i]]]
            BY <2>2, <2>3
        <3>2. \A i \in 1..n : ss[p[i]] \in Trials
            BY <2>3, <2>4
        <3> HIDE DEF ss
        <3> QED
            BY <2>3, <3>1, <3>2
    <2>6. \A i \in 1..n : xs[i] = ss[p[i]] /\ xs[i] \in Trials /\ B!Score(xs[i]) \in Int
        BY <1>3, <2>3, <2>4, <2>5
    <2>7. PICK b \in 1..n :
              /\ B!Best(xs) = xs[b]
              /\ \A j \in 1..n : \/ B!Score(xs[j]) < B!Score(xs[b])
                                 \/ B!Score(xs[j]) = B!Score(xs[b]) /\ b <= j
        <3>1. \A i \in 1..n : B!Score(xs[i]) \in Int
            BY <2>6
        <3>2. n \in Nat \ {0} /\ DOMAIN xs = 1..n /\ Len(xs) = n
            BY <2>3, <2>5
        <3> QED
            BY <3>1, <3>2, BestFacts
    <2>8. xs[b] \in B!ToSet(ss)
        BY <2>3, <2>4, <2>6 DEF B!ToSet
    <2>9. ASSUME NEW y \in B!ToSet(ss)
          PROVE  \/ B!Score(y) < B!Score(xs[b])
                 \/ B!Score(y) = B!Score(xs[b]) /\ ~B!Before(y.combination, xs[b].combination)
        <3>1. PICK k \in 1..n : ss[k] = y
            BY <2>3 DEF B!ToSet
        <3>2. PICK j \in 1..n : p[j] = k
            BY <2>4
        <3>3. xs[j] = y
            BY <2>6, <3>1, <3>2
        <3>4. CASE b = j
            <4>1. xs[b].combination.codec \in Nat /\ xs[b].combination.cipher \in Nat
                <5>1. B!ToSet(CodecOrder) \subseteq Nat /\ B!ToSet(CipherOrder) \subseteq Nat
                    BY BenchmarkAssumption DEF B!ToSet, B!ConstantsAssumption
                <5>2. xs[b].combination \in B!Combinations
                    BY <2>6 DEF Trials
                <5> QED
                    BY <5>1, <5>2 DEF B!Combinations
            <4>2. ~B!Before(xs[b].combination, xs[b].combination)
                BY <4>1 DEF B!Before
            <4> QED
                BY <2>6, <3>3, <3>4, <4>2
        <3>5. CASE b < j
            <4>1. ~B!Before(xs[j].combination, xs[b].combination)
                BY <2>2, <2>3, <2>6, <3>5
            <4> QED
                BY <2>7, <3>3, <4>1
        <3>6. CASE ~(b <= j)
            BY <2>7, <3>3, <3>6
        <3>7. b \in Int /\ j \in Int
            BY <2>3
        <3> QED
            BY <3>4, <3>5, <3>6, <3>7
    <2>10. \A x : B!Score(x)' = B!Score(x)
        BY <1>1 DEF B!Score
    <2>11. answer'.combination = xs[b].combination /\ successes' = ss
        BY <1>1, <2>1, <2>7
    <2> QED
        BY <2>8, <2>9, <2>10, <2>11 DEF B!RecommendationIsBest
<1>5. CASE successes # <<>>
    BY <1>1, <1>2, <1>4, <1>5 DEF BenchmarkInv, B!ReportIsComplete, B!Goals
<1>6. CASE successes = <<>>
    <2>1. answer'.ok = FALSE
        BY <1>6 DEF B!Recommend, B!NoAnswer
    <2> QED
        BY <1>1, <1>2, <2>1 DEF BenchmarkInv, B!ReportIsComplete, B!RecommendationIsBest, B!Goals
<1> QED
    BY <1>5, <1>6

\* The other steps try nothing and recommend nothing.
LEMMA OthersInv ==
    ASSUME BenchmarkInv,
           B!Validate \/ B!TryCancelled \/ B!WriteReport \/ B!Cancel \/ UNCHANGED B!vars
    PROVE  BenchmarkInv'
<1>1. CASE B!Validate
    BY <1>1 DEF B!Validate, B!Return, BenchmarkInv, TriedSoFar, B!ReportIsComplete,
                B!RecommendationIsBest
<1>2. CASE B!TryCancelled
    BY <1>2 DEF B!TryCancelled, B!Return, BenchmarkInv, TriedSoFar, B!ReportIsComplete,
                B!RecommendationIsBest
<1>3. CASE B!WriteReport
    <2>1. B!Complete(successes, failures)
        BY <1>3, AllAreComplete DEF B!WriteReport, BenchmarkInv
    <2>2. /\ phase = "try" /\ phase' = "returned"
          /\ UNCHANGED <<goal, index, successes, failures, answer>>
          /\ err' = "nil" => successes # <<>>
        BY <1>3 DEF B!WriteReport, B!Return
    <2>3. /\ UNCHANGED reported
             \/ reported' = [there |-> TRUE, successes |-> successes, failures |-> failures]
          /\ goal = "report" /\ err' = "nil" => reported'.there
        <3>1. CASE /\ goal = "report" /\ ~cancelled
                   /\ reported' = [there |-> TRUE, successes |-> successes, failures |-> failures]
            BY <3>1
        <3>2. CASE goal = "report" /\ err' \in {"no success", "report"} /\ UNCHANGED reported
            BY <3>2
        <3>3. CASE goal # "report" /\ UNCHANGED reported
            BY <3>3
        <3> QED
            BY <1>3, <3>1, <3>2, <3>3 DEF B!WriteReport, B!Return
    <2>4. reported'.there => B!Complete(reported'.successes, reported'.failures)
        BY <2>1, <2>2, <2>3 DEF BenchmarkInv
    <2> HIDE DEF B!Complete
    <2>5. TriedSoFar'
        BY <2>2 DEF BenchmarkInv, TriedSoFar
    <2>6. B!ReportIsComplete'
        BY <2>1, <2>2, <2>3, <2>4 DEF B!ReportIsComplete
    <2> QED
        BY <2>2, <2>3, <2>5, <2>6 DEF BenchmarkInv, B!RecommendationIsBest
<1>4. CASE B!Cancel
    BY <1>4 DEF B!Cancel, BenchmarkInv, TriedSoFar, B!ReportIsComplete,
                B!RecommendationIsBest
<1>5. CASE UNCHANGED B!vars
    BY <1>5 DEF B!vars, BenchmarkInv, TriedSoFar, B!ReportIsComplete,
                B!RecommendationIsBest, B!Score
<1> QED
    BY <1>1, <1>2, <1>3, <1>4, <1>5

\* A benchmark without an error, and a published report, account for every combination
\* exactly once, wherever it is cancelled and whatever fails, and a recommendation is
\* the best of what succeeded, the first by name among equals, for any numbers of
\* codecs and ciphers (benchmark.go:47-91, recommend.go:44-74).
THEOREM BenchmarksAreComplete ==
    B!Spec => []BenchmarkIsComplete
<1>1. BenchmarkInv /\ [B!Next]_(B!vars) => BenchmarkInv'
    BY TryInv, RecommendInv, OthersInv DEF B!Next
<1>2. BenchmarkInv => BenchmarkIsComplete
    BY DEF BenchmarkInv, BenchmarkIsComplete, B!BenchmarkIsComplete
<1> QED
    BY <1>1, <1>2, BenchmarkInit, PTL DEF B!Spec

-----------------------------------------------------------------------------
(* Tui. *)

OpIds == 0..MaxOps

TuiTypeOK ==
    /\ screen \in Ui!Screens
    /\ form \in Operations \cup {None}
    /\ pendingKind \in Operations \cup {None} /\ pending \in Operations \cup {None}
    /\ typed \subseteq Operations
    /\ operationID \in OpIds /\ cancel \in OpIds /\ cancelRequested \in BOOLEAN
    /\ progress \in [id : OpIds, event : 0..MaxEvents]
    /\ shown \in OpIds
    /\ job \in [Ui!Ids -> {"none", "running", "returned"}]
    /\ withdrawn \subseteq Ui!Ids
    /\ events \in [Ui!Ids -> 0..MaxEvents] /\ emitted \in [Ui!Ids -> 0..MaxEvents]
    /\ waiter \in [Ui!Ids -> {"none", "waiting", "ended"}]
    /\ msgs \subseteq Ui!Messages
    /\ copies \subseteq OpIds

\* The request waits on the confirmation screen only, and is of the kind shown there.
RequestWaits ==
    /\ screen = "confirm" => pending = pendingKind /\ form = pendingKind
    /\ screen \notin {"confirm", "killed"} => pending = None

\* Nothing of an operation exists before it is started.
NotStarted ==
    /\ \A i \in Ui!Ids : i > operationID =>
          job[i] = "none" /\ waiter[i] = "none" /\ events[i] = 0 /\ emitted[i] = 0
    /\ \A m \in msgs : m.id <= operationID
    /\ progress.id <= operationID

\* An operation reports its end once, after it has returned, and the running
\* screen waits for that report.
DoneOnce ==
    \A m \in msgs : m.type = "done" =>
        /\ job[m.id] = "returned"
        /\ m.id = operationID => screen \in {"running"} \cup Ui!Ended
        /\ \A n \in msgs : n.type = "done" /\ n.id = m.id => n = m

\* The events of an operation that may still be shown: shown, on its way, in
\* the channel, each newer than the one before.
EventOrder ==
    \A i \in Ui!Ids :
        /\ events[i] <= emitted[i]
        /\ i = progress.id => /\ progress.event <= emitted[i]
                              /\ events[i] # 0 => events[i] > progress.event
        /\ \A m \in msgs : m.type = "progress" /\ m.id = i =>
              /\ waiter[i] = "ended"
              /\ m.event <= emitted[i]
              /\ events[i] # 0 => events[i] > m.event
              /\ i = progress.id => m.event > progress.event
              /\ \A n \in msgs : n.type = "progress" /\ n.id = i => n = m

ScreenInv == Ui!SecretsConfined /\ Ui!CredentialsWiped /\ Ui!OneOperation /\ Ui!ShownIsCurrent /\ RequestWaits
MessageInv == NotStarted /\ DoneOnce /\ EventOrder

TuiInv == TuiTypeOK /\ ScreenInv /\ MessageInv

USE TuiAssumption DEF Ui!ConstantsAssumption, Ui!Ids, OpIds, Ui!Nobody

-----------------------------------------------------------------------------
\* What messages have.
LEMMA MessageFields ==
    \A m \in Ui!Messages :
        /\ m.id \in Ui!Ids
        /\ m.type \in {"progress", "closed", "done"}
        /\ m.type = "progress" => m.event \in 1..MaxEvents
  BY DEF Ui!Messages

LEMMA TuiTypeInv == TuiTypeOK /\ [Ui!Next]_(Ui!vars) => TuiTypeOK'
<1> SUFFICES ASSUME TuiTypeOK, [Ui!Next]_(Ui!vars) PROVE TuiTypeOK'
  OBVIOUS
<1> USE DEF TuiTypeOK, Ui!fields, Ui!control, Ui!display, Ui!goroutines, Ui!Go
<1>1. CASE Ui!Menu
  BY <1>1 DEF Ui!Menu, Ui!Screens
<1>2. CASE Ui!Type \/ Ui!OpenPicker \/ Ui!ClosePicker \/ Ui!OpenDropdown \/ Ui!CloseDropdown
  BY <1>2 DEF Ui!Type, Ui!OpenPicker, Ui!ClosePicker, Ui!OpenDropdown, Ui!CloseDropdown, Ui!ApplyDropdown, Ui!Screens, Ui!Overlays
<1>3. CASE Ui!Submit
  BY <1>3 DEF Ui!Submit, Ui!Screens
<1>4. CASE Ui!EscConfirm
  BY <1>4 DEF Ui!EscConfirm, Ui!DiscardPending, Ui!Screens
<1>5. CASE Ui!EscHome \/ Ui!Quit \/ Ui!Terminate
  BY <1>5 DEF Ui!EscHome, Ui!Quit, Ui!Terminate, Ui!ClearSecrets, Ui!DiscardPending, Ui!Screens, Ui!Ended
<1>6. CASE Ui!StartOperation
  <2>1. operationID' \in Ui!Ids /\ operationID' = Ui!Started
    BY <1>6 DEF Ui!StartOperation, Ui!Started
  <2>2. progress' \in [id : OpIds, event : 0..MaxEvents]
    BY <1>6, <2>1 DEF Ui!StartOperation
  <2>3. /\ job' \in [Ui!Ids -> {"none", "running", "returned"}]
        /\ waiter' \in [Ui!Ids -> {"none", "waiting", "ended"}]
    BY <1>6, <2>1 DEF Ui!StartOperation
  <2>4. copies' \subseteq OpIds
    BY <1>6, <2>1 DEF Ui!StartOperation
  <2> QED
    BY <1>6, <2>1, <2>2, <2>3, <2>4 DEF Ui!StartOperation, Ui!Screens
<1>7. CASE Ui!RequestCancel
  <2>1. cancel \in Ui!Ids
    BY <1>7 DEF Ui!RequestCancel
  <2> QED
    BY <1>7, <2>1 DEF Ui!RequestCancel
<1>8. ASSUME NEW m \in msgs, Ui!Update(m) PROVE TuiTypeOK'
  <2>1. /\ m.id \in Ui!Ids /\ (m.type = "progress" => m.event \in 1..MaxEvents)
        /\ msgs' \subseteq Ui!Messages
    BY <1>8, MessageFields DEF Ui!Update
  <2>2. CASE Ui!Progress(m)
    <3>1. progress' \in [id : OpIds, event : 0..MaxEvents]
      <4>1. CASE Ui!StaleProgress(m)
        BY <2>2, <4>1 DEF Ui!Progress
      <4>2. CASE ~Ui!StaleProgress(m)
        <5>1. progress' = [id |-> m.id, event |-> m.event] /\ m.type = "progress"
          BY <2>2, <4>2 DEF Ui!Progress
        <5> QED
          BY <2>1, <5>1
      <4> QED
        BY <4>1, <4>2
    <3>2. waiter' \in [Ui!Ids -> {"none", "waiting", "ended"}]
      <4>1. CASE Ui!StaleProgress(m)
        BY <2>2, <4>1 DEF Ui!Progress
      <4>2. CASE ~Ui!StaleProgress(m)
        BY <2>1, <2>2, <4>2 DEF Ui!Progress
      <4> QED
        BY <4>1, <4>2
    <3> QED
      BY <2>1, <2>2, <3>1, <3>2 DEF Ui!Progress
  <2>3. CASE Ui!Closed(m) \/ Ui!StaleDone(m)
    BY <2>1, <2>3 DEF Ui!Closed, Ui!StaleDone
  <2>4. CASE Ui!Done(m)
    <3>1. screen' \in Ui!Screens /\ shown' \in OpIds
      BY <2>1, <2>4 DEF Ui!Done, Ui!Screens
    <3>2. withdrawn' \subseteq Ui!Ids
      BY <2>4 DEF Ui!Done
    <3>3. /\ cancel' \in OpIds /\ cancelRequested' \in BOOLEAN
      <4>1. cancel' = 0 /\ cancelRequested' = FALSE
        BY <2>4, Zenon DEF Ui!Done
      <4>2. 0 \in OpIds /\ FALSE \in BOOLEAN
        OBVIOUS
      <4> QED
        BY <4>1, <4>2
    <3>4. UNCHANGED <<form, pendingKind, pending, typed, operationID, progress, job, events,
                      emitted, waiter, copies>>
      BY <2>4 DEF Ui!Done
    <3> QED
      BY <2>1, <3>1, <3>2, <3>3, <3>4
  <2> QED
    BY <1>8, <2>2, <2>3, <2>4 DEF Ui!Update
<1>9. ASSUME NEW i \in Ui!Ids, Ui!Operation(i) PROVE TuiTypeOK'
  <2>1. CASE Ui!Emit(i)
    BY <2>1, SMTT(30) DEF Ui!Emit, Ui!NextEvent
  <2>2. CASE Ui!Return(i)
    <3>1. msgs' \subseteq Ui!Messages
      BY <2>2 DEF Ui!Return, Ui!Messages
    <3> QED
      BY <2>2, <3>1 DEF Ui!Return
  <2>3. CASE Ui!WaitProgress(i)
    <3>1. msgs' \subseteq Ui!Messages
      BY <2>3 DEF Ui!WaitProgress, Ui!Messages
    <3> QED
      <4>1. waiter' \in [Ui!Ids -> {"none", "waiting", "ended"}]
        BY <2>3 DEF Ui!WaitProgress
      <4>2. events' = [events EXCEPT ![i] = 0] \/ events' = events
        BY <2>3, Zenon DEF Ui!WaitProgress
      <4>3. events' \in [Ui!Ids -> 0..MaxEvents]
        <5>1. events \in [Ui!Ids -> 0..MaxEvents] /\ 0 \in 0..MaxEvents
          OBVIOUS
        <5> HIDE DEF TuiTypeOK
        <5> QED
          BY <4>2, <5>1
      <4> QED
        BY <2>3, <3>1, <4>1, <4>3 DEF Ui!WaitProgress
  <2> QED
    BY <1>9, <2>1, <2>2, <2>3 DEF Ui!Operation
<1>10. CASE UNCHANGED Ui!vars
  BY <1>10 DEF Ui!vars
<1> HIDE DEF TuiTypeOK
<1> QED
  BY <1>1, <1>2, <1>3, <1>4, <1>5, <1>6, <1>7, <1>8, <1>9, <1>10 DEF Ui!Next, Ui!Key

LEMMA TuiInitInv == Ui!Init => TuiInv
<1> SUFFICES ASSUME Ui!Init PROVE TuiInv
  OBVIOUS
<1>1. TuiTypeOK
  <2>1. 0 \in OpIds /\ 0 \in 0..MaxEvents
    OBVIOUS
  <2> QED
    BY <2>1 DEF Ui!Init, TuiTypeOK, Ui!Screens
<1>2. ScreenInv
  BY DEF Ui!Init, ScreenInv, Ui!Overlays, Ui!SecretsConfined, Ui!CredentialsWiped, Ui!OneOperation, Ui!ShownIsCurrent, RequestWaits
<1>3. MessageInv
  BY DEF Ui!Init, MessageInv, NotStarted, DoneOnce, EventOrder
<1> QED
  BY <1>1, <1>2, <1>3 DEF TuiInv

\* What the proofs below use of TypeOK.
LEMMA TuiTypeFacts ==
    ASSUME TuiTypeOK
    PROVE  /\ screen \in Ui!Screens
           /\ operationID \in Nat /\ progress.id \in Nat /\ progress.event \in Nat
           /\ DOMAIN job = Ui!Ids /\ DOMAIN waiter = Ui!Ids /\ DOMAIN events = Ui!Ids /\ DOMAIN emitted = Ui!Ids
           /\ \A i \in Ui!Ids : events[i] \in Nat /\ emitted[i] \in Nat
           /\ \A m \in msgs : m.id \in Ui!Ids /\ (m.type = "progress" => m.event \in Nat \ {0})
  BY MessageFields DEF TuiTypeOK

LEMMA KeyScreenInv == ASSUME TuiInv, Ui!Key PROVE ScreenInv'
<1> USE TuiTypeFacts DEF TuiInv, ScreenInv, Ui!Screens, Ui!Overlays, Ui!Ended, Ui!SecretsConfined, Ui!CredentialsWiped, Ui!OneOperation,
         Ui!ShownIsCurrent, RequestWaits, Ui!fields, Ui!control, Ui!display, Ui!goroutines, Ui!Go
<1>1. CASE Ui!Menu
  BY <1>1 DEF Ui!Menu
<1>2. CASE Ui!Type
  BY <1>2 DEF Ui!Type
<1>3. CASE Ui!OpenPicker \/ Ui!OpenDropdown
  BY <1>3 DEF Ui!OpenPicker, Ui!OpenDropdown
<1>4. CASE Ui!ClosePicker \/ Ui!CloseDropdown
  BY <1>4 DEF Ui!ClosePicker, Ui!CloseDropdown, Ui!ApplyDropdown
<1>5. CASE Ui!Submit
  BY <1>5 DEF Ui!Submit
<1>6. CASE Ui!StartOperation
  BY <1>6 DEF Ui!StartOperation, Ui!Started
<1>7. CASE Ui!RequestCancel
  BY <1>7 DEF Ui!RequestCancel
<1>8. CASE Ui!EscConfirm
  BY <1>8 DEF Ui!EscConfirm, Ui!DiscardPending
<1>9. CASE Ui!EscHome
  BY <1>9 DEF Ui!EscHome, Ui!ClearSecrets, Ui!DiscardPending
<1>10. CASE Ui!Quit
  BY <1>10 DEF Ui!Quit, Ui!ClearSecrets, Ui!DiscardPending
<1> QED
  BY <1>1, <1>2, <1>3, <1>4, <1>5, <1>6, <1>7, <1>8, <1>9, <1>10 DEF Ui!Key

LEMMA UpdateScreenInv == ASSUME TuiInv, NEW m \in msgs, Ui!Update(m) PROVE ScreenInv'
<1> USE TuiTypeFacts DEF TuiInv, Ui!Update, ScreenInv, Ui!Overlays, Ui!Ended, Ui!SecretsConfined, Ui!CredentialsWiped, Ui!OneOperation,
         Ui!ShownIsCurrent, RequestWaits, Ui!fields, Ui!control, Ui!display, Ui!goroutines
<1>1. CASE Ui!Progress(m)
  BY <1>1 DEF Ui!Progress, Ui!StaleProgress
<1>2. CASE Ui!Closed(m) \/ Ui!StaleDone(m)
  BY <1>2 DEF Ui!Closed, Ui!StaleDone
<1>3. CASE Ui!Done(m)
  BY <1>3 DEF Ui!Done, MessageInv, DoneOnce
<1> QED
  BY <1>1, <1>2, <1>3

LEMMA OperationScreenInv == ASSUME TuiInv, NEW i \in Ui!Ids, Ui!Operation(i) PROVE ScreenInv'
<1> USE TuiTypeFacts DEF TuiInv, Ui!Operation, ScreenInv, Ui!Overlays, Ui!Ended, Ui!SecretsConfined, Ui!CredentialsWiped, Ui!OneOperation,
         Ui!ShownIsCurrent, RequestWaits, Ui!fields, Ui!control, Ui!display, Ui!goroutines
<1>1. CASE Ui!Emit(i) \/ Ui!WaitProgress(i)
  BY <1>1, SMTT(30) DEF Ui!Emit, Ui!WaitProgress
<1>2. CASE Ui!Return(i)
  BY <1>2 DEF Ui!Return
<1> QED
  BY <1>1, <1>2

LEMMA KeyMessageInv == ASSUME TuiInv, Ui!Key PROVE MessageInv'
<1> USE TuiTypeFacts DEF TuiInv, MessageInv, NotStarted, DoneOnce, EventOrder, Ui!display, Ui!control, Ui!goroutines, Ui!Go
<1>1. CASE Ui!Menu \/ Ui!Type \/ Ui!OpenPicker \/ Ui!ClosePicker \/ Ui!OpenDropdown \/ Ui!CloseDropdown
            \/ Ui!Submit \/ Ui!EscConfirm \/ Ui!EscHome \/ Ui!Quit
  <2>1. /\ UNCHANGED <<operationID, progress, Ui!goroutines>>
        /\ screen # "running"
        /\ screen \in Ui!Ended => screen' \in Ui!Ended
    BY <1>1 DEF Ui!Menu, Ui!Type, Ui!OpenPicker, Ui!ClosePicker, Ui!OpenDropdown, Ui!CloseDropdown, Ui!Submit, Ui!EscConfirm, Ui!EscHome, Ui!Quit, Ui!Ended
  <2> QED
    BY <2>1
<1>2. CASE Ui!StartOperation
  BY <1>2, SMTT(30) DEF Ui!StartOperation, Ui!Started, Ui!Ended
<1>3. CASE Ui!RequestCancel
  BY <1>3 DEF Ui!RequestCancel
<1> QED
  BY <1>1, <1>2, <1>3 DEF Ui!Key

LEMMA UpdateMessageInv == ASSUME TuiInv, NEW m \in msgs, Ui!Update(m) PROVE MessageInv'
<1> USE TuiTypeFacts DEF TuiInv, Ui!fields, Ui!control, Ui!display, Ui!goroutines
<1>1. msgs' \subseteq msgs /\ m \notin msgs'
  BY DEF Ui!Update
<1>2. CASE Ui!Progress(m) /\ ~Ui!StaleProgress(m)
  <2>1. /\ m.type = "progress" /\ m.id = operationID
        /\ progress' = [id |-> m.id, event |-> m.event]
        /\ waiter' = [waiter EXCEPT ![m.id] = "waiting"]
        /\ UNCHANGED <<screen, operationID, job, events, emitted>>
    BY <1>2 DEF Ui!Progress, Ui!StaleProgress
  <2>2. NotStarted'
    BY <1>1, <2>1 DEF MessageInv, NotStarted
  <2>3. DoneOnce'
    BY <1>1, <2>1 DEF MessageInv, DoneOnce
  <2>4. \A n \in msgs' : n.type = "progress" => n.id # m.id
    BY <1>1, <2>1 DEF MessageInv, EventOrder
  <2>5. EventOrder'
    BY <1>1, <2>1, <2>4 DEF MessageInv, EventOrder
  <2> QED
    BY <2>2, <2>3, <2>5 DEF MessageInv
<1>3. CASE (Ui!Progress(m) /\ Ui!StaleProgress(m)) \/ Ui!Closed(m) \/ Ui!StaleDone(m)
  <2>1. UNCHANGED <<screen, operationID, progress, job, events, emitted, waiter>>
    BY <1>3 DEF Ui!Progress, Ui!Closed, Ui!StaleDone
  <2> QED
    BY <1>1, <2>1 DEF MessageInv, NotStarted, DoneOnce, EventOrder
<1>4. CASE Ui!Done(m)
  <2>1. /\ m.type = "done" /\ m.id = operationID
        /\ UNCHANGED <<operationID, progress, job, events, emitted, waiter>>
    BY <1>4 DEF Ui!Done
  <2>2. NotStarted' /\ EventOrder'
    BY <1>1, <2>1 DEF MessageInv, NotStarted, EventOrder
  <2>3. \A n \in msgs' : n.type = "done" => n.id # operationID
    BY <1>1, <2>1 DEF MessageInv, DoneOnce
  <2>4. DoneOnce'
    BY <1>1, <2>1, <2>3 DEF MessageInv, DoneOnce
  <2> QED
    BY <2>2, <2>4 DEF MessageInv
<1> QED
  BY <1>2, <1>3, <1>4 DEF Ui!Update

LEMMA OperationMessageInv == ASSUME TuiInv, NEW i \in Ui!Ids, Ui!Operation(i) PROVE MessageInv'
<1> USE TuiTypeFacts DEF TuiInv, Ui!fields, Ui!control, Ui!display, Ui!goroutines
<1>1. CASE Ui!Emit(i)
  <2>1. /\ job[i] = "running" /\ emitted' = [emitted EXCEPT ![i] = emitted[i] + 1]
        /\ events' = [events EXCEPT ![i] = emitted[i] + 1]
        /\ UNCHANGED <<screen, operationID, progress, job, waiter, msgs>>
    BY <1>1 DEF Ui!Emit, Ui!NextEvent
  <2>2. NotStarted' /\ DoneOnce'
    BY <2>1 DEF MessageInv, NotStarted, DoneOnce
  <2>3. events'[i] = emitted[i] + 1 /\ emitted'[i] = emitted[i] + 1
    BY <2>1
  <2>4. \A j \in Ui!Ids \ {i} : events'[j] = events[j] /\ emitted'[j] = emitted[j]
    BY <2>1
  <2>5. EventOrder'
    <3> SUFFICES ASSUME NEW j \in Ui!Ids PROVE EventOrder!(j)'
      BY DEF EventOrder
    <3>1. CASE j = i
      BY <2>1, <2>3, <3>1 DEF MessageInv, EventOrder
    <3>2. CASE j # i
      BY <2>1, <2>4, <3>2 DEF MessageInv, EventOrder
    <3> QED
      BY <3>1, <3>2
  <2> QED
    BY <2>2, <2>5 DEF MessageInv
<1>2. CASE Ui!Return(i)
  BY <1>2, SMTT(30) DEF Ui!Operation, Ui!Return, ScreenInv, Ui!OneOperation, Ui!Ended, MessageInv, NotStarted, DoneOnce, EventOrder
<1>3. CASE Ui!WaitProgress(i) /\ events[i] # 0
  <2> DEFINE sent == [type |-> "progress", id |-> i, event |-> events[i]]
  <2>2. /\ waiter[i] = "waiting" /\ waiter' = [waiter EXCEPT ![i] = "ended"]
        /\ msgs' = msgs \cup {sent} /\ events' = [events EXCEPT ![i] = 0]
        /\ UNCHANGED <<screen, operationID, progress, job, emitted>>
    BY <1>3 DEF Ui!WaitProgress
  <2>3. sent.type = "progress" /\ sent.id = i /\ sent.event = events[i]
    OBVIOUS
  <2> HIDE DEF sent
  <2>4. NotStarted' /\ DoneOnce'
    BY <2>2, <2>3, SMTT(30) DEF MessageInv, NotStarted, DoneOnce
  <2>5. \A m \in msgs : m.type = "progress" => m.id # i
    BY <2>2 DEF MessageInv, EventOrder
  <2>6. EventOrder'
    BY <1>3, <2>2, <2>3, <2>5, SMTT(30) DEF MessageInv, EventOrder
  <2> QED
    BY <2>4, <2>6 DEF MessageInv
<1>4. CASE Ui!WaitProgress(i) /\ events[i] = 0
  <2> DEFINE sent == [type |-> "closed", id |-> i]
  <2>2. /\ waiter[i] = "waiting" /\ waiter' = [waiter EXCEPT ![i] = "ended"]
        /\ msgs' = msgs \cup {sent}
        /\ UNCHANGED <<screen, operationID, progress, job, events, emitted>>
    BY <1>4 DEF Ui!WaitProgress
  <2>3. sent.type = "closed" /\ sent.id = i
    OBVIOUS
  <2> HIDE DEF sent
  <2>4. NotStarted'
    BY <2>2, <2>3 DEF MessageInv, NotStarted
  <2>5. DoneOnce'
    BY <2>2, <2>3 DEF MessageInv, DoneOnce
  <2>6. EventOrder'
    BY <2>2, <2>3 DEF MessageInv, EventOrder
  <2> QED
    BY <2>4, <2>5, <2>6 DEF MessageInv
<1> QED
  BY <1>1, <1>2, <1>3, <1>4 DEF Ui!Operation

LEMMA TuiNextInv == TuiInv /\ [Ui!Next]_(Ui!vars) => TuiInv'
<1> SUFFICES ASSUME TuiInv, [Ui!Next]_(Ui!vars) PROVE TuiInv'
  OBVIOUS
<1>1. TuiTypeOK'
  BY TuiTypeInv DEF TuiInv
<1>2. ScreenInv' /\ MessageInv'
  <2>1. CASE Ui!Key
    BY <2>1, KeyScreenInv, KeyMessageInv
  <2>2. CASE Ui!Terminate
    BY <2>2 DEF Ui!Terminate, TuiInv, ScreenInv, MessageInv, Ui!SecretsConfined, Ui!CredentialsWiped, Ui!OneOperation,
         Ui!ShownIsCurrent, RequestWaits, NotStarted, DoneOnce, EventOrder, Ui!Overlays, Ui!Ended,
         Ui!fields, Ui!control, Ui!display, Ui!goroutines
  <2>3. ASSUME NEW m \in msgs, Ui!Update(m) PROVE ScreenInv' /\ MessageInv'
    BY <2>3, UpdateScreenInv, UpdateMessageInv
  <2>4. ASSUME NEW i \in Ui!Ids, Ui!Operation(i) PROVE ScreenInv' /\ MessageInv'
    BY <2>4, OperationScreenInv, OperationMessageInv
  <2>5. CASE UNCHANGED Ui!vars
    BY <2>5 DEF Ui!vars, TuiInv, ScreenInv, MessageInv, Ui!SecretsConfined, Ui!CredentialsWiped, Ui!OneOperation,
         Ui!ShownIsCurrent, RequestWaits, NotStarted, DoneOnce, EventOrder, Ui!fields, Ui!control, Ui!display, Ui!goroutines
  <2> QED
    BY <2>1, <2>2, <2>3, <2>4, <2>5 DEF Ui!Next
<1> QED
  BY <1>1, <1>2 DEF TuiInv

LEMMA TuiSpecInv == Ui!Spec => []TuiInv
  BY TuiInitInv, TuiNextInv, PTL DEF Ui!Spec

-----------------------------------------------------------------------------
\* Whatever keys are pressed and whatever messages arrive, every variable of
\* the model keeps its type; no message is of an operation that never ran.
THEOREM InterfaceIsTyped == Ui!Spec => []TuiTypeOK
  BY TuiSpecInv, PTL DEF TuiInv

\* No way of leaving a form keeps the password or the key typed in it.
THEOREM FormSecretsAreConfined == Ui!Spec => []SecretsConfined
  BY TuiSpecInv, PTL DEF TuiInv, ScreenInv, SecretsConfined

\* A credential is held by the request that awaits confirmation and by the
\* running operation, and by nothing else.
THEOREM CredentialsAreWiped == Ui!Spec => []CredentialsWiped
  BY TuiSpecInv, PTL DEF TuiInv, ScreenInv, CredentialsWiped

\* However late the messages of earlier operations are, no second operation
\* starts while one runs, and the running one can be cancelled.
THEOREM OneOperationAtATime == Ui!Spec => []OneOperation
  BY TuiSpecInv, PTL DEF TuiInv, ScreenInv, OneOperation

\* A late event or completion never replaces what is shown of the last
\* operation, and its progress never goes back or repeats.
THEOREM LateMessagesAreDropped == Ui!Spec => DisplayIsCurrent
<1>1. ASSUME TuiInv, TuiInv', [Ui!Next]_(Ui!vars) PROVE Ui!ShownIsCurrent' /\ Ui!ProgressForward
  <2> SUFFICES Ui!ProgressForward
    BY <1>1 DEF TuiInv, ScreenInv
  <2>1. ASSUME NEW m \in msgs, Ui!Progress(m) PROVE Ui!ProgressForward
    BY <1>1, <2>1, TuiTypeFacts DEF TuiInv, MessageInv, EventOrder, Ui!Progress, Ui!ProgressForward
  <2>2. CASE Ui!StartOperation
    <3>1. progress.id < operationID'
      BY <1>1, <2>2, TuiTypeFacts DEF TuiInv, MessageInv, NotStarted, Ui!StartOperation
    <3>2. progress'.id = operationID'
      BY <2>2 DEF Ui!StartOperation
    <3>3. operationID \in Nat /\ operationID' \in Nat /\ progress.id \in Nat
      BY <1>1, TuiTypeFacts DEF TuiInv, TuiTypeOK
    <3> QED
      BY <3>1, <3>2, <3>3 DEF Ui!ProgressForward
  <2>3. CASE UNCHANGED progress
    BY <2>3, Zenon DEF Ui!ProgressForward
  <2>4. \/ \E m \in msgs : Ui!Progress(m)
        \/ Ui!StartOperation
        \/ UNCHANGED progress
    BY <1>1 DEF Ui!Next, Ui!vars, Ui!Key, Ui!Menu, Ui!Type, Ui!OpenPicker, Ui!ClosePicker, Ui!OpenDropdown, Ui!CloseDropdown, Ui!Submit,
         Ui!RequestCancel, Ui!EscConfirm, Ui!EscHome, Ui!Quit, Ui!Terminate, Ui!Update, Ui!Closed, Ui!Done, Ui!StaleDone,
         Ui!Operation, Ui!Emit, Ui!Return, Ui!WaitProgress, Ui!display
  <2> QED
    BY <2>1, <2>2, <2>3, <2>4
<1>2. TuiInv /\ TuiInv' /\ [Ui!Next]_(Ui!vars) => [Ui!ShownIsCurrent' /\ Ui!ProgressForward]_(Ui!vars)
  BY <1>1
<1> QED
  BY TuiSpecInv, <1>2, PTL DEF Ui!Spec, DisplayIsCurrent, Ui!DisplayIsCurrent
=============================================================================
