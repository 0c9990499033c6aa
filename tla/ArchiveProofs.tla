--------------------------- MODULE ArchiveProofs ---------------------------
(***************************************************************************)
(* Proofs about Archive, for any values of its constants.                  *)
(*                                                                         *)
(* The walk is a stack (todo) with the entry being visited on top.  Order  *)
(* says that nothing on it is below anything else on it, or was passed     *)
(* before: that is why no path is in the archive twice.  Layers says what  *)
(* less than two edits can do to what was listed, and Selection what no    *)
(* edit leaves: what is to be taken is in the stream or below something    *)
(* on the stack.  What a scan and a restore make of a stream follows from  *)
(* invariants of their loops (ExtractFacts, ValidFacts, MadeFacts).        *)
(***************************************************************************)
EXTENDS Archive, SequenceTheorems, FiniteSetTheorems, NaturalsInduction,
        WellFoundedInduction, TLAPS

AnyPath == Seq(Names) \ {<<>>}
AnyNode == Nodes \cup {Device}
Entries == [path : AnyPath, node : AnyNode]
Items == [path : Paths, dir : BOOLEAN]
Files == {File(n) : n \in Sizes}

Visiting == visit # NoVisit
IsDir(p) == p \in DOMAIN tree /\ tree[p].kind = "dir"
Strictly(p, q) == IsPrefix(p, q) /\ p # q
Listed(e) == e \in ToSet(stream)

Types ==
    /\ tree \in UNION {[ps -> AnyNode] : ps \in SUBSET Paths}
    /\ todo \in Seq(Items)
    /\ stream \in Seq(Entries)
    /\ Visiting => visit \in [path : Paths, dir : BOOLEAN, copy : Files \cup {Dir}]
    /\ walk \in {"walking", "done", "failed", "foreign"}
    /\ edits \in Nat

\* Nothing of the archive is visited again.
Order ==
    /\ \A i, j \in DOMAIN todo : i # j => ~IsPrefix(todo[i].path, todo[j].path)
    /\ Visiting => \A i \in DOMAIN todo :
          ~IsPrefix(visit.path, todo[i].path) /\ ~IsPrefix(todo[i].path, visit.path)
    /\ \A i \in DOMAIN todo, k \in DOMAIN stream : ~IsPrefix(todo[i].path, stream[k].path)
    /\ Visiting => \A k \in DOMAIN stream :
          IsPrefix(visit.path, stream[k].path) =>
              stream[k].path = visit.path /\ visit.copy.kind # "file"
    /\ \A k, m \in DOMAIN stream : k # m => stream[k].path # stream[m].path
    /\ \A k \in DOMAIN stream : Storable(stream[k].path, stream[k].node)

\* The visit is of what was a directory when it was listed and is archived as
\* something else.
Replaced ==
    /\ visit.dir
    /\ \/ visit.copy.kind = "file"
       \/ \E k \in DOMAIN stream : stream[k].path = visit.path /\ stream[k].node.kind # "dir"

Layers ==
    /\ edits = 0 => \A i \in DOMAIN todo : todo[i].dir = IsDir(todo[i].path)
    /\ edits < 2 =>
        /\ \A i \in DOMAIN todo, k \in DOMAIN stream :
              IsPrefix(stream[k].path, todo[i].path) => stream[k].node.kind = "dir"
        /\ Visiting => \A k \in DOMAIN stream :
              Strictly(stream[k].path, visit.path) => stream[k].node.kind = "dir"
        /\ Visiting /\ Replaced => edits = 1 /\ ~IsDir(visit.path)
        /\ \A k, m \in DOMAIN stream :
              Strictly(stream[k].path, stream[m].path) => stream[k].node.kind = "dir"

Excluded(p) == MatchesAny(request.excludes, p)

\* On the way of the walk.
Ahead(p) ==
    \/ \E i \in DOMAIN todo : IsPrefix(todo[i].path, p)
    \/ Visiting /\ Strictly(visit.path, p)
    \/ Visiting /\ visit.path = p /\ visit.copy.kind = "file"

Selection ==
    edits = 0 =>
    /\ tree = source /\ source \in Trees
    /\ \A i \in DOMAIN todo :
          todo[i].path \in DOMAIN source /\ \A q \in Ancestors(todo[i].path) : ~Excluded(q)
    /\ Visiting =>
        /\ visit.path \in DOMAIN source /\ visit.dir = IsDir(visit.path)
        /\ \A q \in Ancestors(visit.path) : ~Excluded(q)
        /\ visit.dir => ~Excluded(visit.path)
        /\ visit.copy.kind = "file" => visit.copy = source[visit.path] /\ Taken(visit.path)
    /\ \A k \in DOMAIN stream :
          stream[k].node.kind # "dir" =>
              /\ stream[k].path \in DOMAIN source
              /\ stream[k].node = source[stream[k].path] /\ Taken(stream[k].path)
    /\ \A p \in DOMAIN source :
          source[p].kind # "dir" /\ Taken(p) =>
              Ahead(p) \/ \E k \in DOMAIN stream : stream[k] = Entry(p, source[p])

Outcomes ==
    /\ DOMAIN source \subseteq Paths
    /\ scanned = Unused \/ (StreamEnded /\ scanned = Scan(stream))
    /\ restored = Unused \/ (StreamEnded /\ restored = Extract(stream, wanted))

Inv ==
    /\ Types /\ Outcomes
    /\ walk = "done" => todo = <<>> /\ visit = NoVisit
    /\ walk \in {"walking", "done"} => Order /\ Layers /\ Selection

-----------------------------------------------------------------------------
(* Numbers and paths. *)

Less == {ss \in Nat \X Nat : ss[1] < ss[2]}

\* A set of numbers has a least one: what does without an induction rule.
LEMMA LeastElement ==
    ASSUME NEW T \in SUBSET Nat, T # {}
    PROVE  \E m \in T : \A n \in T : m <= n
<1>1. IsWellFoundedOn(Less, Nat)
    BY NatLessThanWellFounded DEF OpToRel, Less
<1>2. PICK m \in T : \A n \in T : ~(<<n, m>> \in Less)
    BY <1>1, WFMin
<1>3. ASSUME NEW n \in T PROVE m <= n
    <2>1. m \in Nat /\ n \in Nat
        BY <1>3
    <2>2. ASSUME n < m PROVE <<n, m>> \in Less
        BY <2>1, <2>2 DEF Less
    <2> QED
        BY <1>2, <2>1, <2>2
<1> QED
    BY <1>3

\* What holds at the beginning of a loop, and after each turn.
LEMMA EachTurn ==
    ASSUME NEW n \in Nat, NEW T, 0 \in T, \A i \in 1..n : i - 1 \in T => i \in T
    PROVE  \A i \in 0..n : i \in T
<1> DEFINE B == {i \in 0..n : i \notin T}
<1> SUFFICES ASSUME B # {} PROVE FALSE
    OBVIOUS
<1>1. B \in SUBSET Nat
    OBVIOUS
<1>2. PICK m \in B : \A i \in B : m <= i
    <2> HIDE DEF B
    <2> QED
        BY <1>1, LeastElement
<1>3. m \in 1..n
    BY <1>2
<1>4. m - 1 \in 0..n /\ m - 1 \notin B
    <2>1. m - 1 \in 0..n
        BY <1>3
    <2>2. ~(m <= m - 1)
        BY <1>3
    <2> HIDE DEF B
    <2> QED
        BY <1>2, <2>1, <2>2
<1> QED
    BY <1>2, <1>3, <1>4

LEMMA PathFacts ==
    /\ AnyPath \subseteq Seq(Names) /\ Paths \subseteq AnyPath
    /\ ForeignPaths \subseteq AnyPath /\ Names \subseteq Nat /\ Sizes \subseteq Nat
    /\ \A p \in AnyPath : Len(p) \in Nat \ {0}
<1>1. \A p \in AnyPath : Len(p) \in Nat \ {0}
    BY EmptySeq, LenProperties DEF AnyPath
<1> QED
    BY <1>1, ConstantsAssumption DEF ConstantsAssumption, AnyPath

LEMMA PrefixFacts ==
    ASSUME NEW s \in Seq(Names), NEW t \in Seq(Names)
    PROVE  IsPrefix(s, t) <=> Len(s) <= Len(t) /\ \A i \in 1..Len(s) : s[i] = t[i]
<1>1. CASE Len(s) <= Len(t)
    <2> DEFINE a == SubSeq(s, 1, Len(s))
               b == SubSeq(t, 1, Len(s))
    <2>1. a \in Seq(Names) /\ b \in Seq(Names) /\ Len(a) = Len(s) /\ Len(b) = Len(s)
        BY <1>1
    <2>2. \A i \in 1..Len(s) : a[i] = s[i] /\ b[i] = t[i]
        BY <1>1
    <2>3. (\A i \in 1..Len(s) : a[i] = b[i]) => a = b
        BY <2>1, SeqEqual
    <2> HIDE DEF a, b
    <2>4. IsPrefix(s, t) <=> a = b
        BY <1>1 DEF IsPrefix, a, b
    <2> QED
        BY <1>1, <2>2, <2>3, <2>4
<1>2. CASE ~(Len(s) <= Len(t))
    BY <1>2 DEF IsPrefix
<1> QED
    BY <1>1, <1>2

\* Prefixes are ordered, and those of one path linearly.
LEMMA PrefixOrder ==
    /\ \A p \in Seq(Names) : IsPrefix(p, p)
    /\ \A p, q \in Seq(Names) : IsPrefix(p, q) /\ IsPrefix(q, p) => p = q
    /\ \A p, q, r \in Seq(Names) : IsPrefix(p, q) /\ IsPrefix(q, r) => IsPrefix(p, r)
    /\ \A p, q, r \in Seq(Names) :
          IsPrefix(p, r) /\ IsPrefix(q, r) => IsPrefix(p, q) \/ IsPrefix(q, p)
<1>1. \A p \in Seq(Names) : IsPrefix(p, p)
    BY PrefixFacts
<1>2. ASSUME NEW p \in Seq(Names), NEW q \in Seq(Names), IsPrefix(p, q), IsPrefix(q, p)
      PROVE  p = q
    <2>1. Len(p) = Len(q) /\ \A i \in 1..Len(p) : p[i] = q[i]
        BY <1>2, PrefixFacts
    <2> QED
        BY <2>1, SeqEqual
<1>3. ASSUME NEW p \in Seq(Names), NEW q \in Seq(Names), NEW r \in Seq(Names),
             IsPrefix(p, q), IsPrefix(q, r)
      PROVE  IsPrefix(p, r)
    <2>1. Len(p) <= Len(q) /\ \A i \in 1..Len(p) : p[i] = q[i]
        BY <1>3, PrefixFacts
    <2>2. Len(q) <= Len(r) /\ \A i \in 1..Len(q) : q[i] = r[i]
        BY <1>3, PrefixFacts
    <2>3. Len(p) <= Len(r) /\ \A i \in 1..Len(p) : p[i] = r[i]
        BY <2>1, <2>2
    <2> QED
        BY <2>3, PrefixFacts
<1>4. ASSUME NEW p \in Seq(Names), NEW q \in Seq(Names), NEW r \in Seq(Names),
             IsPrefix(p, r), IsPrefix(q, r)
      PROVE  IsPrefix(p, q) \/ IsPrefix(q, p)
    <2>1. Len(p) <= Len(r) /\ \A i \in 1..Len(p) : p[i] = r[i]
        BY <1>4, PrefixFacts
    <2>2. Len(q) <= Len(r) /\ \A i \in 1..Len(q) : q[i] = r[i]
        BY <1>4, PrefixFacts
    <2>3. CASE Len(p) <= Len(q)
        <3>1. \A i \in 1..Len(p) : p[i] = q[i]
            BY <2>1, <2>2, <2>3
        <3> QED
            BY <2>3, <3>1, PrefixFacts
    <2>4. CASE Len(q) <= Len(p)
        <3>1. \A i \in 1..Len(q) : q[i] = p[i]
            BY <2>1, <2>2, <2>4
        <3> QED
            BY <2>4, <3>1, PrefixFacts
    <2> QED
        BY <2>3, <2>4, LenProperties
<1> QED
    BY <1>1, <1>2, <1>3, <1>4

\* What is above a path, below the root.
LEMMA AncestorFacts ==
    ASSUME NEW p \in AnyPath
    PROVE  /\ Ancestors(p) \subseteq AnyPath
           /\ \A q \in AnyPath : q \in Ancestors(p) <=> Strictly(q, p)
           /\ p \notin Ancestors(p)
<1>0. p \in Seq(Names) /\ Len(p) \in Nat \ {0}
    BY PathFacts
<1>1. ASSUME NEW n \in 1..(Len(p) - 1)
      PROVE  SubSeq(p, 1, n) \in AnyPath /\ Strictly(SubSeq(p, 1, n), p)
    <2> DEFINE q == SubSeq(p, 1, n)
    <2>1. q \in Seq(Names) /\ Len(q) = n /\ \A i \in 1..n : q[i] = p[i]
        BY <1>0, <1>1
    <2>2. n # 0 /\ n <= Len(p) /\ n # Len(p)
        BY <1>0
    <2> HIDE DEF q
    <2>3. q # <<>> /\ q # p
        BY <2>1, <2>2, EmptySeq
    <2>4. IsPrefix(q, p)
        BY <1>0, <2>1, <2>2, PrefixFacts
    <2>5. q \in AnyPath /\ Strictly(q, p)
        BY <2>1, <2>3, <2>4 DEF AnyPath, Strictly
    <2> QED
        BY <2>5 DEF q
<1>2. ASSUME NEW q \in AnyPath, Strictly(q, p)
      PROVE  q \in Ancestors(p)
    <2>0. q \in Seq(Names) /\ Len(q) \in Nat \ {0}
        BY PathFacts
    <2>1. IsPrefix(q, p) /\ q # p
        BY <1>2 DEF Strictly
    <2>2. Len(q) <= Len(p) /\ \A i \in 1..Len(q) : q[i] = p[i]
        BY <1>0, <2>0, <2>1, PrefixFacts
    <2>3. Len(q) # Len(p)
        BY <1>0, <2>0, <2>1, <2>2, SeqEqual
    <2>4. Len(q) \in 1..(Len(p) - 1)
        BY <1>0, <2>0, <2>2, <2>3
    <2> DEFINE u == SubSeq(p, 1, Len(q))
    <2>5. u \in Seq(Names) /\ Len(u) = Len(q) /\ \A i \in 1..Len(q) : u[i] = p[i]
        BY <1>0, <2>4
    <2> HIDE DEF u
    <2>6. u = q
        BY <2>0, <2>2, <2>5, SeqEqual
    <2> QED
        BY <2>4, <2>6 DEF Ancestors, u
<1>3. Ancestors(p) \subseteq AnyPath /\ \A q \in Ancestors(p) : Strictly(q, p)
    BY <1>1 DEF Ancestors
<1>4. p \notin Ancestors(p)
    BY <1>3 DEF Strictly
<1> QED
    BY <1>2, <1>3, <1>4

-----------------------------------------------------------------------------
(* Loops over a stream. *)

ScanStart == [ok |-> TRUE, entries |-> 0, bytes |-> 0, seen |-> {}]
ExtractStart ==
    [ok |-> TRUE, entries |-> 0, bytes |-> 0, seen |-> {}, files |-> Nothing, selected |-> 0]

\* f[i] is what the first i entries of a scan came to.
ScanLoops(f, entries, n) ==
    f = [i \in 0..n |-> IF i = 0 THEN ScanStart ELSE ScanEntry(f[i - 1], entries[i])]

LEMMA ScanLoopExists ==
    ASSUME NEW entries
    PROVE  \A n \in Nat : \E f : ScanLoops(f, entries, n)
<1> DEFINE T == {n \in Nat : ~\E f : ScanLoops(f, entries, n)}
<1> SUFFICES ASSUME T # {} PROVE FALSE
    OBVIOUS
<1>1. PICK m \in T : \A n \in T : m <= n
    BY LeastElement
<1>2. CASE m = 0
    <2>1. ScanLoops([i \in 0..0 |-> ScanStart], entries, 0)
        BY DEF ScanLoops
    <2> QED
        BY <1>1, <1>2, <2>1
<1>3. CASE m # 0
    <2>1. m - 1 \in Nat /\ m - 1 \notin T /\ m \in Nat
        BY <1>1, <1>3
    <2>2. PICK g : ScanLoops(g, entries, m - 1)
        BY <2>1
    <2> DEFINE f == [i \in 0..m |-> IF i = m THEN ScanEntry(g[m - 1], entries[m]) ELSE g[i]]
    <2>3. \A i \in 0..(m - 1) : g[i] = IF i = 0 THEN ScanStart ELSE ScanEntry(g[i - 1], entries[i])
        BY <2>2 DEF ScanLoops
    <2>4. \A i \in 0..m : f[i] = IF i = 0 THEN ScanStart ELSE ScanEntry(f[i - 1], entries[i])
        BY <1>3, <2>1, <2>3
    <2>5. ScanLoops(f, entries, m)
        BY <2>4 DEF ScanLoops
    <2> QED
        BY <1>1, <2>5
<1> QED
    BY <1>2, <1>3

ScanLoop(s, entries) ==
    /\ s[0] = ScanStart
    /\ \A i \in 1..Len(entries) : s[i] = ScanEntry(s[i - 1], entries[i])
    /\ Scan(entries) = s[Len(entries)]

LEMMA ScanLoopFacts ==
    ASSUME NEW entries \in Seq(Entries)
    PROVE  \E s : ScanLoop(s, entries)
<1> DEFINE f == CHOOSE g : ScanLoops(g, entries, Len(entries))
<1>1. Scan(entries) = f[Len(entries)]
    BY DEF Scan, ScanLoops, ScanStart
<1>2. Len(entries) \in Nat
    OBVIOUS
<1>3. ScanLoops(f, entries, Len(entries))
    BY <1>2, ScanLoopExists
<1>4. \A i \in 0..Len(entries) : f[i] = IF i = 0 THEN ScanStart ELSE ScanEntry(f[i - 1], entries[i])
    BY <1>3 DEF ScanLoops
<1> HIDE DEF f
<1>5. f[0] = ScanStart /\ \A i \in 1..Len(entries) : f[i] = ScanEntry(f[i - 1], entries[i])
    BY <1>2, <1>4
<1>6. ScanLoop(f, entries)
    BY <1>1, <1>5 DEF ScanLoop
<1> QED
    BY <1>6

\* The same of an extraction.
ExtractLoops(f, entries, want, n) ==
    f = [i \in 0..n |-> IF i = 0 THEN ExtractStart ELSE ExtractEntry(f[i - 1], entries[i], want)]

LEMMA ExtractLoopExists ==
    ASSUME NEW entries, NEW want
    PROVE  \A n \in Nat : \E f : ExtractLoops(f, entries, want, n)
<1> DEFINE T == {n \in Nat : ~\E f : ExtractLoops(f, entries, want, n)}
<1> SUFFICES ASSUME T # {} PROVE FALSE
    OBVIOUS
<1>1. PICK m \in T : \A n \in T : m <= n
    BY LeastElement
<1>2. CASE m = 0
    <2>1. ExtractLoops([i \in 0..0 |-> ExtractStart], entries, want, 0)
        BY DEF ExtractLoops
    <2> QED
        BY <1>1, <1>2, <2>1
<1>3. CASE m # 0
    <2>1. m - 1 \in Nat /\ m - 1 \notin T /\ m \in Nat
        BY <1>1, <1>3
    <2>2. PICK g : ExtractLoops(g, entries, want, m - 1)
        BY <2>1
    <2> DEFINE f == [i \in 0..m |-> IF i = m THEN ExtractEntry(g[m - 1], entries[m], want) ELSE g[i]]
    <2>3. \A i \in 0..(m - 1) : g[i] = IF i = 0 THEN ExtractStart ELSE ExtractEntry(g[i - 1], entries[i], want)
        BY <2>2 DEF ExtractLoops
    <2>4. \A i \in 0..m : f[i] = IF i = 0 THEN ExtractStart ELSE ExtractEntry(f[i - 1], entries[i], want)
        BY <1>3, <2>1, <2>3
    <2>5. ExtractLoops(f, entries, want, m)
        BY <2>4 DEF ExtractLoops
    <2> QED
        BY <1>1, <2>5
<1> QED
    BY <1>2, <1>3

ExtractLoop(s, entries, want) ==
    /\ s[0] = ExtractStart
    /\ \A i \in 1..Len(entries) : s[i] = ExtractEntry(s[i - 1], entries[i], want)
    /\ Extract(entries, want) = [s[Len(entries)] EXCEPT !.ok = @ /\ s[Len(entries)].selected > 0]

LEMMA ExtractLoopFacts ==
    ASSUME NEW entries \in Seq(Entries), NEW want
    PROVE  \E s : ExtractLoop(s, entries, want)
<1> DEFINE f == CHOOSE g : ExtractLoops(g, entries, want, Len(entries))
<1>1. Extract(entries, want) = [f[Len(entries)] EXCEPT !.ok = @ /\ f[Len(entries)].selected > 0]
    BY DEF Extract, ExtractLoops, ExtractStart
<1>2. Len(entries) \in Nat
    OBVIOUS
<1>3. ExtractLoops(f, entries, want, Len(entries))
    BY <1>2, ExtractLoopExists
<1>4. \A i \in 0..Len(entries) : f[i] = IF i = 0 THEN ExtractStart ELSE ExtractEntry(f[i - 1], entries[i], want)
    BY <1>3 DEF ExtractLoops
<1> HIDE DEF f
<1>5. f[0] = ExtractStart /\ \A i \in 1..Len(entries) : f[i] = ExtractEntry(f[i - 1], entries[i], want)
    BY <1>2, <1>4
<1>6. ExtractLoop(f, entries, want)
    BY <1>1, <1>5 DEF ExtractLoop
<1> QED
    BY <1>6

\* The same of the sizes.
SumLoops(f, entries, n) ==
    f = [i \in 0..n |-> IF i = 0 THEN 0 ELSE f[i - 1] + entries[i].node.size]

LEMMA SumLoopExists ==
    ASSUME NEW entries
    PROVE  \A n \in Nat : \E f : SumLoops(f, entries, n)
<1> DEFINE T == {n \in Nat : ~\E f : SumLoops(f, entries, n)}
<1> SUFFICES ASSUME T # {} PROVE FALSE
    OBVIOUS
<1>1. PICK m \in T : \A n \in T : m <= n
    BY LeastElement
<1>2. CASE m = 0
    <2>1. SumLoops([i \in 0..0 |-> 0], entries, 0)
        BY DEF SumLoops
    <2> QED
        BY <1>1, <1>2, <2>1
<1>3. CASE m # 0
    <2>1. m - 1 \in Nat /\ m - 1 \notin T /\ m \in Nat
        BY <1>1, <1>3
    <2>2. PICK g : SumLoops(g, entries, m - 1)
        BY <2>1
    <2> DEFINE f == [i \in 0..m |-> IF i = m THEN g[m - 1] + entries[m].node.size ELSE g[i]]
    <2>3. \A i \in 0..(m - 1) : g[i] = IF i = 0 THEN 0 ELSE g[i - 1] + entries[i].node.size
        BY <2>2 DEF SumLoops
    <2>4. \A i \in 0..m : f[i] = IF i = 0 THEN 0 ELSE f[i - 1] + entries[i].node.size
        BY <1>3, <2>1, <2>3
    <2>5. SumLoops(f, entries, m)
        BY <2>4 DEF SumLoops
    <2> QED
        BY <1>1, <2>5
<1> QED
    BY <1>2, <1>3

SumLoop(s, entries) ==
    /\ s[0] = 0
    /\ \A i \in 1..Len(entries) : s[i] = s[i - 1] + entries[i].node.size
    /\ TotalSize(entries) = s[Len(entries)]

LEMMA SumLoopFacts ==
    ASSUME NEW entries \in Seq(Entries)
    PROVE  \E s : SumLoop(s, entries)
<1> DEFINE f == CHOOSE g : SumLoops(g, entries, Len(entries))
<1>1. TotalSize(entries) = f[Len(entries)]
    BY DEF TotalSize, SumLoops
<1>2. Len(entries) \in Nat
    OBVIOUS
<1>3. SumLoops(f, entries, Len(entries))
    BY <1>2, SumLoopExists
<1>4. \A i \in 0..Len(entries) : f[i] = IF i = 0 THEN 0 ELSE f[i - 1] + entries[i].node.size
    BY <1>3 DEF SumLoops
<1> HIDE DEF f
<1>5. f[0] = 0 /\ \A i \in 1..Len(entries) : f[i] = f[i - 1] + entries[i].node.size
    BY <1>2, <1>4
<1>6. SumLoop(f, entries)
    BY <1>1, <1>5 DEF SumLoop
<1> QED
    BY <1>6

-----------------------------------------------------------------------------
(* What a restore makes of a stream. *)

LEMMA NodeFacts ==
    /\ Dir \in AnyNode /\ Dir.kind = "dir" /\ Dir.size = 0
    /\ \A x \in AnyNode :
          /\ x.kind \in {"file", "dir", "symlink", "device"} /\ x.size \in Nat /\ x.ups \in Nat
          /\ x.kind = "dir" => x = Dir
          /\ x.kind = "file" <=> x \in Files
          /\ x.kind # "file" => x.size = 0
BY PathFacts DEF AnyNode, Nodes, Files, File, Dir, Link, Device

Asked(entries, want, i) == {entries[j] : j \in {k \in 1..i : Wanted(want, entries[k].path)}}
Above(es) == UNION {Ancestors(e.path) : e \in es}

\* What the first entries of an extraction came to.
Extracted(s, entries, want, i) ==
    s.ok =>
        /\ s.seen = {entries[j] : j \in 1..i}
        /\ DOMAIN s.files = {e.path : e \in Asked(entries, want, i)} \cup Above(Asked(entries, want, i))
        /\ \A e \in Asked(entries, want, i) : s.files[e.path] = e.node
        /\ \A p \in Above(Asked(entries, want, i)) : s.files[p] = Dir

Extracting == [ok : BOOLEAN, entries : Nat, bytes : Nat, seen : SUBSET Entries,
               files : UNION {[ps -> AnyNode] : ps \in SUBSET AnyPath}, selected : Nat]

LEMMA FileKinds ==
    ASSUME NEW s \in Extracting, NEW p \in DOMAIN s.files
    PROVE  s.files[p].kind # "none"
<1>1. s.files[p] \in AnyNode
    BY DEF Extracting
<1> QED
    BY <1>1, NodeFacts

LEMMA AcceptFacts ==
    ASSUME NEW s \in Extracting, NEW e \in Entries
    PROVE  /\ Accept(s, e) \in Extracting
           /\ Accept(s, e).ok = s.ok /\ Accept(s, e).entries = s.entries + 1
           /\ Accept(s, e).bytes = s.bytes + e.node.size
           /\ Accept(s, e).seen = s.seen \cup {e} /\ Accept(s, e).selected = s.selected
           /\ Accept(s, e).files = s.files
<1>1. e.node.size \in Nat
    BY NodeFacts DEF Entries
<1> DEFINE n == e.node.size
           F == UNION {[ps -> AnyNode] : ps \in SUBSET AnyPath}
<1>2. s \in [ok : BOOLEAN, entries : Nat, bytes : Nat, seen : SUBSET Entries, files : F, selected : Nat]
    BY DEF Extracting
<1>3. n \in Nat /\ Accept(s, e) = [s EXCEPT !.entries = @ + 1, !.bytes = @ + n, !.seen = @ \cup {e}]
    BY <1>1 DEF Accept
<1> HIDE DEF n, F
<1>4. /\ Accept(s, e) \in [ok : BOOLEAN, entries : Nat, bytes : Nat, seen : SUBSET Entries, files : F, selected : Nat]
      /\ Accept(s, e).ok = s.ok /\ Accept(s, e).entries = s.entries + 1
      /\ Accept(s, e).bytes = s.bytes + n
      /\ Accept(s, e).seen = s.seen \cup {e} /\ Accept(s, e).selected = s.selected
      /\ Accept(s, e).files = s.files
    <2> DEFINE a == [s EXCEPT !.entries = @ + 1, !.bytes = @ + n, !.seen = @ \cup {e}]
    <2>1. a.ok = s.ok /\ a.selected = s.selected /\ a.files = s.files
        BY <1>2
    <2>2. a.entries = s.entries + 1
        BY <1>2
    <2>3. a.bytes = s.bytes + n
        BY <1>2
    <2>4. a.seen = s.seen \cup {e}
        BY <1>2
    <2>5. a \in [ok : BOOLEAN, entries : Nat, bytes : Nat, seen : SUBSET Entries, files : F, selected : Nat]
        <3>1. s.entries + 1 \in Nat /\ s.bytes + n \in Nat
            BY <1>2, <1>3
        <3>2. s.seen \cup {e} \in SUBSET Entries
            BY <1>2
        <3> DEFINE x == s.entries + 1
                   y == s.bytes + n
                   z == s.seen \cup {e}
        <3>3. a = [s EXCEPT !.entries = x, !.bytes = y, !.seen = z]
            OBVIOUS
        <3>4. x \in Nat /\ y \in Nat /\ z \in SUBSET Entries
            BY <3>1, <3>2
        <3> HIDE DEF x, y, z, a
        <3> QED
            BY <1>2, <3>3, <3>4
    <2> QED
        BY <1>3, <2>1, <2>2, <2>3, <2>4, <2>5
<1> QED
    BY <1>4 DEF n, F, Extracting

\* What a file is written over.
LEMMA WriteFacts ==
    ASSUME NEW s \in Extracting, NEW e \in Entries
    PROVE  /\ Write(s, e) \in Extracting
           /\ Write(s, e).ok = s.ok /\ Write(s, e).entries = s.entries + 1
           /\ Write(s, e).bytes = s.bytes + e.node.size
           /\ Write(s, e).seen = s.seen \cup {e} /\ Write(s, e).selected = s.selected + 1
           /\ DOMAIN Write(s, e).files = DOMAIN s.files \cup Ancestors(e.path) \cup {e.path}
           /\ \A p \in DOMAIN Write(s, e).files :
                 Write(s, e).files[p] =
                     IF p = e.path THEN e.node ELSE IF p \in Ancestors(e.path) THEN Dir ELSE s.files[p]
<1> DEFINE above == Ancestors(e.path)
           files == [WithDirs(s.files, above \cup {e.path}) EXCEPT ![e.path] = e.node]
<1>1. e.path \in AnyPath /\ e.node \in AnyNode /\ e.node.size \in Nat
    BY NodeFacts DEF Entries
<1>2. above \subseteq AnyPath
    BY <1>1, AncestorFacts
<1>3. /\ DOMAIN files = DOMAIN s.files \cup above \cup {e.path}
      /\ \A p \in DOMAIN files :
            files[p] = IF p = e.path THEN e.node ELSE IF p \in above THEN Dir ELSE s.files[p]
    <2> HIDE DEF above
    <2> QED
        BY DEF WithDirs
<1>4. DOMAIN s.files \subseteq AnyPath /\ \A p \in DOMAIN s.files : s.files[p] \in AnyNode
    BY DEF Extracting
<1>5. files \in [DOMAIN files -> AnyNode]
    <2>1. \A p \in DOMAIN files : files[p] \in AnyNode
        BY <1>1, <1>3, <1>4, NodeFacts
    <2>2. files = [p \in DOMAIN files |-> files[p]]
        BY DEF WithDirs
    <2> HIDE DEF files
    <2> QED
        BY <2>1, <2>2
<1>6. DOMAIN files \in SUBSET AnyPath
    BY <1>1, <1>2, <1>3, <1>4
<1>7. Write(s, e) = [[Accept(s, e) EXCEPT !.files = files] EXCEPT !.selected = s.selected + 1]
    <2>1. Accept(s, e).files = s.files /\ Accept(s, e).selected = s.selected
        BY AcceptFacts
    <2> QED
        BY <2>1 DEF Write, files
<1>8. files \in UNION {[ps -> AnyNode] : ps \in SUBSET AnyPath}
    BY <1>5, <1>6
<1> DEFINE F == UNION {[ps -> AnyNode] : ps \in SUBSET AnyPath}
           a == Accept(s, e)
           n == s.selected + 1
<1>9. /\ a \in [ok : BOOLEAN, entries : Nat, bytes : Nat, seen : SUBSET Entries, files : F, selected : Nat]
      /\ a.ok = s.ok /\ a.entries = s.entries + 1 /\ a.bytes = s.bytes + e.node.size
      /\ a.seen = s.seen \cup {e} /\ files \in F /\ n \in Nat
    <2> HIDE DEF files
    <2>1. a \in Extracting /\ s.selected \in Nat
        BY AcceptFacts DEF Extracting
    <2> HIDE DEF a
    <2>2. files \in F
        BY <1>8
    <2>3. a.ok = s.ok /\ a.entries = s.entries + 1 /\ a.bytes = s.bytes + e.node.size
          /\ a.seen = s.seen \cup {e}
        BY AcceptFacts DEF a
    <2> QED
        BY <2>1, <2>2, <2>3 DEF Extracting
<1> HIDE DEF files, F, a, n
<1>10. /\ Write(s, e) \in [ok : BOOLEAN, entries : Nat, bytes : Nat, seen : SUBSET Entries, files : F, selected : Nat]
       /\ Write(s, e).ok = s.ok /\ Write(s, e).entries = s.entries + 1
       /\ Write(s, e).bytes = s.bytes + e.node.size
       /\ Write(s, e).seen = s.seen \cup {e} /\ Write(s, e).selected = n
       /\ Write(s, e).files = files
    BY <1>7, <1>9 DEF a, n
<1> QED
    BY <1>3, <1>10 DEF Extracting, F, n

\* An entry stops the extraction, is skipped, or is written.
LEMMA EntryCases ==
    ASSUME NEW s \in Extracting, NEW e \in Entries, NEW want
    PROVE  /\ ExtractEntry(s, e, want) \in Extracting
           /\ ExtractEntry(s, e, want).ok =>
                 /\ s.ok /\ Acceptable(s, e)
                 /\ \/ /\ ~Wanted(want, e.path) /\ CanSkip(s, e)
                       /\ ExtractEntry(s, e, want) = Accept(s, e)
                    \/ /\ Wanted(want, e.path) /\ CanWrite(s, e)
                       /\ ExtractEntry(s, e, want) = Write(s, e)
<1>1. [s EXCEPT !.ok = FALSE] \in Extracting /\ ~[s EXCEPT !.ok = FALSE].ok
    BY DEF Extracting
<1> QED
    BY <1>1, AcceptFacts, WriteFacts DEF ExtractEntry

LEMMA ExtractedNext ==
    ASSUME NEW n \in Nat, NEW entries \in Seq(Entries), NEW want, NEW i \in 1..Len(entries),
           NEW s \in Extracting, Extracted(s, entries, want, i - 1)
    PROVE  Extracted(ExtractEntry(s, entries[i], want), entries, want, i)
<1> DEFINE e == entries[i]
           x == ExtractEntry(s, e, want)
           old == Asked(entries, want, i - 1)
           new == Asked(entries, want, i)
<1>0. e \in Entries /\ i \in Nat /\ i - 1 \in Nat
    OBVIOUS
<1> SUFFICES ASSUME x.ok
             PROVE  /\ x.seen = {entries[j] : j \in 1..i}
                    /\ DOMAIN x.files = {f.path : f \in new} \cup Above(new)
                    /\ \A f \in new : x.files[f.path] = f.node
                    /\ \A p \in Above(new) : x.files[p] = Dir
    BY DEF Extracted
<1>1. /\ s.ok /\ Acceptable(s, e)
      /\ \/ ~Wanted(want, e.path) /\ x = Accept(s, e)
         \/ Wanted(want, e.path) /\ CanWrite(s, e) /\ x = Write(s, e)
    BY <1>0, EntryCases
<1>2. /\ s.seen = {entries[j] : j \in 1..(i - 1)}
      /\ DOMAIN s.files = {f.path : f \in old} \cup Above(old)
      /\ \A f \in old : s.files[f.path] = f.node
      /\ \A p \in Above(old) : s.files[p] = Dir
    BY <1>1 DEF Extracted
<1>3. x.seen = s.seen \cup {e}
    BY <1>0, <1>1, AcceptFacts, WriteFacts
<1>4. {entries[j] : j \in 1..i} = {entries[j] : j \in 1..(i - 1)} \cup {e}
    BY <1>0
<1>5. x.seen = {entries[j] : j \in 1..i}
    BY <1>2, <1>3, <1>4
<1>6. new = IF Wanted(want, e.path) THEN old \cup {e} ELSE old
    <2>1. \A j \in 1..i : j \in 1..(i - 1) \/ j = i
        BY <1>0
    <2>2. \A j \in 1..(i - 1) : j \in 1..i
        BY <1>0
    <2>3. i \in 1..i
        BY <1>0
    <2> QED
        BY <2>1, <2>2, <2>3 DEF Asked
<1>7. old \subseteq s.seen /\ old \subseteq Entries
    BY <1>0, <1>2 DEF Asked
<1> HIDE DEF old, new, x, e
<1>8. CASE ~Wanted(want, e.path)
    <2>1. x.files = s.files /\ new = old
        BY <1>0, <1>1, <1>6, <1>8, AcceptFacts
    <2> QED
        BY <1>2, <1>5, <2>1
<1>9. CASE Wanted(want, e.path)
    <2>1. /\ DOMAIN x.files = DOMAIN s.files \cup Ancestors(e.path) \cup {e.path}
          /\ \A p \in DOMAIN x.files :
                x.files[p] = IF p = e.path THEN e.node
                             ELSE IF p \in Ancestors(e.path) THEN Dir ELSE s.files[p]
        BY <1>0, <1>1, <1>9, WriteFacts
    <2>2. new = old \cup {e} /\ Above(new) = Above(old) \cup Ancestors(e.path)
        BY <1>6, <1>9 DEF Above
    <2>3. /\ \A q \in Ancestors(e.path) : q \in DOMAIN s.files => s.files[q].kind = "dir"
          /\ e.path \in DOMAIN s.files => e.node.kind = "dir"
        <3>1. CanWrite(s, e)
            BY <1>1, <1>9
        <3>2. e.path \in DOMAIN s.files => KindAt(s, e.path) = s.files[e.path].kind
            BY DEF KindAt
        <3> QED
            BY <3>1, <3>2, FileKinds DEF CanWrite, KindAt
    <2>4. e.path \in AnyPath /\ e.node \in AnyNode /\ e.path \notin Ancestors(e.path)
        BY <1>0, AncestorFacts DEF Entries
    <2>5. ASSUME NEW f \in new PROVE x.files[f.path] = f.node
        <3>1. CASE f = e
            BY <2>1, <3>1
        <3>2. CASE f \in old
            <4>1. f.path # e.path /\ f.node \in AnyNode
                BY <1>1, <1>7, <3>2 DEF Acceptable, Entries
            <4>2. f.path \in DOMAIN s.files /\ s.files[f.path] = f.node
                BY <1>2, <3>2
            <4>3. f.path \in Ancestors(e.path) => f.node = Dir
                BY <2>3, <4>1, <4>2, NodeFacts
            <4> QED
                BY <2>1, <4>1, <4>2, <4>3
        <3> QED
            BY <2>2, <2>5, <3>1, <3>2
    <2>6. ASSUME NEW p \in Above(new) PROVE x.files[p] = Dir
        <3>1. CASE p \in Ancestors(e.path)
            BY <2>1, <2>4, <3>1
        <3>2. CASE p \in Above(old) /\ p \notin Ancestors(e.path)
            <4>1. p \in DOMAIN s.files /\ s.files[p] = Dir
                BY <1>2, <3>2
            <4>2. p = e.path => e.node = Dir
                BY <2>3, <2>4, <4>1, NodeFacts
            <4> QED
                BY <2>1, <3>2, <4>1, <4>2
        <3> QED
            BY <2>2, <2>6, <3>1, <3>2
    <2>7. DOMAIN x.files = {f.path : f \in new} \cup Above(new)
        <3>1. {f.path : f \in new} = {f.path : f \in old} \cup {e.path}
            BY <2>2
        <3> QED
            BY <1>2, <2>1, <2>2, <3>1
    <2> QED
        BY <1>5, <2>5, <2>6, <2>7
<1> QED
    BY <1>8, <1>9

LEMMA ExtractingAll ==
    ASSUME NEW entries \in Seq(Entries), NEW want, NEW x, x[0] = ExtractStart,
           \A i \in 1..Len(entries) : x[i] = ExtractEntry(x[i - 1], entries[i], want)
    PROVE  \A i \in 0..Len(entries) : x[i] \in Extracting /\ Extracted(x[i], entries, want, i)
<1> DEFINE n == Len(entries)
           T == {i \in 0..n : x[i] \in Extracting /\ Extracted(x[i], entries, want, i)}
<1>1. n \in Nat /\ \A i \in 1..n : entries[i] \in Entries
    OBVIOUS
<1>2. 0 \in T
    <2>1. ExtractStart \in Extracting
        <3>1. Nothing \in [{} -> AnyNode] /\ {} \in SUBSET AnyPath
            BY DEF Nothing
        <3>2. Nothing \in UNION {[ps -> AnyNode] : ps \in SUBSET AnyPath}
            BY <3>1
        <3> QED
            BY <3>2 DEF ExtractStart, Extracting
    <2>2. Asked(entries, want, 0) = {} /\ {entries[j] : j \in 1..0} = {}
        BY DEF Asked
    <2>3. Above({}) = {} /\ DOMAIN Nothing = {}
        BY DEF Above, Nothing
    <2>4. Extracted(ExtractStart, entries, want, 0)
        BY <2>2, <2>3 DEF Extracted, ExtractStart
    <2> QED
        BY <1>1, <2>1, <2>4
<1>3. ASSUME NEW i \in 1..n, i - 1 \in T
      PROVE  i \in T
    <2>1. x[i - 1] \in Extracting /\ Extracted(x[i - 1], entries, want, i - 1)
        BY <1>3
    <2>2. x[i] = ExtractEntry(x[i - 1], entries[i], want) /\ i \in 0..n /\ entries[i] \in Entries
        BY <1>1
    <2>3. Extracted(ExtractEntry(x[i - 1], entries[i], want), entries, want, i)
        BY <1>1, <2>1, ExtractedNext
    <2>4. ExtractEntry(x[i - 1], entries[i], want) \in Extracting
        BY <2>1, <2>2, EntryCases
    <2> QED
        BY <2>2, <2>3, <2>4
<1>4. \A i \in 0..n : i \in T
    <2> HIDE DEF T
    <2> QED
        BY <1>1, <1>2, <1>3, EachTurn
<1> QED
    BY <1>4

\* The extraction of a whole stream.
LEMMA ExtractFacts ==
    ASSUME NEW entries \in Seq(Entries), NEW want, Extract(entries, want).ok
    PROVE  LET asked == {e \in ToSet(entries) : Wanted(want, e.path)}
               files == Extract(entries, want).files
           IN  /\ DOMAIN files = {e.path : e \in asked} \cup Above(asked)
               /\ \A e \in asked : files[e.path] = e.node
               /\ \A p \in Above(asked) : files[p] = Dir
<1> DEFINE n == Len(entries)
<1>0. PICK x : ExtractLoop(x, entries, want)
    BY ExtractLoopFacts
<1>1. /\ x[0] = ExtractStart
      /\ \A i \in 1..n : x[i] = ExtractEntry(x[i - 1], entries[i], want)
      /\ Extract(entries, want) = [x[n] EXCEPT !.ok = @ /\ x[n].selected > 0]
    BY <1>0 DEF ExtractLoop
<1>2. n \in Nat /\ \A i \in 1..n : entries[i] \in Entries
    OBVIOUS
<1>3. \A i \in 0..n : x[i] \in Extracting /\ Extracted(x[i], entries, want, i)
    BY <1>1, <1>2, ExtractingAll
<1>4. x[n] \in Extracting /\ Extracted(x[n], entries, want, n)
    BY <1>2, <1>3
<1>5. x[n].ok /\ Extract(entries, want).files = x[n].files
    BY <1>1, <1>4 DEF Extracting
<1>6. Asked(entries, want, n) = {e \in ToSet(entries) : Wanted(want, e.path)}
    BY <1>2 DEF Asked, ToSet
<1> QED
    BY <1>4, <1>5, <1>6 DEF Extracted

-----------------------------------------------------------------------------
(* What a scan makes of a stream. *)

Scanning == [ok : BOOLEAN, entries : Nat, bytes : Nat, seen : SUBSET Entries]

LEMMA ScanCases ==
    ASSUME NEW s \in Scanning, NEW e \in Entries
    PROVE  /\ ScanEntry(s, e) \in Scanning
           /\ \/ ~ScanEntry(s, e).ok
              \/ /\ ScanEntry(s, e).ok = s.ok
                 /\ ScanEntry(s, e).entries = s.entries + 1
                 /\ ScanEntry(s, e).bytes = s.bytes + e.node.size
                 /\ ScanEntry(s, e).seen = s.seen \cup {e}
           /\ s.ok /\ Acceptable(s, e)
              /\ (\A f \in s.seen : f.path \in Ancestors(e.path) => f.node.kind = "dir")
                => ScanEntry(s, e).ok
<1> DEFINE n == s.entries + 1
           m == s.bytes + e.node.size
           all == s.seen \cup {e}
           a == [s EXCEPT !.entries = n, !.bytes = m, !.seen = all]
<1>1. n \in Nat /\ m \in Nat /\ all \in SUBSET Entries
    BY NodeFacts DEF Entries, Scanning
<1>2. Accept(s, e) = a
    BY DEF Accept
<1> HIDE DEF n, m, all
<1>3. a \in Scanning
    BY <1>1 DEF Scanning
<1>4. a.ok = s.ok /\ a.entries = n /\ a.bytes = m /\ a.seen = all
    BY <1>1 DEF Scanning
<1>5. [s EXCEPT !.ok = FALSE] \in Scanning /\ ~[s EXCEPT !.ok = FALSE].ok
    BY DEF Scanning
<1> HIDE DEF a
<1> QED
    BY <1>2, <1>3, <1>4, <1>5 DEF ScanEntry, n, m, all

LEMMA ScanningAll ==
    ASSUME NEW entries \in Seq(Entries), NEW s, s[0] = ScanStart,
           \A i \in 1..Len(entries) : s[i] = ScanEntry(s[i - 1], entries[i])
    PROVE  \A i \in 0..Len(entries) : s[i] \in Scanning
<1> DEFINE n == Len(entries)
           T == {i \in 0..n : s[i] \in Scanning}
<1>1. n \in Nat /\ \A i \in 1..n : entries[i] \in Entries
    OBVIOUS
<1>2. 0 \in T
    <2>1. ScanStart \in Scanning
        BY DEF ScanStart, Scanning
    <2> QED
        BY <1>1, <2>1
<1>3. ASSUME NEW i \in 1..n, i - 1 \in T
      PROVE  i \in T
    <2>1. s[i - 1] \in Scanning /\ entries[i] \in Entries /\ i \in 0..n
        BY <1>1, <1>3
    <2>2. ScanEntry(s[i - 1], entries[i]) \in Scanning
        BY <2>1, ScanCases
    <2> QED
        BY <2>1, <2>2
<1>4. \A i \in 0..n : i \in T
    <2> HIDE DEF T
    <2> QED
        BY <1>1, <1>2, <1>3, EachTurn
<1> QED
    BY <1>4

\* A scan and a restore of everything agree as long as the restore goes on.
Agree(s, x) ==
    x.ok => /\ s.ok /\ s.entries = x.entries /\ s.bytes = x.bytes /\ s.seen = x.seen

LEMMA EverythingIsWanted ==
    \A p : Wanted(Everything, p)
BY DEF Wanted, Everything, MatchesAny

LEMMA AgreeNext ==
    ASSUME NEW entries \in Seq(Entries), NEW i \in 1..Len(entries),
           NEW s \in Scanning, NEW x \in Extracting,
           Extracted(x, entries, Everything, i - 1), Agree(s, x)
    PROVE  Agree(ScanEntry(s, entries[i]), ExtractEntry(x, entries[i], Everything))
<1> DEFINE e == entries[i]
           y == ExtractEntry(x, e, Everything)
<1>0. e \in Entries /\ i \in Nat /\ i - 1 \in Nat
    OBVIOUS
<1> SUFFICES ASSUME y.ok
             PROVE  Agree(ScanEntry(s, e), y)
    BY DEF Agree
<1>1. x.ok /\ Acceptable(x, e) /\ CanWrite(x, e) /\ y = Write(x, e)
    BY <1>0, EntryCases, EverythingIsWanted
<1>2. s.ok /\ s.entries = x.entries /\ s.bytes = x.bytes /\ s.seen = x.seen
    BY <1>1 DEF Agree
<1>3. Acceptable(s, e)
    BY <1>1, <1>2 DEF Acceptable
<1>4. ASSUME NEW f \in s.seen, f.path \in Ancestors(e.path)
      PROVE  f.node.kind = "dir"
    <2>1. f \in Asked(entries, Everything, i - 1)
        BY <1>0, <1>1, <1>2, <1>4, EverythingIsWanted DEF Extracted, Asked
    <2>2. f.path \in DOMAIN x.files /\ x.files[f.path] = f.node
        BY <1>1, <2>1 DEF Extracted
    <2>3. KindAt(x, f.path) \in {"none", "dir"}
        BY <1>1, <1>4 DEF CanWrite
    <2> QED
        BY <2>2, <2>3, FileKinds DEF KindAt
<1>5. ScanEntry(s, e).ok
    BY <1>0, <1>2, <1>3, <1>4, ScanCases
<1>6. /\ ScanEntry(s, e).entries = s.entries + 1 /\ ScanEntry(s, e).bytes = s.bytes + e.node.size
      /\ ScanEntry(s, e).seen = s.seen \cup {e}
    BY <1>0, <1>5, ScanCases
<1>7. y.entries = x.entries + 1 /\ y.bytes = x.bytes + e.node.size /\ y.seen = x.seen \cup {e}
    <2> HIDE DEF e, y
    <2>1. LET w == Write(x, e)
          IN  w.entries = x.entries + 1 /\ w.bytes = x.bytes + e.node.size /\ w.seen = x.seen \cup {e}
        BY <1>0, <1>1, WriteFacts
    <2> QED
        BY <1>1, <2>1
<1> QED
    BY <1>2, <1>5, <1>6, <1>7 DEF Agree

LEMMA ValidFacts ==
    ASSUME NEW entries \in Seq(Entries), Extract(entries, Everything).ok
    PROVE  /\ Scan(entries).ok
           /\ Scan(entries).entries = Extract(entries, Everything).entries
           /\ Scan(entries).bytes = Extract(entries, Everything).bytes
<1> DEFINE n == Len(entries)
           X == Extract(entries, Everything)
<1>a. PICK x : ExtractLoop(x, entries, Everything)
    BY ExtractLoopFacts
<1>1. /\ x[0] = ExtractStart
      /\ \A i \in 1..n : x[i] = ExtractEntry(x[i - 1], entries[i], Everything)
      /\ X = [x[n] EXCEPT !.ok = @ /\ x[n].selected > 0]
    BY <1>a DEF ExtractLoop
<1>b. PICK s : ScanLoop(s, entries)
    BY ScanLoopFacts
<1>2. /\ s[0] = ScanStart
      /\ \A i \in 1..n : s[i] = ScanEntry(s[i - 1], entries[i])
      /\ Scan(entries) = s[n]
    BY <1>b DEF ScanLoop
<1>3. n \in Nat /\ \A i \in 1..n : entries[i] \in Entries
    OBVIOUS
<1>4. \A i \in 0..n : x[i] \in Extracting /\ Extracted(x[i], entries, Everything, i)
    BY <1>1, <1>3, ExtractingAll
<1>5. \A i \in 0..n : s[i] \in Scanning
    BY <1>2, <1>3, ScanningAll
<1> DEFINE T == {i \in 0..n : Agree(s[i], x[i])}
<1>6. 0 \in T
    <2>1. Agree(ScanStart, ExtractStart)
        BY DEF ScanStart, ExtractStart, Agree
    <2> QED
        BY <1>1, <1>2, <1>3, <2>1
<1>7. ASSUME NEW i \in 1..n, i - 1 \in T
      PROVE  i \in T
    <2>1. i - 1 \in 0..n /\ i \in 0..n
        BY <1>3
    <2>2. Agree(ScanEntry(s[i - 1], entries[i]), ExtractEntry(x[i - 1], entries[i], Everything))
        BY <1>4, <1>5, <1>7, <2>1, AgreeNext
    <2> QED
        BY <1>1, <1>2, <2>1, <2>2
<1>8. \A i \in 0..n : i \in T
    <2> HIDE DEF T
    <2> QED
        BY <1>3, <1>6, <1>7, EachTurn
<1>9. Agree(s[n], x[n]) /\ x[n] \in Extracting
    BY <1>3, <1>4, <1>8
<1>10. x[n].ok /\ X.entries = x[n].entries /\ X.bytes = x[n].bytes
    BY <1>1, <1>9 DEF Extracting
<1> QED
    BY <1>2, <1>9, <1>10 DEF Agree

-----------------------------------------------------------------------------
(* What can be restored. *)

\* Nothing in a stream stops its restore.
Restorable(entries) ==
    /\ Len(entries) <= MaxEntries
    /\ \A i \in 1..Len(entries) :
          /\ Len(entries[i].path) <= MaxPathDepth /\ entries[i].node.size <= MaxEntrySize
          /\ Storable(entries[i].path, entries[i].node)
    /\ TotalSize(entries) <= MaxTotalSize
    /\ \A i, j \in 1..Len(entries) :
          /\ i # j => entries[i].path # entries[j].path
          /\ entries[i].path \in Ancestors(entries[j].path) => entries[i].node.kind = "dir"

LEMMA SumFacts ==
    ASSUME NEW entries \in Seq(Entries), NEW s, SumLoop(s, entries)
    PROVE  /\ \A i \in 0..Len(entries) : s[i] \in Nat /\ s[i] <= TotalSize(entries)
           /\ \A i \in 1..Len(entries) : s[i] = s[i - 1] + entries[i].node.size
           /\ s[0] = 0
<1> DEFINE n == Len(entries)
           T == {i \in 0..n : s[i] \in Nat}
<1>1. /\ s[0] = 0 /\ TotalSize(entries) = s[n]
      /\ \A i \in 1..n : s[i] = s[i - 1] + entries[i].node.size
    BY DEF SumLoop
<1>2. n \in Nat /\ \A i \in 1..n : entries[i].node.size \in Nat
    <2>1. n \in Nat /\ \A i \in 1..n : entries[i] \in Entries
        OBVIOUS
    <2>2. \A e \in Entries : e.node.size \in Nat
        BY NodeFacts DEF Entries
    <2> QED
        BY <2>1, <2>2
<1>3. \A i \in 0..n : i \in T
    <2>1. 0 \in T
        BY <1>1, <1>2
    <2>2. ASSUME NEW i \in 1..n, i - 1 \in T PROVE i \in T
        <3>1. s[i] = s[i - 1] + entries[i].node.size /\ s[i - 1] \in Nat /\ entries[i].node.size \in Nat
            BY <1>1, <1>2, <2>2
        <3>2. s[i] \in Nat
            BY <3>1
        <3>3. i \in 0..n
            BY <1>2
        <3> QED
            BY <3>2, <3>3
    <2> HIDE DEF T
    <2> QED
        BY <1>2, <2>1, <2>2, EachTurn
<1>4. ASSUME NEW i \in 0..n PROVE s[i] <= s[n]
    <2> DEFINE U == {j \in 0..n : i <= j => s[i] <= s[j]}
    <2>1. 0 \in U
        BY <1>2, <1>3
    <2>2. ASSUME NEW j \in 1..n, j - 1 \in U PROVE j \in U
        <3>1. s[j] = s[j - 1] + entries[j].node.size /\ s[j - 1] \in Nat /\ s[i] \in Nat
            BY <1>1, <1>2, <1>3
        <3>2. i <= j => i = j \/ i <= j - 1
            BY <1>2
        <3> QED
            BY <1>2, <2>2, <3>1, <3>2
    <2>3. \A j \in 0..n : j \in U
        <3> HIDE DEF U
        <3> QED
            BY <1>2, <2>1, <2>2, EachTurn
    <2> QED
        BY <1>2, <2>3
<1> QED
    BY <1>1, <1>3, <1>4

\* The loops over a stream that nothing stops.
Goes(s, x, sum, entries, i) ==
    /\ s \in Scanning /\ x \in Extracting /\ s.ok /\ x.ok
    /\ s.entries = i /\ x.entries = i /\ x.selected = i
    /\ s.bytes = sum /\ x.bytes = sum
    /\ s.seen = {entries[j] : j \in 1..i} /\ x.seen = {entries[j] : j \in 1..i}
    /\ Extracted(x, entries, Everything, i)

LEMMA GoesNext ==
    ASSUME NEW entries \in Seq(Entries), Restorable(entries), NEW i \in 1..Len(entries),
           NEW s, NEW x, NEW sum \in Nat, Goes(s, x, sum, entries, i - 1),
           sum + entries[i].node.size <= TotalSize(entries)
    PROVE  Goes(ScanEntry(s, entries[i]), ExtractEntry(x, entries[i], Everything),
                sum + entries[i].node.size, entries, i)
<1> DEFINE e == entries[i]
<1>0. /\ e \in Entries /\ i \in Nat /\ i - 1 \in Nat /\ (i - 1) + 1 = i
      /\ \A j \in 1..(i - 1) : j \in 1..Len(entries) /\ j # i
    OBVIOUS
<1>1. /\ s \in Scanning /\ x \in Extracting /\ s.ok /\ x.ok
      /\ s.entries = i - 1 /\ x.entries = i - 1 /\ x.selected = i - 1
      /\ s.bytes = sum /\ x.bytes = sum
      /\ s.seen = {entries[j] : j \in 1..(i - 1)} /\ x.seen = {entries[j] : j \in 1..(i - 1)}
      /\ Extracted(x, entries, Everything, i - 1)
    BY DEF Goes
<1>2. e.path \in AnyPath /\ e.node \in AnyNode /\ e.node.size \in Nat
    BY <1>0, NodeFacts DEF Entries
<1>3. /\ Len(e.path) <= MaxPathDepth /\ e.node.size <= MaxEntrySize
      /\ Storable(e.path, e.node)
      /\ sum + e.node.size <= MaxTotalSize /\ i - 1 < MaxEntries
    <2>1. Len(entries) <= MaxEntries /\ TotalSize(entries) <= MaxTotalSize
        BY DEF Restorable
    <2>2. TotalSize(entries) \in Int
        <3>1. PICK w : SumLoop(w, entries)
            BY SumLoopFacts
        <3>2. Len(entries) \in 0..Len(entries) /\ w[Len(entries)] = TotalSize(entries)
            BY <3>1 DEF SumLoop
        <3> QED
            BY <3>1, <3>2, SumFacts
    <2>3. MaxEntries \in Nat /\ MaxTotalSize \in Nat /\ Len(entries) \in Nat
        BY ConstantsAssumption DEF ConstantsAssumption
    <2>4. sum + e.node.size <= MaxTotalSize /\ i - 1 < MaxEntries
        BY <1>2, <2>1, <2>2, <2>3
    <2> QED
        BY <2>4 DEF Restorable
<1>4. \A f \in x.seen : f.path # e.path /\ (f.path \in Ancestors(e.path) => f.node.kind = "dir")
                        /\ (e.path \in Ancestors(f.path) => e.node.kind = "dir")
    BY <1>0, <1>1 DEF Restorable
<1>5. Acceptable(s, e) /\ Acceptable(x, e)
    BY <1>1, <1>3, <1>4 DEF Acceptable, Storable
<1>6. ScanEntry(s, e).ok
    BY <1>0, <1>1, <1>4, <1>5, ScanCases
<1>7. Asked(entries, Everything, i - 1) = x.seen
    BY <1>1, EverythingIsWanted DEF Asked
<1>8. /\ DOMAIN x.files = {f.path : f \in x.seen} \cup Above(x.seen)
      /\ \A f \in x.seen : x.files[f.path] = f.node
      /\ \A p \in Above(x.seen) : x.files[p] = Dir
    BY <1>1, <1>7 DEF Extracted
<1>9. CanWrite(x, e)
    <2>1. ASSUME NEW q \in Ancestors(e.path), q \in DOMAIN x.files
          PROVE  x.files[q].kind = "dir"
        BY <1>4, <1>8, <2>1, NodeFacts
    <2>2. ASSUME e.path \in DOMAIN x.files
          PROVE  e.node.kind = "dir" /\ x.files[e.path].kind = "dir"
        <3>1. e.path \in Above(x.seen)
            BY <1>4, <1>8, <2>2
        <3> QED
            BY <1>4, <1>8, <3>1, NodeFacts DEF Above
    <2> QED
        BY <2>1, <2>2 DEF CanWrite, KindAt
<1>10. ExtractEntry(x, e, Everything) = Write(x, e)
    BY <1>1, <1>5, <1>9, EverythingIsWanted DEF ExtractEntry
<1>11. /\ ExtractEntry(x, e, Everything) \in Extracting
       /\ ExtractEntry(x, e, Everything).ok
       /\ ExtractEntry(x, e, Everything).entries = i
       /\ ExtractEntry(x, e, Everything).selected = i
       /\ ExtractEntry(x, e, Everything).bytes = sum + e.node.size
       /\ ExtractEntry(x, e, Everything).seen = x.seen \cup {e}
    <2> HIDE DEF e
    <2>0. x \in Extracting /\ e \in Entries
        BY <1>0, <1>1
    <2>1. /\ Write(x, e) \in Extracting /\ Write(x, e).ok = x.ok
          /\ Write(x, e).entries = x.entries + 1 /\ Write(x, e).selected = x.selected + 1
          /\ Write(x, e).bytes = x.bytes + e.node.size /\ Write(x, e).seen = x.seen \cup {e}
        BY <2>0, WriteFacts
    <2> QED
        BY <1>0, <1>1, <1>10, <2>1
<1>12. /\ ScanEntry(s, e) \in Scanning
       /\ ScanEntry(s, e).entries = i
       /\ ScanEntry(s, e).bytes = sum + e.node.size
       /\ ScanEntry(s, e).seen = s.seen \cup {e}
    <2>1. /\ ScanEntry(s, e) \in Scanning /\ ScanEntry(s, e).entries = s.entries + 1
          /\ ScanEntry(s, e).bytes = s.bytes + e.node.size /\ ScanEntry(s, e).seen = s.seen \cup {e}
        BY <1>0, <1>1, <1>6, ScanCases
    <2> HIDE DEF e
    <2> QED
        BY <1>0, <1>1, <2>1
<1>13. {entries[j] : j \in 1..i} = {entries[j] : j \in 1..(i - 1)} \cup {e}
    BY <1>0
<1>14. Extracted(ExtractEntry(x, e, Everything), entries, Everything, i)
    BY <1>0, <1>1, ExtractedNext
<1> HIDE DEF e
<1> QED
    BY <1>1, <1>6, <1>11, <1>12, <1>13, <1>14 DEF Goes, e

LEMMA MadeFacts ==
    ASSUME NEW entries \in Seq(Entries), Restorable(entries), entries # <<>>
    PROVE  /\ Scan(entries).ok /\ Extract(entries, Everything).ok
           /\ \A e \in ToSet(entries) : Extract(entries, Everything).files[e.path] = e.node
<1> DEFINE n == Len(entries)
           X == Extract(entries, Everything)
<1>a. PICK x : ExtractLoop(x, entries, Everything)
    BY ExtractLoopFacts
<1>1. /\ x[0] = ExtractStart
      /\ \A i \in 1..n : x[i] = ExtractEntry(x[i - 1], entries[i], Everything)
      /\ X = [x[n] EXCEPT !.ok = @ /\ x[n].selected > 0]
    BY <1>a DEF ExtractLoop
<1>b. PICK s : ScanLoop(s, entries)
    BY ScanLoopFacts
<1>2. /\ s[0] = ScanStart
      /\ \A i \in 1..n : s[i] = ScanEntry(s[i - 1], entries[i])
      /\ Scan(entries) = s[n]
    BY <1>b DEF ScanLoop
<1>c. PICK sum : SumLoop(sum, entries)
    BY SumLoopFacts
<1>3. /\ \A i \in 0..n : sum[i] \in Nat /\ sum[i] <= TotalSize(entries)
      /\ \A i \in 1..n : sum[i] = sum[i - 1] + entries[i].node.size
      /\ sum[0] = 0
    BY <1>c, SumFacts
<1>4. n \in Nat /\ n > 0 /\ \A i \in 1..n : entries[i] \in Entries /\ i - 1 \in 0..n /\ i \in 0..n
    BY EmptySeq
<1> DEFINE T == {i \in 0..n : Goes(s[i], x[i], sum[i], entries, i)}
<1>5. 0 \in T
    <2>1. ScanStart \in Scanning /\ ScanStart.ok /\ ScanStart.entries = 0 /\ ScanStart.bytes = 0
          /\ ScanStart.seen = {}
        BY DEF ScanStart, Scanning
    <2>2. 0 \in 0..n
        BY <1>4
    <2>3. x[0] \in Extracting /\ Extracted(x[0], entries, Everything, 0)
        BY <1>1, <2>2, ExtractingAll
    <2>4. /\ x[0].ok /\ x[0].entries = 0 /\ x[0].bytes = 0 /\ x[0].seen = {} /\ x[0].selected = 0
        BY <1>1 DEF ExtractStart
    <2>5. {entries[j] : j \in 1..0} = {}
        OBVIOUS
    <2>6. Goes(s[0], x[0], sum[0], entries, 0)
        BY <1>2, <1>3, <2>1, <2>3, <2>4, <2>5 DEF Goes
    <2> QED
        BY <2>2, <2>6
<1>6. ASSUME NEW i \in 1..n, i - 1 \in T
      PROVE  i \in T
    <2>1. sum[i - 1] \in Nat /\ sum[i - 1] + entries[i].node.size <= TotalSize(entries)
        BY <1>3, <1>4
    <2>2. Goes(ScanEntry(s[i - 1], entries[i]), ExtractEntry(x[i - 1], entries[i], Everything),
               sum[i - 1] + entries[i].node.size, entries, i)
        BY <1>6, <2>1, GoesNext
    <2> QED
        BY <1>1, <1>2, <1>3, <1>4, <2>2
<1>7. \A i \in 0..n : i \in T
    <2> HIDE DEF T
    <2> QED
        BY <1>4, <1>5, <1>6, EachTurn
<1>8. Goes(s[n], x[n], sum[n], entries, n)
    BY <1>4, <1>7
<1>9. Scan(entries).ok
    BY <1>2, <1>8 DEF Goes
<1>10. X.ok
    <2>1. x[n] \in Extracting /\ x[n].ok /\ x[n].selected = n
        BY <1>8 DEF Goes
    <2> QED
        BY <1>1, <1>4, <2>1 DEF Extracting
<1>11. \A e \in {d \in ToSet(entries) : Wanted(Everything, d.path)} : X.files[e.path] = e.node
    BY <1>10, ExtractFacts
<1>12. \A e \in ToSet(entries) : X.files[e.path] = e.node
    BY <1>11, EverythingIsWanted
<1> QED
    BY <1>9, <1>10, <1>12

-----------------------------------------------------------------------------
(* A directory's list. *)

Smaller(ps, p) == {q \in ps : Last(q) < Last(p)}

LEMMA Ranks ==
    ASSUME NEW ps, IsFiniteSet(ps),
           \A p \in ps : Last(p) \in Nat,
           \A p, q \in ps : Last(p) = Last(q) => p = q
    PROVE  /\ Cardinality(ps) \in Nat
           /\ \A i \in 1..Cardinality(ps) : \E p \in ps : Cardinality(Smaller(ps, p)) = i - 1
           /\ \A p \in ps : Cardinality(Smaller(ps, p)) + 1 \in 1..Cardinality(ps)
           /\ \A p, q \in ps : Cardinality(Smaller(ps, p)) = Cardinality(Smaller(ps, q)) => p = q
<1> DEFINE n == Cardinality(ps)
           rank == [p \in ps |-> Cardinality(Smaller(ps, p))]
<1>1. n \in Nat
    BY FS_CardinalityType
<1>2. ASSUME NEW p \in ps
      PROVE  /\ IsFiniteSet(Smaller(ps, p)) /\ Cardinality(Smaller(ps, p)) \in Nat
             /\ Cardinality(Smaller(ps, p)) < n
    <2>1. Smaller(ps, p) \in SUBSET ps /\ p \notin Smaller(ps, p)
        BY DEF Smaller
    <2>2. /\ IsFiniteSet(Smaller(ps, p)) /\ Cardinality(Smaller(ps, p)) <= n
          /\ Cardinality(Smaller(ps, p)) # n
        BY <2>1, FS_Subset
    <2> QED
        BY <1>1, <2>2, FS_CardinalityType
<1>3. ASSUME NEW p \in ps, NEW q \in ps, Last(p) < Last(q)
      PROVE  Cardinality(Smaller(ps, p)) < Cardinality(Smaller(ps, q))
    <2>1. Smaller(ps, p) \in SUBSET Smaller(ps, q)
        BY <1>3 DEF Smaller
    <2>2. p \in Smaller(ps, q) /\ p \notin Smaller(ps, p)
        BY <1>3 DEF Smaller
    <2>3. /\ Cardinality(Smaller(ps, p)) <= Cardinality(Smaller(ps, q))
          /\ Cardinality(Smaller(ps, p)) # Cardinality(Smaller(ps, q))
        BY <1>2, <2>1, <2>2, FS_Subset
    <2> QED
        BY <1>2, <2>3
<1>4. ASSUME NEW p \in ps, NEW q \in ps, Cardinality(Smaller(ps, p)) = Cardinality(Smaller(ps, q))
      PROVE  p = q
    <2>1. ~(Last(p) < Last(q)) /\ ~(Last(q) < Last(p))
        BY <1>2, <1>3, <1>4
    <2> QED
        BY <2>1
<1>5. \A p \in ps : rank[p] = Cardinality(Smaller(ps, p)) /\ rank[p] \in 0..(n - 1)
    BY <1>1, <1>2
<1>6. rank \in [ps -> 0..(n - 1)]
    BY <1>5
<1> HIDE DEF rank
<1>7. rank \in Injection(ps, 0..(n - 1))
    BY <1>4, <1>5, <1>6 DEF Injection, IsInjective
<1>8. IsFiniteSet(0..(n - 1)) /\ Cardinality(0..(n - 1)) = n
    BY <1>1, FS_Interval
<1>9. rank \in Surjection(ps, 0..(n - 1))
    BY <1>7, <1>8, FS_Injection
<1>10. ASSUME NEW i \in 1..n PROVE \E p \in ps : Cardinality(Smaller(ps, p)) = i - 1
    <2>1. i - 1 \in 0..(n - 1)
        BY <1>1
    <2> QED
        BY <1>5, <1>9, <2>1 DEF Surjection
<1> QED
    BY <1>1, <1>2, <1>4, <1>10

LEMMA FunctionIsSequence ==
    ASSUME NEW S, NEW n \in Nat, NEW f \in [1..n -> S]
    PROVE  f \in Seq(S) /\ Len(f) = n
OBVIOUS

\* What is directly in a directory.
LEMMA ChildFacts ==
    ASSUME DOMAIN tree \subseteq Paths, NEW d \in Seq(Names)
    PROVE  /\ Children(d) \subseteq Paths /\ IsFiniteSet(Children(d))
           /\ Children(d) \subseteq DOMAIN tree
           /\ \A p \in Children(d) : Strictly(d, p)
           /\ \A p, q \in Children(d) : IsPrefix(p, q) \/ Last(p) = Last(q) => p = q
           /\ \A p \in Children(d), q \in Seq(Names) : IsPrefix(q, p) => q = p \/ IsPrefix(q, d)
           /\ \A p \in Children(d) : Last(p) \in Nat
<1>2. /\ Children(d) \subseteq Paths /\ Children(d) \subseteq DOMAIN tree
      /\ \A p \in Children(d) : Len(p) = Len(d) + 1 /\ IsPrefix(d, p)
    BY DEF Children
<1>3. Children(d) \subseteq Seq(Names) /\ Len(d) \in Nat
    BY <1>2, PathFacts
<1>4. IsFiniteSet(Children(d))
    BY <1>2, FS_Subset, ConstantsAssumption DEF ConstantsAssumption
<1>5. ASSUME NEW p \in Children(d)
      PROVE  /\ p \in Seq(Names) /\ Len(p) = Len(d) + 1 /\ \A i \in 1..Len(d) : d[i] = p[i]
             /\ Last(p) = p[Len(p)] /\ Last(p) \in Nat /\ d # p /\ IsPrefix(d, p)
    <2>1. p \in Seq(Names) /\ Len(p) = Len(d) + 1 /\ IsPrefix(d, p)
        BY <1>2, <1>3
    <2>2. \A i \in 1..Len(d) : d[i] = p[i]
        BY <1>3, <2>1, PrefixFacts
    <2>3. Len(p) \in 1..Len(p) /\ d # p
        BY <1>3, <2>1
    <2>4. p[Len(p)] \in Names
        BY <2>1, <2>3
    <2> QED
        BY <2>1, <2>2, <2>3, <2>4, PathFacts DEF Last
<1>6. ASSUME NEW p \in Children(d), NEW q \in Children(d), Last(p) = Last(q)
      PROVE  p = q
    <2>1. Len(p) = Len(q) /\ \A i \in 1..Len(p) : i \in 1..Len(d) \/ i = Len(p)
        BY <1>3, <1>5
    <2>2. \A i \in 1..Len(p) : p[i] = q[i]
        BY <1>5, <1>6, <2>1
    <2> QED
        BY <1>5, <2>1, <2>2, SeqEqual
<1>7. ASSUME NEW p \in Children(d), NEW q \in Seq(Names), IsPrefix(q, p), q # p
      PROVE  IsPrefix(q, d)
    <2>1. Len(q) <= Len(p) /\ (\A i \in 1..Len(q) : q[i] = p[i])
        BY <1>5, <1>7, PrefixFacts
    <2>2. Len(q) # Len(p)
        BY <1>5, <1>7, <2>1, SeqEqual
    <2>3. Len(q) <= Len(d) /\ Len(q) \in Nat
        BY <1>3, <1>5, <2>1, <2>2
    <2>4. \A i \in 1..Len(q) : q[i] = d[i]
        BY <1>3, <1>5, <2>1, <2>3
    <2> QED
        BY <2>3, <2>4, PrefixFacts
<1>8. ASSUME NEW p \in Children(d), NEW q \in Children(d), IsPrefix(p, q)
      PROVE  p = q
    <2>1. Len(p) = Len(q) /\ \A i \in 1..Len(p) : p[i] = q[i]
        BY <1>5, <1>8, PrefixFacts
    <2> QED
        BY <1>5, <2>1, SeqEqual
<1> QED
    BY <1>2, <1>4, <1>5, <1>6, <1>7, <1>8 DEF Strictly

\* A list of what is in a directory.
Lists(list, d) ==
    /\ list \in Seq(Items)
    /\ \A i \in DOMAIN list : list[i].path \in Children(d) /\ list[i].dir = IsDir(list[i].path)
    /\ \A i, j \in DOMAIN list : list[i].path = list[j].path => i = j
    /\ \A p \in Children(d) : \E i \in DOMAIN list : list[i].path = p

LEMMA Listing ==
    ASSUME DOMAIN tree \subseteq Paths, NEW d \in Seq(Names)
    PROVE  Lists(ReadDir(d), d)
<1> DEFINE ps == Children(d)
           n == Cardinality(ps)
           sorted(i) == CHOOSE p \in ps : Cardinality(Smaller(ps, p)) = i - 1
           list == [i \in 1..n |-> [path |-> sorted(i), dir |-> tree[sorted(i)].kind = "dir"]]
<1>1. /\ IsFiniteSet(ps) /\ ps \subseteq Paths /\ ps \subseteq DOMAIN tree
      /\ \A p \in ps : Last(p) \in Nat
      /\ \A p, q \in ps : Last(p) = Last(q) => p = q
    BY ChildFacts
<1>2. ReadDir(d) = list
    BY DEF ReadDir, Smaller
<1> HIDE DEF ps
<1>3. /\ n \in Nat
      /\ \A i \in 1..n : \E p \in ps : Cardinality(Smaller(ps, p)) = i - 1
      /\ \A p \in ps : Cardinality(Smaller(ps, p)) + 1 \in 1..n
      /\ \A p, q \in ps : Cardinality(Smaller(ps, p)) = Cardinality(Smaller(ps, q)) => p = q
    BY <1>1, Ranks
<1>4. \A i \in 1..n : sorted(i) \in ps /\ Cardinality(Smaller(ps, sorted(i))) = i - 1
    BY <1>3
<1>5. ASSUME NEW p \in ps PROVE \E i \in 1..n : sorted(i) = p
    <2> DEFINE i == Cardinality(Smaller(ps, p)) + 1
    <2>1. i \in 1..n /\ i - 1 = Cardinality(Smaller(ps, p))
        <3>1. i \in 1..n
            BY <1>3
        <3>2. Cardinality(Smaller(ps, p)) \in Nat
            BY <1>1, FS_Subset, FS_CardinalityType DEF Smaller
        <3> QED
            BY <3>1, <3>2
    <2>2. sorted(i) \in ps /\ Cardinality(Smaller(ps, sorted(i))) = i - 1
        BY <1>4, <2>1
    <2>3. sorted(i) = p
        <3> HIDE DEF i, sorted
        <3> QED
            BY <1>3, <2>1, <2>2
    <2> QED
        BY <2>1, <2>3
<1>6. \A i, j \in 1..n : sorted(i) = sorted(j) => i = j
    <2> SUFFICES ASSUME NEW i \in 1..n, NEW j \in 1..n, sorted(i) = sorted(j)
                 PROVE  i = j
        OBVIOUS
    <2>1. i - 1 = j - 1
        <3> HIDE DEF sorted
        <3> QED
            BY <1>4
    <2> QED
        BY <2>1
<1> HIDE DEF sorted
<1>7. list \in Seq(Items) /\ DOMAIN list = 1..n
    <2>1. \A i \in 1..n : list[i] \in Items
        BY <1>1, <1>4 DEF Items
    <2>2. list \in [1..n -> Items] /\ DOMAIN list = 1..n
        BY <2>1
    <2> HIDE DEF list, n
    <2> QED
        BY <1>3, <2>2, FunctionIsSequence
<1>8. \A i \in 1..n : list[i].path = sorted(i) /\ list[i].dir = IsDir(sorted(i))
    BY <1>1, <1>4 DEF IsDir
<1> HIDE DEF list, n
<1> QED
    BY <1>2, <1>4, <1>5, <1>6, <1>7, <1>8 DEF Lists, ps

\* Whatever is below a directory is below something on its list.
LEMMA ListCovers ==
    ASSUME DOMAIN tree \subseteq Paths, tree \in Trees, NEW d \in Seq(Names), NEW p \in DOMAIN tree, Strictly(d, p)
    PROVE  \E q \in Children(d) : IsPrefix(q, p)
<1> DEFINE q == SubSeq(p, 1, Len(d) + 1)
<1>1. p \in AnyPath /\ p \in Seq(Names) /\ Len(d) \in Nat
    BY PathFacts
<1>2. Len(d) <= Len(p) /\ \A i \in 1..Len(d) : d[i] = p[i]
    BY <1>1, PrefixFacts DEF Strictly
<1>3. Len(d) # Len(p)
    BY <1>1, <1>2, SeqEqual DEF Strictly
<1>4. Len(d) + 1 \in 1..Len(p)
    BY <1>1, <1>2, <1>3
<1>5. q \in Seq(Names) /\ Len(q) = Len(d) + 1 /\ \A i \in 1..(Len(d) + 1) : q[i] = p[i]
    BY <1>1, <1>4
<1>6. q \in DOMAIN tree
    <2>1. CASE Len(d) + 1 = Len(p)
        <3>1. q = p
            <4> HIDE DEF q
            <4> QED
                BY <1>1, <1>5, <2>1, SeqEqual
        <3> QED
            BY <3>1
    <2>2. CASE Len(d) + 1 # Len(p)
        <3>1. Len(d) + 1 \in 1..(Len(p) - 1)
            BY <1>1, <1>4, <2>2
        <3>2. q \in Ancestors(p)
            BY <3>1 DEF Ancestors
        <3> QED
            BY <3>2 DEF Trees
    <2> QED
        BY <2>1, <2>2
<1> HIDE DEF q
<1>7. IsPrefix(d, q) /\ IsPrefix(q, p)
    <2>1. \A i \in 1..Len(d) : d[i] = q[i]
        BY <1>1, <1>2, <1>5
    <2>2. Len(d) <= Len(q) /\ Len(q) <= Len(p) /\ \A i \in 1..Len(q) : q[i] = p[i]
        BY <1>1, <1>4, <1>5
    <2> QED
        BY <1>1, <1>5, <2>1, <2>2, PrefixFacts
<1>8. q \in Children(d)
    BY <1>5, <1>6, <1>7 DEF Children
<1> QED
    BY <1>7, <1>8

-----------------------------------------------------------------------------
(* What is left of a list, and what is added to one. *)

LEMMA AppendFacts ==
    ASSUME NEW S, NEW s \in Seq(S), NEW e \in S
    PROVE  /\ Append(s, e) \in Seq(S)
           /\ DOMAIN Append(s, e) = DOMAIN s \cup {Len(s) + 1} /\ Len(s) + 1 \notin DOMAIN s
           /\ \A k \in DOMAIN s : Append(s, e)[k] = s[k]
           /\ Append(s, e)[Len(s) + 1] = e
<1>1. DOMAIN s = 1..Len(s) /\ Len(s) \in Nat
    OBVIOUS
<1>2. DOMAIN Append(s, e) = 1..(Len(s) + 1)
    OBVIOUS
<1>3. 1..(Len(s) + 1) = 1..Len(s) \cup {Len(s) + 1} /\ Len(s) + 1 \notin 1..Len(s)
    BY <1>1
<1> QED
    BY <1>1, <1>2, <1>3

LEMMA ConcatFacts ==
    ASSUME NEW S, NEW s \in Seq(S), NEW u \in Seq(S)
    PROVE  /\ s \o u \in Seq(S)
           /\ \A i \in DOMAIN (s \o u) :
                 \/ i \in DOMAIN s /\ (s \o u)[i] = s[i]
                 \/ i - Len(s) \in DOMAIN u /\ (s \o u)[i] = u[i - Len(s)] /\ i > Len(s)
           /\ \A i \in DOMAIN s : i \in DOMAIN (s \o u) /\ (s \o u)[i] = s[i] /\ i <= Len(s)
           /\ \A i \in DOMAIN u : i + Len(s) \in DOMAIN (s \o u) /\ (s \o u)[i + Len(s)] = u[i]
<1>1. /\ DOMAIN s = 1..Len(s) /\ DOMAIN u = 1..Len(u) /\ Len(s) \in Nat /\ Len(u) \in Nat
      /\ DOMAIN (s \o u) = 1..(Len(s) + Len(u)) /\ s \o u \in Seq(S)
    OBVIOUS
<1>2. \A i \in 1..Len(s) : i \in DOMAIN (s \o u) /\ (s \o u)[i] = s[i] /\ i <= Len(s)
    BY <1>1
<1>3. \A i \in 1..Len(u) : i + Len(s) \in DOMAIN (s \o u) /\ (s \o u)[i + Len(s)] = u[i]
    BY <1>1
<1>4. ASSUME NEW i \in DOMAIN (s \o u), i \notin 1..Len(s)
      PROVE  i - Len(s) \in 1..Len(u) /\ (s \o u)[i] = u[i - Len(s)] /\ i > Len(s)
    BY <1>1, <1>4
<1> QED
    BY <1>1, <1>2, <1>3, <1>4

\* n items were taken off the front.
Rest(new, n) ==
    /\ new \in Seq(Items) /\ n \in Nat \ {0}
    /\ \A i \in DOMAIN new : i + n \in DOMAIN todo /\ new[i] = todo[i + n] /\ i + n # 1

LEMMA TailFacts ==
    ASSUME todo \in Seq(Items), todo # <<>>
    PROVE  /\ 1 \in DOMAIN todo /\ Head(todo) = todo[1] /\ todo[1] \in Items
           /\ Rest(Tail(todo), 1)
           /\ \A i \in DOMAIN todo : i = 1 \/ (i - 1 \in DOMAIN Tail(todo) /\ Tail(todo)[i - 1] = todo[i])
<1>1. DOMAIN todo = 1..Len(todo) /\ Len(todo) \in Nat /\ Len(todo) > 0
    BY EmptySeq
<1>2. Tail(todo) \in Seq(Items) /\ Len(Tail(todo)) = Len(todo) - 1
    OBVIOUS
<1>3. DOMAIN Tail(todo) = 1..(Len(todo) - 1)
    BY <1>1, <1>2
<1>4. \A i \in 1..(Len(todo) - 1) : Tail(todo)[i] = todo[i + 1]
    BY <1>1
<1>5. Rest(Tail(todo), 1)
    BY <1>1, <1>2, <1>3, <1>4 DEF Rest
<1>6. \A i \in 1..Len(todo) : i = 1 \/ (i - 1 \in 1..(Len(todo) - 1) /\ (i - 1) + 1 = i)
    BY <1>1
<1> QED
    BY <1>1, <1>3, <1>4, <1>5, <1>6

LEMMA SiblingsFacts ==
    ASSUME todo \in Seq(Items), todo # <<>>
    PROVE  \E n : Rest(AfterSiblings(todo[1].path), n)
<1> DEFINE p == todo[1].path
           others == {i \in DOMAIN todo : Parent(todo[i].path) # Parent(p)}
<1>1. DOMAIN todo = 1..Len(todo) /\ Len(todo) \in Nat
    OBVIOUS
<1>2. CASE others = {}
    <2>1. Rest(<<>>, 1)
        BY DEF Rest
    <2> QED
        BY <1>2, <2>1 DEF AfterSiblings
<1>3. CASE others # {}
    <2> DEFINE m == CHOOSE i \in others : \A j \in others : i <= j
    <2>1. others \in SUBSET Nat
        BY <1>1
    <2>2. \E i \in others : \A j \in others : i <= j
        <3> HIDE DEF others
        <3> QED
            BY <1>3, <2>1, LeastElement
    <2>3. m \in others
        BY <2>2
    <2>4. AfterSiblings(p) = SubSeq(todo, m, Len(todo))
        BY <1>3 DEF AfterSiblings
    <2>5. m \in 1..Len(todo) /\ m # 1
        BY <1>1, <2>3
    <2> HIDE DEF m, others
    <2>6. /\ SubSeq(todo, m, Len(todo)) \in Seq(Items)
          /\ DOMAIN SubSeq(todo, m, Len(todo)) = 1..(Len(todo) - m + 1)
          /\ \A i \in 1..(Len(todo) - m + 1) : SubSeq(todo, m, Len(todo))[i] = todo[i + (m - 1)]
        BY <1>1, <2>5
    <2>7. Rest(SubSeq(todo, m, Len(todo)), m - 1)
        BY <1>1, <2>5, <2>6 DEF Rest
    <2> QED
        BY <2>4, <2>7
<1> QED
    BY <1>2, <1>3

-----------------------------------------------------------------------------
(* The steps of the walk. *)

LEMMA TypeFacts ==
    ASSUME Types
    PROVE  /\ \A i \in DOMAIN todo : todo[i] \in Items /\ todo[i].path \in AnyPath
                                      /\ todo[i].path \in Seq(Names)
           /\ \A k \in DOMAIN stream : stream[k] \in Entries /\ stream[k].path \in AnyPath
                                        /\ stream[k].path \in Seq(Names) /\ stream[k].node \in AnyNode
           /\ Visiting => /\ visit.path \in AnyPath /\ visit.path \in Seq(Names)
                          /\ visit.path \in Paths /\ visit.dir \in BOOLEAN
                          /\ visit.copy \in Files \cup {Dir}
           /\ \A p \in DOMAIN tree : p \in Paths /\ p \in AnyPath /\ p \in Seq(Names)
                                      /\ tree[p] \in AnyNode
           /\ DOMAIN tree \in SUBSET Paths /\ tree \in [DOMAIN tree -> AnyNode]
           /\ edits \in Nat /\ todo \in Seq(Items) /\ stream \in Seq(Entries)
           /\ walk \in {"walking", "done", "failed", "foreign"}
<1>1. \A i \in DOMAIN todo : todo[i] \in Items
    BY DEF Types
<1>2. \A i \in DOMAIN stream : stream[i] \in Entries
    BY DEF Types
<1>3. DOMAIN tree \subseteq Paths /\ tree \in [DOMAIN tree -> AnyNode]
    BY DEF Types
<1>4. \A p \in DOMAIN tree : tree[p] \in AnyNode
    BY <1>3
<1> QED
    BY <1>1, <1>2, <1>3, <1>4, PathFacts DEF Types, Items, Entries

\* What an exclude and an include decide of what is no directory.
LEMMA DecideFacts ==
    ASSUME NEW p, NEW node
    PROVE  /\ Decide(p, node) \in {"include", "exclude", "prune"}
           /\ Decide(p, node) = "prune" => Excluded(p) /\ node.kind = "dir"
           /\ Excluded(p) /\ node.kind = "dir" => Decide(p, node) = "prune"
           /\ node.kind # "dir" =>
                 (Decide(p, node) = "include" <=>
                     ~Excluded(p) /\ (request.includes = {} \/ MatchesAny(request.includes, p)))
BY DEF Decide, Excluded

LEMMA OutcomesStay ==
    ASSUME Outcomes, Walking, UNCHANGED Results
    PROVE  Outcomes'
BY DEF Outcomes, Walking, StreamEnded, Results

LEMMA FailInv ==
    ASSUME Inv, Walking, Fail, UNCHANGED <<tree, edits, Results>>
    PROVE  Inv'
<1>1. Types'
    BY DEF Inv, Types, Fail, Visiting
<1> QED
    BY <1>1, OutcomesStay DEF Inv, Fail

\* Part of the list is passed over.
LEMMA SkipInv ==
    ASSUME Inv, Walking, visit = NoVisit, NEW n, Rest(todo', n),
           UNCHANGED <<tree, walk, visit, stream, edits, Results>>,
           edits = 0 => \A p \in DOMAIN source :
               (\E i \in DOMAIN todo : IsPrefix(todo[i].path, p)) /\ Taken(p) =>
                   \E i \in DOMAIN todo' : IsPrefix(todo'[i].path, p)
    PROVE  Inv'
<1>0. Types /\ Order /\ Layers /\ Selection /\ ~Visiting /\ ~Visiting'
    BY DEF Inv, Walking, Visiting
<1>1. /\ todo' \in Seq(Items) /\ n \in Nat \ {0}
      /\ \A i \in DOMAIN todo' : i + n \in DOMAIN todo /\ todo'[i] = todo[i + n]
    BY DEF Rest
<1>2. Types'
    BY <1>0, <1>1 DEF Types
<1>3. Order'
    <2>1. \A i \in DOMAIN todo' : i \in Nat
        BY <1>1
    <2>2. ASSUME NEW i \in DOMAIN todo', NEW j \in DOMAIN todo', i # j
          PROVE  ~IsPrefix(todo'[i].path, todo'[j].path)
        <3>1. i + n # j + n
            BY <1>1, <2>1, <2>2
        <3> QED
            BY <1>0, <1>1, <3>1 DEF Order
    <2>3. \A i \in DOMAIN todo', k \in DOMAIN stream : ~IsPrefix(todo'[i].path, stream[k].path)
        BY <1>0, <1>1 DEF Order
    <2> QED
        BY <1>0, <2>2, <2>3 DEF Order
<1>4. Layers'
    BY <1>0, <1>1 DEF Layers, IsDir
<1>5. Selection'
    BY <1>0, <1>1 DEF Selection, Ahead, Excluded, Taken, IsDir, Results
<1> QED
    BY <1>2, <1>3, <1>4, <1>5, OutcomesStay DEF Inv, Walking

LEMMA PruneInv ==
    ASSUME Inv, Walking, visit = NoVisit, todo # <<>>,
           todo[1].path \in DOMAIN tree,
           Decide(todo[1].path, tree[todo[1].path]) = "prune",
           todo' = IF todo[1].dir THEN Tail(todo) ELSE AfterSiblings(todo[1].path),
           UNCHANGED <<walk, visit, stream, tree, edits, Results>>
    PROVE  Inv'
<1>0. Types /\ Order /\ Layers /\ Selection
    BY DEF Inv, Walking
<1>1. todo \in Seq(Items)
    BY <1>0, TypeFacts
<1>2. 1 \in DOMAIN todo /\ todo[1].path \in AnyPath
    BY <1>0, <1>1, TailFacts, TypeFacts
<1>3. Excluded(todo[1].path) /\ tree[todo[1].path].kind = "dir"
    BY DecideFacts
<1>4. CASE todo[1].dir
    <2>1. Rest(todo', 1)
        BY <1>1, <1>4, TailFacts
    <2>2. ASSUME edits = 0, NEW p \in DOMAIN source, Taken(p),
                 NEW i \in DOMAIN todo, IsPrefix(todo[i].path, p)
          PROVE  \E j \in DOMAIN todo' : IsPrefix(todo'[j].path, p)
        <3>1. p \in AnyPath
            BY <1>0, <2>2, TypeFacts DEF Selection
        <3>2. todo[1].path \in Ancestors(p) \cup {p} => ~Taken(p)
            BY <1>3 DEF Taken, Excluded
        <3>3. i # 1
            BY <1>2, <2>2, <3>1, <3>2, AncestorFacts DEF Strictly
        <3> QED
            BY <1>1, <1>4, <2>2, <3>3, TailFacts
    <2> QED
        BY <2>1, <2>2, SkipInv
<1>5. CASE ~todo[1].dir
    <2>1. PICK n : Rest(todo', n)
        BY <1>1, <1>5, SiblingsFacts
    <2>2. edits # 0
        BY <1>0, <1>2, <1>3, <1>5 DEF Layers, IsDir
    <2> QED
        BY <2>1, <2>2, SkipInv
<1> QED
    BY <1>4, <1>5

\* A visit begins.
LEMMA TakeInv ==
    ASSUME Inv, Walking, visit = NoVisit, todo # <<>>,
           todo[1].path \in DOMAIN tree,
           NEW node, node = tree[todo[1].path],
           NEW decision, decision = Decide(todo[1].path, node),
           decision # "prune", decision = "include" => Storable(todo[1].path, node),
           todo' = Tail(todo),
           visit' = [path |-> todo[1].path, dir |-> todo[1].dir,
                     copy |-> IF decision = "include" /\ node.kind = "file" THEN node ELSE Dir],
           stream' = IF decision = "include" /\ node.kind # "file"
                     THEN Append(stream, Entry(todo[1].path, node)) ELSE stream,
           UNCHANGED <<walk, tree, edits, Results>>
    PROVE  Inv'
<1> DEFINE t == todo[1]
           new == Entry(t.path, node)
           added == decision = "include" /\ node.kind # "file"
<1>0. Types /\ Order /\ Layers /\ Selection
    BY DEF Inv, Walking
<1>1. /\ todo \in Seq(Items) /\ stream \in Seq(Entries) /\ edits \in Nat /\ node \in AnyNode
      /\ walk = "walking" /\ walk' = "walking"
    BY <1>0, TypeFacts DEF Walking
<1>2. /\ 1 \in DOMAIN todo /\ t \in Items /\ t.path \in AnyPath /\ t.path \in Seq(Names)
      /\ t.path \in Paths /\ t.dir \in BOOLEAN
    BY <1>0, <1>1, TailFacts, TypeFacts DEF Items
<1>3. /\ todo' \in Seq(Items)
      /\ \A i \in DOMAIN todo' : i \in Nat /\ i + 1 \in DOMAIN todo /\ todo'[i] = todo[i + 1] /\ i + 1 # 1
    BY <1>1, TailFacts DEF Rest
<1>4. \A i \in DOMAIN todo : i = 1 \/ (i - 1 \in DOMAIN todo' /\ todo'[i - 1] = todo[i])
    BY <1>1, TailFacts
<1>5. new \in Entries /\ new.path = t.path /\ new.node = node
    BY <1>1, <1>2 DEF Entry, Entries
<1>6. /\ stream' \in Seq(Entries)
      /\ \A k \in DOMAIN stream : k \in DOMAIN stream' /\ stream'[k] = stream[k]
      /\ \A k \in DOMAIN stream' :
            \/ k \in DOMAIN stream /\ stream'[k] = stream[k]
            \/ k \notin DOMAIN stream /\ stream'[k] = new /\ added /\ k = Len(stream) + 1
      /\ added => \E k \in DOMAIN stream' : stream'[k] = new
    <2>1. CASE added
        <3> HIDE DEF new
        <3>1. stream' = Append(stream, new)
            BY <2>1 DEF new
        <3> QED
            BY <1>1, <1>5, <2>1, <3>1, AppendFacts
    <2>2. CASE ~added
        BY <1>1, <2>2
    <2> QED
        BY <2>1, <2>2
<1>7. /\ visit'.path = t.path /\ visit'.dir = t.dir
      /\ visit'.copy.kind = "file" => decision = "include" /\ node.kind = "file" /\ visit'.copy = node
      /\ decision = "include" /\ node.kind = "file" => visit'.copy = node
      /\ visit'.copy \in Files \cup {Dir}
    BY <1>1, NodeFacts
<1>8. visit' # NoVisit
    BY <1>2, <1>7 DEF NoVisit, AnyPath
<1> HIDE DEF new, added
<1>9. Types'
    <2>1. visit' \in [path : Paths, dir : BOOLEAN, copy : Files \cup {Dir}]
        BY <1>2, <1>7
    <2> QED
        BY <1>0, <1>1, <1>3, <1>6, <2>1 DEF Types
<1>10. added => node.kind # "file" /\ visit'.copy = Dir /\ Storable(t.path, node)
    BY DEF added
<1>11. \A i \in DOMAIN todo : /\ i # 1 => ~IsPrefix(t.path, todo[i].path) /\ ~IsPrefix(todo[i].path, t.path)
                              /\ todo[i].path \in Seq(Names)
    BY <1>0, <1>2, TypeFacts DEF Order
<1>12. \A k \in DOMAIN stream : ~IsPrefix(t.path, stream[k].path) /\ stream[k].path # t.path
                                 /\ stream[k].path \in Seq(Names)
    BY <1>0, <1>2, PrefixOrder, TypeFacts DEF Order
<1>13. Order'
    <2>1. ASSUME NEW i \in DOMAIN todo', NEW j \in DOMAIN todo', i # j
          PROVE  ~IsPrefix(todo'[i].path, todo'[j].path)
        <3>1. i + 1 # j + 1
            BY <1>3, <2>1
        <3> QED
            BY <1>0, <1>3, <3>1 DEF Order
    <2>2. \A i \in DOMAIN todo' : ~IsPrefix(visit'.path, todo'[i].path) /\ ~IsPrefix(todo'[i].path, visit'.path)
        BY <1>3, <1>7, <1>11
    <2>3. ASSUME NEW i \in DOMAIN todo', NEW k \in DOMAIN stream'
          PROVE  ~IsPrefix(todo'[i].path, stream'[k].path)
        BY <1>0, <1>3, <1>5, <1>6, <1>11 DEF Order
    <2>4. ASSUME NEW k \in DOMAIN stream', IsPrefix(visit'.path, stream'[k].path)
          PROVE  stream'[k].path = visit'.path /\ visit'.copy.kind # "file"
        <3>1. k \notin DOMAIN stream
            BY <1>6, <1>7, <1>12, <2>4
        <3> QED
            BY <1>5, <1>6, <1>7, <1>10, <3>1, NodeFacts
    <2>5. ASSUME NEW k \in DOMAIN stream', NEW m \in DOMAIN stream', k # m
          PROVE  stream'[k].path # stream'[m].path
        BY <1>0, <1>5, <1>6, <1>12, <2>5 DEF Order
    <2>6. \A k \in DOMAIN stream' : Storable(stream'[k].path, stream'[k].node)
        BY <1>0, <1>5, <1>6, <1>10 DEF Order
    <2> QED
        BY <2>1, <2>2, <2>3, <2>4, <2>5, <2>6 DEF Order
<1>14. Layers'
    <2>1. edits = 0 => \A i \in DOMAIN todo' : todo'[i].dir = IsDir(todo'[i].path)
        BY <1>0, <1>3 DEF Layers
    <2>2. IsDir(t.path) <=> node.kind = "dir"
        BY DEF IsDir
    <2>3. ASSUME edits < 2
          PROVE  /\ \A i \in DOMAIN todo', k \in DOMAIN stream' :
                       IsPrefix(stream'[k].path, todo'[i].path) => stream'[k].node.kind = "dir"
                 /\ \A k \in DOMAIN stream' :
                       Strictly(stream'[k].path, visit'.path) => stream'[k].node.kind = "dir"
                 /\ Replaced' => edits = 1 /\ ~IsDir(visit'.path)
                 /\ \A k, m \in DOMAIN stream' :
                       Strictly(stream'[k].path, stream'[m].path) => stream'[k].node.kind = "dir"
        <3>0. /\ \A i \in DOMAIN todo, k \in DOMAIN stream :
                    IsPrefix(stream[k].path, todo[i].path) => stream[k].node.kind = "dir"
              /\ \A k, m \in DOMAIN stream :
                    Strictly(stream[k].path, stream[m].path) => stream[k].node.kind = "dir"
            BY <1>0, <2>3 DEF Layers
        <3>1. ASSUME NEW i \in DOMAIN todo', NEW k \in DOMAIN stream',
                     IsPrefix(stream'[k].path, todo'[i].path)
              PROVE  stream'[k].node.kind = "dir"
            <4>1. k \in DOMAIN stream
                BY <1>3, <1>5, <1>6, <1>11, <3>1
            <4> QED
                BY <1>3, <1>6, <3>0, <3>1, <4>1
        <3>2. ASSUME NEW k \in DOMAIN stream', Strictly(stream'[k].path, visit'.path)
              PROVE  stream'[k].node.kind = "dir"
            <4>1. k \in DOMAIN stream
                BY <1>5, <1>6, <1>7, <3>2 DEF Strictly
            <4> QED
                BY <1>2, <1>6, <1>7, <3>0, <3>2, <4>1 DEF Strictly
        <3>3. ASSUME Replaced' PROVE edits = 1 /\ ~IsDir(visit'.path)
            <4>1. t.dir /\ node.kind # "dir"
                <5>1. CASE visit'.copy.kind = "file"
                    BY <1>7, <3>3, <5>1 DEF Replaced
                <5>2. CASE visit'.copy.kind # "file"
                    <6>1. PICK k \in DOMAIN stream' : stream'[k].path = visit'.path /\ stream'[k].node.kind # "dir"
                        BY <3>3, <5>2 DEF Replaced
                    <6>2. k \notin DOMAIN stream
                        BY <1>6, <1>7, <1>12, <6>1
                    <6> QED
                        BY <1>5, <1>6, <1>7, <3>3, <6>1, <6>2 DEF Replaced
                <5> QED
                    BY <5>1, <5>2
            <4>2. edits # 0
                BY <1>0, <1>2, <2>2, <4>1 DEF Layers
            <4> QED
                BY <1>1, <1>7, <2>2, <2>3, <4>1, <4>2
        <3>4. ASSUME NEW k \in DOMAIN stream', NEW m \in DOMAIN stream',
                     Strictly(stream'[k].path, stream'[m].path)
              PROVE  stream'[k].node.kind = "dir"
            <4>1. CASE k \in DOMAIN stream /\ m \in DOMAIN stream
                BY <1>6, <3>0, <3>4, <4>1
            <4>2. CASE k \in DOMAIN stream /\ m \notin DOMAIN stream
                BY <1>2, <1>5, <1>6, <3>0, <3>4, <4>2 DEF Strictly
            <4>3. CASE k \notin DOMAIN stream
                BY <1>5, <1>6, <1>12, <3>4, <4>3 DEF Strictly
            <4> QED
                BY <4>1, <4>2, <4>3
        <3> QED
            BY <3>1, <3>2, <3>3, <3>4
    <2>4. \A p : IsDir(p)' <=> IsDir(p)
        BY DEF IsDir
    <2>5. IsDir(visit.path)' <=> IsDir(visit'.path)
        BY DEF IsDir
    <2> QED
        BY <2>1, <2>3, <2>4, <2>5 DEF Layers, IsDir
<1>15. Selection'
    <2> SUFFICES ASSUME edits = 0 PROVE Selection'
        BY DEF Selection
    <2>1. /\ tree = source /\ source \in Trees
          /\ \A i \in DOMAIN todo :
                todo[i].path \in DOMAIN source /\ \A q \in Ancestors(todo[i].path) : ~Excluded(q)
          /\ \A k \in DOMAIN stream : stream[k].node.kind # "dir" =>
                /\ stream[k].path \in DOMAIN source
                /\ stream[k].node = source[stream[k].path] /\ Taken(stream[k].path)
          /\ \A p \in DOMAIN source : source[p].kind # "dir" /\ Taken(p) =>
                Ahead(p) \/ \E k \in DOMAIN stream : stream[k] = Entry(p, source[p])
        BY DEF Inv, Walking, Selection
    <2>2. /\ tree' = tree /\ source' = source
          /\ \A p : (Taken(p)' <=> Taken(p)) /\ (Excluded(p)' <=> Excluded(p)) /\ (IsDir(p)' <=> IsDir(p))
        BY DEF Taken, Excluded, IsDir, Results
    <2>3. t.dir = IsDir(t.path) /\ (IsDir(t.path) <=> node.kind = "dir")
        BY <1>0, <1>2 DEF Layers, IsDir
    <2>4. node.kind # "dir" => (decision = "include" <=> Taken(t.path))
        BY <1>2, <2>1, DecideFacts DEF Taken, Excluded
    <2>5. node.kind = "dir" => ~Excluded(t.path)
        BY DecideFacts
    <2>6. /\ visit'.path \in DOMAIN source /\ visit'.dir = IsDir(visit'.path)
          /\ \A q \in Ancestors(visit'.path) : ~Excluded(q)
          /\ visit'.dir => ~Excluded(visit'.path)
          /\ visit'.copy.kind = "file" => visit'.copy = source[visit'.path] /\ Taken(visit'.path)
        BY <1>2, <1>7, <2>1, <2>3, <2>4, <2>5
    <2>7. ASSUME NEW k \in DOMAIN stream', stream'[k].node.kind # "dir"
          PROVE  /\ stream'[k].path \in DOMAIN source
                 /\ stream'[k].node = source[stream'[k].path] /\ Taken(stream'[k].path)
        <3>1. CASE k \in DOMAIN stream
            BY <1>6, <2>1, <2>7, <3>1
        <3>2. CASE k \notin DOMAIN stream
            BY <1>5, <1>6, <2>1, <2>4, <2>7, <3>2 DEF added
        <3> QED
            BY <3>1, <3>2
    <2>8. ASSUME NEW p \in DOMAIN source, source[p].kind # "dir", Taken(p)
          PROVE  Ahead(p)' \/ \E k \in DOMAIN stream' : stream'[k] = Entry(p, source[p])
        <3>1. CASE \E k \in DOMAIN stream : stream[k] = Entry(p, source[p])
            BY <1>6, <3>1
        <3>2. CASE Ahead(p)
            <4>1. PICK i \in DOMAIN todo : IsPrefix(todo[i].path, p)
                BY <3>2 DEF Ahead, Visiting
            <4>2. CASE i # 1
                BY <1>4, <4>1, <4>2 DEF Ahead
            <4>3. CASE i = 1 /\ t.path # p
                BY <1>7, <1>8, <4>1, <4>3 DEF Ahead, Visiting, Strictly
            <4>4. CASE i = 1 /\ t.path = p /\ node.kind = "file"
                BY <1>7, <1>8, <2>1, <2>4, <2>8, <4>4 DEF Ahead, Visiting
            <4>5. CASE i = 1 /\ t.path = p /\ node.kind # "file"
                BY <1>6, <2>1, <2>4, <2>8, <4>5 DEF added, new
            <4> QED
                BY <4>2, <4>3, <4>4, <4>5
        <3> QED
            BY <2>1, <2>8, <3>1, <3>2
    <2>9. \A i \in DOMAIN todo' :
              todo'[i].path \in DOMAIN source /\ \A q \in Ancestors(todo'[i].path) : ~Excluded(q)
        BY <1>3, <2>1
    <2>10. (visit.dir = IsDir(visit.path))' <=> (visit'.dir = IsDir(visit'.path))
        BY DEF IsDir
    <2>11. /\ \A i \in DOMAIN todo' : \A q \in Ancestors(todo'[i].path) : ~Excluded(q)'
           /\ \A q \in Ancestors(visit'.path) : ~Excluded(q)'
        BY <2>2, <2>6, <2>9
    <2>12. (visit.dir => ~Excluded(visit.path))' /\ (visit.copy.kind = "file" => visit.copy = source[visit.path] /\ Taken(visit.path))'
        BY <2>2, <2>6 DEF Excluded, Taken, Results
    <2>13. (\A k \in DOMAIN stream : stream[k].node.kind # "dir" => Taken(stream[k].path))'
        BY <2>7 DEF Taken, Results
    <2> QED
        BY <2>1, <2>2, <2>6, <2>7, <2>8, <2>9, <2>10, <2>11, <2>12, <2>13 DEF Selection
<1> QED
    BY <1>1, <1>9, <1>13, <1>14, <1>15, OutcomesStay DEF Inv

LEMMA VisitInv ==
    ASSUME Inv, Visit
    PROVE  Inv'
<1>0. Walking /\ visit = NoVisit /\ todo # <<>> /\ UNCHANGED <<tree, edits, Results>> /\ Types
    BY DEF Visit, Inv
<1>1. todo \in Seq(Items) /\ Head(todo) = todo[1]
    BY <1>0, TypeFacts, TailFacts
<1> DEFINE t == todo[1]
           node == tree[t.path]
           decision == Decide(t.path, node)
<1>2. CASE Fail
    BY <1>0, <1>2, FailInv
<1>3. CASE ~Fail
    <2>1. t.path \in DOMAIN tree
        BY <1>1, <1>3 DEF Visit
    <2>2. \/ /\ decision = "prune"
             /\ todo' = IF t.dir THEN Tail(todo) ELSE AfterSiblings(t.path)
             /\ UNCHANGED <<walk, visit, stream>>
          \/ /\ decision # "prune"
             /\ decision = "include" => Storable(t.path, node)
             /\ todo' = Tail(todo)
             /\ visit' = [path |-> t.path, dir |-> t.dir,
                          copy |-> IF decision = "include" /\ node.kind = "file" THEN node ELSE Dir]
             /\ stream' = IF decision = "include" /\ node.kind # "file"
                          THEN Append(stream, Entry(t.path, node)) ELSE stream
             /\ UNCHANGED walk
        BY <1>1, <1>3, <2>1 DEF Visit
    <2>3. CASE decision = "prune"
        BY <1>0, <2>1, <2>2, <2>3, PruneInv
    <2>4. CASE decision # "prune"
        BY <1>0, <2>1, <2>2, <2>4, TakeInv
    <2> QED
        BY <2>3, <2>4
<1> QED
    BY <1>2, <1>3

LEMMA CopyInv ==
    ASSUME Inv, CopyContent
    PROVE  Inv'
<1> DEFINE v == visit.path
           new == Entry(v, visit.copy)
<1>0. /\ Walking /\ visit.copy.kind = "file" /\ UNCHANGED <<tree, edits, Results>>
      /\ Types /\ Order /\ Layers /\ Selection
    BY DEF CopyContent, Inv, Walking
<1>1. Visiting
    BY <1>0 DEF Visiting, NoVisit, Dir
<1>2. CASE Fail
    BY <1>0, <1>2, FailInv
<1>3. CASE ~Fail
    <2>1. /\ v \in DOMAIN tree /\ tree[v] = visit.copy
          /\ stream' = Append(stream, new)
          /\ visit' = [visit EXCEPT !.copy = Dir] /\ UNCHANGED <<walk, todo>>
        BY <1>3 DEF CopyContent
    <2>2. /\ v \in AnyPath /\ v \in Seq(Names) /\ v \in Paths /\ visit.dir \in BOOLEAN
          /\ visit \in [path : Paths, dir : BOOLEAN, copy : Files \cup {Dir}]
          /\ visit.copy \in Files \cup {Dir} /\ visit.copy \in AnyNode /\ stream \in Seq(Entries)
          /\ edits \in Nat
        BY <1>0, <1>1, <2>1, TypeFacts DEF Types
    <2>3. /\ visit' \in [path : Paths, dir : BOOLEAN, copy : Files \cup {Dir}]
          /\ visit'.path = v /\ visit'.dir = visit.dir /\ visit'.copy = Dir /\ visit'.copy.kind = "dir"
        BY <2>1, <2>2, NodeFacts
    <2>4. visit' # NoVisit
        BY <2>2, <2>3 DEF NoVisit, AnyPath
    <2>5. new \in Entries /\ new.path = v /\ new.node = visit.copy
        BY <2>2 DEF Entry, Entries
    <2>6. /\ stream' \in Seq(Entries)
          /\ \A k \in DOMAIN stream : k \in DOMAIN stream' /\ stream'[k] = stream[k]
          /\ \A k \in DOMAIN stream' :
                \/ k \in DOMAIN stream /\ stream'[k] = stream[k]
                \/ k \notin DOMAIN stream /\ stream'[k] = new /\ k = Len(stream) + 1
          /\ \E k \in DOMAIN stream' : stream'[k] = new
        <3> HIDE DEF new
        <3> QED
            BY <2>1, <2>2, <2>5, AppendFacts
    <2> HIDE DEF new
    <2>7. Types'
        BY <1>0, <2>1, <2>3, <2>6 DEF Types
    <2>8. \A k \in DOMAIN stream : ~IsPrefix(v, stream[k].path) /\ stream[k].path # v
                                    /\ stream[k].path \in Seq(Names)
        BY <1>0, <1>1, <2>2, PrefixOrder, TypeFacts DEF Order
    <2>9. \A i \in DOMAIN todo : ~IsPrefix(v, todo[i].path) /\ ~IsPrefix(todo[i].path, v)
        BY <1>0, <1>1 DEF Order
    <2>10. Storable(v, visit.copy)
        <3>1. visit.copy.ups = 0 /\ Len(v) \in Nat \ {0}
            BY <1>0, <2>2, PathFacts DEF Files, File, Dir
        <3> QED
            BY <1>0, <3>1 DEF Storable, Escapes
    <2>11. Order'
        <3>1. ASSUME NEW i \in DOMAIN todo, NEW k \in DOMAIN stream'
              PROVE  ~IsPrefix(todo[i].path, stream'[k].path)
            BY <1>0, <2>5, <2>6, <2>9 DEF Order
        <3>2. ASSUME NEW k \in DOMAIN stream', IsPrefix(visit'.path, stream'[k].path)
              PROVE  stream'[k].path = visit'.path
            BY <2>3, <2>5, <2>6, <2>8, <3>2
        <3>3. ASSUME NEW k \in DOMAIN stream', NEW m \in DOMAIN stream', k # m
              PROVE  stream'[k].path # stream'[m].path
            BY <1>0, <2>5, <2>6, <2>8, <3>3 DEF Order
        <3>4. \A k \in DOMAIN stream' : Storable(stream'[k].path, stream'[k].node)
            BY <1>0, <2>5, <2>6, <2>10 DEF Order
        <3>5. \A i, j \in DOMAIN todo : i # j => ~IsPrefix(todo[i].path, todo[j].path)
            BY <1>0 DEF Order
        <3> QED
            BY <2>1, <2>3, <2>9, <3>1, <3>2, <3>3, <3>4, <3>5 DEF Order
    <2>12. Layers'
        <3>1. edits = 0 => \A i \in DOMAIN todo : todo[i].dir = IsDir(todo[i].path)
            BY <1>0 DEF Layers
        <3>2. ASSUME edits < 2
              PROVE  /\ \A i \in DOMAIN todo, k \in DOMAIN stream' :
                           IsPrefix(stream'[k].path, todo[i].path) => stream'[k].node.kind = "dir"
                     /\ \A k \in DOMAIN stream' :
                           Strictly(stream'[k].path, visit'.path) => stream'[k].node.kind = "dir"
                     /\ Replaced' => edits = 1 /\ ~IsDir(visit'.path)
                     /\ \A k, m \in DOMAIN stream' :
                           Strictly(stream'[k].path, stream'[m].path) => stream'[k].node.kind = "dir"
            <4>0. /\ \A i \in DOMAIN todo, k \in DOMAIN stream :
                        IsPrefix(stream[k].path, todo[i].path) => stream[k].node.kind = "dir"
                  /\ \A k \in DOMAIN stream : Strictly(stream[k].path, v) => stream[k].node.kind = "dir"
                  /\ \A k, m \in DOMAIN stream :
                        Strictly(stream[k].path, stream[m].path) => stream[k].node.kind = "dir"
                  /\ Replaced => edits = 1 /\ ~IsDir(v)
                BY <1>0, <1>1, <3>2 DEF Layers
            <4>1. ASSUME NEW i \in DOMAIN todo, NEW k \in DOMAIN stream', IsPrefix(stream'[k].path, todo[i].path)
                  PROVE  stream'[k].node.kind = "dir"
                BY <2>5, <2>6, <2>9, <4>0, <4>1
            <4>2. ASSUME NEW k \in DOMAIN stream', Strictly(stream'[k].path, visit'.path)
                  PROVE  stream'[k].node.kind = "dir"
                BY <2>3, <2>5, <2>6, <4>0, <4>2 DEF Strictly
            <4>3. ASSUME Replaced' PROVE edits = 1 /\ ~IsDir(visit'.path)
                BY <1>0, <2>3, <4>0, <4>3 DEF Replaced
            <4>4. ASSUME NEW k \in DOMAIN stream', NEW m \in DOMAIN stream',
                         Strictly(stream'[k].path, stream'[m].path)
                  PROVE  stream'[k].node.kind = "dir"
                <5>1. CASE k \in DOMAIN stream /\ m \in DOMAIN stream
                    BY <2>6, <4>0, <4>4, <5>1
                <5>2. CASE k \in DOMAIN stream /\ m \notin DOMAIN stream
                    BY <2>5, <2>6, <4>0, <4>4, <5>2
                <5>3. CASE k \notin DOMAIN stream
                    BY <2>5, <2>6, <2>8, <4>4, <5>3 DEF Strictly
                <5> QED
                    BY <5>1, <5>2, <5>3
            <4> QED
                BY <4>1, <4>2, <4>3, <4>4
        <3>3. IsDir(visit.path)' <=> IsDir(visit'.path)
            BY <1>0 DEF IsDir
        <3> QED
            BY <1>0, <2>1, <3>1, <3>2, <3>3 DEF Layers, IsDir
    <2>13. Selection'
        <3> SUFFICES ASSUME edits = 0 PROVE Selection'
            BY <1>0 DEF Selection
        <3>1. /\ tree = source /\ source \in Trees
              /\ \A i \in DOMAIN todo :
                    todo[i].path \in DOMAIN source /\ \A q \in Ancestors(todo[i].path) : ~Excluded(q)
              /\ v \in DOMAIN source /\ visit.dir = IsDir(v)
              /\ \A q \in Ancestors(v) : ~Excluded(q)
              /\ visit.dir => ~Excluded(v)
              /\ visit.copy = source[v] /\ Taken(v)
              /\ \A k \in DOMAIN stream : stream[k].node.kind # "dir" =>
                    /\ stream[k].path \in DOMAIN source
                    /\ stream[k].node = source[stream[k].path] /\ Taken(stream[k].path)
              /\ \A p \in DOMAIN source : source[p].kind # "dir" /\ Taken(p) =>
                    Ahead(p) \/ \E k \in DOMAIN stream : stream[k] = Entry(p, source[p])
            BY <1>0, <1>1 DEF Selection
        <3>2. ASSUME NEW k \in DOMAIN stream', stream'[k].node.kind # "dir"
              PROVE  /\ stream'[k].path \in DOMAIN source
                     /\ stream'[k].node = source[stream'[k].path] /\ Taken(stream'[k].path)
            BY <2>5, <2>6, <3>1, <3>2
        <3>3. ASSUME NEW p \in DOMAIN source, source[p].kind # "dir", Taken(p)
              PROVE  Ahead(p)' \/ \E k \in DOMAIN stream' : stream'[k] = Entry(p, source[p])
            <4>1. CASE \E k \in DOMAIN stream : stream[k] = Entry(p, source[p])
                BY <2>6, <4>1
            <4>2. CASE p = v
                BY <2>6, <3>1, <4>2 DEF new
            <4>3. CASE Ahead(p) /\ p # v
                BY <2>1, <2>3, <2>4, <4>3 DEF Ahead, Visiting
            <4> QED
                BY <3>1, <3>3, <4>1, <4>2, <4>3
        <3>4. /\ (\A k \in DOMAIN stream : stream[k].node.kind # "dir" => Taken(stream[k].path))'
            BY <1>0, <3>2 DEF Taken, Results
        <3>5. \A p : (Taken(p)' <=> Taken(p)) /\ (Excluded(p)' <=> Excluded(p)) /\ (IsDir(p)' <=> IsDir(p))
            BY <1>0 DEF Taken, Excluded, IsDir, Results
        <3>6. (visit.dir = IsDir(visit.path))' /\ (visit.dir => ~Excluded(visit.path))'
              /\ (\A q \in Ancestors(visit.path) : ~Excluded(q))'
            BY <1>0, <2>3, <3>1 DEF IsDir, Excluded, Results
        <3>7. (\A i \in DOMAIN todo : \A q \in Ancestors(todo[i].path) : ~Excluded(q))'
            BY <1>0, <2>1, <3>1, <3>5
        <3> QED
            BY <1>0, <2>1, <2>3, <3>1, <3>2, <3>3, <3>4, <3>5, <3>6, <3>7 DEF Selection, Results
    <2> QED
        BY <1>0, <2>1, <2>7, <2>11, <2>12, <2>13, OutcomesStay DEF Inv, Walking
<1> QED
    BY <1>2, <1>3

\* A visit ends with nothing to go into.
LEMMA LeaveInv ==
    ASSUME Inv, Walking, Visiting, visit.copy.kind # "file", ~visit.dir, visit' = NoVisit,
           UNCHANGED <<walk, todo, stream, tree, edits, Results>>
    PROVE  Inv'
<1>0. Types /\ Order /\ Layers /\ Selection
    BY DEF Inv, Walking
<1>1. Types'
    BY <1>0 DEF Types, Visiting
<1>2. Order'
    BY <1>0 DEF Order, Visiting
<1>3. Layers'
    BY <1>0 DEF Layers, Visiting, IsDir
<1>4. Selection'
    <2> SUFFICES ASSUME edits = 0 PROVE Selection'
        BY DEF Selection
    <2>1. ASSUME NEW p \in DOMAIN source, source[p].kind # "dir", Taken(p), Ahead(p)
          PROVE  Ahead(p)'
        <3>1. CASE \E i \in DOMAIN todo : IsPrefix(todo[i].path, p)
            BY <3>1 DEF Ahead
        <3>2. CASE ~\E i \in DOMAIN todo : IsPrefix(todo[i].path, p)
            <4>1. Strictly(visit.path, p)
                BY <2>1, <3>2 DEF Ahead
            <4>2. p \in AnyPath /\ visit.path \in AnyPath
                BY <1>0, TypeFacts DEF Selection
            <4>3. visit.path \in Ancestors(p)
                BY <4>1, <4>2, AncestorFacts
            <4>4. IsDir(visit.path)
                BY <1>0, <2>1, <4>3 DEF Selection, Trees, IsDir
            <4> QED
                BY <1>0, <4>4 DEF Selection
        <3> QED
            BY <3>1, <3>2
    <2> QED
        BY <1>0, <2>1 DEF Selection, Visiting, Excluded, Taken, Results
<1> QED
    BY <1>1, <1>2, <1>3, <1>4, OutcomesStay DEF Inv, Walking

\* A directory is listed.
LEMMA EnterInv ==
    ASSUME Inv, Walking, Visiting, visit.copy.kind # "file", visit.dir, IsDir(visit.path),
           todo' = ReadDir(visit.path) \o todo, visit' = NoVisit,
           UNCHANGED <<walk, stream, tree, edits, Results>>
    PROVE  Inv'
<1> DEFINE v == visit.path
           list == ReadDir(v)
<1>0. Types /\ Order /\ Layers /\ Selection /\ ~Visiting'
    BY DEF Inv, Walking, Visiting
<1>1. v \in Seq(Names) /\ v \in AnyPath /\ todo \in Seq(Items)
    BY <1>0, TypeFacts
<1>2. Lists(list, v)
    BY <1>0, <1>1, TypeFacts, Listing
<1> HIDE DEF list
<1>3. /\ list \in Seq(Items)
      /\ \A i \in DOMAIN list : list[i].path \in Children(v) /\ list[i].dir = IsDir(list[i].path)
      /\ \A i, j \in DOMAIN list : list[i].path = list[j].path => i = j
      /\ \A p \in Children(v) : \E i \in DOMAIN list : list[i].path = p
    BY <1>2 DEF Lists
<1>4. /\ todo' \in Seq(Items)
      /\ \A i \in DOMAIN todo' :
            \/ i \in DOMAIN list /\ todo'[i] = list[i]
            \/ i - Len(list) \in DOMAIN todo /\ todo'[i] = todo[i - Len(list)] /\ i > Len(list)
      /\ \A i \in DOMAIN list : i \in DOMAIN todo' /\ todo'[i] = list[i] /\ i <= Len(list)
      /\ \A i \in DOMAIN todo : i + Len(list) \in DOMAIN todo' /\ todo'[i + Len(list)] = todo[i]
    BY <1>1, <1>3, ConcatFacts DEF list
<1>5. /\ Children(v) \subseteq Seq(Names) /\ Children(v) \subseteq AnyPath /\ Children(v) \subseteq DOMAIN tree
      /\ \A p \in Children(v) : Strictly(v, p)
      /\ \A p, q \in Children(v) : IsPrefix(p, q) => p = q
      /\ \A p \in Children(v), q \in Seq(Names) : IsPrefix(q, p) => q = p \/ IsPrefix(q, v)
    BY <1>0, <1>1, TypeFacts, ChildFacts, PathFacts
<1>6. Types'
    BY <1>0, <1>4 DEF Types
<1>7. \A i \in DOMAIN todo : /\ ~IsPrefix(v, todo[i].path) /\ ~IsPrefix(todo[i].path, v)
                             /\ todo[i].path \in Seq(Names)
    BY <1>0, TypeFacts DEF Order
<1>8. \A k \in DOMAIN stream : stream[k].path \in Seq(Names) /\ stream[k].path \in AnyPath
                                /\ (IsPrefix(v, stream[k].path) => stream[k].path = v)
    BY <1>0, TypeFacts DEF Order
<1>9. Order'
    <2>1. ASSUME NEW i \in DOMAIN todo', NEW j \in DOMAIN todo', i # j
          PROVE  ~IsPrefix(todo'[i].path, todo'[j].path)
        <3>1. CASE i \in DOMAIN list /\ j \in DOMAIN list
            <4>1. todo'[i].path \in Children(v) /\ todo'[j].path \in Children(v)
                BY <1>3, <1>4, <3>1
            <4>2. list[i].path # list[j].path
                BY <1>3, <2>1, <3>1
            <4>3. todo'[i] = list[i] /\ todo'[j] = list[j]
                BY <1>4, <3>1
            <4> QED
                BY <1>5, <4>1, <4>2, <4>3
        <3>2. CASE i \in DOMAIN list /\ todo'[i] = list[i] /\ j \notin DOMAIN list
            <4>1. PICK m \in DOMAIN todo : todo'[j] = todo[m]
                BY <1>4, <3>2
            <4>2. todo'[i].path \in Children(v)
                BY <1>3, <3>2
            <4>3. Strictly(v, todo'[i].path) /\ todo'[i].path \in Seq(Names)
                BY <1>5, <4>2
            <4> QED
                BY <1>1, <1>7, <4>1, <4>3, PrefixOrder DEF Strictly
        <3>3. CASE i \notin DOMAIN list /\ j \in DOMAIN list /\ todo'[j] = list[j]
            <4>1. PICK m \in DOMAIN todo : todo'[i] = todo[m]
                BY <1>4, <3>3
            <4>2. todo'[j].path \in Children(v)
                BY <1>3, <3>3
            <4>3. Strictly(v, todo'[j].path) /\ todo'[j].path \in Seq(Names)
                BY <1>5, <4>2
            <4>4. ASSUME IsPrefix(todo[m].path, todo'[j].path)
                  PROVE  FALSE
                <5>1. todo[m].path = todo'[j].path \/ IsPrefix(todo[m].path, v)
                    BY <1>5, <1>7, <4>2, <4>4
                <5> QED
                    BY <1>7, <4>3, <5>1 DEF Strictly
            <4> QED
                BY <4>1, <4>4
        <3>4. CASE i \notin DOMAIN list /\ j \notin DOMAIN list
            <4>1. /\ i - Len(list) \in DOMAIN todo /\ todo'[i] = todo[i - Len(list)]
                  /\ j - Len(list) \in DOMAIN todo /\ todo'[j] = todo[j - Len(list)]
                BY <1>4, <3>4
            <4>2. i \in Nat /\ j \in Nat /\ Len(list) \in Nat
                BY <1>3, <1>4
            <4>3. i - Len(list) # j - Len(list)
                BY <2>1, <4>2
            <4> QED
                BY <1>0, <4>1, <4>3 DEF Order
        <3> QED
            BY <1>4, <3>1, <3>2, <3>3, <3>4
    <2>2. ASSUME NEW i \in DOMAIN todo', NEW k \in DOMAIN stream
          PROVE  ~IsPrefix(todo'[i].path, stream[k].path)
        <3>1. CASE i \in DOMAIN list /\ todo'[i] = list[i]
            <4>1. Strictly(v, todo'[i].path) /\ todo'[i].path \in Seq(Names)
                BY <1>3, <1>5, <3>1
            <4>2. ASSUME IsPrefix(todo'[i].path, stream[k].path)
                  PROVE  FALSE
                <5>1. IsPrefix(v, stream[k].path)
                    BY <1>1, <1>8, <4>1, <4>2, PrefixOrder DEF Strictly
                <5>2. stream[k].path = v
                    BY <1>8, <5>1
                <5> QED
                    BY <1>1, <4>1, <4>2, <5>2, PrefixOrder DEF Strictly
            <4> QED
                BY <4>2
        <3>2. CASE i \notin DOMAIN list
            BY <1>0, <1>4, <3>2 DEF Order
        <3> QED
            BY <1>4, <3>1, <3>2
    <2>3. /\ \A k, m \in DOMAIN stream : k # m => stream[k].path # stream[m].path
          /\ \A k \in DOMAIN stream : Storable(stream[k].path, stream[k].node)
        BY <1>0 DEF Order
    <2> QED
        BY <1>0, <2>1, <2>2, <2>3 DEF Order
<1>10. Layers'
    <2>1. edits = 0 => \A i \in DOMAIN todo' : todo'[i].dir = IsDir(todo'[i].path)
        BY <1>0, <1>3, <1>4 DEF Layers
    <2>2. ASSUME edits < 2
          PROVE  /\ \A i \in DOMAIN todo', k \in DOMAIN stream :
                       IsPrefix(stream[k].path, todo'[i].path) => stream[k].node.kind = "dir"
                 /\ \A k, m \in DOMAIN stream :
                       Strictly(stream[k].path, stream[m].path) => stream[k].node.kind = "dir"
        <3>0. /\ \A i \in DOMAIN todo, k \in DOMAIN stream :
                    IsPrefix(stream[k].path, todo[i].path) => stream[k].node.kind = "dir"
              /\ \A k \in DOMAIN stream : Strictly(stream[k].path, v) => stream[k].node.kind = "dir"
              /\ ~Replaced
              /\ \A k, m \in DOMAIN stream :
                    Strictly(stream[k].path, stream[m].path) => stream[k].node.kind = "dir"
            BY <1>0, <2>2 DEF Layers
        <3>1. ASSUME NEW i \in DOMAIN todo', NEW k \in DOMAIN stream, IsPrefix(stream[k].path, todo'[i].path)
              PROVE  stream[k].node.kind = "dir"
            <4>1. CASE i \in DOMAIN list /\ todo'[i] = list[i]
                <5>1. todo'[i].path \in Children(v) /\ Strictly(v, todo'[i].path)
                    BY <1>3, <1>5, <4>1
                <5>2. stream[k].path = todo'[i].path \/ IsPrefix(stream[k].path, v)
                    BY <1>5, <1>8, <3>1, <5>1
                <5>3. stream[k].path # todo'[i].path
                    BY <1>8, <5>1 DEF Strictly
                <5>4. CASE stream[k].path = v
                    BY <3>0, <5>4 DEF Replaced
                <5>5. CASE stream[k].path # v
                    BY <3>0, <5>2, <5>3, <5>5 DEF Strictly
                <5> QED
                    BY <5>4, <5>5
            <4>2. CASE i \notin DOMAIN list
                BY <1>4, <3>0, <3>1, <4>2
            <4> QED
                BY <1>4, <4>1, <4>2
        <3> QED
            BY <3>0, <3>1
    <2> QED
        BY <1>0, <2>1, <2>2 DEF Layers, IsDir
<1>11. Selection'
    <2> SUFFICES ASSUME edits = 0 PROVE Selection'
        BY DEF Selection
    <2>1. /\ tree = source /\ source \in Trees
          /\ \A i \in DOMAIN todo :
                todo[i].path \in DOMAIN source /\ \A q \in Ancestors(todo[i].path) : ~Excluded(q)
          /\ \A q \in Ancestors(v) : ~Excluded(q)
          /\ ~Excluded(v)
          /\ \A k \in DOMAIN stream : stream[k].node.kind # "dir" =>
                /\ stream[k].path \in DOMAIN source
                /\ stream[k].node = source[stream[k].path] /\ Taken(stream[k].path)
          /\ \A p \in DOMAIN source : source[p].kind # "dir" /\ Taken(p) =>
                Ahead(p) \/ \E k \in DOMAIN stream : stream[k] = Entry(p, source[p])
        BY <1>0 DEF Selection
    <2>2. ASSUME NEW i \in DOMAIN todo'
          PROVE  todo'[i].path \in DOMAIN source /\ \A q \in Ancestors(todo'[i].path) : ~Excluded(q)
        <3>1. CASE i \in DOMAIN list /\ todo'[i] = list[i]
            <4>1. todo'[i].path \in Children(v) /\ todo'[i].path \in AnyPath
                BY <1>3, <1>5, <3>1
            <4>2. ASSUME NEW q \in Ancestors(todo'[i].path)
                  PROVE  ~Excluded(q)
                <5>1. q \in AnyPath /\ q \in Seq(Names) /\ Strictly(q, todo'[i].path)
                    BY <4>1, AncestorFacts, PathFacts
                <5>2. IsPrefix(q, v)
                    BY <1>5, <4>1, <5>1 DEF Strictly
                <5>3. q = v \/ q \in Ancestors(v)
                    BY <1>1, <5>1, <5>2, AncestorFacts DEF Strictly
                <5> QED
                    BY <2>1, <5>3
            <4> QED
                BY <1>5, <2>1, <4>1, <4>2
        <3>2. CASE i \notin DOMAIN list
            BY <1>4, <2>1, <3>2
        <3> QED
            BY <1>4, <3>1, <3>2
    <2>3. ASSUME NEW p \in DOMAIN source, Ahead(p)
          PROVE  Ahead(p)'
        <3>1. CASE \E i \in DOMAIN todo : IsPrefix(todo[i].path, p)
            <4>1. PICK i \in DOMAIN todo : IsPrefix(todo[i].path, p)
                BY <3>1
            <4>2. i + Len(list) \in DOMAIN todo' /\ todo'[i + Len(list)] = todo[i]
                BY <1>4
            <4> QED
                BY <4>1, <4>2 DEF Ahead
        <3>2. CASE Strictly(v, p)
            <4>1. PICK q \in Children(v) : IsPrefix(q, p)
                BY <1>0, <1>1, <2>1, <3>2, TypeFacts, ListCovers
            <4>2. PICK i \in DOMAIN list : list[i].path = q
                BY <1>3
            <4>3. i \in DOMAIN todo' /\ todo'[i].path = q
                BY <1>4, <4>2
            <4> QED
                BY <4>1, <4>3 DEF Ahead
        <3> QED
            BY <2>3, <3>1, <3>2 DEF Ahead
    <2>4. (\A i \in DOMAIN todo :
              todo[i].path \in DOMAIN source /\ \A q \in Ancestors(todo[i].path) : ~Excluded(q))'
        BY <2>2 DEF Excluded, Results
    <2>5. \A p : Taken(p)' <=> Taken(p)
        BY DEF Taken, Results
    <2>6. (\A k \in DOMAIN stream : stream[k].node.kind # "dir" =>
                /\ stream[k].path \in DOMAIN source
                /\ stream[k].node = source[stream[k].path] /\ Taken(stream[k].path))'
        BY <2>1 DEF Taken, Results
    <2>7. (\A p \in DOMAIN source : source[p].kind # "dir" /\ Taken(p) =>
                Ahead(p) \/ \E k \in DOMAIN stream : stream[k] = Entry(p, source[p]))'
        <3>1. source' = source /\ stream' = stream
            BY DEF Results
        <3> QED
            BY <2>1, <2>3, <2>5, <3>1
    <2>8. tree' = source' /\ source' \in Trees
        BY <2>1 DEF Results
    <2> QED
        BY <1>0, <2>4, <2>6, <2>7, <2>8 DEF Selection
<1> QED
    BY <1>6, <1>9, <1>10, <1>11, OutcomesStay DEF Inv, Walking

LEMMA DescendInv ==
    ASSUME Inv, Descend
    PROVE  Inv'
<1>0. Walking /\ Visiting /\ visit.copy.kind # "file" /\ UNCHANGED <<tree, edits, Results>>
    BY DEF Descend, Visiting
<1>1. CASE ~visit.dir
    BY <1>0, <1>1, LeaveInv DEF Descend
<1>2. CASE visit.dir /\ IsDir(visit.path)
    BY <1>0, <1>2, EnterInv DEF Descend, IsDir
<1>3. CASE visit.dir /\ ~IsDir(visit.path)
    BY <1>0, <1>3, FailInv DEF Descend, IsDir
<1> QED
    BY <1>1, <1>2, <1>3

LEMMA FinishInv ==
    ASSUME Inv, Finish
    PROVE  Inv'
<1>0. /\ Types /\ Order /\ Layers /\ Selection /\ Walking /\ visit = NoVisit /\ todo = <<>>
      /\ walk' = "done" /\ UNCHANGED <<tree, todo, visit, stream, edits, Results>>
    BY DEF Finish, Inv, Walking
<1>1. Types'
    BY <1>0 DEF Types, Visiting
<1>2. Order'
    BY <1>0 DEF Order, Visiting
<1>3. Layers'
    BY <1>0 DEF Layers, Visiting, Replaced, IsDir
<1>4. Selection'
    BY <1>0 DEF Selection, Visiting, Ahead, Excluded, Taken, IsDir, Results
<1> QED
    BY <1>0, <1>1, <1>2, <1>3, <1>4, OutcomesStay DEF Inv

LEMMA EditInv ==
    ASSUME Inv, Edit
    PROVE  Inv'
<1>0. /\ Types /\ Order /\ Layers /\ Walking /\ edits' = edits + 1 /\ edits \in Nat
      /\ UNCHANGED <<todo, visit, walk, stream, Results>>
    BY DEF Edit, Inv, Walking, Types
<1>1. tree' \in UNION {[ps -> AnyNode] : ps \in SUBSET Paths}
    <2>1. PICK p \in DOMAIN source :
            LET rest == {q \in DOMAIN tree : ~IsPrefix(p, q)} IN
            \/ tree' = [q \in rest |-> tree[q]]
            \/ \E node \in Nodes : tree' = [q \in rest \cup {p} |-> IF q = p THEN node ELSE tree[q]]
        BY DEF Edit
    <2>2. p \in Paths
        BY DEF Inv, Outcomes
    <2> DEFINE rest == {q \in DOMAIN tree : ~IsPrefix(p, q)}
    <2>3. rest \subseteq Paths /\ \A q \in rest : tree[q] \in AnyNode
        BY <1>0, TypeFacts
    <2>4. CASE tree' = [q \in rest |-> tree[q]]
        <3>1. tree' \in [rest -> AnyNode]
            BY <2>3, <2>4
        <3> QED
            BY <2>3, <3>1
    <2>5. CASE \E node \in Nodes : tree' = [q \in rest \cup {p} |-> IF q = p THEN node ELSE tree[q]]
        <3>1. PICK node \in Nodes : tree' = [q \in rest \cup {p} |-> IF q = p THEN node ELSE tree[q]]
            BY <2>5
        <3>2. node \in AnyNode
            BY DEF AnyNode
        <3>3. tree' \in [rest \cup {p} -> AnyNode]
            BY <2>3, <3>1, <3>2
        <3>4. rest \cup {p} \in SUBSET Paths
            BY <2>2, <2>3
        <3> QED
            BY <3>3, <3>4
    <2> QED
        BY <2>1, <2>4, <2>5
<1>2. Types'
    BY <1>0, <1>1 DEF Types, Visiting
<1>3. Order'
    BY <1>0 DEF Order, Visiting
<1>4. Layers'
    <2>1. edits' # 0 /\ (edits' < 2 => edits = 0 /\ edits < 2 /\ edits # 1)
        BY <1>0
    <2> QED
        BY <1>0, <2>1 DEF Layers, Visiting, Replaced
<1>5. Selection'
    <2>1. edits' # 0
        BY <1>0
    <2> QED
        BY <2>1 DEF Selection
<1> QED
    BY <1>0, <1>2, <1>3, <1>4, <1>5, OutcomesStay DEF Inv, Walking

-----------------------------------------------------------------------------
(* The invariant. *)

\* A scan and a restore leave the walk and its stream alone.
LEMMA UseInv ==
    ASSUME Inv, Verify \/ Restore
    PROVE  Inv'
<1>1. UNCHANGED Writing /\ StreamEnded /\ Types
    BY DEF Verify, Restore, Inv
<1>2. Outcomes'
    <2>1. CASE Verify
        BY <1>1, <2>1 DEF Inv, Outcomes, Verify, StreamEnded, Writing
    <2>2. CASE Restore
        BY <1>1, <2>2 DEF Inv, Outcomes, Restore, StreamEnded, Writing
    <2> QED
        BY <2>1, <2>2
<1>3. Types'
    BY <1>1 DEF Types, Visiting, Writing
<1>4. (Order => Order') /\ (Layers => Layers')
    BY <1>1 DEF Order, Layers, Visiting, Replaced, IsDir, Writing
<1>5. Selection => Selection'
    BY <1>1 DEF Selection, Visiting, Ahead, Excluded, Taken, IsDir, Writing
<1> QED
    BY <1>1, <1>2, <1>3, <1>4, <1>5 DEF Inv, Writing

\* A walk begins with the list of the root.
LEMMA WalkInit ==
    ASSUME visit = NoVisit, edits = 0, wanted = Everything, scanned = Unused, restored = Unused,
           walk = "walking", source \in Trees, tree = source,
           todo = ReadDir(<<>>), stream = <<>>
    PROVE  Inv
<1>1. /\ tree \in UNION {[ps -> AnyNode] : ps \in SUBSET Paths}
      /\ \A p \in DOMAIN tree : Ancestors(p) \subseteq DOMAIN tree
    BY DEF Trees, AnyNode
<1>2. <<>> \in Seq(Names)
    OBVIOUS
<1>3. Lists(todo, <<>>)
    <2>1. DOMAIN tree \subseteq Paths
        BY <1>1
    <2> QED
        BY <1>2, <2>1, Listing
<1>4. /\ todo \in Seq(Items)
      /\ \A i \in DOMAIN todo : todo[i].path \in Children(<<>>) /\ todo[i].dir = IsDir(todo[i].path)
      /\ \A i, j \in DOMAIN todo : todo[i].path = todo[j].path => i = j
      /\ \A p \in Children(<<>>) : \E i \in DOMAIN todo : todo[i].path = p
    BY <1>3 DEF Lists
<1>5. ~Visiting /\ DOMAIN stream = {}
    BY DEF Visiting
<1>6. Types
    BY <1>1, <1>4, <1>5 DEF Types
<1>7. DOMAIN source \subseteq Paths
    BY <1>6, TypeFacts
<1>8. /\ Children(<<>>) \subseteq AnyPath /\ Children(<<>>) \subseteq DOMAIN tree
      /\ \A p, q \in Children(<<>>) : IsPrefix(p, q) => p = q
      /\ \A p \in Children(<<>>), q \in Seq(Names) : IsPrefix(q, p) => q = p \/ IsPrefix(q, <<>>)
    BY <1>2, <1>6, TypeFacts, ChildFacts, PathFacts
<1>9. Order
    BY <1>4, <1>5, <1>8 DEF Order
<1>10. Layers
    BY <1>4, <1>5 DEF Layers
<1>11. Selection
    <2>1. ASSUME NEW p \in Children(<<>>), NEW q \in Ancestors(p)
          PROVE  FALSE
        <3>1. p \in AnyPath /\ q \in AnyPath /\ q \in Seq(Names) /\ IsPrefix(q, p) /\ q # p
            BY <1>8, <2>1, AncestorFacts, PathFacts DEF Strictly
        <3>2. IsPrefix(q, <<>>)
            BY <1>8, <3>1
        <3>3. Len(q) <= Len(<<>>) /\ Len(q) \in Nat \ {0}
            BY <1>2, <3>1, <3>2, PrefixFacts, PathFacts
        <3> QED
            BY <3>3
    <2>2. ASSUME NEW p \in DOMAIN source
          PROVE  Ahead(p)
        <3>1. p \in AnyPath /\ p \in Seq(Names) /\ p # <<>>
            BY <1>7, PathFacts DEF AnyPath
        <3>2. IsPrefix(<<>>, p)
            <4>1. Len(<<>>) = 0 /\ Len(p) \in Nat
                BY <3>1
            <4>2. Len(<<>>) <= Len(p) /\ \A i \in 1..Len(<<>>) : <<>>[i] = p[i]
                BY <4>1
            <4> QED
                BY <1>2, <3>1, <4>2, PrefixFacts
        <3>3. PICK q \in Children(<<>>) : IsPrefix(q, p)
            BY <1>2, <1>6, <3>1, <3>2, TypeFacts, ListCovers DEF Strictly
        <3> QED
            BY <1>4, <3>3 DEF Ahead
    <2>3. \A i \in DOMAIN todo :
              todo[i].path \in DOMAIN source /\ \A q \in Ancestors(todo[i].path) : ~Excluded(q)
        BY <1>4, <1>8, <2>1
    <2> QED
        BY <1>5, <2>2, <2>3 DEF Selection
<1> QED
    BY <1>6, <1>7, <1>9, <1>10, <1>11 DEF Inv, Outcomes

LEMMA InitInv ==
    ASSUME Init
    PROVE  Inv
<1>1. CASE walk = "walking"
    BY <1>1, WalkInit DEF Init
<1>2. CASE walk # "walking"
    <2>1. /\ walk = "foreign" /\ source = Nothing /\ tree = Nothing /\ todo = <<>> /\ stream \in Streams
          /\ visit = NoVisit /\ edits = 0 /\ scanned = Unused /\ restored = Unused
        BY <1>2 DEF Init
    <2>2. Nothing \in [{} -> AnyNode] /\ DOMAIN Nothing = {}
        BY DEF Nothing
    <2>3. tree \in UNION {[ps -> AnyNode] : ps \in SUBSET Paths}
        BY <2>1, <2>2
    <2>4. stream \in Seq(Entries)
        <3>1. {Entry(p, node) : p \in ForeignPaths, node \in Nodes \cup {Device}} \subseteq Entries
            BY PathFacts DEF Entry, Entries, AnyNode
        <3>2. PICK n \in 0..MaxForeign :
                  stream \in [1..n -> {Entry(p, node) : p \in ForeignPaths, node \in Nodes \cup {Device}}]
            BY <2>1 DEF Streams
        <3>3. stream \in [1..n -> Entries] /\ n \in Nat
            BY <3>1, <3>2
        <3> QED
            BY <3>3, FunctionIsSequence
    <2>5. Types
        BY <2>1, <2>3, <2>4 DEF Types, Visiting
    <2> QED
        BY <2>1, <2>2, <2>5 DEF Inv, Outcomes
<1> QED
    BY <1>1, <1>2

LEMMA NextInv ==
    ASSUME Inv, [Next]_vars
    PROVE  Inv'
<1>1. CASE Visit
    BY <1>1, VisitInv
<1>2. CASE CopyContent
    BY <1>2, CopyInv
<1>3. CASE Descend
    BY <1>3, DescendInv
<1>4. CASE Finish
    BY <1>4, FinishInv
<1>5. CASE Edit
    BY <1>5, EditInv
<1>6. CASE Verify \/ Restore
    BY <1>6, UseInv
<1>7. CASE UNCHANGED vars
    BY <1>7 DEF vars, Inv, Types, Outcomes, Order, Layers, Selection, Visiting, Replaced, IsDir,
                Ahead, Excluded, Taken, StreamEnded
<1> QED
    BY <1>1, <1>2, <1>3, <1>4, <1>5, <1>6, <1>7 DEF Next

\* What Order, Layers, Selection and Outcomes say holds in every state.
THEOREM ArchiveInvariant == Spec => []Inv
<1>1. Init => Inv
    BY InitInv
<1>2. Inv /\ [Next]_vars => Inv'
    BY NextInv
<1> QED
    BY <1>1, <1>2, PTL DEF Spec

-----------------------------------------------------------------------------
(* The properties. *)

LEMMA SelectionMet ==
    ASSUME Inv
    PROVE  TakesWhatIsSelected
<1> SUFFICES ASSUME walk = "done", edits = 0
             PROVE  Contents = {Entry(p, source[p]) : p \in {q \in DOMAIN source :
                                    source[q].kind # "dir" /\ Taken(q)}}
    BY DEF TakesWhatIsSelected
<1>1. Types /\ Selection /\ todo = <<>> /\ ~Visiting
    BY DEF Inv, Visiting
<1>2. \A p : ~Ahead(p)
    BY <1>1 DEF Ahead
<1>3. ASSUME NEW k \in DOMAIN stream, stream[k].node.kind # "dir"
      PROVE  /\ stream[k] = Entry(stream[k].path, source[stream[k].path])
             /\ stream[k].path \in DOMAIN source
             /\ source[stream[k].path].kind # "dir" /\ Taken(stream[k].path)
    <2>1. /\ stream[k].path \in DOMAIN source
          /\ stream[k].node = source[stream[k].path] /\ Taken(stream[k].path)
        BY <1>1, <1>3 DEF Selection
    <2>2. stream[k] = Entry(stream[k].path, stream[k].node)
        BY <1>1, TypeFacts DEF Entries, Entry
    <2> QED
        BY <1>3, <2>1, <2>2
<1>4. ASSUME NEW p \in DOMAIN source, source[p].kind # "dir", Taken(p)
      PROVE  /\ \E k \in DOMAIN stream : stream[k] = Entry(p, source[p])
             /\ Entry(p, source[p]).node.kind # "dir"
    BY <1>1, <1>2, <1>4 DEF Selection, Entry
<1> QED
    BY <1>3, <1>4 DEF Contents, ToSet

LEMMA ArchiveIsRestorable ==
    ASSUME Inv, walk = "done", WithinLimits, edits < 2 \/ NothingBelowFiles
    PROVE  Restorable(stream) /\ stream \in Seq(Entries)
<1>1. Types /\ Order /\ Layers /\ stream \in Seq(Entries) /\ DOMAIN stream = 1..Len(stream)
    BY TypeFacts DEF Inv
<1>2. ASSUME NEW k \in DOMAIN stream, NEW m \in DOMAIN stream,
             stream[k].path \in Ancestors(stream[m].path)
      PROVE  stream[k].node.kind = "dir"
    <2>1. CASE edits < 2
        <3>1. Strictly(stream[k].path, stream[m].path)
            BY <1>1, <1>2, TypeFacts, AncestorFacts
        <3> QED
            BY <1>1, <2>1, <3>1 DEF Layers
    <2>2. CASE NothingBelowFiles
        BY <1>2, <2>2 DEF NothingBelowFiles, ToSet
    <2> QED
        BY <2>1, <2>2
<1> QED
    BY <1>1, <1>2 DEF Restorable, WithinLimits, Order

LEMMA RestorableMet ==
    ASSUME Inv
    PROVE  MadeIsRestorable
<1> SUFFICES ASSUME walk = "done", Used, wanted = Everything, WithinLimits, stream # <<>>,
                    edits < 2 \/ NothingBelowFiles
             PROVE  /\ scanned.ok /\ restored.ok
                    /\ \A e \in ToSet(stream) : restored.files[e.path] = e.node
    BY DEF MadeIsRestorable
<1>1. Restorable(stream) /\ stream \in Seq(Entries)
    BY ArchiveIsRestorable
<1>2. scanned = Scan(stream) /\ restored = Extract(stream, Everything)
    BY DEF Inv, Outcomes, Used
<1> QED
    BY <1>1, <1>2, MadeFacts DEF ToSet

LEMMA RestoreMet ==
    ASSUME Inv
    PROVE  RestoresWhatIsWanted
<1> SUFFICES ASSUME restored # Unused, restored.ok
             PROVE  LET asked == {e \in ToSet(stream) : Wanted(wanted, e.path)}
                        above == UNION {Ancestors(e.path) : e \in asked}
                    IN  /\ DOMAIN restored.files = {e.path : e \in asked} \cup above
                        /\ \A e \in asked : restored.files[e.path] = e.node
                        /\ \A p \in above : restored.files[p] = Dir
    BY DEF RestoresWhatIsWanted
<1>1. stream \in Seq(Entries) /\ restored = Extract(stream, wanted)
    BY DEF Inv, Types, Outcomes
<1> QED
    BY <1>1, ExtractFacts DEF Above

LEMMA ValidMet ==
    ASSUME Inv
    PROVE  RestorableIsValid
<1>1. stream \in Seq(Entries)
    BY DEF Inv, Types
<1>2. Used => scanned = Scan(stream) /\ restored = Extract(stream, wanted)
    BY DEF Inv, Outcomes, Used
<1> QED
    BY <1>1, <1>2, ValidFacts DEF RestorableIsValid

\* The walk prunes and descends by directory, and takes exactly what the
\* patterns say path by path (create.go:48-127): whatever is to be taken stays
\* ahead of the walk until it is written.
THEOREM ArchiveTakesWhatIsSelected == Spec => []TakesWhatIsSelected
BY ArchiveInvariant, SelectionMet, PTL

\* Of a source that is edited during the walk there is an archive that scans and
\* restores whole, or none, but for entries below a file, which take two edits
\* (create.go:48-101, selective.go:94-123).
THEOREM MadeArchivesAreRestorable == Spec => []MadeIsRestorable
BY ArchiveInvariant, RestorableMet, PTL

\* A restore makes what was asked for and the directories above it, and nothing
\* else, of any stream in any order (selective.go:62-201).
THEOREM RestoreIsOfTheWanted == Spec => []RestoresWhatIsWanted
BY ArchiveInvariant, RestoreMet, PTL

\* A scan accepts what a restore of everything accepts, and counts the same
\* (scan.go:45-130, selective.go:62-201).
THEOREM ScansAgreeWithRestores == Spec => []RestorableIsValid
BY ArchiveInvariant, ValidMet, PTL
=============================================================================
