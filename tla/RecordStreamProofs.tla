-------------------------- MODULE RecordStreamProofs --------------------------
(***************************************************************************)
(* Proofs about RecordStream, for plaintexts of any length, any record     *)
(* size and any number of damages.  Written says what Encrypt has written  *)
(* after each record; Genuine that damage can move, cut and relabel        *)
(* records but not make one that opens; Opened what Decrypt has accepted:  *)
(* the first records of the original, whole and in order.                  *)
(***************************************************************************)
EXTENDS RecordStream, SequenceTheorems, TLAPS

\* Of a plaintext of l bytes: the bytes in the first k records, as plaintext
\* and as ciphertext.
Boundary(l, k) == LeastOf(k * RecordSize, l)
CipherSize(l, k) == Boundary(l, k) + k * Overhead

\* The records of its undamaged stream.
DataAt(l, k) ==
    Record(Data, k, Seal(Data, k, Bytes(Boundary(l, k), Boundary(l, k + 1) - Boundary(l, k)), <<>>))
FinalAt(l, k) ==
    Record(FinalType, k, Seal(FinalType, k, <<>>, <<k, Boundary(l, k), CipherSize(l, k)>>))

Bodies == [key : {"payload", "garbage"}, nonce : Nat, typ : {Data, FinalType}, index : Nat,
           plain : Seq(Nat), commit : Seq(Nat)]
Records == [typ : {Data, FinalType}, index : Nat, shape : {"whole", "noBody", "cut", "tooLong"},
            body : Bodies]

TypeOK ==
    /\ length \in Nat
    /\ enc \in {"running", "ok", "err"} /\ index \in Nat
    /\ totalPlain \in Nat /\ totalCipher \in Nat
    /\ wire \in Seq(Records) /\ sent \in Seq(Records)
    /\ header \in {"intact", "changed"} /\ metadata \in {"intact", "changed"}
    /\ damages \in Nat
    /\ dec \in {"idle", "records", "metadata", "ok", "err"}
    /\ pos \in Nat /\ expected \in Nat /\ finalized \in BOOLEAN
    /\ gotPlain \in Nat /\ gotCipher \in Nat /\ out \in Seq(Nat)
    /\ interrupted \in BOOLEAN

\* Encrypt: the records written so far, and its counters.
Written ==
    /\ totalPlain = Boundary(length, index) /\ totalCipher = CipherSize(length, index)
    /\ \A i \in 1..index : sent[i] = DataAt(length, i - 1)
    /\ enc = "ok" => /\ Len(sent) = index + 1 /\ sent[index + 1] = FinalAt(length, index)
                     /\ Boundary(length, index) = length
    /\ enc # "ok" => Len(sent) = index /\ wire = sent /\ dec = "idle"

\* A stored record that opens has the body of one that was written.
Genuine ==
    \A i \in 1..Len(wire) :
        \/ wire[i].body.key = "garbage"
        \/ \E j \in 1..Len(sent) : wire[i].body = sent[j].body

\* Decrypt: what it has accepted is the beginning of what was written.
Opened ==
    /\ pos = expected /\ pos <= Len(wire) /\ pos <= Len(sent)
    /\ \A i \in 1..pos : wire[i] = sent[i]
    /\ pos > 0 => header = "intact"
    /\ dec = "idle" => pos = 0
    /\ finalized => pos = index + 1 /\ enc = "ok" /\ out = Bytes(0, length)
    /\ ~finalized => /\ pos <= index
                     /\ gotPlain = Boundary(length, pos) /\ gotCipher = CipherSize(length, pos)
                     /\ out = Bytes(0, Boundary(length, pos))
    /\ dec = "metadata" => finalized
    /\ dec = "ok" => finalized /\ metadata = "intact" /\ header = "intact"

Inv == TypeOK /\ Written /\ Genuine /\ Opened /\ NoFalseAlarm

USE ConstantsAssumption

-----------------------------------------------------------------------------
LEMMA LeastOfFacts ==
    ASSUME NEW a \in Nat, NEW b \in Nat
    PROVE  LeastOf(a, b) \in Nat /\ LeastOf(a, b) <= a /\ LeastOf(a, b) <= b
           /\ (LeastOf(a, b) = a \/ LeastOf(a, b) = b)
  BY DEF LeastOf

\* Records are full but for the last one.
LEMMA BoundaryFacts ==
    ASSUME NEW l \in Nat, NEW k \in Nat
    PROVE  /\ Boundary(l, 0) = 0
           /\ Boundary(l, k) \in Nat /\ Boundary(l, k) <= l
           /\ Boundary(l, k + 1) = Boundary(l, k) + LeastOf(RecordSize, l - Boundary(l, k))
           /\ CipherSize(l, 0) = 0
           /\ CipherSize(l, k) \in Nat
           /\ CipherSize(l, k + 1) = CipherSize(l, k) + (Boundary(l, k + 1) - Boundary(l, k)) + Overhead
<1>1. k * RecordSize \in Nat /\ (k + 1) * RecordSize = k * RecordSize + RecordSize
  OBVIOUS
<1>2. k * Overhead \in Nat /\ (k + 1) * Overhead = k * Overhead + Overhead
  OBVIOUS
<1>3. 0 * RecordSize = 0 /\ 0 * Overhead = 0
  OBVIOUS
<1>4. Boundary(l, 0) = 0 /\ Boundary(l, k) \in Nat /\ Boundary(l, k) <= l
  BY <1>1, <1>3 DEF Boundary, LeastOf
<1>5. Boundary(l, k + 1) = Boundary(l, k) + LeastOf(RecordSize, l - Boundary(l, k))
  BY <1>1 DEF Boundary, LeastOf
<1>6. Boundary(l, k + 1) \in Nat
  BY <1>4, <1>5 DEF LeastOf
<1> HIDE DEF Boundary
<1>7. CipherSize(l, 0) = 0 /\ CipherSize(l, k) \in Nat
  BY <1>2, <1>3, <1>4 DEF CipherSize
<1>8. CipherSize(l, k + 1) = CipherSize(l, k) + (Boundary(l, k + 1) - Boundary(l, k)) + Overhead
  BY <1>2, <1>4, <1>6 DEF CipherSize
<1> QED
  BY <1>4, <1>5, <1>7, <1>8

LEMMA BytesIsSeq ==
    ASSUME NEW a \in Nat, NEW n \in Nat
    PROVE  /\ Bytes(a, n) \in Seq(Nat) /\ Len(Bytes(a, n)) = n
           /\ \A k \in 1..n : Bytes(a, n)[k] = a + k
  BY DEF Bytes

LEMMA FirstBytes ==
    ASSUME NEW n \in Nat
    PROVE  /\ Bytes(0, n) \in Seq(Nat) /\ Len(Bytes(0, n)) = n
           /\ \A k \in 1..n : Bytes(0, n)[k] = k
  BY DEF Bytes

\* Consecutive stretches of the plaintext join.
LEMMA BytesJoin ==
    ASSUME NEW a \in Nat, NEW n \in Nat
    PROVE  Bytes(0, a) \o Bytes(a, n) = Bytes(0, a + n)
<1> DEFINE before == Bytes(0, a)
           after == Bytes(a, n)
           whole == Bytes(0, a + n)
<1>1. a + n \in Nat
  OBVIOUS
<1>2. /\ before \in Seq(Nat) /\ Len(before) = a /\ \A k \in 1..a : before[k] = k
      /\ after \in Seq(Nat) /\ Len(after) = n /\ \A k \in 1..n : after[k] = a + k
      /\ whole \in Seq(Nat) /\ Len(whole) = a + n /\ \A k \in 1..(a + n) : whole[k] = k
  BY <1>1, FirstBytes, BytesIsSeq
<1> HIDE DEF before, after, whole
<1>3. /\ before \o after \in Seq(Nat) /\ Len(before \o after) = a + n
      /\ \A k \in 1..(a + n) : (before \o after)[k] = IF k <= a THEN before[k] ELSE after[k - a]
  <2>1. /\ before \o after \in Seq(Nat)
        /\ Len(before \o after) = Len(before) + Len(after)
        /\ \A k \in 1..Len(before) + Len(after) :
              (before \o after)[k] = IF k <= Len(before) THEN before[k] ELSE after[k - Len(before)]
    <3>1. before \in Seq(Nat) /\ after \in Seq(Nat)
      BY <1>2
    <3> QED
      BY <3>1, ConcatProperties, Zenon
  <2> QED
    BY <1>2, <2>1
<1>4. \A k \in 1..(a + n) : (before \o after)[k] = whole[k]
  BY <1>2, <1>3
<1>5. before \o after = whole
  BY <1>2, <1>3, <1>4, SeqEqual
<1> QED
  BY <1>5 DEF before, after, whole

LEMMA PrefixOfEqual ==
    ASSUME NEW S, NEW s \in Seq(S), NEW t \in Seq(S), Len(s) <= Len(t),
           \A k \in 1..Len(s) : s[k] = t[k]
    PROVE  IsPrefix(s, t)
<1>1. SubSeq(s, 1, Len(s)) = SubSeq(t, 1, Len(s))
  OBVIOUS
<1> QED
  BY <1>1 DEF IsPrefix

LEMMA BytesPrefix ==
    ASSUME NEW n \in Nat, NEW m \in Nat, n <= m
    PROVE  IsPrefix(Bytes(0, n), Bytes(0, m))
<1> DEFINE s == Bytes(0, n)
           t == Bytes(0, m)
<1>2. /\ s \in Seq(Nat) /\ Len(s) = n /\ \A k \in 1..n : s[k] = k
      /\ t \in Seq(Nat) /\ Len(t) = m /\ \A k \in 1..m : t[k] = k
  BY FirstBytes
<1> HIDE DEF s, t
<1>3. IsPrefix(s, t)
  BY <1>2, PrefixOfEqual
<1> QED
  BY <1>3 DEF s, t

-----------------------------------------------------------------------------
\* A record with the body of a stored one, or with one that cannot open; and a
\* stream of such records.
Reused(r) ==
    /\ r \in Records
    /\ r.body.key = "garbage" \/ \E y \in 1..Len(wire) : r.body = wire[y].body
Stream(w) == w \in Seq(Records) /\ \A x \in 1..Len(w) : Reused(w[x])

LEMMA StoredIsReused == ASSUME TypeOK, NEW y \in 1..Len(wire) PROVE wire[y] \in Records /\ Reused(wire[y])
<1>1. wire[y] \in Records
  BY DEF TypeOK
<1> QED
  BY <1>1 DEF Reused

LEMMA StretchIsStream ==
    ASSUME TypeOK, NEW a \in Nat \ {0}, NEW b \in 0..Len(wire)
    PROVE  Stream(SubSeq(wire, a, b))
<1>1. wire \in Seq(Records)
  BY DEF TypeOK
<1>2. \A i \in a..b : i \in 1..Len(wire) /\ wire[i] \in Records
  BY <1>1
<1>3. /\ SubSeq(wire, a, b) \in Seq(Records)
      /\ Len(SubSeq(wire, a, b)) = IF a <= b THEN b - a + 1 ELSE 0
      /\ \A i \in 1..(b - a + 1) : SubSeq(wire, a, b)[i] = wire[a + i - 1]
  BY <1>1, <1>2, SubSeqProperties
<1>4. ASSUME NEW x \in 1..Len(SubSeq(wire, a, b))
      PROVE  Reused(SubSeq(wire, a, b)[x])
  <2>1. SubSeq(wire, a, b)[x] = wire[a + x - 1] /\ a + x - 1 \in 1..Len(wire)
    BY <1>1, <1>3
  <2> QED
    BY <2>1, StoredIsReused
<1> QED
  BY <1>3, <1>4 DEF Stream

LEMMA JoinIsStream ==
    ASSUME NEW v, NEW w, Stream(v), Stream(w)
    PROVE  Stream(v \o w)
<1>1. v \in Seq(Records) /\ w \in Seq(Records)
  BY DEF Stream
<1>2. /\ v \o w \in Seq(Records) /\ Len(v \o w) = Len(v) + Len(w)
      /\ \A i \in 1..Len(v) + Len(w) : (v \o w)[i] = IF i <= Len(v) THEN v[i] ELSE w[i - Len(v)]
  BY <1>1, ConcatProperties, Zenon
<1>3. ASSUME NEW x \in 1..Len(v \o w) PROVE Reused((v \o w)[x])
  <2>1. CASE x <= Len(v)
    <3>1. x \in 1..Len(v) /\ (v \o w)[x] = v[x]
      BY <1>1, <1>2, <2>1
    <3> QED
      BY <3>1 DEF Stream
  <2>2. CASE ~(x <= Len(v))
    <3>1. x - Len(v) \in 1..Len(w) /\ (v \o w)[x] = w[x - Len(v)]
      BY <1>1, <1>2, <2>2
    <3> QED
      BY <3>1 DEF Stream
  <2> QED
    BY <2>1, <2>2
<1> QED
  BY <1>2, <1>3 DEF Stream

LEMMA OneIsStream == ASSUME NEW r, Reused(r) PROVE Stream(<<r>>)
<1>1. r \in Records /\ <<r>> \in Seq(Records) /\ Len(<<r>>) = 1 /\ <<r>>[1] = r
  BY DEF Reused
<1> QED
  BY <1>1 DEF Stream

LEMMA AppendIsStream == ASSUME NEW v, NEW r, Stream(v), Reused(r) PROVE Stream(Append(v, r))
<1>1. Append(v, r) = v \o <<r>>
  BY DEF Stream, Reused
<1> QED
  BY <1>1, OneIsStream, JoinIsStream

LEMMA ExceptIsStream ==
    ASSUME NEW w, Stream(w), NEW i \in 1..Len(w), NEW r, Reused(r)
    PROVE  Stream([w EXCEPT ![i] = r])
<1>1. w \in Seq(Records) /\ r \in Records
  BY DEF Stream, Reused
<1>2. /\ [w EXCEPT ![i] = r] \in Seq(Records) /\ Len([w EXCEPT ![i] = r]) = Len(w)
      /\ \A j \in 1..Len(w) : [w EXCEPT ![i] = r][j] = IF j = i THEN r ELSE w[j]
  BY <1>1, ExceptSeq
<1> QED
  BY <1>2 DEF Stream

\* Damage moves, drops, doubles, cuts and relabels what is stored.
LEMMA DamageReuses == ASSUME TypeOK, NEW w \in DamagedWires PROVE Stream(w)
<1> DEFINE N == Len(wire)
<1>1. N \in Nat /\ wire \in Seq(Records)
  BY DEF TypeOK
<1>2. Stream(wire)
  BY <1>1, StoredIsReused DEF Stream
<1>3. ASSUME NEW i \in 1..N, w = RemoveAt(wire, i) PROVE Stream(w)
  <2>1. Stream(SubSeq(wire, 1, i - 1)) /\ Stream(SubSeq(wire, i + 1, N))
    BY <1>1, StretchIsStream
  <2> QED
    BY <1>3, <2>1, JoinIsStream DEF RemoveAt
<1>4. ASSUME NEW i \in 1..(N + 1), NEW j \in 1..N, w = InsertAt(wire, i, wire[j]) PROVE Stream(w)
  <2>1. Stream(SubSeq(wire, 1, i - 1)) /\ Stream(SubSeq(wire, i, N)) /\ Stream(<<wire[j]>>)
    BY <1>1, StretchIsStream, StoredIsReused, OneIsStream
  <2> QED
    BY <1>4, <2>1, JoinIsStream DEF InsertAt
<1>5. ASSUME NEW i \in 1..N, NEW j \in 1..N,
             w = [wire EXCEPT ![i] = wire[j], ![j] = wire[i]]
      PROVE  Stream(w)
  <2>1. Stream([wire EXCEPT ![i] = wire[j]]) /\ Len([wire EXCEPT ![i] = wire[j]]) = N
    BY <1>1, <1>2, StoredIsReused, ExceptIsStream
  <2>2. w = [[wire EXCEPT ![i] = wire[j]] EXCEPT ![j] = wire[i]]
    BY <1>5
  <2> QED
    BY <2>1, <2>2, StoredIsReused, ExceptIsStream
<1>6. ASSUME NEW i \in 0..N, w = SubSeq(wire, 1, i) PROVE Stream(w)
  BY <1>1, <1>6, StretchIsStream
<1>7. ASSUME NEW i \in 1..N PROVE
        /\ \A s \in {"noBody", "cut", "tooLong"} : Reused([wire[i] EXCEPT !.shape = s])
        /\ Reused([wire[i] EXCEPT !.body.key = "garbage"])
        /\ Reused([wire[i] EXCEPT !.typ = 3 - @])
        /\ \A j \in Nat : Reused([wire[i] EXCEPT !.index = j])
  <2>1. wire[i] \in Records
    BY <1>1
  <2>2. \A s \in {"noBody", "cut", "tooLong"} :
           [wire[i] EXCEPT !.shape = s] \in Records /\ [wire[i] EXCEPT !.shape = s].body = wire[i].body
    BY <2>1 DEF Records
  <2>3. [wire[i] EXCEPT !.body.key = "garbage"] \in Records
        /\ [wire[i] EXCEPT !.body.key = "garbage"].body.key = "garbage"
    BY <2>1 DEF Records, Bodies
  <2>4. [wire[i] EXCEPT !.typ = 3 - @] \in Records
        /\ [wire[i] EXCEPT !.typ = 3 - @].body = wire[i].body
    BY <2>1 DEF Records, Data, FinalType
  <2>5. \A j \in Nat : [wire[i] EXCEPT !.index = j] \in Records
                       /\ [wire[i] EXCEPT !.index = j].body = wire[i].body
    BY <2>1 DEF Records
  <2> QED
    BY <2>2, <2>3, <2>4, <2>5 DEF Reused
<1>8. ASSUME NEW i \in 1..N, NEW s \in {"noBody", "cut"},
             \/ w = Append(SubSeq(wire, 1, i - 1), [wire[i] EXCEPT !.shape = s])
             \/ w = Append(wire, [wire[i] EXCEPT !.shape = s])
      PROVE  Stream(w)
  <2>1. Stream(SubSeq(wire, 1, i - 1))
    BY <1>1, StretchIsStream
  <2> QED
    BY <1>2, <1>7, <1>8, <2>1, AppendIsStream
<1>9. ASSUME NEW i \in 1..N,
             \/ w = [wire EXCEPT ![i].body.key = "garbage"]
             \/ w = [wire EXCEPT ![i].shape = "tooLong"]
             \/ w = [wire EXCEPT ![i].typ = 3 - @]
             \/ \E j \in 0..index : w = [wire EXCEPT ![i].index = j]
      PROVE  Stream(w)
  <2>1. PICK r : Reused(r) /\ w = [wire EXCEPT ![i] = r]
    <3>1. 0..index \subseteq Nat
      BY DEF TypeOK
    <3> QED
      BY <1>7, <1>9, <3>1
  <2> QED
    BY <1>2, <2>1, ExceptIsStream
<1>10. /\ w \in Dropped => Stream(w)
       /\ w \in Doubled => Stream(w)
       /\ w \in Swapped => Stream(w)
       /\ w \in Truncated => Stream(w)
  BY <1>3, <1>4, <1>5, <1>6 DEF Dropped, Doubled, Swapped, Truncated, Stored
<1>11. ASSUME w \in Torn PROVE Stream(w)
  <2>1. PICK i \in 1..N, s \in {"noBody", "cut"} :
            w = Append(SubSeq(wire, 1, i - 1), [wire[i] EXCEPT !.shape = s])
    BY <1>11 DEF Torn, Stored
  <2> QED
    BY <1>8, <2>1
<1>12. ASSUME w \in Trailing PROVE Stream(w)
  <2>1. PICK i \in 1..N, s \in {"noBody", "cut"} : w = Append(wire, [wire[i] EXCEPT !.shape = s])
    BY <1>12 DEF Trailing, Stored
  <2> QED
    BY <1>8, <2>1
<1>13. /\ w \in Garbled => Stream(w)
       /\ w \in Lengthened => Stream(w)
       /\ w \in Retyped => Stream(w)
       /\ w \in Reindexed => Stream(w)
  BY <1>9 DEF Garbled, Lengthened, Retyped, Reindexed, Stored
<1> QED
  BY <1>10, <1>11, <1>12, <1>13, Zenon DEF DamagedWires

-----------------------------------------------------------------------------
LEMMA RecordFacts ==
    ASSUME NEW l \in Nat, NEW k \in Nat
    PROVE  /\ DataAt(l, k) \in Records
           /\ DataAt(l, k).typ = Data /\ DataAt(l, k).index = k /\ DataAt(l, k).shape = "whole"
           /\ DataAt(l, k).body = Seal(Data, k, Bytes(Boundary(l, k), Boundary(l, k + 1) - Boundary(l, k)), <<>>)
           /\ FinalAt(l, k) \in Records
           /\ FinalAt(l, k).typ = FinalType /\ FinalAt(l, k).index = k /\ FinalAt(l, k).shape = "whole"
           /\ FinalAt(l, k).body = Seal(FinalType, k, <<>>, <<k, Boundary(l, k), CipherSize(l, k)>>)
<1> DEFINE plain == Bytes(Boundary(l, k), Boundary(l, k + 1) - Boundary(l, k))
           commit == <<k, Boundary(l, k), CipherSize(l, k)>>
<1>1. plain \in Seq(Nat) /\ commit \in Seq(Nat) /\ <<>> \in Seq(Nat)
  <2>1. Boundary(l, k) \in Nat /\ Boundary(l, k + 1) - Boundary(l, k) \in Nat /\ CipherSize(l, k) \in Nat
    <3>1. /\ Boundary(l, k) \in Nat /\ Boundary(l, k) <= l /\ CipherSize(l, k) \in Nat
          /\ Boundary(l, k + 1) = Boundary(l, k) + LeastOf(RecordSize, l - Boundary(l, k))
      BY BoundaryFacts
    <3> QED
      BY <3>1 DEF LeastOf
  <2> QED
    BY <2>1, BytesIsSeq
<1> HIDE DEF plain, commit
<1>2. Seal(Data, k, plain, <<>>) \in Bodies /\ Seal(FinalType, k, <<>>, commit) \in Bodies
  BY <1>1 DEF Seal, Bodies
<1>3. /\ DataAt(l, k) = Record(Data, k, Seal(Data, k, plain, <<>>))
      /\ FinalAt(l, k) = Record(FinalType, k, Seal(FinalType, k, <<>>, commit))
  BY DEF DataAt, FinalAt, plain, commit
<1>4. /\ DataAt(l, k) \in Records
      /\ DataAt(l, k).typ = Data /\ DataAt(l, k).index = k /\ DataAt(l, k).shape = "whole"
      /\ DataAt(l, k).body = Seal(Data, k, plain, <<>>)
  BY <1>2, <1>3 DEF Record, Records
<1>5. /\ FinalAt(l, k) \in Records
      /\ FinalAt(l, k).typ = FinalType /\ FinalAt(l, k).index = k /\ FinalAt(l, k).shape = "whole"
      /\ FinalAt(l, k).body = Seal(FinalType, k, <<>>, commit)
  BY <1>2, <1>3 DEF Record, Records
<1> QED
  BY <1>4, <1>5 DEF plain, commit

LEMMA SealFacts ==
    ASSUME NEW typ, NEW i, NEW plain, NEW commit
    PROVE  /\ Seal(typ, i, plain, commit).key = "payload"
           /\ Seal(typ, i, plain, commit).nonce = i
           /\ Seal(typ, i, plain, commit).typ = typ
           /\ Seal(typ, i, plain, commit).index = i
           /\ Seal(typ, i, plain, commit).plain = plain
           /\ Seal(typ, i, plain, commit).commit = commit
  BY DEF Seal

LEMMA BodyFacts ==
    ASSUME NEW l \in Nat, NEW k \in Nat
    PROVE  /\ DataAt(l, k).body.plain = Bytes(Boundary(l, k), Boundary(l, k + 1) - Boundary(l, k))
           /\ FinalAt(l, k).body.commit = <<k, Boundary(l, k), CipherSize(l, k)>>
<1> DEFINE plain == Bytes(Boundary(l, k), Boundary(l, k + 1) - Boundary(l, k))
           commit == <<k, Boundary(l, k), CipherSize(l, k)>>
<1>1. DataAt(l, k).body = Seal(Data, k, plain, <<>>) /\ FinalAt(l, k).body = Seal(FinalType, k, <<>>, commit)
  BY RecordFacts
<1> HIDE DEF plain, commit
<1>2. DataAt(l, k).body.plain = plain /\ FinalAt(l, k).body.commit = commit
  BY <1>1, SealFacts
<1> QED
  BY <1>2 DEF plain, commit

\* The i-th record written has index and nonce i - 1, and is whole.
LEMMA SentFacts ==
    ASSUME TypeOK, Written, NEW i \in 1..Len(sent)
    PROVE  /\ sent[i].index = i - 1 /\ sent[i].shape = "whole"
           /\ sent[i].body.key = "payload"
           /\ sent[i].body.nonce = i - 1 /\ sent[i].body.index = i - 1
           /\ sent[i].typ = sent[i].body.typ
           /\ i <= index => sent[i] = DataAt(length, i - 1) /\ sent[i].typ = Data
           /\ i > index => i = index + 1 /\ sent[i] = FinalAt(length, index) /\ sent[i].typ = FinalType
<1>1. length \in Nat /\ index \in Nat /\ Len(sent) \in Nat
  BY DEF TypeOK
<1>2. CASE i <= index
  <2>1. sent[i] = DataAt(length, i - 1) /\ i - 1 \in Nat
    BY <1>1, <1>2 DEF Written
  <2> QED
    <3>4. PICK k \in Nat : k = i - 1
      BY <2>1
    <3> DEFINE plain == Bytes(Boundary(length, k), Boundary(length, k + 1) - Boundary(length, k))
    <3>1. /\ DataAt(length, k).typ = Data /\ DataAt(length, k).index = k
          /\ DataAt(length, k).shape = "whole" /\ DataAt(length, k).body = Seal(Data, k, plain, <<>>)
      BY <1>1, RecordFacts, ZenonT(60)
    <3> HIDE DEF plain
    <3>2. /\ sent[i].body.key = "payload" /\ sent[i].body.nonce = k
          /\ sent[i].body.index = k /\ sent[i].body.typ = Data
      BY <2>1, <3>1, <3>4, SealFacts
    <3> QED
      BY <1>1, <1>2, <2>1, <3>1, <3>2, <3>4
<1>3. CASE i > index
  <2>1. i = index + 1 /\ sent[i] = FinalAt(length, index)
    BY <1>1, <1>3 DEF Written
  <2> QED
    <3> DEFINE commit == <<index, Boundary(length, index), CipherSize(length, index)>>
    <3>1. /\ FinalAt(length, index).typ = FinalType /\ FinalAt(length, index).index = index
          /\ FinalAt(length, index).shape = "whole"
          /\ FinalAt(length, index).body = Seal(FinalType, index, <<>>, commit)
      BY <1>1, RecordFacts
    <3> HIDE DEF commit
    <3> QED
      BY <1>1, <1>3, <2>1, <3>1, SealFacts
<1> QED
  BY <1>1, <1>2, <1>3

-----------------------------------------------------------------------------
LEMMA InitInv == Init => Inv
<1> SUFFICES ASSUME Init PROVE Inv
  OBVIOUS
<1>1. length \in Nat /\ index = 0 /\ wire = <<>> /\ sent = <<>> /\ pos = 0
  BY DEF Init
<1>2. <<>> \in Seq(Nat) /\ <<>> \in Seq(Records)
  OBVIOUS
<1>3. TypeOK
  <2>1. length \in Nat /\ enc = "running" /\ index = 0 /\ totalPlain = 0 /\ totalCipher = 0
    BY DEF Init
  <2>2. header = "intact" /\ metadata = "intact" /\ damages = 0 /\ dec = "idle"
    BY DEF Init
  <2>3. pos = 0 /\ expected = 0 /\ gotPlain = 0 /\ gotCipher = 0 /\ out = <<>>
    BY DEF Init
  <2>4. finalized \in BOOLEAN /\ interrupted \in BOOLEAN
    BY DEF Init
  <2> QED
    BY <1>1, <1>2, <2>1, <2>2, <2>3, <2>4 DEF TypeOK
<1>4. Boundary(length, 0) = 0 /\ CipherSize(length, 0) = 0
  BY <1>1, BoundaryFacts
<1>5. Bytes(0, 0) = <<>>
  BY FirstBytes
<1>6. Written /\ Genuine /\ NoFalseAlarm
  BY <1>1, <1>4 DEF Init, Written, Genuine, NoFalseAlarm
<1>7. Opened
  BY <1>1, <1>4, <1>5 DEF Init, Opened
<1> QED
  BY <1>3, <1>6, <1>7 DEF Inv

\* Before Decrypt starts it has accepted nothing.
LEMMA IdleOpened ==
    ASSUME Inv, TypeOK', dec = "idle", dec' = "idle", UNCHANGED decLocals, length' = length
    PROVE  Opened' /\ NoFalseAlarm'
<1>1. pos = 0 /\ ~finalized
  BY DEF Inv, TypeOK, Opened
<1> QED
  <2>1. Len(wire') \in Nat /\ Len(sent') \in Nat /\ index' \in Nat
    BY DEF TypeOK
  <2>2. expected = 0 /\ gotPlain = Boundary(length, 0) /\ gotCipher = CipherSize(length, 0)
        /\ out = Bytes(0, Boundary(length, 0))
    BY <1>1 DEF Inv, Opened
  <2>3. pos' = 0 /\ ~finalized' /\ expected' = 0 /\ gotPlain' = gotPlain /\ gotCipher' = gotCipher /\ out' = out
    BY <1>1, <2>2 DEF decLocals
  <2>4. Opened'
    <3>1. /\ gotPlain' = Boundary(length', pos') /\ gotCipher' = CipherSize(length', pos')
          /\ out' = Bytes(0, Boundary(length', pos'))
      BY <2>2, <2>3
    <3>2. \A i \in 1..pos' : wire'[i] = sent'[i]
      BY <2>3
    <3> QED
      <4>1. pos' = expected' /\ pos' <= Len(wire') /\ pos' <= Len(sent') /\ ~(pos' > 0) /\ pos' <= index'
        BY <2>1, <2>3
      <4>2. ~finalized' /\ dec' # "metadata" /\ dec' # "ok"
        BY <2>3
      <4> QED
        BY <3>1, <3>2, <4>1, <4>2, <2>3 DEF Opened
  <2>5. NoFalseAlarm'
    BY DEF NoFalseAlarm
  <2> QED
    BY <2>4, <2>5

LEMMA EncryptInv == ASSUME Inv, Encrypting PROVE Inv'
<1> USE DEF Inv
<1>1. /\ enc = "running" /\ wire = sent /\ Len(sent) = index /\ dec = "idle"
      /\ length \in Nat /\ index \in Nat
  BY DEF Encrypting, EncryptRecord, EncryptFinal, EncryptFails, Written, TypeOK
<1>2. CASE EncryptRecord
  <2> DEFINE n == LeastOf(RecordSize, length - totalPlain)
  <2>1. /\ totalPlain = Boundary(length, index) /\ totalCipher = CipherSize(length, index)
        /\ n \in Nat
        /\ Boundary(length, index + 1) = totalPlain + n
        /\ CipherSize(length, index + 1) = totalCipher + n + Overhead
    <3>1. /\ totalPlain = Boundary(length, index) /\ totalCipher = CipherSize(length, index)
          /\ totalPlain \in Nat /\ totalCipher \in Nat
      BY DEF Written, TypeOK
    <3>2. /\ totalPlain <= length
          /\ Boundary(length, index + 1) = totalPlain + n
          /\ CipherSize(length, index + 1) = totalCipher + (Boundary(length, index + 1) - totalPlain) + Overhead
      BY <1>1, <3>1, BoundaryFacts
    <3>3. n \in Nat
      <4>1. length - totalPlain \in Nat
        BY <1>1, <3>1, <3>2
      <4> QED
        BY <4>1, LeastOfFacts
    <3> QED
      BY <3>1, <3>2, <3>3
  <2>2. Record(Data, index, Seal(Data, index, Bytes(totalPlain, n), <<>>)) = DataAt(length, index)
    BY <2>1 DEF DataAt, TypeOK
  <2>3. /\ wire' = Append(sent, DataAt(length, index)) /\ sent' = Append(sent, DataAt(length, index))
        /\ index' = index + 1 /\ totalPlain' = totalPlain + n
        /\ totalCipher' = totalCipher + n + Overhead
        /\ UNCHANGED <<length, enc, header, metadata, damages, dec, decLocals, interrupted>>
    BY <1>1, <1>2, <2>2 DEF EncryptRecord, WriteRecord
  <2>4. DataAt(length, index) \in Records /\ sent \in Seq(Records)
    BY <1>1, RecordFacts DEF TypeOK
  <2>5. /\ sent' \in Seq(Records) /\ Len(sent') = index + 1
        /\ \A i \in 1..index : sent'[i] = sent[i]
        /\ sent'[index + 1] = DataAt(length, index)
    BY <1>1, <2>3, <2>4
  <2> HIDE DEF n
  <2>6. TypeOK'
    <3>1. /\ index' \in Nat /\ totalPlain' \in Nat /\ totalCipher' \in Nat
          /\ wire' \in Seq(Records)
      BY <1>1, <2>1, <2>3, <2>5 DEF TypeOK
    <3> QED
      BY <2>3, <2>5, <3>1 DEF TypeOK, decLocals
  <2>7. Written'
    <3>1. totalPlain' = Boundary(length, index + 1) /\ totalCipher' = CipherSize(length, index + 1)
      BY <2>1, <2>3
    <3>2. \A i \in 1..(index + 1) : sent'[i] = DataAt(length, i - 1)
      <4>1. \A i \in 1..index : sent'[i] = DataAt(length, i - 1)
        BY <2>5 DEF Written
      <4>2. \A i \in 1..(index + 1) : i \in 1..index \/ i = index + 1
        BY <1>1
      <4>3. (index + 1) - 1 = index
        BY <1>1
      <4> QED
        BY <2>5, <4>1, <4>2, <4>3
    <3> QED
      BY <1>1, <2>3, <2>5, <3>1, <3>2 DEF Written
  <2>8. Genuine'
    BY <2>3 DEF Genuine
  <2> QED
    BY <1>1, <2>3, <2>6, <2>7, <2>8, IdleOpened
<1>3. CASE EncryptFinal
  <2>1. /\ totalPlain = length /\ totalPlain = Boundary(length, index) /\ totalCipher = CipherSize(length, index)
    BY <1>3 DEF EncryptFinal, Written
  <2>2. Record(FinalType, index, Seal(FinalType, index, <<>>, <<index, totalPlain, totalCipher>>))
          = FinalAt(length, index)
    BY <2>1 DEF FinalAt
  <2>3. /\ wire' = Append(sent, FinalAt(length, index)) /\ sent' = Append(sent, FinalAt(length, index))
        /\ enc' = "ok"
        /\ UNCHANGED <<length, index, totalPlain, totalCipher, header, metadata, damages, dec, decLocals,
                       interrupted>>
    BY <1>1, <1>3, <2>2 DEF EncryptFinal, WriteRecord
  <2>4. FinalAt(length, index) \in Records /\ sent \in Seq(Records)
    BY <1>1, RecordFacts DEF TypeOK
  <2>5. /\ sent' \in Seq(Records) /\ Len(sent') = index + 1
        /\ \A i \in 1..index : sent'[i] = sent[i]
        /\ sent'[index + 1] = FinalAt(length, index)
    BY <1>1, <2>3, <2>4
  <2>6. TypeOK'
    BY <1>1, <2>3, <2>5 DEF TypeOK, decLocals
  <2>7. Written'
    BY <1>1, <2>1, <2>3, <2>5 DEF Written, TypeOK
  <2>8. Genuine'
    BY <2>3 DEF Genuine
  <2> QED
    BY <1>1, <2>3, <2>6, <2>7, <2>8, IdleOpened
<1>4. CASE EncryptFails
  <2>1. enc' = "err" /\ interrupted' = TRUE
        /\ UNCHANGED <<length, index, totalPlain, totalCipher, sent, wire, header, metadata, damages, dec, decLocals>>
    BY <1>4 DEF EncryptFails, stored
  <2>2. TypeOK'
    BY <2>1 DEF TypeOK, decLocals
  <2>3. Written' /\ Genuine'
    BY <1>1, <2>1 DEF Written, Genuine
  <2> QED
    BY <1>1, <2>1, <2>2, <2>3, IdleOpened
<1> QED
  BY <1>2, <1>3, <1>4 DEF Encrypting

LEMMA DamageInv == ASSUME Inv, Damage PROVE Inv'
<1> USE DEF Inv
<1>1. /\ enc = "ok" /\ dec = "idle" /\ damages' = damages + 1
      /\ UNCHANGED <<length, enc, index, totalPlain, totalCipher, sent, dec, decLocals, interrupted>>
      /\ header' \in {"intact", "changed"} /\ metadata' \in {"intact", "changed"}
      /\ wire' = wire \/ wire' \in DamagedWires
  BY DEF Damage, encVars, TypeOK
<1>2. Stream(wire')
  <2>1. CASE wire' = wire
    BY <2>1, StoredIsReused DEF Stream, TypeOK
  <2>2. CASE wire' \in DamagedWires
    BY <2>2, DamageReuses
  <2> QED
    BY <1>1, <2>1, <2>2
<1>3. TypeOK'
  BY <1>1, <1>2 DEF TypeOK, Stream, decLocals
<1>4. Written'
  BY <1>1 DEF Written
<1>5. Genuine'
  BY <1>1, <1>2 DEF Genuine, Stream, Reused
<1> QED
  BY <1>1, <1>3, <1>4, <1>5, IdleOpened

\* What Decrypt accepts next is the next record of the original: its nonce and
\* index leave no other.
LEMMA AcceptedIsNext ==
    ASSUME Inv, ~ReadsEOF, Acceptable(NextRecord)
    PROVE  /\ pos + 1 \in 1..Len(wire) /\ pos + 1 \in 1..Len(sent)
           /\ NextRecord = wire[pos + 1] /\ wire[pos + 1] = sent[pos + 1]
           /\ header = "intact" /\ ~finalized
<1> USE DEF Inv
<1>1. /\ pos = expected /\ pos \in Nat /\ pos <= Len(wire) /\ wire \in Seq(Records) /\ sent \in Seq(Records)
  BY DEF TypeOK, Opened
<1>2. pos + 1 \in 1..Len(wire)
  BY <1>1 DEF ReadsEOF, AtEnd
<1> DEFINE r == wire[pos + 1]
<1>3. /\ r \in Records /\ r.shape = "whole" /\ r.index = pos /\ header = "intact" /\ ~finalized
      /\ r.body.key = "payload" /\ r.body.nonce = pos /\ r.body.typ = r.typ
  BY <1>1, <1>2 DEF Acceptable, Opens, NextRecord
<1>4. PICK j \in 1..Len(sent) : r.body = sent[j].body
  BY <1>2, <1>3 DEF Genuine
<1>5. sent[j].body.nonce = j - 1 /\ sent[j].index = j - 1 /\ sent[j].shape = "whole"
      /\ sent[j].typ = sent[j].body.typ
  BY SentFacts
<1>6. j = pos + 1
  BY <1>1, <1>3, <1>4, <1>5
<1>7. sent[j] \in Records
  BY <1>1
<1>8. r = sent[j]
  <2>1. r.typ = sent[j].typ /\ r.index = sent[j].index /\ r.shape = sent[j].shape
    BY <1>1, <1>3, <1>4, <1>5, <1>6
  <2>2. r = [typ |-> r.typ, index |-> r.index, shape |-> r.shape, body |-> r.body]
    BY <1>3 DEF Records
  <2>3. sent[j] = [typ |-> sent[j].typ, index |-> sent[j].index, shape |-> sent[j].shape,
                   body |-> sent[j].body]
    BY <1>7 DEF Records
  <2> QED
    BY <1>4, <2>1, <2>2, <2>3
<1> QED
  BY <1>2, <1>3, <1>6, <1>8 DEF NextRecord

\* A step of Decrypt changes nothing that is stored.
LEMMA StoredUnchanged ==
    ASSUME Inv, enc = "ok", UNCHANGED <<encVars, stored>>
    PROVE  Written' /\ Genuine'
  BY DEF Inv, Written, Genuine, encVars, stored

LEMMA DataRecordInv == ASSUME Inv, enc = "ok", DataRecord PROVE Inv'
<1> USE DEF Inv
<1> DEFINE r == wire[pos + 1]
<1>1. /\ pos + 1 \in 1..Len(wire) /\ pos + 1 \in 1..Len(sent) /\ r = sent[pos + 1]
      /\ header = "intact" /\ ~finalized /\ r.typ = Data
  BY AcceptedIsNext DEF DataRecord, NextRecord
<1>2. /\ dec = "records" /\ out' = out \o r.body.plain
      /\ gotPlain' = gotPlain + Len(r.body.plain)
      /\ gotCipher' = gotCipher + Len(r.body.plain) + Overhead
      /\ pos' = pos + 1 /\ expected' = expected + 1
      /\ UNCHANGED <<encVars, stored, dec, finalized, interrupted>>
  BY DEF DataRecord, NextRecord
<1>3. /\ length \in Nat /\ index \in Nat /\ pos \in Nat /\ pos = expected
      /\ gotPlain = Boundary(length, pos) /\ gotCipher = CipherSize(length, pos)
      /\ out = Bytes(0, Boundary(length, pos))
  BY <1>1 DEF TypeOK, Opened
<1>4. pos + 1 <= index /\ r = DataAt(length, pos)
  <2>1. /\ pos + 1 > index => sent[pos + 1].typ = FinalType
        /\ pos + 1 <= index => sent[pos + 1] = DataAt(length, (pos + 1) - 1)
    BY <1>1, SentFacts
  <2>2. (pos + 1) - 1 = pos
    BY <1>3
  <2> QED
    BY <1>1, <1>3, <2>1, <2>2 DEF Data, FinalType
<1> DEFINE m == Boundary(length, pos + 1) - Boundary(length, pos)
<1>5. r.body.plain = Bytes(Boundary(length, pos), m)
  <2>1. DataAt(length, pos).body.plain = Bytes(Boundary(length, pos), m)
    BY <1>3, BodyFacts
  <2> QED
    BY <1>4, <2>1
<1>6. /\ Boundary(length, pos) \in Nat /\ m \in Nat
      /\ Boundary(length, pos + 1) = Boundary(length, pos) + m
      /\ CipherSize(length, pos) \in Nat
      /\ CipherSize(length, pos + 1) = CipherSize(length, pos) + m + Overhead
  <2>1. /\ Boundary(length, pos) \in Nat /\ CipherSize(length, pos) \in Nat
        /\ Boundary(length, pos) <= length
        /\ Boundary(length, pos + 1) = Boundary(length, pos) + LeastOf(RecordSize, length - Boundary(length, pos))
        /\ CipherSize(length, pos + 1) = CipherSize(length, pos) + m + Overhead
    BY <1>3, BoundaryFacts
  <2>2. length - Boundary(length, pos) \in Nat
    BY <1>3, <2>1
  <2>3. LeastOf(RecordSize, length - Boundary(length, pos)) \in Nat
    BY <2>2, LeastOfFacts
  <2> QED
    BY <2>1, <2>3
<1> HIDE DEF m
<1>7. /\ out' = Bytes(0, Boundary(length, pos + 1))
      /\ gotPlain' = Boundary(length, pos + 1)
      /\ gotCipher' = CipherSize(length, pos + 1)
  <2>1. Len(Bytes(Boundary(length, pos), m)) = m
    BY <1>6, BytesIsSeq
  <2>2. Bytes(0, Boundary(length, pos)) \o Bytes(Boundary(length, pos), m)
          = Bytes(0, Boundary(length, pos) + m)
    BY <1>6, BytesJoin
  <2> QED
    BY <1>2, <1>3, <1>5, <1>6, <2>1, <2>2
<1>8. /\ Boundary(length, pos + 1) \in Nat /\ CipherSize(length, pos + 1) \in Nat
      /\ Bytes(0, Boundary(length, pos + 1)) \in Seq(Nat)
  <2>1. Boundary(length, pos + 1) \in Nat
    BY <1>6
  <2>2. CipherSize(length, pos + 1) \in Nat
    BY <1>6
  <2> QED
    BY <2>1, <2>2, FirstBytes
<1>9. TypeOK'
  <2>1. pos' \in Nat /\ expected' \in Nat /\ gotPlain' \in Nat /\ gotCipher' \in Nat /\ out' \in Seq(Nat)
    <3>1. pos' \in Nat /\ expected' \in Nat
      BY <1>2, <1>3
    <3> QED
      BY <1>7, <1>8, <3>1
  <2> QED
    BY <1>2, <2>1 DEF TypeOK, encVars, stored
<1>10. Opened'
  <2>1. \A i \in 1..(pos + 1) : wire[i] = sent[i]
    <3>1. \A i \in 1..pos : wire[i] = sent[i]
      BY DEF Opened
    <3>2. \A i \in 1..(pos + 1) : i \in 1..pos \/ i = pos + 1
      BY <1>3
    <3> QED
      BY <1>1, <3>1, <3>2
  <2> QED
    <3>1. UNCHANGED <<length, enc, index, wire, sent, header, dec, finalized>>
      BY <1>2 DEF encVars, stored
    <3>2. /\ pos' = expected' /\ pos' <= Len(wire') /\ pos' <= Len(sent') /\ pos' <= index'
          /\ header' = "intact" /\ ~finalized' /\ dec' = "records"
      BY <1>1, <1>2, <1>3, <1>4, <3>1
    <3>3. \A i \in 1..pos' : wire'[i] = sent'[i]
      BY <1>2, <2>1, <3>1
    <3>4. /\ gotPlain' = Boundary(length', pos') /\ gotCipher' = CipherSize(length', pos')
          /\ out' = Bytes(0, Boundary(length', pos'))
      BY <1>2, <1>7, <3>1
    <3> QED
      BY <3>2, <3>3, <3>4 DEF Opened
<1>11. NoFalseAlarm'
  BY <1>2 DEF NoFalseAlarm
<1> QED
  BY <1>2, <1>9, <1>10, <1>11, StoredUnchanged

LEMMA FinalRecordInv == ASSUME Inv, enc = "ok", FinalRecord PROVE Inv'
<1> USE DEF Inv
<1>1. /\ pos + 1 \in 1..Len(wire) /\ pos + 1 \in 1..Len(sent) /\ wire[pos + 1] = sent[pos + 1]
      /\ header = "intact" /\ ~finalized /\ sent[pos + 1].typ = FinalType
  BY AcceptedIsNext DEF FinalRecord
<1>2. /\ dec = "records" /\ finalized' = TRUE /\ pos' = pos + 1 /\ expected' = expected + 1
      /\ UNCHANGED <<encVars, stored, dec, gotPlain, gotCipher, out, interrupted>>
  BY DEF FinalRecord
<1>3. /\ index \in Nat /\ pos \in Nat /\ pos = expected
      /\ out = Bytes(0, Boundary(length, pos))
  BY <1>1 DEF TypeOK, Opened
<1>4. pos = index
  <2>1. pos + 1 <= index => sent[pos + 1].typ = Data
    BY <1>1, SentFacts
  <2>2. pos + 1 > index => pos + 1 = index + 1
    BY <1>1, SentFacts
  <2> QED
    BY <1>1, <1>3, <2>1, <2>2 DEF Data, FinalType
<1>5. out = Bytes(0, length)
  BY <1>3, <1>4 DEF Written
<1>6. TypeOK'
  BY <1>2, <1>3 DEF TypeOK, encVars, stored
<1>7. Opened'
  <2>1. \A i \in 1..(pos + 1) : wire[i] = sent[i]
    <3>1. \A i \in 1..pos : wire[i] = sent[i]
      BY DEF Opened
    <3>2. \A i \in 1..(pos + 1) : i \in 1..pos \/ i = pos + 1
      BY <1>3
    <3> QED
      BY <1>1, <3>1, <3>2
  <2> QED
    BY <1>1, <1>2, <1>3, <1>4, <1>5, <2>1 DEF Opened, encVars, stored
<1>8. NoFalseAlarm'
  BY <1>2 DEF NoFalseAlarm
<1> QED
  BY <1>2, <1>6, <1>7, <1>8, StoredUnchanged

\* Every next record of an intact stream is acceptable and fits.
LEMMA IntactIsAccepted ==
    ASSUME Inv, enc = "ok", wire = sent, header = "intact", ~ReadsEOF
    PROVE  Acceptable(NextRecord) /\ Fits(NextRecord)
<1> USE DEF Inv
<1> DEFINE r == wire[pos + 1]
<1>1. /\ length \in Nat /\ index \in Nat /\ pos \in Nat /\ pos = expected /\ pos <= Len(wire)
      /\ pos # Len(wire) /\ Len(wire) = index + 1 /\ Len(sent) = index + 1 /\ wire \in Seq(Records)
  BY DEF TypeOK, Opened, ReadsEOF, AtEnd, Written
<1>2. pos + 1 \in 1..Len(sent) /\ pos <= index
  BY <1>1
<1>3. ~finalized
  BY <1>1, <1>2 DEF Opened
<1>4. gotPlain = Boundary(length, pos) /\ gotCipher = CipherSize(length, pos)
  BY <1>3 DEF Opened
<1>5. /\ r.index = (pos + 1) - 1 /\ r.shape = "whole" /\ r.body.key = "payload"
      /\ r.body.nonce = (pos + 1) - 1 /\ r.body.index = (pos + 1) - 1 /\ r.typ = r.body.typ
      /\ pos + 1 <= index => r = DataAt(length, (pos + 1) - 1) /\ r.typ = Data
      /\ pos + 1 > index => r = FinalAt(length, index) /\ r.typ = FinalType
  BY <1>2, SentFacts
<1>6. (pos + 1) - 1 = pos
  BY <1>1
<1>7. Acceptable(r)
  BY <1>1, <1>3, <1>5, <1>6 DEF Acceptable, Opens
<1>8. Fits(r)
  <2>1. CASE pos + 1 <= index
    <3>1. r.body.plain = Bytes(Boundary(length, pos), Boundary(length, pos + 1) - Boundary(length, pos))
      <4>1. r = DataAt(length, pos)
        BY <1>5, <1>6, <2>1
      <4>2. DataAt(length, pos).body.plain
              = Bytes(Boundary(length, pos), Boundary(length, pos + 1) - Boundary(length, pos))
        BY <1>1, BodyFacts
      <4> QED
        BY <4>1, <4>2
    <3>2. /\ Boundary(length, pos) \in Nat /\ Boundary(length, pos) <= length
          /\ Boundary(length, pos + 1) = Boundary(length, pos) + LeastOf(RecordSize, length - Boundary(length, pos))
      BY <1>1, BoundaryFacts, ZenonT(30)
    <3>3. length - Boundary(length, pos) \in Nat
      BY <1>1, <3>2
    <3>4. LeastOf(RecordSize, length - Boundary(length, pos)) \in Nat
          /\ LeastOf(RecordSize, length - Boundary(length, pos)) <= RecordSize
      BY <3>3, LeastOfFacts
    <3>5. Boundary(length, pos + 1) - Boundary(length, pos) \in Nat
          /\ Boundary(length, pos + 1) - Boundary(length, pos) <= RecordSize
      BY <3>2, <3>4
    <3>6. Len(r.body.plain) <= RecordSize
      <4> DEFINE m == Boundary(length, pos + 1) - Boundary(length, pos)
      <4>1. m \in Nat /\ m <= RecordSize
        BY <3>5
      <4>2. r.body.plain = Bytes(Boundary(length, pos), m)
        BY <3>1
      <4> HIDE DEF m
      <4>3. Len(Bytes(Boundary(length, pos), m)) = m
        BY <3>2, <4>1, BytesIsSeq
      <4> QED
        BY <4>1, <4>2, <4>3
    <3> QED
      BY <1>5, <2>1, <3>6 DEF Fits
  <2>2. CASE pos + 1 > index
    <3>1. pos = index
      BY <1>1, <1>2, <2>2
    <3>2. r.body.commit = <<index, Boundary(length, index), CipherSize(length, index)>>
      <4>1. r = FinalAt(length, index)
        BY <1>5, <2>2
      <4>2. FinalAt(length, index).body.commit = <<index, Boundary(length, index), CipherSize(length, index)>>
        BY <1>1, BodyFacts
      <4> QED
        BY <4>1, <4>2
    <3> QED
      BY <1>4, <1>5, <1>6, <2>2, <3>1, <3>2 DEF Fits, Data, FinalType
  <2> QED
    BY <1>1, <2>1, <2>2
<1> QED
  BY <1>7, <1>8 DEF NextRecord

LEMMA VerdictInv ==
    ASSUME Inv, enc = "ok",
           \/ DecryptHeader \/ EndOfRecords \/ RejectRecord \/ DecryptMetadata \/ DecryptInterrupted
    PROVE  Inv'
<1> USE DEF Inv, Stop
<1>1. /\ UNCHANGED <<encVars, stored, decLocals>>
      /\ dec' \in {"records", "metadata", "ok", "err"}
  BY DEF DecryptHeader, EndOfRecords, RejectRecord, DecryptMetadata, DecryptInterrupted, TypeOK
<1>2. interrupted' \in BOOLEAN
  BY DEF DecryptHeader, EndOfRecords, RejectRecord, DecryptMetadata, DecryptInterrupted, TypeOK
<1>3. TypeOK'
  BY <1>1, <1>2 DEF TypeOK, encVars, stored, decLocals
<1>4. /\ dec' = "metadata" => finalized
      /\ dec' = "ok" => finalized /\ metadata = "intact" /\ header = "intact"
  BY DEF DecryptHeader, EndOfRecords, RejectRecord, DecryptMetadata, DecryptInterrupted, Opened
<1>5. Opened'
  BY <1>1, <1>4 DEF Opened, encVars, stored, decLocals
<1>6. ASSUME dec' = "err", ~interrupted', header = "intact", metadata = "intact"
      PROVE  wire # sent
  <2>1. CASE EndOfRecords
    <3>1. ReadsEOF /\ ~finalized
      BY <1>6, <2>1 DEF EndOfRecords
    <3>2. pos <= index /\ Len(sent) = index + 1 /\ pos \in Nat /\ index \in Nat /\ pos <= Len(wire)
      BY <3>1 DEF Opened, Written, TypeOK
    <3>3. ASSUME wire = sent PROVE FALSE
      <4>1. pos + 1 \in 1..Len(sent)
        BY <3>2
      <4>2. NextRecord.shape = "whole"
        BY <3>3, <4>1, SentFacts DEF NextRecord
      <4> QED
        BY <3>1, <3>2, <3>3, <4>2 DEF ReadsEOF, AtEnd
    <3> QED
      BY <3>3
  <2>2. CASE RejectRecord
    BY <1>6, <2>2, IntactIsAccepted DEF RejectRecord
  <2>3. CASE DecryptHeader \/ DecryptMetadata \/ DecryptInterrupted
    BY <1>6, <2>3 DEF DecryptHeader, DecryptMetadata, DecryptInterrupted
  <2> QED
    BY <2>1, <2>2, <2>3
<1>7. NoFalseAlarm'
  BY <1>1, <1>6 DEF NoFalseAlarm, encVars, stored, TypeOK
<1> QED
  BY <1>1, <1>3, <1>5, <1>7, StoredUnchanged

LEMMA NextInv == Inv /\ [Next]_vars => Inv'
<1> SUFFICES ASSUME Inv, [Next]_vars PROVE Inv'
  OBVIOUS
<1>1. CASE Decrypting
  <2>1. enc = "ok"
    BY <1>1 DEF Inv, Written, Decrypting, DecryptHeader, EndOfRecords, DataRecord, FinalRecord,
         RejectRecord, DecryptMetadata, DecryptInterrupted
  <2> QED
    BY <1>1, <2>1, DataRecordInv, FinalRecordInv, VerdictInv DEF Decrypting
<1>2. CASE Finished \/ UNCHANGED vars
  <2>1. UNCHANGED <<encVars, stored, decLocals, dec, interrupted>>
    BY <1>2 DEF Finished, vars
  <2>2. TypeOK'
    BY <2>1 DEF Inv, TypeOK, encVars, stored, decLocals
  <2>3. Written' /\ Genuine'
    BY <2>1 DEF Inv, Written, Genuine, encVars, stored
  <2>4. Opened' /\ NoFalseAlarm'
    BY <2>1 DEF Inv, Opened, NoFalseAlarm, encVars, stored, decLocals
  <2> QED
    BY <2>2, <2>3, <2>4 DEF Inv
<1> QED
  BY <1>1, <1>2, EncryptInv, DamageInv DEF Next

LEMMA SpecInv == Spec => []Inv
  BY InitInv, NextInv, PTL DEF Spec

-----------------------------------------------------------------------------
\* Every variable keeps its type, whatever is written, damaged and read.
THEOREM TypeCorrect == Spec => []TypeOK
  BY SpecInv, PTL DEF Inv

\* No nonce is used twice under a payload key: neither by two data records nor
\* by a data record and the final one.
THEOREM NoncesAreUnique == Spec => []NoncesUnique
<1>1. Inv => NoncesUnique
  <2> SUFFICES ASSUME Inv, NEW i \in 1..Len(sent), NEW j \in 1..Len(sent),
                      sent[i].body.nonce = sent[j].body.nonce
               PROVE  i = j
    BY DEF Inv, TypeOK, NoncesUnique
  <2> QED
    BY SentFacts DEF Inv
<1> QED
  BY SpecInv, <1>1, PTL

\* Whatever the damage, Decrypt writes nothing but a prefix of the plaintext,
\* accepts only the whole original, and accepts it whenever it is undamaged.
THEOREM DecryptionExact == Spec => []DecryptionIsExact
<1>1. ASSUME Inv PROVE OutputIsPrefix
  <2>1. length \in Nat
    BY <1>1 DEF Inv, TypeOK
  <2>2. PICK n \in Nat : n <= length /\ out = Bytes(0, n)
    <3>1. CASE finalized
      BY <1>1, <2>1, <3>1 DEF Inv, Opened
    <3>2. CASE ~finalized
      BY <1>1, <2>1, <3>2, BoundaryFacts DEF Inv, Opened, TypeOK
    <3> QED
      BY <3>1, <3>2
  <2> QED
    BY <2>1, <2>2, BytesPrefix DEF OutputIsPrefix, Plaintext
<1>2. ASSUME Inv PROVE AcceptedIsOriginal
  <2> SUFFICES ASSUME dec = "ok" PROVE /\ out = Plaintext
                                       /\ IsPrefix(sent, wire)
                                       /\ header = "intact" /\ metadata = "intact"
    BY DEF AcceptedIsOriginal
  <2>1. /\ finalized /\ metadata = "intact" /\ header = "intact" /\ out = Plaintext
        /\ pos = index + 1 /\ enc = "ok"
    BY <1>2 DEF Inv, Opened, Plaintext
  <2>2. Len(sent) = pos /\ pos <= Len(wire) /\ \A i \in 1..Len(sent) : sent[i] = wire[i]
    BY <1>2, <2>1 DEF Inv, Opened, Written
  <2>3. wire \in Seq(Records) /\ sent \in Seq(Records)
    BY <1>2 DEF Inv, TypeOK
  <2> QED
    BY <2>1, <2>2, <2>3, PrefixOfEqual
<1>3. Inv => DecryptionIsExact
  BY <1>1, <1>2 DEF Inv, DecryptionIsExact
<1> QED
  BY SpecInv, <1>3, PTL
=============================================================================
