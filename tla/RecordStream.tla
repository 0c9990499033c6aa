---------------------------- MODULE RecordStream ----------------------------
(***************************************************************************)
(* The payload of a container: container.Encrypt cuts the plaintext into   *)
(* records and closes the stream with a final record that commits to their *)
(* number and size; container.Decrypt writes each record's plaintext as it *)
(* is opened and accepts the stream only at its end.  Between the two, the *)
(* stored bytes may be damaged.                                            *)
(*                                                                         *)
(* AEAD is ideal: a ciphertext opens exactly under the key, nonce and      *)
(* additional data it was sealed with, otherwise Open fails.  Plaintext is *)
(* a sequence of byte positions, so that order and completeness show.      *)
(***************************************************************************)
EXTENDS Naturals, SequencesExt

CONSTANTS MaxLength,   \* bound: plaintext bytes
          RecordSize,  \* plaintext bytes of a full record
          Overhead,    \* bytes the AEAD adds to each record
          MaxDamage    \* bound: damages to one stored stream

ASSUME ConstantsAssumption ==
    /\ MaxLength \in Nat /\ MaxDamage \in Nat
    /\ RecordSize \in Nat \ {0} /\ Overhead \in Nat

VARIABLES
    length,                                   \* of the plaintext
    enc, index, totalPlain, totalCipher,      \* Encrypt
    wire,                                     \* the records as stored
    sent,                                     \* history: the records as written
    header, metadata, damages,                \* what happened to the rest of the file
    dec, pos, expected, finalized, gotPlain, gotCipher, out,   \* Decrypt
    interrupted                               \* history: cancellation or I/O error

encVars == <<length, enc, index, totalPlain, totalCipher, sent>>
stored == <<wire, header, metadata, damages>>
decLocals == <<pos, expected, finalized, gotPlain, gotCipher, out>>
vars == <<encVars, stored, dec, decLocals, interrupted>>

Data == 1
FinalType == 2
LeastOf(a, b) == IF a < b THEN a ELSE b

\* What Seal binds: key, nonce (from the index), type and index; the immutable
\* header is part of the additional data and is tracked by header.
Seal(typ, i, plain, commit) ==
    [key |-> "payload", nonce |-> i, typ |-> typ, index |-> i,
     plain |-> plain, commit |-> commit]

\* 13 bytes of record header (type, index, length) and the ciphertext.  whole:
\* all there; noBody: the header only; cut: fewer bytes; tooLong: the length
\* field is above the limit.
Record(typ, i, body) == [typ |-> typ, index |-> i, shape |-> "whole", body |-> body]

Bytes(from, n) == [k \in 1..n |-> from + k]

Init ==
    /\ length \in 0..MaxLength
    /\ enc = "running" /\ index = 0 /\ totalPlain = 0 /\ totalCipher = 0
    /\ wire = <<>> /\ sent = <<>>
    /\ header = "intact" /\ metadata = "intact" /\ damages = 0
    /\ dec = "idle" /\ pos = 0 /\ expected = 0 /\ finalized = FALSE
    /\ gotPlain = 0 /\ gotCipher = 0 /\ out = <<>>
    /\ interrupted = FALSE

-----------------------------------------------------------------------------
(* Faulty variants of the actions below, one bug each; the properties must  *)
(* reject a specification that has one in place of the action it varies.    *)

WriteRecord(r) == wire' = Append(wire, r) /\ sent' = Append(sent, r)

\* The index is not advanced after a short read.
EncryptKeepsIndex ==
    LET n == LeastOf(RecordSize, length - totalPlain) IN
    /\ enc = "running" /\ n > 0
    /\ WriteRecord(Record(Data, index, Seal(Data, index, Bytes(totalPlain, n), <<>>)))
    /\ index' = IF n = RecordSize THEN index + 1 ELSE index
    /\ totalPlain' = totalPlain + n
    /\ totalCipher' = totalCipher + n + Overhead
    /\ UNCHANGED <<length, enc, header, metadata, damages, dec, decLocals, interrupted>>

-----------------------------------------------------------------------------
(* Encrypt. *)

EncryptRecord ==
    LET n == LeastOf(RecordSize, length - totalPlain) IN
    /\ enc = "running" /\ n > 0
    /\ WriteRecord(Record(Data, index, Seal(Data, index, Bytes(totalPlain, n), <<>>)))
    /\ index' = index + 1
    /\ totalPlain' = totalPlain + n
    /\ totalCipher' = totalCipher + n + Overhead
    /\ UNCHANGED <<length, enc, header, metadata, damages, dec, decLocals, interrupted>>

EncryptFinal ==
    /\ enc = "running" /\ totalPlain = length
    /\ WriteRecord(Record(FinalType, index,
           Seal(FinalType, index, <<>>, <<index, totalPlain, totalCipher>>)))
    /\ enc' = "ok"
    /\ UNCHANGED <<length, index, totalPlain, totalCipher, header, metadata, damages,
                   dec, decLocals, interrupted>>

\* Cancellation, or an error reading the source or writing the output; the
\* caller discards the file.
EncryptFails ==
    /\ enc = "running"
    /\ enc' = "err"
    /\ interrupted' = TRUE
    /\ UNCHANGED <<length, index, totalPlain, totalCipher, sent, stored, dec, decLocals>>

-----------------------------------------------------------------------------
(* Damage to the stored file. *)

Uncut == \A i \in DOMAIN wire : wire[i].shape \in {"whole", "tooLong"}

Stored == 1..Len(wire)

Dropped == {RemoveAt(wire, i) : i \in Stored}
Doubled == {InsertAt(wire, i, wire[j]) : i \in 1..(Len(wire) + 1), j \in Stored}
Swapped == {[wire EXCEPT ![i] = wire[j], ![j] = wire[i]] : i \in Stored, j \in Stored}
Truncated == {SubSeq(wire, 1, i) : i \in 0..Len(wire)}
Torn == {Append(SubSeq(wire, 1, i - 1), [wire[i] EXCEPT !.shape = s]) :
            i \in Stored, s \in {"noBody", "cut"}}
Trailing == {Append(wire, [wire[i] EXCEPT !.shape = s]) : i \in Stored, s \in {"noBody", "cut"}}
Garbled == {[wire EXCEPT ![i].body.key = "garbage"] : i \in Stored}
Lengthened == {[wire EXCEPT ![i].shape = "tooLong"] : i \in Stored}
Retyped == {[wire EXCEPT ![i].typ = 3 - @] : i \in Stored}
Reindexed == {[wire EXCEPT ![i].index = j] : i \in Stored, j \in 0..index}

DamagedWires ==
    Dropped \cup Doubled \cup Swapped \cup Truncated \cup Torn \cup Trailing
        \cup Garbled \cup Lengthened \cup Retyped \cup Reindexed

Damage ==
    /\ enc = "ok" /\ dec = "idle"
    /\ damages < MaxDamage
    /\ damages' = damages + 1
    /\ \/ /\ Uncut
          /\ wire' \in DamagedWires
          /\ UNCHANGED <<header, metadata>>
       \/ header' = "changed" /\ UNCHANGED <<wire, metadata>>
       \/ metadata' = "changed" /\ UNCHANGED <<wire, header>>
    /\ UNCHANGED <<encVars, dec, decLocals, interrupted>>

-----------------------------------------------------------------------------
(* Decrypt. *)

Stop(verdict) == dec' = verdict /\ UNCHANGED <<encVars, stored, decLocals>>

\* readHeader and unwrapRecipients: a changed header may still be well formed.
DecryptHeader ==
    /\ enc = "ok" /\ dec = "idle"
    /\ \/ Stop("records")
       \/ header = "changed" /\ Stop("err")
    /\ UNCHANGED interrupted

AtEnd == pos = Len(wire)
NextRecord == wire[pos + 1]

\* readRecord returns io.EOF at the end of the stream, and also when the record
\* header is the last thing in it.
ReadsEOF == IF AtEnd THEN TRUE ELSE NextRecord.shape = "noBody"

Opens(r) ==
    /\ header = "intact"
    /\ r.body.key = "payload" /\ r.body.nonce = r.index
    /\ r.body.typ = r.typ /\ r.body.index = r.index

\* Faulty: any record that opens is taken, at any place.
AcceptableAnywhere(r) == r.shape = "whole" /\ ~finalized /\ Opens(r)

Acceptable(r) ==
    /\ r.shape = "whole"
    /\ ~finalized
    /\ r.index = expected
    /\ Opens(r)

\* What is checked of a record once it has been opened.
Fits(r) ==
    IF r.typ = Data THEN Len(r.body.plain) <= RecordSize
    ELSE r.body.commit = <<r.index, gotPlain, gotCipher>>

\* Faulty: the end of the stream is taken for the end of the archive.
EndWithoutFinal ==
    /\ dec = "records" /\ ReadsEOF
    /\ Stop("metadata")
    /\ UNCHANGED interrupted

EndOfRecords ==
    /\ dec = "records" /\ ReadsEOF
    /\ Stop(IF finalized THEN "metadata" ELSE "err")
    /\ UNCHANGED interrupted

\* Faulty: the ciphertext is counted without its tag.
DataRecordMiscounts ==
    /\ dec = "records" /\ ~ReadsEOF
    /\ LET r == NextRecord IN
          /\ Acceptable(r) /\ r.typ = Data /\ Fits(r)
          /\ out' = out \o r.body.plain
          /\ gotPlain' = gotPlain + Len(r.body.plain)
          /\ gotCipher' = gotCipher + Len(r.body.plain)
    /\ pos' = pos + 1 /\ expected' = expected + 1
    /\ UNCHANGED <<encVars, stored, dec, finalized, interrupted>>

DataRecord ==
    /\ dec = "records" /\ ~ReadsEOF
    /\ LET r == NextRecord IN
          /\ Acceptable(r) /\ r.typ = Data /\ Fits(r)
          /\ out' = out \o r.body.plain
          /\ gotPlain' = gotPlain + Len(r.body.plain)
          /\ gotCipher' = gotCipher + Len(r.body.plain) + Overhead
    /\ pos' = pos + 1 /\ expected' = expected + 1
    /\ UNCHANGED <<encVars, stored, dec, finalized, interrupted>>

FinalRecord ==
    /\ dec = "records" /\ ~ReadsEOF
    /\ Acceptable(NextRecord) /\ NextRecord.typ = FinalType /\ Fits(NextRecord)
    /\ finalized' = TRUE
    /\ pos' = pos + 1 /\ expected' = expected + 1
    /\ UNCHANGED <<encVars, stored, dec, gotPlain, gotCipher, out, interrupted>>

RejectRecord ==
    /\ dec = "records" /\ ~ReadsEOF
    /\ ~(Acceptable(NextRecord) /\ Fits(NextRecord))
    /\ Stop("err")
    /\ UNCHANGED interrupted

\* The metadata is sealed under the same immutable header.
DecryptMetadata ==
    /\ dec = "metadata"
    /\ Stop(IF metadata = "intact" /\ header = "intact" THEN "ok" ELSE "err")
    /\ UNCHANGED interrupted

\* Cancellation, seen between records, or an error reading or writing.
DecryptInterrupted ==
    /\ dec = "records"
    /\ Stop("err")
    /\ interrupted' = TRUE

Finished ==
    /\ enc = "err" \/ dec \in {"ok", "err"}
    /\ UNCHANGED vars

Encrypting == EncryptRecord \/ EncryptFinal \/ EncryptFails
Decrypting ==
    DecryptHeader \/ EndOfRecords \/ DataRecord \/ FinalRecord \/ RejectRecord
        \/ DecryptMetadata \/ DecryptInterrupted

Next == Encrypting \/ Damage \/ Decrypting \/ Finished

Spec == Init /\ [][Next]_vars

-----------------------------------------------------------------------------
(* Properties. *)

Plaintext == Bytes(0, length)

\* Decrypt streams to its writer before the final record is seen; whatever the
\* damage, what it has written is a prefix of the plaintext, so a caller that
\* discards it on error never has seen foreign or reordered bytes
\* (container.go:276, README "replay, reordering, duplication").
OutputIsPrefix == IsPrefix(out, Plaintext)

\* An accepted stream is complete: every record that was written is there, in
\* order, the header and metadata are the original ones and the output is the
\* whole plaintext (container.go:252-287, README "rejecting truncation").
AcceptedIsOriginal ==
    dec = "ok" =>
        /\ out = Plaintext
        /\ IsPrefix(sent, wire)
        /\ header = "intact" /\ metadata = "intact"

\* No nonce is used twice under the payload key, the final record's included
\* (container.go:190 and 212, README "unique monotonic nonce").
NoncesUnique ==
    \A i, j \in DOMAIN sent : sent[i].body.nonce = sent[j].body.nonce => i = j

\* An archive that was not damaged is not rejected: every record boundary,
\* empty input and exact multiples of the record size included, closes
\* consistently for both sides.
NoFalseAlarm ==
    dec = "err" => interrupted \/ wire # sent \/ header = "changed" \/ metadata = "changed"

\* Decryption is exact: it gives the original and nothing else, and gives it
\* whenever the stream is as it was written.
DecryptionIsExact == OutputIsPrefix /\ AcceptedIsOriginal /\ NoFalseAlarm
=============================================================================
