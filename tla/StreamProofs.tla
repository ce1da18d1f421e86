---------------------------- MODULE StreamProofs ----------------------------
(***************************************************************************)
(* Proofs about the buffer between a writer and a reader of structures:    *)
(* whatever is written, put back, patched, read and skipped, the unread    *)
(* bytes stay those of the structures not yet read, and each is decoded    *)
(* with the fields it was encoded with.                                    *)
(***************************************************************************)
EXTENDS CodecStream, CodecProofs

(***************************************************************************)
(* A buffer between a writer and a reader of structures. What a structure  *)
(* is encoded in, for each kind.                                           *)
(***************************************************************************)
LEMMA IntegerWritten ==
    ASSUME NEW w
    PROVE  /\ write1Byte(NoBytes, w).data = BytesOf(w, 1)
           /\ write2Bytes(NoBytes, w).data = BytesOf(w, 2)
           /\ write3Bytes(NoBytes, w).data = BytesOf(w, 3)
           /\ write4Bytes(NoBytes, w).data = BytesOf(w, 4)
           /\ write8Bytes(NoBytes, w).data = BytesOf(w, 8)
<1>1. ASSUME NEW n \in Nat PROVE append(NoBytes, BytesOf(w, n)).data = BytesOf(w, n)
  <2>1. BytesOf(w, n) \in Seq(SUBSET Int)
    BY IntegerAre DEF Are
  <2>2. append(NoBytes, BytesOf(w, n)).data = <<>> \o BytesOf(w, n)
    BY DEF append, NoBytes
  <2> QED BY <2>1, <2>2
<1> QED BY <1>1 DEF write1Byte, write2Bytes, write3Bytes, write4Bytes, write8Bytes

LEMMA EncodedIntegers ==
    ASSUME NEW x
    PROVE  /\ x.kind = "w1" => Encoded(x) = BytesOf(x.val, 1)
           /\ x.kind = "w2" => Encoded(x) = BytesOf(x.val, 2)
           /\ x.kind = "w3" => Encoded(x) = BytesOf(x.val, 3)
           /\ x.kind = "w4" => Encoded(x) = BytesOf(x.val, 4)
           /\ x.kind = "w8" => Encoded(x) = BytesOf(x.val, 8)
<1>1. x.kind = "w1" => Encoded(x) = write1Byte(NoBytes, x.val).data
  BY DEF Encoded
<1>2. x.kind = "w2" => Encoded(x) = write2Bytes(NoBytes, x.val).data
  BY DEF Encoded
<1>3. x.kind = "w3" => Encoded(x) = write3Bytes(NoBytes, x.val).data
  BY DEF Encoded
<1>4. x.kind = "w4" => Encoded(x) = write4Bytes(NoBytes, x.val).data
  BY DEF Encoded
<1>5. x.kind = "w8" => Encoded(x) = write8Bytes(NoBytes, x.val).data
  BY DEF Encoded
<1> QED BY <1>1, <1>2, <1>3, <1>4, <1>5, IntegerWritten

LEMMA PmtAreOf ==
    ASSUME NEW h, WellFormedPmt(h)
    PROVE  /\ Len(h.mInfos) \in Nat
           /\ Are(PMTHeader_encode(h), 12 + 5 * Len(h.mInfos))
<1>1. h \in PMTHeader
  BY DEF WellFormedPmt
<1>2. h.mInfos \in Seq(ElementInfo)
  BY <1>1 DEF PMTHeader
<1>3. Are(PMTHeader_encode(h), 12 + 5 * Len(h.mInfos))
  BY <1>1, PmtAre
<1> QED BY <1>2, <1>3

LEMMA StructureWritten ==
    ASSUME NEW x, WellFormed(x)
    PROVE  Encoded(x) \in Bytes /\ Len(Encoded(x)) > 0
<1> SUFFICES \E n \in Nat \ {0} : Are(Encoded(x), n)
  BY DEF Are, Bytes
<1>1. CASE x.kind = "ts" /\ x.val \in TsHeader
  <2>1. Encoded(x) = TsHeader_encode(x.val)
    BY <1>1 DEF Encoded
  <2> QED BY <1>1, <2>1, TsHeaderAre
<1>2. CASE x.kind = "pat" /\ x.val \in SectionHead
  <2>1. Encoded(x) = SectionHead_encode(x.val, 12)
    BY <1>2 DEF Encoded, PATHeader_encode
  <2> QED BY <1>2, <2>1, SectionHeadAre
<1>3. CASE x.kind = "pmt" /\ WellFormedPmt(x.val)
  <2>1. Encoded(x) = PMTHeader_encode(x.val)
    BY <1>3 DEF Encoded
  <2>2. /\ Len(x.val.mInfos) \in Nat
        /\ Are(PMTHeader_encode(x.val), 12 + 5 * Len(x.val.mInfos))
    BY <1>3, PmtAreOf
  <2>3. 12 + 5 * Len(x.val.mInfos) \in Nat \ {0}
    BY <2>2
  <2> QED BY <2>1, <2>2, <2>3
<1>4. CASE x.kind = "af" /\ x.val \in AdaptationFieldHeader
  <2>1. Encoded(x) = AdaptationFieldHeader_encode(x.val)
    BY <1>4 DEF Encoded
  <2> QED BY <1>4, <2>1, AdaptationFieldAre
<1>5. CASE x.kind = "pes" /\ x.val \in PESHeader
  <2>1. Encoded(x) = PESHeader_encode(x.val)
    BY <1>5 DEF Encoded
  <2> QED BY <1>5, <2>1, PesHeaderAre
<1>6. CASE x.kind = "pts"
  <2>1. Encoded(x) = writePts({1}, x.val)
    BY <1>6 DEF Encoded
  <2> QED BY <2>1, TimestampAre
<1>7. CASE x.kind = "pcr"
  <2>1. Encoded(x) = writePcr(x.val)
    BY <1>7 DEF Encoded
  <2> QED BY <2>1, PcrAre
<1>8. CASE x.kind = "bytes" /\ x.val \in Seq(Byte) \ {<<>>}
  <2>1. Encoded(x) = x.val
    BY <1>8 DEF Encoded
  <2>2. x.val \in Seq(SUBSET Int)
    <3>1. \A i \in 1 .. Len(x.val) : x.val[i] \in SUBSET Int
      BY <1>8 DEF Byte, Word, Low
    <3> QED BY <1>8, <3>1
  <2>3. Len(x.val) \in Nat \ {0}
    BY <1>8
  <2> QED BY <2>1, <2>2, <2>3 DEF Are
<1>9. CASE x.kind \in {"w1", "w2", "w3", "w4", "w8"}
  BY <1>9, EncodedIntegers, IntegerAre
<1> QED BY <1>1, <1>2, <1>3, <1>4, <1>5, <1>6, <1>7, <1>8, <1>9 DEF WellFormed

(* The integers that are read.                                             *)
LEMMA IntegerRead ==
    ASSUME NEW d, NEW p \in Int, NEW w
    PROVE  /\ w \in Word(8) /\ Holds(d, p, BytesOf(w, 1))
               => WordAt(d, p, 1) = w /\ Len(BytesOf(w, 1)) = 1
           /\ w \in Word(16) /\ Holds(d, p, BytesOf(w, 2))
               => WordAt(d, p, 2) = w /\ Len(BytesOf(w, 2)) = 2
           /\ w \in Word(24) /\ Holds(d, p, BytesOf(w, 3))
               => WordAt(d, p, 3) = w /\ Len(BytesOf(w, 3)) = 3
           /\ w \in Word(32) /\ Holds(d, p, BytesOf(w, 4))
               => WordAt(d, p, 4) = w /\ Len(BytesOf(w, 4)) = 4
           /\ w \in Word(64) /\ Holds(d, p, BytesOf(w, 8))
               => WordAt(d, p, 8) = w /\ Len(BytesOf(w, 8)) = 8
<1>1. ASSUME NEW n \in Nat, NEW m, m = 8 * n, w \in Word(m), Holds(d, p, BytesOf(w, n))
      PROVE  WordAt(d, p, n) = w /\ Len(BytesOf(w, n)) = n
  <2>1. WordAt(d, p, n) = w
    BY <1>1, IntegerRoundTrip
  <2>2. Len(BytesOf(w, n)) = n
    BY IntegerAre DEF Are
  <2> QED BY <2>1, <2>2
<1>2. w \in Word(8) /\ Holds(d, p, BytesOf(w, 1))
           => WordAt(d, p, 1) = w /\ Len(BytesOf(w, 1)) = 1
  <2>1. 1 \in Nat /\ 8 = 8 * 1
    OBVIOUS
  <2> QED BY <1>1, <2>1, Zenon
<1>3. w \in Word(16) /\ Holds(d, p, BytesOf(w, 2))
           => WordAt(d, p, 2) = w /\ Len(BytesOf(w, 2)) = 2
  <2>1. 2 \in Nat /\ 16 = 8 * 2
    OBVIOUS
  <2> QED BY <1>1, <2>1, Zenon
<1>4. w \in Word(24) /\ Holds(d, p, BytesOf(w, 3))
           => WordAt(d, p, 3) = w /\ Len(BytesOf(w, 3)) = 3
  <2>1. 3 \in Nat /\ 24 = 8 * 3
    OBVIOUS
  <2> QED BY <1>1, <2>1, Zenon
<1>5. w \in Word(32) /\ Holds(d, p, BytesOf(w, 4))
           => WordAt(d, p, 4) = w /\ Len(BytesOf(w, 4)) = 4
  <2>1. 4 \in Nat /\ 32 = 8 * 4
    OBVIOUS
  <2> QED BY <1>1, <2>1, Zenon
<1>6. w \in Word(64) /\ Holds(d, p, BytesOf(w, 8))
           => WordAt(d, p, 8) = w /\ Len(BytesOf(w, 8)) = 8
  <2>1. 8 \in Nat /\ 64 = 8 * 8
    OBVIOUS
  <2> QED BY <1>1, <2>1, Zenon
<1> QED BY <1>2, <1>3, <1>4, <1>5, <1>6

(* The bytes that are read.                                                *)
LEMMA StringRead ==
    ASSUME NEW d \in Bytes, NEW p \in Nat, NEW e \in Bytes, Holds(d, p, e),
           p + Len(e) <= Len(d)
    PROVE  SubSeq(d, p + 1, p + Len(e)) = e
<1> DEFINE n == Len(e)
           t == SubSeq(d, p + 1, p + n)
<1>1. n \in Nat /\ e = [i \in 1 .. n |-> e[i]] /\ DOMAIN e = 1 .. n
  BY DEF Bytes
<1>2. t = [i \in 1 .. n |-> d[p + i]]
  BY <1>1 DEF Bytes
<1>3. \A i \in 1 .. n : d[p + i] = e[i]
  BY <1>1 DEF Holds
<1> QED BY <1>1, <1>2, <1>3

(***************************************************************************)
(* What is read where a structure lies: its fields, and as many bytes as   *)
(* it was written in.                                                      *)
(***************************************************************************)
LEMMA StructureRead ==
    ASSUME NEW x, WellFormed(x), sb.pos \in Nat, sb.data \in Bytes,
           sb.pos + Len(Encoded(x)) <= Len(sb.data),
           Holds(sb.data, sb.pos, Encoded(x))
    PROVE  Decoded(x) = Survives(x) /\ Moved(x) = Len(Encoded(x))
<1>0. sb.pos \in Int
  OBVIOUS
<1>1. CASE x.kind = "ts" /\ x.val \in TsHeader
  <2>1. /\ Encoded(x) = TsHeader_encode(x.val) /\ Moved(x) = 4
        /\ Decoded(x) = TsHeader_decode(sb.data, sb.pos)
        /\ Survives(x) = [x.val EXCEPT !.mTransportPriority = {}]
    BY <1>1 DEF Encoded, Moved, Decoded, Survives
  <2>2. Len(TsHeader_encode(x.val)) = 4
    BY <1>1, TsHeaderAre DEF Are
  <2>3. Holds(sb.data, sb.pos, TsHeader_encode(x.val)) /\ x.val \in TsHeader
    BY <1>1, <2>1
  <2>4. TsHeader_decode(sb.data, sb.pos) = [x.val EXCEPT !.mTransportPriority = {}]
    BY <1>0, <2>3, TsHeaderRoundTrip, Zenon
  <2> QED BY <2>1, <2>2, <2>4
<1>2. CASE x.kind = "pat" /\ x.val \in SectionHead
  <2>1. /\ Encoded(x) = SectionHead_encode(x.val, 12) /\ Moved(x) = 8
        /\ Decoded(x) = [SectionHead_decode(sb.data, sb.pos) EXCEPT !.mReserved0 = {}]
        /\ Survives(x) = [x.val EXCEPT !.mReserved0 = {}]
    BY <1>2 DEF Encoded, Moved, Decoded, Survives, PATHeader_encode, PATHeader_decode, PATHeaderBytes
  <2>2. Len(SectionHead_encode(x.val, 12)) = 8
    BY <1>2, SectionHeadAre DEF Are
  <2>3. SectionHead_decode(sb.data, sb.pos) = x.val
    BY <1>0, <1>2, <2>1, SectionHeadRoundTrip
  <2> QED BY <2>1, <2>2, <2>3
<1>3. CASE x.kind = "pmt" /\ WellFormedPmt(x.val)
  <2>1. /\ Encoded(x) = PMTHeader_encode(x.val)
        /\ Decoded(x) = PMTHeader_decode(sb.data, sb.pos)
        /\ Moved(x) = PMTHeader_size(Decoded(x))
        /\ Survives(x) = x.val
    BY <1>3 DEF Encoded, Moved, Decoded, Survives
  <2>2. /\ PMTHeader_decode(sb.data, sb.pos) = x.val
        /\ PMTHeader_size(x.val) = Len(PMTHeader_encode(x.val))
    BY <1>3, <2>1, PmtRoundTrip
  <2> QED BY <2>1, <2>2
<1>4. CASE x.kind = "af" /\ x.val \in AdaptationFieldHeader
  <2>1. /\ Encoded(x) = AdaptationFieldHeader_encode(x.val)
        /\ Decoded(x) = AdaptationFieldHeader_decode(sb.data, sb.pos)
        /\ Moved(x) = IF Decoded(x) = NoAdaptationField THEN 1 ELSE 2
        /\ Survives(x) = IF x.val.mAdaptationFieldLength = {} THEN NoAdaptationField ELSE x.val
    BY <1>4 DEF Encoded, Moved, Decoded, Survives
  <2>2. Len(Encoded(x)) = IF x.val.mAdaptationFieldLength = {} THEN 1 ELSE 2
    BY <1>4, <2>1, AdaptationFieldAre DEF Are
  <2>3. Decoded(x) = Survives(x)
    BY <1>0, <1>4, <2>1, AdaptationFieldRoundTrip
  <2>4. NoAdaptationField.mAdaptationFieldLength = {}
    BY DEF NoAdaptationField
  <2>5. Survives(x) = NoAdaptationField <=> x.val.mAdaptationFieldLength = {}
    BY <2>1, <2>4
  <2> QED BY <2>1, <2>2, <2>3, <2>5
<1>5. CASE x.kind = "pes" /\ x.val \in PESHeader
  <2>1. /\ Encoded(x) = PESHeader_encode(x.val) /\ Moved(x) = 9
        /\ Decoded(x) = PESHeader_decode(sb.data, sb.pos)
        /\ Survives(x) = x.val
    BY <1>5 DEF Encoded, Moved, Decoded, Survives
  <2>2. Len(PESHeader_encode(x.val)) = 9
    BY <1>5, PesHeaderAre DEF Are
  <2>3. PESHeader_decode(sb.data, sb.pos) = x.val
    BY <1>0, <1>5, <2>1, PesHeaderRoundTrip
  <2> QED BY <2>1, <2>2, <2>3
<1>6. CASE x.kind = "pts" /\ x.val \in Word(64)
  <2>1. /\ Encoded(x) = writePts({1}, x.val) /\ Moved(x) = 5
        /\ Decoded(x) = readPts(sb.data, sb.pos)
        /\ Survives(x) = x.val \cap Low(33)
    BY <1>6 DEF Encoded, Moved, Decoded, Survives
  <2>2. Len(writePts({1}, x.val)) = 5
    BY TimestampAre DEF Are
  <2>3. x.val \in SUBSET Int
    BY <1>6, WordInts
  <2>5. 1 \in 0 .. 4 - 1
    OBVIOUS
  <2>6. {1} \in Word(4)
    BY <2>5, Zenon DEF Word, Low
  <2>7. Holds(sb.data, sb.pos, writePts({1}, x.val))
    BY <2>1
  <2>4. readPts(sb.data, sb.pos) = x.val \cap Low(33)
    BY <1>0, <2>3, <2>6, <2>7, TimestampRoundTrip
  <2> QED BY <2>1, <2>2, <2>4
<1>7. CASE x.kind = "pcr" /\ x.val \in Word(64)
  <2>1. /\ Encoded(x) = writePcr(x.val) /\ Moved(x) = 6
        /\ Decoded(x) = readPcr(sb.data, sb.pos)
        /\ Survives(x) = x.val \cap Low(33)
    BY <1>7 DEF Encoded, Moved, Decoded, Survives
  <2>2. Len(writePcr(x.val)) = 6
    BY PcrAre DEF Are
  <2>3. x.val \in SUBSET Int
    BY <1>7, WordInts
  <2>5. Holds(sb.data, sb.pos, writePcr(x.val))
    BY <2>1
  <2>4. readPcr(sb.data, sb.pos) = x.val \cap Low(33)
    BY <1>0, <2>3, <2>5, PcrRoundTrip, Zenon
  <2> QED BY <2>1, <2>2, <2>4
<1>8. CASE x.kind = "bytes" /\ x.val \in Seq(Byte) \ {<<>>}
  <2>1. /\ Encoded(x) = x.val /\ Moved(x) = Len(x.val)
        /\ Decoded(x) = SubSeq(sb.data, sb.pos + 1, sb.pos + Len(x.val))
        /\ Survives(x) = x.val
    BY <1>8 DEF Encoded, Moved, Decoded, Survives, readString
  <2>2. x.val \in Seq(Byte) /\ x.val \in Seq(SUBSET Int)
    BY <1>8, <2>1, StructureWritten DEF Bytes
  <2>3. Holds(sb.data, sb.pos, x.val) /\ sb.pos + Len(x.val) <= Len(sb.data)
    BY <2>1
  <2>4. SubSeq(sb.data, sb.pos + 1, sb.pos + Len(x.val)) = x.val
    BY <2>2, <2>3, StringRead DEF Bytes
  <2> QED BY <2>1, <2>4
<1>9. CASE x.kind = "w1" /\ x.val \in Word(8)
  <2>1. /\ Encoded(x) = BytesOf(x.val, 1) /\ Moved(x) = 1
        /\ Decoded(x) = WordAt(sb.data, sb.pos, 1) /\ Survives(x) = x.val
    BY <1>9, EncodedIntegers DEF Moved, Decoded, Survives, read1Byte
  <2>2. Holds(sb.data, sb.pos, BytesOf(x.val, 1))
    BY <2>1
  <2>3. WordAt(sb.data, sb.pos, 1) = x.val /\ Len(BytesOf(x.val, 1)) = 1
    BY <1>0, <1>9, <2>2, IntegerRead
  <2> QED BY <2>1, <2>3
<1>10. CASE x.kind = "w2" /\ x.val \in Word(16)
  <2>1. /\ Encoded(x) = BytesOf(x.val, 2) /\ Moved(x) = 2
        /\ Decoded(x) = WordAt(sb.data, sb.pos, 2) /\ Survives(x) = x.val
    BY <1>10, EncodedIntegers DEF Moved, Decoded, Survives, read2Bytes
  <2>2. Holds(sb.data, sb.pos, BytesOf(x.val, 2))
    BY <2>1
  <2>3. WordAt(sb.data, sb.pos, 2) = x.val /\ Len(BytesOf(x.val, 2)) = 2
    BY <1>0, <1>10, <2>2, IntegerRead
  <2> QED BY <2>1, <2>3
<1>11. CASE x.kind = "w3" /\ x.val \in Word(24)
  <2>1. /\ Encoded(x) = BytesOf(x.val, 3) /\ Moved(x) = 3
        /\ Decoded(x) = WordAt(sb.data, sb.pos, 3) /\ Survives(x) = x.val
    BY <1>11, EncodedIntegers DEF Moved, Decoded, Survives, read3Bytes
  <2>2. Holds(sb.data, sb.pos, BytesOf(x.val, 3))
    BY <2>1
  <2>3. WordAt(sb.data, sb.pos, 3) = x.val /\ Len(BytesOf(x.val, 3)) = 3
    BY <1>0, <1>11, <2>2, IntegerRead
  <2> QED BY <2>1, <2>3
<1>12. CASE x.kind = "w4" /\ x.val \in Word(32)
  <2>1. /\ Encoded(x) = BytesOf(x.val, 4) /\ Moved(x) = 4
        /\ Decoded(x) = WordAt(sb.data, sb.pos, 4) /\ Survives(x) = x.val
    BY <1>12, EncodedIntegers DEF Moved, Decoded, Survives, read4Bytes
  <2>2. Holds(sb.data, sb.pos, BytesOf(x.val, 4))
    BY <2>1
  <2>3. WordAt(sb.data, sb.pos, 4) = x.val /\ Len(BytesOf(x.val, 4)) = 4
    BY <1>0, <1>12, <2>2, IntegerRead
  <2> QED BY <2>1, <2>3
<1>13. CASE x.kind = "w8" /\ x.val \in Word(64)
  <2>1. /\ Encoded(x) = BytesOf(x.val, 8) /\ Moved(x) = 8
        /\ Decoded(x) = WordAt(sb.data, sb.pos, 8) /\ Survives(x) = x.val
    BY <1>13, EncodedIntegers DEF Moved, Decoded, Survives, read8Bytes
  <2>2. Holds(sb.data, sb.pos, BytesOf(x.val, 8))
    BY <2>1
  <2>3. WordAt(sb.data, sb.pos, 8) = x.val /\ Len(BytesOf(x.val, 8)) = 8
    BY <1>0, <1>13, <2>2, IntegerRead
  <2> QED BY <2>1, <2>3
<1> QED BY <1>1, <1>2, <1>3, <1>4, <1>5, <1>6, <1>7, <1>8, <1>9, <1>10, <1>11, <1>12, <1>13
        DEF WellFormed
-----------------------------------------------------------------------------
(***************************************************************************)
(* The stream. What both sides rely on: the unread bytes are the           *)
(* structures not yet read, and the buffer is no longer than what was      *)
(* written since it was last cleared.                                      *)
(***************************************************************************)
Written(q) == [i \in DOMAIN q |-> Encoded(q[i])]
BufferInv ==
    /\ sb \in [data : Bytes, pos : Nat]
    /\ sb.pos <= Len(sb.data)
    /\ nWritten \in Nat /\ nWritten <= MaxWritten
    /\ Len(sb.data) <= nWritten * MaxBytes
PendingInv ==
    /\ pending \in Seq(Structures)
    /\ currentData(sb) = FlattenSeq(Written(pending))
StreamInv == BufferInv /\ PendingInv /\ DecodedRight

LEMMA StructuresAre ==
    ASSUME NEW x \in Structures
    PROVE  /\ WellFormed(x) /\ Encoded(x) \in Bytes
           /\ Len(Encoded(x)) \in Nat /\ 0 < Len(Encoded(x)) /\ Len(Encoded(x)) <= MaxBytes
<1>1. WellFormed(x) /\ Len(Encoded(x)) <= MaxBytes
  BY StructuresAssumption
<1>2. Encoded(x) \in Bytes /\ Len(Encoded(x)) > 0
  BY <1>1, StructureWritten
<1>3. Len(Encoded(x)) \in Nat
  BY <1>2 DEF Bytes
<1> QED BY <1>1, <1>2, <1>3

LEMMA WrittenBytes ==
    ASSUME NEW q \in Seq(Structures)
    PROVE  Written(q) \in Seq(Bytes) /\ Len(Written(q)) = Len(q) /\ FlattenSeq(Written(q)) \in Bytes
<1>1. Len(q) \in Nat /\ DOMAIN q = 1 .. Len(q) /\ \A i \in 1 .. Len(q) : q[i] \in Structures
  OBVIOUS
<1>2. \A i \in 1 .. Len(q) : Encoded(q[i]) \in Bytes
  BY <1>1, StructuresAre
<1>3. Written(q) = [i \in 1 .. Len(q) |-> Encoded(q[i])]
  BY <1>1, Zenon DEF Written
<1>4. Written(q) \in Seq(Bytes) /\ Len(Written(q)) = Len(q)
  BY <1>1, <1>2, <1>3
<1> QED BY <1>4, FlattenBytes

LEMMA WrittenAppend ==
    ASSUME NEW q \in Seq(Structures), NEW x \in Structures
    PROVE  /\ Append(q, x) \in Seq(Structures)
           /\ FlattenSeq(Written(Append(q, x))) = FlattenSeq(Written(q)) \o Encoded(x)
<1> DEFINE t == Append(q, x)
<1>1. /\ Len(q) \in Nat /\ DOMAIN q = 1 .. Len(q)
      /\ t \in Seq(Structures) /\ Len(t) = Len(q) + 1 /\ DOMAIN t = 1 .. Len(q) + 1
      /\ \A i \in 1 .. Len(q) + 1 : t[i] = IF i <= Len(q) THEN q[i] ELSE x
  OBVIOUS
<1>2. Written(q) \in Seq(Bytes) /\ Len(Written(q)) = Len(q) /\ Encoded(x) \in Bytes
  BY WrittenBytes, StructuresAre
<1>3. Written(t) \in Seq(Bytes) /\ Len(Written(t)) = Len(q) + 1
  BY <1>1, WrittenBytes
<1>4. /\ \A i \in 1 .. Len(q) : Written(q)[i] = Encoded(q[i])
      /\ \A i \in 1 .. Len(q) + 1 : Written(t)[i] = Encoded(t[i])
  BY <1>1 DEF Written
<1> HIDE DEF t
<1>5. \A i \in 1 .. Len(q) + 1 : Written(t)[i] = IF i <= Len(q) THEN Written(q)[i] ELSE Encoded(x)
  BY <1>1, <1>4
<1>6. Written(t) = Append(Written(q), Encoded(x))
  BY <1>1, <1>2, <1>3, <1>5
<1>7. FlattenSeq(Append(Written(q), Encoded(x))) = FlattenSeq(Written(q)) \o Encoded(x)
  BY <1>2, FlattenAppend
<1> QED BY <1>1, <1>6, <1>7 DEF t

LEMMA SameSequence ==
    ASSUME NEW S, NEW a \in Seq(S), NEW b \in Seq(S), Len(a) = Len(b),
           \A i \in 1 .. Len(a) : a[i] = b[i]
    PROVE  a = b
OBVIOUS

LEMMA WrittenCons ==
    ASSUME NEW q \in Seq(Structures), NEW x \in Structures
    PROVE  /\ <<x>> \o q \in Seq(Structures) /\ <<x>> \o q # <<>>
           /\ FlattenSeq(Written(<<x>> \o q)) = Encoded(x) \o FlattenSeq(Written(q))
<1> DEFINE t == <<x>> \o q
           e == <<Encoded(x)>>
<1>1. /\ Len(q) \in Nat /\ DOMAIN q = 1 .. Len(q)
      /\ t \in Seq(Structures) /\ Len(t) = Len(q) + 1 /\ DOMAIN t = 1 .. Len(q) + 1
      /\ \A i \in 1 .. Len(q) + 1 : t[i] = IF i = 1 THEN x ELSE q[i - 1]
  OBVIOUS
<1>2. Written(q) \in Seq(Bytes) /\ Len(Written(q)) = Len(q) /\ Encoded(x) \in Bytes
  BY WrittenBytes, StructuresAre
<1>3. Written(t) \in Seq(Bytes) /\ Len(Written(t)) = Len(q) + 1
  BY <1>1, WrittenBytes
<1>4. /\ \A i \in 1 .. Len(q) : Written(q)[i] = Encoded(q[i])
      /\ \A i \in 1 .. Len(q) + 1 : Written(t)[i] = Encoded(t[i])
  BY <1>1 DEF Written
<1>5. t # <<>>
  BY <1>1
<1> HIDE DEF t
<1>6. \A i \in 1 .. Len(q) + 1 : Written(t)[i] = IF i = 1 THEN Encoded(x) ELSE Written(q)[i - 1]
  BY <1>1, <1>4
<1>7. /\ e \o Written(q) \in Seq(Bytes) /\ Len(e \o Written(q)) = Len(q) + 1
      /\ \A i \in 1 .. Len(q) + 1 : (e \o Written(q))[i] = IF i = 1 THEN Encoded(x) ELSE Written(q)[i - 1]
  BY <1>1, <1>2
<1> HIDE DEF e
<1>8. Written(t) = e \o Written(q)
  <2>1. /\ Len(Written(t)) = Len(e \o Written(q))
        /\ \A i \in 1 .. Len(Written(t)) : Written(t)[i] = (e \o Written(q))[i]
    BY <1>3, <1>6, <1>7
  <2> QED BY <1>3, <1>7, <2>1, SameSequence
<1>9. FlattenSeq(<<Encoded(x)>> \o Written(q)) = Encoded(x) \o FlattenSeq(Written(q))
  BY <1>2, FlattenCons
<1> QED BY <1>1, <1>5, <1>8, <1>9 DEF t, e

LEMMA FirstAndRest ==
    ASSUME NEW q \in Seq(Structures), q # <<>>
    PROVE  /\ Head(q) \in Structures /\ Tail(q) \in Seq(Structures)
           /\ FlattenSeq(Written(q)) = Encoded(Head(q)) \o FlattenSeq(Written(Tail(q)))
<1>1. Head(q) \in Structures /\ Tail(q) \in Seq(Structures) /\ q = <<Head(q)>> \o Tail(q)
  OBVIOUS
<1> QED BY <1>1, WrittenCons

(* What a buffer whose unread bytes start with those of a structure holds.  *)
LEMMA Unread ==
    ASSUME BufferInv, NEW a \in Bytes, NEW r \in Bytes, currentData(sb) = a \o r
    PROVE  /\ sb.pos \in Nat /\ sb.pos + Len(a) \in Nat
           /\ Len(sb.data) = sb.pos + Len(a) + Len(r)
           /\ sb.pos + Len(a) <= Len(sb.data) /\ Holds(sb.data, sb.pos, a)
           /\ SubSeq(sb.data, sb.pos + Len(a) + 1, Len(sb.data)) = r
<1> DEFINE d == sb.data
           p == sb.pos
           u == SubSeq(d, p + 1, Len(d))
<1>0. d \in Bytes /\ p \in Nat /\ p <= Len(d) /\ u = a \o r
  BY DEF BufferInv, currentData, size
<1> HIDE DEF d, p
<1>1. Len(d) \in Nat /\ Len(a) \in Nat /\ Len(r) \in Nat /\ DOMAIN a = 1 .. Len(a)
  BY <1>0 DEF Bytes
<1>2. Len(u) = Len(d) - p /\ \A i \in 1 .. Len(d) - p : u[i] = d[p + i]
  BY <1>0, <1>1 DEF Bytes
<1>3. /\ Len(a \o r) = Len(a) + Len(r)
      /\ \A i \in 1 .. Len(a) : (a \o r)[i] = a[i]
      /\ \A i \in 1 .. Len(r) : (a \o r)[Len(a) + i] = r[i]
  BY <1>1 DEF Bytes
<1> HIDE DEF u
<1>5. /\ Len(d) = p + Len(a) + Len(r)
      /\ \A i \in 1 .. Len(a) : d[p + i] = a[i]
      /\ \A i \in 1 .. Len(r) : d[p + (Len(a) + i)] = r[i]
  <2>0. Len(u) = Len(a) + Len(r)
    BY <1>3, <1>0
  <2>1. Len(d) - p = Len(a) + Len(r) /\ Len(d) = p + Len(a) + Len(r)
    BY <1>0, <1>1, <1>2, <2>0
  <2>2. \A i \in 1 .. Len(a) : i \in 1 .. Len(d) - p
    BY <1>1, <2>1
  <2>3. \A i \in 1 .. Len(r) : Len(a) + i \in 1 .. Len(d) - p
    BY <1>1, <2>1
  <2>4. \A i \in 1 .. Len(a) : d[p + i] = a[i]
    BY <1>2, <1>3, <1>0, <2>2
  <2>5. \A i \in 1 .. Len(r) : d[p + (Len(a) + i)] = r[i]
    BY <1>2, <1>3, <1>0, <2>3
  <2> QED BY <2>1, <2>4, <2>5
<1>6. Holds(d, p, a)
  BY <1>1, <1>5 DEF Holds
<1>7. SubSeq(d, p + Len(a) + 1, Len(d)) = r
  <2>1. r = [i \in 1 .. Len(r) |-> r[i]]
    BY DEF Bytes
  <2>2. SubSeq(d, p + Len(a) + 1, Len(d)) = [i \in 1 .. Len(r) |-> d[p + Len(a) + i]]
    BY <1>0, <1>1, <1>5 DEF Bytes
  <2>3. \A i \in 1 .. Len(r) : d[p + Len(a) + i] = r[i]
    BY <1>0, <1>1, <1>5
  <2> QED BY <2>1, <2>2, <2>3
<1>8. p + Len(a) \in Nat /\ p + Len(a) <= Len(d)
  BY <1>0, <1>1, <1>5
<1>9. Len(d) = p + Len(a) + Len(r) /\ p \in Nat
  BY <1>0, <1>5
<1> QED BY <1>6, <1>7, <1>8, <1>9, Zenon DEF d, p

LEMMA NextUnread ==
    ASSUME BufferInv, PendingInv, pending # <<>>, NEW x, x = Head(pending),
           NEW r, r = FlattenSeq(Written(Tail(pending)))
    PROVE  /\ x \in Structures /\ Tail(pending) \in Seq(Structures) /\ r \in Bytes
           /\ sb.pos \in Nat /\ sb.pos + Len(Encoded(x)) \in Nat
           /\ Len(sb.data) = sb.pos + Len(Encoded(x)) + Len(r)
           /\ sb.pos + Len(Encoded(x)) <= Len(sb.data) /\ Holds(sb.data, sb.pos, Encoded(x))
           /\ SubSeq(sb.data, sb.pos + Len(Encoded(x)) + 1, Len(sb.data)) = r
<1>1. /\ x \in Structures /\ Tail(pending) \in Seq(Structures)
      /\ FlattenSeq(Written(pending)) = Encoded(x) \o r
  BY FirstAndRest DEF PendingInv
<1>2. r \in Bytes /\ Encoded(x) \in Bytes
  BY <1>1, WrittenBytes, StructuresAre
<1>3. currentData(sb) = Encoded(x) \o r
  BY <1>1 DEF PendingInv
<1> QED BY <1>1, <1>2, <1>3, Unread

LEMMA Decodes ==
    ASSUME BufferInv, PendingInv, pending # <<>>
    PROVE  /\ Decoded(Head(pending)) = Survives(Head(pending))
           /\ Moved(Head(pending)) = Len(Encoded(Head(pending)))
<1> DEFINE x == Head(pending)
<1>1. /\ x \in Structures /\ sb.pos \in Nat
      /\ sb.pos + Len(Encoded(x)) <= Len(sb.data) /\ Holds(sb.data, sb.pos, Encoded(x))
  BY NextUnread
<1>2. sb.data \in Bytes
  BY DEF BufferInv
<1>3. WellFormed(x)
  BY <1>1, StructuresAre
<1> HIDE DEF x
<1>4. Decoded(x) = Survives(x) /\ Moved(x) = Len(Encoded(x))
  BY <1>1, <1>2, <1>3, StructureRead
<1> QED BY <1>4 DEF x
-----------------------------------------------------------------------------
(* The bound on the bytes written, a structure more.                       *)
LEMMA OneMore ==
    ASSUME NEW n \in Nat, NEW m \in Nat, NEW b \in Nat, n < m
    PROVE  (n + 1) * b = n * b + b /\ (n + 1) * b <= m * b /\ (n + 1) * b \in Nat
OBVIOUS

LEMMA NoLonger ==
    ASSUME NEW n \in Nat, NEW m \in Nat, NEW b \in Nat, n <= m
    PROVE  n * b <= m * b /\ n * b \in Nat
OBVIOUS

(* Bytes one after the other.                                              *)
LEMMA ConcatBytes ==
    ASSUME NEW u \in Bytes, NEW e \in Bytes
    PROVE  /\ u \o e \in Bytes /\ Len(u \o e) = Len(u) + Len(e)
           /\ \A i \in 1 .. Len(u) + Len(e) :
                 (u \o e)[i] = IF i <= Len(u) THEN u[i] ELSE e[i - Len(u)]
BY DEF Bytes

(* The unread bytes, when bytes are appended.                              *)
LEMMA UnreadAppend ==
    ASSUME NEW d \in Bytes, NEW e \in Bytes, NEW p \in Nat, p <= Len(d)
    PROVE  /\ d \o e \in Bytes /\ Len(d \o e) = Len(d) + Len(e) /\ Len(d) \in Nat
           /\ SubSeq(d \o e, p + 1, Len(d \o e)) = SubSeq(d, p + 1, Len(d)) \o e
<1> DEFINE c == d \o e
           u == SubSeq(d, p + 1, Len(d))
           a == SubSeq(c, p + 1, Len(c))
           b == u \o e
<1>1. /\ c \in Bytes /\ Len(c) = Len(d) + Len(e) /\ Len(d) \in Nat /\ Len(e) \in Nat
      /\ \A i \in 1 .. Len(d) : c[i] = d[i]
      /\ \A i \in 1 .. Len(e) : c[Len(d) + i] = e[i]
  BY DEF Bytes
<1>2. /\ u \in Bytes /\ Len(u) = Len(d) - p
      /\ \A i \in 1 .. Len(d) - p : u[i] = d[p + i]
  BY <1>1 DEF Bytes
<1> HIDE DEF c, u
<1>3. /\ a \in Seq(SUBSET Int) /\ Len(a) = Len(d) + Len(e) - p
      /\ \A i \in 1 .. Len(d) + Len(e) - p : a[i] = c[p + i]
  BY <1>1 DEF Bytes
<1>4. /\ b \in Seq(SUBSET Int) /\ Len(b) = Len(d) + Len(e) - p
      /\ \A i \in 1 .. Len(d) + Len(e) - p :
            b[i] = IF i <= Len(d) - p THEN u[i] ELSE e[i - (Len(d) - p)]
  <2>1. /\ u \o e \in Bytes /\ Len(u \o e) = Len(u) + Len(e)
        /\ \A i \in 1 .. Len(u) + Len(e) :
              (u \o e)[i] = IF i <= Len(u) THEN u[i] ELSE e[i - Len(u)]
    BY <1>2, ConcatBytes
  <2>2. Len(u) = Len(d) - p /\ Len(u) + Len(e) = Len(d) + Len(e) - p
    BY <1>1, <1>2
  <2> QED BY <2>1, <2>2 DEF Bytes
<1> HIDE DEF a, b
<1>5. ASSUME NEW i \in 1 .. Len(d) + Len(e) - p PROVE a[i] = b[i]
  <2>1. CASE i <= Len(d) - p
    <3>1. i \in 1 .. Len(d) - p /\ p + i \in 1 .. Len(d)
      BY <1>1, <2>1
    <3> QED BY <1>1, <1>2, <1>3, <1>4, <2>1, <3>1
  <2>2. CASE ~(i <= Len(d) - p)
    <3>1. i - (Len(d) - p) \in 1 .. Len(e) /\ p + i = Len(d) + (i - (Len(d) - p))
      BY <1>1, <2>2
    <3>2. c[p + i] = e[i - (Len(d) - p)]
      BY <1>1, <3>1
    <3> QED BY <1>3, <1>4, <2>2, <3>2
  <2> QED BY <2>1, <2>2
<1>6. a = b
  BY <1>3, <1>4, <1>5, SameSequence
<1> QED BY <1>1, <1>6, Zenon DEF a, b, c, u

(* What an action leaves of the bounds of the buffer.                      *)
LEMMA BufferNext ==
    ASSUME NEW d \in Bytes, NEW p \in Nat, sb' = [data |-> d, pos |-> p], p <= Len(d),
           nWritten' \in Nat, nWritten' <= MaxWritten, Len(d) <= nWritten' * MaxBytes
    PROVE  BufferInv'
<1>1. sb' \in [data : Bytes, pos : Nat] /\ sb'.data = d /\ sb'.pos = p
  OBVIOUS
<1> QED BY <1>1 DEF BufferInv

LEMMA NothingGot ==
    got = Nothing => DecodedRight
BY DEF DecodedRight

LEMMA StreamInit ==
    Init => StreamInv
<1> SUFFICES ASSUME Init PROVE StreamInv
  OBVIOUS
<1>1. /\ sb = [data |-> <<>>, pos |-> 0] /\ pending = <<>> /\ nWritten = 0 /\ got = Nothing
  BY DEF Init, NoBytes
<1>2. BufferInv
  BY <1>1, StructuresAssumption DEF BufferInv, Bytes
<1>3. PendingInv
  <2>1. currentData(sb) = <<>>
    BY <1>1 DEF currentData, size
  <2>2. Written(<<>>) = <<>>
    BY DEF Written
  <2>3. FlattenSeq(<<>>) = <<>>
    BY Zenon DEF FlattenSeq
  <2> QED BY <1>1, <2>1, <2>2, <2>3 DEF PendingInv
<1> QED BY <1>1, <1>2, <1>3, NothingGot DEF StreamInv

LEMMA WriteStep ==
    ASSUME StreamInv, NEW x \in Structures, Write(x)
    PROVE  StreamInv'
<1>1. /\ sb' = [sb EXCEPT !.data = @ \o Encoded(x)] /\ nWritten < MaxWritten
      /\ pending' = Append(pending, x) /\ nWritten' = nWritten + 1 /\ got' = Nothing
  BY DEF Write, append
<1> DEFINE d == sb.data
           e == Encoded(x)
<1>2. /\ sb \in [data : Bytes, pos : Nat] /\ d \in Bytes /\ sb.pos \in Nat /\ sb.pos <= Len(d)
      /\ nWritten \in Nat /\ Len(d) <= nWritten * MaxBytes
  BY DEF StreamInv, BufferInv
<1>3. e \in Bytes /\ Len(e) \in Nat /\ Len(e) <= MaxBytes
  BY StructuresAre
<1>4. sb' = [data |-> d \o e, pos |-> sb.pos]
  BY <1>1, <1>2
<1> HIDE DEF d, e
<1>5. /\ d \o e \in Bytes /\ Len(d \o e) = Len(d) + Len(e) /\ Len(d) \in Nat
      /\ SubSeq(d \o e, sb.pos + 1, Len(d \o e)) = SubSeq(d, sb.pos + 1, Len(d)) \o e
  BY <1>2, <1>3, UnreadAppend
<1>6. (nWritten + 1) * MaxBytes = nWritten * MaxBytes + MaxBytes /\ nWritten * MaxBytes \in Nat
  BY <1>1, <1>2, StructuresAssumption, OneMore, NoLonger
<1>7. BufferInv'
  <2>1. Len(d \o e) <= (nWritten + 1) * MaxBytes
    BY <1>2, <1>3, <1>5, <1>6, StructuresAssumption
  <2>2. sb.pos <= Len(d \o e)
    BY <1>2, <1>3, <1>5
  <2>3. nWritten + 1 \in Nat /\ nWritten + 1 <= MaxWritten
    BY <1>1, <1>2, StructuresAssumption
  <2> QED BY <1>1, <1>2, <1>4, <1>5, <2>1, <2>2, <2>3, BufferNext
<1>8. PendingInv'
  <2>1. pending \in Seq(Structures) /\ SubSeq(d, sb.pos + 1, Len(d)) = FlattenSeq(Written(pending))
    BY DEF StreamInv, PendingInv, currentData, size, d
  <2>2. /\ Append(pending, x) \in Seq(Structures)
        /\ FlattenSeq(Written(Append(pending, x))) = FlattenSeq(Written(pending)) \o e
    BY <2>1, WrittenAppend DEF e
  <2>3. currentData(sb') = SubSeq(d \o e, sb.pos + 1, Len(d \o e))
    BY <1>4 DEF currentData, size
  <2>4. currentData(sb') = FlattenSeq(Written(pending'))
    BY <1>1, <1>5, <2>1, <2>2, <2>3
  <2>5. pending' \in Seq(Structures)
    BY <1>1, <2>2
  <2> QED BY <2>4, <2>5 DEF PendingInv
<1>9. DecodedRight'
  BY <1>1 DEF DecodedRight
<1> QED BY <1>7, <1>8, <1>9 DEF StreamInv

LEMMA PutBackStep ==
    ASSUME StreamInv, NEW x \in Structures, PutBack(x)
    PROVE  StreamInv'
<1>1. /\ sb' = [sb EXCEPT !.data = Encoded(x) \o @] /\ nWritten < MaxWritten /\ sb.pos = 0
      /\ pending' = <<x>> \o pending /\ nWritten' = nWritten + 1 /\ got' = Nothing
  BY DEF PutBack, prepend
<1> DEFINE d == sb.data
           e == Encoded(x)
<1>2. /\ sb \in [data : Bytes, pos : Nat] /\ d \in Bytes /\ sb.pos \in Nat
      /\ nWritten \in Nat /\ Len(d) <= nWritten * MaxBytes
  BY DEF StreamInv, BufferInv
<1>3. e \in Bytes /\ Len(e) \in Nat /\ Len(e) <= MaxBytes
  BY StructuresAre
<1>4. sb' = [data |-> e \o d, pos |-> 0]
  BY <1>1, <1>2
<1> HIDE DEF d, e
<1>5. /\ e \o d \in Bytes /\ Len(e \o d) = Len(d) + Len(e) /\ Len(d) \in Nat
      /\ SubSeq(e \o d, 0 + 1, Len(e \o d)) = e \o d
      /\ SubSeq(d, 0 + 1, Len(d)) = d
  BY <1>2, <1>3 DEF Bytes
<1>6. (nWritten + 1) * MaxBytes = nWritten * MaxBytes + MaxBytes /\ nWritten * MaxBytes \in Nat
  BY <1>1, <1>2, StructuresAssumption, OneMore, NoLonger
<1>7. BufferInv'
  <2>1. Len(e \o d) <= (nWritten + 1) * MaxBytes
    BY <1>2, <1>3, <1>5, <1>6, StructuresAssumption
  <2>2. 0 <= Len(e \o d) /\ 0 \in Nat
    BY <1>2, <1>3, <1>5
  <2>3. nWritten + 1 \in Nat /\ nWritten + 1 <= MaxWritten
    BY <1>1, <1>2, StructuresAssumption
  <2> QED BY <1>1, <1>4, <1>5, <2>1, <2>2, <2>3, BufferNext
<1>8. PendingInv'
  <2>1. pending \in Seq(Structures) /\ SubSeq(d, 0 + 1, Len(d)) = FlattenSeq(Written(pending))
    BY <1>1 DEF StreamInv, PendingInv, currentData, size, d
  <2>2. /\ <<x>> \o pending \in Seq(Structures)
        /\ FlattenSeq(Written(<<x>> \o pending)) = e \o FlattenSeq(Written(pending))
    BY <2>1, WrittenCons DEF e
  <2>3. currentData(sb') = SubSeq(e \o d, 0 + 1, Len(e \o d))
    BY <1>4 DEF currentData, size
  <2>4. currentData(sb') = FlattenSeq(Written(pending'))
    BY <1>1, <1>5, <2>1, <2>2, <2>3
  <2>5. pending' \in Seq(Structures)
    BY <1>1, <2>2
  <2> QED BY <2>4, <2>5 DEF PendingInv
<1>9. DecodedRight'
  BY <1>1 DEF DecodedRight
<1> QED BY <1>7, <1>8, <1>9 DEF StreamInv

(* The unread bytes, when the first of them are overwritten.               *)
LEMMA PatchedBytes ==
    ASSUME BufferInv, NEW e \in Bytes, NEW r \in Bytes, NEW o,
           o = Overwritten(sb.data, sb.pos, e), Len(sb.data) = sb.pos + Len(e) + Len(r),
           SubSeq(sb.data, sb.pos + Len(e) + 1, Len(sb.data)) = r
    PROVE  o \in Bytes /\ Len(o) = Len(sb.data) /\ SubSeq(o, sb.pos + 1, Len(o)) = e \o r
<1> DEFINE d == sb.data
           p == sb.pos
           n == Len(e)
           m == Len(r)
           a == SubSeq(o, p + 1, Len(o))
           b == e \o r
<1>0. /\ d \in Bytes /\ p \in Nat /\ o = Overwritten(d, p, e)
      /\ Len(d) = p + n + m /\ SubSeq(d, p + n + 1, Len(d)) = r
  BY DEF BufferInv
<1> HIDE DEF d, p
<1>1. n \in Nat /\ m \in Nat /\ Len(d) \in Nat /\ DOMAIN e = 1 .. n /\ DOMAIN d = 1 .. Len(d)
  BY <1>0 DEF Bytes
<1>2. /\ \A i \in 1 .. n : e[i] \in SUBSET Int
      /\ \A i \in 1 .. Len(d) : d[i] \in SUBSET Int
  BY <1>0 DEF Bytes
<1>3. o = [i \in 1 .. Len(d) |-> IF i - p \in 1 .. n THEN e[i - p] ELSE d[i]]
  BY <1>0, <1>1 DEF Overwritten
<1>4. \A i \in 1 .. Len(d) : o[i] = IF i - p \in 1 .. n THEN e[i - p] ELSE d[i]
  BY <1>3
<1>5. o \in Bytes /\ Len(o) = Len(d)
  <2>1. \A i \in 1 .. Len(d) : o[i] \in SUBSET Int
    BY <1>1, <1>2, <1>4
  <2>2. o \in [1 .. Len(d) -> SUBSET Int]
    BY <1>3, <2>1
  <2> QED BY <1>1, <2>2 DEF Bytes
<1>6. \A i \in 1 .. m : r[i] = d[p + n + i]
  <2> DEFINE u == SubSeq(d, p + n + 1, Len(d))
  <2>1. \A i \in 1 .. Len(d) - (p + n) : u[i] = d[p + n + i]
    BY <1>0, <1>1 DEF Bytes
  <2>2. u = r /\ Len(d) - (p + n) = m
    BY <1>0, <1>1
  <2> HIDE DEF u
  <2> QED BY <2>1, <2>2
<1>7. /\ a \in Seq(SUBSET Int) /\ Len(a) = n + m
      /\ \A i \in 1 .. n + m : a[i] = o[p + i]
  BY <1>0, <1>1, <1>5 DEF Bytes
<1>8. /\ b \in Seq(SUBSET Int) /\ Len(b) = n + m
      /\ \A i \in 1 .. n + m : b[i] = IF i <= n THEN e[i] ELSE r[i - n]
  BY <1>1 DEF Bytes
<1> HIDE DEF a, b
<1>9. ASSUME NEW i \in 1 .. n + m PROVE a[i] = b[i]
  <2>1. p + i \in 1 .. Len(d) /\ (p + i) - p = i
    BY <1>0, <1>1
  <2>2. o[p + i] = IF i \in 1 .. n THEN e[i] ELSE d[p + i]
    BY <1>4, <2>1
  <2>3. CASE i <= n
    BY <1>1, <1>7, <1>8, <2>2, <2>3
  <2>4. CASE ~(i <= n)
    <3>1. i - n \in 1 .. m /\ p + n + (i - n) = p + i /\ ~(i \in 1 .. n)
      BY <1>0, <1>1, <2>4
    <3>2. r[i - n] = d[p + i]
      BY <1>6, <3>1
    <3> QED BY <1>7, <1>8, <2>2, <2>4, <3>1, <3>2
  <2> QED BY <2>3, <2>4
<1>10. a = b
  BY <1>7, <1>8, <1>9, SameSequence
<1> QED BY <1>5, <1>10, Zenon DEF a, b, d, p

LEMMA PatchStep ==
    ASSUME StreamInv, NEW x \in Structures, Patch(x)
    PROVE  StreamInv'
<1> DEFINE d == sb.data
           p == sb.pos
           e == Encoded(x)
           n == Len(e)
           r == FlattenSeq(Written(Tail(pending)))
           o == Overwritten(d, p, e)
<1>1. /\ pending # <<>> /\ n = Len(Encoded(Head(pending)))
      /\ sb' = setData(sb, p, e) /\ pending' = <<x>> \o Tail(pending)
      /\ got' = Nothing /\ nWritten' = nWritten
  BY DEF Patch
<1>2. /\ sb \in [data : Bytes, pos : Nat] /\ d \in Bytes /\ p \in Nat
      /\ nWritten \in Nat /\ nWritten <= MaxWritten /\ Len(d) <= nWritten * MaxBytes
  BY DEF StreamInv, BufferInv
<1>3. e \in Bytes /\ n \in Nat
  BY StructuresAre
<1>4. /\ Tail(pending) \in Seq(Structures) /\ r \in Bytes
      /\ p + n \in Nat /\ Len(d) = p + n + Len(r) /\ p + n <= Len(d)
      /\ SubSeq(d, p + n + 1, Len(d)) = r
  BY <1>1, NextUnread DEF StreamInv
<1>5. sb' = [data |-> o, pos |-> p]
  <2>1. ~(p + Len(e) > Len(sb.data))
    BY <1>2, <1>3, <1>4
  <2>2. sb' = [sb EXCEPT !.data = o]
    BY <1>1, <2>1 DEF setData, size
  <2> QED BY <1>2, <2>2
<1>6. o \in Bytes /\ Len(o) = Len(d) /\ SubSeq(o, p + 1, Len(o)) = e \o r
  <2>1. BufferInv /\ Len(sb.data) = sb.pos + Len(e) + Len(r)
    BY <1>4 DEF StreamInv
  <2>2. SubSeq(sb.data, sb.pos + Len(e) + 1, Len(sb.data)) = r
    BY <1>4
  <2> HIDE DEF r, e
  <2> QED BY <1>3, <1>4, <2>1, <2>2, PatchedBytes
<1> HIDE DEF d, e, r, p, o
<1>7. BufferInv'
  <2>1. p <= Len(o)
    BY <1>2, <1>3, <1>4, <1>6
  <2>2. /\ nWritten' \in Nat /\ nWritten' <= MaxWritten /\ Len(o) <= nWritten' * MaxBytes
    BY <1>1, <1>2, <1>6
  <2> QED BY <1>2, <1>5, <1>6, <2>1, <2>2, BufferNext
<1>8. PendingInv'
  <2>1. /\ <<x>> \o Tail(pending) \in Seq(Structures)
        /\ FlattenSeq(Written(<<x>> \o Tail(pending))) = e \o r
    BY <1>4, WrittenCons DEF e, r
  <2>2. currentData(sb') = SubSeq(o, p + 1, Len(o))
    BY <1>5 DEF currentData, size
  <2>3. currentData(sb') = FlattenSeq(Written(pending')) /\ pending' \in Seq(Structures)
    BY <1>1, <1>6, <2>1, <2>2
  <2> QED BY <2>3 DEF PendingInv
<1>9. DecodedRight'
  BY <1>1 DEF DecodedRight
<1> QED BY <1>7, <1>8, <1>9 DEF StreamInv

(* The reader moves by what the structure was written in.                  *)
LEMMA Moves ==
    ASSUME StreamInv, pending # <<>>, sb' = skip(sb, Len(Encoded(Head(pending)))),
           pending' = Tail(pending), nWritten' = nWritten
    PROVE  BufferInv' /\ PendingInv'
<1> DEFINE d == sb.data
           p == sb.pos
           n == Len(Encoded(Head(pending)))
           r == FlattenSeq(Written(Tail(pending)))
<1>1. /\ sb \in [data : Bytes, pos : Nat] /\ d \in Bytes /\ p \in Nat
      /\ nWritten \in Nat /\ nWritten <= MaxWritten /\ Len(d) <= nWritten * MaxBytes
  BY DEF StreamInv, BufferInv
<1>2. /\ Tail(pending) \in Seq(Structures) /\ r \in Bytes /\ p + n \in Nat /\ p + n <= Len(d)
      /\ SubSeq(d, p + n + 1, Len(d)) = r
  BY NextUnread DEF StreamInv
<1>3. sb' = [data |-> d, pos |-> p + n]
  BY <1>1 DEF skip
<1> HIDE DEF d, p, n
<1>4. BufferInv'
  BY <1>1, <1>2, <1>3, BufferNext
<1>5. currentData(sb') = SubSeq(d, p + n + 1, Len(d))
  <2>1. sb'.data = d /\ sb'.pos = p + n
    BY <1>3
  <2> QED BY <2>1, Zenon DEF currentData, size
<1>6. currentData(sb') = FlattenSeq(Written(pending')) /\ pending' \in Seq(Structures)
  BY <1>2, <1>5
<1> QED BY <1>4, <1>6 DEF PendingInv

LEMMA ReadStep ==
    ASSUME StreamInv, Read
    PROVE  StreamInv'
<1>1. /\ pending # <<>> /\ sb' = skip(sb, Moved(Head(pending))) /\ pending' = Tail(pending)
      /\ nWritten' = nWritten
      /\ got' = [written |-> Head(pending), decoded |-> Decoded(Head(pending))]
  BY DEF Read
<1>2. /\ Decoded(Head(pending)) = Survives(Head(pending))
      /\ Moved(Head(pending)) = Len(Encoded(Head(pending)))
  BY <1>1, Decodes DEF StreamInv
<1>3. BufferInv' /\ PendingInv'
  BY <1>1, <1>2, Moves
<1>4. DecodedRight'
  <2>1. got'.written = Head(pending) /\ got'.decoded = Survives(Head(pending))
    BY <1>1, <1>2
  <2>2. got'.decoded = Survives(got'.written)
    BY <2>1
  <2> QED BY <2>2 DEF DecodedRight
<1> QED BY <1>3, <1>4 DEF StreamInv

LEMMA SkipOverStep ==
    ASSUME StreamInv, SkipOver
    PROVE  StreamInv'
<1>1. /\ pending # <<>> /\ sb' = skip(sb, Len(Encoded(Head(pending))))
      /\ pending' = Tail(pending) /\ nWritten' = nWritten /\ got' = Nothing
  BY DEF SkipOver
<1>2. BufferInv' /\ PendingInv'
  BY <1>1, Moves
<1>3. DecodedRight'
  BY <1>1 DEF DecodedRight
<1> QED BY <1>2, <1>3 DEF StreamInv

LEMMA ClearStep ==
    ASSUME StreamInv, Clear
    PROVE  StreamInv'
<1>1. /\ sb' = [data |-> <<>>, pos |-> 0] /\ pending' = <<>> /\ nWritten' = 0 /\ got' = Nothing
  BY DEF Clear, clear, NoBytes
<1>2. BufferInv'
  BY <1>1, StructuresAssumption DEF BufferInv, Bytes
<1>3. PendingInv'
  <2>1. currentData(sb') = <<>>
    BY <1>1 DEF currentData, size
  <2>2. Written(<<>>) = <<>>
    BY DEF Written
  <2>3. FlattenSeq(<<>>) = <<>>
    BY Zenon DEF FlattenSeq
  <2>4. currentData(sb') = FlattenSeq(Written(pending')) /\ pending' \in Seq(Structures)
    BY <1>1, <2>1, <2>2, <2>3
  <2> QED BY <2>4 DEF PendingInv
<1>4. DecodedRight'
  BY <1>1 DEF DecodedRight
<1> QED BY <1>2, <1>3, <1>4 DEF StreamInv
-----------------------------------------------------------------------------
LEMMA StreamNext ==
    StreamInv /\ [Next]_vars => StreamInv'
<1> SUFFICES ASSUME StreamInv, [Next]_vars PROVE StreamInv'
  OBVIOUS
<1>1. CASE Read
  BY <1>1, ReadStep
<1>2. CASE SkipOver
  BY <1>2, SkipOverStep
<1>3. CASE Clear
  BY <1>3, ClearStep
<1>4. ASSUME NEW x \in Structures, Write(x) PROVE StreamInv'
  BY <1>4, WriteStep
<1>5. ASSUME NEW x \in Structures, PutBack(x) PROVE StreamInv'
  BY <1>5, PutBackStep
<1>6. ASSUME NEW x \in Structures, Patch(x) PROVE StreamInv'
  BY <1>6, PatchStep
<1>7. CASE UNCHANGED vars
  BY <1>7 DEF vars, StreamInv, BufferInv, PendingInv, DecodedRight, currentData, size
<1> QED BY <1>1, <1>2, <1>3, <1>4, <1>5, <1>6, <1>7 DEF Next

LEMMA StreamInStep ==
    StreamInv => InStep
<1> SUFFICES ASSUME StreamInv PROVE InStep
  OBVIOUS
<1> DEFINE d == sb.data
           p == sb.pos
<1>1. /\ d \in Bytes /\ p \in Nat /\ p <= Len(d) /\ Len(d) \in Nat
      /\ nWritten \in Nat /\ nWritten <= MaxWritten /\ Len(d) <= nWritten * MaxBytes
  BY DEF StreamInv, BufferInv, Bytes
<1>2. currentData(sb) = FlattenSeq(Written(pending)) /\ pending \in Seq(Structures)
  BY DEF StreamInv, PendingInv
<1>3. currentData(sb) = FlattenSeq([i \in DOMAIN pending |-> Encoded(pending[i])])
  BY <1>2 DEF Written
<1>4. empty(sb) <=> pending = <<>>
  <2>1. ASSUME pending # <<>> PROVE ~empty(sb)
    <3> DEFINE x == Head(pending)
               r == FlattenSeq(Written(Tail(pending)))
    <3>1. x \in Structures /\ r \in Bytes /\ Len(d) = p + Len(Encoded(x)) + Len(r)
      BY <2>1, NextUnread DEF StreamInv
    <3>2. Len(Encoded(x)) \in Nat /\ 0 < Len(Encoded(x)) /\ Len(r) \in Nat
      BY <3>1, StructuresAre DEF Bytes
    <3> HIDE DEF x, r
    <3>3. ~(p >= Len(d))
      BY <1>1, <3>1, <3>2
    <3> QED BY <3>3 DEF empty, size
  <2>2. ASSUME pending = <<>> PROVE empty(sb)
    <3>1. Written(<<>>) = <<>>
      BY DEF Written
    <3>2. FlattenSeq(<<>>) = <<>>
      BY Zenon DEF FlattenSeq
    <3>3. SubSeq(d, p + 1, Len(d)) = <<>>
      BY <1>2, <2>2, <3>1, <3>2 DEF currentData, size
    <3> HIDE DEF d, p
    <3>4. Len(SubSeq(d, p + 1, Len(d))) = Len(d) - p
      BY <1>1 DEF Bytes
    <3>6. Len(<<>>) = 0
      OBVIOUS
    <3>7. Len(d) - p = 0
      BY <3>3, <3>4, <3>6, Zenon
    <3>5. p >= Len(d)
      BY <1>1, <3>7
    <3> QED BY <3>5 DEF empty, size, d, p
  <2> QED BY <2>1, <2>2
<1>5. dataLeft(sb) = Len(currentData(sb))
  <2>1. nWritten * MaxBytes <= MaxWritten * MaxBytes /\ nWritten * MaxBytes \in Nat
    BY <1>1, StructuresAssumption, NoLonger
  <2>2. MaxWritten * MaxBytes \in Nat /\ SizeModulus \in Nat
    BY StructuresAssumption DEF SizeModulus
  <2> HIDE DEF d, p
  <2>3. Len(d) < SizeModulus
    BY <1>1, <2>1, <2>2, StructuresAssumption
  <2>4. (Len(d) - p) % SizeModulus = Len(d) - p
    BY <1>1, <2>2, <2>3
  <2>5. Len(SubSeq(d, p + 1, Len(d))) = Len(d) - p
    BY <1>1 DEF Bytes
  <2> QED BY <2>4, <2>5 DEF dataLeft, currentData, size, d, p
<1> QED BY <1>3, <1>4, <1>5 DEF InStep

(***************************************************************************)
(* Reader and writer of a buffer stay in step (InStep): whatever was       *)
(* appended, put back, patched, skipped or decoded, the unread bytes are   *)
(* those of the structures not yet read, the buffer is at its end when     *)
(* there are none, and the size arithmetic of the buffer does not wrap.    *)
(***************************************************************************)
THEOREM AlwaysInStep ==
    Spec => []InStep
<1>1. Init => StreamInv
  BY StreamInit
<1>2. StreamInv /\ [Next]_vars => StreamInv'
  BY StreamNext
<1>3. StreamInv => InStep
  BY StreamInStep
<1> QED BY <1>1, <1>2, <1>3, PTL DEF Spec

(***************************************************************************)
(* Every structure that is read has the fields it was written with, but    *)
(* for those no decoder brings back (DecodedRight), for any structures     *)
(* and any number of them.                                                 *)
(***************************************************************************)
THEOREM AlwaysDecodedRight ==
    Spec => []DecodedRight
<1>1. Init => StreamInv
  BY StreamInit
<1>2. StreamInv /\ [Next]_vars => StreamInv'
  BY StreamNext
<1>3. StreamInv => DecodedRight
  BY DEF StreamInv
<1> QED BY <1>1, <1>2, <1>3, PTL DEF Spec
=============================================================================
