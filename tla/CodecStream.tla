---------------------------- MODULE CodecStream ----------------------------
(***************************************************************************)
(* One SimpleBuffer between a writer of packet structures and a reader of  *)
(* them, used as createPes, createPat, decode and parsePat use theirs:     *)
(* structures are appended, put back in front of unread bytes, patched in  *)
(* place, decoded, skipped and cleared. What the two sides must agree on   *)
(* is where each structure ends and which bit is which field.              *)
(*                                                                         *)
(* A structure is [kind, val]; kinds w1 .. w8 are the integers of          *)
(* write1Byte .. write8Bytes, bytes is a run of bytes.                     *)
(***************************************************************************)
EXTENDS Codecs

CONSTANTS
    Structures,     \* what is written
    MaxWritten,     \* bound: structures written between two clears
    MaxBytes        \* bound: bytes of a structure

WellFormed(x) ==
    \/ x.kind = "ts"    /\ x.val \in TsHeader
    \/ x.kind = "pat"   /\ x.val \in SectionHead
    \/ x.kind = "pmt"   /\ WellFormedPmt(x.val)
    \/ x.kind = "af"    /\ x.val \in AdaptationFieldHeader
    \/ x.kind = "pes"   /\ x.val \in PESHeader
    \/ x.kind \in {"pts", "pcr"} /\ x.val \in Word(64)
    \/ x.kind = "bytes" /\ x.val \in Seq(Byte) \ {<<>>}
    \/ x.kind = "w1"    /\ x.val \in Word(8)
    \/ x.kind = "w2"    /\ x.val \in Word(16)
    \/ x.kind = "w3"    /\ x.val \in Word(24)
    \/ x.kind = "w4"    /\ x.val \in Word(32)
    \/ x.kind = "w8"    /\ x.val \in Word(64)

VARIABLES
    sb,             \* the buffer
    pending,        \* history: structures written and not yet read
    nWritten,       \* structures in the buffer, read ones included
    got             \* the structure just read: as written and as decoded

vars == <<sb, pending, nWritten, got>>

Encoded(x) ==
    CASE x.kind = "ts"    -> TsHeader_encode(x.val)
      [] x.kind = "pat"   -> PATHeader_encode(x.val)
      [] x.kind = "pmt"   -> PMTHeader_encode(x.val)
      [] x.kind = "af"    -> AdaptationFieldHeader_encode(x.val)
      [] x.kind = "pes"   -> PESHeader_encode(x.val)
      [] x.kind = "pts"   -> writePts({1}, x.val)
      [] x.kind = "pcr"   -> writePcr(x.val)
      [] x.kind = "bytes" -> x.val
      [] x.kind = "w1"    -> write1Byte(NoBytes, x.val).data
      [] x.kind = "w2"    -> write2Bytes(NoBytes, x.val).data
      [] x.kind = "w3"    -> write3Bytes(NoBytes, x.val).data
      [] x.kind = "w4"    -> write4Bytes(NoBytes, x.val).data
      [] x.kind = "w8"    -> write8Bytes(NoBytes, x.val).data

(* What the reader of a structure like x finds, and how far it moves.      *)
Decoded(x) ==
    CASE x.kind = "ts"    -> TsHeader_decode(sb.data, sb.pos)
      [] x.kind = "pat"   -> PATHeader_decode(sb.data, sb.pos)
      [] x.kind = "pmt"   -> PMTHeader_decode(sb.data, sb.pos)
      [] x.kind = "af"    -> AdaptationFieldHeader_decode(sb.data, sb.pos)
      [] x.kind = "pes"   -> PESHeader_decode(sb.data, sb.pos)
      [] x.kind = "pts"   -> readPts(sb.data, sb.pos)
      [] x.kind = "pcr"   -> readPcr(sb.data, sb.pos)
      [] x.kind = "bytes" -> readString(sb, Len(x.val))
      [] x.kind = "w1"    -> read1Byte(sb)
      [] x.kind = "w2"    -> read2Bytes(sb)
      [] x.kind = "w3"    -> read3Bytes(sb)
      [] x.kind = "w4"    -> read4Bytes(sb)
      [] x.kind = "w8"    -> read8Bytes(sb)
Moved(x) ==
    CASE x.kind = "ts"    -> 4
      [] x.kind = "pat"   -> PATHeaderBytes
      [] x.kind = "pmt"   -> PMTHeader_size(Decoded(x))
      [] x.kind = "af"    -> IF Decoded(x) = NoAdaptationField THEN 1 ELSE 2
      [] x.kind = "pes"   -> 9
      [] x.kind = "pts"   -> 5
      [] x.kind = "pcr"   -> 6
      [] x.kind = "bytes" -> Len(x.val)
      [] x.kind = "w1"    -> 1
      [] x.kind = "w2"    -> 2
      [] x.kind = "w3"    -> 3
      [] x.kind = "w4"    -> 4
      [] x.kind = "w8"    -> 8

ASSUME StructuresAssumption ==
    /\ MaxWritten \in Nat /\ MaxBytes \in Nat /\ MaxWritten * MaxBytes < SizeModulus
    /\ \A x \in Structures : WellFormed(x) /\ Len(Encoded(x)) <= MaxBytes

Nothing == [written |-> [kind |-> "none"]]
Init ==
    /\ sb = NoBytes
    /\ pending = <<>>
    /\ nWritten = 0
    /\ got = Nothing

Write(x) ==
    /\ nWritten < MaxWritten
    /\ sb' = append(sb, Encoded(x))
    /\ pending' = Append(pending, x)
    /\ nWritten' = nWritten + 1
    /\ got' = Nothing

(* In front of the unread bytes, as decode puts back the rest of the last  *)
(* buffer: of a buffer nothing was read from.                              *)
PutBack(x) ==
    /\ nWritten < MaxWritten
    /\ sb.pos = 0
    /\ sb' = prepend(sb, Encoded(x))
    /\ pending' = <<x>> \o pending
    /\ nWritten' = nWritten + 1
    /\ got' = Nothing

(* The next structure overwritten by one of its size, as createPes fills   *)
(* in data at its read position.                                           *)
Patch(x) ==
    /\ pending # <<>>
    /\ Len(Encoded(x)) = Len(Encoded(Head(pending)))
    /\ sb' = setData(sb, sb.pos, Encoded(x))
    /\ pending' = <<x>> \o Tail(pending)
    /\ got' = Nothing
    /\ UNCHANGED nWritten

Read ==
    /\ pending # <<>>
    /\ got' = [written |-> Head(pending), decoded |-> Decoded(Head(pending))]
    /\ sb' = skip(sb, Moved(Head(pending)))
    /\ pending' = Tail(pending)
    /\ UNCHANGED nWritten

SkipOver ==
    /\ pending # <<>>
    /\ require(sb, Len(Encoded(Head(pending))))
    /\ sb' = skip(sb, Len(Encoded(Head(pending))))
    /\ pending' = Tail(pending)
    /\ got' = Nothing
    /\ UNCHANGED nWritten

Clear ==
    /\ sb' = clear(sb)
    /\ pending' = <<>>
    /\ nWritten' = 0
    /\ got' = Nothing

Next ==
    \/ Read \/ SkipOver \/ Clear
    \/ \E x \in Structures : Write(x) \/ PutBack(x) \/ Patch(x)

Spec == Init /\ [][Next]_vars
-----------------------------------------------------------------------------
(***************************************************************************)
(* Reader and writer stay in step: whatever was read, skipped, patched and *)
(* put back, the unread bytes are the structures not yet read, so that     *)
(* the sizes the decoders move by are the sizes the encoders wrote.        *)
(***************************************************************************)
InStep ==
    /\ currentData(sb) = FlattenSeq([i \in DOMAIN pending |-> Encoded(pending[i])])
    /\ empty(sb) <=> pending = <<>>
    /\ dataLeft(sb) = Len(currentData(sb))

(* The fields no decoder brings back.                                      *)
Survives(x) ==
    CASE x.kind = "ts"  -> [x.val EXCEPT !.mTransportPriority = {}]
      [] x.kind = "pat" -> [x.val EXCEPT !.mReserved0 = {}]
      [] x.kind \in {"pts", "pcr"} -> x.val \cap Low(33)
      [] x.kind = "af"  -> IF x.val.mAdaptationFieldLength = {} THEN NoAdaptationField ELSE x.val
      [] OTHER          -> x.val

(***************************************************************************)
(* Every structure is decoded with the fields it was encoded with, but for *)
(* the priority bit of a packet header, the reserved bits of a PAT, the    *)
(* flags of an empty adaptation field and what a timestamp has above its   *)
(* 33 bits.                                                                *)
(***************************************************************************)
DecodedRight == got # Nothing => got.decoded = Survives(got.written)
=============================================================================
