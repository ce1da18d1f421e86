----------------------------- MODULE TsFraming -----------------------------
(***************************************************************************)
(* MpegTsDemuxer::decode, checkSync and mRestData (mpegts_demuxer.cpp): a  *)
(* byte stream, handed over in chunks of any size, is cut into transport   *)
(* stream packets.                                                         *)
(*                                                                         *)
(* A byte is its offset in the stream; the buffers rIn and mRestData are   *)
(* sequences of offsets. What decode needs to know of a byte is its class: *)
(*   "start"  0x47, first byte of an intact packet                         *)
(*   "bad"    0x47, first byte of a packet whose adaptation field length   *)
(*            is out of range, such as the ones createPcr makes            *)
(*   "cut"    0x47, first byte of a packet that lost its tail              *)
(*   "fake"   0x47 that is not the first byte of a packet                  *)
(*   "data"   anything else                                                *)
(* Packets are parsed as far as framing goes: parseTsPacket moves to the   *)
(* end of the packet, or past the six header bytes of a broken one. Out of *)
(* scope are sections and PES headers that claim to reach beyond their     *)
(* packet: reading on past the end of rIn ends the program.                *)
(***************************************************************************)
EXTENDS Integers, Sequences, FiniteSets

CONSTANTS
    PacketSize,     \* kTsPacketSize_188
    BrokenBytes,    \* bytes read of a packet with a broken adaptation field, 6
    Streams,        \* the byte streams
    ChunkSizes      \* sizes of the buffers decode is called with

ByteClass == {"start", "bad", "cut", "fake", "data"}

ASSUME FramingAssumption ==
    /\ PacketSize \in Nat
    /\ BrokenBytes \in 1 .. PacketSize
    /\ Streams \subseteq Seq(ByteClass)
    /\ ChunkSizes \subseteq Nat

VARIABLES
    stream,         \* the classes of all bytes, fixed
    fed,            \* how many of them decode has been given
    decoding,       \* inside decode
    rIn, pos,       \* its argument: bytes and read position
    mRestData,
    mBytesDroppedToRecoverSync,
    parsed          \* history: packets parsed and the bytes reported dropped before each

vars == <<stream, fed, decoding, rIn, pos, mRestData, mBytesDroppedToRecoverSync, parsed>>

Offsets(from, to) == [i \in 1 .. to - from + 1 |-> from + i - 1]
dataLeft == Len(rIn) - pos
Unread   == SubSeq(rIn, pos + 1, Len(rIn))
Sync(i)  == stream[rIn[i]] # "data"

Init ==
    /\ stream \in Streams
    /\ fed = 0
    /\ decoding = FALSE
    /\ rIn = <<>> /\ pos = 0
    /\ mRestData = <<>>
    /\ mBytesDroppedToRecoverSync = 0
    /\ parsed = <<>>

MutCall(n) ==                                \* the new data comes before the rest
    /\ ~decoding
    /\ fed + n <= Len(stream)
    /\ decoding' = TRUE
    /\ fed' = fed + n
    /\ rIn' = Offsets(fed + 1, fed + n) \o mRestData
    /\ mRestData' = <<>>
    /\ UNCHANGED <<stream, pos, mBytesDroppedToRecoverSync, parsed>>

(* decode is called with n more bytes, and prepends the rest.              *)
Call(n) ==
    /\ ~decoding
    /\ fed + n <= Len(stream)
    /\ decoding' = TRUE
    /\ fed' = fed + n
    /\ rIn' = mRestData \o Offsets(fed + 1, fed + n)
    /\ mRestData' = <<>>
    /\ UNCHANGED <<stream, pos, mBytesDroppedToRecoverSync, parsed>>

MutcheckSync ==                              \* looks one byte too far
    /\ Sync(pos + 1)
    /\ dataLeft > PacketSize + 1 => Sync(pos + 1 + PacketSize + 1)

checkSync ==
    /\ Sync(pos + 1)
    /\ dataLeft > PacketSize => Sync(pos + 1 + PacketSize)

MutSkipByte ==                               \* gives up the whole packet at once
    /\ decoding
    /\ dataLeft >= PacketSize
    /\ ~checkSync
    /\ mBytesDroppedToRecoverSync' = mBytesDroppedToRecoverSync + PacketSize
    /\ pos' = pos + PacketSize
    /\ UNCHANGED <<stream, fed, decoding, rIn, mRestData, parsed>>

SkipByte ==
    /\ decoding
    /\ dataLeft >= PacketSize
    /\ ~checkSync
    /\ mBytesDroppedToRecoverSync' = mBytesDroppedToRecoverSync + 1
    /\ pos' = pos + 1
    /\ UNCHANGED <<stream, fed, decoding, rIn, mRestData, parsed>>

(* Bytes parseTsPacket takes: whatever follows a sync byte that starts no  *)
(* packet is read as a header and may look broken or not.                  *)
Consumed(class) ==
    CASE class = "start" -> {PacketSize}
      [] class = "bad"   -> {BrokenBytes}
      [] OTHER           -> {PacketSize, BrokenBytes}

MutParsePacket ==                            \* reports the loss but forgets to reset the count
    /\ decoding
    /\ dataLeft >= PacketSize
    /\ checkSync
    /\ \E n \in Consumed(stream[rIn[pos + 1]]) :
          /\ pos' = pos + n
          /\ parsed' = Append(parsed, [at |-> rIn[pos + 1], size |-> n,
                                       dropped |-> mBytesDroppedToRecoverSync])
    /\ UNCHANGED <<stream, fed, decoding, rIn, mRestData, mBytesDroppedToRecoverSync>>

ParsePacket ==
    /\ decoding
    /\ dataLeft >= PacketSize
    /\ checkSync
    /\ mBytesDroppedToRecoverSync' = 0
    /\ \E n \in Consumed(stream[rIn[pos + 1]]) :
          /\ pos' = pos + n
          /\ parsed' = Append(parsed, [at |-> rIn[pos + 1], size |-> n,
                                       dropped |-> mBytesDroppedToRecoverSync])
    /\ UNCHANGED <<stream, fed, decoding, rIn, mRestData>>

MutReturn ==                                 \* returns on the last full packet
    /\ decoding
    /\ dataLeft <= PacketSize
    /\ mRestData' = mRestData \o Unread
    /\ rIn' = <<>> /\ pos' = 0
    /\ decoding' = FALSE
    /\ UNCHANGED <<stream, fed, mBytesDroppedToRecoverSync, parsed>>

MutReturnEmpty ==                            \* loops until no byte is left
    /\ decoding
    /\ dataLeft = 0
    /\ rIn' = <<>> /\ pos' = 0
    /\ decoding' = FALSE
    /\ UNCHANGED <<stream, fed, mRestData, mBytesDroppedToRecoverSync, parsed>>

(* Less than a packet is left: keep it for the next call.                  *)
Return ==
    /\ decoding
    /\ dataLeft < PacketSize
    /\ mRestData' = mRestData \o Unread
    /\ rIn' = <<>> /\ pos' = 0
    /\ decoding' = FALSE
    /\ UNCHANGED <<stream, fed, mBytesDroppedToRecoverSync, parsed>>

Step == SkipByte \/ ParsePacket \/ Return
Next == Step \/ \E n \in ChunkSizes : Call(n)

(* decode runs in its caller's thread; nobody has to call it.              *)
Spec     == Init /\ [][Next]_vars
FairSpec == Spec /\ WF_vars(Step)
-----------------------------------------------------------------------------
(***************************************************************************)
(* Offsets stay in the stream, read positions in the buffer, and between   *)
(* calls less than a packet is kept.                                       *)
(***************************************************************************)
Byte == 1 .. Len(stream)
TypeOK ==
    /\ stream \in Seq(ByteClass)
    /\ fed \in 0 .. Len(stream)
    /\ decoding \in BOOLEAN
    /\ rIn \in Seq(Byte)
    /\ pos \in 0 .. Len(rIn)
    /\ mRestData \in Seq(Byte)
    /\ mBytesDroppedToRecoverSync \in Nat
    /\ parsed \in Seq([at : Byte, size : Nat, dropped : Nat])
    /\ decoding => mRestData = <<>>
    /\ ~decoding => rIn = <<>> /\ Len(mRestData) < PacketSize

(* First byte not taken by the packets parsed so far.                      *)
EndOf(p) == p.at + p.size
Taken == IF parsed = <<>> THEN 1 ELSE EndOf(parsed[Len(parsed)])

(***************************************************************************)
(* No byte is lost, repeated or reordered between calls: what is pending   *)
(* in rIn or mRestData is exactly the tail of what was fed, and everything *)
(* between the last packet and that tail has been counted as dropped.      *)
(***************************************************************************)
Pending == IF decoding THEN Unread ELSE mRestData
BytesConserved ==
    /\ Pending = Offsets(fed - Len(Pending) + 1, fed)
    /\ Taken + mBytesDroppedToRecoverSync + Len(Pending) = fed + 1

(***************************************************************************)
(* The loss reported before a packet is the distance to the packet before  *)
(* it, also when the bytes were dropped over several calls.                *)
(***************************************************************************)
LossReported ==
    \A i \in DOMAIN parsed :
        parsed[i].at = parsed[i].dropped + (IF i = 1 THEN 1 ELSE EndOf(parsed[i - 1]))

(***************************************************************************)
(* A stream of intact packets is cut at its packet boundaries, whatever    *)
(* the chunks and whatever sync bytes its payloads hold.                   *)
(***************************************************************************)
PacketAt(i) == \E n \in 0 .. i : i = n * PacketSize + 1
Aligned ==
    \A i \in DOMAIN stream : IF PacketAt(i) THEN stream[i] = "start"
                             ELSE stream[i] \in {"fake", "data"}
CleanStreamExact ==
    Aligned =>
        /\ \A i \in DOMAIN parsed : parsed[i].at = (i - 1) * PacketSize + 1
        /\ mBytesDroppedToRecoverSync = 0

(***************************************************************************)
(* Damage costs only what it touches: an intact packet is parsed by the    *)
(* time decode is past it, however the stream is chunked, if no byte less  *)
(* than a packet before it looks like a sync byte and a sync byte or the   *)
(* end of the stream follows it. A fragment right before it may swallow    *)
(* its first bytes when a chunk ends where a packet would.                 *)
(***************************************************************************)
Intact(i) == i \in Byte /\ stream[i] = "start"
SyncOrEnd(i) == i \in Byte => stream[i] # "data"
NoSyncBefore(i) == \A j \in Byte : i - PacketSize < j /\ j < i => stream[j] = "data"
PacketsRecovered ==
    \A i \in Byte :
        /\ Intact(i) /\ NoSyncBefore(i) /\ SyncOrEnd(i + PacketSize)
        /\ i <= fed - Len(Pending)
        => \E k \in DOMAIN parsed : parsed[k].at = i

(***************************************************************************)
(* Every call of decode returns: each round of its loop takes bytes.       *)
(***************************************************************************)
DecodeReturns == decoding ~> ~decoding
=============================================================================
