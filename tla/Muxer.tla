------------------------------- MODULE Muxer -------------------------------
(***************************************************************************)
(* MpegTsMuxer (mpegts_muxer.cpp, mpegts_muxer.h): one multiplexer object  *)
(* called by several threads. encode(), createPcr() and createNull() take  *)
(* mMuxMtx for their whole body, the call of tsOutCallback included. The   *)
(* body is cut into the steps other threads could see between: tables, one *)
(* step per transport stream packet of the frame, callback, unlock.        *)
(*                                                                         *)
(* Elementary stream bytes are runs of a frame (see TsPacket); everything  *)
(* that decides where they land - header sizes, adaptation field lengths,  *)
(* stuffing - is computed with the real numbers.                           *)
(*                                                                         *)
(* A definition Mut<Name> is <Name> with a plausible bug: each property is *)
(* known to fail when one of them takes the place of the original.         *)
(***************************************************************************)
EXTENDS TsPacket, FiniteSets

CONSTANTS
    Threads,        \* callers of the multiplexer
    NoThread,       \* owner of the free mutex
    MuxType,        \* mMuxType
    PmtPid,         \* mPmtPid
    PcrPid,         \* mPcrPid
    Streams,        \* mStreamPidMap in key order: a sequence of [type, pid]
    FrameShapes,    \* the frames callers encode, without their bytes
    RandomAccessArgs, \* values of lRandomAccess callers pass to encode
    Ops,            \* which of the three operations callers use
    PatInterval,    \* MPEGTS_PAT_INTERVAL, 20 in the code
    MaxPesLength,   \* largest mPesPacketLength, 0xffff in the code
    MaxCalls        \* bound: calls per thread

PesLengths == 0 .. 65535                \* mPesPacketLength has 16 bits
MuxTypes == {"unknown", "segmentType", "h222Type", "dvbType"}
EsPids   == 1 .. MPEGTS_NULL_PACKET_PID - 1
StreamInfo == [type : 1 .. 255, pid : EsPids]
Shape    == [type : 1 .. 255, pid : EsPids \ {PmtPid}, size : Nat,
             pts : Nat, dts : Nat, pcr : Nat, ra : BOOLEAN]

(* 21 + 5n bytes of PMT must fit in one packet, or createPmt fails.        *)
MaxPmtStreams == (kTsPacketSize_188 - 21) \div 5

(***************************************************************************)
(* One PID per stream type and one stream type per PID: the caller's side  *)
(* of mStreamPidMap, which the muxer never checks. Type 0 is the key of    *)
(* the table counter.                                                      *)
(***************************************************************************)
ASSUME MuxerAssumption ==
    /\ NoThread \notin Threads
    /\ MuxType \in MuxTypes
    /\ PmtPid \in EsPids
    /\ PcrPid \in EsPids
    /\ Streams \in Seq(StreamInfo)
    /\ Len(Streams) <= MaxPmtStreams
    /\ FrameShapes \subseteq Shape
    /\ \A f, g \in FrameShapes : f.type = g.type <=> f.pid = g.pid
    /\ RandomAccessArgs \subseteq BOOLEAN
    /\ Ops \subseteq {"encode", "pcr", "null"}
    /\ PatInterval \in Nat \ {0}
    /\ MaxPesLength \in PesLengths
    /\ MaxCalls \in Nat

VARIABLES
    mPidCcMap,      \* continuity counter per stream type, 0 for the tables
    mCurrentIndex,  \* frames since the last PAT (h222Type)
    mMuxMtx,        \* owner of the mutex
    pc,             \* where each thread is in the muxer
    job,            \* its call: operation, frame, shape
    lSb,            \* its output buffer, a sequence of packets
    lFirst,         \* createPes: no packet of this frame written yet
    mDataPos,       \* createPes: read position in the frame's data
    nCalls,         \* calls each thread has made
    wire            \* history: every packet handed to tsOutCallback

locals == <<job, lSb, lFirst, mDataPos>>
vars   == <<mPidCcMap, mCurrentIndex, mMuxMtx, pc, locals, nCalls, wire>>

NoCc       == -1
TableKey   == 0
FrameTypes == {f.type : f \in FrameShapes}
CcKeys     == {TableKey} \cup FrameTypes

(* A frame on the wire: who encoded it, which of its calls, how many bytes *)
(* it has and whether encode() was called with lRandomAccess.              *)
Frame == [src : Threads, no : Nat, size : Nat, key : BOOLEAN]
Job   == [op : {"encode"}, frame : Frame, shape : FrameShapes]
             \cup [op : {"none", "pcr", "null"}]
NoJob == [op |-> "none"]

(***************************************************************************)
(* The packets.                                                            *)
(***************************************************************************)
TablePacket(pid, cc, load) ==
    [pid |-> pid, pusi |-> TRUE, afc |-> mPayloadOnly, cc |-> cc,
     af |-> NoAf, load |-> load, bytes |-> kTsPacketSize_188]

createPat(cc) == TablePacket(MPEGTS_PAT_PID, cc, PatLoad(<<[number |-> 1, pmt |-> PmtPid]>>))
createPmt(cc) == TablePacket(PmtPid, cc, PmtLoad(TRUE, PcrPid, Streams))

(* The adaptation field a frame asks for in its first packet.              *)
PcrAf(f) == [len |-> 1 + PcrBytes, disc |-> FALSE, ra |-> f.ra, pcr |-> f.pcr]
RaAf     == [len |-> 1, disc |-> FALSE, ra |-> TRUE, pcr |-> NoPcr]

PesOf(f) ==
    LET two == f.pts # f.dts
        hdl == IF two THEN 2 * TimestampBytes ELSE TimestampBytes
        lPesSize == hdl + f.size + 3
    IN  [len |-> IF lPesSize > MaxPesLength THEN 0 ELSE lPesSize, hdl |-> hdl,
         flags |-> IF two THEN 3 ELSE 2, marker |-> TRUE, pts |-> f.pts, dts |-> f.dts]

(* What is encoded into lPacket before its size is known.                  *)
Unstuffed(f, frame, first, pos, cc) ==
    LET withAf == first /\ (f.pid = PcrPid \/ f.ra)
    IN  [pid   |-> f.pid,
         pusi  |-> first,
         afc   |-> IF withAf THEN mPayloadAdaptionBoth ELSE mPayloadOnly,
         cc    |-> cc,
         af    |-> IF ~withAf THEN NoAf ELSE IF f.pid = PcrPid THEN PcrAf(f) ELSE RaAf,
         load  |-> PesLoad(IF first THEN PesOf(f) ELSE NoPes, Run(frame, pos, 0)),
         bytes |-> kTsPacketSize_188]

(* Stuffing lengthens the adaptation field, or makes one: of a single      *)
(* length byte 0, or with the length, a byte of clear flags and filler.    *)
MutStuffingAf(lStuffSize) ==                 \* forgets that the length byte is stuffing
    [len |-> lStuffSize - 2, disc |-> FALSE, ra |-> FALSE, pcr |-> NoPcr]
StuffingAf(lStuffSize) ==
    [len |-> lStuffSize - 1, disc |-> FALSE, ra |-> FALSE, pcr |-> NoPcr]
MutStuffed(pkt, lStuffSize) ==               \* overwrites the length instead of adding to it
    IF hasAdaptationField(pkt.afc)
    THEN [pkt EXCEPT !.af.len = lStuffSize]
    ELSE [pkt EXCEPT !.afc = mPayloadAdaptionBoth, !.af = StuffingAf(lStuffSize)]
Stuffed(pkt, lStuffSize) ==
    IF hasAdaptationField(pkt.afc)
    THEN [pkt EXCEPT !.af.len = @ + lStuffSize]
    ELSE [pkt EXCEPT !.afc = mPayloadAdaptionBoth,
                     !.af = StuffingAf(lStuffSize)]

Filled(pkt, n) == [pkt EXCEPT !.load.run.len = n]

BodySize(pkt) == kTsPacketSize_188 - DataStart(pkt)

(* One iteration of the loop of createPes over a frame of which pos bytes  *)
(* are written.                                                            *)
MutPesPacket(f, frame, first, pos, cc) ==    \* ignores what is already written
    LET head == Unstuffed(f, frame, first, pos, cc)
    IN  IF BodySize(head) <= f.size
        THEN Filled(head, BodySize(head))
        ELSE Filled(Stuffed(head, BodySize(head) - f.size), f.size)
PesPacket(f, frame, first, pos, cc) ==
    LET head    == Unstuffed(f, frame, first, pos, cc)
        lBodySize == BodySize(head)
        lInSize == f.size - pos
    IN  IF lBodySize <= lInSize
        THEN Filled(head, lBodySize)
        ELSE Filled(Stuffed(head, lBodySize - lInSize), lInSize)

PcrPacket(pcr) ==
    [pid |-> PcrPid, pusi |-> FALSE, afc |-> mAdaptionOnly, cc |-> 0,
     af |-> [len |-> kTsPacketSize_188 - 4 - 1, disc |-> FALSE, ra |-> FALSE, pcr |-> pcr],
     load |-> NoLoad, bytes |-> kTsPacketSize_188]

(* Only the header is ever written to the buffer.                          *)
NullPacket ==
    [pid |-> MPEGTS_NULL_PACKET_PID, pusi |-> FALSE, afc |-> mPayloadOnly, cc |-> 0,
     af |-> NoAf, load |-> NoLoad, bytes |-> TsHeaderBytes]
-----------------------------------------------------------------------------
Init ==
    /\ mPidCcMap = [k \in CcKeys |-> NoCc]
    /\ mCurrentIndex = 0
    /\ mMuxMtx = NoThread
    /\ pc = [t \in Threads |-> "idle"]
    /\ job = [t \in Threads |-> NoJob]
    /\ lSb = [t \in Threads |-> <<>>]
    /\ lFirst = [t \in Threads |-> TRUE]
    /\ mDataPos = [t \in Threads |-> 0]
    /\ nCalls = [t \in Threads |-> 0]
    /\ wire = <<>>

Goto(t, from, to) == pc[t] = from /\ pc' = [pc EXCEPT ![t] = to]

(* getCc: 0 the first time a key is used.                                  *)
MutgetCc(k) == IF mPidCcMap[k] = NoCc THEN 0 ELSE (mPidCcMap[k] + 1) % (CcModulus - 1)
getCc(k) == IF mPidCcMap[k] = NoCc THEN 0 ELSE NextCc(mPidCcMap[k])

Emit(t, packets) == lSb' = [lSb EXCEPT ![t] = @ \o packets]

(* A thread enters encode, createPcr or createNull.                        *)
Call(t) ==
    /\ Goto(t, "idle", "wait")
    /\ nCalls[t] < MaxCalls
    /\ nCalls' = [nCalls EXCEPT ![t] = @ + 1]
    /\ \/ /\ "encode" \in Ops
          /\ \E f \in FrameShapes, key \in RandomAccessArgs :
                job' = [job EXCEPT ![t] =
                          [op |-> "encode", shape |-> f,
                           frame |-> [src |-> t, no |-> nCalls[t] + 1,
                                      size |-> f.size, key |-> key]]]
       \/ /\ "pcr" \in Ops
          /\ job' = [job EXCEPT ![t] = [op |-> "pcr"]]
       \/ /\ "null" \in Ops
          /\ job' = [job EXCEPT ![t] = [op |-> "null"]]
    /\ lSb' = [lSb EXCEPT ![t] = <<>>]
    /\ lFirst' = [lFirst EXCEPT ![t] = TRUE]
    /\ mDataPos' = [mDataPos EXCEPT ![t] = 0]
    /\ UNCHANGED <<mPidCcMap, mCurrentIndex, mMuxMtx, wire>>

(* std::lock_guard on mMuxMtx.                                             *)
MutLock(t) ==                                \* no mutual exclusion
    /\ mMuxMtx' = t
    /\ Goto(t, "wait", job[t].op)
    /\ UNCHANGED <<mPidCcMap, mCurrentIndex, locals, nCalls, wire>>
Lock(t) ==
    /\ mMuxMtx = NoThread
    /\ mMuxMtx' = t
    /\ Goto(t, "wait", job[t].op)
    /\ UNCHANGED <<mPidCcMap, mCurrentIndex, locals, nCalls, wire>>

MutshouldCreatePat == mCurrentIndex % (PatInterval + 1) = 0
shouldCreatePat == mCurrentIndex % PatInterval = 0

MutTablesDue(t) ==                           \* the frame's flag, not the caller's
    \/ MuxType = "segmentType" /\ job[t].shape.ra
    \/ MuxType = "h222Type" /\ shouldCreatePat
TablesDue(t) ==
    \/ MuxType = "segmentType" /\ job[t].frame.key
    \/ MuxType = "h222Type" /\ shouldCreatePat

MutEncode(t) ==                              \* counts the two tables separately
    /\ Goto(t, "encode", "pes")
    /\ IF TablesDue(t)
       THEN LET lPatPmtCc == getCc(TableKey)
            IN  /\ mPidCcMap' = [mPidCcMap EXCEPT ![TableKey] = NextCc(lPatPmtCc)]
                /\ Emit(t, <<createPat(lPatPmtCc), createPmt(NextCc(lPatPmtCc))>>)
       ELSE UNCHANGED <<mPidCcMap, lSb>>
    /\ mCurrentIndex' = IF MuxType # "h222Type" THEN mCurrentIndex
                        ELSE IF shouldCreatePat THEN 1 ELSE mCurrentIndex + 1
    /\ UNCHANGED <<mMuxMtx, job, lFirst, mDataPos, nCalls, wire>>

(* The head of encode: PAT and PMT share one counter.                      *)
Encode(t) ==
    /\ Goto(t, "encode", "pes")
    /\ IF TablesDue(t)
       THEN LET lPatPmtCc == getCc(TableKey)
            IN  /\ mPidCcMap' = [mPidCcMap EXCEPT ![TableKey] = lPatPmtCc]
                /\ Emit(t, <<createPat(lPatPmtCc), createPmt(lPatPmtCc)>>)
       ELSE UNCHANGED <<mPidCcMap, lSb>>
    /\ mCurrentIndex' = IF MuxType # "h222Type" THEN mCurrentIndex
                        ELSE IF shouldCreatePat THEN 1 ELSE mCurrentIndex + 1
    /\ UNCHANGED <<mMuxMtx, job, lFirst, mDataPos, nCalls, wire>>

(* One packet of the frame.                                                *)
MutCreatePes(t) ==                           \* every packet of a frame starts it
    LET f   == job[t].shape
        cc  == getCc(f.type)
        pkt == PesPacket(f, job[t].frame, TRUE, mDataPos[t], cc)
    IN  /\ pc[t] = "pes"
        /\ mDataPos[t] < f.size
        /\ mPidCcMap' = [mPidCcMap EXCEPT ![f.type] = cc]
        /\ Emit(t, <<pkt>>)
        /\ mDataPos' = [mDataPos EXCEPT ![t] = @ + pkt.load.run.len]
        /\ UNCHANGED <<mCurrentIndex, mMuxMtx, pc, job, lFirst, nCalls, wire>>
CreatePes(t) ==
    LET f   == job[t].shape
        cc  == getCc(f.type)
        pkt == PesPacket(f, job[t].frame, lFirst[t], mDataPos[t], cc)
    IN  /\ pc[t] = "pes"
        /\ mDataPos[t] < f.size
        /\ mPidCcMap' = [mPidCcMap EXCEPT ![f.type] = cc]
        /\ Emit(t, <<pkt>>)
        /\ mDataPos' = [mDataPos EXCEPT ![t] = @ + pkt.load.run.len]
        /\ lFirst' = [lFirst EXCEPT ![t] = FALSE]
        /\ UNCHANGED <<mCurrentIndex, mMuxMtx, pc, job, nCalls, wire>>

(* The frame's data is empty() and createPes returns.                      *)
MutPesDone(t) ==                             \* expects at least one packet
    /\ Goto(t, "pes", "out")
    /\ mDataPos[t] >= job[t].shape.size
    /\ ~lFirst[t]
    /\ UNCHANGED <<mPidCcMap, mCurrentIndex, mMuxMtx, locals, nCalls, wire>>
PesDone(t) ==
    /\ Goto(t, "pes", "out")
    /\ mDataPos[t] >= job[t].shape.size
    /\ UNCHANGED <<mPidCcMap, mCurrentIndex, mMuxMtx, locals, nCalls, wire>>

CreatePcr(t) ==
    /\ Goto(t, "pcr", "out")
    /\ Emit(t, <<PcrPacket(nCalls[t])>>)
    /\ UNCHANGED <<mPidCcMap, mCurrentIndex, mMuxMtx, job, lFirst, mDataPos, nCalls, wire>>

CreateNull(t) ==
    /\ Goto(t, "null", "out")
    /\ Emit(t, <<NullPacket>>)
    /\ UNCHANGED <<mPidCcMap, mCurrentIndex, mMuxMtx, job, lFirst, mDataPos, nCalls, wire>>

(* tsOutCallback, called with the mutex held, even for no packets at all.  *)
Callback(t) ==
    /\ Goto(t, "out", "unlock")
    /\ wire' = wire \o lSb[t]
    /\ lSb' = [lSb EXCEPT ![t] = <<>>]
    /\ UNCHANGED <<mPidCcMap, mCurrentIndex, mMuxMtx, job, lFirst, mDataPos, nCalls>>

Unlock(t) ==
    /\ Goto(t, "unlock", "idle")
    /\ mMuxMtx' = NoThread
    /\ UNCHANGED <<mPidCcMap, mCurrentIndex, locals, nCalls, wire>>

Inside(t) ==
    \/ Encode(t) \/ CreatePes(t) \/ PesDone(t) \/ CreatePcr(t)
    \/ CreateNull(t) \/ Callback(t) \/ Unlock(t)

Next == \E t \in Threads : Call(t) \/ Lock(t) \/ Inside(t)

(* A thread inside the muxer keeps running and one waiting for a mutex     *)
(* that stays free gets it. Nothing is assumed of callers.                 *)
Fairness == \A t \in Threads : WF_vars(Inside(t)) /\ WF_vars(Lock(t))

Spec     == Init /\ [][Next]_vars
FairSpec == Spec /\ Fairness
-----------------------------------------------------------------------------
(***************************************************************************)
(* Every variable stays in its range; the mutex owner is the one thread    *)
(* inside the muxer.                                                       *)
(***************************************************************************)
InsideMuxer == {"encode", "pes", "pcr", "null", "out", "unlock"}

PesInfo == [len : Nat, hdl : Nat, flags : {0, 2, 3}, marker : BOOLEAN, pts : Nat, dts : Nat]
PesData == [kind : {"pes"}, pes : PesInfo, run : [frame : Frame, from : Nat, len : Nat]]
Load ==
    [kind : {"none"}]
      \cup [kind : {"pat"}, programs : Seq([number : Nat, pmt : EsPids])]
      \cup [kind : {"pmt"}, ok : BOOLEAN, pcrPid : EsPids, infos : Seq(StreamInfo)]
      \cup PesData
Packet ==
    [pid : 0 .. MPEGTS_NULL_PACKET_PID, pusi : BOOLEAN, afc : 1 .. 3, cc : Cc,
     af : [len : Nat, disc : BOOLEAN, ra : BOOLEAN, pcr : Nat \cup {NoPcr}],
     load : Load, bytes : Nat]

TypeOK ==
    /\ mPidCcMap \in [CcKeys -> Cc \cup {NoCc}]
    /\ mCurrentIndex \in 0 .. PatInterval
    /\ mMuxMtx \in Threads \cup {NoThread}
    /\ pc \in [Threads -> {"idle", "wait"} \cup InsideMuxer]
    /\ job \in [Threads -> Job]
    /\ \A t \in Threads : job[t].op = "encode" => job[t].frame.size = job[t].shape.size
    /\ lSb \in [Threads -> Seq(Packet)]
    /\ lFirst \in [Threads -> BOOLEAN]
    /\ mDataPos \in [Threads -> Nat]
    /\ nCalls \in [Threads -> Nat]
    /\ wire \in Seq(Packet)

(***************************************************************************)
(* Whatever threads call encode and however they interleave, the packets   *)
(* of each PID leave the muxer with consecutive continuity counters: what  *)
(* mMuxMtx around getCc, the packet loop and the callback is for.          *)
(***************************************************************************)
CcContinuity ==
    \A i, j \in DOMAIN wire :
        Precedes(wire, i, j) /\ wire[j].pid # MPEGTS_NULL_PACKET_PID
            => CcFollows(wire[i], wire[j])

(***************************************************************************)
(* Every packet handed out is a whole transport stream packet: 188 bytes,  *)
(* its data ends exactly where it ends, and the adaptation field with the  *)
(* stuffing leaves room for a payload byte.                                *)
(***************************************************************************)
Fits(p) ==
    /\ p.bytes = kTsPacketSize_188
    /\ p.load.kind = "pes" =>
         /\ DataStart(p) + p.load.run.len = kTsPacketSize_188
         /\ p.load.run.len > 0
         /\ p.af.len \in 0 .. kTsPacketSize_188 - TsHeaderBytes - 2
         /\ hasAdaptationField(p.afc) \/ p.af = NoAf

PacketsFit == \A i \in DOMAIN wire : Fits(wire[i])

(***************************************************************************)
(* On each elementary stream PID frames come whole and one after another:  *)
(* a start packet begins at byte 0 after the last byte of the previous     *)
(* frame, any other packet carries on where its predecessor stopped, and   *)
(* when no call is inside the muxer the last frame is complete.            *)
(***************************************************************************)
EndOf(r) == r.from + r.len
FramesWhole ==
    \A j \in DOMAIN wire : wire[j].load.kind = "pes" =>
        LET r == wire[j].load.run
            before == {i \in DOMAIN wire : Precedes(wire, i, j)}
            after  == {k \in DOMAIN wire : Precedes(wire, j, k)}
        IN  /\ wire[j].pusi <=> r.from = 0
            /\ ~wire[j].pusi => \E i \in before : /\ wire[i].load.run.frame = r.frame
                                                  /\ EndOf(wire[i].load.run) = r.from
            /\ EndOf(r) = r.frame.size <=> \A k \in after : wire[k].pusi

(***************************************************************************)
(* h222Type: a receiver that joins anywhere meets the tables soon. Every   *)
(* frame start has a PAT before it, at most PatInterval frame starts back, *)
(* and each PAT is followed at once by the PMT it announces.               *)
(***************************************************************************)
IsStart(p) == p.load.kind = "pes" /\ p.pusi
TablesAt(i) ==
    /\ i \in DOMAIN wire /\ i + 1 \in DOMAIN wire
    /\ wire[i].load.kind = "pat"
    /\ wire[i + 1].load.kind = "pmt"
    /\ wire[i].load.programs[1].pmt = wire[i + 1].pid
PatCadence ==
    MuxType = "h222Type" =>
        \A j \in DOMAIN wire : IsStart(wire[j]) =>
            \E i \in 1 .. j : /\ TablesAt(i)
                              /\ Cardinality({k \in i .. j : IsStart(wire[k])}) <= PatInterval

(***************************************************************************)
(* segmentType: a segment can be cut at every random access frame, because *)
(* PAT and PMT come right before its first packet, no other thread's       *)
(* packet between them.                                                    *)
(***************************************************************************)
SegmentsSelfContained ==
    MuxType = "segmentType" =>
        \A j \in DOMAIN wire :
            IsStart(wire[j]) /\ wire[j].load.run.frame.key => TablesAt(j - 2)

(***************************************************************************)
(* A call that has the mutex gives it back: every frame size ends the loop *)
(* of createPes.                                                           *)
(***************************************************************************)
LockReleased == \A t \in Threads : mMuxMtx = t ~> mMuxMtx = NoThread
=============================================================================
