---------------------------- MODULE MuxerProofs ----------------------------
(***************************************************************************)
(* What holds of the multiplexer for every set of threads, streams and     *)
(* frames and for calls without bound.                                     *)
(***************************************************************************)
EXTENDS MuxBytes, CodecProofs, SequenceTheorems, FiniteSetTheorems, WellFoundedInduction, TLAPS

(***************************************************************************)
(* Packets of a frame.                                                     *)
(***************************************************************************)

(* The numbers of one packet before it is filled: where its data starts.   *)
LEMMA UnstuffedLayout ==
    ASSUME NEW f \in FrameShapes, NEW frame \in Frame, NEW first \in BOOLEAN,
           NEW pos \in Nat, NEW cc \in Cc
    PROVE  LET h == Unstuffed(f, frame, first, pos, cc)
           IN  /\ h \in Packet
               /\ h.pid = f.pid /\ h.cc = cc /\ h.pusi = first
               /\ h.bytes = kTsPacketSize_188
               /\ h.load \in PesData /\ PesBytes(h) \in Nat
               /\ \/ h.afc = mPayloadOnly /\ h.af = NoAf /\ AfBytes(h) = 0
                  \/ h.afc = mPayloadAdaptionBoth /\ h.af.len \in {1, 7} /\ AfBytes(h) = 1 + h.af.len
               /\ DataStart(h) \in 4 .. 31
PROOF
<1> DEFINE h == Unstuffed(f, frame, first, pos, cc)
<1>0. f \in Shape  BY MuxerAssumption
<1>1. /\ PesOf(f) \in PesInfo
      /\ PesOf(f).hdl \in {5, 10}
  <2>1. f.pts \in Nat /\ f.dts \in Nat /\ f.size \in Nat  BY <1>0 DEF Shape
  <2> QED  BY <2>1, MuxerAssumption DEF PesOf, PesInfo, TimestampBytes
<1>2. NoPes \in PesInfo  BY DEF NoPes, PesInfo
<1>3. h.load \in Load /\ h.load \in PesData
  BY <1>1, <1>2 DEF Unstuffed, PesLoad, Run, Load, PesData
<1>4. h \in Packet
  <2>1. f.pid \in 0 .. MPEGTS_NULL_PACKET_PID /\ f.ra \in BOOLEAN /\ f.pcr \in Nat
    BY <1>0 DEF Shape, EsPids, MPEGTS_NULL_PACKET_PID
  <2> QED  BY <2>1, <1>3 DEF Unstuffed, Packet, NoAf, PcrAf, RaAf, PcrBytes, NoPcr,
             mPayloadOnly, mPayloadAdaptionBoth, kTsPacketSize_188
<1>5. CASE first /\ (f.pid = PcrPid \/ f.ra)
  <2>1. h.afc = mPayloadAdaptionBoth /\ h.af.len \in {1, 7} /\ h.pusi = TRUE
    BY <1>5, <1>0 DEF Unstuffed, PcrAf, RaAf, PcrBytes
  <2>2. h.load.pes.hdl \in {5, 10}  BY <1>5, <1>1 DEF Unstuffed, PesLoad
  <2> QED  BY <1>3, <1>4, <1>5, <2>1, <2>2 DEF Unstuffed, AfBytes, PesBytes, DataStart, hasAdaptationField,
             mPayloadAdaptionBoth, mAdaptionOnly, mPayloadOnly, TsHeaderBytes, PesHeaderBytes
<1>6. CASE first /\ ~(f.pid = PcrPid \/ f.ra)
  <2>1. h.afc = mPayloadOnly /\ h.af = NoAf /\ h.pusi = TRUE  BY <1>6 DEF Unstuffed
  <2>2. h.load.pes.hdl \in {5, 10}  BY <1>6, <1>1 DEF Unstuffed, PesLoad
  <2> QED  BY <1>3, <1>4, <1>6, <2>1, <2>2 DEF Unstuffed, AfBytes, PesBytes, DataStart, hasAdaptationField,
             mPayloadAdaptionBoth, mAdaptionOnly, mPayloadOnly, TsHeaderBytes, PesHeaderBytes
<1>7. CASE ~first
  <2>1. h.afc = mPayloadOnly /\ h.af = NoAf /\ h.pusi = FALSE  BY <1>7 DEF Unstuffed
  <2>2. h.load.pes.hdl = 0  BY <1>7 DEF Unstuffed, PesLoad, NoPes
  <2> QED  BY <1>3, <1>4, <1>7, <2>1, <2>2 DEF Unstuffed, AfBytes, PesBytes, DataStart, hasAdaptationField,
             mPayloadAdaptionBoth, mAdaptionOnly, mPayloadOnly, TsHeaderBytes, PesHeaderBytes
<1> QED  BY <1>5, <1>6, <1>7

(* Filling and stuffing change the run and the adaptation field alone.     *)
LEMMA FilledFields ==
    ASSUME NEW h \in Packet, h.load \in PesData, NEW n \in Nat
    PROVE  LET p == Filled(h, n)
           IN  /\ p \in Packet
               /\ p.pid = h.pid /\ p.cc = h.cc /\ p.afc = h.afc /\ p.af = h.af
               /\ p.bytes = h.bytes /\ p.pusi = h.pusi
               /\ p.load \in PesData /\ p.load.pes = h.load.pes /\ p.load.run.len = n
               /\ DataStart(p) = DataStart(h)
PROOF
<1> DEFINE p == Filled(h, n)
           load == [h.load EXCEPT !.run.len = n]
<1>1. load \in PesData /\ load.pes = h.load.pes /\ load.run.len = n  BY DEF PesData
<1>2. p = [h EXCEPT !.load = load]  BY DEF Filled
<1>3. /\ p \in Packet
      /\ p.pid = h.pid /\ p.cc = h.cc /\ p.afc = h.afc /\ p.af = h.af
      /\ p.bytes = h.bytes /\ p.pusi = h.pusi /\ p.load = load
  <2>1. load \in Load  BY <1>1 DEF Load
  <2> HIDE DEF load
  <2> QED  BY <1>2, <2>1 DEF Packet
<1> QED  BY <1>1, <1>3 DEF DataStart, AfBytes, PesBytes

LEMMA StuffedFields ==
    ASSUME NEW h \in Packet, NEW n \in Nat \ {0},
           \/ h.afc = mPayloadOnly /\ h.af = NoAf
           \/ h.afc = mPayloadAdaptionBoth
    PROVE  LET q == Stuffed(h, n)
           IN  /\ q \in Packet
               /\ q.pid = h.pid /\ q.cc = h.cc /\ q.bytes = h.bytes /\ q.pusi = h.pusi
               /\ q.load = h.load /\ q.afc = mPayloadAdaptionBoth
               /\ AfBytes(q) = AfBytes(h) + n
PROOF
<1> DEFINE q == Stuffed(h, n)
           Af == [len : Nat, disc : BOOLEAN, ra : BOOLEAN, pcr : Nat \cup {NoPcr}]
<1>0. h.af \in Af  BY DEF Packet
<1>1. CASE h.afc = mPayloadOnly /\ h.af = NoAf
  <2>0. StuffingAf(n) \in Af /\ StuffingAf(n).len = n - 1
    BY DEF StuffingAf
  <2>1. PICK af \in Af : af = StuffingAf(n) /\ af.len = n - 1
    BY <2>0
  <2>2. q = [h EXCEPT !.afc = mPayloadAdaptionBoth, !.af = af]
    BY <1>1, <2>1 DEF Stuffed, hasAdaptationField, mPayloadOnly, mPayloadAdaptionBoth, mAdaptionOnly
  <2>3. /\ q \in Packet
        /\ q.pid = h.pid /\ q.cc = h.cc /\ q.bytes = h.bytes /\ q.pusi = h.pusi
        /\ q.load = h.load /\ q.afc = mPayloadAdaptionBoth /\ q.af = af
    <3>1. mPayloadAdaptionBoth \in 1 .. 3  BY DEF mPayloadAdaptionBoth
    <3>2. PICK both \in 1 .. 3 : both = mPayloadAdaptionBoth  BY <3>1
    <3>3. q = [h EXCEPT !.afc = both, !.af = af]  BY <2>2, <3>2
    <3> HIDE DEF q
    <3> QED  BY <2>1, <3>2, <3>3 DEF Packet
  <2>4. AfBytes(h) = 0 /\ AfBytes(q) = 1 + (n - 1)
    BY <1>1, <2>1, <2>3 DEF AfBytes, hasAdaptationField, mPayloadOnly, mPayloadAdaptionBoth, mAdaptionOnly
  <2> QED  BY <2>3, <2>4
<1>2. CASE h.afc = mPayloadAdaptionBoth
  <2>0. h.af.len \in Nat  BY <1>0
  <2>a. PICK old \in Af : old = h.af  BY <1>0
  <2>b. [old EXCEPT !.len = old.len + n] \in Af /\ [old EXCEPT !.len = old.len + n].len = old.len + n
    BY <2>a
  <2>1. PICK af \in Af : af = [old EXCEPT !.len = old.len + n] /\ af.len = old.len + n
    BY <2>b
  <2>2. q = [h EXCEPT !.af = af]
    BY <1>2, <2>1, <2>a DEF Stuffed, hasAdaptationField
  <2>3. /\ q \in Packet
        /\ q.pid = h.pid /\ q.cc = h.cc /\ q.bytes = h.bytes /\ q.pusi = h.pusi
        /\ q.load = h.load /\ q.afc = mPayloadAdaptionBoth /\ q.af = af
    BY <1>2, <2>2 DEF Packet
  <2>4. AfBytes(h) = 1 + h.af.len /\ AfBytes(q) = 1 + (h.af.len + n)
    BY <1>2, <2>1, <2>3, <2>a DEF AfBytes, hasAdaptationField
  <2> QED  BY <2>0, <2>3, <2>4
<1> QED  BY <1>1, <1>2

(* One packet of a frame, stuffing included: it fills its 188 bytes.       *)
LEMMA PesPacketLayout ==
    ASSUME NEW f \in FrameShapes, NEW frame \in Frame, NEW first \in BOOLEAN,
           NEW pos \in Nat, pos < f.size, NEW cc \in Cc
    PROVE  LET p == PesPacket(f, frame, first, pos, cc)
           IN  /\ p \in Packet
               /\ Fits(p)
               /\ p.pid = f.pid /\ p.cc = cc /\ hasPayload(p.afc)
               /\ p.load.run.len \in Nat
PROOF
<1> DEFINE p == PesPacket(f, frame, first, pos, cc)
           in == f.size - pos
<1>0. in \in Nat \ {0}  BY MuxerAssumption DEF Shape
<1>1. PICK h \in Packet :
        /\ h = Unstuffed(f, frame, first, pos, cc)
        /\ h.pid = f.pid /\ h.cc = cc
        /\ h.bytes = kTsPacketSize_188
        /\ h.load \in PesData
        /\ PesBytes(h) \in Nat
        /\ DataStart(h) = 4 + AfBytes(h) + PesBytes(h)
        /\ DataStart(h) \in 4 .. 31
        /\ \/ h.afc = mPayloadOnly /\ h.af = NoAf /\ AfBytes(h) = 0
           \/ h.afc = mPayloadAdaptionBoth /\ h.af.len \in {1, 7} /\ AfBytes(h) = 1 + h.af.len
  <2> DEFINE u == Unstuffed(f, frame, first, pos, cc)
  <2>1. /\ u \in Packet
        /\ u.pid = f.pid /\ u.cc = cc /\ u.pusi = first
        /\ u.bytes = kTsPacketSize_188
        /\ u.load \in PesData /\ PesBytes(u) \in Nat
        /\ \/ u.afc = mPayloadOnly /\ u.af = NoAf /\ AfBytes(u) = 0
           \/ u.afc = mPayloadAdaptionBoth /\ u.af.len \in {1, 7} /\ AfBytes(u) = 1 + u.af.len
        /\ DataStart(u) \in 4 .. 31
    BY UnstuffedLayout, ZenonT(40)
  <2>2. u = Unstuffed(f, frame, first, pos, cc)  OBVIOUS
  <2> HIDE DEF u
  <2>3. DataStart(u) = 4 + AfBytes(u) + PesBytes(u)  BY DEF DataStart, TsHeaderBytes
  <2> QED  BY <2>1, <2>2, <2>3, Zenon
<1>2. BodySize(h) = 188 - DataStart(h) /\ BodySize(h) \in 157 .. 184
  BY <1>1 DEF BodySize, kTsPacketSize_188
<1>3. CASE BodySize(h) <= in
  <2>1. p = Filled(h, BodySize(h))  BY <1>1, <1>3 DEF PesPacket
  <2>2. /\ p \in Packet
        /\ p.pid = h.pid /\ p.cc = h.cc /\ p.afc = h.afc /\ p.af = h.af
        /\ p.bytes = h.bytes
        /\ p.load \in PesData /\ p.load.run.len = BodySize(h)
        /\ DataStart(p) = DataStart(h)
    BY <2>1, <1>1, <1>2, FilledFields
  <2>3. p.af.len \in 0 .. 182 /\ (hasAdaptationField(p.afc) \/ p.af = NoAf)
    BY <2>2, <1>1 DEF NoAf, hasAdaptationField, mPayloadAdaptionBoth, mPayloadOnly
  <2> QED
    BY <2>2, <2>3, <1>1, <1>2
    DEF Fits, PesData, hasPayload, mPayloadOnly, mPayloadAdaptionBoth, kTsPacketSize_188, TsHeaderBytes
<1>4. CASE ~(BodySize(h) <= in)
  <2> DEFINE stuff == BodySize(h) - in
  <2>1. stuff \in 1 .. 183  BY <1>4, <1>0, <1>2
  <2>2. PICK q \in Packet :
          /\ q = Stuffed(h, stuff)
          /\ q.pid = h.pid /\ q.cc = h.cc /\ q.bytes = h.bytes /\ q.pusi = h.pusi
          /\ q.load = h.load /\ q.afc = mPayloadAdaptionBoth
          /\ AfBytes(q) = AfBytes(h) + stuff
    <3>1. stuff \in Nat \ {0}  BY <2>1
    <3> HIDE DEF stuff
    <3> QED  BY <3>1, <1>1, StuffedFields
  <2>3. p = Filled(q, in)  BY <2>2, <1>1, <1>4 DEF PesPacket
  <2>4. /\ p \in Packet
        /\ p.pid = h.pid /\ p.cc = h.cc /\ p.afc = mPayloadAdaptionBoth /\ p.af = q.af
        /\ p.bytes = h.bytes
        /\ p.load \in PesData /\ p.load.run.len = in
        /\ DataStart(p) = DataStart(q)
    BY <2>2, <2>3, <1>0, <1>1, FilledFields
  <2>5. DataStart(q) = DataStart(h) + stuff
    <3>1. PesBytes(q) = PesBytes(h)  BY <2>2 DEF PesBytes
    <3> QED  BY <3>1, <2>2, <2>1, <1>1 DEF DataStart, TsHeaderBytes
  <2>6. DataStart(p) + in = 188
    BY <2>4, <2>5, <2>1, <1>0, <1>1, <1>2
  <2>7. p.af.len \in 0 .. 182
    <3>1. q.af.len \in Nat /\ AfBytes(q) = 1 + q.af.len
      BY <2>2 DEF Packet, AfBytes, hasAdaptationField
    <3>2. AfBytes(q) <= 188 - 4 - in
      BY <2>2, <2>5, <2>6, <2>4, <1>0, <1>1, <2>1
    <3> QED  BY <3>1, <3>2, <2>4, <1>0
  <2> QED
    BY <2>4, <2>6, <2>7, <1>0, <1>1
    DEF Fits, PesData, hasPayload, hasAdaptationField, mPayloadOnly, mPayloadAdaptionBoth,
        kTsPacketSize_188, TsHeaderBytes
<1> QED  BY <1>3, <1>4
-----------------------------------------------------------------------------
(***************************************************************************)
(* Types. A thread past the lock runs the operation it called.             *)
(***************************************************************************)
OpOfCall ==
    \A t \in Threads :
        /\ pc[t] = "wait" => job[t].op \in Ops
        /\ pc[t] \in {"encode", "pes"} => job[t].op = "encode"
        /\ pc[t] \in {"pcr", "null"} => pc[t] \in Ops

TypeInv == TypeOK /\ OpOfCall

EncodeJob == [op : {"encode"}, frame : Frame, shape : FrameShapes]

LEMMA EncodeJobFields ==
    ASSUME TypeOK, NEW t \in Threads, job[t].op = "encode"
    PROVE  /\ job[t].frame \in Frame /\ job[t].shape \in FrameShapes
           /\ job[t].shape.type \in CcKeys \ {TableKey}
           /\ job[t].shape.pid \in EsPids \ {PmtPid}
           /\ job[t].shape.size \in Nat
PROOF
<1>1. job[t] \in Job  BY DEF TypeOK
<1>2. job[t] \in EncodeJob  BY <1>1 DEF Job, EncodeJob
<1>3. job[t].frame \in Frame /\ job[t].shape \in FrameShapes  BY <1>2 DEF EncodeJob
<1>4. job[t].shape \in Shape  BY <1>3, MuxerAssumption
<1> QED  BY <1>3, <1>4 DEF Shape, CcKeys, FrameTypes, TableKey

LEMMA CcValues ==
    ASSUME TypeOK, NEW k \in CcKeys
    PROVE  getCc(k) \in Cc
PROOF
<1>1. mPidCcMap[k] \in Cc \cup {NoCc}  BY DEF TypeOK
<1>2. CASE mPidCcMap[k] = NoCc  BY <1>2 DEF getCc, Cc, CcModulus
<1>3. CASE mPidCcMap[k] # NoCc
  <2>1. PICK c \in 0 .. 15 : c = mPidCcMap[k]  BY <1>1, <1>3 DEF Cc, CcModulus
  <2>2. (c + 1) % 16 \in 0 .. 15  BY <2>1
  <2> QED  BY <1>3, <2>1, <2>2 DEF getCc, NextCc, Cc, CcModulus
<1> QED  BY <1>2, <1>3

LEMMA TablePackets ==
    ASSUME NEW cc \in Cc
    PROVE  /\ createPat(cc) \in Packet /\ createPmt(cc) \in Packet
           /\ Fits(createPat(cc)) /\ Fits(createPmt(cc))
PROOF
<1>1. PatLoad(<<[number |-> 1, pmt |-> PmtPid]>>) \in Load
  BY MuxerAssumption DEF PatLoad, Load
<1>2. PmtLoad(TRUE, PcrPid, Streams) \in Load
  BY MuxerAssumption DEF PmtLoad, Load
<1>3. NoAf \in [len : Nat, disc : BOOLEAN, ra : BOOLEAN, pcr : Nat \cup {NoPcr}]  BY DEF NoAf
<1>4. PmtPid \in 0 .. MPEGTS_NULL_PACKET_PID
  BY MuxerAssumption DEF EsPids, MPEGTS_NULL_PACKET_PID
<1>5. ASSUME NEW pid \in 0 .. MPEGTS_NULL_PACKET_PID, NEW load \in Load
      PROVE  TablePacket(pid, cc, load) \in Packet
  BY <1>3 DEF TablePacket, Packet, mPayloadOnly, kTsPacketSize_188
<1>6. createPat(cc) \in Packet
  BY <1>1, <1>5 DEF createPat, MPEGTS_PAT_PID, MPEGTS_NULL_PACKET_PID
<1>8. createPmt(cc) \in Packet
  BY <1>2, <1>4, <1>5, Zenon DEF createPmt
<1>7. Fits(createPat(cc)) /\ Fits(createPmt(cc))
  BY DEF createPat, createPmt, TablePacket, PatLoad, PmtLoad, Fits
<1> QED  BY <1>6, <1>7, <1>8

LEMMA OtherPackets ==
    /\ \A n \in Nat : PcrPacket(n) \in Packet /\ Fits(PcrPacket(n))
    /\ NullPacket \in Packet
PROOF
<1>1. NoLoad \in Load  BY DEF NoLoad, Load
<1>2. PcrPid \in 0 .. MPEGTS_NULL_PACKET_PID
  BY MuxerAssumption DEF EsPids, MPEGTS_NULL_PACKET_PID
<1>3. \A n \in Nat : PcrPacket(n) \in Packet
  BY <1>1, <1>2 DEF PcrPacket, Packet, mAdaptionOnly, Cc, CcModulus, kTsPacketSize_188
<1>4. NullPacket \in Packet
  BY <1>1 DEF NullPacket, Packet, mPayloadOnly, Cc, CcModulus, NoAf, TsHeaderBytes, MPEGTS_NULL_PACKET_PID
<1>5. \A n \in Nat : Fits(PcrPacket(n))
  BY DEF PcrPacket, Fits, NoLoad
<1> QED  BY <1>3, <1>4, <1>5

LEMMA TypeInit == Init => TypeInv
PROOF
<1> SUFFICES ASSUME Init PROVE TypeInv  OBVIOUS
<1> USE DEF Init
<1>1. OpOfCall  BY DEF OpOfCall
<1>2. mCurrentIndex \in 0 .. PatInterval  BY MuxerAssumption
<1>3. job \in [Threads -> Job] /\ \A t \in Threads : job[t].op # "encode"
  BY DEF Job, NoJob
<1>4. wire \in Seq(Packet) /\ lSb \in [Threads -> Seq(Packet)]  OBVIOUS
<1> QED  BY <1>1, <1>2, <1>3, <1>4 DEF TypeInv, TypeOK

LEMMA TypeNext == TypeInv /\ [Next]_vars => TypeInv'
PROOF
<1> SUFFICES ASSUME TypeInv, [Next]_vars PROVE TypeInv'  OBVIOUS
<1> USE DEF TypeInv
<1>1. CASE UNCHANGED vars  BY <1>1 DEF vars, locals, TypeOK, OpOfCall
<1> SUFFICES ASSUME NEW t \in Threads, Call(t) \/ Lock(t) \/ Inside(t) PROVE TypeInv'
  BY <1>1 DEF Next
<1>2. CASE Call(t)
  <2> DEFINE Called == /\ job' \in [Threads -> Job]
                       /\ job'[t].op \in Ops
                       /\ job'[t].op = "encode" => job'[t].frame.size = job'[t].shape.size
                       /\ \A u \in Threads \ {t} : job'[u] = job[u]
  <2>1. Called
    <3>1. nCalls[t] + 1 \in Nat  BY DEF TypeOK
    <3>2. ASSUME NEW f \in FrameShapes, NEW key \in RandomAccessArgs, "encode" \in Ops,
                 job' = [job EXCEPT ![t] =
                          [op |-> "encode", shape |-> f,
                           frame |-> [src |-> t, no |-> nCalls[t] + 1,
                                      size |-> f.size, key |-> key]]]
          PROVE  Called
      <4>1. f.size \in Nat /\ key \in BOOLEAN  BY MuxerAssumption DEF Shape
      <4>2. [src |-> t, no |-> nCalls[t] + 1, size |-> f.size, key |-> key] \in Frame
        BY <3>1, <4>1 DEF Frame
      <4>3. job'[t] \in Job  BY <3>2, <4>2 DEF Job, TypeOK
      <4> QED  BY <3>2, <4>2, <4>3 DEF TypeOK
    <3>3. ASSUME NEW op \in {"pcr", "null"}, op \in Ops, job' = [job EXCEPT ![t] = [op |-> op]]
          PROVE  Called
      BY <3>3 DEF TypeOK, Job
    <3> QED  BY <1>2, <3>2, <3>3 DEF Call
  <2>2. OpOfCall'
    BY <1>2, <2>1 DEF Call, Goto, OpOfCall, TypeOK, InsideMuxer
  <2>3. TypeOK'
    <3>1. /\ pc' \in [Threads -> {"idle", "wait"} \cup InsideMuxer]
          /\ nCalls' \in [Threads -> Nat]
          /\ lFirst' \in [Threads -> BOOLEAN]
          /\ mDataPos' \in [Threads -> Nat]
      BY <1>2 DEF Call, Goto, TypeOK
    <3>2. lSb' \in [Threads -> Seq(Packet)]  BY <1>2 DEF Call, TypeOK
    <3>3. \A u \in Threads : job'[u].op = "encode" => job'[u].frame.size = job'[u].shape.size
      BY <2>1 DEF TypeOK
    <3> QED  BY <1>2, <2>1, <3>1, <3>2, <3>3 DEF Call, TypeOK
  <2> QED  BY <2>2, <2>3
<1>3. CASE Lock(t)
  <2>1. job[t].op \in Ops /\ job[t].op \in {"encode", "pcr", "null"}
    BY <1>3, MuxerAssumption DEF Lock, Goto, OpOfCall
  <2>2. pc' \in [Threads -> {"idle", "wait"} \cup InsideMuxer]
    BY <1>3, <2>1 DEF Lock, Goto, TypeOK, InsideMuxer
  <2>3. OpOfCall'
    BY <1>3, <2>1 DEF Lock, Goto, locals, OpOfCall, TypeOK
  <2> QED  BY <1>3, <2>2, <2>3 DEF Lock, locals, TypeOK
<1>4. CASE Encode(t)
  <2>1. getCc(TableKey) \in Cc  BY CcValues DEF CcKeys
  <2>2. mPidCcMap' \in [CcKeys -> Cc \cup {NoCc}] /\ lSb' \in [Threads -> Seq(Packet)]
    <3>1. lSb[t] \o <<createPat(getCc(TableKey)), createPmt(getCc(TableKey))>> \in Seq(Packet)
      BY <2>1, TablePackets, ConcatProperties DEF TypeOK
    <3> QED  BY <1>4, <2>1, <3>1 DEF Encode, Emit, TypeOK
  <2>3. mCurrentIndex' \in 0 .. PatInterval
    <3>1. PICK n \in Nat \ {0} : n = PatInterval  BY MuxerAssumption
    <3>2. n % n = 0  BY <3>1
    <3>3. mCurrentIndex = n => shouldCreatePat  BY <3>1, <3>2 DEF shouldCreatePat
    <3>4. mCurrentIndex \in 0 .. n  BY <3>1 DEF TypeOK
    <3> QED  BY <1>4, <3>1, <3>3, <3>4 DEF Encode
  <2>4. OpOfCall'
    BY <1>4 DEF Encode, Goto, OpOfCall, TypeOK
  <2> QED  BY <1>4, <2>2, <2>3, <2>4 DEF Encode, Goto, TypeOK, InsideMuxer
<1>5. CASE CreatePes(t)
  <2> DEFINE f   == job[t].shape
             cc  == getCc(f.type)
             pkt == PesPacket(f, job[t].frame, lFirst[t], mDataPos[t], cc)
  <2>1. job[t].op = "encode"  BY <1>5 DEF CreatePes, OpOfCall
  <2>2. f \in FrameShapes /\ job[t].frame \in Frame /\ f.type \in CcKeys
    BY <2>1, EncodeJobFields
  <2>3. cc \in Cc  BY <2>2, CcValues
  <2>4. pkt \in Packet /\ pkt.load.run.len \in Nat
    BY <1>5, <2>2, <2>3, PesPacketLayout DEF CreatePes, TypeOK
  <2>5. lSb' \in [Threads -> Seq(Packet)]
    <3>1. lSb[t] \o <<pkt>> \in Seq(Packet)
      BY <2>4, ConcatProperties DEF TypeOK
    <3> QED  BY <1>5, <3>1 DEF CreatePes, Emit, TypeOK
  <2>6. mDataPos' \in [Threads -> Nat]
    BY <1>5, <2>4 DEF CreatePes, TypeOK
  <2>7. mPidCcMap' \in [CcKeys -> Cc \cup {NoCc}]
    BY <1>5, <2>2, <2>3 DEF CreatePes, TypeOK
  <2>8. OpOfCall'  BY <1>5 DEF CreatePes, OpOfCall
  <2> QED  BY <1>5, <2>5, <2>6, <2>7, <2>8 DEF CreatePes, TypeOK
<1>6. CASE PesDone(t)
  BY <1>6 DEF PesDone, Goto, locals, TypeOK, InsideMuxer, OpOfCall
<1>7. CASE CreatePcr(t)
  <2>1. PcrPacket(nCalls[t]) \in Packet  BY OtherPackets DEF TypeOK
  <2>2. lSb[t] \o <<PcrPacket(nCalls[t])>> \in Seq(Packet)
    BY <2>1, ConcatProperties DEF TypeOK
  <2> QED  BY <1>7, <2>2 DEF CreatePcr, Goto, Emit, TypeOK, InsideMuxer, OpOfCall
<1>8. CASE CreateNull(t)
  <2>1. lSb[t] \o <<NullPacket>> \in Seq(Packet)
    BY OtherPackets, ConcatProperties DEF TypeOK
  <2> QED  BY <1>8, <2>1 DEF CreateNull, Goto, Emit, TypeOK, InsideMuxer, OpOfCall
<1>9. CASE Callback(t)
  <2>1. wire \o lSb[t] \in Seq(Packet)  BY ConcatProperties DEF TypeOK
  <2> QED  BY <1>9, <2>1 DEF Callback, Goto, TypeOK, InsideMuxer, OpOfCall
<1>10. CASE Unlock(t)
  BY <1>10 DEF Unlock, Goto, locals, TypeOK, InsideMuxer, OpOfCall
<1> QED  BY <1>2, <1>3, <1>4, <1>5, <1>6, <1>7, <1>8, <1>9, <1>10 DEF Inside

(***************************************************************************)
(* Every variable keeps its type: in particular every packet that          *)
(* createPat, createPmt, createPes, createPcr and createNull write has     *)
(* fields in range, whatever frames arrive.                                *)
(***************************************************************************)
THEOREM TypeCorrect == Spec => []TypeOK
PROOF
<1>1. Spec => []TypeInv  BY TypeInit, TypeNext, PTL DEF Spec
<1> QED  BY <1>1, PTL DEF TypeInv
-----------------------------------------------------------------------------
(***************************************************************************)
(* Every packet is 188 bytes, in the buffers as on the wire.               *)
(***************************************************************************)
AllFit(s) == \A i \in DOMAIN s : Fits(s[i])

BuffersFit == AllFit(wire) /\ \A t \in Threads : AllFit(lSb[t])

LEMMA FitConcat ==
    ASSUME NEW s \in Seq(Packet), NEW u \in Seq(Packet), AllFit(s), AllFit(u)
    PROVE  AllFit(s \o u)
PROOF
<1> SUFFICES ASSUME NEW i \in DOMAIN (s \o u) PROVE Fits((s \o u)[i])  BY DEF AllFit
<1>1. i \in 1 .. Len(s) + Len(u)  BY ConcatProperties, LenProperties
<1>2. CASE i <= Len(s)
  BY <1>1, <1>2, ConcatProperties, LenProperties DEF AllFit
<1>3. CASE ~(i <= Len(s))
  <2>1. i - Len(s) \in DOMAIN u /\ (s \o u)[i] = u[i - Len(s)]
    BY <1>1, <1>3, ConcatProperties, LenProperties
  <2> QED  BY <2>1 DEF AllFit
<1> QED  BY <1>2, <1>3

LEMMA FitEmit ==
    ASSUME TypeOK, BuffersFit, NEW t \in Threads, NEW packets \in Seq(Packet), AllFit(packets),
           Emit(t, packets), UNCHANGED wire
    PROVE  BuffersFit'
PROOF
<1>1. lSb[t] \in Seq(Packet) /\ AllFit(lSb[t])  BY DEF TypeOK, BuffersFit
<1>2. AllFit(lSb[t] \o packets)  BY <1>1, FitConcat
<1>3. lSb' = [lSb EXCEPT ![t] = lSb[t] \o packets] /\ wire' = wire  BY DEF Emit
<1> QED  BY <1>2, <1>3 DEF BuffersFit, TypeOK

LEMMA FitNext ==
    ASSUME "null" \notin Ops
    PROVE  TypeInv /\ BuffersFit /\ [Next]_vars => BuffersFit'
PROOF
<1> SUFFICES ASSUME TypeInv, BuffersFit, [Next]_vars PROVE BuffersFit'  OBVIOUS
<1> USE DEF TypeInv
<1>1. CASE UNCHANGED vars  BY <1>1 DEF vars, locals, BuffersFit
<1> SUFFICES ASSUME NEW t \in Threads, Call(t) \/ Lock(t) \/ Inside(t) PROVE BuffersFit'
  BY <1>1 DEF Next
<1>a. AllFit(<<>>)  BY DEF AllFit
<1>2. CASE Call(t)
  BY <1>2, <1>a DEF Call, TypeOK, BuffersFit
<1>3. CASE Lock(t)  BY <1>3 DEF Lock, locals, BuffersFit
<1>4. CASE Encode(t)
  <2>1. CASE TablesDue(t)
    <3> DEFINE cc == getCc(TableKey)
    <3>1. cc \in Cc  BY CcValues DEF CcKeys
    <3>2. /\ createPat(cc) \in Packet /\ createPmt(cc) \in Packet
          /\ Fits(createPat(cc)) /\ Fits(createPmt(cc))
      BY <3>1, TablePackets
    <3>3. <<createPat(cc), createPmt(cc)>> \in Seq(Packet) /\ AllFit(<<createPat(cc), createPmt(cc)>>)
      BY <3>2 DEF AllFit
    <3>4. Emit(t, <<createPat(cc), createPmt(cc)>>) /\ UNCHANGED wire  BY <1>4, <2>1 DEF Encode
    <3> QED  BY <3>3, <3>4, FitEmit
  <2>2. CASE ~TablesDue(t)  BY <1>4, <2>2 DEF Encode, BuffersFit
  <2> QED  BY <2>1, <2>2
<1>5. CASE CreatePes(t)
  <2> DEFINE f   == job[t].shape
             pkt == PesPacket(f, job[t].frame, lFirst[t], mDataPos[t], getCc(f.type))
  <2>1. job[t].op = "encode"  BY <1>5 DEF CreatePes, OpOfCall
  <2>2. f \in FrameShapes /\ job[t].frame \in Frame /\ getCc(f.type) \in Cc
    BY <2>1, EncodeJobFields, CcValues
  <2>3. pkt \in Packet /\ Fits(pkt)
    BY <1>5, <2>2, PesPacketLayout DEF CreatePes, TypeOK
  <2>4. <<pkt>> \in Seq(Packet) /\ AllFit(<<pkt>>)  BY <2>3 DEF AllFit
  <2>5. Emit(t, <<pkt>>) /\ UNCHANGED wire  BY <1>5 DEF CreatePes
  <2> QED  BY <2>4, <2>5, FitEmit
<1>6. CASE PesDone(t)  BY <1>6 DEF PesDone, locals, BuffersFit
<1>7. CASE CreatePcr(t)
  <2>1. <<PcrPacket(nCalls[t])>> \in Seq(Packet) /\ AllFit(<<PcrPacket(nCalls[t])>>)
    BY OtherPackets DEF AllFit, TypeOK
  <2>2. Emit(t, <<PcrPacket(nCalls[t])>>) /\ UNCHANGED wire  BY <1>7 DEF CreatePcr
  <2> QED  BY <2>1, <2>2, FitEmit
<1>8. CASE CreateNull(t)
  BY <1>8 DEF CreateNull, Goto, OpOfCall
<1>9. CASE Callback(t)
  <2>1. AllFit(wire \o lSb[t])  BY FitConcat DEF BuffersFit, TypeOK
  <2> QED  BY <1>9, <1>a, <2>1 DEF Callback, BuffersFit, TypeOK
<1>10. CASE Unlock(t)  BY <1>10 DEF Unlock, locals, BuffersFit
<1> QED  BY <1>2, <1>3, <1>4, <1>5, <1>6, <1>7, <1>8, <1>9, <1>10 DEF Inside

(***************************************************************************)
(* As long as createNull is not used, everything handed to tsOutCallback   *)
(* is made of exact 188-byte packets: for every frame size, with every     *)
(* combination of PCR, random access flag and timestamps, the stuffing     *)
(* arithmetic of createPes comes out even.                                 *)
(***************************************************************************)
THEOREM PacketsAlwaysFit == "null" \notin Ops => (Spec => []PacketsFit)
PROOF
<1> SUFFICES ASSUME "null" \notin Ops PROVE Spec => []PacketsFit  OBVIOUS
<1>1. Init => BuffersFit  BY DEF Init, BuffersFit, AllFit
<1>2. TypeInv /\ BuffersFit /\ [Next]_vars => BuffersFit'  BY FitNext
<1>3. BuffersFit => PacketsFit  BY DEF BuffersFit, AllFit, PacketsFit
<1> QED  BY <1>1, <1>2, <1>3, TypeInit, TypeNext, PTL DEF Spec
-----------------------------------------------------------------------------
(***************************************************************************)
(* Continuity counters. The stream is what the callback has received       *)
(* followed by what the holder of the mutex has built. Its last packet on  *)
(* each PID carries the value the muxer's counter for that PID stands at,  *)
(* so the next packet continues it; threads outside hold no packets.       *)
(***************************************************************************)
Stream == IF mMuxMtx = NoThread THEN wire ELSE wire \o lSb[mMuxMtx]

Chained(s) ==
    \A i, j \in DOMAIN s :
        Precedes(s, i, j) /\ s[j].pid # MPEGTS_NULL_PACKET_PID => CcFollows(s[i], s[j])

LastOfPid(s, i) == \A k \in i + 1 .. Len(s) : s[k].pid # s[i].pid

Counted(s, c) == \A i \in DOMAIN s : LastOfPid(s, i) => s[i].cc = c[s[i].pid]

(* The counter a PID's packets are numbered from. createPcr and createNull *)
(* always write 0.                                                         *)
Pids == 0 .. MPEGTS_NULL_PACKET_PID
TablePids == {MPEGTS_PAT_PID, PmtPid}
Counter ==
    [p \in Pids |->
        IF p \in TablePids THEN mPidCcMap[TableKey]
        ELSE IF \E f \in FrameShapes : f.pid = p
             THEN mPidCcMap[(CHOOSE f \in FrameShapes : f.pid = p).type]
             ELSE 0]

Holder == \A t \in Threads : pc[t] \in InsideMuxer <=> mMuxMtx = t

EmptyOutside == \A t \in Threads : pc[t] \in {"idle", "wait", "unlock"} => lSb[t] = <<>>

(* createPcr writes packets without a payload on a PID of its own.         *)
PcrOutOfBand ==
    "pcr" \in Ops => PcrPid # PmtPid /\ \A f \in FrameShapes : f.pid # PcrPid

LEMMA ConcatOne ==
    ASSUME NEW s \in Seq(Packet), NEW p \in Packet
    PROVE  /\ s \o <<p>> \in Seq(Packet)
           /\ DOMAIN (s \o <<p>>) = 1 .. Len(s) + 1
           /\ Len(s \o <<p>>) = Len(s) + 1
           /\ \A i \in 1 .. Len(s) : (s \o <<p>>)[i] = s[i]
           /\ (s \o <<p>>)[Len(s) + 1] = p
PROOF
<1>1. <<p>> \in Seq(Packet) /\ Len(<<p>>) = 1 /\ <<p>>[1] = p  OBVIOUS
<1> QED  BY <1>1, ConcatProperties, LenProperties

(* One more packet that continues its counter.                             *)
LEMMA ChainOne ==
    ASSUME NEW s \in Seq(Packet), NEW p \in Packet, NEW c \in [Pids -> Int],
           Chained(s), Counted(s, c),
           \/ p.pid = MPEGTS_NULL_PACKET_PID
           \/ c[p.pid] \in Cc => p.cc = IF hasPayload(p.afc) THEN NextCc(c[p.pid]) ELSE c[p.pid]
    PROVE  /\ Chained(s \o <<p>>)
           /\ Counted(s \o <<p>>, [c EXCEPT ![p.pid] = p.cc])
PROOF
<1> DEFINE u == s \o <<p>>
           n == Len(s) + 1
<1>1. /\ u \in Seq(Packet) /\ DOMAIN u = 1 .. n /\ Len(u) = n /\ n \in Nat
      /\ \A i \in 1 .. Len(s) : u[i] = s[i] /\ s[i] \in Packet
      /\ u[n] = p
      /\ DOMAIN s = 1 .. Len(s) /\ Len(s) \in Nat
  BY ConcatOne, LenProperties, ElementOfSeq
<1> HIDE DEF u
<1>p. p.pid \in Pids /\ \A i \in 1 .. Len(s) : s[i].pid \in Pids /\ s[i].cc \in Cc
  BY <1>1 DEF Packet, Pids
<1>2. ASSUME NEW i \in DOMAIN u, NEW j \in DOMAIN u, Precedes(u, i, j),
             u[j].pid # MPEGTS_NULL_PACKET_PID
      PROVE  CcFollows(u[i], u[j])
  <2>1. i \in 1 .. Len(s) /\ i < j /\ u[i] = s[i] /\ u[i].pid = u[j].pid
    BY <1>1, <1>2 DEF Precedes
  <2>2. CASE j < n
    <3>1. j \in 1 .. Len(s) /\ u[j] = s[j]  BY <1>1, <2>2
    <3>2. Precedes(s, i, j)
      BY <1>1, <1>2, <2>1, <3>1 DEF Precedes
    <3> QED  BY <1>1, <1>2, <2>1, <3>1, <3>2 DEF Chained
  <2>3. CASE j = n
    <3>1. LastOfPid(s, i)
      BY <1>1, <1>2, <2>1, <2>3 DEF Precedes, LastOfPid
    <3>2. s[i].cc = c[p.pid] /\ s[i].cc \in Cc /\ p.pid # MPEGTS_NULL_PACKET_PID
      BY <1>1, <1>2, <1>p, <2>1, <2>3, <3>1 DEF Counted
    <3> QED  BY <1>1, <2>1, <2>3, <3>2 DEF CcFollows
  <2> QED  BY <1>1, <2>2, <2>3
<1>3. ASSUME NEW i \in DOMAIN u, LastOfPid(u, i)
      PROVE  u[i].cc = [c EXCEPT ![p.pid] = p.cc][u[i].pid]
  <2>1. CASE i = n  BY <1>1, <1>p, <2>1
  <2>2. CASE i # n
    <3>1. i \in 1 .. Len(s) /\ u[i] = s[i]  BY <1>1, <2>2
    <3>2. s[i].pid # p.pid  BY <1>1, <1>3, <3>1 DEF LastOfPid
    <3>3. LastOfPid(s, i)  BY <1>1, <1>3, <3>1 DEF LastOfPid
    <3>4. s[i].cc = c[s[i].pid]  BY <1>1, <3>1, <3>3 DEF Counted
    <3> QED  BY <3>1, <3>2, <3>4, <1>p
  <2> QED  BY <2>1, <2>2
<1> QED  BY <1>2, <1>3 DEF Chained, Counted, u

(* A continuous stream is continuous up to any point.                      *)
LEMMA ChainPrefix ==
    ASSUME NEW s \in Seq(Packet), NEW u \in Seq(Packet), Chained(s \o u)
    PROVE  Chained(s)
PROOF
<1>1. /\ DOMAIN s = 1 .. Len(s) /\ Len(s) \in Nat /\ Len(u) \in Nat
      /\ s \o u \in Seq(Packet) /\ DOMAIN (s \o u) = 1 .. Len(s) + Len(u)
      /\ \A i \in 1 .. Len(s) : (s \o u)[i] = s[i]
  BY ConcatProperties, LenProperties
<1> SUFFICES ASSUME NEW i \in DOMAIN s, NEW j \in DOMAIN s, Precedes(s, i, j),
                    s[j].pid # MPEGTS_NULL_PACKET_PID
             PROVE  CcFollows(s[i], s[j])
  BY DEF Chained
<1>2. Precedes(s \o u, i, j)  BY <1>1 DEF Precedes
<1>3. i \in DOMAIN (s \o u) /\ j \in DOMAIN (s \o u)  BY <1>1
<1> QED  BY <1>1, <1>2, <1>3 DEF Chained

LEMMA StreamType ==
    ASSUME TypeOK
    PROVE  Stream \in Seq(Packet)
BY ConcatProperties DEF TypeOK, Stream

LEMMA CounterType ==
    ASSUME TypeOK
    PROVE  Counter \in [Pids -> Int]
PROOF
<1>0. Cc \cup {NoCc} \subseteq Int  BY DEF Cc, CcModulus, NoCc
<1>1. \A k \in CcKeys : mPidCcMap[k] \in Int  BY <1>0 DEF TypeOK
<1>2. ASSUME NEW p \in Pids, \E f \in FrameShapes : f.pid = p
      PROVE  (CHOOSE f \in FrameShapes : f.pid = p).type \in CcKeys
  BY <1>2 DEF CcKeys, FrameTypes
<1> QED  BY <1>1, <1>2 DEF Counter, CcKeys

(* No elementary stream has the PID of the PAT or of null packets, nor the *)
(* type that keys the counter of the tables.                               *)
LEMMA ReservedNumbers ==
    /\ EsPids \subseteq Pids
    /\ \A p \in EsPids : p # MPEGTS_PAT_PID
    /\ \A p \in EsPids : p # MPEGTS_NULL_PACKET_PID
    /\ \A y \in 1 .. 255 : y # TableKey
PROOF
<1>1. ASSUME NEW p \in EsPids PROVE p \in Pids
  BY DEF EsPids, Pids, MPEGTS_NULL_PACKET_PID
<1>2. \A p \in EsPids : p # MPEGTS_PAT_PID
  BY DEF EsPids, MPEGTS_PAT_PID, MPEGTS_NULL_PACKET_PID
<1>3. \A p \in EsPids : p # MPEGTS_NULL_PACKET_PID  BY DEF EsPids, MPEGTS_NULL_PACKET_PID
<1>4. \A y \in 1 .. 255 : y # TableKey  BY DEF TableKey
<1> QED  BY <1>1, <1>2, <1>3, <1>4

(* The counters of the elementary streams are apart from each other and    *)
(* from the one of the tables.                                             *)
LEMMA CounterOfFrame ==
    ASSUME NEW f \in FrameShapes
    PROVE  /\ f.pid \in Pids \ TablePids /\ f.pid # MPEGTS_NULL_PACKET_PID
           /\ f.type # TableKey
           /\ (CHOOSE g \in FrameShapes : g.pid = f.pid).type = f.type
           /\ \A g \in FrameShapes : g.pid # f.pid =>
                 (CHOOSE h \in FrameShapes : h.pid = g.pid).type # f.type
PROOF
<1>1. f \in Shape /\ \A g, h \in FrameShapes : g.type = h.type <=> g.pid = h.pid
  BY MuxerAssumption
<1>2. /\ f.pid \in Pids \ TablePids /\ f.pid # MPEGTS_NULL_PACKET_PID
      /\ f.type # TableKey
  <2>1. f.pid \in EsPids \ {PmtPid} /\ f.type \in 1 .. 255
    BY <1>1, Zenon DEF Shape
  <2> QED  BY <2>1, ReservedNumbers, Zenon DEF TablePids
<1>3. ASSUME NEW g \in FrameShapes
      PROVE  /\ (CHOOSE h \in FrameShapes : h.pid = g.pid) \in FrameShapes
             /\ (CHOOSE h \in FrameShapes : h.pid = g.pid).pid = g.pid
  OBVIOUS
<1>4. (CHOOSE g \in FrameShapes : g.pid = f.pid).type = f.type  BY <1>1, <1>3
<1>5. ASSUME NEW g \in FrameShapes, g.pid # f.pid
      PROVE  (CHOOSE h \in FrameShapes : h.pid = g.pid).type # f.type
  BY <1>1, <1>3, <1>5
<1> QED  BY <1>2, <1>4, <1>5

LEMMA CounterStep ==
    ASSUME TypeOK, NEW f \in FrameShapes,
           mPidCcMap' = [mPidCcMap EXCEPT ![f.type] = getCc(f.type)]
    PROVE  /\ Counter[f.pid] = mPidCcMap[f.type]
           /\ Counter' = [Counter EXCEPT ![f.pid] = getCc(f.type)]
PROOF
<1> DEFINE cc == getCc(f.type)
           Of(p) == (CHOOSE g \in FrameShapes : g.pid = p).type
<1>1. f.type \in CcKeys  BY DEF CcKeys, FrameTypes
<1>2. \A p \in Pids : (\E g \in FrameShapes : g.pid = p) => Of(p) \in CcKeys
  BY DEF CcKeys, FrameTypes
<1>3. Of(f.pid) = f.type
  BY CounterOfFrame
<1>4. \A p \in Pids : p # f.pid /\ (\E g \in FrameShapes : g.pid = p) => Of(p) # f.type
  BY CounterOfFrame
<1>5. f.pid \in Pids \ TablePids /\ TableKey # f.type  BY CounterOfFrame
<1>6. mPidCcMap'[f.type] = cc /\ \A k \in CcKeys : k # f.type => mPidCcMap'[k] = mPidCcMap[k]
  BY <1>1 DEF TypeOK
<1> DEFINE Val(m, p) == IF p \in TablePids THEN m[TableKey]
                        ELSE IF \E g \in FrameShapes : g.pid = p THEN m[Of(p)] ELSE 0
<1>7. Counter = [p \in Pids |-> Val(mPidCcMap, p)] /\ Counter' = [p \in Pids |-> Val(mPidCcMap', p)]
  BY DEF Counter
<1>8. Val(mPidCcMap, f.pid) = mPidCcMap[f.type] /\ Val(mPidCcMap', f.pid) = cc
  BY <1>3, <1>5, <1>6
<1>9. \A p \in Pids : p # f.pid => Val(mPidCcMap', p) = Val(mPidCcMap, p)
  BY <1>2, <1>4, <1>5, <1>6 DEF CcKeys
<1> HIDE DEF Val, cc
<1>10. Counter[f.pid] = mPidCcMap[f.type]  BY <1>5, <1>7, <1>8
<1>11. Counter' = [Counter EXCEPT ![f.pid] = cc]  BY <1>5, <1>7, <1>8, <1>9
<1> QED  BY <1>10, <1>11 DEF cc

LEMMA CounterTables ==
    ASSUME TypeOK, mPidCcMap' = [mPidCcMap EXCEPT ![TableKey] = getCc(TableKey)]
    PROVE  /\ \A p \in TablePids : Counter[p] = mPidCcMap[TableKey]
           /\ Counter' = [[Counter EXCEPT ![MPEGTS_PAT_PID] = getCc(TableKey)]
                                   EXCEPT ![PmtPid] = getCc(TableKey)]
PROOF
<1> DEFINE cc == getCc(TableKey)
           Of(p) == (CHOOSE g \in FrameShapes : g.pid = p).type
           Val(m, p) == IF p \in TablePids THEN m[TableKey]
                        ELSE IF \E g \in FrameShapes : g.pid = p THEN m[Of(p)] ELSE 0
<1>1. \A p \in Pids : (\E g \in FrameShapes : g.pid = p) => Of(p) \in FrameTypes
  BY DEF FrameTypes
<1>2. TableKey \notin FrameTypes
  BY CounterOfFrame DEF FrameTypes
<1>3. mPidCcMap'[TableKey] = cc /\ \A k \in FrameTypes : mPidCcMap'[k] = mPidCcMap[k]
  BY <1>2 DEF TypeOK, CcKeys
<1>4. Counter = [p \in Pids |-> Val(mPidCcMap, p)] /\ Counter' = [p \in Pids |-> Val(mPidCcMap', p)]
  BY DEF Counter
<1>5. \A p \in TablePids : Val(mPidCcMap, p) = mPidCcMap[TableKey] /\ Val(mPidCcMap', p) = cc
  BY <1>3
<1>6. \A p \in Pids \ TablePids : Val(mPidCcMap', p) = Val(mPidCcMap, p)
  BY <1>1, <1>3
<1>7. TablePids \subseteq Pids /\ TablePids = {MPEGTS_PAT_PID, PmtPid}
  BY MuxerAssumption DEF TablePids, Pids, EsPids, MPEGTS_PAT_PID, MPEGTS_NULL_PACKET_PID
<1> HIDE DEF Val, cc
<1>8. \A p \in TablePids : Counter[p] = mPidCcMap[TableKey]  BY <1>4, <1>5, <1>7
<1>9. Counter' = [[Counter EXCEPT ![MPEGTS_PAT_PID] = cc] EXCEPT ![PmtPid] = cc]
  BY <1>4, <1>5, <1>6, <1>7
<1> QED  BY <1>8, <1>9 DEF cc

LEMMA EmitStream ==
    ASSUME TypeOK, NEW t \in Threads, mMuxMtx = t, NEW packets \in Seq(Packet),
           Emit(t, packets), UNCHANGED <<wire, mMuxMtx>>
    PROVE  Stream' = Stream \o packets
PROOF
<1>1. t # NoThread /\ wire \in Seq(Packet) /\ lSb[t] \in Seq(Packet)
  BY MuxerAssumption DEF TypeOK
<1>2. lSb'[t] = lSb[t] \o packets  BY DEF Emit, TypeOK
<1>3. Stream = wire \o lSb[t] /\ Stream' = wire \o (lSb[t] \o packets)
  BY <1>1, <1>2 DEF Stream
<1>4. (wire \o lSb[t]) \o packets = wire \o (lSb[t] \o packets)
  <2>1. \A a, b, c \in Seq(Packet) : (a \o b) \o c = a \o (b \o c)
    BY ConcatAssociative
  <2> QED  BY <1>1, <2>1
<1> QED  BY <1>3, <1>4

(* Mutual exclusion, and that a thread brings no packets into the muxer.   *)
LEMMA HolderNext ==
    TypeInv /\ Holder /\ EmptyOutside /\ [Next]_vars => Holder' /\ EmptyOutside'
PROOF
<1> SUFFICES ASSUME TypeInv, Holder, EmptyOutside, [Next]_vars
             PROVE  Holder' /\ EmptyOutside'
  OBVIOUS
<1> USE MuxerAssumption DEF TypeInv, TypeOK, OpOfCall, Holder, EmptyOutside, InsideMuxer, Goto
<1>1. CASE UNCHANGED vars  BY <1>1 DEF vars, locals
<1> SUFFICES ASSUME NEW t \in Threads, Call(t) \/ Lock(t) \/ Inside(t)
             PROVE  Holder' /\ EmptyOutside'
  BY <1>1 DEF Next
<1>2. CASE Call(t)  BY <1>2 DEF Call
<1>3. CASE Lock(t)
  <2>1. pc'[t] \in InsideMuxer /\ pc'[t] \notin {"idle", "wait", "unlock"}
    <3>1. job[t].op \in Ops  BY <1>3 DEF Lock
    <3>2. job[t].op \in {"encode", "pcr", "null"}  BY <3>1
    <3> QED  BY <1>3, <3>2 DEF Lock
  <2> QED  BY <1>3, <2>1 DEF Lock, locals
<1>4. CASE Encode(t)  BY <1>4 DEF Encode, Emit
<1>5. CASE CreatePes(t)  BY <1>5 DEF CreatePes, Emit
<1>6. CASE PesDone(t)  BY <1>6 DEF PesDone, locals
<1>7. CASE CreatePcr(t)  BY <1>7 DEF CreatePcr, Emit
<1>8. CASE CreateNull(t)  BY <1>8 DEF CreateNull, Emit
<1>9. CASE Callback(t)  BY <1>9 DEF Callback
<1>10. CASE Unlock(t)  BY <1>10 DEF Unlock, locals
<1> QED  BY <1>2, <1>3, <1>4, <1>5, <1>6, <1>7, <1>8, <1>9, <1>10 DEF Inside

(* The steps that hand nothing to the stream: tsOutCallback only moves     *)
(* what is in the buffer from one half of it to the other.                 *)
LEMMA StreamStays ==
    ASSUME TypeInv, Holder, EmptyOutside, NEW t \in Threads,
           \/ Call(t) \/ Lock(t) \/ PesDone(t) \/ Callback(t) \/ Unlock(t)
           \/ Encode(t) /\ ~TablesDue(t)
    PROVE  Stream' = Stream
PROOF
<1> USE DEF TypeInv
<1>b. \A s \in Seq(Packet) : s \o <<>> = s  BY ConcatEmptySeq
<1>c. NoThread \notin Threads /\ wire \in Seq(Packet) /\ lSb[t] \in Seq(Packet)
  BY MuxerAssumption DEF TypeOK
<1>h. ASSUME pc[t] \in InsideMuxer PROVE mMuxMtx = t /\ Stream = wire \o lSb[t]
  BY <1>h, <1>c DEF Holder, Stream
<1>1. CASE Call(t)
  <2>1. mMuxMtx # t  BY <1>1 DEF Call, Goto, Holder, InsideMuxer
  <2>2. mMuxMtx \in Threads => lSb'[mMuxMtx] = lSb[mMuxMtx]
    BY <1>1, <2>1 DEF Call, TypeOK
  <2> QED  BY <1>1, <2>2 DEF Call, Stream, TypeOK
<1>2. CASE Lock(t)
  <2>1. lSb[t] = <<>> /\ mMuxMtx = NoThread  BY <1>2 DEF Lock, Goto, EmptyOutside
  <2>2. Stream = wire /\ Stream' = wire \o <<>>
    BY <1>2, <1>c, <2>1 DEF Lock, locals, Stream
  <2> QED  BY <1>b, <1>c, <2>2
<1>3. CASE PesDone(t)  BY <1>3 DEF PesDone, locals, Stream
<1>4. CASE Callback(t)
  <2>1. mMuxMtx = t /\ Stream = wire \o lSb[t]
    BY <1>4, <1>h DEF Callback, Goto, InsideMuxer
  <2>2. wire' = wire \o lSb[t] /\ lSb'[t] = <<>> /\ mMuxMtx' = t
    BY <1>4, <2>1 DEF Callback, TypeOK
  <2>3. Stream' = (wire \o lSb[t]) \o <<>>  BY <1>c, <2>2 DEF Stream
  <2>4. wire \o lSb[t] \in Seq(Packet)  BY <1>c, ConcatProperties
  <2> QED  BY <1>b, <2>1, <2>3, <2>4
<1>5. CASE Unlock(t)
  <2>1. mMuxMtx = t /\ Stream = wire \o lSb[t]
    BY <1>5, <1>h DEF Unlock, Goto, InsideMuxer
  <2>2. lSb[t] = <<>>  BY <1>5 DEF Unlock, Goto, EmptyOutside
  <2>3. Stream' = wire  BY <1>5 DEF Unlock, Stream
  <2> QED  BY <1>b, <1>c, <2>1, <2>2, <2>3
<1>6. CASE Encode(t) /\ ~TablesDue(t)  BY <1>6 DEF Encode, Stream
<1> QED  BY <1>1, <1>2, <1>3, <1>4, <1>5, <1>6

(* The tables of encode enter the stream together.                         *)
LEMMA EncodeEmits ==
    ASSUME TypeInv, Holder, NEW t \in Threads, Encode(t), TablesDue(t)
    PROVE  LET cc == getCc(TableKey) IN
           /\ mMuxMtx = t /\ cc \in Cc
           /\ createPat(cc) \in Packet /\ createPmt(cc) \in Packet
           /\ Stream' = (Stream \o <<createPat(cc)>>) \o <<createPmt(cc)>>
PROOF
<1> USE DEF TypeInv
<1> DEFINE cc  == getCc(TableKey)
           pat == createPat(cc)
           pmt == createPmt(cc)
<1>1. mMuxMtx = t  BY DEF Encode, Goto, Holder, InsideMuxer
<1>2. cc \in Cc  BY CcValues DEF CcKeys
<1>3. pat \in Packet /\ pmt \in Packet  BY <1>2, TablePackets
<1>4. Emit(t, <<pat, pmt>>) /\ UNCHANGED <<wire, mMuxMtx>>  BY DEF Encode
<1> HIDE DEF cc, pat, pmt
<1>5. <<pat>> \in Seq(Packet) /\ <<pmt>> \in Seq(Packet) /\ <<pat, pmt>> \in Seq(Packet)
  BY <1>3
<1>6. <<pat, pmt>> = <<pat>> \o <<pmt>>
  <2> DEFINE u == <<pat>> \o <<pmt>>
             w == <<pat, pmt>>
  <2>1. u \in Seq(Packet) /\ Len(u) = 2 /\ u[1] = pat /\ u[2] = pmt
    BY <1>3, <1>5, ConcatOne
  <2>2. w \in Seq(Packet) /\ Len(w) = 2 /\ w[1] = pat /\ w[2] = pmt  BY <1>5
  <2> HIDE DEF u, w
  <2>3. \A i \in 1 .. 2 : u[i] = w[i]  BY <2>1, <2>2
  <2>4. u = w  BY <2>1, <2>2, <2>3, SeqEqual
  <2> QED  BY <2>4 DEF u, w
<1>7. Stream' = Stream \o <<pat, pmt>>  BY <1>1, <1>4, <1>5, EmitStream
<1>8. \A a, b, c \in Seq(Packet) : (a \o b) \o c = a \o (b \o c)  BY ConcatAssociative
<1>9. Stream \in Seq(Packet)  BY StreamType
<1>10. Stream' = (Stream \o <<pat>>) \o <<pmt>>  BY <1>5, <1>6, <1>7, <1>8, <1>9
<1> QED  BY <1>1, <1>2, <1>3, <1>10 DEF cc, pat, pmt

(* So does a packet of a frame.                                            *)
LEMMA CreatePesEmits ==
    ASSUME TypeInv, Holder, NEW t \in Threads, CreatePes(t)
    PROVE  LET f   == job[t].shape
               cc  == getCc(f.type)
               pkt == PesPacket(f, job[t].frame, lFirst[t], mDataPos[t], cc)
           IN  /\ mMuxMtx = t /\ job[t].op = "encode"
               /\ f \in FrameShapes /\ job[t].frame \in Frame /\ f.type \in CcKeys /\ cc \in Cc
               /\ pkt \in Packet /\ pkt.pid = f.pid /\ pkt.cc = cc /\ hasPayload(pkt.afc)
               /\ Stream' = Stream \o <<pkt>>
PROOF
<1> USE DEF TypeInv
<1> DEFINE f   == job[t].shape
           cc  == getCc(f.type)
           pkt == PesPacket(f, job[t].frame, lFirst[t], mDataPos[t], cc)
<1>1. job[t].op = "encode" /\ mMuxMtx = t
  BY DEF CreatePes, OpOfCall, InsideMuxer, Holder
<1>2. f \in FrameShapes /\ job[t].frame \in Frame /\ f.type \in CcKeys
  BY <1>1, EncodeJobFields
<1>3. cc \in Cc  BY <1>2, CcValues
<1>4. pkt \in Packet /\ pkt.pid = f.pid /\ pkt.cc = cc /\ hasPayload(pkt.afc)
  BY <1>2, <1>3, PesPacketLayout DEF CreatePes, TypeOK
<1>5. Emit(t, <<pkt>>) /\ UNCHANGED <<wire, mMuxMtx>>  BY DEF CreatePes
<1> HIDE DEF f, cc, pkt
<1>6. <<pkt>> \in Seq(Packet)  BY <1>4
<1>7. Stream' = Stream \o <<pkt>>  BY <1>1, <1>5, <1>6, EmitStream
<1> QED  BY <1>1, <1>2, <1>3, <1>4, <1>7 DEF f, cc, pkt

(* So do the packets of createPcr and createNull.                          *)
LEMMA PcrEmits ==
    ASSUME TypeInv, Holder, NEW t \in Threads, CreatePcr(t)
    PROVE  /\ mMuxMtx = t /\ "pcr" \in Ops
           /\ PcrPacket(nCalls[t]) \in Packet /\ Stream' = Stream \o <<PcrPacket(nCalls[t])>>
PROOF
<1> USE DEF TypeInv
<1>1. mMuxMtx = t /\ "pcr" \in Ops  BY DEF CreatePcr, Goto, OpOfCall, InsideMuxer, Holder
<1>2. PcrPacket(nCalls[t]) \in Packet  BY OtherPackets DEF TypeOK
<1>3. Emit(t, <<PcrPacket(nCalls[t])>>) /\ UNCHANGED <<wire, mMuxMtx>>  BY DEF CreatePcr
<1>4. <<PcrPacket(nCalls[t])>> \in Seq(Packet)  BY <1>2
<1> QED  BY <1>1, <1>2, <1>3, <1>4, EmitStream

LEMMA NullEmits ==
    ASSUME TypeInv, Holder, NEW t \in Threads, CreateNull(t)
    PROVE  mMuxMtx = t /\ NullPacket \in Packet /\ Stream' = Stream \o <<NullPacket>>
PROOF
<1> USE DEF TypeInv
<1>1. mMuxMtx = t  BY DEF CreateNull, Goto, OpOfCall, InsideMuxer, Holder
<1>2. NullPacket \in Packet  BY OtherPackets
<1>3. Emit(t, <<NullPacket>>) /\ UNCHANGED <<wire, mMuxMtx>>  BY DEF CreateNull
<1>4. <<NullPacket>> \in Seq(Packet)  BY <1>2
<1> QED  BY <1>1, <1>2, <1>3, <1>4, EmitStream

ChainInv == Chained(Stream) /\ Counted(Stream, Counter)

(* A step that adds one packet that continues the counter of its PID.      *)
LEMMA ChainGrows ==
    ASSUME TypeOK, ChainInv, NEW p \in Packet, Stream' = Stream \o <<p>>,
           \/ p.pid = MPEGTS_NULL_PACKET_PID
           \/ Counter[p.pid] \in Cc =>
                p.cc = IF hasPayload(p.afc) THEN NextCc(Counter[p.pid]) ELSE Counter[p.pid],
           Counter' = [Counter EXCEPT ![p.pid] = p.cc]
    PROVE  ChainInv'
PROOF
<1>1. Stream \in Seq(Packet) /\ Counter \in [Pids -> Int]  BY StreamType, CounterType
<1>2. Chained(Stream \o <<p>>) /\ Counted(Stream \o <<p>>, [Counter EXCEPT ![p.pid] = p.cc])
  BY <1>1, ChainOne DEF ChainInv
<1> QED  BY <1>2 DEF ChainInv

LEMMA CcNext ==
    ASSUME PcrOutOfBand
    PROVE  TypeInv /\ Holder /\ EmptyOutside /\ ChainInv /\ [Next]_vars => ChainInv'
PROOF
<1> SUFFICES ASSUME TypeInv, Holder, EmptyOutside, ChainInv, [Next]_vars
             PROVE  ChainInv'
  OBVIOUS
<1> USE DEF TypeInv
<1>a. ASSUME Stream' = Stream, UNCHANGED mPidCcMap PROVE ChainInv'
  <2>1. Counter' = Counter  BY <1>a DEF Counter
  <2> QED  BY <1>a, <2>1 DEF ChainInv
<1>1. CASE UNCHANGED vars  BY <1>1, <1>a DEF vars, locals, Stream
<1> SUFFICES ASSUME NEW t \in Threads, Call(t) \/ Lock(t) \/ Inside(t) PROVE ChainInv'
  BY <1>1 DEF Next
<1>2. CASE Call(t)  BY <1>2, <1>a, StreamStays DEF Call
<1>3. CASE Lock(t)  BY <1>3, <1>a, StreamStays DEF Lock
<1>4. CASE Encode(t)
  <2>1. CASE TablesDue(t)
    <3> DEFINE cc  == getCc(TableKey)
               pat == createPat(cc)
               pmt == createPmt(cc)
    <3>1. /\ cc \in Cc /\ pat \in Packet /\ pmt \in Packet
          /\ Stream' = (Stream \o <<pat>>) \o <<pmt>>
      BY <1>4, <2>1, EncodeEmits
    <3>2. /\ pat.pid = MPEGTS_PAT_PID /\ pat.cc = cc /\ hasPayload(pat.afc)
          /\ pmt.pid = PmtPid /\ pmt.cc = cc /\ hasPayload(pmt.afc)
      BY DEF createPat, createPmt, TablePacket, hasPayload, mPayloadOnly
    <3>3. mPidCcMap' = [mPidCcMap EXCEPT ![TableKey] = cc]  BY <1>4, <2>1 DEF Encode
    <3> HIDE DEF cc, pat, pmt
    <3>4. /\ \A p \in TablePids : Counter[p] = mPidCcMap[TableKey]
          /\ Counter' = [[Counter EXCEPT ![MPEGTS_PAT_PID] = cc] EXCEPT ![PmtPid] = cc]
      BY <3>3, CounterTables DEF cc
    <3>5. mPidCcMap[TableKey] \in Cc => cc = NextCc(mPidCcMap[TableKey])
      BY DEF cc, getCc, NoCc, Cc, CcModulus
    <3>6. Stream \in Seq(Packet) /\ Counter \in [Pids -> Int]  BY StreamType, CounterType
    <3>7. PmtPid # MPEGTS_PAT_PID /\ PmtPid \in Pids /\ MPEGTS_PAT_PID \in Pids
      <4>1. PmtPid # MPEGTS_PAT_PID /\ PmtPid \in Pids
        BY MuxerAssumption, ReservedNumbers, Zenon
      <4>2. MPEGTS_PAT_PID \in Pids  BY DEF Pids, MPEGTS_PAT_PID, MPEGTS_NULL_PACKET_PID
      <4> QED  BY <4>1, <4>2
    <3> DEFINE s1 == Stream \o <<pat>>
               c1 == [Counter EXCEPT ![MPEGTS_PAT_PID] = cc]
    <3>8. Chained(s1) /\ Counted(s1, c1)
      BY <3>1, <3>2, <3>4, <3>5, <3>6, ChainOne DEF ChainInv, TablePids
    <3>9. s1 \in Seq(Packet) /\ c1 \in [Pids -> Int] /\ c1[PmtPid] = mPidCcMap[TableKey]
      <4>1. cc \in Int  BY <3>1 DEF Cc, CcModulus
      <4> QED  BY <3>1, <3>4, <3>6, <3>7, <4>1, ConcatOne DEF TablePids
    <3>10. Stream' = s1 \o <<pmt>>  BY <3>1
    <3> HIDE DEF s1, c1
    <3>11. Chained(s1 \o <<pmt>>) /\ Counted(s1 \o <<pmt>>, [c1 EXCEPT ![PmtPid] = cc])
      BY <3>1, <3>2, <3>5, <3>8, <3>9, ChainOne
    <3>12. Counter' = [c1 EXCEPT ![PmtPid] = cc]  BY <3>4 DEF c1
    <3> QED  BY <3>10, <3>11, <3>12 DEF ChainInv
  <2>2. CASE ~TablesDue(t)
    BY <1>4, <2>2, <1>a, StreamStays DEF Encode
  <2> QED  BY <2>1, <2>2
<1>5. CASE CreatePes(t)
  <2> DEFINE f   == job[t].shape
             cc  == getCc(f.type)
             pkt == PesPacket(f, job[t].frame, lFirst[t], mDataPos[t], cc)
  <2>1. /\ f \in FrameShapes
        /\ pkt \in Packet /\ pkt.pid = f.pid /\ pkt.cc = cc /\ hasPayload(pkt.afc)
        /\ Stream' = Stream \o <<pkt>>
    BY <1>5, CreatePesEmits
  <2>2. mPidCcMap' = [mPidCcMap EXCEPT ![f.type] = cc]  BY <1>5 DEF CreatePes
  <2>3. mPidCcMap[f.type] \in Cc => cc = NextCc(mPidCcMap[f.type])
    BY DEF getCc, NoCc, Cc, CcModulus
  <2>4. Counter[f.pid] = mPidCcMap[f.type] /\ Counter' = [Counter EXCEPT ![f.pid] = cc]
    BY <2>1, <2>2, CounterStep
  <2> HIDE DEF f, cc, pkt
  <2> QED  BY <2>1, <2>3, <2>4, ChainGrows
<1>6. CASE PesDone(t)  BY <1>6, <1>a, StreamStays DEF PesDone
<1>7. CASE CreatePcr(t)
  <2> DEFINE pkt == PcrPacket(nCalls[t])
  <2>1. "pcr" \in Ops /\ pkt \in Packet /\ Stream' = Stream \o <<pkt>>
    BY <1>7, PcrEmits
  <2>2. pkt.pid = PcrPid /\ pkt.cc = 0 /\ ~hasPayload(pkt.afc)
    BY DEF PcrPacket, hasPayload, mAdaptionOnly, mPayloadOnly, mPayloadAdaptionBoth
  <2>3. PcrPid \in Pids \ TablePids /\ \A f \in FrameShapes : f.pid # PcrPid
    BY <2>1, MuxerAssumption, ReservedNumbers DEF PcrOutOfBand, TablePids
  <2>4. Counter[PcrPid] = 0 /\ Counter \in [Pids -> Int]
    BY <2>3, CounterType DEF Counter
  <2>5. UNCHANGED mPidCcMap  BY <1>7 DEF CreatePcr
  <2>6. Counter' = Counter  BY <2>5 DEF Counter
  <2>7. Counter' = [Counter EXCEPT ![PcrPid] = 0]  BY <2>4, <2>6
  <2> HIDE DEF pkt
  <2> QED  BY <2>1, <2>2, <2>4, <2>7, ChainGrows
<1>8. CASE CreateNull(t)
  <2>1. NullPacket \in Packet /\ Stream' = Stream \o <<NullPacket>>  BY <1>8, NullEmits
  <2>2. NullPacket.pid = MPEGTS_NULL_PACKET_PID /\ NullPacket.cc = 0  BY DEF NullPacket
  <2>3. MPEGTS_NULL_PACKET_PID \in Pids \ TablePids
        /\ \A f \in FrameShapes : f.pid # MPEGTS_NULL_PACKET_PID
    <3>1. MPEGTS_NULL_PACKET_PID \in Pids /\ MPEGTS_NULL_PACKET_PID # MPEGTS_PAT_PID
      BY DEF Pids, MPEGTS_NULL_PACKET_PID, MPEGTS_PAT_PID
    <3>2. PmtPid # MPEGTS_NULL_PACKET_PID  BY MuxerAssumption, ReservedNumbers, Zenon
    <3>3. \A f \in FrameShapes : f.pid # MPEGTS_NULL_PACKET_PID  BY CounterOfFrame, Zenon
    <3> QED  BY <3>1, <3>2, <3>3, Zenon DEF TablePids
  <2>4. Counter[MPEGTS_NULL_PACKET_PID] = 0 /\ Counter \in [Pids -> Int]
    BY <2>3, CounterType DEF Counter
  <2>5. UNCHANGED mPidCcMap  BY <1>8 DEF CreateNull
  <2>6. Counter' = Counter  BY <2>5 DEF Counter
  <2>7. Counter' = [Counter EXCEPT ![MPEGTS_NULL_PACKET_PID] = 0]  BY <2>4, <2>6
  <2> QED  BY <2>1, <2>2, <2>7, ChainGrows
<1>9. CASE Callback(t)  BY <1>9, <1>a, StreamStays DEF Callback
<1>10. CASE Unlock(t)  BY <1>10, <1>a, StreamStays DEF Unlock
<1> QED  BY <1>2, <1>3, <1>4, <1>5, <1>6, <1>7, <1>8, <1>9, <1>10 DEF Inside

(***************************************************************************)
(* However many threads call encode, createPcr and createNull, with any    *)
(* frames, the packets of every PID carry consecutive continuity counters  *)
(* in the order they reach tsOutCallback - provided createPcr, which       *)
(* always writes counter 0, is used only for a PCR PID of its own.         *)
(***************************************************************************)
THEOREM CcAlwaysContinuous == PcrOutOfBand => (Spec => []CcContinuity)
PROOF
<1> SUFFICES ASSUME PcrOutOfBand PROVE Spec => []CcContinuity  OBVIOUS
<1> DEFINE Inv == Holder /\ EmptyOutside /\ ChainInv
<1>1. Init => Inv
  <2> SUFFICES ASSUME Init PROVE Inv  OBVIOUS
  <2>1. Holder  BY MuxerAssumption DEF Init, Holder, InsideMuxer
  <2>2. EmptyOutside  BY DEF Init, EmptyOutside
  <2>3. Stream = <<>>  BY DEF Init, Stream
  <2>4. ChainInv  BY <2>3 DEF ChainInv, Chained, Counted
  <2> QED  BY <2>1, <2>2, <2>4
<1>2. TypeInv /\ Inv /\ [Next]_vars => Inv'  BY HolderNext, CcNext
<1>3. TypeInv /\ Inv => CcContinuity
  <2> SUFFICES ASSUME TypeInv, Inv PROVE CcContinuity  OBVIOUS
  <2>1. wire \in Seq(Packet) /\ (mMuxMtx \in Threads => lSb[mMuxMtx] \in Seq(Packet))
        /\ mMuxMtx \in Threads \cup {NoThread}
    BY DEF TypeInv, TypeOK
  <2>2. Chained(wire)
    <3>1. CASE mMuxMtx = NoThread  BY <3>1 DEF ChainInv, Stream
    <3>2. CASE mMuxMtx # NoThread
      <4>1. Chained(wire \o lSb[mMuxMtx]) /\ lSb[mMuxMtx] \in Seq(Packet)
        BY <2>1, <3>2 DEF ChainInv, Stream
      <4> QED  BY <2>1, <4>1, ChainPrefix
    <3> QED  BY <3>1, <3>2
  <2> QED  BY <2>2 DEF Chained, CcContinuity
<1> HIDE DEF Inv
<1> QED  BY <1>1, <1>2, <1>3, TypeInit, TypeNext, PTL DEF Spec
-----------------------------------------------------------------------------
(***************************************************************************)
(* What receivers rely on in the order of the packets: frames come whole,  *)
(* tables come often enough and where segments start.                      *)
(***************************************************************************)

(***************************************************************************)
(* Where the thread in createPes stands in its frame.                      *)
(***************************************************************************)
Position ==
    \A t \in Threads :
        /\ lFirst[t] <=> mDataPos[t] = 0
        /\ job[t].op = "encode" => mDataPos[t] <= job[t].shape.size
        /\ pc[t] \in {"wait", "encode"} => lFirst[t]

(***************************************************************************)
(* Frames in order. A cursor is how far a frame of a PID has come; the     *)
(* open frame is the one the thread in createPes has begun. In a stream    *)
(* with those frames open every other frame is complete.                   *)
(***************************************************************************)
IsPes(p)  == p.load.kind = "pes"
Cursor(p) == [pid |-> p.pid, frame |-> p.load.run.frame, end |-> EndOf(p.load.run)]

FramePids == {f.pid : f \in FrameShapes}
Open ==
    {[pid |-> job[t].shape.pid, frame |-> job[t].frame, end |-> mDataPos[t]] :
        t \in {u \in Threads : pc[u] = "pes" /\ ~lFirst[u]}}

RunFits(p) ==
    LET r == p.load.run
    IN  /\ p.pid \in FramePids
        /\ r \in [frame : Frame, from : Nat, len : Nat \ {0}]
        /\ EndOf(r) <= r.frame.size
        /\ p.pusi <=> r.from = 0

Continues(s, j) ==
    \E i \in DOMAIN s : /\ Precedes(s, i, j) /\ IsPes(s[i])
                        /\ s[i].load.run.frame = s[j].load.run.frame
                        /\ EndOf(s[i].load.run) = s[j].load.run.from

Whole(s, open) ==
    /\ \A i \in DOMAIN s : IsPes(s[i]) => RunFits(s[i])
    /\ \A i \in DOMAIN s : IsPes(s[i]) /\ ~s[i].pusi => Continues(s, i)
    /\ \A i, k \in DOMAIN s : Precedes(s, i, k) /\ IsPes(s[i]) =>
          (EndOf(s[i].load.run) = s[i].load.run.frame.size <=> s[k].pusi)
    /\ \A i \in DOMAIN s : LastOfPid(s, i) /\ IsPes(s[i]) =>
          EndOf(s[i].load.run) = s[i].load.run.frame.size \/ Cursor(s[i]) \in open
    /\ \A o \in open : \E i \in DOMAIN s : LastOfPid(s, i) /\ IsPes(s[i]) /\ Cursor(s[i]) = o

FrameInv == Whole(Stream, Open) /\ Whole(wire, {})

(***************************************************************************)
(* Tables in a stream, and frames started since.                           *)
(***************************************************************************)
TablesIn(s, i) ==
    /\ i \in DOMAIN s /\ i + 1 \in DOMAIN s
    /\ s[i].load.kind = "pat"
    /\ s[i + 1].load.kind = "pmt"
    /\ s[i].load.programs[1].pmt = s[i + 1].pid

(* Random access frames with the tables before them, and the tables ready  *)
(* for the one about to start.                                             *)
SegmentInv ==
    MuxType = "segmentType" =>
        /\ \A j \in DOMAIN Stream :
              IsStart(Stream[j]) /\ Stream[j].load.run.frame.key => TablesIn(Stream, j - 2)
        /\ \A t \in Threads :
              pc[t] = "pes" /\ lFirst[t] /\ job[t].frame.key => TablesIn(Stream, Len(Stream) - 1)

Starts(s, i, j) == {k \in i .. j : IsStart(s[k])}
Cadenced(s) ==
    \A j \in DOMAIN s : IsStart(s[j]) =>
        \E i \in 1 .. j : TablesIn(s, i) /\ Cardinality(Starts(s, i, j)) <= PatInterval
SinceTables(s, n) ==
    \E i \in DOMAIN s : TablesIn(s, i) /\ Cardinality(Starts(s, i, Len(s))) <= n

(* mCurrentIndex counts the frames since the last tables, the one about to *)
(* start included.                                                         *)
Pending == \E t \in Threads : pc[t] = "pes" /\ lFirst[t]
CadenceInv ==
    MuxType = "h222Type" =>
        /\ Cadenced(Stream)
        /\ mCurrentIndex = 0 => ~Pending /\ \A j \in DOMAIN Stream : ~IsStart(Stream[j])
        /\ mCurrentIndex > 0 => SinceTables(Stream, IF Pending THEN mCurrentIndex - 1 ELSE mCurrentIndex)
-----------------------------------------------------------------------------
(***************************************************************************)
(* The run of bytes in a packet of createPes.                              *)
(***************************************************************************)
LEMMA FilledRun ==
    ASSUME NEW h \in Packet, h.load \in PesData, NEW n \in Nat
    PROVE  LET p == Filled(h, n)
           IN  /\ p.load.kind = "pes" /\ p.pusi = h.pusi
               /\ p.load.run = [frame |-> h.load.run.frame, from |-> h.load.run.from, len |-> n]
PROOF
<1> DEFINE load == [h.load EXCEPT !.run.len = n]
<1>1. /\ load.kind = "pes"
      /\ load.run = [frame |-> h.load.run.frame, from |-> h.load.run.from, len |-> n]
  BY DEF PesData
<1>2. Filled(h, n) = [h EXCEPT !.load = load]  BY DEF Filled
<1>3. Filled(h, n).load = load /\ Filled(h, n).pusi = h.pusi
  <2> HIDE DEF load
  <2> QED  BY <1>2 DEF Packet
<1> QED  BY <1>1, <1>3

(* Each packet of a frame goes on at the read position, takes at least one *)
(* byte and no more than are left, and only the first is a start.          *)
LEMMA PesPacketRun ==
    ASSUME NEW f \in FrameShapes, NEW frame \in Frame, NEW first \in BOOLEAN,
           NEW pos \in Nat, pos < f.size, NEW cc \in Cc
    PROVE  LET p == PesPacket(f, frame, first, pos, cc)
               r == p.load.run
           IN  /\ IsPes(p) /\ p.pusi = first
               /\ r \in [frame : Frame, from : Nat, len : Nat \ {0}]
               /\ r.frame = frame /\ r.from = pos /\ r.len <= f.size - pos
PROOF
<1> DEFINE p  == PesPacket(f, frame, first, pos, cc)
           in == f.size - pos
<1>0. in \in Nat \ {0}  BY MuxerAssumption DEF Shape
<1>1. PICK h \in Packet :
        /\ h = Unstuffed(f, frame, first, pos, cc)
        /\ h.load \in PesData /\ h.pusi = first
        /\ DataStart(h) \in 4 .. 31
        /\ \/ h.afc = mPayloadOnly /\ h.af = NoAf
           \/ h.afc = mPayloadAdaptionBoth
  <2> DEFINE u == Unstuffed(f, frame, first, pos, cc)
  <2>1. /\ u \in Packet
        /\ u.pid = f.pid /\ u.cc = cc /\ u.pusi = first
        /\ u.bytes = kTsPacketSize_188
        /\ u.load \in PesData /\ PesBytes(u) \in Nat
        /\ \/ u.afc = mPayloadOnly /\ u.af = NoAf /\ AfBytes(u) = 0
           \/ u.afc = mPayloadAdaptionBoth /\ u.af.len \in {1, 7} /\ AfBytes(u) = 1 + u.af.len
        /\ DataStart(u) \in 4 .. 31
    BY UnstuffedLayout, Zenon
  <2>2. u = Unstuffed(f, frame, first, pos, cc)  OBVIOUS
  <2> HIDE DEF u
  <2> QED  BY <2>1, <2>2, Zenon
<1>2. h.load.run.frame = frame /\ h.load.run.from = pos
  BY <1>1 DEF Unstuffed, PesLoad, Run
<1>3. BodySize(h) \in 157 .. 184  BY <1>1 DEF BodySize, kTsPacketSize_188
<1>4. PICK n \in 1 .. in :
        /\ IsPes(p) /\ p.pusi = first
        /\ p.load.run = [frame |-> frame, from |-> pos, len |-> n]
  <2>1. CASE BodySize(h) <= in
    <3>1. p = Filled(h, BodySize(h)) /\ BodySize(h) \in Nat /\ BodySize(h) \in 1 .. in
      BY <1>0, <1>1, <1>3, <2>1 DEF PesPacket
    <3>2. IsPes(p) /\ p.pusi = first
          /\ p.load.run = [frame |-> frame, from |-> pos, len |-> BodySize(h)]
      BY <3>1, <1>1, <1>2, FilledRun DEF IsPes
    <3> HIDE DEF p
    <3> QED  BY <3>1, <3>2
  <2>2. CASE ~(BodySize(h) <= in)
    <3> DEFINE stuff == BodySize(h) - in
    <3>1. stuff \in Nat \ {0}  BY <1>0, <1>3, <2>2
    <3>2. PICK q \in Packet : q = Stuffed(h, stuff) /\ q.load = h.load /\ q.pusi = h.pusi
      <4> HIDE DEF stuff
      <4> QED  BY <3>1, <1>1, StuffedFields
    <3>3. p = Filled(q, in)  BY <3>2, <1>1, <2>2 DEF PesPacket
    <3>4. IsPes(p) /\ p.pusi = first
          /\ p.load.run = [frame |-> frame, from |-> pos, len |-> in]
      BY <3>2, <3>3, <1>0, <1>1, <1>2, FilledRun DEF IsPes
    <3> HIDE DEF p
    <3> QED  BY <3>4, <1>0
  <2> QED  BY <2>1, <2>2
<1>5. n \in Nat \ {0} /\ n <= f.size - pos  BY <1>0
<1> QED  BY <1>4, <1>5 DEF p
-----------------------------------------------------------------------------
(***************************************************************************)
(* Packets joining a stream of frames.                                     *)
(***************************************************************************)

(* The stream with one more packet: where everything is, what precedes the *)
(* newcomer and what is now last.                                          *)
LEMMA OneMore ==
    ASSUME NEW s \in Seq(Packet), NEW p \in Packet
    PROVE  LET u == s \o <<p>>
               n == Len(s) + 1
           IN  /\ u \in Seq(Packet) /\ DOMAIN u = 1 .. n /\ Len(u) = n /\ n \in Nat
               /\ DOMAIN s = 1 .. Len(s) /\ Len(s) \in Nat
               /\ u[n] = p /\ \A i \in 1 .. Len(s) : u[i] = s[i] /\ s[i] \in Packet
               /\ \A i \in DOMAIN s, j \in DOMAIN s : Precedes(s, i, j) <=> Precedes(u, i, j)
               /\ \A i \in DOMAIN s : Precedes(u, i, n) <=> LastOfPid(s, i) /\ s[i].pid = p.pid
               /\ \A i \in DOMAIN s : LastOfPid(u, i) <=> LastOfPid(s, i) /\ s[i].pid # p.pid
               /\ LastOfPid(u, n)
PROOF
<1> DEFINE u == s \o <<p>>
           n == Len(s) + 1
<1>1. /\ u \in Seq(Packet) /\ DOMAIN u = 1 .. n /\ Len(u) = n /\ n \in Nat
      /\ DOMAIN s = 1 .. Len(s) /\ Len(s) \in Nat
      /\ u[n] = p /\ \A i \in 1 .. Len(s) : u[i] = s[i] /\ s[i] \in Packet
  BY ConcatOne, LenProperties, ElementOfSeq
<1> HIDE DEF u
<1>2. \A i \in DOMAIN s, j \in DOMAIN s : Precedes(s, i, j) <=> Precedes(u, i, j)
  BY <1>1 DEF Precedes
<1>3. \A i \in DOMAIN s : Precedes(u, i, n) <=> LastOfPid(s, i) /\ s[i].pid = p.pid
  BY <1>1 DEF Precedes, LastOfPid
<1>4. \A i \in DOMAIN s : LastOfPid(u, i) <=> LastOfPid(s, i) /\ s[i].pid # p.pid
  BY <1>1 DEF LastOfPid
<1>5. LastOfPid(u, n)  BY <1>1 DEF LastOfPid
<1> QED  BY <1>1, <1>2, <1>3, <1>4, <1>5 DEF u

(* A PID has one last packet.                                              *)
LEMMA OneLast ==
    ASSUME NEW s \in Seq(Packet), NEW i \in DOMAIN s, NEW k \in DOMAIN s,
           LastOfPid(s, i), LastOfPid(s, k), s[i].pid = s[k].pid
    PROVE  i = k
BY LenProperties DEF LastOfPid

(* A packet that is not part of a frame, on a PID without frames.          *)
LEMMA WholeOther ==
    ASSUME NEW s \in Seq(Packet), NEW p \in Packet, NEW open, Whole(s, open),
           ~IsPes(p), p.pid \notin FramePids
    PROVE  Whole(s \o <<p>>, open)
PROOF
<1> DEFINE u == s \o <<p>>
           n == Len(s) + 1
<1>1. /\ u \in Seq(Packet) /\ DOMAIN u = 1 .. n /\ Len(u) = n /\ n \in Nat
      /\ DOMAIN s = 1 .. Len(s) /\ Len(s) \in Nat
      /\ u[n] = p /\ \A i \in 1 .. Len(s) : u[i] = s[i] /\ s[i] \in Packet
      /\ \A i \in DOMAIN s, j \in DOMAIN s : Precedes(s, i, j) <=> Precedes(u, i, j)
      /\ \A i \in DOMAIN s : Precedes(u, i, n) <=> LastOfPid(s, i) /\ s[i].pid = p.pid
      /\ \A i \in DOMAIN s : LastOfPid(u, i) <=> LastOfPid(s, i) /\ s[i].pid # p.pid
  BY OneMore
<1> HIDE DEF u
<1>2. \A i \in DOMAIN u : IsPes(u[i]) => i \in DOMAIN s /\ u[i] = s[i]  BY <1>1
<1>3. \A i \in DOMAIN s : IsPes(s[i]) => s[i].pid # p.pid  BY DEF Whole, RunFits
<1>4. \A i \in DOMAIN u : IsPes(u[i]) => RunFits(u[i])  BY <1>2 DEF Whole
<1>5. \A i \in DOMAIN u : IsPes(u[i]) /\ ~u[i].pusi => Continues(u, i)
  BY <1>1, <1>2 DEF Whole, Continues
<1>6. ASSUME NEW i \in DOMAIN u, NEW k \in DOMAIN u, Precedes(u, i, k), IsPes(u[i])
      PROVE  EndOf(u[i].load.run) = u[i].load.run.frame.size <=> u[k].pusi
  <2>1. i \in DOMAIN s /\ u[i] = s[i] /\ s[i].pid # p.pid  BY <1>2, <1>3, <1>6
  <2>2. k \in DOMAIN s /\ u[k] = s[k]  BY <1>1, <1>6, <2>1
  <2>3. Precedes(s, i, k)  BY <1>1, <1>6, <2>1, <2>2
  <2> QED  BY <1>6, <2>1, <2>2, <2>3 DEF Whole
<1>7. \A i \in DOMAIN u : LastOfPid(u, i) /\ IsPes(u[i]) =>
          EndOf(u[i].load.run) = u[i].load.run.frame.size \/ Cursor(u[i]) \in open
  BY <1>1, <1>2 DEF Whole
<1>8. \A o \in open : \E i \in DOMAIN u : LastOfPid(u, i) /\ IsPes(u[i]) /\ Cursor(u[i]) = o
  BY <1>1, <1>3 DEF Whole
<1> QED  BY <1>4, <1>5, <1>6, <1>7, <1>8 DEF Whole, u

(* A packet of a frame: the first, on a PID where no frame is open, or the *)
(* next of the frame that is.                                              *)
LEMMA WholePes ==
    ASSUME NEW s \in Seq(Packet), NEW p \in Packet, NEW open, Whole(s, open),
           IsPes(p), RunFits(p),
           \/ p.pusi /\ \A o \in open : o.pid # p.pid
           \/ /\ ~p.pusi /\ p.load.run.from < p.load.run.frame.size
              /\ [pid |-> p.pid, frame |-> p.load.run.frame, end |-> p.load.run.from] \in open
    PROVE  Whole(s \o <<p>>, {o \in open : o.pid # p.pid} \cup {Cursor(p)})
PROOF
<1> DEFINE u == s \o <<p>>
           n == Len(s) + 1
           now == {o \in open : o.pid # p.pid} \cup {Cursor(p)}
           r == p.load.run
           before == [pid |-> p.pid, frame |-> r.frame, end |-> r.from]
<1>1. /\ u \in Seq(Packet) /\ DOMAIN u = 1 .. n /\ Len(u) = n /\ n \in Nat
      /\ DOMAIN s = 1 .. Len(s) /\ Len(s) \in Nat
      /\ u[n] = p /\ \A i \in 1 .. Len(s) : u[i] = s[i] /\ s[i] \in Packet
      /\ \A i \in DOMAIN s, j \in DOMAIN s : Precedes(s, i, j) <=> Precedes(u, i, j)
      /\ \A i \in DOMAIN s : Precedes(u, i, n) <=> LastOfPid(s, i) /\ s[i].pid = p.pid
      /\ \A i \in DOMAIN s : LastOfPid(u, i) <=> LastOfPid(s, i) /\ s[i].pid # p.pid
      /\ LastOfPid(u, n)
  BY OneMore
<1>p. p.pusi \in BOOLEAN  BY DEF Packet
<1> HIDE DEF u
<1>2. \A i \in DOMAIN u : (i \in DOMAIN s /\ u[i] = s[i]) \/ (i = n /\ u[i] = p)  BY <1>1
<1>3. \A i \in DOMAIN u : IsPes(u[i]) => RunFits(u[i])  BY <1>2 DEF Whole
<1>4. ASSUME ~p.pusi
      PROVE  \E i \in DOMAIN s : /\ LastOfPid(s, i) /\ IsPes(s[i]) /\ s[i].pid = p.pid
                                 /\ s[i].load.run.frame = r.frame /\ EndOf(s[i].load.run) = r.from
  <2>1. PICK i \in DOMAIN s : LastOfPid(s, i) /\ IsPes(s[i]) /\ Cursor(s[i]) = before
    BY <1>4 DEF Whole
  <2> QED  BY <2>1 DEF Cursor
<1>5. ASSUME NEW i \in DOMAIN u, IsPes(u[i]), ~u[i].pusi PROVE Continues(u, i)
  <2>1. CASE i \in DOMAIN s /\ u[i] = s[i]
    BY <1>1, <1>5, <2>1 DEF Whole, Continues
  <2>2. CASE i = n /\ u[i] = p
    BY <1>1, <1>4, <1>5, <2>2 DEF Continues
  <2> QED  BY <1>2, <2>1, <2>2
<1>6. ASSUME NEW i \in DOMAIN u, NEW k \in DOMAIN u, Precedes(u, i, k), IsPes(u[i])
      PROVE  EndOf(u[i].load.run) = u[i].load.run.frame.size <=> u[k].pusi
  <2>1. i \in DOMAIN s /\ u[i] = s[i]  BY <1>1, <1>6 DEF Precedes
  <2>2. CASE k \in DOMAIN s /\ u[k] = s[k]
    <3>1. Precedes(s, i, k)  BY <1>1, <1>6, <2>1, <2>2
    <3> QED  BY <1>6, <2>1, <2>2, <3>1 DEF Whole
  <2>3. CASE k = n /\ u[k] = p
    <3>1. LastOfPid(s, i) /\ s[i].pid = p.pid  BY <1>1, <1>6, <2>1, <2>3
    <3>2. EndOf(s[i].load.run) = s[i].load.run.frame.size \/ Cursor(s[i]) \in open
      BY <1>6, <2>1, <3>1 DEF Whole
    <3>3. CASE p.pusi
      <4>1. Cursor(s[i]) \notin open  BY <3>1, <3>3 DEF Cursor
      <4> QED  BY <2>1, <2>3, <3>2, <3>3, <4>1
    <3>4. CASE ~p.pusi
      <4>1. PICK k1 \in DOMAIN s :
              /\ LastOfPid(s, k1) /\ s[k1].pid = p.pid
              /\ s[k1].load.run.frame = r.frame /\ EndOf(s[k1].load.run) = r.from
        BY <1>4, <3>4
      <4>2. i = k1
        <5>1. LastOfPid(s, i) /\ LastOfPid(s, k1) /\ s[i].pid = s[k1].pid  BY <3>1, <4>1
        <5> QED  BY <2>1, <5>1, OneLast
      <4>3. r.from < r.frame.size /\ r.from \in Nat /\ r.frame.size \in Nat
        BY <3>4 DEF RunFits, Frame
      <4>4. EndOf(s[i].load.run) # s[i].load.run.frame.size
        <5> HIDE DEF r
        <5> QED  BY <4>1, <4>2, <4>3
      <4> QED  BY <2>1, <2>3, <3>4, <4>4
    <3> QED  BY <3>3, <3>4
  <2> QED  BY <1>2, <2>2, <2>3
<1>7. ASSUME NEW i \in DOMAIN u, LastOfPid(u, i), IsPes(u[i])
      PROVE  EndOf(u[i].load.run) = u[i].load.run.frame.size \/ Cursor(u[i]) \in now
  <2>1. CASE i \in DOMAIN s /\ u[i] = s[i]
    <3>1. LastOfPid(s, i) /\ s[i].pid # p.pid  BY <1>1, <1>7, <2>1
    <3>2. EndOf(s[i].load.run) = s[i].load.run.frame.size \/ Cursor(s[i]) \in open
      BY <1>7, <2>1, <3>1 DEF Whole
    <3> QED  BY <2>1, <3>1, <3>2 DEF Cursor
  <2>2. CASE i = n /\ u[i] = p  BY <2>2
  <2> QED  BY <1>2, <2>1, <2>2
<1>8. ASSUME NEW o \in now
      PROVE  \E i \in DOMAIN u : LastOfPid(u, i) /\ IsPes(u[i]) /\ Cursor(u[i]) = o
  <2>1. CASE o \in open /\ o.pid # p.pid
    <3>1. PICK i \in DOMAIN s : LastOfPid(s, i) /\ IsPes(s[i]) /\ Cursor(s[i]) = o
      BY <2>1 DEF Whole
    <3>2. s[i].pid # p.pid  BY <2>1, <3>1 DEF Cursor
    <3> QED  BY <1>1, <3>1, <3>2
  <2>2. CASE o = Cursor(p)  BY <1>1, <2>2
  <2> QED  BY <2>1, <2>2
<1> QED  BY <1>3, <1>5, <1>6, <1>7, <1>8 DEF Whole, u

(* An open frame that has all its bytes counts as complete.                *)
LEMMA WholeCloses ==
    ASSUME NEW s \in Seq(Packet), NEW open, Whole(s, open),
           \A o \in open : o.end = o.frame.size
    PROVE  Whole(s, {})
BY DEF Whole, Cursor
-----------------------------------------------------------------------------
(***************************************************************************)
(* Frames leave the multiplexer whole.                                     *)
(***************************************************************************)
LEMMA PositionNext ==
    TypeInv /\ Position /\ [Next]_vars => Position'
PROOF
<1> SUFFICES ASSUME TypeInv, Position, [Next]_vars PROVE Position'  OBVIOUS
<1> USE DEF TypeInv, Position
<1>1. CASE UNCHANGED vars  BY <1>1 DEF vars, locals
<1> SUFFICES ASSUME NEW t \in Threads, Call(t) \/ Lock(t) \/ Inside(t) PROVE Position'
  BY <1>1 DEF Next
<1>2. CASE Call(t)
  <2>1. /\ lFirst' = [lFirst EXCEPT ![t] = TRUE]
        /\ mDataPos' = [mDataPos EXCEPT ![t] = 0]
        /\ pc' = [pc EXCEPT ![t] = "wait"]
    BY <1>2 DEF Call, Goto
  <2>2. /\ \A u \in Threads \ {t} : job'[u] = job[u]
        /\ job'[t].op = "encode" => job'[t].shape \in FrameShapes
    BY <1>2 DEF Call, TypeOK
  <2>3. \A f \in FrameShapes : 0 <= f.size  BY MuxerAssumption DEF Shape
  <2> QED  BY <2>1, <2>2, <2>3 DEF TypeOK
<1>3. CASE Lock(t)  BY <1>3 DEF Lock, Goto, locals, TypeOK
<1>4. CASE Encode(t)  BY <1>4 DEF Encode, Goto, TypeOK
<1>5. CASE CreatePes(t)
  <2> DEFINE f   == job[t].shape
             pkt == PesPacket(f, job[t].frame, lFirst[t], mDataPos[t], getCc(f.type))
             n   == pkt.load.run.len
  <2>1. job[t].op = "encode"  BY <1>5 DEF CreatePes, OpOfCall
  <2>2. f \in FrameShapes /\ job[t].frame \in Frame /\ getCc(f.type) \in Cc /\ f.size \in Nat
    BY <2>1, EncodeJobFields, CcValues
  <2>3. n \in Nat \ {0} /\ n <= f.size - mDataPos[t]
    BY <1>5, <2>2, PesPacketRun DEF CreatePes, TypeOK
  <2>4. /\ mDataPos' = [mDataPos EXCEPT ![t] = mDataPos[t] + n]
        /\ lFirst' = [lFirst EXCEPT ![t] = FALSE]
        /\ UNCHANGED <<pc, job>> /\ pc[t] = "pes"
    BY <1>5 DEF CreatePes
  <2> HIDE DEF n
  <2>5. mDataPos[t] \in Nat  BY DEF TypeOK
  <2>6. mDataPos[t] + n # 0 /\ mDataPos[t] + n <= f.size  BY <2>2, <2>3, <2>5
  <2> HIDE DEF f
  <2> QED  BY <2>4, <2>6 DEF TypeOK, f
<1>6. CASE PesDone(t)  BY <1>6 DEF PesDone, Goto, locals, TypeOK
<1>7. CASE CreatePcr(t)  BY <1>7 DEF CreatePcr, Goto, TypeOK
<1>8. CASE CreateNull(t)  BY <1>8 DEF CreateNull, Goto, TypeOK
<1>9. CASE Callback(t)  BY <1>9 DEF Callback, Goto, TypeOK
<1>10. CASE Unlock(t)  BY <1>10 DEF Unlock, Goto, locals, TypeOK
<1> QED  BY <1>2, <1>3, <1>4, <1>5, <1>6, <1>7, <1>8, <1>9, <1>10 DEF Inside

(* Only the holder of the mutex has a frame open.                          *)
LEMMA OpenIsHolders ==
    ASSUME TypeInv, Holder, NEW t \in Threads, mMuxMtx = t
    PROVE  Open = IF pc[t] = "pes" /\ ~lFirst[t]
                  THEN {[pid |-> job[t].shape.pid, frame |-> job[t].frame, end |-> mDataPos[t]]}
                  ELSE {}
BY DEF Open, Holder, InsideMuxer

(* PIDs of frames carry frames only.                                       *)
LEMMA FramePidsApart ==
    /\ MPEGTS_PAT_PID \notin FramePids /\ PmtPid \notin FramePids
    /\ MPEGTS_NULL_PACKET_PID \notin FramePids
BY CounterOfFrame, Zenon DEF FramePids, TablePids

LEMMA FrameNext ==
    ASSUME PcrOutOfBand
    PROVE  /\ TypeInv /\ Holder /\ EmptyOutside /\ Position /\ FrameInv
           /\ TypeInv' /\ Holder' /\ [Next]_vars
           => FrameInv'
PROOF
<1> SUFFICES ASSUME TypeInv, Holder, EmptyOutside, Position, FrameInv,
                    TypeInv', Holder', [Next]_vars
             PROVE  FrameInv'
  OBVIOUS
<1>a. ASSUME Stream' = Stream, Open' = Open, wire' = wire PROVE FrameInv'
  BY <1>a DEF FrameInv
<1>s. Stream \in Seq(Packet)  BY StreamType DEF TypeInv
<1>1. CASE UNCHANGED vars  BY <1>1, <1>a DEF vars, locals, Stream, Open
<1> SUFFICES ASSUME NEW t \in Threads, Call(t) \/ Lock(t) \/ Inside(t) PROVE FrameInv'
  BY <1>1 DEF Next
<1>h. ASSUME pc[t] \in InsideMuxer PROVE mMuxMtx = t  BY <1>h DEF Holder
<1>k. ASSUME mMuxMtx = t, pc'[t] # "pes", mMuxMtx' = t PROVE Open' = {}
  BY <1>k DEF Open, Holder, InsideMuxer
<1>2. CASE Call(t)
  <2>1. /\ pc[t] # "pes" /\ pc'[t] # "pes"
        /\ \A u \in Threads \ {t} : /\ pc'[u] = pc[u] /\ lFirst'[u] = lFirst[u]
                                     /\ job'[u] = job[u] /\ mDataPos'[u] = mDataPos[u]
    BY <1>2 DEF Call, Goto, TypeInv, TypeOK
  <2>2. {u \in Threads : pc'[u] = "pes" /\ ~lFirst'[u]}
          = {u \in Threads \ {t} : pc[u] = "pes" /\ ~lFirst[u]}
    BY <2>1
  <2>3. {u \in Threads : pc[u] = "pes" /\ ~lFirst[u]}
          = {u \in Threads \ {t} : pc[u] = "pes" /\ ~lFirst[u]}
    BY <2>1
  <2>4. Open' = Open  BY <2>1, <2>2, <2>3 DEF Open
  <2> QED  BY <1>2, <2>4, <1>a, StreamStays DEF Call
<1>3. CASE Lock(t)
  <2>1. job[t].op \in {"encode", "pcr", "null"}
    BY <1>3, MuxerAssumption DEF Lock, Goto, TypeInv, OpOfCall
  <2>2. pc[t] # "pes" /\ pc'[t] # "pes" /\ \A u \in Threads \ {t} : pc'[u] = pc[u]
    BY <1>3, <2>1 DEF Lock, Goto, TypeInv, TypeOK
  <2>3. {u \in Threads : pc'[u] = "pes" /\ ~lFirst[u]} = {u \in Threads : pc[u] = "pes" /\ ~lFirst[u]}
    BY <2>2
  <2>4. Open' = Open  BY <1>3, <2>3 DEF Lock, locals, Open
  <2> QED  BY <1>3, <2>4, <1>a, StreamStays DEF Lock
<1>4. CASE Encode(t)
  <2>1. mMuxMtx = t /\ mMuxMtx' = t /\ wire' = wire
    BY <1>4, <1>h DEF Encode, Goto, InsideMuxer
  <2>2. Open = {} /\ Open' = {}
    <3>1. pc[t] = "encode" /\ lFirst[t] /\ lFirst' = lFirst
      BY <1>4 DEF Encode, Goto, Position
    <3>2. Open = {}  BY <2>1, <3>1, OpenIsHolders
    <3>3. Open' = {}  BY <2>1, <3>1 DEF Open, Holder, InsideMuxer
    <3> QED  BY <3>2, <3>3
  <2>3. CASE TablesDue(t)
    <3> DEFINE pat == createPat(getCc(TableKey))
               pmt == createPmt(getCc(TableKey))
    <3>1. pat \in Packet /\ pmt \in Packet /\ Stream' = (Stream \o <<pat>>) \o <<pmt>>
      BY <1>4, <2>3, EncodeEmits
    <3>2. ~IsPes(pat) /\ ~IsPes(pmt) /\ pat.pid = MPEGTS_PAT_PID /\ pmt.pid = PmtPid
      BY DEF createPat, createPmt, TablePacket, PatLoad, PmtLoad, IsPes
    <3>3. pat.pid \notin FramePids /\ pmt.pid \notin FramePids  BY <3>2, FramePidsApart
    <3> HIDE DEF pat, pmt
    <3>4. Whole(Stream \o <<pat>>, {}) /\ Stream \o <<pat>> \in Seq(Packet)
      BY <1>s, <2>2, <3>1, <3>2, <3>3, WholeOther, ConcatOne DEF FrameInv
    <3>5. Whole((Stream \o <<pat>>) \o <<pmt>>, {})
      BY <3>1, <3>2, <3>3, <3>4, WholeOther
    <3> QED  BY <2>1, <2>2, <3>1, <3>5 DEF FrameInv
  <2>4. CASE ~TablesDue(t)  BY <1>4, <1>a, <2>1, <2>2, <2>4, StreamStays
  <2> QED  BY <2>3, <2>4
<1>5. CASE CreatePes(t)
  <2> DEFINE f     == job[t].shape
             frame == job[t].frame
             pos   == mDataPos[t]
             pkt   == PesPacket(f, frame, lFirst[t], pos, getCc(f.type))
             r     == pkt.load.run
  <2>1. /\ mMuxMtx = t /\ job[t].op = "encode" /\ f \in FrameShapes /\ frame \in Frame
        /\ getCc(f.type) \in Cc /\ pkt \in Packet /\ pkt.pid = f.pid
        /\ Stream' = Stream \o <<pkt>>
    BY <1>5, CreatePesEmits
  <2>2. /\ pc[t] = "pes" /\ pos < f.size /\ pos \in Nat /\ lFirst[t] \in BOOLEAN
        /\ lFirst[t] <=> pos = 0
        /\ frame.size = f.size /\ f.size \in Nat
    BY <1>5, <2>1, EncodeJobFields DEF CreatePes, TypeInv, TypeOK, Position
  <2>3. /\ IsPes(pkt) /\ pkt.pusi = lFirst[t]
        /\ r \in [frame : Frame, from : Nat, len : Nat \ {0}]
        /\ r.frame = frame /\ r.from = pos /\ r.len <= f.size - pos
    BY <2>1, <2>2, PesPacketRun
  <2>4. /\ mDataPos' = [mDataPos EXCEPT ![t] = pos + r.len]
        /\ lFirst' = [lFirst EXCEPT ![t] = FALSE]
        /\ UNCHANGED <<pc, job, wire, mMuxMtx>>
    BY <1>5 DEF CreatePes
  <2> HIDE DEF pkt
  <2>5. RunFits(pkt)
    <3>1. EndOf(r) = pos + r.len /\ r.len \in Nat  BY <2>3 DEF EndOf
    <3>2. EndOf(r) <= r.frame.size  BY <2>2, <2>3, <3>1
    <3>3. pkt.pid \in FramePids  BY <2>1 DEF FramePids
    <3> QED  BY <2>2, <2>3, <3>2, <3>3 DEF RunFits
  <2>6. Open = IF lFirst[t] THEN {} ELSE {[pid |-> f.pid, frame |-> frame, end |-> pos]}
    BY <2>1, <2>2, OpenIsHolders
  <2>7. Whole(Stream \o <<pkt>>, {o \in Open : o.pid # pkt.pid} \cup {Cursor(pkt)})
    <3>1. CASE lFirst[t]
      <4>1. pkt.pusi /\ \A o \in Open : o.pid # pkt.pid  BY <2>3, <2>6, <3>1
      <4> QED  BY <1>s, <2>1, <2>3, <2>5, <4>1, WholePes DEF FrameInv
    <3>2. CASE ~lFirst[t]
      <4>1. /\ ~pkt.pusi /\ pkt.load.run.from < pkt.load.run.frame.size
            /\ [pid |-> pkt.pid, frame |-> pkt.load.run.frame, end |-> pkt.load.run.from] \in Open
        BY <2>1, <2>2, <2>3, <2>6, <3>2
      <4> QED  BY <1>s, <2>1, <2>3, <2>5, <4>1, WholePes DEF FrameInv
    <3> QED  BY <3>1, <3>2
  <2>8. {o \in Open : o.pid # pkt.pid} = {}  BY <2>1, <2>6
  <2>9. Open' = {Cursor(pkt)}
    <3>1. Cursor(pkt) = [pid |-> f.pid, frame |-> frame, end |-> pos + r.len]
      BY <2>1, <2>3 DEF Cursor, EndOf
    <3>2. mDataPos'[t] = pos + r.len /\ lFirst'[t] = FALSE  BY <2>4 DEF TypeInv, TypeOK
    <3>3. Open' = {[pid |-> job'[t].shape.pid, frame |-> job'[t].frame, end |-> mDataPos'[t]]}
      BY <2>1, <2>2, <2>4, <3>2 DEF Open, Holder, InsideMuxer
    <3> QED  BY <2>4, <3>1, <3>2, <3>3
  <2>10. Whole(Stream', Open')  BY <2>1, <2>7, <2>8, <2>9
  <2> QED  BY <2>4, <2>10 DEF FrameInv
<1>6. CASE PesDone(t)
  <2>1. /\ mMuxMtx = t /\ mMuxMtx' = t /\ pc[t] = "pes" /\ pc'[t] = "out" /\ wire' = wire
        /\ job[t].op = "encode" /\ mDataPos[t] >= job[t].shape.size
    BY <1>6, <1>h DEF PesDone, Goto, InsideMuxer, TypeInv, TypeOK, OpOfCall
  <2>2. mDataPos[t] = job[t].frame.size
    <3>1. mDataPos[t] \in Nat /\ job[t].shape.size \in Nat /\ job[t].frame.size = job[t].shape.size
          /\ mDataPos[t] <= job[t].shape.size
      BY <2>1, EncodeJobFields DEF TypeInv, TypeOK, Position
    <3> QED  BY <2>1, <3>1
  <2>3. \A o \in Open : o.end = o.frame.size  BY <2>1, <2>2, OpenIsHolders
  <2>4. Whole(Stream, {})  BY <1>s, <2>3, WholeCloses DEF FrameInv
  <2>5. Open' = {}  BY <2>1, <1>k
  <2>6. Stream' = Stream  BY <1>6, StreamStays
  <2> QED  BY <2>1, <2>4, <2>5, <2>6 DEF FrameInv
<1>7. CASE CreatePcr(t)
  <2> DEFINE pkt == PcrPacket(nCalls[t])
  <2>1. mMuxMtx = t /\ "pcr" \in Ops /\ pkt \in Packet /\ Stream' = Stream \o <<pkt>>
    BY <1>7, PcrEmits
  <2>2. ~IsPes(pkt) /\ pkt.pid \notin FramePids
    BY <2>1 DEF PcrPacket, NoLoad, IsPes, PcrOutOfBand, FramePids
  <2>3. Open = {} /\ Open' = {} /\ wire' = wire
    <3>1. pc[t] = "pcr" /\ pc'[t] = "out" /\ mMuxMtx' = t /\ wire' = wire
      BY <1>7, <2>1 DEF CreatePcr, Goto, TypeInv, TypeOK
    <3> QED  BY <2>1, <3>1, <1>k, OpenIsHolders
  <2> HIDE DEF pkt
  <2> QED  BY <1>s, <2>1, <2>2, <2>3, WholeOther DEF FrameInv
<1>8. CASE CreateNull(t)
  <2>1. mMuxMtx = t /\ NullPacket \in Packet /\ Stream' = Stream \o <<NullPacket>>
    BY <1>8, NullEmits
  <2>2. ~IsPes(NullPacket) /\ NullPacket.pid \notin FramePids
    BY FramePidsApart DEF NullPacket, NoLoad, IsPes
  <2>3. Open = {} /\ Open' = {} /\ wire' = wire
    <3>1. pc[t] = "null" /\ pc'[t] = "out" /\ mMuxMtx' = t /\ wire' = wire
      BY <1>8, <2>1 DEF CreateNull, Goto, TypeInv, TypeOK
    <3> QED  BY <2>1, <3>1, <1>k, OpenIsHolders
  <2> QED  BY <1>s, <2>1, <2>2, <2>3, WholeOther DEF FrameInv
<1>9. CASE Callback(t)
  <2>1. /\ mMuxMtx = t /\ mMuxMtx' = t /\ pc[t] = "out" /\ pc'[t] = "unlock"
        /\ wire' = wire \o lSb[t]
    BY <1>9, <1>h DEF Callback, Goto, InsideMuxer, TypeInv, TypeOK
  <2>2. Open = {} /\ Open' = {}  BY <2>1, <1>k, OpenIsHolders
  <2>3. Stream' = Stream  BY <1>9, StreamStays
  <2>4. wire' = Stream
    <3>1. t # NoThread  BY MuxerAssumption
    <3> QED  BY <2>1, <3>1 DEF Stream
  <2> QED  BY <2>2, <2>3, <2>4 DEF FrameInv
<1>10. CASE Unlock(t)
  <2>1. mMuxMtx = t /\ pc[t] = "unlock" /\ pc'[t] = "idle" /\ mMuxMtx' = NoThread /\ wire' = wire
    BY <1>10, <1>h DEF Unlock, Goto, InsideMuxer, TypeInv, TypeOK
  <2>2. Open = {}  BY <2>1, OpenIsHolders
  <2>3. Open' = {}  BY <2>1, MuxerAssumption DEF Open, Holder, InsideMuxer
  <2>4. Stream' = Stream  BY <1>10, StreamStays
  <2> QED  BY <2>1, <2>2, <2>3, <2>4, <1>a
<1> QED  BY <1>2, <1>3, <1>4, <1>5, <1>6, <1>7, <1>8, <1>9, <1>10 DEF Inside

(* A packet that is not the last of its PID has a successor on it.         *)
LEMMA HasSuccessor ==
    ASSUME NEW s \in Seq(Packet), NEW j \in DOMAIN s, ~LastOfPid(s, j)
    PROVE  \E k \in DOMAIN s : Precedes(s, j, k)
PROOF
<1> DEFINE S == {k \in j + 1 .. Len(s) : s[k].pid = s[j].pid}
<1>1. j \in Nat /\ Len(s) \in Nat /\ DOMAIN s = 1 .. Len(s) /\ 1 <= j  BY LenProperties
<1>2. S # {} /\ S \subseteq Nat  BY <1>1 DEF LastOfPid
<1>3. PICK k \in S : \A y \in S : ~(<<y, k>> \in OpToRel(<, Nat))
  <2> HIDE DEF S
  <2> QED  BY <1>2, WFMin, NatLessThanWellFounded
<1>4. \A y \in S : ~(y < k)
  <2> HIDE DEF S
  <2> QED  BY <1>2, <1>3 DEF OpToRel
<1> QED  BY <1>1, <1>4 DEF Precedes

LEMMA WholeIsFramesWhole ==
    ASSUME TypeInv, Whole(wire, {})
    PROVE  FramesWhole
PROOF
<1> SUFFICES ASSUME NEW j \in DOMAIN wire, IsPes(wire[j])
             PROVE  LET r == wire[j].load.run
                        before == {i \in DOMAIN wire : Precedes(wire, i, j)}
                        after  == {k \in DOMAIN wire : Precedes(wire, j, k)}
                    IN  /\ wire[j].pusi <=> r.from = 0
                        /\ ~wire[j].pusi => \E i \in before : /\ wire[i].load.run.frame = r.frame
                                                              /\ EndOf(wire[i].load.run) = r.from
                        /\ EndOf(r) = r.frame.size <=> \A k \in after : wire[k].pusi
  BY DEF FramesWhole, IsPes
<1> DEFINE r == wire[j].load.run
           after == {k \in DOMAIN wire : Precedes(wire, j, k)}
<1>0. wire \in Seq(Packet)  BY DEF TypeInv, TypeOK
<1>1. wire[j].pusi <=> r.from = 0  BY DEF Whole, RunFits
<1>2. ~wire[j].pusi => Continues(wire, j)  BY DEF Whole
<1>3. \A k \in after : EndOf(r) = r.frame.size <=> wire[k].pusi  BY DEF Whole
<1>4. after = {} => EndOf(r) = r.frame.size
  <2> SUFFICES ASSUME after = {} PROVE EndOf(r) = r.frame.size  OBVIOUS
  <2>1. LastOfPid(wire, j)  BY <1>0, HasSuccessor
  <2> QED  BY <2>1 DEF Whole
<1> QED  BY <1>1, <1>2, <1>3, <1>4 DEF Continues

(***************************************************************************)
(* Whatever threads encode, on each elementary stream PID the frames come  *)
(* out whole and one after another: a start packet begins at byte 0 right  *)
(* after the last byte of the frame before it, every other packet goes on  *)
(* where its predecessor stopped, and nothing is left open on the wire.    *)
(* createPcr must not use the PID of a stream.                             *)
(***************************************************************************)
THEOREM FramesAlwaysWhole == PcrOutOfBand => (Spec => []FramesWhole)
PROOF
<1> SUFFICES ASSUME PcrOutOfBand PROVE Spec => []FramesWhole  OBVIOUS
<1> DEFINE Inv == TypeInv /\ Holder /\ EmptyOutside /\ Position /\ FrameInv
<1>1. Init => Inv
  <2> SUFFICES ASSUME Init PROVE Inv  OBVIOUS
  <2>1. TypeInv  BY TypeInit
  <2>2. Holder /\ EmptyOutside  BY MuxerAssumption DEF Init, Holder, EmptyOutside, InsideMuxer
  <2>3. Position  BY DEF Init, Position, NoJob
  <2>4. Stream = <<>> /\ wire = <<>> /\ Open = {}  BY DEF Init, Stream, Open
  <2>5. FrameInv  BY <2>4 DEF FrameInv, Whole
  <2> QED  BY <2>1, <2>2, <2>3, <2>5
<1>2. Inv /\ [Next]_vars => Inv'
  BY TypeNext, HolderNext, PositionNext, FrameNext
<1>3. Inv => FramesWhole
  BY WholeIsFramesWhole DEF FrameInv
<1> HIDE DEF Inv
<1> QED  BY <1>1, <1>2, <1>3, PTL DEF Spec
-----------------------------------------------------------------------------
(***************************************************************************)
(* Tables in the stream.                                                   *)
(***************************************************************************)

(* What has been handed to tsOutCallback is the beginning of the stream.   *)
LEMMA WireBegins ==
    ASSUME TypeOK
    PROVE  /\ DOMAIN wire = 1 .. Len(wire) /\ Len(wire) \in Nat
           /\ DOMAIN Stream = 1 .. Len(Stream) /\ Len(Stream) \in Nat
           /\ Len(wire) <= Len(Stream)
           /\ \A i \in DOMAIN wire : Stream[i] = wire[i]
PROOF
<1>1. wire \in Seq(Packet)  BY DEF TypeOK
<1>2. CASE mMuxMtx = NoThread  BY <1>1, <1>2, LenProperties DEF Stream
<1>3. CASE mMuxMtx # NoThread
  <2>1. lSb[mMuxMtx] \in Seq(Packet) /\ Stream = wire \o lSb[mMuxMtx]
    BY <1>3 DEF TypeOK, Stream
  <2> QED  BY <1>1, <2>1, ConcatProperties, LenProperties
<1> QED  BY <1>2, <1>3

(* Tables stay where they are.                                             *)
LEMMA TablesStay ==
    ASSUME NEW s \in Seq(Packet), NEW p \in Packet, NEW i, TablesIn(s, i)
    PROVE  TablesIn(s \o <<p>>, i)
BY ConcatOne, LenProperties DEF TablesIn

(* The tables of encode are a PAT and the PMT it names.                    *)
LEMMA TablesArrive ==
    ASSUME NEW s \in Seq(Packet), NEW cc \in Cc
    PROVE  LET u == (s \o <<createPat(cc)>>) \o <<createPmt(cc)>>
           IN  /\ u \in Seq(Packet) /\ Len(u) = Len(s) + 2 /\ DOMAIN u = 1 .. Len(s) + 2
               /\ \A i \in 1 .. Len(s) : u[i] = s[i]
               /\ u[Len(s) + 1] = createPat(cc) /\ u[Len(s) + 2] = createPmt(cc)
               /\ ~IsStart(createPat(cc)) /\ ~IsStart(createPmt(cc))
               /\ TablesIn(u, Len(s) + 1)
PROOF
<1> DEFINE pat == createPat(cc)
           pmt == createPmt(cc)
           v == s \o <<pat>>
           u == v \o <<pmt>>
           n == Len(s)
<1>1. /\ pat \in Packet /\ pmt \in Packet
      /\ pat.load.kind = "pat" /\ pmt.load.kind = "pmt"
      /\ pat.load.programs[1].pmt = pmt.pid
  BY TablePackets DEF createPat, createPmt, TablePacket, PatLoad, PmtLoad
<1>2. ~IsStart(pat) /\ ~IsStart(pmt)  BY <1>1 DEF IsStart
<1> HIDE DEF pat, pmt
<1>3. n \in Nat  BY LenProperties
<1>4. /\ v \in Seq(Packet) /\ Len(v) = n + 1 /\ v[n + 1] = pat
      /\ \A i \in 1 .. n : v[i] = s[i]
  BY <1>1, ConcatOne
<1> HIDE DEF v
<1>5. /\ u \in Seq(Packet) /\ Len(u) = n + 2 /\ DOMAIN u = 1 .. n + 2
      /\ \A i \in 1 .. n : u[i] = s[i]
      /\ u[n + 1] = pat /\ u[n + 2] = pmt
  <2>1. /\ u \in Seq(Packet) /\ Len(u) = (n + 1) + 1 /\ DOMAIN u = 1 .. (n + 1) + 1
        /\ u[(n + 1) + 1] = pmt /\ \A i \in 1 .. n + 1 : u[i] = v[i]
    BY <1>1, <1>4, ConcatOne
  <2>2. (n + 1) + 1 = n + 2  BY <1>3
  <2> HIDE DEF u, n
  <2> QED  BY <1>3, <1>4, <2>1, <2>2
<1> HIDE DEF u
<1>6. TablesIn(u, n + 1)
  <2>1. n + 1 \in DOMAIN u /\ n + 2 \in DOMAIN u /\ (n + 1) + 1 = n + 2  BY <1>3, <1>5
  <2> QED  BY <1>1, <1>5, <2>1 DEF TablesIn
<1> QED  BY <1>2, <1>5, <1>6 DEF pat, pmt, u, v

(* Packets of createPcr and createNull start nothing.                      *)
LEMMA OthersNoStart ==
    /\ \A n : ~IsStart(PcrPacket(n))
    /\ ~IsStart(NullPacket)
BY DEF IsStart, PcrPacket, NullPacket, NoLoad
-----------------------------------------------------------------------------
(***************************************************************************)
(* Segments.                                                               *)
(***************************************************************************)
SegmentsIn(s) ==
    \A j \in DOMAIN s : IsStart(s[j]) /\ s[j].load.run.frame.key => TablesIn(s, j - 2)

LEMMA SegmentsGrow ==
    ASSUME NEW s \in Seq(Packet), NEW p \in Packet, SegmentsIn(s),
           IsStart(p) /\ p.load.run.frame.key => TablesIn(s, Len(s) - 1)
    PROVE  SegmentsIn(s \o <<p>>)
PROOF
<1> DEFINE u == s \o <<p>>
<1>1. /\ DOMAIN u = 1 .. Len(s) + 1 /\ u[Len(s) + 1] = p /\ Len(s) \in Nat
      /\ DOMAIN s = 1 .. Len(s) /\ \A i \in 1 .. Len(s) : u[i] = s[i]
  BY ConcatOne, LenProperties
<1>2. \A i : TablesIn(s, i) => TablesIn(u, i)  BY TablesStay
<1> HIDE DEF u
<1> SUFFICES ASSUME NEW j \in DOMAIN u, IsStart(u[j]), u[j].load.run.frame.key
             PROVE  TablesIn(u, j - 2)
  BY DEF SegmentsIn, u
<1>3. CASE j \in DOMAIN s  BY <1>1, <1>2, <1>3 DEF SegmentsIn
<1>4. CASE j = Len(s) + 1
  <2>1. j - 2 = Len(s) - 1  BY <1>1, <1>4
  <2> QED  BY <1>1, <1>2, <1>4, <2>1
<1> QED  BY <1>1, <1>3, <1>4

LEMMA SegmentNext ==
    TypeInv /\ Holder /\ EmptyOutside /\ Position /\ SegmentInv /\ Holder' /\ [Next]_vars
        => SegmentInv'
PROOF
<1> SUFFICES ASSUME TypeInv, Holder, EmptyOutside, Position, SegmentInv, Holder', [Next]_vars,
                    MuxType = "segmentType"
             PROVE  SegmentInv'
  BY DEF SegmentInv
<1> DEFINE Ready(u) == pc[u] = "pes" /\ lFirst[u] /\ job[u].frame.key
<1>s. Stream \in Seq(Packet) /\ SegmentsIn(Stream)
  BY StreamType DEF TypeInv, SegmentInv, SegmentsIn
<1>r. \A u \in Threads : Ready(u) => TablesIn(Stream, Len(Stream) - 1)  BY DEF SegmentInv
<1>i. ASSUME SegmentsIn(Stream'),
             \A u \in Threads : Ready(u)' => TablesIn(Stream', Len(Stream') - 1)
      PROVE  SegmentInv'
  BY <1>i DEF SegmentInv, SegmentsIn
<1>a. ASSUME Stream' = Stream, \A u \in Threads : Ready(u)' => Ready(u) PROVE SegmentInv'
  BY <1>a, <1>i, <1>r, <1>s
<1>b. ASSUME NEW p \in Packet, Stream' = Stream \o <<p>>, \A u \in Threads : ~Ready(u)',
             IsStart(p) /\ p.load.run.frame.key => \E u \in Threads : Ready(u)
      PROVE  SegmentInv'
  <2>1. SegmentsIn(Stream \o <<p>>)  BY <1>b, <1>r, <1>s, SegmentsGrow
  <2> QED  BY <1>b, <1>i, <2>1
<1>1. CASE UNCHANGED vars  BY <1>1, <1>a DEF vars, locals, Stream
<1> SUFFICES ASSUME NEW t \in Threads, Call(t) \/ Lock(t) \/ Inside(t) PROVE SegmentInv'
  BY <1>1 DEF Next
<1>k. ASSUME pc[t] \in InsideMuxer, ~Ready(t)', mMuxMtx' = mMuxMtx
      PROVE  \A u \in Threads : ~Ready(u)'
  BY <1>k DEF Holder, InsideMuxer
<1>2. CASE Call(t)
  <2>1. \A u \in Threads : Ready(u)' => Ready(u)  BY <1>2 DEF Call, Goto, TypeInv, TypeOK
  <2> QED  BY <1>2, <2>1, <1>a, StreamStays
<1>3. CASE Lock(t)
  <2>1. job[t].op \in {"encode", "pcr", "null"}
    BY <1>3, MuxerAssumption DEF Lock, Goto, TypeInv, OpOfCall
  <2>2. \A u \in Threads : Ready(u)' => Ready(u)
    BY <1>3, <2>1 DEF Lock, Goto, locals, TypeInv, TypeOK
  <2> QED  BY <1>3, <2>2, <1>a, StreamStays
<1>4. CASE Encode(t)
  <2>0. pc[t] = "encode" /\ UNCHANGED <<mMuxMtx, job, lFirst>>  BY <1>4 DEF Encode, Goto
  <2>1. CASE TablesDue(t)
    <3> DEFINE cc == getCc(TableKey)
               u  == (Stream \o <<createPat(cc)>>) \o <<createPmt(cc)>>
    <3>1. cc \in Cc /\ createPat(cc) \in Packet /\ createPmt(cc) \in Packet /\ Stream' = u
      BY <1>4, <2>1, EncodeEmits
    <3>2. /\ ~IsStart(createPat(cc)) /\ ~IsStart(createPmt(cc))
          /\ Len(u) = Len(Stream) + 2 /\ TablesIn(u, Len(Stream) + 1)
      BY <1>s, <3>1, TablesArrive
    <3>3. SegmentsIn(u)
      <4>1. Stream \o <<createPat(cc)>> \in Seq(Packet)  BY <1>s, <3>1, ConcatOne
      <4>2. SegmentsIn(Stream \o <<createPat(cc)>>)  BY <1>s, <3>1, <3>2, SegmentsGrow
      <4> QED  BY <3>1, <3>2, <4>1, <4>2, SegmentsGrow
    <3> HIDE DEF u
    <3>4. Len(Stream) \in Nat  BY <1>s, LenProperties
    <3>5. Len(u) - 1 = Len(Stream) + 1  BY <3>2, <3>4
    <3> QED  BY <1>i, <3>1, <3>2, <3>3, <3>5
  <2>2. CASE ~TablesDue(t)
    <3>1. ~job[t].frame.key  BY <2>2 DEF TablesDue
    <3>2. \A u \in Threads : Ready(u)' => Ready(u)
      BY <1>4, <2>0, <3>1 DEF Encode, Goto, TypeInv, TypeOK
    <3> QED  BY <1>4, <2>2, <3>2, <1>a, StreamStays
  <2> QED  BY <2>1, <2>2
<1>5. CASE CreatePes(t)
  <2> DEFINE f   == job[t].shape
             pkt == PesPacket(f, job[t].frame, lFirst[t], mDataPos[t], getCc(f.type))
  <2>1. /\ f \in FrameShapes /\ job[t].frame \in Frame /\ getCc(f.type) \in Cc /\ pkt \in Packet
        /\ Stream' = Stream \o <<pkt>>
    BY <1>5, CreatePesEmits
  <2>2. pc[t] = "pes" /\ mDataPos[t] < f.size /\ mDataPos[t] \in Nat /\ lFirst[t] \in BOOLEAN
    BY <1>5 DEF CreatePes, TypeInv, TypeOK
  <2>3. pkt.pusi = lFirst[t] /\ pkt.load.run.frame = job[t].frame
    BY <2>1, <2>2, PesPacketRun
  <2>4. lFirst'[t] = FALSE /\ mMuxMtx' = mMuxMtx  BY <1>5 DEF CreatePes, TypeInv, TypeOK
  <2>5. \A u \in Threads : ~Ready(u)'  BY <1>k, <2>2, <2>4 DEF InsideMuxer
  <2>6. IsStart(pkt) /\ pkt.load.run.frame.key => Ready(t)  BY <2>2, <2>3 DEF IsStart
  <2> HIDE DEF pkt, Ready
  <2> QED  BY <1>b, <2>1, <2>5, <2>6
<1>6. CASE PesDone(t)
  <2>1. \A u \in Threads : Ready(u)' => Ready(u)
    BY <1>6 DEF PesDone, Goto, locals, TypeInv, TypeOK
  <2> QED  BY <1>6, <2>1, <1>a, StreamStays
<1>7. CASE CreatePcr(t)
  <2>1. PcrPacket(nCalls[t]) \in Packet /\ Stream' = Stream \o <<PcrPacket(nCalls[t])>>
    BY <1>7, PcrEmits
  <2>2. pc[t] = "pcr" /\ pc'[t] = "out" /\ mMuxMtx' = mMuxMtx
    BY <1>7 DEF CreatePcr, Goto, TypeInv, TypeOK
  <2>3. \A u \in Threads : ~Ready(u)'  BY <1>k, <2>2 DEF InsideMuxer
  <2> QED  BY <1>b, <2>1, <2>3, OthersNoStart
<1>8. CASE CreateNull(t)
  <2>1. NullPacket \in Packet /\ Stream' = Stream \o <<NullPacket>>  BY <1>8, NullEmits
  <2>2. pc[t] = "null" /\ pc'[t] = "out" /\ mMuxMtx' = mMuxMtx
    BY <1>8 DEF CreateNull, Goto, TypeInv, TypeOK
  <2>3. \A u \in Threads : ~Ready(u)'  BY <1>k, <2>2 DEF InsideMuxer
  <2> QED  BY <1>b, <2>1, <2>3, OthersNoStart
<1>9. CASE Callback(t)
  <2>1. \A u \in Threads : Ready(u)' => Ready(u)
    BY <1>9 DEF Callback, Goto, TypeInv, TypeOK
  <2> QED  BY <1>9, <2>1, <1>a, StreamStays
<1>10. CASE Unlock(t)
  <2>1. \A u \in Threads : Ready(u)' => Ready(u)
    BY <1>10 DEF Unlock, Goto, locals, TypeInv, TypeOK
  <2> QED  BY <1>10, <2>1, <1>a, StreamStays
<1> QED  BY <1>2, <1>3, <1>4, <1>5, <1>6, <1>7, <1>8, <1>9, <1>10 DEF Inside

(***************************************************************************)
(* A segmentType multiplexer puts PAT and PMT immediately before the first *)
(* packet of every frame encoded as a random access point, whatever other  *)
(* threads encode, and whatever createPcr and createNull insert.           *)
(***************************************************************************)
THEOREM SegmentsAlwaysSelfContained == Spec => []SegmentsSelfContained
PROOF
<1> DEFINE Inv == TypeInv /\ Holder /\ EmptyOutside /\ Position /\ SegmentInv
<1>1. Init => Inv
  <2> SUFFICES ASSUME Init PROVE Inv  OBVIOUS
  <2>1. TypeInv  BY TypeInit
  <2>2. Holder /\ EmptyOutside  BY MuxerAssumption DEF Init, Holder, EmptyOutside, InsideMuxer
  <2>3. Position  BY DEF Init, Position, NoJob
  <2>4. Stream = <<>> /\ \A t \in Threads : pc[t] # "pes"  BY DEF Init, Stream
  <2>5. SegmentInv  BY <2>4 DEF SegmentInv
  <2> QED  BY <2>1, <2>2, <2>3, <2>5
<1>2. Inv /\ [Next]_vars => Inv'
  BY TypeNext, HolderNext, PositionNext, SegmentNext
<1>3. Inv => SegmentsSelfContained
  <2> SUFFICES ASSUME Inv, MuxType = "segmentType", NEW j \in DOMAIN wire,
                      IsStart(wire[j]), wire[j].load.run.frame.key
               PROVE  TablesAt(j - 2)
    BY DEF SegmentsSelfContained
  <2>1. /\ DOMAIN wire = 1 .. Len(wire) /\ Len(wire) \in Nat
        /\ DOMAIN Stream = 1 .. Len(Stream) /\ Len(Stream) \in Nat
        /\ Len(wire) <= Len(Stream)
        /\ \A i \in DOMAIN wire : Stream[i] = wire[i]
    BY WireBegins DEF TypeInv
  <2>2. j \in DOMAIN Stream /\ Stream[j] = wire[j]  BY <2>1
  <2>3. TablesIn(Stream, j - 2)  BY <2>2 DEF SegmentInv
  <2>4. j - 2 \in DOMAIN wire /\ (j - 2) + 1 \in DOMAIN wire  BY <2>1, <2>3 DEF TablesIn
  <2> QED  BY <2>1, <2>3, <2>4 DEF TablesIn, TablesAt
<1> HIDE DEF Inv
<1> QED  BY <1>1, <1>2, <1>3, PTL DEF Spec
-----------------------------------------------------------------------------
(***************************************************************************)
(* The cadence of the tables.                                              *)
(***************************************************************************)
LEMMA StartsFinite ==
    ASSUME NEW s, NEW i \in Int, NEW j \in Int
    PROVE  IsFiniteSet(Starts(s, i, j)) /\ Cardinality(Starts(s, i, j)) \in Nat
PROOF
<1>1. IsFiniteSet(i .. j)  BY FS_Interval
<1>2. Starts(s, i, j) \in SUBSET (i .. j)  BY DEF Starts
<1>3. IsFiniteSet(Starts(s, i, j))  BY <1>1, <1>2, FS_Subset
<1> QED  BY <1>3, FS_CardinalityType

(* Frames started up to a place do not depend on what comes after it.      *)
LEMMA StartsStay ==
    ASSUME NEW s \in Seq(Packet), NEW p \in Packet, NEW i \in Nat \ {0}, NEW j \in Nat, j <= Len(s)
    PROVE  Starts(s \o <<p>>, i, j) = Starts(s, i, j)
PROOF
<1>1. \A k \in i .. j : (s \o <<p>>)[k] = s[k]  BY ConcatOne, LenProperties
<1> QED  BY <1>1 DEF Starts

(* One packet more starts one frame more at most.                          *)
LEMMA StartsGrow ==
    ASSUME NEW s \in Seq(Packet), NEW p \in Packet, NEW i \in Nat \ {0}, i <= Len(s)
    PROVE  Cardinality(Starts(s \o <<p>>, i, Len(s) + 1))
             = Cardinality(Starts(s, i, Len(s))) + IF IsStart(p) THEN 1 ELSE 0
PROOF
<1> DEFINE u == s \o <<p>>
           n == Len(s)
           S == Starts(s, i, n)
<1>1. n \in Nat /\ u[n + 1] = p /\ \A k \in 1 .. n : u[k] = s[k]
  BY ConcatOne, LenProperties
<1>2. IsFiniteSet(S) /\ Cardinality(S) \in Nat  BY <1>1, StartsFinite
<1> HIDE DEF u
<1>3. Starts(u, i, n + 1) = IF IsStart(p) THEN S \cup {n + 1} ELSE S
  <2>1. i .. n + 1 = (i .. n) \cup {n + 1}  BY <1>1
  <2>2. \A k \in i .. n : k # n + 1 /\ u[k] = s[k]  BY <1>1
  <2> QED  BY <1>1, <2>1, <2>2 DEF Starts
<1>4. n + 1 \notin S  BY <1>1 DEF Starts
<1> HIDE DEF S, n
<1>5. Cardinality(S \cup {n + 1}) = Cardinality(S) + 1  BY <1>2, <1>4, FS_AddElement
<1> QED  BY <1>2, <1>3, <1>5 DEF u, n, S

(* A packet that starts no frame keeps the cadence.                        *)
LEMMA CadenceOther ==
    ASSUME NEW s \in Seq(Packet), NEW p \in Packet, Cadenced(s), ~IsStart(p)
    PROVE  Cadenced(s \o <<p>>)
PROOF
<1> DEFINE u == s \o <<p>>
<1>1. /\ DOMAIN u = 1 .. Len(s) + 1 /\ u[Len(s) + 1] = p /\ Len(s) \in Nat
      /\ DOMAIN s = 1 .. Len(s) /\ \A i \in 1 .. Len(s) : u[i] = s[i]
  BY ConcatOne, LenProperties
<1>2. \A i : TablesIn(s, i) => TablesIn(u, i)  BY TablesStay
<1> SUFFICES ASSUME NEW j \in DOMAIN u, IsStart(u[j])
             PROVE  \E i \in 1 .. j : TablesIn(u, i) /\ Cardinality(Starts(u, i, j)) <= PatInterval
  BY DEF Cadenced
<1>3. j \in DOMAIN s /\ IsStart(s[j])  BY <1>1
<1>4. PICK i \in 1 .. j : TablesIn(s, i) /\ Cardinality(Starts(s, i, j)) <= PatInterval
  BY <1>3 DEF Cadenced
<1>5. Starts(u, i, j) = Starts(s, i, j)  BY <1>1, <1>3, StartsStay
<1> QED  BY <1>2, <1>4, <1>5

(* So does a start while the count since the tables allows it; the count   *)
(* goes up by it.                                                          *)
LEMMA CadenceStart ==
    ASSUME NEW s \in Seq(Packet), NEW p \in Packet, NEW n \in Nat,
           Cadenced(s), SinceTables(s, n), IsStart(p), n < PatInterval
    PROVE  Cadenced(s \o <<p>>) /\ SinceTables(s \o <<p>>, n + 1)
PROOF
<1> DEFINE u == s \o <<p>>
<1>1. /\ DOMAIN u = 1 .. Len(s) + 1 /\ u[Len(s) + 1] = p /\ Len(s) \in Nat /\ Len(u) = Len(s) + 1
      /\ DOMAIN s = 1 .. Len(s) /\ \A i \in 1 .. Len(s) : u[i] = s[i]
  BY ConcatOne, LenProperties
<1>2. \A i : TablesIn(s, i) => TablesIn(u, i)  BY TablesStay
<1>3. PICK i \in DOMAIN s : TablesIn(s, i) /\ Cardinality(Starts(s, i, Len(s))) <= n
  BY DEF SinceTables
<1>4. Cardinality(Starts(u, i, Len(s) + 1)) <= n + 1
  <2>1. Cardinality(Starts(u, i, Len(s) + 1)) = Cardinality(Starts(s, i, Len(s))) + 1
    BY <1>1, <1>3, StartsGrow
  <2>2. Cardinality(Starts(s, i, Len(s))) \in Nat  BY <1>1, StartsFinite
  <2> QED  BY <1>3, <2>1, <2>2
<1>5. SinceTables(u, n + 1)
  BY <1>1, <1>2, <1>3, <1>4 DEF SinceTables
<1>6. Cadenced(u)
  <2> SUFFICES ASSUME NEW j \in DOMAIN u, IsStart(u[j])
               PROVE  \E k \in 1 .. j : TablesIn(u, k) /\ Cardinality(Starts(u, k, j)) <= PatInterval
    BY DEF Cadenced
  <2>1. CASE j = Len(s) + 1
    <3>1. i \in 1 .. j /\ Cardinality(Starts(u, i, j)) <= PatInterval
      <4>1. Cardinality(Starts(u, i, j)) \in Nat  BY <1>1, <2>1, StartsFinite
      <4>2. PatInterval \in Nat  BY MuxerAssumption
      <4> HIDE DEF u
      <4> QED  BY <1>1, <1>4, <2>1, <4>1, <4>2
    <3> QED  BY <1>2, <1>3, <3>1
  <2>2. CASE j \in DOMAIN s
    <3>1. IsStart(s[j])  BY <1>1, <2>2
    <3>2. PICK k \in 1 .. j : TablesIn(s, k) /\ Cardinality(Starts(s, k, j)) <= PatInterval
      BY <2>2, <3>1 DEF Cadenced
    <3>3. Starts(u, k, j) = Starts(s, k, j)  BY <1>1, <2>2, StartsStay
    <3> QED  BY <1>2, <3>2, <3>3
  <2> QED  BY <1>1, <2>1, <2>2
<1> QED  BY <1>5, <1>6

(* A packet that starts no frame leaves the count.                         *)
LEMMA SinceOther ==
    ASSUME NEW s \in Seq(Packet), NEW p \in Packet, NEW n, SinceTables(s, n), ~IsStart(p)
    PROVE  SinceTables(s \o <<p>>, n)
PROOF
<1>1. PICK i \in DOMAIN s : TablesIn(s, i) /\ Cardinality(Starts(s, i, Len(s))) <= n
  BY DEF SinceTables
<1>2. DOMAIN s = 1 .. Len(s) /\ Len(s) \in Nat /\ Len(s \o <<p>>) = Len(s) + 1
      /\ DOMAIN (s \o <<p>>) = 1 .. Len(s) + 1
  BY ConcatOne, LenProperties
<1>3. Cardinality(Starts(s \o <<p>>, i, Len(s) + 1)) = Cardinality(Starts(s, i, Len(s)))
  <2>1. Cardinality(Starts(s, i, Len(s))) \in Nat  BY <1>2, StartsFinite
  <2> QED  BY <1>2, <2>1, StartsGrow
<1>4. TablesIn(s \o <<p>>, i)  BY <1>1, TablesStay
<1> QED  BY <1>1, <1>2, <1>3, <1>4 DEF SinceTables

(* New tables set the count to 0.                                          *)
LEMMA CadenceTables ==
    ASSUME NEW s \in Seq(Packet), NEW cc \in Cc, Cadenced(s)
    PROVE  LET u == (s \o <<createPat(cc)>>) \o <<createPmt(cc)>>
           IN  Cadenced(u) /\ SinceTables(u, 0)
PROOF
<1> DEFINE u == (s \o <<createPat(cc)>>) \o <<createPmt(cc)>>
           n == Len(s)
<1>1. /\ u \in Seq(Packet) /\ Len(u) = n + 2 /\ DOMAIN u = 1 .. n + 2
      /\ u[n + 1] = createPat(cc) /\ u[n + 2] = createPmt(cc)
      /\ ~IsStart(createPat(cc)) /\ ~IsStart(createPmt(cc))
      /\ TablesIn(u, n + 1)
  BY TablesArrive
<1>2. createPat(cc) \in Packet /\ createPmt(cc) \in Packet  BY TablePackets
<1>3. Cadenced(u)
  <2>1. s \o <<createPat(cc)>> \in Seq(Packet)  BY <1>2, ConcatOne
  <2>2. Cadenced(s \o <<createPat(cc)>>)  BY <1>1, <1>2, CadenceOther
  <2> QED  BY <1>1, <1>2, <2>1, <2>2, CadenceOther
<1> HIDE DEF u
<1>4. n \in Nat  BY LenProperties
<1>5. Starts(u, n + 1, n + 2) = {}
  <2>1. n + 1 .. n + 2 = {n + 1, n + 2}  BY <1>4
  <2> QED  BY <1>1, <2>1 DEF Starts
<1>6. SinceTables(u, 0)
  <2>1. n + 1 \in DOMAIN u  BY <1>1, <1>4
  <2>2. Cardinality(Starts(u, n + 1, Len(u))) = 0  BY <1>1, <1>5, FS_EmptySet
  <2> QED  BY <1>1, <2>1, <2>2 DEF SinceTables
<1> QED  BY <1>3, <1>6 DEF u

(* A larger bound on the count.                                            *)
LEMMA SinceMore ==
    ASSUME NEW s \in Seq(Packet), NEW m \in Nat, NEW n \in Nat, m <= n, SinceTables(s, m)
    PROVE  SinceTables(s, n)
PROOF
<1>1. PICK i \in DOMAIN s : TablesIn(s, i) /\ Cardinality(Starts(s, i, Len(s))) <= m
  BY DEF SinceTables
<1>2. i \in Int /\ Len(s) \in Int  BY LenProperties
<1>3. Cardinality(Starts(s, i, Len(s))) \in Nat  BY <1>2, StartsFinite
<1>4. Cardinality(Starts(s, i, Len(s))) <= n  BY <1>1, <1>3
<1> QED  BY <1>1, <1>4 DEF SinceTables

LEMMA CadenceNext ==
    TypeInv /\ Holder /\ EmptyOutside /\ Position /\ CadenceInv /\ TypeInv' /\ Holder' /\ [Next]_vars
        => CadenceInv'
PROOF
<1> SUFFICES ASSUME TypeInv, Holder, EmptyOutside, Position, CadenceInv, TypeInv', Holder',
                    [Next]_vars, MuxType = "h222Type"
             PROVE  CadenceInv'
  BY DEF CadenceInv
<1> DEFINE count == IF Pending THEN mCurrentIndex - 1 ELSE mCurrentIndex
           NoStart(s) == \A j \in DOMAIN s : ~IsStart(s[j])
<1>s. Stream \in Seq(Packet)  BY StreamType DEF TypeInv
<1>c. /\ Cadenced(Stream)
      /\ mCurrentIndex = 0 => ~Pending /\ NoStart(Stream)
      /\ mCurrentIndex > 0 => SinceTables(Stream, count)
  BY DEF CadenceInv
<1>n. mCurrentIndex \in Nat /\ mCurrentIndex' \in Nat /\ mCurrentIndex' <= PatInterval
      /\ mCurrentIndex <= PatInterval /\ PatInterval \in Nat \ {0}
  BY MuxerAssumption DEF TypeInv, TypeOK
<1>i. ASSUME Cadenced(Stream'),
             mCurrentIndex' = 0 => ~Pending' /\ NoStart(Stream'),
             mCurrentIndex' > 0 => SinceTables(Stream', count')
      PROVE  CadenceInv'
  BY <1>i DEF CadenceInv
<1>a. ASSUME Stream' = Stream, Pending' => Pending, mCurrentIndex' = mCurrentIndex PROVE CadenceInv'
  <2>1. mCurrentIndex > 0 => count \in Nat /\ count' \in Nat /\ count <= count'  BY <1>a, <1>n
  <2>2. mCurrentIndex > 0 => SinceTables(Stream, count')  BY <1>c, <1>s, <2>1, SinceMore
  <2> QED  BY <1>a, <1>c, <1>i, <2>2
<1>b. ASSUME NEW p \in Packet, Stream' = Stream \o <<p>>, ~IsStart(p), ~Pending, ~Pending',
             mCurrentIndex' = mCurrentIndex
      PROVE  CadenceInv'
  <2>1. Cadenced(Stream')  BY <1>b, <1>c, <1>s, CadenceOther
  <2>2. mCurrentIndex' > 0 => SinceTables(Stream', count')
    BY <1>b, <1>c, <1>s, SinceOther
  <2>3. NoStart(Stream) => NoStart(Stream')
    BY <1>b, <1>s, ConcatOne, LenProperties
  <2> QED  BY <1>b, <1>c, <1>i, <2>1, <2>2, <2>3
<1>1. CASE UNCHANGED vars  BY <1>1, <1>a DEF vars, locals, Stream, Pending
<1> SUFFICES ASSUME NEW t \in Threads, Call(t) \/ Lock(t) \/ Inside(t) PROVE CadenceInv'
  BY <1>1 DEF Next
<1>h. ASSUME pc[t] \in InsideMuxer, ~(pc[t] = "pes" /\ lFirst[t]) PROVE ~Pending
  BY <1>h DEF Pending, Holder, InsideMuxer
<1>k. ASSUME pc[t] \in InsideMuxer, ~(pc'[t] = "pes" /\ lFirst'[t]), mMuxMtx' = mMuxMtx
      PROVE  ~Pending'
  BY <1>k DEF Pending, Holder, InsideMuxer
<1>2. CASE Call(t)
  <2>1. Pending' => Pending  BY <1>2 DEF Call, Goto, Pending, TypeInv, TypeOK
  <2> QED  BY <1>2, <2>1, <1>a, StreamStays DEF Call
<1>3. CASE Lock(t)
  <2>1. job[t].op \in {"encode", "pcr", "null"}
    BY <1>3, MuxerAssumption DEF Lock, Goto, TypeInv, OpOfCall
  <2>2. Pending' => Pending
    BY <1>3, <2>1 DEF Lock, Goto, locals, Pending, TypeInv, TypeOK
  <2> QED  BY <1>3, <2>2, <1>a, StreamStays DEF Lock
<1>4. CASE Encode(t)
  <2>1. /\ pc[t] = "encode" /\ pc'[t] = "pes" /\ lFirst[t] /\ lFirst'[t]
        /\ mCurrentIndex' = IF shouldCreatePat THEN 1 ELSE mCurrentIndex + 1
    BY <1>4 DEF Encode, Goto, TypeInv, TypeOK, Position
  <2>2. ~Pending /\ Pending'
    <3>1. ~Pending  BY <1>h, <2>1 DEF InsideMuxer
    <3> QED  BY <2>1, <3>1 DEF Pending
  <2>3. TablesDue(t) <=> shouldCreatePat  BY DEF TablesDue
  <2>4. CASE shouldCreatePat
    <3> DEFINE cc == getCc(TableKey)
    <3>1. cc \in Cc /\ Stream' = (Stream \o <<createPat(cc)>>) \o <<createPmt(cc)>>
      BY <1>4, <2>3, <2>4, EncodeEmits
    <3>2. Cadenced(Stream') /\ SinceTables(Stream', 0)  BY <1>c, <1>s, <3>1, CadenceTables
    <3>3. mCurrentIndex' = 1 /\ count' = 0  BY <2>1, <2>2, <2>4
    <3> QED  BY <1>i, <3>2, <3>3
  <2>5. CASE ~shouldCreatePat
    <3>1. Stream' = Stream  BY <1>4, <2>3, <2>5, StreamStays
    <3>2. mCurrentIndex # 0
      <4>1. \A n \in Nat \ {0} : 0 % n = 0  OBVIOUS
      <4> QED  BY <1>n, <2>5, <4>1 DEF shouldCreatePat
    <3>3. mCurrentIndex' = mCurrentIndex + 1 /\ count' = count  BY <1>n, <2>1, <2>2, <2>5
    <3>4. mCurrentIndex > 0 /\ mCurrentIndex' # 0  BY <1>n, <3>2, <3>3
    <3> HIDE DEF count
    <3> QED  BY <1>c, <1>i, <3>1, <3>3, <3>4
  <2> QED  BY <2>4, <2>5
<1>5. CASE CreatePes(t)
  <2> DEFINE f   == job[t].shape
             pkt == PesPacket(f, job[t].frame, lFirst[t], mDataPos[t], getCc(f.type))
  <2>1. /\ f \in FrameShapes /\ job[t].frame \in Frame /\ getCc(f.type) \in Cc /\ pkt \in Packet
        /\ Stream' = Stream \o <<pkt>>
    BY <1>5, CreatePesEmits
  <2>2. /\ pc[t] = "pes" /\ mDataPos[t] < f.size /\ mDataPos[t] \in Nat /\ lFirst[t] \in BOOLEAN
        /\ lFirst'[t] = FALSE /\ mMuxMtx' = mMuxMtx /\ mCurrentIndex' = mCurrentIndex
    BY <1>5 DEF CreatePes, TypeInv, TypeOK
  <2>3. IsStart(pkt) <=> lFirst[t]
    BY <2>1, <2>2, PesPacketRun DEF IsStart, IsPes
  <2>4. ~Pending'  BY <1>k, <2>2 DEF InsideMuxer
  <2> HIDE DEF pkt
  <2>5. CASE ~lFirst[t]
    <3>1. ~Pending  BY <1>h, <2>2, <2>5 DEF InsideMuxer
    <3> QED  BY <1>b, <2>1, <2>2, <2>3, <2>4, <2>5, <3>1
  <2>6. CASE lFirst[t]
    <3>1. Pending  BY <2>2, <2>6 DEF Pending
    <3>2. mCurrentIndex > 0  BY <1>c, <1>n, <3>1
    <3>3. count = mCurrentIndex - 1 /\ count \in Nat /\ count < PatInterval /\ count + 1 = count'
      BY <1>n, <2>2, <2>4, <3>1, <3>2
    <3> HIDE DEF count
    <3>4. Cadenced(Stream') /\ SinceTables(Stream', count + 1)
      BY <1>c, <1>s, <2>1, <2>3, <2>6, <3>2, <3>3, CadenceStart
    <3> QED  BY <1>i, <2>2, <3>2, <3>3, <3>4
  <2> QED  BY <2>5, <2>6
<1>6. CASE PesDone(t)
  <2>1. Pending' => Pending  BY <1>6 DEF PesDone, Goto, locals, Pending, TypeInv, TypeOK
  <2> QED  BY <1>6, <2>1, <1>a, StreamStays DEF PesDone
<1>7. CASE CreatePcr(t)
  <2>1. PcrPacket(nCalls[t]) \in Packet /\ Stream' = Stream \o <<PcrPacket(nCalls[t])>>
    BY <1>7, PcrEmits
  <2>2. pc[t] = "pcr" /\ pc'[t] = "out" /\ mMuxMtx' = mMuxMtx /\ mCurrentIndex' = mCurrentIndex
    BY <1>7 DEF CreatePcr, Goto, TypeInv, TypeOK
  <2>3. ~Pending /\ ~Pending'  BY <1>h, <1>k, <2>2 DEF InsideMuxer
  <2> QED  BY <1>b, <2>1, <2>2, <2>3, OthersNoStart
<1>8. CASE CreateNull(t)
  <2>1. NullPacket \in Packet /\ Stream' = Stream \o <<NullPacket>>  BY <1>8, NullEmits
  <2>2. pc[t] = "null" /\ pc'[t] = "out" /\ mMuxMtx' = mMuxMtx /\ mCurrentIndex' = mCurrentIndex
    BY <1>8 DEF CreateNull, Goto, TypeInv, TypeOK
  <2>3. ~Pending /\ ~Pending'  BY <1>h, <1>k, <2>2 DEF InsideMuxer
  <2> QED  BY <1>b, <2>1, <2>2, <2>3, OthersNoStart
<1>9. CASE Callback(t)
  <2>1. Pending' => Pending  BY <1>9 DEF Callback, Goto, Pending, TypeInv, TypeOK
  <2> QED  BY <1>9, <2>1, <1>a, StreamStays DEF Callback
<1>10. CASE Unlock(t)
  <2>1. Pending' => Pending  BY <1>10 DEF Unlock, Goto, locals, Pending, TypeInv, TypeOK
  <2> QED  BY <1>10, <2>1, <1>a, StreamStays DEF Unlock
<1> QED  BY <1>2, <1>3, <1>4, <1>5, <1>6, <1>7, <1>8, <1>9, <1>10 DEF Inside

(***************************************************************************)
(* An h222Type multiplexer keeps MPEGTS_PAT_INTERVAL for any value of it:  *)
(* every frame that starts on the wire has tables before it, at most that  *)
(* many frame starts back, however threads take turns, although the count  *)
(* mCurrentIndex goes up before the frame is written and empty frames      *)
(* count without ever starting.                                            *)
(***************************************************************************)
THEOREM CadenceAlwaysKept == Spec => []PatCadence
PROOF
<1> DEFINE Inv == TypeInv /\ Holder /\ EmptyOutside /\ Position /\ CadenceInv
<1>1. Init => Inv
  <2> SUFFICES ASSUME Init PROVE Inv  OBVIOUS
  <2>1. TypeInv  BY TypeInit
  <2>2. Holder /\ EmptyOutside  BY MuxerAssumption DEF Init, Holder, EmptyOutside, InsideMuxer
  <2>3. Position  BY DEF Init, Position, NoJob
  <2>4. Stream = <<>> /\ mCurrentIndex = 0 /\ \A t \in Threads : pc[t] # "pes"
    BY DEF Init, Stream
  <2>5. CadenceInv  BY <2>4 DEF CadenceInv, Cadenced, Pending
  <2> QED  BY <2>1, <2>2, <2>3, <2>5
<1>2. Inv /\ [Next]_vars => Inv'
  BY TypeNext, HolderNext, PositionNext, CadenceNext
<1>3. Inv => PatCadence
  <2> SUFFICES ASSUME Inv, MuxType = "h222Type", NEW j \in DOMAIN wire, IsStart(wire[j])
               PROVE  \E i \in 1 .. j :
                        /\ TablesAt(i)
                        /\ Cardinality({k \in i .. j : IsStart(wire[k])}) <= PatInterval
    BY DEF PatCadence
  <2>1. /\ DOMAIN wire = 1 .. Len(wire) /\ Len(wire) \in Nat
        /\ DOMAIN Stream = 1 .. Len(Stream) /\ Len(Stream) \in Nat
        /\ Len(wire) <= Len(Stream)
        /\ \A i \in DOMAIN wire : Stream[i] = wire[i]
    BY WireBegins DEF TypeInv
  <2>2. j \in DOMAIN Stream /\ IsStart(Stream[j])  BY <2>1
  <2>3. PICK i \in 1 .. j : TablesIn(Stream, i) /\ Cardinality(Starts(Stream, i, j)) <= PatInterval
    BY <2>2 DEF CadenceInv, Cadenced
  <2>4. i # j /\ i + 1 \in DOMAIN wire /\ i \in DOMAIN wire
    BY <2>1, <2>2, <2>3 DEF TablesIn, IsStart
  <2>5. TablesAt(i)  BY <2>1, <2>3, <2>4 DEF TablesIn, TablesAt
  <2>6. Starts(Stream, i, j) = {k \in i .. j : IsStart(wire[k])}
    <3>1. \A k \in i .. j : Stream[k] = wire[k]  BY <2>1
    <3> QED  BY <3>1 DEF Starts
  <2> QED  BY <2>3, <2>5, <2>6
<1> HIDE DEF Inv
<1> QED  BY <1>1, <1>2, <1>3, PTL DEF Spec
-----------------------------------------------------------------------------
(***************************************************************************)
(* The bytes of a packet and what the parser sees in them.                 *)
(***************************************************************************)
LEMMA Laid ==
    ASSUME NEW m \in Nat, NEW n \in Nat, NEW s, NEW t, Are(s, m), Are(t, n)
    PROVE  /\ Are(s \o t, m + n)
           /\ Holds(s \o t, 0, s)
           /\ Holds(s \o t, m, t)
<1>1. Are(s \o t, m + n)
  BY Concat
<1>2. Holds(s \o t, 0, s \o t)
  BY <1>1 DEF Are, Holds
<1>3. 0 \in Int /\ 0 + m = m
  OBVIOUS
<1> QED BY <1>1, <1>2, <1>3, HoldsConcat

LEMMA Fill ==
    ASSUME NEW n \in Nat
    PROVE  Are(FF(n), n)
BY DEF Are, FF, Low

Afcs == 1 .. 3
HeaderOk(p) == p.pid \in Pids /\ p.pusi \in BOOLEAN /\ p.afc \in Afcs /\ p.cc \in Cc
HeaderBytesOf(p) == HeaderBytes(p.pid, p.pusi, p.afc, p.cc)
HeaderOf(p) ==
    [mSyncByte |-> Bin(71), mTransportErrorIndicator |-> {},
     mPayloadUnitStartIndicator |-> Flag(p.pusi), mTransportPriority |-> {}, mPid |-> Bin(p.pid),
     mTransportScramblingControl |-> {}, mAdaptationFieldControl |-> Bin(p.afc),
     mContinuityCounter |-> Bin(p.cc)]

LEMMA HeaderFields ==
    ASSUME NEW p, HeaderOk(p)
    PROVE  /\ HeaderOf(p) \in TsHeader
           /\ HeaderBytesOf(p) = TsHeader_encode(HeaderOf(p))
           /\ Num(HeaderOf(p).mPid) = p.pid
           /\ Num(HeaderOf(p).mAdaptationFieldControl) = p.afc
           /\ Num(HeaderOf(p).mContinuityCounter) = p.cc
           /\ (HeaderOf(p).mPayloadUnitStartIndicator = {0}) <=> p.pusi
<1>0. PICK h : h = HeaderOf(p)
  OBVIOUS
<1>a. PICK pid \in Pids : pid = p.pid
  BY Zenon DEF HeaderOk
<1>b. PICK afc \in Afcs : afc = p.afc
  BY Zenon DEF HeaderOk
<1>c. PICK cc \in Cc : cc = p.cc
  BY Zenon DEF HeaderOk
<1>1. 71 \in Nat /\ 71 < 65536 /\ 71 < 256 /\ pid \in Nat /\ pid < 65536 /\ pid < 8192
      /\ afc \in Nat /\ afc < 65536 /\ afc < 4 /\ cc \in Nat /\ cc < 65536 /\ cc < 16
  BY SMTT(30) DEF Cc, CcModulus, Pids, Afcs, MPEGTS_NULL_PACKET_PID
<1>2. Bin(71) \in Word(8) /\ Bin(p.pid) \in Word(13) /\ Bin(p.afc) \in Word(2) /\ Bin(p.cc) \in Word(4)
  BY <1>a, <1>b, <1>c, <1>1, BinFits, SMTT(30)
<1>3. {} \in Word(1) /\ {} \in Word(2) /\ Flag(p.pusi) \in Word(1)
  BY DEF Word, Low, Flag, HeaderOk
<1>4. h \in TsHeader
  BY <1>0, <1>2, <1>3, SMTT(30) DEF TsHeader, Byte, HeaderOf
<1>5. HeaderBytesOf(p) = TsHeader_encode(h)
  BY <1>0, SMTT(30) DEF HeaderBytes, HeaderBytesOf, HeaderOf
<1>6. Num(Bin(p.pid)) = p.pid /\ Num(Bin(p.afc)) = p.afc /\ Num(Bin(p.cc)) = p.cc
  BY <1>a, <1>b, <1>c, <1>1, NumBin, SMTT(30)
<1>7. h.mPid = Bin(p.pid) /\ h.mAdaptationFieldControl = Bin(p.afc) /\ h.mContinuityCounter = Bin(p.cc)
      /\ h.mPayloadUnitStartIndicator = Flag(p.pusi)
  BY <1>0, SMTT(30) DEF HeaderOf
<1>8. (Flag(p.pusi) = {0}) <=> p.pusi
  BY DEF Flag, HeaderOk
<1> QED BY <1>0, <1>4, <1>5, <1>6, <1>7, <1>8

LEMMA HeaderSeen ==
    ASSUME NEW p, HeaderOk(p)
    PROVE  /\ Are(HeaderBytesOf(p), 4)
           /\ \A d : Holds(d, 0, HeaderBytesOf(p)) =>
                 /\ Num(TsHeader_decode(d, 0).mPid) = p.pid
                 /\ (TsHeader_decode(d, 0).mPayloadUnitStartIndicator = {0}) <=> p.pusi
                 /\ Num(TsHeader_decode(d, 0).mAdaptationFieldControl) = p.afc
                 /\ Num(TsHeader_decode(d, 0).mContinuityCounter) = p.cc
<1> DEFINE h == HeaderOf(p)
<1>1. /\ h \in TsHeader
      /\ HeaderBytesOf(p) = TsHeader_encode(h)
      /\ Num(h.mPid) = p.pid /\ Num(h.mAdaptationFieldControl) = p.afc
      /\ Num(h.mContinuityCounter) = p.cc
      /\ (h.mPayloadUnitStartIndicator = {0}) <=> p.pusi
  BY HeaderFields, SMTT(30)
<1> HIDE DEF h
<1>6. Are(HeaderBytesOf(p), 4)
  BY <1>1, TsHeaderAre
<1>7. ASSUME NEW d, Holds(d, 0, HeaderBytesOf(p))
      PROVE  /\ Num(TsHeader_decode(d, 0).mPid) = p.pid
             /\ (TsHeader_decode(d, 0).mPayloadUnitStartIndicator = {0}) <=> p.pusi
             /\ Num(TsHeader_decode(d, 0).mAdaptationFieldControl) = p.afc
             /\ Num(TsHeader_decode(d, 0).mContinuityCounter) = p.cc
  <2>1. 0 \in Int
    OBVIOUS
  <2>2. PICK g : g = [h EXCEPT !.mTransportPriority = {}]
    OBVIOUS
  <2>3. TsHeader_decode(d, 0) = g
    BY <1>1, <1>7, <2>1, <2>2, TsHeaderRoundTrip, SMTT(30)
  <2>4. /\ g.mPid = h.mPid /\ g.mAdaptationFieldControl = h.mAdaptationFieldControl
        /\ g.mContinuityCounter = h.mContinuityCounter
        /\ g.mPayloadUnitStartIndicator = h.mPayloadUnitStartIndicator
    BY <1>1, <2>2 DEF TsHeader
  <2> QED BY <1>1, <2>3, <2>4, Zenon
<1> QED BY <1>6, <1>7, Zenon

LEMMA NoAfBytes ==
    AfBytesOf(NoAf) = <<{}>> /\ Are(<<{}>>, 1)
<1> DEFINE a == [NoAdaptationField EXCEPT
                    !.mAdaptationFieldLength = Bin(NoAf.len), !.mRandomAccessIndicator = Flag(NoAf.ra),
                    !.mPcrFlag = Flag(NoAf.pcr # NoPcr)]
<1>1. NoAf.len = 0 /\ NoAf.pcr = NoPcr
  BY DEF NoAf
<1>2. a.mAdaptationFieldLength = {}
  BY <1>1, BinIs DEF NoAdaptationField
<1> HIDE DEF a
<1>3. AdaptationFieldHeader_encode(a) = <<{}>>
  BY <1>2 DEF AdaptationFieldHeader_encode
<1>4. AfBytesOf(NoAf) = <<{}>> \o <<>>
  BY <1>1, <1>3, Zenon DEF AfBytesOf, a
<1>5. Are(<<{}>>, 1)
  BY OneByte
<1>6. <<{}>> \o <<>> = <<{}>>
  BY <1>5 DEF Are
<1> QED BY <1>4, <1>5, <1>6

(* The flags byte of an adaptation field.                                  *)
AfFlags(ra, pcr) ==
    AdaptationFieldFlags([NoAdaptationField EXCEPT !.mRandomAccessIndicator = ra, !.mPcrFlag = pcr])
AfHeader(len, ra, pcr) ==
    [NoAdaptationField EXCEPT !.mAdaptationFieldLength = Bin(len), !.mRandomAccessIndicator = ra,
                              !.mPcrFlag = pcr]
AfLengths == 0 .. 255

LEMMA AfHeaderFields ==
    ASSUME NEW len \in AfLengths, NEW ra \in Word(1), NEW pcr \in Word(1)
    PROVE  /\ AfHeader(len, ra, pcr) \in AdaptationFieldHeader
           /\ AdaptationFieldFlags(AfHeader(len, ra, pcr)) = AfFlags(ra, pcr)
           /\ AfHeader(len, ra, pcr).mAdaptationFieldLength = Bin(len)
           /\ AfHeader(len, ra, pcr).mDiscontinuityIndicator = {}
           /\ AfHeader(len, ra, pcr).mRandomAccessIndicator = ra
           /\ AfHeader(len, ra, pcr).mPcrFlag = pcr
           /\ Bin(len) = {} <=> len = 0
<1>1. len \in Nat /\ len < 65536 /\ len < 256
  BY SMTT(30) DEF AfLengths
<1>2. Bin(len) \in Word(8) /\ Num(Bin(len)) = len
  BY <1>1, BinFits, NumBin, SMTT(30)
<1>3. {} \in Word(1)
  BY DEF Word, Low
<1>4. Bin(len) = {} <=> len = 0
  <2>1. 0 \in Nat /\ 0 < 65536
    BY SMTT(30)
  <2>2. Num({}) = 0
    BY <2>1, BinIs, NumBin, SMTT(30)
  <2> QED BY <1>2, <2>2, BinIs
<1>5. AfHeader(len, ra, pcr) \in AdaptationFieldHeader
  BY <1>2, <1>3 DEF AfHeader, AdaptationFieldHeader, NoAdaptationField, Byte
<1>6. AdaptationFieldFlags(AfHeader(len, ra, pcr)) = AfFlags(ra, pcr)
  BY DEF AfHeader, AfFlags, AdaptationFieldFlags, NoAdaptationField
<1>7. /\ AfHeader(len, ra, pcr).mAdaptationFieldLength = Bin(len)
      /\ AfHeader(len, ra, pcr).mDiscontinuityIndicator = {}
      /\ AfHeader(len, ra, pcr).mRandomAccessIndicator = ra
      /\ AfHeader(len, ra, pcr).mPcrFlag = pcr
  BY DEF AfHeader, NoAdaptationField
<1> QED BY <1>4, <1>5, <1>6, <1>7

AfFlagsOf(af)  == AfFlags(Flag(af.ra), Flag(af.pcr # NoPcr))
PcrBytesOf(af) == IF af.pcr = NoPcr THEN <<>> ELSE writePcr(Bin(af.pcr))
AfTimes(af) ==
    [len |-> af.len, disc |-> FALSE, ra |-> af.ra, pcr |-> IF af.pcr = NoPcr THEN {} ELSE {Bin(af.pcr)}]
AfOk(af) == af.len \in AfLengths /\ af.ra \in BOOLEAN /\ af.pcr \in Nat \cup {NoPcr}

LEMMA AfBytesAre ==
    ASSUME NEW af, AfOk(af), af.len # 0
    PROVE  /\ AfBytesOf(af) = <<Bin(af.len), AfFlagsOf(af)>> \o PcrBytesOf(af)
           /\ Are(<<Bin(af.len), AfFlagsOf(af)>>, 2)
           /\ Are(AfBytesOf(af), IF af.pcr = NoPcr THEN 2 ELSE 8)
<1> DEFINE r == Flag(af.ra)
           isPcr == Flag(af.pcr # NoPcr)
           b == <<Bin(af.len), AfFlags(r, isPcr)>>
<1>a. af.len \in AfLengths /\ af.ra \in BOOLEAN /\ af.pcr \in Nat \cup {NoPcr}
  BY DEF AfOk
<1>0. r \in Word(1) /\ isPcr \in Word(1)
  BY <1>a DEF Word, Low, Flag
<1> HIDE DEF r, isPcr
<1>1. /\ AfHeader(af.len, r, isPcr) \in AdaptationFieldHeader
      /\ AdaptationFieldFlags(AfHeader(af.len, r, isPcr)) = AfFlags(r, isPcr)
      /\ AfHeader(af.len, r, isPcr).mAdaptationFieldLength = Bin(af.len)
      /\ Bin(af.len) # {}
  BY <1>0, <1>a, AfHeaderFields, SMTT(30)
<1>2. AdaptationFieldHeader_encode(AfHeader(af.len, r, isPcr)) = b
  BY <1>1 DEF AdaptationFieldHeader_encode
<1>3. AfBytesOf(af) = b \o (IF af.pcr = NoPcr THEN <<>> ELSE writePcr(Bin(af.pcr)))
  BY <1>2 DEF AfBytesOf, r, isPcr, AfHeader
<1>4. Are(b, 2)
  BY <1>1, <1>2, AdaptationFieldAre
<1>5. Are(IF af.pcr = NoPcr THEN <<>> ELSE writePcr(Bin(af.pcr)), IF af.pcr = NoPcr THEN 0 ELSE 6)
  <2>1. Are(writePcr(Bin(af.pcr)), 6)
    BY PcrAre
  <2>2. Are(<<>>, 0)
    BY DEF Are
  <2> QED BY <2>1, <2>2
<1>6. Are(AfBytesOf(af), 2 + (IF af.pcr = NoPcr THEN 0 ELSE 6))
  BY <1>3, <1>4, <1>5, Concat
<1> QED BY <1>3, <1>4, <1>6 DEF r, isPcr, AfFlagsOf, PcrBytesOf

LEMMA AfSeen ==
    ASSUME NEW af, AfOk(af), af.len # 0, NEW d, NEW pid, af.pcr # NoPcr => pid = PcrPid,
           d[5] = Bin(af.len), d[6] = AfFlagsOf(af),
           af.pcr # NoPcr => Holds(d, 6, writePcr(Bin(af.pcr)))
    PROVE  SeenAf(d, pid) = AfTimes(af)
<1> DEFINE r == Flag(af.ra)
           isPcr == Flag(af.pcr # NoPcr)
           a == AfHeader(af.len, r, isPcr)
<1>a. af.len \in AfLengths /\ af.ra \in BOOLEAN /\ af.pcr \in Nat \cup {NoPcr}
  BY DEF AfOk
<1>0. /\ r \in Word(1) /\ isPcr \in Word(1)
      /\ (r # {}) = af.ra
      /\ isPcr # {} <=> af.pcr # NoPcr
  BY <1>a DEF Word, Low, Flag
<1>7. d[6] = AfFlags(r, isPcr)
  BY DEF AfFlagsOf
<1> HIDE DEF r, isPcr
<1>1. /\ a \in AdaptationFieldHeader
      /\ AdaptationFieldFlags(a) = AfFlags(r, isPcr)
      /\ a.mAdaptationFieldLength = Bin(af.len)
      /\ Bin(af.len) # {}
      /\ a.mDiscontinuityIndicator = {}
      /\ a.mRandomAccessIndicator = r
      /\ a.mPcrFlag = isPcr
  BY <1>0, <1>a, AfHeaderFields, SMTT(30)
<1> HIDE DEF a
<1>2. Num(Bin(af.len)) = af.len
  <2>1. af.len \in Nat /\ af.len < 65536
    BY <1>a, SMTT(30) DEF AfLengths
  <2> QED BY <2>1, NumBin, SMTT(30)
<1>3. Holds(d, 4, AdaptationFieldHeader_encode(a))
  <2>1. AdaptationFieldHeader_encode(a) = <<d[5], d[6]>>
    BY <1>1, <1>7 DEF AdaptationFieldHeader_encode
  <2> QED BY <2>1 DEF Holds
<1>4. AdaptationFieldHeader_decode(d, 4) = a
  BY <1>1, <1>3, AdaptationFieldRoundTrip
<1>5. af.pcr # NoPcr => readPcr(d, 6) = Bin(af.pcr)
  <2> SUFFICES ASSUME af.pcr # NoPcr PROVE readPcr(d, 6) = Bin(af.pcr)
    OBVIOUS
  <2>1. Bin(af.pcr) \in SUBSET Int /\ Bin(af.pcr) \cap Low(33) = Bin(af.pcr)
    BY <1>a, BinTime
  <2> QED BY <2>1, PcrRoundTrip
<1>6. (IF isPcr # {} /\ pid = PcrPid THEN {readPcr(d, 6)} ELSE {})
        = IF af.pcr = NoPcr THEN {} ELSE {Bin(af.pcr)}
  BY <1>0, <1>5
<1>8. SeenAf(d, pid) = [len |-> Num(a.mAdaptationFieldLength), disc |-> a.mDiscontinuityIndicator # {},
                        ra |-> a.mRandomAccessIndicator # {},
                        pcr |-> IF a.mPcrFlag # {} /\ pid = PcrPid THEN {readPcr(d, 6)} ELSE {}]
  <2>1. TsHeaderBytes = 4 /\ TsHeaderBytes + 2 = 6
    BY DEF TsHeaderBytes
  <2> QED BY <1>4, <2>1, Zenon DEF SeenAf
<1> QED BY <1>0, <1>1, <1>2, <1>6, <1>8, Zenon DEF AfTimes

LEMMA NoFieldIs ==
    [NoAf EXCEPT !.pcr = {}] = AfTimes(NoAf)
<1>1. PICK no, c, none : no = FALSE /\ c = NoPcr /\ none = {}
  BY Zenon
<1>2. PICK af : af = [len |-> 0, disc |-> no, ra |-> no, pcr |-> c]
  OBVIOUS
<1>3. NoAf = af
  BY <1>1, <1>2, Zenon DEF NoAf
<1>4. [af EXCEPT !.pcr = none] = [len |-> 0, disc |-> no, ra |-> no, pcr |-> none]
  BY <1>2, SMTT(30)
<1>5. af.len = 0 /\ af.ra = no /\ af.pcr = c
  BY <1>2, SMTT(30)
<1> QED BY <1>1, <1>3, <1>4, <1>5, Zenon DEF AfTimes

(* Which adaptation fields parseAdaptationField lets through.              *)
LEMMA FieldFits ==
    ASSUME NEW af, af.len \in Nat
    PROVE  FieldTooLong(AfTimes(af)) <=> af.len > 182
<1>1. AfTimes(af).len = af.len
  BY DEF AfTimes
<1> QED BY <1>1 DEF FieldTooLong, kTsPacketSize_188, TsHeaderBytes

(* What the parser finds in a packet with this header, load by load.       *)
AfIn(p, d)     == IF hasAdaptationField(p.afc) THEN SeenAf(d, p.pid) ELSE [NoAf EXCEPT !.pcr = {}]
StartIn(p, d)  == TsHeaderBytes + IF hasAdaptationField(p.afc) THEN 1 + AfIn(p, d).len ELSE 0
PesIn(p, d)    == IF p.pusi THEN SeenPes(d, StartIn(p, d)) ELSE Times(NoPes)
DataBegins(p, d)   == StartIn(p, d) + IF p.pusi THEN PesHeaderBytes + PesIn(p, d).hdl ELSE 0
TableIn(p, d)  == StartIn(p, d) + 1 + Num(d[StartIn(p, d) + 1])
Parsed(p, d, load) ==
    [pid |-> p.pid, pusi |-> p.pusi, afc |-> p.afc, cc |-> p.cc, af |-> AfIn(p, d),
     bytes |-> Len(d), load |-> load]

LEMMA SeenIs ==
    ASSUME NEW p, HeaderOk(p), NEW d, Holds(d, 0, HeaderBytesOf(p)), NEW like
    PROVE  /\ FieldTooLong(AfIn(p, d)) => Seen(d, like) = Dropped
           /\ ~FieldTooLong(AfIn(p, d)) =>
                /\ like.kind = "none" => Seen(d, like) = Parsed(p, d, NoLoad)
                /\ like.kind = "pat" /\ hasPayload(p.afc) =>
                      Seen(d, like) = Parsed(p, d, SeenPat(d, TableIn(p, d)))
                /\ like.kind = "pmt" /\ hasPayload(p.afc) =>
                      Seen(d, like) = Parsed(p, d, SeenPmt(d, TableIn(p, d)))
                /\ like.kind = "pes" /\ hasPayload(p.afc) =>
                      Seen(d, like) = Parsed(p, d,
                          PesLoad(PesIn(p, d), [like.run EXCEPT !.len = Len(d) - DataBegins(p, d)]))
<1> DEFINE h == TsHeader_decode(d, 0)
           a == SeenPat(d, TableIn(p, d))
           b == SeenPmt(d, TableIn(p, d))
           c == PesLoad(PesIn(p, d), [like.run EXCEPT !.len = Len(d) - DataBegins(p, d)])
           load == CASE ~hasPayload(p.afc) \/ like.kind = "none" -> NoLoad
                     [] like.kind = "pat" -> a
                     [] like.kind = "pmt" -> b
                     [] like.kind = "pes" -> c
<1>1. /\ Num(h.mPid) = p.pid
      /\ (h.mPayloadUnitStartIndicator = {0}) <=> p.pusi
      /\ Num(h.mAdaptationFieldControl) = p.afc
      /\ Num(h.mContinuityCounter) = p.cc
  BY HeaderSeen, SMTT(30)
<1>2. (h.mPayloadUnitStartIndicator = {0}) = p.pusi
  BY <1>1, Zenon DEF HeaderOk
<1> HIDE DEF h
<1>3. Seen(d, like) = IF FieldTooLong(AfIn(p, d)) THEN Dropped ELSE Parsed(p, d, load)
  BY <1>1, <1>2, Zenon DEF Seen, h, Parsed, AfIn, StartIn, PesIn, DataBegins, TableIn
<1> HIDE DEF a, b, c
<1>4. /\ like.kind = "none" => load = NoLoad
      /\ like.kind = "pat" /\ hasPayload(p.afc) => load = a
      /\ like.kind = "pmt" /\ hasPayload(p.afc) => load = b
      /\ like.kind = "pes" /\ hasPayload(p.afc) => load = c
  BY SMTT(30)
<1> HIDE DEF load
<1> QED BY <1>3, <1>4, Zenon DEF a, b, c

LEMMA PaddedIs ==
    ASSUME NEW n \in Nat, n <= 188, NEW e, Are(e, n)
    PROVE  /\ Are(Padded(e), 188)
           /\ Holds(Padded(e), 0, e)
<1>1. Len(e) = n /\ 188 - n \in Nat /\ n + (188 - n) = 188
  BY DEF Are
<1>2. Padded(e) = e \o FF(188 - n)
  BY <1>1 DEF Padded, kTsPacketSize_188
<1> DEFINE f == FF(188 - n)
<1>3. Are(f, 188 - n)
  BY <1>1, Fill
<1> HIDE DEF f
<1>4. Are(e \o f, n + (188 - n)) /\ Holds(e \o f, 0, e)
  BY <1>1, <1>3, Laid
<1> QED BY <1>1, <1>2, <1>4 DEF f

IsPacket(p) ==
    /\ p = [pid |-> p.pid, pusi |-> p.pusi, afc |-> p.afc, cc |-> p.cc, af |-> p.af,
            load |-> p.load, bytes |-> p.bytes]
    /\ p.af = [len |-> p.af.len, disc |-> p.af.disc, ra |-> p.af.ra, pcr |-> p.af.pcr]
    /\ p.af.disc = FALSE

TimedAs(p, af, bytes, load) ==
    [pid |-> p.pid, pusi |-> p.pusi, afc |-> p.afc, cc |-> p.cc, af |-> af, bytes |-> bytes,
     load |-> load]

LEMMA TimedIs ==
    ASSUME NEW p, IsPacket(p)
    PROVE  Timed(p) = TimedAs(p, AfTimes(p.af), p.bytes, TimedLoad(p.load))
<1>4. TimedAf(p.af) = AfTimes(p.af)
  <2> DEFINE v == IF p.af.pcr = NoPcr THEN {} ELSE {Bin(p.af.pcr)}
  <2>1. PICK len, disc, ra, pcr : p.af = [len |-> len, disc |-> disc, ra |-> ra, pcr |-> pcr]
    BY Zenon DEF IsPacket
  <2> HIDE DEF v
  <2>2. [p.af EXCEPT !.pcr = v] = [len |-> p.af.len, disc |-> p.af.disc, ra |-> p.af.ra, pcr |-> v]
    BY <2>1, SMTT(30)
  <2> QED BY <2>2, Zenon DEF TimedAf, AfTimes, v, IsPacket
<1> DEFINE v == TimedAf(p.af)
           l == TimedLoad(p.load)
           q == [pid |-> p.pid, pusi |-> p.pusi, afc |-> p.afc, cc |-> p.cc, af |-> v,
                 load |-> p.load, bytes |-> p.bytes]
<1> HIDE DEF v, l
<1>3. PICK pid, pusi, afc, cc, af, load, bytes :
        p = [pid |-> pid, pusi |-> pusi, afc |-> afc, cc |-> cc, af |-> af, load |-> load,
             bytes |-> bytes]
  BY Zenon DEF IsPacket
<1>5. [p EXCEPT !.af = v] = q
  BY <1>3, SMTT(30)
<1>6. [q EXCEPT !.load = l] = [pid |-> p.pid, pusi |-> p.pusi, afc |-> p.afc, cc |-> p.cc, af |-> v,
                               load |-> l, bytes |-> p.bytes]
  BY SMTT(30)
<1> QED BY <1>4, <1>5, <1>6, Zenon DEF Timed, TimedAs, v, l

(* What follows the header, and what follows the adaptation field's head.  *)
LEMMA HeadPart ==
    ASSUME NEW n \in Nat, NEW s, NEW t, Are(s, 4), Are(t, n), NEW d, Holds(d, 0, s \o t)
    PROVE  Holds(d, 0, s) /\ Holds(d, 4, t)
<1>1. PICK m \in Nat : m = 4
  OBVIOUS
<1>2. Are(s, m)
  BY <1>1, Zenon
<1>3. Holds(d, 0, s) /\ Holds(d, 0 + m, t)
  BY <1>2, HoldsConcat, SMTT(30)
<1> QED BY <1>1, <1>3

LEMMA AfPart ==
    ASSUME NEW n \in Nat, NEW s, NEW t, Are(s, 2), Are(t, n), NEW d, Holds(d, 4, s \o t)
    PROVE  Holds(d, 4, s) /\ Holds(d, 6, t)
<1>1. PICK m \in Nat : m = 2
  OBVIOUS
<1>2. Are(s, m)
  BY <1>1, Zenon
<1>3. Holds(d, 4, s) /\ Holds(d, 4 + m, t)
  BY <1>2, HoldsConcat, SMTT(30)
<1> QED BY <1>1, <1>3

(* The clock is there, and its packet is dropped.                          *)
LEMMA PcrSeen ==
    ASSUME NEW n \in Nat, PcrPid \in EsPids
    PROVE  /\ Seen(PcrPacketBytes(n), NoLoad) = Dropped
           /\ readPcr(PcrPacketBytes(n), TsHeaderBytes + 2) = Bin(n)
<1>0. PICK p : p = PcrPacket(n)
  OBVIOUS
<1> DEFINE H == HeaderBytesOf(p)
           A == AfBytesOf(p.af)
           d == PcrPacketBytes(n)
           b == <<Bin(p.af.len), AfFlagsOf(p.af)>>
           w == PcrBytesOf(p.af)
<1>a. PICK total \in AfLengths : total = 183 /\ total # 0
  BY SMTT(30) DEF AfLengths
<1>1. /\ p.pid = PcrPid /\ p.pusi = FALSE /\ p.afc = mAdaptionOnly /\ p.cc = 0
      /\ p.af.len = total /\ p.af.ra = FALSE /\ p.af.disc = FALSE /\ p.af.pcr = n /\ p.bytes = 188
      /\ p.load = NoLoad
  BY <1>0, <1>a, SMTT(30) DEF PcrPacket, kTsPacketSize_188
<1>2. HeaderOk(p) /\ AfOk(p.af) /\ p.af.len # 0 /\ p.af.pcr # NoPcr
  <2>1. PcrPid \in Pids /\ mAdaptionOnly \in Afcs /\ 0 \in Cc /\ n # NoPcr
    BY SMTT(30) DEF EsPids, Pids, MPEGTS_NULL_PACKET_PID, mAdaptionOnly, Afcs, Cc, CcModulus, NoPcr
  <2>2. HeaderOk(p)
    BY <1>1, <2>1, Zenon DEF HeaderOk
  <2>3. AfOk(p.af)
    BY <1>1, <1>a, <2>1, Zenon DEF AfOk
  <2> QED BY <1>1, <1>a, <2>1, <2>2, <2>3, Zenon
<1>3. A = b \o w /\ Are(b, 2) /\ Are(A, 8)
  BY <1>2, AfBytesAre
<1>4. Are(H, 4)
  BY <1>2, HeaderSeen
<1>5. Are(w, 6) /\ w = writePcr(Bin(p.af.pcr))
  BY <1>2, PcrAre DEF PcrBytesOf
<1>6. d = Padded(H \o A)
  BY <1>0, <1>1, Zenon DEF PcrPacketBytes, HeaderBytesOf
<1> HIDE DEF H, A, d, b, w
<1>7. Are(H \o A, 4 + 8)
  BY <1>3, <1>4, Concat
<1>8. Are(d, 188) /\ Holds(d, 0, H \o A)
  BY <1>6, <1>7, PaddedIs
<1>n. 8 \in Nat /\ 6 \in Nat
  OBVIOUS
<1>9. Holds(d, 0, H) /\ Holds(d, 4, A)
  BY <1>3, <1>4, <1>8, <1>n, HeadPart, Zenon
<1>10. Holds(d, 4, b) /\ Holds(d, 6, w)
  <2>1. Holds(d, 4, b \o w)
    BY <1>3, <1>9, Zenon
  <2> QED BY <1>3, <1>5, <2>1, <1>n, AfPart, Zenon
<1>11. d[5] = Bin(p.af.len) /\ d[6] = AfFlagsOf(p.af)
  <2>1. d[4 + 1] = b[1] /\ d[4 + 2] = b[2]
    BY <1>3, <1>10 DEF Holds, Are
  <2> QED BY <2>1 DEF b
<1>12. SeenAf(d, p.pid) = AfTimes(p.af)
  BY <1>1, <1>2, <1>5, <1>10, <1>11, AfSeen
<1>13. AfIn(p, d) = AfTimes(p.af)
  <2>1. hasAdaptationField(p.afc)
    BY <1>1 DEF hasAdaptationField, mAdaptionOnly
  <2> QED BY <1>12, <2>1, Zenon DEF AfIn
<1>14. FieldTooLong(AfIn(p, d))
  <2>1. p.af.len \in Nat /\ p.af.len > 182
    BY <1>1, <1>a
  <2> QED BY <1>13, <2>1, FieldFits
<1>15. Seen(d, NoLoad) = Dropped
  <2>1. Holds(d, 0, HeaderBytesOf(p))
    BY <1>9 DEF H
  <2> QED BY <1>2, <1>14, <2>1, SeenIs, Zenon
<1>16. readPcr(d, TsHeaderBytes + 2) = Bin(n)
  <2>1. Bin(n) \in SUBSET Int /\ Bin(n) \cap Low(33) = Bin(n)
    BY BinTime
  <2>2. Holds(d, 6, writePcr(Bin(n)))
    BY <1>1, <1>5, <1>10, Zenon
  <2>3. TsHeaderBytes + 2 = 6
    BY DEF TsHeaderBytes
  <2> QED BY <2>1, <2>2, <2>3, PcrRoundTrip
<1> QED BY <1>15, <1>16 DEF d
-----------------------------------------------------------------------------
LEMMA CutOut ==
    ASSUME NEW T, NEW d \in Seq(T), NEW s \in Seq(T), NEW p \in Nat, p + Len(s) <= Len(d), Holds(d, p, s)
    PROVE  SubSeq(d, p + 1, p + Len(s)) = s
<1> DEFINE q == SubSeq(d, p + 1, p + Len(s))
<1>1. q \in Seq(T) /\ Len(q) = Len(s)
  OBVIOUS
<1>2. ASSUME NEW i \in 1 .. Len(s) PROVE q[i] = s[i]
  <2>1. q[i] = d[p + i]
    OBVIOUS
  <2> QED BY <2>1 DEF Holds
<1> HIDE DEF q
<1>3. q = s
  BY <1>1, <1>2
<1> QED BY <1>3 DEF q

LEMMA HeldFromSix ==
    ASSUME NEW d \in Bytes, NEW s \in Bytes, 5 + Len(s) <= Len(d), Holds(d, 5, s)
    PROVE  SubSeq(d, 6, 5 + Len(s)) = s
<1>1. PICK p \in Nat : p = 5
  OBVIOUS
<1>2. Holds(d, p, s)
  BY <1>1
<1>3. p + Len(s) <= Len(d)
  BY <1>1
<1>4. SubSeq(d, p + 1, p + Len(s)) = s
  BY <1>2, <1>3, CutOut, Zenon DEF Bytes
<1> QED BY <1>1, <1>4

LEMMA WithCrcIs ==
    ASSUME NEW e, Are(e, 5), NEW s \in Seq(Byte), Len(s) <= 179
    PROVE  /\ Are(WithCrc(e \o s), 188)
           /\ Holds(WithCrc(e \o s), 0, e)
           /\ Holds(WithCrc(e \o s), 5, s)
           /\ crc32(SubSeq(WithCrc(e \o s), 6, Len(s) + 9)) = {}
<1> DEFINE m == Len(s)
           t == Bytes4(crc32(s))
           d == WithCrc(e \o s)
<1>1. m \in Nat /\ Are(s, m)
  BY DEF Are, Byte, Word, Low
<1>2. t \in Seq(Byte) /\ Are(t, 4)
  <2>a. crc32(s) \in Word(32)
    BY CrcChecks
  <2> DEFINE w == crc32(s)
  <2>b. w \in Word(32)
    BY <2>a
  <2> HIDE DEF w
  <2>1. w \in SUBSET Int
    BY <2>b DEF Word, Low
  <2>2. /\ Get(w, 24, 8) \in Byte /\ Get(w, 16, 8) \in Byte /\ Get(w, 8, 8) \in Byte
        /\ Get(w, 0, 8) \in Byte
    BY <2>1, GetWord DEF Byte
  <2>3. Bytes4(w) \in Seq(Byte)
    BY <2>2 DEF Bytes4
  <2> QED BY <2>1, <2>3, FourBytes DEF w
<1>3. m + 4 \in Nat /\ Are(s \o t, m + 4)
  <2> HIDE DEF m, t
  <2>1. PICK n \in Nat : n = 4
    OBVIOUS
  <2>2. Are(t, n)
    BY <1>2, <2>1
  <2>3. Are(s \o t, m + n)
    BY <1>1, <2>2, Concat
  <2> QED BY <1>1, <2>1, <2>3
<1> HIDE DEF m
<1>4. Are(e \o s, 5 + m) /\ Holds(e \o s, 0, e) /\ Holds(e \o s, 5, s)
  <2>1. PICK n \in Nat : n = 5
    OBVIOUS
  <2>2. Are(e, n)
    BY <2>1
  <2>3. Are(e \o s, n + m) /\ Holds(e \o s, 0, e) /\ Holds(e \o s, n, s)
    BY <1>1, <2>2, Laid
  <2> QED BY <2>1, <2>3
<1>5. Section(e \o s) = s
  <2> DEFINE x == e \o s
  <2> HIDE DEF x
  <2>1. x \in Bytes /\ Len(x) = 5 + m /\ s \in Bytes /\ Len(s) = m /\ Holds(x, 5, s)
    BY <1>1, <1>4 DEF x, Are, Bytes
  <2>3. 5 + Len(s) <= Len(x)
    BY <1>1, <2>1
  <2>2. SubSeq(x, 6, 5 + Len(s)) = s
    BY <2>1, <2>3, HeldFromSix, Zenon
  <2> QED BY <2>1, <2>2 DEF Section, x
<1>6. d = Padded((e \o s) \o t)
  BY <1>5 DEF WithCrc
<1>7. (e \o s) \o t = e \o (s \o t)
  <2>1. e \in Bytes /\ s \in Bytes /\ t \in Bytes
    BY <1>1, <1>2 DEF Are, Bytes
  <2> QED BY <2>1, ConcatTwice
<1> HIDE DEF t, d
<1>8. Are(e \o (s \o t), m + 9) /\ Holds(e \o (s \o t), 0, e) /\ Holds(e \o (s \o t), 5, s \o t)
  <2>1. PICK n \in Nat : n = 5
    OBVIOUS
  <2>2. Are(e, n)
    BY <2>1
  <2>3. Are(e \o (s \o t), n + (m + 4)) /\ Holds(e \o (s \o t), 0, e) /\ Holds(e \o (s \o t), n, s \o t)
    BY <1>3, <2>2, Laid
  <2>4. n + (m + 4) = m + 9
    BY <1>1, <2>1
  <2> QED BY <2>1, <2>3, <2>4
<1> DEFINE u == e \o (s \o t)
<1>9. Are(d, 188) /\ Holds(d, 0, u)
  <2> HIDE DEF u
  <2>1. Are(u, m + 9) /\ m + 9 \in Nat /\ m + 9 <= 188
    BY <1>1, <1>8 DEF u, m
  <2>2. d = Padded(u)
    BY <1>6, <1>7 DEF u
  <2> QED BY <2>1, <2>2, PaddedIs
<1>10. Holds(d, 0, e) /\ Holds(d, 5, s \o t)
  <2>1. PICK n \in Nat : n = 5
    OBVIOUS
  <2>2. Are(e, n)
    BY <2>1
  <2>3. Holds(d, 0, e) /\ Holds(d, 0 + n, s \o t)
    BY <1>3, <1>9, <2>2, HoldsConcat
  <2> QED BY <2>1, <2>3
<1>11. Holds(d, 5, s)
  <2>1. PICK n \in Nat : n = 4
    OBVIOUS
  <2>2. Are(t, n)
    BY <1>2, <2>1
  <2>3. Holds(d, 5, s)
    BY <1>1, <1>10, <2>2, HoldsConcat
  <2> QED BY <2>3
<1>12. SubSeq(d, 6, m + 9) = s \o t
  <2> DEFINE x == s \o t
  <2>1. x \in Bytes /\ Len(x) = m + 4 /\ d \in Bytes /\ Len(d) = 188
    BY <1>3, <1>9 DEF Are, Bytes
  <2> HIDE DEF x
  <2>2. 5 + Len(x) <= Len(d) /\ 5 + Len(x) = m + 9
    BY <1>1, <2>1 DEF m
  <2>3. Holds(d, 5, x)
    BY <1>10 DEF x
  <2>4. SubSeq(d, 6, 5 + Len(x)) = x
    BY <2>1, <2>2, <2>3, HeldFromSix, Zenon
  <2> QED BY <2>2, <2>4 DEF x
<1>13. crc32(s \o t) = {}
  BY CrcChecks DEF t
<1> QED BY <1>9, <1>10, <1>11, <1>12, <1>13 DEF d, m
-----------------------------------------------------------------------------
(* The packet of a table, its section after an empty adaptation field.     *)
IsTable(p, load) ==
    /\ p = [pid |-> p.pid, pusi |-> TRUE, afc |-> mPayloadOnly, cc |-> p.cc, af |-> NoAf,
            load |-> load, bytes |-> 188]
    /\ p.pid \in Pids /\ p.cc \in Cc

LEMMA TableSeen ==
    ASSUME NEW p, NEW load, IsTable(p, load), load.kind \in {"pat", "pmt"},
           NEW d, Are(d, 188), Holds(d, 0, HeaderBytesOf(p) \o AfBytesOf(NoAf))
    PROVE  /\ load.kind = "pat" /\ SeenPat(d, 5) = load => Seen(d, p.load) = Timed(p)
           /\ load.kind = "pmt" /\ SeenPmt(d, 5) = load => Seen(d, p.load) = Timed(p)
<1> DEFINE H == HeaderBytesOf(p)
<1>1. /\ p.pusi = TRUE /\ p.afc = mPayloadOnly /\ p.af = NoAf /\ p.load = load /\ p.bytes = 188
      /\ p.pid \in Pids /\ p.cc \in Cc
  <2>1. PICK pid, cc : p = [pid |-> pid, pusi |-> TRUE, afc |-> mPayloadOnly, cc |-> cc,
                            af |-> NoAf, load |-> load, bytes |-> 188]
    BY Zenon DEF IsTable
  <2>2. p.pusi = TRUE /\ p.afc = mPayloadOnly /\ p.af = NoAf /\ p.load = load /\ p.bytes = 188
    BY <2>1, SMTT(30)
  <2> QED BY <2>2, Zenon DEF IsTable
<1>2. HeaderOk(p) /\ hasPayload(p.afc) /\ ~hasAdaptationField(p.afc)
  <2>1. hasPayload(p.afc) /\ ~hasAdaptationField(p.afc) /\ p.afc \in Afcs
    BY <1>1, SMTT(30) DEF hasPayload, hasAdaptationField, mPayloadOnly, mAdaptionOnly,
                     mPayloadAdaptionBoth, Afcs
  <2> QED BY <1>1, <2>1, Zenon DEF HeaderOk
<1>3. Are(H, 4)
  BY <1>2, HeaderSeen
<1> HIDE DEF H
<1>4. Holds(d, 0, H) /\ Holds(d, 4, <<{}>>)
  <2>1. AfBytesOf(NoAf) = <<{}>> /\ Are(<<{}>>, 1)
    BY NoAfBytes
  <2>2. 1 \in Nat
    OBVIOUS
  <2>3. Holds(d, 0, H \o <<{}>>)
    BY <2>1, Zenon DEF H
  <2> QED BY <1>3, <2>1, <2>2, <2>3, HeadPart, Zenon
<1>5. d[5] = {}
  BY <1>4 DEF Holds
<1>6. TableIn(p, d) = 5 /\ AfIn(p, d) = AfTimes(NoAf)
  <2>1. StartIn(p, d) = 4
    BY <1>2 DEF StartIn, TsHeaderBytes
  <2>2. Num({}) = 0
    <3>1. 0 \in Nat /\ 0 < 65536
      BY SMTT(30)
    <3> QED BY <3>1, NumBin, BinIs, SMTT(30)
  <2>3. TableIn(p, d) = 5
    BY <1>5, <2>1, <2>2 DEF TableIn
  <2>4. AfIn(p, d) = [NoAf EXCEPT !.pcr = {}]
    BY <1>2 DEF AfIn
  <2> QED BY <2>3, <2>4, NoFieldIs, Zenon
<1>7. /\ load.kind = "pat" => Seen(d, p.load) = Parsed(p, d, SeenPat(d, 5))
      /\ load.kind = "pmt" => Seen(d, p.load) = Parsed(p, d, SeenPmt(d, 5))
  <2>1. Holds(d, 0, HeaderBytesOf(p))
    BY <1>4 DEF H
  <2>4. ~FieldTooLong(AfIn(p, d))
    <3>1. NoAf.len = 0
      BY DEF NoAf
    <3> QED BY <1>6, <3>1, FieldFits
  <2>2. load.kind = "pat" => Seen(d, load) = Parsed(p, d, SeenPat(d, TableIn(p, d)))
    BY <1>2, <2>1, <2>4, SeenIs, Zenon
  <2>3. load.kind = "pmt" => Seen(d, load) = Parsed(p, d, SeenPmt(d, TableIn(p, d)))
    BY <1>2, <2>1, <2>4, SeenIs, Zenon
  <2> QED BY <1>1, <1>6, <2>2, <2>3, Zenon
<1>8. Timed(p) = TimedAs(p, AfTimes(NoAf), Len(d), load)
  <2>1. Len(d) = p.bytes /\ p.af = NoAf /\ p.load = load
    BY <1>1, SMTT(30) DEF Are
  <2>2. IsPacket(p)
    <3>1. NoAf = [len |-> NoAf.len, disc |-> NoAf.disc, ra |-> NoAf.ra, pcr |-> NoAf.pcr]
          /\ NoAf.disc = FALSE
      BY DEF NoAf
    <3> QED BY <1>1, <3>1, Zenon DEF IsPacket, IsTable
  <2>3. TimedLoad(load) = load
    BY DEF TimedLoad
  <2>4. Timed(p) = TimedAs(p, AfTimes(p.af), p.bytes, TimedLoad(p.load))
    BY <2>2, TimedIs, Zenon
  <2> QED BY <2>1, <2>3, <2>4, Zenon
<1> QED BY <1>6, <1>7, <1>8, Zenon DEF Parsed, TimedAs

TableIds       == 0 .. 255
SectionLengths == 0 .. 4095

LEMMA TableHeadOk ==
    ASSUME NEW tableId \in TableIds, NEW length \in SectionLengths
    PROVE  /\ TableHead(tableId, length) \in SectionHead
           /\ Num(TableHead(tableId, length).mSectionLength) = length
<1>1. Bin(tableId) \in Byte /\ Bin(length) \in Word(12) /\ Num(Bin(length)) = length
  <2>1. tableId \in Nat /\ tableId < 65536 /\ tableId < 256
    BY SMTT(30) DEF TableIds
  <2>2. length \in Nat /\ length < 65536 /\ length < 4096
    BY SMTT(30) DEF SectionLengths
  <2> QED BY <2>1, <2>2, BinFits, NumBin, SMTT(30) DEF Byte
<1>2. /\ {} \in Byte /\ {0} \in Word(1) /\ {} \in Word(1) /\ {0, 1} \in Word(2)
      /\ {} \in Word(16) /\ {} \in Word(5)
  BY DEF Byte, Word, Low
<1>3. TableHead(tableId, length).mSectionLength = Bin(length)
  BY DEF TableHead
<1>4. TableHead(tableId, length) \in SectionHead
  BY <1>1, <1>2, SMTT(30) DEF TableHead, SectionHead
<1> QED BY <1>1, <1>3, <1>4

LEMMA TwelveBytes ==
    ASSUME NEW a \in Seq(Byte), NEW b \in Seq(Byte), NEW c \in Seq(Byte),
           Are(a, 8), Are(b, 2), Are(c, 2)
    PROVE  /\ (a \o b) \o c \in Seq(Byte) /\ Len((a \o b) \o c) = 12
           /\ \A d : Holds(d, 5, (a \o b) \o c) => Holds(d, 5, a) /\ Holds(d, 13, b) /\ Holds(d, 15, c)
           /\ \A e \in Bytes : ((e \o a) \o b) \o c = e \o ((a \o b) \o c)
<1>1. PICK m \in Nat : m = 8
  OBVIOUS
<1>2. PICK n \in Nat : n = 2
  OBVIOUS
<1>3. Are(a, m) /\ Are(b, n) /\ Are(c, n)
  BY <1>1, <1>2
<1>4. Are(a \o b, m + n) /\ m + n \in Nat
  BY <1>3, Concat
<1>5. Are((a \o b) \o c, (m + n) + n)
  BY <1>3, <1>4, Concat
<1>6. (a \o b) \o c \in Seq(Byte)
  OBVIOUS
<1>7. ASSUME NEW d, Holds(d, 5, (a \o b) \o c)
      PROVE  Holds(d, 5, a) /\ Holds(d, 13, b) /\ Holds(d, 15, c)
  <2>1. PICK p \in Int : p = 5
    OBVIOUS
  <2>2. Holds(d, p, a \o b) /\ Holds(d, p + (m + n), c)
    BY <1>3, <1>4, <1>7, <2>1, HoldsConcat, SMTT(30)
  <2>3. Holds(d, p, a) /\ Holds(d, p + m, b)
    BY <1>3, <2>2, HoldsConcat, SMTT(30)
  <2>4. p + m = 13 /\ p + (m + n) = 15
    BY <1>1, <1>2, <2>1
  <2> QED BY <2>1, <2>2, <2>3, <2>4, Zenon
<1>8. ASSUME NEW e \in Bytes PROVE ((e \o a) \o b) \o c = e \o ((a \o b) \o c)
  <2>1. a \in Bytes /\ b \in Bytes /\ c \in Bytes /\ e \o a \in Bytes /\ a \o b \in Bytes
    BY <1>3, <1>4 DEF Are, Bytes
  <2>2. (e \o a) \o b = e \o (a \o b)
    BY <2>1, ConcatTwice, ZenonT(40)
  <2>3. (e \o (a \o b)) \o c = e \o ((a \o b) \o c)
    BY <2>1, ConcatTwice, ZenonT(40)
  <2> QED BY <2>2, <2>3
<1>9. Len((a \o b) \o c) = 12
  BY <1>1, <1>2, <1>5 DEF Are
<1> QED BY <1>6, <1>7, <1>8, <1>9

(* The word of a program's PMT PID.                                        *)
LEMMA PatPidWord ==
    ASSUME PmtPid \in EsPids
    PROVE  /\ 13 .. 15 \cup Bin(PmtPid) \in Word(16)
           /\ (13 .. 15 \cup Bin(PmtPid)) \cap Low(13) = Bin(PmtPid)
           /\ Num(Bin(PmtPid)) = PmtPid
           /\ Bin(1) \in Word(16) /\ Num(Bin(1)) = 1
<1>1. PmtPid \in Nat /\ PmtPid < 65536 /\ PmtPid < 8192 /\ 1 \in Nat /\ 1 < 65536
  BY DEF EsPids, MPEGTS_NULL_PACKET_PID
<1>2. Bin(PmtPid) \in Word(13) /\ Num(Bin(PmtPid)) = PmtPid /\ Bin(1) \in Word(16) /\ Num(Bin(1)) = 1
  BY <1>1, BinFits, NumBin, SMTT(30)
<1> DEFINE w == Bin(PmtPid)
<1> HIDE DEF w
<1>3. ASSUME w \in Word(13) PROVE 13 .. 15 \cup w \in Word(16) /\ (13 .. 15 \cup w) \cap Low(13) = w
  <2>1. \A x \in w : x \in 0 .. 12
    BY <1>3 DEF Word, Low
  <2>2. \A x : x \in 13 .. 15 \cup w => x \in 0 .. 15 /\ (x \in 0 .. 12 => x \in w)
    BY <2>1
  <2>3. 13 .. 15 \cup w \in Word(16)
    BY <2>2 DEF Word, Low
  <2>4. Low(13) = 0 .. 12
    BY DEF Low
  <2>5. \A x : x \in (13 .. 15 \cup w) \cap (0 .. 12) <=> x \in w
    BY <2>1, <2>2
  <2> QED BY <2>3, <2>4, <2>5
<1> QED BY <1>2, <1>3 DEF w

(* The packet that carries it, up to the section.                          *)
TableHeadBytes(p) == HeaderBytesOf(p) \o AfBytesOf(NoAf)

LEMMA TableHeadAre ==
    ASSUME NEW p, HeaderOk(p)
    PROVE  Are(TableHeadBytes(p), 5) /\ TableHeadBytes(p) \in Bytes
<1>1. PICK m \in Nat : m = 4
  OBVIOUS
<1>2. Are(HeaderBytesOf(p), m)
  BY <1>1, HeaderSeen
<1>3. Are(AfBytesOf(NoAf), 1)
  BY NoAfBytes
<1>4. Are(TableHeadBytes(p), m + 1)
  BY <1>2, <1>3, Concat DEF TableHeadBytes
<1>5. Are(TableHeadBytes(p), 5)
  BY <1>1, <1>4
<1> QED BY <1>5 DEF Are, Bytes

PatSection == (PATHeader_encode(TableHead(0, 13)) \o Bytes2(Bin(1))) \o Bytes2(13 .. 15 \cup Bin(PmtPid))

LEMMA PatSectionIs ==
    ASSUME PmtPid \in EsPids
    PROVE  /\ PatSection \in Seq(Byte) /\ Len(PatSection) = 12
           /\ \A d : Holds(d, 5, PatSection) =>
                 /\ SeenPat(d, 5) = PatLoad(<<[number |-> 1, pmt |-> PmtPid]>>)
                 /\ Num(SectionHead_decode(d, 5).mSectionLength) = 13
           /\ \A e \in Bytes :
                 ((e \o PATHeader_encode(TableHead(0, 13))) \o Bytes2(Bin(1)))
                   \o Bytes2(13 .. 15 \cup Bin(PmtPid)) = e \o PatSection
<1> DEFINE h == TableHead(0, 13)
           a == PATHeader_encode(h)
           w == 13 .. 15 \cup Bin(PmtPid)
           b == Bytes2(Bin(1))
           c == Bytes2(w)
<1>1. h \in SectionHead /\ Num(h.mSectionLength) = 13
  <2>1. PICK tableId \in TableIds : tableId = 0
    BY DEF TableIds
  <2>2. PICK length \in SectionLengths : length = 13
    BY DEF SectionLengths
  <2>3. TableHead(tableId, length) \in SectionHead /\ Num(TableHead(tableId, length).mSectionLength) = length
    BY TableHeadOk, Zenon
  <2> QED BY <2>1, <2>2, <2>3, Zenon
<1>2. /\ w \in Word(16) /\ w \cap Low(13) = Bin(PmtPid) /\ Num(Bin(PmtPid)) = PmtPid
      /\ Bin(1) \in Word(16) /\ Num(Bin(1)) = 1
  BY PatPidWord
<1> DEFINE u == Bin(1)
<1> HIDE DEF h, w, u
<1>3. a \in Seq(Byte) /\ Are(a, 8)
  <2>1. 12 \in Nat
    OBVIOUS
  <2> QED BY <1>1, <2>1, SectionHeadBytes, SectionHeadAre DEF PATHeader_encode
<1>4. Bytes2(u) \in Seq(Byte) /\ Are(Bytes2(u), 2) /\ c \in Seq(Byte) /\ Are(c, 2)
  <2>1. u \in Word(16)
    BY <1>2 DEF u
  <2> QED BY <1>2, <2>1, TwoInBytes, TwoBytes
<1> HIDE DEF a, c
<1>5. PatSection = (a \o Bytes2(u)) \o c
  BY DEF PatSection, a, c, u, h, w
<1>6. PatSection \in Seq(Byte) /\ Len(PatSection) = 12
  BY <1>3, <1>4, <1>5, TwelveBytes
<1>7. ASSUME NEW d, Holds(d, 5, PatSection)
      PROVE  /\ SeenPat(d, 5) = PatLoad(<<[number |-> 1, pmt |-> PmtPid]>>)
             /\ Num(SectionHead_decode(d, 5).mSectionLength) = 13
  <2>1. Holds(d, 5, a) /\ Holds(d, 13, Bytes2(u)) /\ Holds(d, 15, c)
    BY <1>3, <1>4, <1>5, <1>7, TwelveBytes
  <2>2. SectionHead_decode(d, 5) = h
    BY <1>1, <2>1, SectionHeadRoundTrip DEF a, PATHeader_encode
  <2>3. Word2(d, 13) = u /\ Word2(d, 15) = w
    BY <1>2, <2>1, Word2OfBytes2 DEF c, u
  <2>4. PATHeader_decode(d, 5).mSectionLength = h.mSectionLength
    BY <1>1, <2>2 DEF PATHeader_decode, SectionHead
  <2>5. (Num(PATHeader_decode(d, 5).mSectionLength) - 5 - 4) \div 4 = 1
    BY <1>1, <2>4
  <2>6. /\ 5 + PATHeaderBytes + 4 * 1 - 4 = 13 /\ 5 + PATHeaderBytes + 4 * 1 - 2 = 15
    BY DEF PATHeaderBytes
  <2>7. SeenPat(d, 5) = PatLoad([i \in 1 .. 1 |->
                   [number |-> Num(Word2(d, 5 + PATHeaderBytes + 4 * i - 4)),
                    pmt |-> Num(Word2(d, 5 + PATHeaderBytes + 4 * i - 2) \cap Low(13))]])
    BY <2>5 DEF SeenPat
  <2>8. Num(Word2(d, 13)) = 1 /\ Num(Word2(d, 15) \cap Low(13)) = PmtPid
    BY <1>2, <2>3 DEF u
  <2> DEFINE f == [i \in 1 .. 1 |->
                   [number |-> Num(Word2(d, 5 + PATHeaderBytes + 4 * i - 4)),
                    pmt |-> Num(Word2(d, 5 + PATHeaderBytes + 4 * i - 2) \cap Low(13))]]
  <2>9. f[1] = [number |-> 1, pmt |-> PmtPid]
    BY <2>6, <2>8
  <2>10. f = <<[number |-> 1, pmt |-> PmtPid]>>
    <3>1. DOMAIN f = 1 .. 1 /\ f = [i \in 1 .. 1 |-> f[i]]
      OBVIOUS
    <3> HIDE DEF f
    <3> QED BY <2>9, <3>1
  <2> QED BY <1>1, <2>2, <2>7, <2>10
<1>8. ASSUME NEW e \in Bytes
      PROVE  ((e \o a) \o Bytes2(u)) \o c = e \o PatSection
  BY <1>3, <1>4, <1>5, TwelveBytes, ZenonT(40)
<1> QED BY <1>6, <1>7, <1>8 DEF a, c, u, h, w

(* A table packet with this section, and the reader's check of it.         *)
LEMMA TablePacketIs ==
    ASSUME NEW p, HeaderOk(p), NEW s \in Seq(Byte), Len(s) <= 179
    PROVE  /\ Are(WithCrc(TableHeadBytes(p) \o s), 188)
           /\ Holds(WithCrc(TableHeadBytes(p) \o s), 0, TableHeadBytes(p))
           /\ Holds(WithCrc(TableHeadBytes(p) \o s), 5, s)
           /\ crc32(SubSeq(WithCrc(TableHeadBytes(p) \o s), 6, Len(s) + 9)) = {}
<1> DEFINE e == TableHeadBytes(p)
<1>1. Are(e, 5)
  BY TableHeadAre
<1> HIDE DEF e
<1>2. /\ Are(WithCrc(e \o s), 188)
      /\ Holds(WithCrc(e \o s), 0, e)
      /\ Holds(WithCrc(e \o s), 5, s)
      /\ crc32(SubSeq(WithCrc(e \o s), 6, Len(s) + 9)) = {}
  BY <1>1, WithCrcIs
<1> QED BY <1>2 DEF e

TableRight(p, d) ==
    /\ Seen(d, p.load) = Timed(p)
    /\ crc32(SubSeq(d, 6, 5 + 3 + Num(SectionHead_decode(d, 5).mSectionLength))) = {}

LEMMA PatSeen ==
    ASSUME NEW cc \in Cc, PmtPid \in EsPids
    PROVE  TableRight(createPat(cc), PatBytes(cc))
<1>0. PICK p : p = createPat(cc)
  OBVIOUS
<1> DEFINE d == PatBytes(cc)
           load == PatLoad(<<[number |-> 1, pmt |-> PmtPid]>>)
<1>1. IsTable(p, load) /\ p.pid = MPEGTS_PAT_PID /\ p.cc = cc /\ load.kind = "pat"
  <2>1. p = [pid |-> MPEGTS_PAT_PID, pusi |-> TRUE, afc |-> mPayloadOnly, cc |-> cc, af |-> NoAf,
             load |-> load, bytes |-> 188]
    BY <1>0, Zenon DEF createPat, TablePacket, kTsPacketSize_188
  <2> HIDE DEF load
  <2>2. p.pid = MPEGTS_PAT_PID /\ p.cc = cc
    BY <2>1, SMTT(30)
  <2>3. p.pid \in Pids
    BY <2>2, SMTT(30) DEF MPEGTS_PAT_PID, Pids, MPEGTS_NULL_PACKET_PID
  <2>4. load.kind = "pat"
    BY DEF load, PatLoad
  <2> QED BY <2>1, <2>2, <2>3, <2>4, Zenon DEF IsTable
<1> HIDE DEF load
<1>2. HeaderOk(p) /\ p.pusi = TRUE /\ p.afc = mPayloadOnly /\ p.load = load
  <2>1. PICK pid, c : p = [pid |-> pid, pusi |-> TRUE, afc |-> mPayloadOnly, cc |-> c,
                            af |-> NoAf, load |-> load, bytes |-> 188]
    BY <1>1, Zenon DEF IsTable
  <2>2. p.pusi = TRUE /\ p.afc = mPayloadOnly /\ p.load = load
    BY <2>1, SMTT(30)
  <2>3. mPayloadOnly \in Afcs
    BY DEF mPayloadOnly, Afcs
  <2> QED BY <1>1, <2>2, <2>3, Zenon DEF HeaderOk, IsTable
<1>3. d = WithCrc(TableHeadBytes(p) \o PatSection)
  <2>1. TableHeadBytes(p) \in Bytes
    BY <1>2, TableHeadAre
  <2>2. TableHeadBytes(p) = HeaderBytes(MPEGTS_PAT_PID, TRUE, mPayloadOnly, cc) \o AfBytesOf(NoAf)
    BY <1>1, <1>2, Zenon DEF TableHeadBytes, HeaderBytesOf
  <2>3. 4 + 4 + 5 = 13
    OBVIOUS
  <2>4. PICK e : e = TableHeadBytes(p)
    OBVIOUS
  <2>5. ((e \o PATHeader_encode(TableHead(0, 13))) \o Bytes2(Bin(1)))
          \o Bytes2(13 .. 15 \cup Bin(PmtPid)) = e \o PatSection
    BY <2>1, <2>4, PatSectionIs
  <2> QED BY <2>2, <2>3, <2>4, <2>5 DEF PatBytes
<1>4. PatSection \in Seq(Byte) /\ Len(PatSection) = 12
  BY PatSectionIs
<1>5. /\ Are(d, 188) /\ Holds(d, 0, TableHeadBytes(p)) /\ Holds(d, 5, PatSection)
      /\ crc32(SubSeq(d, 6, Len(PatSection) + 9)) = {}
  <2>1. Len(PatSection) <= 179
    BY <1>4
  <2> QED BY <1>2, <1>3, <1>4, <2>1, TablePacketIs, ZenonT(40)
<1> HIDE DEF d
<1>6. SeenPat(d, 5) = load /\ Num(SectionHead_decode(d, 5).mSectionLength) = 13
  BY <1>5, PatSectionIs DEF load
<1>7. Seen(d, p.load) = Timed(p)
  BY <1>1, <1>5, <1>6, TableSeen, Zenon DEF TableHeadBytes
<1>8. 5 + 3 + Num(SectionHead_decode(d, 5).mSectionLength) = Len(PatSection) + 9
  BY <1>4, <1>6
<1> QED BY <1>0, <1>5, <1>7, <1>8, Zenon DEF TableRight, d
-----------------------------------------------------------------------------
(* The PMT of the streams, with the section length that its size gives.    *)
InfoOf(stream) ==
    [mStreamType |-> Bin(stream.type), mReserved0 |-> 0 .. 2, mElementaryPid |-> Bin(stream.pid),
     mReserved1 |-> 0 .. 3, mEsInfoLength |-> {}]
PmtInfos == [i \in DOMAIN Streams |-> InfoOf(Streams[i])]
PmtTable(length) ==
    [head |-> [TableHead(2, length) EXCEPT !.number = Bin(1)], mReserved2 |-> 0 .. 2,
     mPcrPid |-> Bin(PcrPid), mReserved3 |-> 0 .. 3, mProgramInfoLength |-> {}, mInfos |-> PmtInfos]
PmtLength == 13 + 5 * Len(Streams)

LEMMA StreamInfos ==
    /\ PmtInfos \in Seq(ElementInfo) /\ Len(PmtInfos) = Len(Streams)
    /\ \A i \in DOMAIN Streams :
          /\ PmtInfos[i].mEsInfoLength = {}
          /\ Num(PmtInfos[i].mStreamType) = Streams[i].type
          /\ Num(PmtInfos[i].mElementaryPid) = Streams[i].pid
<1>1. Streams \in Seq(StreamInfo)
  BY MuxerAssumption
<1>2. ASSUME NEW s \in StreamInfo
      PROVE  /\ InfoOf(s) \in ElementInfo /\ InfoOf(s).mEsInfoLength = {}
             /\ Num(InfoOf(s).mStreamType) = s.type /\ Num(InfoOf(s).mElementaryPid) = s.pid
  <2>1. PICK type \in 1 .. 255 : type = s.type
    BY DEF StreamInfo
  <2>2. PICK pid \in EsPids : pid = s.pid
    BY DEF StreamInfo
  <2>3. type \in Nat /\ type < 65536 /\ type < 256
    BY SMTT(30)
  <2>4. pid \in Nat /\ pid < 65536 /\ pid < 8192
    BY SMTT(30) DEF EsPids, MPEGTS_NULL_PACKET_PID
  <2>5. Bin(type) \in Byte /\ Num(Bin(type)) = type /\ Bin(pid) \in Word(13) /\ Num(Bin(pid)) = pid
    BY <2>3, <2>4, BinFits, NumBin, SMTT(30) DEF Byte
  <2>6. 0 .. 2 \in Word(3) /\ 0 .. 3 \in Word(4) /\ {} \in Word(12)
    BY DEF Word, Low
  <2> DEFINE a == 0 .. 2
             b == 0 .. 3
             u == Bin(type)
             v == Bin(pid)
             e == [mStreamType |-> u, mReserved0 |-> a, mElementaryPid |-> v, mReserved1 |-> b,
                   mEsInfoLength |-> {}]
  <2>7. InfoOf(s) = e
    BY <2>1, <2>2, Zenon DEF InfoOf
  <2> HIDE DEF a, b, u, v
  <2>8. e \in ElementInfo /\ e.mEsInfoLength = {} /\ e.mStreamType = u /\ e.mElementaryPid = v
    <3>1. u \in Byte /\ v \in Word(13) /\ a \in Word(3) /\ b \in Word(4) /\ {} \in Word(12)
      BY <2>5, <2>6 DEF u, v, a, b
    <3> QED BY <3>1 DEF ElementInfo
  <2> HIDE DEF e
  <2> QED BY <2>1, <2>2, <2>5, <2>7, <2>8, Zenon DEF u, v
<1>3. \A i \in DOMAIN Streams : PmtInfos[i] = InfoOf(Streams[i]) /\ Streams[i] \in StreamInfo
  BY <1>1, SMTT(30) DEF PmtInfos
<1>4. PmtInfos \in Seq(ElementInfo) /\ Len(PmtInfos) = Len(Streams)
  <2>1. DOMAIN Streams = 1 .. Len(Streams) /\ Len(Streams) \in Nat
    BY <1>1
  <2>2. \A i \in 1 .. Len(Streams) : InfoOf(Streams[i]) \in ElementInfo
    BY <1>2, <1>3, <2>1, Zenon
  <2>3. PmtInfos = [i \in 1 .. Len(Streams) |-> InfoOf(Streams[i])]
    BY <2>1, Zenon DEF PmtInfos
  <2> QED BY <2>1, <2>2, <2>3
<1> QED BY <1>2, <1>3, <1>4, Zenon

LEMMA PmtLengthOk ==
    PmtLength \in SectionLengths /\ PmtLength <= 178 /\ Len(Streams) \in Nat
<1>1. Len(Streams) \in Nat /\ Len(Streams) <= MaxPmtStreams
  BY MuxerAssumption
<1>2. MaxPmtStreams = 33
  BY DEF MaxPmtStreams, kTsPacketSize_188
<1> DEFINE n == Len(Streams)
<1> HIDE DEF n
<1>3. n \in Nat /\ n <= 33
  BY <1>1, <1>2 DEF n
<1>4. PmtLength = 13 + 5 * n
  BY DEF PmtLength, n
<1>5. 13 + 5 * n \in SectionLengths /\ 13 + 5 * n <= 178
  BY <1>3 DEF SectionLengths
<1> QED BY <1>1, <1>4, <1>5

LEMMA PmtHeaderIs ==
    /\ PmtHeader = PmtTable(PmtLength)
    /\ WellFormedPmt(PmtHeader)
    /\ Num(PmtHeader.mPcrPid) = PcrPid
    /\ PmtHeader.mInfos = PmtInfos
    /\ PmtHeader.head.mB0 = {} /\ PmtHeader.head.mSectionSyntaxIndicator = {0}
    /\ Num(PmtHeader.head.mSectionLength) = PmtLength
<1>0. PmtLength \in SectionLengths /\ Len(Streams) \in Nat
  BY PmtLengthOk
<1>1. PICK g : g = [TableHead(2, PmtLength) EXCEPT !.number = Bin(1)]
  OBVIOUS
<1>2. /\ g \in SectionHead /\ Num(g.mSectionLength) = PmtLength
      /\ g.mB0 = {} /\ g.mSectionSyntaxIndicator = {0}
  <2>1. PICK tableId \in TableIds : tableId = 2
    BY DEF TableIds
  <2>2. TableHead(tableId, PmtLength) \in SectionHead
        /\ Num(TableHead(tableId, PmtLength).mSectionLength) = PmtLength
    BY <1>0, TableHeadOk, Zenon
  <2>3. TableHead(2, PmtLength).mB0 = {} /\ TableHead(2, PmtLength).mSectionSyntaxIndicator = {0}
    BY DEF TableHead
  <2>4. PICK t : t = TableHead(2, PmtLength)
    OBVIOUS
  <2>5. t \in SectionHead /\ Num(t.mSectionLength) = PmtLength /\ t.mB0 = {}
        /\ t.mSectionSyntaxIndicator = {0}
    BY <2>1, <2>2, <2>3, <2>4, Zenon
  <2>6. Bin(1) \in Word(16)
    <3>1. 1 \in Nat /\ 1 < 65536
      BY SMTT(30)
    <3> QED BY <3>1, BinFits, SMTT(30)
  <2>7. g = [t EXCEPT !.number = Bin(1)]
    BY <1>1, <2>4, Zenon
  <2> QED BY <2>5, <2>6, <2>7 DEF SectionHead
<1>3. /\ PmtInfos \in Seq(ElementInfo) /\ Len(PmtInfos) = Len(Streams)
      /\ \A i \in DOMAIN Streams : PmtInfos[i].mEsInfoLength = {}
  BY StreamInfos, Zenon
<1>4. Bin(PcrPid) \in Word(13) /\ Num(Bin(PcrPid)) = PcrPid
  <2>1. PcrPid \in EsPids
    BY MuxerAssumption
  <2>2. PcrPid \in Nat /\ PcrPid < 65536 /\ PcrPid < 8192
    BY <2>1, SMTT(30) DEF EsPids, MPEGTS_NULL_PACKET_PID
  <2> QED BY <2>2, BinFits, NumBin, SMTT(30)
<1>5. 0 .. 2 \in Word(3) /\ 0 .. 3 \in Word(4) /\ {} \in Word(12)
  BY DEF Word, Low
<1> DEFINE a == 0 .. 2
           b == 0 .. 3
           w == Bin(PcrPid)
           h == [head |-> g, mReserved2 |-> a, mPcrPid |-> w, mReserved3 |-> b,
                 mProgramInfoLength |-> {}, mInfos |-> PmtInfos]
<1>6. PmtTable(PmtLength) = h
  BY <1>1, Zenon DEF PmtTable
<1>7. a \in Word(3) /\ b \in Word(4) /\ w \in Word(13) /\ Num(w) = PcrPid
  BY <1>4, <1>5
<1> HIDE DEF a, b, w
<1>8. /\ h \in PMTHeader /\ h.mInfos = PmtInfos /\ h.mProgramInfoLength = {} /\ h.head = g
      /\ h.mPcrPid = w
  BY <1>2, <1>3, <1>5, <1>7 DEF PMTHeader
<1>9. PICK x : x = h
  OBVIOUS
<1> HIDE DEF h
<1>10. WellFormedPmt(x)
  <2>1. \A i \in DOMAIN x.mInfos : x.mInfos[i].mEsInfoLength = {}
    <3>1. DOMAIN PmtInfos = DOMAIN Streams
      BY DEF PmtInfos
    <3> QED BY <1>3, <1>8, <1>9, <3>1, Zenon
  <2>2. Num(x.head.mSectionLength) = 12 + 5 * Len(x.mInfos) - 3 + 4
    <3>1. 12 + 5 * Len(Streams) - 3 + 4 = PmtLength
      BY <1>0 DEF PmtLength
    <3>2. x.head = g /\ Len(x.mInfos) = Len(Streams)
      BY <1>3, <1>8, <1>9, Zenon
    <3> QED BY <1>2, <3>1, <3>2
  <2> QED BY <1>8, <1>9, <2>1, <2>2, Zenon DEF WellFormedPmt
<1>11. PMTHeader_size(x) = 12 + 5 * Len(Streams)
  <2>1. PMTHeader_size(x) = 12 + 5 * Len(x.mInfos)
    BY <1>10, PmtSize
  <2> QED BY <1>3, <1>8, <1>9, <2>1
<1>12. PmtHeader = PmtTable(PmtLength)
  <2> DEFINE t == PmtTable(0)
             total(y) == 12 + FoldSeq(LAMBDA e, n : PMTElementInfo_size(e) + n, 0, y)
  <2>1. PMTHeader_size(t) = total(t.mInfos) /\ PMTHeader_size(x) = total(x.mInfos)
    BY DEF PMTHeader_size
  <2>2. t.mInfos = PmtInfos
    BY DEF PmtTable
  <2> HIDE DEF total
  <2>3. PMTHeader_size(t) = 12 + 5 * Len(Streams)
    BY <1>8, <1>9, <1>11, <2>1, <2>2, Zenon
  <2>4. PMTHeader_size(t) - 3 + 4 = PmtLength
    BY <1>0, <2>3 DEF PmtLength
  <2> HIDE DEF t
  <2>5. PmtHeader = [t EXCEPT !.head.mSectionLength = Bin(PMTHeader_size(t) - 3 + 4)]
    BY Zenon DEF PmtHeader, t, PmtTable, PmtInfos, InfoOf
  <2>6. [t EXCEPT !.head.mSectionLength = Bin(PmtLength)] = PmtTable(PmtLength)
    <3> DEFINE v == Bin(PmtLength)
    <3>1. PICK q : q = [TableHead(2, 0) EXCEPT !.number = Bin(1)]
      OBVIOUS
    <3>2. [q EXCEPT !.mSectionLength = v] = g
      <4>1. PICK a1, a2, a3, a4, a5, a6 : a1 = Bin(2) /\ a2 = {0} /\ a3 = {0, 1} /\ a4 = Bin(PmtLength)
                                         /\ a5 = Bin(1) /\ a6 = Bin(0)
        BY Zenon
      <4> DEFINE r(len, no) ==
               [mTableId |-> a1, mSectionSyntaxIndicator |-> a2, mB0 |-> {}, mReserved0 |-> a3,
                mSectionLength |-> len, number |-> no, mReserved1 |-> a3, mVersionNumber |-> {},
                mCurrentNextIndicator |-> a2, mSectionNumber |-> {}, mLastSectionNumber |-> {}]
      <4>2. q = [r(a6, {}) EXCEPT !.number = a5] /\ g = [r(a4, {}) EXCEPT !.number = a5]
        BY <1>1, <3>1, <4>1, Zenon DEF TableHead
      <4>3. q = r(a6, a5)
        BY <4>2, SMTT(30)
      <4>4. g = r(a4, a5)
        BY <4>2, SMTT(30)
      <4>5. [q EXCEPT !.mSectionLength = a4] = r(a4, a5)
        BY <4>3, SMTT(30)
      <4> QED BY <4>1, <4>4, <4>5, Zenon
    <3>3. PICK m, n, o, u : m = 0 .. 2 /\ n = 0 .. 3 /\ o = Bin(PcrPid) /\ u = PmtInfos
      BY Zenon
    <3>4. t = [head |-> q, mReserved2 |-> m, mPcrPid |-> o, mReserved3 |-> n,
               mProgramInfoLength |-> {}, mInfos |-> u]
      BY <3>1, <3>3, Zenon DEF t, PmtTable
    <3> HIDE DEF v
    <3>5. [t EXCEPT !.head.mSectionLength = v] =
            [head |-> [q EXCEPT !.mSectionLength = v], mReserved2 |-> m, mPcrPid |-> o,
             mReserved3 |-> n, mProgramInfoLength |-> {}, mInfos |-> u]
      BY <3>4, SMTT(30)
    <3> QED BY <1>1, <3>2, <3>3, <3>5, Zenon DEF v, PmtTable
  <2> QED BY <2>4, <2>5, <2>6, Zenon
<1> QED BY <1>2, <1>6, <1>7, <1>8, <1>9, <1>10, <1>12, Zenon

PmtSection == PMTHeader_encode(PmtHeader)

LEMMA PmtSectionIs ==
    /\ PmtSection \in Seq(Byte) /\ Len(PmtSection) <= 179 /\ Len(PmtSection) \in Nat
    /\ \A d : Holds(d, 5, PmtSection) =>
          /\ SeenPmt(d, 5) = PmtLoad(TRUE, PcrPid, Streams)
          /\ 5 + 3 + Num(SectionHead_decode(d, 5).mSectionLength) = Len(PmtSection) + 9
<1>1. PICK h : h = PmtHeader
  OBVIOUS
<1>2. /\ WellFormedPmt(h) /\ Num(h.mPcrPid) = PcrPid /\ h.mInfos = PmtInfos
      /\ h.head.mB0 = {} /\ h.head.mSectionSyntaxIndicator = {0}
      /\ Num(h.head.mSectionLength) = PmtLength
  BY <1>1, PmtHeaderIs, Zenon
<1>3. h \in PMTHeader
  BY <1>2 DEF WellFormedPmt
<1>4. PmtSection \in Seq(Byte) /\ PmtSection = PMTHeader_encode(h)
  BY <1>1, <1>3, PmtInBytes, Zenon DEF PmtSection
<1>5. Len(PmtInfos) = Len(Streams) /\ Len(Streams) \in Nat /\ PmtLength <= 178
  BY PmtLengthOk, StreamInfos, Zenon
<1>6. Len(PmtSection) = PmtLength - 1
  <2>1. Are(PmtSection, 12 + 5 * Len(h.mInfos))
    BY <1>3, <1>4, PmtAre
  <2>2. Len(PmtSection) = 12 + 5 * Len(Streams)
    BY <1>2, <1>5, <2>1 DEF Are
  <2> QED BY <1>5, <2>2 DEF PmtLength
<1>7. Len(PmtSection) <= 179 /\ Len(PmtSection) \in Nat
  BY <1>5, <1>6 DEF PmtLength
<1>8. ASSUME NEW d, Holds(d, 5, PmtSection)
      PROVE  /\ SeenPmt(d, 5) = PmtLoad(TRUE, PcrPid, Streams)
             /\ 5 + 3 + Num(SectionHead_decode(d, 5).mSectionLength) = Len(PmtSection) + 9
  <2>1. PMTHeader_decode(d, 5) = h
    <3>1. PICK p \in Nat : p = 5
      OBVIOUS
    <3>2. Holds(d, p, PMTHeader_encode(h))
      BY <1>4, <1>8, <3>1
    <3>3. PMTHeader_decode(d, p) = h
      BY <1>2, <3>2, PmtRoundTrip
    <3> QED BY <3>1, <3>3
  <2>2. SectionHead_decode(d, 5) = h.head
    <3>1. PMTHeader_decode(d, 5).head = SectionHead_decode(d, 5)
      BY DEF PMTHeader_decode
    <3> QED BY <2>1, <3>1
  <2>3. 5 + 3 + Num(SectionHead_decode(d, 5).mSectionLength) = Len(PmtSection) + 9
    BY <1>2, <1>5, <1>6, <2>2 DEF PmtLength
  <2> DEFINE f == [i \in DOMAIN h.mInfos |-> [type |-> Num(h.mInfos[i].mStreamType),
                                             pid |-> Num(h.mInfos[i].mElementaryPid)]]
             ok == h.head.mB0 = {} /\ h.head.mSectionSyntaxIndicator = {0}
  <2>4. f = Streams
    <3>1. Streams \in Seq(StreamInfo)
      BY MuxerAssumption, SMTT(30)
    <3>2. \A i \in DOMAIN Streams : /\ Num(PmtInfos[i].mStreamType) = Streams[i].type
                                    /\ Num(PmtInfos[i].mElementaryPid) = Streams[i].pid
      BY StreamInfos, Zenon
    <3>3. DOMAIN PmtInfos = DOMAIN Streams
      BY DEF PmtInfos
    <3> DEFINE g(i) == [type |-> Num(h.mInfos[i].mStreamType), pid |-> Num(h.mInfos[i].mElementaryPid)]
    <3>4. \A i \in DOMAIN Streams : g(i) = [type |-> Streams[i].type, pid |-> Streams[i].pid]
      BY <1>2, <3>2, Zenon
    <3>5. \A i \in DOMAIN Streams : Streams[i] = [type |-> Streams[i].type, pid |-> Streams[i].pid]
      <4> SUFFICES ASSUME NEW i \in DOMAIN Streams
                   PROVE  Streams[i] = [type |-> Streams[i].type, pid |-> Streams[i].pid]
        OBVIOUS
      <4>1. Streams[i] \in StreamInfo
        BY <3>1
      <4> QED BY <4>1, SMTT(30) DEF StreamInfo
    <3>6. \A i \in DOMAIN Streams : g(i) = Streams[i]
      BY <3>4, <3>5, Zenon
    <3>7. f = [i \in DOMAIN Streams |-> g(i)]
      BY <1>2, <3>3, Zenon
    <3> HIDE DEF g
    <3>8. [i \in DOMAIN Streams |-> g(i)] = Streams
      BY <3>1, <3>6
    <3> QED BY <3>7, <3>8
  <2>5. ok = TRUE
    BY <1>2, Zenon
  <2>6. SeenPmt(d, 5) = PmtLoad(ok, Num(h.mPcrPid), f)
    BY <2>1, Zenon DEF SeenPmt
  <2> HIDE DEF f, ok
  <2>7. SeenPmt(d, 5) = PmtLoad(TRUE, PcrPid, Streams)
    BY <1>2, <2>4, <2>5, <2>6, Zenon
  <2> QED BY <2>3, <2>7
<1> QED BY <1>4, <1>7, <1>8

LEMMA PmtSeen ==
    ASSUME NEW cc \in Cc
    PROVE  TableRight(createPmt(cc), PmtBytes(cc))
<1>0. PICK p : p = createPmt(cc)
  OBVIOUS
<1> DEFINE d == PmtBytes(cc)
           load == PmtLoad(TRUE, PcrPid, Streams)
<1>1. IsTable(p, load) /\ p.pid = PmtPid /\ p.cc = cc /\ load.kind = "pmt"
  <2>1. p = [pid |-> PmtPid, pusi |-> TRUE, afc |-> mPayloadOnly, cc |-> cc, af |-> NoAf,
             load |-> load, bytes |-> 188]
    BY <1>0, Zenon DEF createPmt, TablePacket, kTsPacketSize_188
  <2>a. load.kind = "pmt"
    BY DEF PmtLoad
  <2> HIDE DEF load
  <2>2. p.pid = PmtPid /\ p.cc = cc
    BY <2>1, SMTT(30)
  <2>3. PmtPid \in Pids
    BY MuxerAssumption, SMTT(30) DEF EsPids, Pids, MPEGTS_NULL_PACKET_PID
  <2> QED BY <2>a, <2>1, <2>2, <2>3, Zenon DEF IsTable
<1> HIDE DEF load
<1>2. HeaderOk(p) /\ p.pusi = TRUE /\ p.afc = mPayloadOnly /\ p.load = load
  <2>1. PICK pid, c : p = [pid |-> pid, pusi |-> TRUE, afc |-> mPayloadOnly, cc |-> c,
                            af |-> NoAf, load |-> load, bytes |-> 188]
    BY <1>1, Zenon DEF IsTable
  <2>2. p.pusi = TRUE /\ p.afc = mPayloadOnly /\ p.load = load
    BY <2>1, SMTT(30)
  <2>3. mPayloadOnly \in Afcs
    BY DEF mPayloadOnly, Afcs
  <2> QED BY <1>1, <2>2, <2>3, Zenon DEF HeaderOk, IsTable
<1>3. d = WithCrc(TableHeadBytes(p) \o PmtSection)
  BY <1>1, <1>2, Zenon DEF TableHeadBytes, HeaderBytesOf, PmtBytes, PmtSection
<1>4. PmtSection \in Seq(Byte) /\ Len(PmtSection) <= 179
  BY PmtSectionIs
<1>5. /\ Are(d, 188) /\ Holds(d, 0, TableHeadBytes(p)) /\ Holds(d, 5, PmtSection)
      /\ crc32(SubSeq(d, 6, Len(PmtSection) + 9)) = {}
  BY <1>2, <1>3, <1>4, TablePacketIs
<1> HIDE DEF d
<1>6. SeenPmt(d, 5) = load
      /\ 5 + 3 + Num(SectionHead_decode(d, 5).mSectionLength) = Len(PmtSection) + 9
  BY <1>5, PmtSectionIs DEF load
<1>7. Seen(d, p.load) = Timed(p)
  BY <1>1, <1>5, <1>6, TableSeen, Zenon DEF TableHeadBytes
<1> QED BY <1>0, <1>5, <1>6, <1>7, Zenon DEF TableRight, d
-----------------------------------------------------------------------------
(* A buffer with bytes written over others.                                *)
IsOverwritten(o, d, m, at, s, n) ==
    /\ Are(o, m)
    /\ \A i \in 1 .. m : o[i] = IF i - at \in 1 .. n THEN s[i - at] ELSE d[i]

LEMMA OverwrittenAre ==
    ASSUME NEW m \in Nat, NEW d, Are(d, m), NEW n \in Nat, NEW s, Are(s, n), NEW at \in Nat, at + n <= m
    PROVE  IsOverwritten(Overwritten(d, at, s), d, m, at, s, n)
<1>1. DOMAIN d = 1 .. m /\ DOMAIN s = 1 .. n
  BY DEF Are
<1>2. \A i \in 1 .. m : d[i] \in SUBSET Int
  BY DEF Are
<1>3. \A i \in 1 .. n : s[i] \in SUBSET Int
  BY DEF Are
<1> DEFINE o == [i \in 1 .. m |-> IF i - at \in 1 .. n THEN s[i - at] ELSE d[i]]
<1>4. Overwritten(d, at, s) = o
  BY <1>1 DEF Overwritten
<1>5. \A i \in 1 .. m : o[i] \in SUBSET Int
  BY <1>2, <1>3
<1>6. Are(o, m)
  <2>1. \A i \in 1 .. m : (IF i - at \in 1 .. n THEN s[i - at] ELSE d[i]) \in SUBSET Int
    BY <1>5
  <2> QED BY <2>1 DEF Are
<1> QED BY <1>4, <1>6 DEF IsOverwritten

(* The head of a packet (h) with stuffing (mid) after its first base bytes, *)
(* one of which changes, and the data behind.                              *)
WithStuffing(h, n, base, stuff, mid, c, v, m) ==
    LET d     == h \o FilledWith(m - n, {}).data
        moved == Overwritten(d, base + stuff, SubSeq(d, base + 1, n))
    IN  [Overwritten(moved, base, mid) EXCEPT ![c] = v]

IsStuffed(w, n, h, base, stuff, mid, c, v, m) ==
    /\ Are(w, m)
    /\ \A i \in 1 .. base : w[i] = IF i = c THEN v ELSE h[i]
    /\ \A i \in 1 .. stuff : w[base + i] = mid[i]
    /\ \A i \in 1 .. n - base : w[base + stuff + i] = h[base + i]

LEMMA WithStuffingAre ==
    ASSUME NEW n \in Nat, NEW h, Are(h, n), NEW base \in 1 .. n, NEW stuff \in Nat,
           NEW m \in Nat, n + stuff <= m, NEW mid, Are(mid, stuff), NEW c \in 1 .. base,
           NEW v \in SUBSET Int
    PROVE  IsStuffed(WithStuffing(h, n, base, stuff, mid, c, v, m), n, h, base, stuff, mid, c, v, m)
<1> DEFINE z == FilledWith(m - n, {}).data
           d0 == h \o z
           cut == SubSeq(d0, base + 1, n)
           moved == Overwritten(d0, base + stuff, cut)
           new == Overwritten(moved, base, mid)
           x == [new EXCEPT ![c] = v]
<1>1. Are(z, m - n) /\ m - n \in Nat
  BY DEF FilledWith, Are
<1> HIDE DEF z
<1>2. Are(d0, m) /\ \A i \in 1 .. n : d0[i] = h[i]
  <2>1. Are(h \o z, n + (m - n)) /\ Holds(h \o z, 0, h)
    BY <1>1, Laid
  <2>2. n + (m - n) = m
    OBVIOUS
  <2>3. \A i \in 1 .. n : (h \o z)[i] = h[i]
    BY <1>1 DEF Are
  <2> QED BY <2>1, <2>2, <2>3
<1> HIDE DEF d0
<1>3. Are(cut, n - base) /\ n - base \in Nat /\ \A i \in 1 .. n - base : cut[i] = h[base + i]
  <2>1. cut \in Seq(SUBSET Int) /\ Len(cut) = n - base
    BY <1>2 DEF Are
  <2>2. \A i \in 1 .. n - base : cut[i] = d0[base + i]
    BY <1>2 DEF Are
  <2> HIDE DEF cut
  <2>3. n - base \in Nat /\ \A i \in 1 .. n - base : base + i \in 1 .. n
    OBVIOUS
  <2>4. \A i \in 1 .. n - base : cut[i] = h[base + i]
    BY <1>2, <2>2, <2>3
  <2> QED BY <2>1, <2>3, <2>4 DEF Are
<1> HIDE DEF cut
<1>4. /\ Are(moved, m)
      /\ \A i \in 1 .. m : moved[i] = IF i - (base + stuff) \in 1 .. n - base THEN cut[i - (base + stuff)]
                                      ELSE d0[i]
  <2>1. base + stuff \in Nat /\ (base + stuff) + (n - base) <= m
    OBVIOUS
  <2>2. IsOverwritten(moved, d0, m, base + stuff, cut, n - base)
    BY <1>2, <1>3, <2>1, OverwrittenAre
  <2> QED BY <2>2 DEF IsOverwritten
<1> HIDE DEF moved
<1>5. /\ Are(new, m)
      /\ \A i \in 1 .. m : new[i] = IF i - base \in 1 .. stuff THEN mid[i - base] ELSE moved[i]
  <2>1. base \in Nat /\ base + stuff <= m
    OBVIOUS
  <2>2. Are(moved, m)
    BY <1>4
  <2>3. IsOverwritten(new, moved, m, base, mid, stuff)
    BY <2>1, <2>2, OverwrittenAre
  <2> QED BY <2>3 DEF IsOverwritten
<1> HIDE DEF new
<1>6. Are(x, m) /\ \A i \in 1 .. m : x[i] = IF i = c THEN v ELSE new[i]
  BY <1>5 DEF Are
<1>7. WithStuffing(h, n, base, stuff, mid, c, v, m) = x
  BY DEF WithStuffing, x, new, moved, cut, d0, z
<1> HIDE DEF x
<1>9. ASSUME NEW i \in 1 .. base PROVE x[i] = IF i = c THEN v ELSE h[i]
  <2>1. i \in 1 .. m /\ ~(i - base \in 1 .. stuff)
        /\ ~(i - (base + stuff) \in 1 .. n - base) /\ i \in 1 .. n
    OBVIOUS
  <2> QED BY <1>2, <1>4, <1>5, <1>6, <2>1
<1>10. ASSUME NEW i \in 1 .. stuff PROVE x[base + i] = mid[i]
  <2>1. base + i \in 1 .. m /\ base + i - base = i /\ base + i # c
    OBVIOUS
  <2> QED BY <1>5, <1>6, <2>1
<1>11. ASSUME NEW i \in 1 .. n - base PROVE x[base + stuff + i] = h[base + i]
  <2>1. base + stuff + i \in 1 .. m
        /\ ~(base + stuff + i - base \in 1 .. stuff) /\ base + stuff + i # c
        /\ base + stuff + i - (base + stuff) = i
    OBVIOUS
  <2> QED BY <1>3, <1>4, <1>5, <1>6, <2>1
<1> QED BY <1>6, <1>7, <1>9, <1>10, <1>11 DEF IsStuffed

-----------------------------------------------------------------------------
(* The PES header of the first packet of a frame.                          *)
PesOk(pes) ==
    /\ pes = [len |-> pes.len, hdl |-> pes.hdl, flags |-> pes.flags, marker |-> TRUE,
              pts |-> pes.pts, dts |-> pes.dts]
    /\ pes.len \in PesLengths /\ pes.pts \in Nat /\ pes.dts \in Nat
    /\ \/ pes.flags = 3 /\ pes.hdl = 10
       \/ pes.flags = 2 /\ pes.hdl = 5 /\ pes.dts = pes.pts
PesHeaderOf(pes) ==
    [mPacketStartCode |-> {0}, mStreamId |-> {}, mPesPacketLength |-> Bin(pes.len),
     mOriginalOrCopy |-> {0}, mCopyright |-> {}, mDataAlignmentIndicator |-> {},
     mPesPriority |-> {}, mPesScramblingControl |-> {}, mMarkerBits |-> {1},
     mPesExtFlag |-> {}, mPesCrcFlag |-> {}, mAddCopyInfoFlag |-> {},
     mDsmTrickModeFlag |-> {}, mEsRateFlag |-> {}, mEscrFlag |-> {},
     mPtsDtsFlags |-> Bin(pes.flags), mHeaderDataLength |-> Bin(pes.hdl)]
TimestampsOf(pes) ==
    IF pes.flags = 3 THEN writePts({0, 1}, Bin(pes.pts)) \o writePts({0}, Bin(pes.dts))
                     ELSE writePts({1}, Bin(pes.pts))

LEMMA PesHeaderFields ==
    ASSUME NEW pes, PesOk(pes)
    PROVE  /\ PesHeaderOf(pes) \in PESHeader
           /\ PesHeaderBytesOf(pes) = PESHeader_encode(PesHeaderOf(pes)) \o TimestampsOf(pes)
           /\ Num(PesHeaderOf(pes).mPesPacketLength) = pes.len
           /\ Num(PesHeaderOf(pes).mHeaderDataLength) = pes.hdl
           /\ Num(PesHeaderOf(pes).mPtsDtsFlags) = pes.flags
           /\ PesHeaderOf(pes).mMarkerBits = {1}
<1>1. PICK len \in PesLengths : len = pes.len
  BY Zenon DEF PesOk
<1>2. PICK hdl \in 0 .. 10 : hdl = pes.hdl
  <2>1. pes.hdl = 5 \/ pes.hdl = 10
    BY Zenon DEF PesOk
  <2> QED BY <2>1, SMTT(30)
<1>3. PICK flags \in 0 .. 3 : flags = pes.flags
  <2>1. pes.flags = 2 \/ pes.flags = 3
    BY Zenon DEF PesOk
  <2> QED BY <2>1, SMTT(30)
<1>4. /\ len \in Nat /\ len < 65536
      /\ hdl \in Nat /\ hdl < 65536 /\ hdl < 256
      /\ flags \in Nat /\ flags < 65536 /\ flags < 4
  <2>1. len \in Nat /\ len < 65536
    BY SMTT(30) DEF PesLengths
  <2>2. hdl \in Nat /\ hdl < 65536 /\ hdl < 256
    BY SMTT(30)
  <2>3. flags \in Nat /\ flags < 65536 /\ flags < 4
    BY SMTT(30)
  <2> QED BY <2>1, <2>2, <2>3, SMTT(30)
<1>5. /\ Bin(pes.len) \in Word(16) /\ Num(Bin(pes.len)) = pes.len
      /\ Bin(pes.hdl) \in Byte /\ Num(Bin(pes.hdl)) = pes.hdl
      /\ Bin(pes.flags) \in Word(2) /\ Num(Bin(pes.flags)) = pes.flags
  BY <1>1, <1>2, <1>3, <1>4, BinFits, NumBin, SMTT(30) DEF Byte
<1> DEFINE a == Bin(pes.len)
           b == Bin(pes.hdl)
           c == Bin(pes.flags)
<1> HIDE DEF a, b, c
<1>6. /\ {0} \in Word(24) /\ {} \in Byte /\ {0} \in Word(1) /\ {} \in Word(1) /\ {} \in Word(2)
      /\ {1} \in Word(2)
  BY DEF Word, Low, Byte
<1> DEFINE h == [mPacketStartCode |-> {0}, mStreamId |-> {}, mPesPacketLength |-> a,
     mOriginalOrCopy |-> {0}, mCopyright |-> {}, mDataAlignmentIndicator |-> {},
     mPesPriority |-> {}, mPesScramblingControl |-> {}, mMarkerBits |-> {1},
     mPesExtFlag |-> {}, mPesCrcFlag |-> {}, mAddCopyInfoFlag |-> {},
     mDsmTrickModeFlag |-> {}, mEsRateFlag |-> {}, mEscrFlag |-> {},
     mPtsDtsFlags |-> c, mHeaderDataLength |-> b]
<1>7. PesHeaderOf(pes) = h
  BY Zenon DEF PesHeaderOf, a, b, c
<1>8. a \in Word(16) /\ b \in Byte /\ c \in Word(2)
  BY <1>5 DEF a, b, c
<1>9. /\ h \in PESHeader /\ h.mPesPacketLength = a /\ h.mHeaderDataLength = b /\ h.mPtsDtsFlags = c
      /\ h.mMarkerBits = {1}
  BY <1>6, <1>8 DEF PESHeader
<1> HIDE DEF h
<1>10. PesHeaderBytesOf(pes) = PESHeader_encode(PesHeaderOf(pes)) \o TimestampsOf(pes)
  BY Zenon DEF PesHeaderBytesOf, PesHeaderOf, TimestampsOf
<1> QED BY <1>5, <1>7, <1>9, <1>10, Zenon DEF a, b, c

LEMMA TimestampsAre ==
    ASSUME NEW pes, PesOk(pes)
    PROVE  /\ Are(TimestampsOf(pes), pes.hdl)
           /\ \A d, p : p \in Nat /\ Holds(d, p, TimestampsOf(pes)) =>
                 /\ readPts(d, p) = Bin(pes.pts)
                 /\ pes.flags = 3 => readPts(d, p + 5) = Bin(pes.dts)
<1>0. pes.pts \in Nat /\ pes.dts \in Nat
  BY Zenon DEF PesOk
<1> DEFINE u == Bin(pes.pts)
           w == Bin(pes.dts)
<1>1. u \in SUBSET Int /\ u \cap Low(33) = u /\ w \in SUBSET Int /\ w \cap Low(33) = w
  BY <1>0, BinTime
<1>2. PICK a, b, c : a = writePts({0, 1}, u) /\ b = writePts({0}, w) /\ c = writePts({1}, u)
  BY Zenon
<1> HIDE DEF u, w
<1>3. Are(a, 5) /\ Are(b, 5) /\ Are(c, 5)
  BY <1>2, TimestampAre
<1>4. {0, 1} \in Word(4) /\ {0} \in Word(4) /\ {1} \in Word(4)
  BY DEF Word, Low
<1>5. ASSUME NEW d, NEW p \in Int
      PROVE  /\ Holds(d, p, a) => readPts(d, p) = u
             /\ Holds(d, p, b) => readPts(d, p) = w
             /\ Holds(d, p, c) => readPts(d, p) = u
  <2>1. Holds(d, p, a) => readPts(d, p) = u
    <3> SUFFICES ASSUME Holds(d, p, a) PROVE readPts(d, p) = u
      OBVIOUS
    <3>1. Holds(d, p, writePts({0, 1}, u))
      BY <1>2
    <3>2. readPts(d, p) = u \cap Low(33)
      BY <1>1, <1>4, <3>1, TimestampRoundTrip
    <3> QED BY <1>1, <3>2
  <2>2. Holds(d, p, b) => readPts(d, p) = w
    <3> SUFFICES ASSUME Holds(d, p, b) PROVE readPts(d, p) = w
      OBVIOUS
    <3>1. Holds(d, p, writePts({0}, w))
      BY <1>2
    <3>2. readPts(d, p) = w \cap Low(33)
      BY <1>1, <1>4, <3>1, TimestampRoundTrip
    <3> QED BY <1>1, <3>2
  <2>3. Holds(d, p, c) => readPts(d, p) = u
    <3> SUFFICES ASSUME Holds(d, p, c) PROVE readPts(d, p) = u
      OBVIOUS
    <3>1. Holds(d, p, writePts({1}, u))
      BY <1>2
    <3>2. readPts(d, p) = u \cap Low(33)
      BY <1>1, <1>4, <3>1, TimestampRoundTrip
    <3> QED BY <1>1, <3>2
  <2> QED BY <2>1, <2>2, <2>3
<1>6. CASE pes.flags = 3 /\ pes.hdl = 10
  <2>1. TimestampsOf(pes) = a \o b
    BY <1>2, <1>6, Zenon DEF TimestampsOf, u, w
  <2>2. PICK n \in Nat : n = 5
    OBVIOUS
  <2>3. Are(a, n) /\ Are(b, n)
    BY <1>3, <2>2
  <2>4. Are(a \o b, n + n)
    BY <2>3, Concat
  <2>5. Are(TimestampsOf(pes), pes.hdl)
    BY <1>6, <2>1, <2>2, <2>4
  <2>6. ASSUME NEW d, NEW p \in Nat, Holds(d, p, TimestampsOf(pes))
        PROVE  readPts(d, p) = u /\ readPts(d, p + 5) = w
    <3>1. Holds(d, p, a) /\ Holds(d, p + n, b)
      BY <2>1, <2>3, <2>6, HoldsConcat
    <3>2. p \in Int /\ p + 5 \in Int /\ p + n = p + 5
      BY <2>2
    <3> QED BY <1>5, <3>1, <3>2
  <2> QED BY <2>5, <2>6, Zenon DEF u, w
<1>7. CASE pes.flags = 2 /\ pes.hdl = 5
  <2>1. pes.flags # 3
    BY <1>7
  <2>2. TimestampsOf(pes) = c
    BY <1>2, <2>1, Zenon DEF TimestampsOf, u, w
  <2>3. Are(TimestampsOf(pes), pes.hdl)
    BY <1>3, <1>7, <2>2
  <2>4. ASSUME NEW d, NEW p \in Nat, Holds(d, p, TimestampsOf(pes)) PROVE readPts(d, p) = u
    BY <1>5, <2>2, <2>4
  <2> QED BY <2>1, <2>3, <2>4, Zenon DEF u, w
<1> QED BY <1>6, <1>7, Zenon DEF PesOk

LEMMA PesHeaderSeen ==
    ASSUME NEW pes, PesOk(pes)
    PROVE  /\ Are(PesHeaderBytesOf(pes), 9 + pes.hdl)
           /\ \A d, p : p \in Nat /\ Holds(d, p, PesHeaderBytesOf(pes)) => SeenPes(d, p) = Times(pes)
<1>1. PICK h : h = PesHeaderOf(pes)
  OBVIOUS
<1>2. /\ h \in PESHeader
      /\ PesHeaderBytesOf(pes) = PESHeader_encode(h) \o TimestampsOf(pes)
      /\ Num(h.mPesPacketLength) = pes.len /\ Num(h.mHeaderDataLength) = pes.hdl
      /\ Num(h.mPtsDtsFlags) = pes.flags /\ h.mMarkerBits = {1}
  BY <1>1, PesHeaderFields, Zenon
<1> DEFINE e == PESHeader_encode(h)
           t == TimestampsOf(pes)
<1>3. Are(e, 9)
  BY <1>2, PesHeaderAre
<1>4. Are(t, pes.hdl)
  BY TimestampsAre
<1>5. PICK n \in Nat : n = 9
  OBVIOUS
<1>6. PICK hdl \in Nat : hdl = pes.hdl
  <2>1. pes.hdl = 5 \/ pes.hdl = 10
    BY Zenon DEF PesOk
  <2> QED BY <2>1, SMTT(30)
<1> HIDE DEF e, t
<1>7. Are(e, n) /\ Are(t, hdl)
  BY <1>3, <1>4, <1>5, <1>6
<1>8. Are(e \o t, 9 + pes.hdl)
  <2>1. Are(e \o t, n + hdl)
    BY <1>7, Concat
  <2> QED BY <1>5, <1>6, <2>1
<1>9. ASSUME NEW d, NEW p \in Nat, Holds(d, p, e \o t) PROVE SeenPes(d, p) = Times(pes)
  <2>1. Holds(d, p, e) /\ Holds(d, p + n, t)
    BY <1>7, <1>9, HoldsConcat
  <2>2. PESHeader_decode(d, p) = h
    BY <1>2, <2>1, PesHeaderRoundTrip DEF e
  <2>3. p + n \in Nat
    OBVIOUS
  <2>4. /\ readPts(d, p + n) = Bin(pes.pts)
        /\ pes.flags = 3 => readPts(d, (p + n) + 5) = Bin(pes.dts)
    BY <2>1, <2>3, TimestampsAre DEF t
  <2>5. /\ p + PesHeaderBytes = p + n
        /\ p + PesHeaderBytes + TimestampBytes = (p + n) + 5
    BY <1>5 DEF PesHeaderBytes, TimestampBytes
  <2>6. SeenPes(d, p) =
          [len |-> pes.len, hdl |-> pes.hdl, flags |-> pes.flags, marker |-> h.mMarkerBits = {1},
           pts |-> readPts(d, p + n),
           dts |-> IF pes.flags = 3 THEN readPts(d, (p + n) + 5) ELSE readPts(d, p + n)]
    BY <1>2, <2>2, <2>5, Zenon DEF SeenPes
  <2>7. (h.mMarkerBits = {1}) = TRUE
    BY <1>2, Zenon
  <2>8. (IF pes.flags = 3 THEN readPts(d, (p + n) + 5) ELSE readPts(d, p + n)) = Bin(pes.dts)
    <3>1. CASE pes.flags = 3
      BY <2>4, <3>1, Zenon
    <3>2. CASE pes.flags = 2 /\ pes.dts = pes.pts
      <4>1. pes.flags # 3
        BY <3>2
      <4> QED BY <2>4, <3>2, <4>1, Zenon
    <3> QED BY <3>1, <3>2, Zenon DEF PesOk
  <2>9. Times(pes) = [len |-> pes.len, hdl |-> pes.hdl, flags |-> pes.flags, marker |-> TRUE,
                      pts |-> Bin(pes.pts), dts |-> Bin(pes.dts)]
    <3>1. PICK a, b, c, m, u, w : pes = [len |-> a, hdl |-> b, flags |-> c, marker |-> m, pts |-> u,
                                        dts |-> w] /\ m = TRUE
      BY Zenon DEF PesOk
    <3>0. pes = [len |-> a, hdl |-> b, flags |-> c, marker |-> m, pts |-> u, dts |-> w]
      BY <3>1, Zenon
    <3>2. pes.pts = u /\ pes.dts = w /\ pes.len = a /\ pes.hdl = b /\ pes.flags = c
      BY <3>0, SMTT(30)
    <3>3. PICK v, x : v = Bin(u) /\ x = Bin(w)
      BY Zenon
    <3>4. Times(pes) = [[pes EXCEPT !.pts = v] EXCEPT !.dts = x]
      BY <3>1, <3>2, <3>3, SMTT(30) DEF Times
    <3>5. [pes EXCEPT !.pts = v] = [len |-> a, hdl |-> b, flags |-> c, marker |-> m, pts |-> v, dts |-> w]
      BY <3>0, SMTT(30)
    <3>6. [[len |-> a, hdl |-> b, flags |-> c, marker |-> m, pts |-> v, dts |-> w] EXCEPT !.dts = x] =
            [len |-> a, hdl |-> b, flags |-> c, marker |-> m, pts |-> v, dts |-> x]
      BY SMTT(30)
    <3> QED BY <3>1, <3>2, <3>3, <3>4, <3>5, <3>6, Zenon
  <2> QED BY <2>4, <2>6, <2>7, <2>8, <2>9, Zenon
<1> QED BY <1>2, <1>8, <1>9 DEF e, t
-----------------------------------------------------------------------------
(* A packet of a frame, and what the parser needs to see it.               *)
PesStart(q) == 4 + IF hasAdaptationField(q.afc) THEN 1 + q.af.len ELSE 0
FrameFields(q, pes, run) ==
    /\ q = [pid |-> q.pid, pusi |-> q.pusi, afc |-> q.afc, cc |-> q.cc, af |-> q.af,
            load |-> PesLoad(pes, run), bytes |-> kTsPacketSize_188]
    /\ q.af = [len |-> q.af.len, disc |-> FALSE, ra |-> q.af.ra, pcr |-> q.af.pcr]
    /\ q.af.len \in AfLengths
    /\ HeaderOk(q) /\ hasPayload(q.afc)
FrameSizes(q, pes, len) ==
    IF q.pusi THEN PesOk(pes) /\ PesStart(q) + 9 + pes.hdl + len = 188
              ELSE pes = NoPes /\ PesStart(q) + len = 188
FramePacket(q, pes, frame, pos, len) ==
    FrameFields(q, pes, Run(frame, pos, len)) /\ FrameSizes(q, pes, len)

LEMMA TimesIs ==
    /\ \A pes : PesOk(pes) => Times(pes).hdl = pes.hdl
    /\ Times(NoPes).hdl = 0
<1>1. ASSUME NEW pes, PesOk(pes) PROVE Times(pes).hdl = pes.hdl
  <2>1. PICK a, b, c, m, u, w : pes = [len |-> a, hdl |-> b, flags |-> c, marker |-> m, pts |-> u,
                                      dts |-> w]
    BY <1>1, Zenon DEF PesOk
  <2> QED BY <2>1, SMTT(30) DEF Times
<1>2. Times(NoPes).hdl = 0
  <2>1. PICK m : m = TRUE
    OBVIOUS
  <2>2. PICK pes : pes = [len |-> 0, hdl |-> 0, flags |-> 0, marker |-> m, pts |-> 0, dts |-> 0]
    OBVIOUS
  <2>3. NoPes = pes
    BY <2>1, <2>2, Zenon DEF NoPes
  <2>4. Times(pes).hdl = 0
    BY <2>2, SMTT(30) DEF Times
  <2> QED BY <2>3, <2>4
<1> QED BY <1>1, <1>2

LEMMA FrameSeen ==
    ASSUME NEW q, NEW pes, NEW frame, NEW pos, NEW len \in Nat \ {0}, FramePacket(q, pes, frame, pos, len),
           NEW d, Are(d, 188), Holds(d, 0, HeaderBytesOf(q)), AfIn(q, d) = AfTimes(q.af),
           q.pusi => Holds(d, PesStart(q), PesHeaderBytesOf(pes))
    PROVE  Seen(d, q.load) = Timed(q)
<1>0. FrameFields(q, pes, Run(frame, pos, len)) /\ FrameSizes(q, pes, len)
  BY DEF FramePacket
<1>1. PICK pid, pusi, afc, cc, af :
        q = [pid |-> pid, pusi |-> pusi, afc |-> afc, cc |-> cc, af |-> af,
             load |-> PesLoad(pes, Run(frame, pos, len)), bytes |-> kTsPacketSize_188]
  BY <1>0, Zenon DEF FrameFields
<1> DEFINE load == PesLoad(pes, Run(frame, pos, len))
<1>2. q.load = load /\ q.bytes = 188
  BY <1>1, SMTT(30) DEF kTsPacketSize_188
<1>3. load.kind = "pes" /\ load.run = Run(frame, pos, len) /\ load.pes = pes
  BY DEF PesLoad
<1> HIDE DEF load
<1>4. Len(d) = 188
  BY DEF Are
<1>a. HeaderOk(q) /\ hasPayload(q.afc) /\ load.kind = "pes"
  BY <1>0, <1>3, Zenon DEF FrameFields
<1>b. ~FieldTooLong(AfIn(q, d))
  <2>1. q.af.len \in Nat
    BY <1>0 DEF FrameFields, AfLengths
  <2>2. q.af.len <= 182
    <3>1. CASE hasAdaptationField(q.afc)
      <4>1. PICK start \in Nat : start = PesStart(q) /\ start = 5 + q.af.len
        BY <2>1, <3>1 DEF PesStart
      <4>2. start + len <= 188
        <5>1. CASE q.pusi
          <6>1. PesOk(pes) /\ start + 9 + pes.hdl + len = 188
            BY <1>0, <4>1, <5>1 DEF FrameSizes
          <6>2. PICK hdl \in Nat : hdl = pes.hdl
            <7>1. pes.hdl = 5 \/ pes.hdl = 10
              BY <6>1, Zenon DEF PesOk
            <7> QED BY <7>1
          <6> QED BY <6>1, <6>2
        <5>2. CASE ~q.pusi
          BY <1>0, <4>1, <5>2 DEF FrameSizes
        <5> QED BY <5>1, <5>2
      <4> QED BY <2>1, <4>1, <4>2
    <3>2. CASE ~hasAdaptationField(q.afc)
      <4>1. AfTimes(q.af) = AfTimes(NoAf)
        BY <3>2, NoFieldIs, Zenon DEF AfIn
      <4>2. q.af.len = NoAf.len
        BY <4>1 DEF AfTimes
      <4>3. NoAf.len = 0
        BY DEF NoAf
      <4> QED BY <4>2, <4>3
    <3> QED BY <3>1, <3>2
  <2> QED BY <2>1, <2>2, FieldFits
<1>5. Seen(d, load) = Parsed(q, d, PesLoad(PesIn(q, d), [load.run EXCEPT !.len = Len(d) - DataBegins(q, d)]))
  BY <1>a, <1>b, SeenIs, Zenon
<1>6. StartIn(q, d) = PesStart(q) /\ PesStart(q) \in Nat
  <2>1. AfIn(q, d).len = q.af.len
    BY DEF AfTimes
  <2>2. q.af.len \in Nat
    BY <1>0, SMTT(30) DEF FrameFields, AfLengths
  <2> QED BY <2>1, <2>2, SMTT(30) DEF StartIn, PesStart, TsHeaderBytes
<1>7. PesIn(q, d) = Times(pes) /\ DataBegins(q, d) = 188 - len
  <2>1. CASE q.pusi
    <3>1. PesOk(pes) /\ PesStart(q) + 9 + pes.hdl + len = 188
      BY <1>0, <2>1 DEF FrameSizes
    <3>2. PesIn(q, d) = Times(pes)
      BY <1>6, <2>1, <3>1, PesHeaderSeen DEF PesIn
    <3>3. PICK hdl \in Nat : hdl = pes.hdl
      <4>1. pes.hdl = 5 \/ pes.hdl = 10
        BY <3>1, Zenon DEF PesOk
      <4> QED BY <4>1, SMTT(30)
    <3>4. DataBegins(q, d) = PesStart(q) + (9 + hdl)
      <4>1. PesIn(q, d).hdl = hdl
        BY <3>1, <3>2, <3>3, TimesIs
      <4> QED BY <1>6, <2>1, <4>1 DEF DataBegins, PesHeaderBytes
    <3> QED BY <1>6, <3>1, <3>2, <3>3, <3>4
  <2>2. CASE ~q.pusi
    <3>1. pes = NoPes /\ PesStart(q) + len = 188
      BY <1>0, <2>2 DEF FrameSizes
    <3>2. PesIn(q, d) = Times(pes)
      BY <2>2, <3>1 DEF PesIn
    <3>3. DataBegins(q, d) = PesStart(q)
      BY <1>6, <2>2 DEF DataBegins
    <3> QED BY <1>6, <3>1, <3>2, <3>3
  <2> QED BY <2>1, <2>2
<1>8. [load.run EXCEPT !.len = Len(d) - DataBegins(q, d)] = Run(frame, pos, len)
  <2>1. Len(d) - DataBegins(q, d) = len
    BY <1>4, <1>7
  <2>2. [Run(frame, pos, len) EXCEPT !.len = len] = Run(frame, pos, len)
    BY SMTT(30) DEF Run
  <2> QED BY <1>3, <2>1, <2>2
<1>9. TimedLoad(load) = PesLoad(Times(pes), Run(frame, pos, len))
  <2>1. PICK v, r : v = Times(pes) /\ r = Run(frame, pos, len)
    BY Zenon
  <2>2. load = PesLoad(pes, r)
    BY <2>1, Zenon DEF load
  <2>3. [PesLoad(pes, r) EXCEPT !.pes = v] = PesLoad(v, r)
    BY SMTT(30) DEF PesLoad
  <2>4. TimedLoad(load) = [load EXCEPT !.pes = Times(load.pes)]
    BY <1>3, Zenon DEF TimedLoad
  <2> QED BY <1>3, <2>1, <2>2, <2>3, <2>4, Zenon
<1>10. Timed(q) = TimedAs(q, AfTimes(q.af), Len(d), TimedLoad(load))
  <2>1. IsPacket(q)
    <3>1. PICK l, r, c, no : q.af = [len |-> l, disc |-> no, ra |-> r, pcr |-> c] /\ no = FALSE
      BY <1>0, Zenon DEF FrameFields
    <3>0. q.af = [len |-> l, disc |-> no, ra |-> r, pcr |-> c]
      BY <3>1, Zenon
    <3>2. q.af.disc = no
      BY <3>0, SMTT(30)
    <3>3. q = [pid |-> q.pid, pusi |-> q.pusi, afc |-> q.afc, cc |-> q.cc, af |-> q.af,
               load |-> q.load, bytes |-> q.bytes]
      BY <1>1, SMTT(30)
    <3>4. q.af.len = l /\ q.af.ra = r /\ q.af.pcr = c
      BY <3>0, SMTT(30)
    <3> QED BY <3>1, <3>2, <3>3, <3>4, Zenon DEF IsPacket
  <2>2. Timed(q) = TimedAs(q, AfTimes(q.af), q.bytes, TimedLoad(q.load))
    BY <2>1, TimedIs, Zenon
  <2>3. q.load = load /\ q.bytes = Len(d)
    BY <1>2, <1>4, SMTT(30)
  <2> QED BY <2>2, <2>3, Zenon
<1>11. q.load = load
  BY <1>2, SMTT(30)
<1> QED BY <1>5, <1>7, <1>8, <1>9, <1>10, <1>11, Zenon DEF Parsed, TimedAs
-----------------------------------------------------------------------------
(* The stuffing that makes an adaptation field.                            *)
LEMMA StuffingFieldAre ==
    ASSUME NEW k \in Nat \ {0}
    PROVE  /\ Are(StuffingField(k), k)
           /\ StuffingField(k)[1] = Bin(k - 1)
           /\ k # 1 => StuffingField(k)[2] = {}
<1>1. CASE k = 1
  <2>1. StuffingField(k) = <<{}>>
    BY <1>1 DEF StuffingField
  <2>2. Bin(k - 1) = {}
    BY <1>1, BinIs
  <2> QED BY <1>1, <2>1, <2>2, OneByte
<1>2. CASE k # 1
  <2>1. PICK n \in Nat : n = 2
    OBVIOUS
  <2> DEFINE b == <<Bin(k - 1), {}>>
             f == FF(k - 2)
  <2>2. Are(b, n)
    <3>1. Bin(k - 1) \in SUBSET Int
      BY BinTime
    <3> QED BY <2>1, <3>1 DEF Are
  <2>3. b[1] = Bin(k - 1) /\ b[2] = {}
    OBVIOUS
  <2>4. Are(f, k - 2) /\ k - 2 \in Nat
    BY <1>2, Fill
  <2>5. StuffingField(k) = b \o f
    BY <1>2 DEF StuffingField
  <2> HIDE DEF b, f
  <2>6. Are(b \o f, n + (k - 2)) /\ Holds(b \o f, 0, b)
    BY <2>2, <2>4, Laid
  <2>7. PICK g : g = b \o f
    OBVIOUS
  <2>8. Holds(g, 0, b)
    BY <2>6, <2>7
  <2>9. g[1] = b[1] /\ g[2] = b[2]
    <3>1. DOMAIN b = 1 .. 2
      BY <2>1, <2>2 DEF Are
    <3>2. g[0 + 1] = b[1] /\ g[0 + 2] = b[2]
      BY <2>8, <3>1 DEF Holds
    <3> QED BY <3>2
  <2> QED BY <2>1, <2>3, <2>5, <2>6, <2>7, <2>9
<1> QED BY <1>1, <1>2

(* A buffer, and one of 188 bytes of which the first n are set.            *)
BufferAt(d, n) == [data |-> d, pos |-> n]
HeadAndRoom(h, n) == h \o FilledWith(188 - n, {}).data
HasField(h, n, l) == 5 \in h[4] /\ h[5] = Bin(l) /\ 5 + l <= n
LengthenedHead(h, n, l, k) == WithStuffing(h, n, 5 + l, k, FF(k), 5, Bin(l + k), 188)
MadeHead(h, n, k) == WithStuffing(h, n, 4, k, StuffingField(k), 4, h[4] \cup {5}, 188)

LEMMA StuffedBufferIs ==
    ASSUME NEW n \in Nat, NEW h, Are(h, n), n <= 188, NEW k \in Nat \ {0}, n + k <= 188
    PROVE  /\ \A l \in AfLengths : HasField(h, n, l) =>
                 StuffedBuffer(BufferAt(HeadAndRoom(h, n), n), k) = BufferAt(LengthenedHead(h, n, l, k), n + k)
           /\ 4 <= n /\ 5 \notin h[4] =>
                 StuffedBuffer(BufferAt(HeadAndRoom(h, n), n), k) = BufferAt(MadeHead(h, n, k), n + k)
<1> PICK b : b = BufferAt(HeadAndRoom(h, n), n)
  OBVIOUS
<1> DEFINE z == FilledWith(188 - n, {}).data
           d == h \o z
           moved(base) == Overwritten(d, base + k, SubSeq(d, base + 1, n))
<1>0. \A v : skip([b EXCEPT !.data = v], k) = [data |-> v, pos |-> n + k]
  <2> TAKE v
  <2>1. PICK e : e = d
    OBVIOUS
  <2>2. b = [data |-> e, pos |-> n] /\ k \in Nat
    BY <2>1 DEF BufferAt, HeadAndRoom
  <2>3. PICK c : c = [b EXCEPT !.data = v]
    OBVIOUS
  <2>4. c = [data |-> v, pos |-> n]
    BY <2>2, <2>3
  <2>5. c.pos + k = n + k
    BY <2>4
  <2>6. [c EXCEPT !.pos = n + k] = [data |-> v, pos |-> n + k]
    BY <2>4
  <2>7. skip(c, k) = [c EXCEPT !.pos = c.pos + k]
    BY Zenon DEF skip
  <2> QED BY <2>3, <2>5, <2>6, <2>7, Zenon
<1>1. Are(z, 188 - n) /\ 188 - n \in Nat
  BY DEF FilledWith, Are
<1> HIDE DEF z
<1>2. Are(d, 188) /\ \A i \in 1 .. n : d[i] = h[i]
  <2>1. Are(h \o z, n + (188 - n))
    BY <1>1, Laid
  <2>2. n + (188 - n) = 188
    OBVIOUS
  <2>3. \A i \in 1 .. n : (h \o z)[i] = h[i]
    BY <1>1 DEF Are
  <2> QED BY <2>1, <2>2, <2>3
<1>3. b = [data |-> d, pos |-> n]
  BY DEF z, BufferAt, HeadAndRoom
<1> HIDE DEF d
<1>4. ASSUME NEW base \in 4 .. n
      PROVE  Are(moved(base), 188) /\ \A i \in 1 .. base : moved(base)[i] = h[i]
  <2> DEFINE cut == SubSeq(d, base + 1, n)
  <2>1. Are(cut, n - base)
    BY <1>2 DEF Are
  <2> HIDE DEF cut
  <2>2. /\ Are(moved(base), 188)
        /\ \A i \in 1 .. 188 : moved(base)[i] = IF i - (base + k) \in 1 .. n - base
                                                THEN cut[i - (base + k)] ELSE d[i]
    <3>0. PICK m \in Nat : m = 188
      OBVIOUS
    <3> DEFINE o == Overwritten(d, base + k, cut)
    <3>1. n - base \in Nat /\ base + k \in Nat /\ (base + k) + (n - base) <= m
      BY <3>0
    <3>2. moved(base) = o
      BY DEF cut
    <3>3. Are(d, m)
      BY <1>2, <3>0
    <3>4. /\ Are(o, m)
          /\ \A i \in 1 .. m : o[i] = IF i - (base + k) \in 1 .. n - base THEN cut[i - (base + k)] ELSE d[i]
      <4>1. IsOverwritten(o, d, m, base + k, cut, n - base)
        BY <2>1, <3>1, <3>3, OverwrittenAre
      <4> QED BY <4>1 DEF IsOverwritten
    <3> HIDE DEF moved, o
    <3> QED BY <3>0, <3>2, <3>4
  <2> HIDE DEF moved
  <2>3. ASSUME NEW i \in 1 .. base PROVE moved(base)[i] = h[i]
    <3>1. i \in 1 .. 188 /\ i \in 1 .. n /\ ~(i - (base + k) \in 1 .. n - base)
      OBVIOUS
    <3> QED BY <1>2, <2>2, <3>1
  <2> QED BY <2>2, <2>3
<1>5. ASSUME NEW base \in 4 .. n, NEW mid, Are(mid, k)
      PROVE  \A i \in 1 .. base : Overwritten(moved(base), base, mid)[i] = h[i]
  <2> HIDE DEF moved
  <2>1. \A i \in 1 .. 188 : Overwritten(moved(base), base, mid)[i] =
            IF i - base \in 1 .. k THEN mid[i - base] ELSE moved(base)[i]
    <3>0. PICK m \in Nat : m = 188
      OBVIOUS
    <3>1. base \in Nat /\ base + k <= m /\ Are(moved(base), m)
      BY <1>4, <3>0
    <3>2. \A i \in 1 .. m : Overwritten(moved(base), base, mid)[i] =
              IF i - base \in 1 .. k THEN mid[i - base] ELSE moved(base)[i]
      <4>1. IsOverwritten(Overwritten(moved(base), base, mid), moved(base), m, base, mid, k)
        BY <1>5, <3>1, OverwrittenAre
      <4> QED BY <4>1 DEF IsOverwritten
    <3> QED BY <3>0, <3>2
  <2>2. ASSUME NEW i \in 1 .. base PROVE Overwritten(moved(base), base, mid)[i] = h[i]
    <3>1. i \in 1 .. 188 /\ ~(i - base \in 1 .. k)
      OBVIOUS
    <3> QED BY <1>4, <2>1, <3>1
  <2> QED BY <2>2
<1>6. ASSUME NEW l \in AfLengths, HasField(h, n, l)
      PROVE  StuffedBuffer(b, k) = BufferAt(LengthenedHead(h, n, l, k), n + k)
  <2>0. 5 \in h[4] /\ h[5] = Bin(l) /\ 5 + l <= n
    BY <1>6, Zenon DEF HasField
  <2> DEFINE base == 5 + l
             x == Overwritten(moved(base), base, FF(k))
  <2>1. l \in Nat /\ l < 65536 /\ base \in 4 .. n /\ 4 \in 1 .. n /\ 5 \in 1 .. base /\ 5 \in 1 .. n
    BY <2>0, SMTT(30) DEF AfLengths
  <2>2. d[4] = h[4] /\ d[5] = h[5]
    BY <1>2, <2>1
  <2>3. Num(d[5]) = l
    BY <2>0, <2>1, <2>2, NumBin, SMTT(30)
  <2>4. x[5] = h[5]
    BY <1>5, <2>1, Fill
  <2>5. Num(x[5]) + k = l + k
    BY <2>0, <2>2, <2>3, <2>4
  <2>6. StuffedBuffer(b, k) = skip([b EXCEPT !.data = [x EXCEPT ![5] = Bin(Num(x[5]) + k)]], k)
    <3>1. b.data = d /\ b.pos = n
      BY <1>3
    <3>2. 5 \in d[4] /\ 5 + Num(d[5]) = base
      BY <2>0, <2>2, <2>3
    <3>3. StuffedBuffer(b, k) = skip([b EXCEPT !.data = Lengthened(d, base, n, k)], k)
      <4> HIDE DEF base, x, moved
      <4> QED BY <3>1, <3>2, Zenon DEF StuffedBuffer
    <3>4. Lengthened(d, base, n, k) = [x EXCEPT ![5] = Bin(Num(x[5]) + k)]
      BY Zenon DEF Lengthened, MovedUp, x, moved
    <3> HIDE DEF base, x
    <3> QED BY <3>3, <3>4, Zenon
  <2>7. WithStuffing(h, n, base, k, FF(k), 5, Bin(l + k), 188) = [x EXCEPT ![5] = Bin(l + k)]
    BY Zenon DEF WithStuffing, x, moved, d, z
  <2> DEFINE v == WithStuffing(h, n, base, k, FF(k), 5, Bin(l + k), 188)
  <2> HIDE DEF x, base, moved, v
  <2>8. StuffedBuffer(b, k) = skip([b EXCEPT !.data = v], k)
    BY <2>5, <2>6, <2>7, Zenon DEF v
  <2>9. skip([b EXCEPT !.data = v], k) = [data |-> v, pos |-> n + k]
    BY <1>0
  <2> QED BY <2>8, <2>9, Zenon DEF v, base, BufferAt, LengthenedHead
<1>7. ASSUME 4 <= n, 5 \notin h[4]
      PROVE  StuffedBuffer(b, k) = BufferAt(MadeHead(h, n, k), n + k)
  <2>0. PICK base \in 4 .. n : base = 4
    BY <1>7
  <2> DEFINE x == Overwritten(moved(base), base, StuffingField(k))
  <2>1. d[4] = h[4]
    BY <1>2, <1>7
  <2>2. x[4] = h[4]
    BY <1>5, <2>0, StuffingFieldAre
  <2>3. StuffedBuffer(b, k) = skip([b EXCEPT !.data = [x EXCEPT ![4] = x[4] \cup {5}]], k)
    <3>1. b.data = d /\ b.pos = n
      BY <1>3
    <3>2. 5 \notin d[4] /\ TsHeaderBytes = base
      BY <1>7, <2>0, <2>1 DEF TsHeaderBytes
    <3>3. StuffedBuffer(b, k) = skip([b EXCEPT !.data = FieldMade(d, base, n, k)], k)
      <4> HIDE DEF x, moved
      <4> QED BY <3>1, <3>2, Zenon DEF StuffedBuffer
    <3>4. FieldMade(d, base, n, k) = [x EXCEPT ![4] = x[4] \cup {5}]
      BY Zenon DEF FieldMade, MovedUp, x, moved
    <3> HIDE DEF x
    <3> QED BY <3>3, <3>4, Zenon
  <2>4. WithStuffing(h, n, 4, k, StuffingField(k), 4, h[4] \cup {5}, 188) = [x EXCEPT ![4] = h[4] \cup {5}]
    BY <2>0, Zenon DEF WithStuffing, x, moved, d, z
  <2> DEFINE v == WithStuffing(h, n, 4, k, StuffingField(k), 4, h[4] \cup {5}, 188)
  <2> HIDE DEF x, moved, v
  <2>5. StuffedBuffer(b, k) = skip([b EXCEPT !.data = v], k)
    BY <2>2, <2>3, <2>4, Zenon DEF v
  <2>6. skip([b EXCEPT !.data = v], k) = [data |-> v, pos |-> n + k]
    BY <1>0
  <2> QED BY <2>5, <2>6, Zenon DEF v, BufferAt, MadeHead
<1> QED BY <1>6, <1>7, Zenon
-----------------------------------------------------------------------------
(* The bytes of a frame.                                                   *)
LEMMA DataAre ==
    ASSUME NEW from \in Nat, NEW len \in Nat
    PROVE  Are(Data(from, len), len)
<1>1. \A i \in 1 .. len : {8 + from + i - 1} \in SUBSET Int
  OBVIOUS
<1> QED BY <1>1 DEF Data, Are

LEMMA HeadAndRoomAre ==
    ASSUME NEW n \in Nat, n <= 188, NEW head, Are(head, n)
    PROVE  Are(HeadAndRoom(head, n), 188)
<1> DEFINE z == FilledWith(188 - n, {}).data
<1>1. Are(z, 188 - n) /\ 188 - n \in Nat
  BY DEF FilledWith, Are
<1> HIDE DEF z
<1>2. Are(head \o z, n + (188 - n))
  BY <1>1, Laid
<1>3. n + (188 - n) = 188
  OBVIOUS
<1> QED BY <1>2, <1>3 DEF HeadAndRoom, z

LEMMA PacketStart ==
    ASSUME NEW n \in Nat, NEW e, Are(e, 188)
    PROVE  skip(append(NoBytes, e), n) = BufferAt(e, n)
<1>1. PICK a : a = append(NoBytes, e)
  OBVIOUS
<1>2. a = [data |-> e, pos |-> 0]
  <2>1. NoBytes = [data |-> <<>>, pos |-> 0]
    BY DEF NoBytes
  <2>2. append(NoBytes, e) = [NoBytes EXCEPT !.data = NoBytes.data \o e]
    BY Zenon DEF append
  <2>3. NoBytes.data \o e = e
    <3>1. NoBytes.data = <<>>
      BY <2>1
    <3>2. <<>> \o e = e
      BY DEF Are
    <3> QED BY <3>1, <3>2
  <2>4. [NoBytes EXCEPT !.data = e] = [data |-> e, pos |-> 0]
    BY <2>1
  <2> QED BY <1>1, <2>2, <2>3, <2>4, Zenon
<1>3. a.pos + n = n
  BY <1>2
<1>4. [a EXCEPT !.pos = n] = [data |-> e, pos |-> n]
  BY <1>2
<1>5. skip(a, n) = [a EXCEPT !.pos = a.pos + n]
  BY Zenon DEF skip
<1> QED BY <1>1, <1>3, <1>4, <1>5, Zenon DEF BufferAt

LEMMA SetDataIs ==
    ASSUME NEW d, Are(d, 188), NEW n \in Nat, NEW len \in Nat, n + len <= 188, NEW s, Are(s, len)
    PROVE  setData(BufferAt(d, n), n, s).data = Overwritten(d, n, s)
<1>0. PICK b : b = BufferAt(d, n)
  OBVIOUS
<1>1. b.data = d /\ b.pos = n /\ b = [data |-> d, pos |-> n]
  BY <1>0 DEF BufferAt
<1>2. ~(n + Len(s) > size(b))
  <2>1. Len(s) = len /\ Len(d) = 188
    BY DEF Are
  <2> QED BY <1>1, <2>1 DEF size
<1>3. setData(b, n, s) = [b EXCEPT !.data = Overwritten(b.data, b.pos, s)]
  BY <1>2, Zenon DEF setData
<1>4. PICK o : o = Overwritten(d, n, s)
  OBVIOUS
<1>5. Overwritten(b.data, b.pos, s) = o
  BY <1>1, <1>4, Zenon
<1>6. [b EXCEPT !.data = o].data = o
  BY <1>1
<1> QED BY <1>0, <1>3, <1>4, <1>5, <1>6, Zenon

LEMMA BodyIs ==
    ASSUME NEW n \in Nat, NEW head, Are(head, n), NEW from \in Nat, NEW in \in Nat
    PROVE  /\ \A len \in Nat : n + len = 188 /\ len <= in =>
                 PesBody(head, from, in) = setData(BufferAt(HeadAndRoom(head, n), n), n, Data(from, len)).data
           /\ \A k \in Nat \ {0} : n + k + in = 188 =>
                 \E e : /\ e = StuffedBuffer(BufferAt(HeadAndRoom(head, n), n), k)
                       /\ PesBody(head, from, in) = setData(e, e.pos, Data(from, in)).data
<1> DEFINE b == skip(append(NoBytes, HeadAndRoom(head, n)), n)
<1>1. Len(head) = n
  BY DEF Are
<1>2. n <= 188 => b = BufferAt(HeadAndRoom(head, n), n)
  BY HeadAndRoomAre, PacketStart
<1>3. PesBody(head, from, in) =
        IF 188 - n <= in
        THEN setData(b, n, Data(from, 188 - n)).data
        ELSE setData(StuffedBuffer(b, 188 - n - in), StuffedBuffer(b, 188 - n - in).pos,
                     Data(from, in)).data
  BY <1>1 DEF PesBody, kTsPacketSize_188, HeadAndRoom
<1> HIDE DEF b
<1>4. ASSUME NEW len \in Nat, n + len = 188, len <= in
      PROVE  PesBody(head, from, in) = setData(BufferAt(HeadAndRoom(head, n), n), n, Data(from, len)).data
  <2>1. len = 188 - n /\ n <= 188
    BY <1>4
  <2> QED BY <1>2, <1>3, <1>4, <2>1
<1>5. ASSUME NEW k \in Nat \ {0}, n + k + in = 188
      PROVE  \E e : /\ e = StuffedBuffer(BufferAt(HeadAndRoom(head, n), n), k)
                    /\ PesBody(head, from, in) = setData(e, e.pos, Data(from, in)).data
  <2>1. ~(188 - n <= in) /\ 188 - n - in = k /\ n <= 188
    BY <1>5
  <2>2. PICK e : e = StuffedBuffer(b, k)
    OBVIOUS
  <2>3. PesBody(head, from, in) = setData(e, e.pos, Data(from, in)).data
    BY <1>3, <2>1, <2>2
  <2>4. e = StuffedBuffer(BufferAt(HeadAndRoom(head, n), n), k)
    BY <1>2, <2>1, <2>2
  <2> QED BY <2>3, <2>4
<1> QED BY <1>4, <1>5

(* The data is the end of the packet, behind the head.                     *)
IsCompleted(d, w, n, s) ==
    /\ Are(d, 188)
    /\ \A i \in 1 .. n : d[i] = w[i]
    /\ Holds(d, n, s)

LEMMA SetDataCompletes ==
    ASSUME NEW w, Are(w, 188), NEW n \in Nat, NEW len \in Nat, n + len = 188, NEW from \in Nat
    PROVE  IsCompleted(setData(BufferAt(w, n), n, Data(from, len)).data, w, n, Data(from, len))
<1> PICK d : d = setData(BufferAt(w, n), n, Data(from, len)).data
  OBVIOUS
<1> DEFINE s == Data(from, len)
<1>1. Are(s, len)
  BY DataAre
<1> HIDE DEF s
<1>2. PICK m \in Nat : m = 188
  OBVIOUS
<1>3. d = Overwritten(w, n, s)
  <2>1. n + len <= 188
    OBVIOUS
  <2> QED BY <1>1, <2>1, SetDataIs DEF s
<1>4. /\ Are(d, m)
      /\ \A i \in 1 .. m : d[i] = IF i - n \in 1 .. len THEN s[i - n] ELSE w[i]
  <2>1. Are(w, m) /\ n + len <= m
    BY <1>2
  <2>2. IsOverwritten(d, w, m, n, s, len)
    BY <1>1, <1>3, <2>1, OverwrittenAre
  <2> QED BY <2>2 DEF IsOverwritten
<1>5. DOMAIN s = 1 .. len
  BY <1>1 DEF Are
<1>6. ASSUME NEW i \in 1 .. len PROVE d[n + i] = s[i]
  <2>1. n + i \in 1 .. m /\ n + i - n = i
    BY <1>2
  <2> QED BY <1>4, <2>1
<1>7. ASSUME NEW i \in 1 .. n PROVE d[i] = w[i]
  <2>1. i \in 1 .. m /\ ~(i - n \in 1 .. len)
    BY <1>2
  <2> QED BY <1>4, <2>1
<1>8. Holds(d, n, s)
  BY <1>5, <1>6 DEF Holds
<1>9. Are(d, 188)
  BY <1>2, <1>4
<1> QED BY <1>7, <1>8, <1>9 DEF s, IsCompleted

LEMMA LengthenedAre ==
    ASSUME NEW n \in Nat, NEW h, Are(h, n), NEW k \in Nat, n + k <= 188,
           NEW l \in AfLengths, 5 + l <= n
    PROVE  /\ Are(LengthenedHead(h, n, l, k), 188)
           /\ \A i \in 1 .. 5 + l :
                 LengthenedHead(h, n, l, k)[i] = IF i = 5 THEN Bin(l + k) ELSE h[i]
           /\ \A i \in 1 .. n - (5 + l) : LengthenedHead(h, n, l, k)[5 + l + k + i] = h[5 + l + i]
<1>1. PICK m \in Nat, c \in Nat : m = 188 /\ c = 5
  OBVIOUS
<1>2. PICK base \in Nat : base = 5 + l
  BY DEF AfLengths
<1>3. PICK v : v = Bin(l + k)
  OBVIOUS
<1>4. PICK mid : mid = FF(k)
  OBVIOUS
<1>5. base \in 1 .. n /\ c \in 1 .. base /\ n + k <= m
  BY <1>1, <1>2 DEF AfLengths
<1>6. Are(mid, k)
  BY <1>4, Fill
<1>7. v \in SUBSET Int
  <2>1. l + k \in Nat
    BY DEF AfLengths
  <2> QED BY <1>3, <2>1, BinTime
<1>8. PICK w : w = WithStuffing(h, n, base, k, mid, c, v, m)
  OBVIOUS
<1>9. /\ Are(w, m)
      /\ \A i \in 1 .. base : w[i] = IF i = c THEN v ELSE h[i]
      /\ \A i \in 1 .. n - base : w[base + k + i] = h[base + i]
  <2>1. IsStuffed(w, n, h, base, k, mid, c, v, m)
    BY <1>5, <1>6, <1>7, <1>8, WithStuffingAre
  <2> QED BY <2>1 DEF IsStuffed
<1>10. w = LengthenedHead(h, n, l, k)
  BY <1>1, <1>2, <1>3, <1>4, <1>8 DEF LengthenedHead
<1> QED BY <1>1, <1>2, <1>3, <1>9, <1>10

IsMade(w, h, n, k) ==
    /\ Are(w, 188)
    /\ \A i \in 1 .. 4 : w[i] = IF i = 4 THEN h[4] \cup {5} ELSE h[i]
    /\ \A i \in 1 .. k : w[4 + i] = StuffingField(k)[i]
    /\ \A i \in 1 .. n - 4 : w[4 + k + i] = h[4 + i]

LEMMA MadeAre ==
    ASSUME NEW n \in Nat, NEW h, Are(h, n), NEW k \in Nat \ {0}, n + k <= 188, 4 <= n
    PROVE  IsMade(MadeHead(h, n, k), h, n, k)
<1>1. PICK m \in Nat, base \in Nat : m = 188 /\ base = 4
  OBVIOUS
<1>3. PICK v : v = h[4] \cup {5}
  OBVIOUS
<1>4. PICK mid : mid = StuffingField(k)
  OBVIOUS
<1>5. base \in 1 .. n /\ base \in 1 .. base /\ n + k <= m
  BY <1>1
<1>6. Are(mid, k)
  BY <1>4, StuffingFieldAre
<1>7. v \in SUBSET Int
  BY <1>3 DEF Are
<1>8. PICK w : w = WithStuffing(h, n, base, k, mid, base, v, m)
  OBVIOUS
<1>9. /\ Are(w, m)
      /\ \A i \in 1 .. base : w[i] = IF i = base THEN v ELSE h[i]
      /\ \A i \in 1 .. k : w[base + i] = mid[i]
      /\ \A i \in 1 .. n - base : w[base + k + i] = h[base + i]
  <2>1. IsStuffed(w, n, h, base, k, mid, base, v, m)
    BY <1>5, <1>6, <1>7, <1>8, WithStuffingAre
  <2> QED BY <2>1 DEF IsStuffed
<1>10. w = MadeHead(h, n, k)
  BY <1>1, <1>3, <1>4, <1>8 DEF MadeHead
<1> QED BY <1>1, <1>3, <1>4, <1>9, <1>10 DEF IsMade

(* The three ways the head of a packet is completed.                       *)
IsFull(d, head, n, from, in, len) ==
    Are(head, n) /\ n + len = 188 /\ len <= in /\ d = PesBody(head, from, in)
FullBytes(d, head, n, from, len) ==
    Are(d, 188) /\ Holds(d, n, Data(from, len)) /\ Holds(d, 0, head)

LEMMA BodyFull ==
    ASSUME NEW n \in Nat, NEW head, NEW from \in Nat, NEW in \in Nat, NEW len \in Nat, NEW d,
           IsFull(d, head, n, from, in, len)
    PROVE  FullBytes(d, head, n, from, len)
<1> SUFFICES ASSUME Are(head, n), n + len = 188, len <= in, d = PesBody(head, from, in)
             PROVE  Are(d, 188) /\ Holds(d, n, Data(from, len)) /\ Holds(d, 0, head)
  BY Zenon DEF IsFull, FullBytes
<1>1. d = setData(BufferAt(HeadAndRoom(head, n), n), n, Data(from, len)).data
  BY BodyIs
<1>2. Are(HeadAndRoom(head, n), 188)
  BY HeadAndRoomAre
<1>3. PICK w : w = HeadAndRoom(head, n)
  OBVIOUS
<1>4. /\ Are(d, 188) /\ Holds(d, n, Data(from, len))
      /\ \A i \in 1 .. n : d[i] = w[i]
  <2>1. IsCompleted(d, w, n, Data(from, len))
    BY <1>1, <1>2, <1>3, SetDataCompletes
  <2> QED BY <2>1 DEF IsCompleted
<1>5. \A i \in 1 .. n : w[i] = head[i]
  <2> DEFINE z == FilledWith(188 - n, {}).data
  <2>1. Are(z, 188 - n)
    BY DEF FilledWith, Are
  <2> HIDE DEF z
  <2>2. \A i \in 1 .. n : (head \o z)[i] = head[i]
    BY <2>1 DEF Are
  <2> QED BY <1>3, <2>2 DEF HeadAndRoom, z
<1>6. DOMAIN head = 1 .. n
  BY DEF Are
<1> QED BY <1>4, <1>5, <1>6 DEF Holds

IsLonger(d, head, n, from, in, k, l) ==
    Are(head, n) /\ n + k + in = 188 /\ HasField(head, n, l) /\ d = PesBody(head, from, in)
LongerBytes(d, head, n, from, in, k, l) ==
    /\ Are(d, 188) /\ Holds(d, n + k, Data(from, in))
    /\ \A i \in 1 .. 5 + l : d[i] = IF i = 5 THEN Bin(l + k) ELSE head[i]
    /\ \A i \in 1 .. n - (5 + l) : d[5 + l + k + i] = head[5 + l + i]

LEMMA BodyLengthened ==
    ASSUME NEW n \in Nat, NEW head, NEW from \in Nat, NEW in \in Nat, NEW k \in Nat \ {0},
           NEW l \in AfLengths, NEW d, IsLonger(d, head, n, from, in, k, l)
    PROVE  LongerBytes(d, head, n, from, in, k, l)
<1> SUFFICES ASSUME Are(head, n), n + k + in = 188, HasField(head, n, l), d = PesBody(head, from, in)
             PROVE  /\ Are(d, 188) /\ Holds(d, n + k, Data(from, in))
                    /\ \A i \in 1 .. 5 + l : d[i] = IF i = 5 THEN Bin(l + k) ELSE head[i]
                    /\ \A i \in 1 .. n - (5 + l) : d[5 + l + k + i] = head[5 + l + i]
  BY Zenon DEF IsLonger, LongerBytes
<1>0. 5 + l <= n
  BY Zenon DEF HasField
<1>1. PICK e : /\ e = StuffedBuffer(BufferAt(HeadAndRoom(head, n), n), k)
               /\ d = setData(e, e.pos, Data(from, in)).data
  BY BodyIs
<1>2. PICK p \in Nat : p = n + k
  OBVIOUS
<1>3. n <= 188 /\ n + k <= 188 /\ p + in = 188
  BY <1>2
<1>4. e = BufferAt(LengthenedHead(head, n, l, k), p)
  BY <1>1, <1>2, <1>3, StuffedBufferIs
<1>5. PICK w : w = LengthenedHead(head, n, l, k)
  OBVIOUS
<1>6. /\ Are(w, 188)
      /\ \A i \in 1 .. 5 + l : w[i] = IF i = 5 THEN Bin(l + k) ELSE head[i]
      /\ \A i \in 1 .. n - (5 + l) : w[5 + l + k + i] = head[5 + l + i]
  BY <1>0, <1>3, <1>5, LengthenedAre
<1>7. e.pos = p
  BY <1>4 DEF BufferAt
<1>8. /\ Are(d, 188) /\ Holds(d, p, Data(from, in))
      /\ \A i \in 1 .. p : d[i] = w[i]
  <2>1. d = setData(BufferAt(w, p), p, Data(from, in)).data
    BY <1>1, <1>4, <1>5, <1>7
  <2>2. IsCompleted(d, w, p, Data(from, in))
    BY <1>3, <1>6, <2>1, SetDataCompletes
  <2> QED BY <2>2 DEF IsCompleted
<1>9. \A i \in 1 .. 5 + l : i \in 1 .. p
  BY <1>0, <1>2 DEF AfLengths
<1>10. \A i \in 1 .. n - (5 + l) : 5 + l + k + i \in 1 .. p
  BY <1>0, <1>2 DEF AfLengths
<1> QED BY <1>2, <1>6, <1>8, <1>9, <1>10

IsWider(d, head, n, from, in, k) ==
    /\ Are(head, n) /\ n + k + in = 188 /\ 4 <= n /\ 5 \notin head[4]
    /\ d = PesBody(head, from, in)
WiderBytes(d, head, n, from, in, k) ==
    /\ Are(d, 188) /\ Holds(d, n + k, Data(from, in))
    /\ \A i \in 1 .. 4 : d[i] = IF i = 4 THEN head[4] \cup {5} ELSE head[i]
    /\ \A i \in 1 .. k : d[4 + i] = StuffingField(k)[i]
    /\ \A i \in 1 .. n - 4 : d[4 + k + i] = head[4 + i]

LEMMA BodyMade ==
    ASSUME NEW n \in Nat, NEW head, NEW from \in Nat, NEW in \in Nat, NEW k \in Nat \ {0}, NEW d,
           IsWider(d, head, n, from, in, k)
    PROVE  WiderBytes(d, head, n, from, in, k)
<1> SUFFICES ASSUME Are(head, n), n + k + in = 188, 4 <= n, 5 \notin head[4],
                    d = PesBody(head, from, in)
             PROVE  /\ Are(d, 188) /\ Holds(d, n + k, Data(from, in))
                    /\ \A i \in 1 .. 4 : d[i] = IF i = 4 THEN head[4] \cup {5} ELSE head[i]
                    /\ \A i \in 1 .. k : d[4 + i] = StuffingField(k)[i]
                    /\ \A i \in 1 .. n - 4 : d[4 + k + i] = head[4 + i]
  BY Zenon DEF IsWider, WiderBytes
<1>1. PICK e : /\ e = StuffedBuffer(BufferAt(HeadAndRoom(head, n), n), k)
               /\ d = setData(e, e.pos, Data(from, in)).data
  BY BodyIs
<1>2. PICK p \in Nat : p = n + k
  OBVIOUS
<1>3. n <= 188 /\ n + k <= 188 /\ p + in = 188
  BY <1>2
<1>4. e = BufferAt(MadeHead(head, n, k), p)
  BY <1>1, <1>2, <1>3, StuffedBufferIs
<1>5. PICK w : w = MadeHead(head, n, k)
  OBVIOUS
<1>6. /\ Are(w, 188)
      /\ \A i \in 1 .. 4 : w[i] = IF i = 4 THEN head[4] \cup {5} ELSE head[i]
      /\ \A i \in 1 .. k : w[4 + i] = StuffingField(k)[i]
      /\ \A i \in 1 .. n - 4 : w[4 + k + i] = head[4 + i]
  <2>1. IsMade(w, head, n, k)
    BY <1>3, <1>5, MadeAre
  <2> QED BY <2>1, Zenon DEF IsMade
<1>7. e.pos = p
  BY <1>4 DEF BufferAt
<1>8. /\ Are(d, 188) /\ Holds(d, p, Data(from, in))
      /\ \A i \in 1 .. p : d[i] = w[i]
  <2>1. d = setData(BufferAt(w, p), p, Data(from, in)).data
    BY <1>1, <1>4, <1>5, <1>7
  <2>2. IsCompleted(d, w, p, Data(from, in))
    BY <1>3, <1>6, <2>1, SetDataCompletes
  <2> QED BY <2>2 DEF IsCompleted
<1>9. \A i \in 1 .. 4 : i \in 1 .. p
  BY <1>2
<1>10. /\ \A i \in 1 .. k : 4 + i \in 1 .. p
       /\ \A i \in 1 .. n - 4 : 4 + k + i \in 1 .. p
  BY <1>2
<1> QED BY <1>2, <1>6, <1>8, <1>9, <1>10
-----------------------------------------------------------------------------
(* The header of a packet whose adaptation field stuffing made: one bit.   *)
LEMMA HeaderFourth ==
    ASSUME NEW p, NEW q, HeaderOk(p), HeaderOk(q), p.pid = q.pid, p.pusi = q.pusi, p.cc = q.cc,
           p.afc = mPayloadOnly, q.afc = mPayloadAdaptionBoth
    PROVE  /\ 5 \notin HeaderBytesOf(p)[4] /\ 5 \in HeaderBytesOf(q)[4]
           /\ HeaderBytesOf(q)[4] = HeaderBytesOf(p)[4] \cup {5}
           /\ \A i \in 1 .. 3 : HeaderBytesOf(q)[i] = HeaderBytesOf(p)[i]
<1>1. PICK g : g = HeaderOf(p)
  OBVIOUS
<1>2. PICK h : h = HeaderOf(q)
  OBVIOUS
<1>3. /\ g \in TsHeader /\ HeaderBytesOf(p) = TsHeader_encode(g)
      /\ h \in TsHeader /\ HeaderBytesOf(q) = TsHeader_encode(h)
  BY <1>1, <1>2, HeaderFields, Zenon
<1>4. /\ g.mAdaptationFieldControl = {0} /\ h.mAdaptationFieldControl = {0, 1}
      /\ g.mSyncByte = h.mSyncByte /\ g.mPid = h.mPid /\ g.mTransportPriority = h.mTransportPriority
      /\ g.mPayloadUnitStartIndicator = h.mPayloadUnitStartIndicator
      /\ g.mTransportErrorIndicator = h.mTransportErrorIndicator
      /\ g.mContinuityCounter = h.mContinuityCounter
      /\ g.mTransportScramblingControl = {} /\ h.mTransportScramblingControl = {}
  <2>1. PICK a, b, c, s : a = Bin(p.pid) /\ b = Flag(p.pusi) /\ c = Bin(p.cc) /\ s = Bin(71)
    BY Zenon
  <2>2. PICK v, w : v = Bin(p.afc) /\ w = Bin(q.afc)
    BY Zenon
  <2>3. v = {0} /\ w = {0, 1}
    BY <2>2, BinIs DEF mPayloadOnly, mPayloadAdaptionBoth
  <2>4. g = [mSyncByte |-> s, mTransportErrorIndicator |-> {},
     mPayloadUnitStartIndicator |-> b, mTransportPriority |-> {}, mPid |-> a,
     mTransportScramblingControl |-> {}, mAdaptationFieldControl |-> v,
     mContinuityCounter |-> c]
    BY <1>1, <2>1, <2>2, Zenon DEF HeaderOf
  <2>5. h = [mSyncByte |-> s, mTransportErrorIndicator |-> {},
     mPayloadUnitStartIndicator |-> b, mTransportPriority |-> {}, mPid |-> a,
     mTransportScramblingControl |-> {}, mAdaptationFieldControl |-> w,
     mContinuityCounter |-> c]
    BY <1>2, <2>1, <2>2, Zenon DEF HeaderOf
  <2> QED BY <2>3, <2>4, <2>5
<1> DEFINE word(x) == Put(x.mPid, 0, 13) \cup Put(x.mTransportPriority, 13, 1)
                   \cup Put(x.mPayloadUnitStartIndicator, 14, 1)
                   \cup Put(x.mTransportErrorIndicator, 15, 1)
           last(x) == Put(x.mContinuityCounter, 0, 4) \cup Put(x.mAdaptationFieldControl, 4, 2)
                 \cup Put(x.mTransportScramblingControl, 6, 2)
<1>5. word(g) = word(h)
  BY <1>4, Zenon
<1>6. last(g) = Put(g.mContinuityCounter, 0, 4) \cup {4} /\ last(h) = last(g) \cup {5}
      /\ 5 \notin last(g)
  <2>1. Put({0}, 4, 2) = {4} /\ Put({0, 1}, 4, 2) = {4, 5} /\ Put({}, 6, 2) = {}
    BY DEF Put, Shl
  <2>2. 5 \notin Put(g.mContinuityCounter, 0, 4)
    BY DEF Put
  <2>3. last(g) = Put(g.mContinuityCounter, 0, 4) \cup Put({0}, 4, 2) \cup Put({}, 6, 2)
    BY <1>4, Zenon
  <2>4. last(h) = Put(g.mContinuityCounter, 0, 4) \cup Put({0, 1}, 4, 2) \cup Put({}, 6, 2)
    BY <1>4, Zenon
  <2> HIDE DEF last
  <2> QED BY <2>1, <2>2, <2>3, <2>4
<1>7. \A x : TsHeader_encode(x) = <<x.mSyncByte>> \o Bytes2(word(x)) \o <<last(x)>>
  BY Zenon DEF TsHeader_encode
<1> HIDE DEF word, last
<1>8. \A x \in TsHeader :
        /\ TsHeader_encode(x)[1] = x.mSyncByte /\ TsHeader_encode(x)[4] = last(x)
        /\ TsHeader_encode(x)[2] = Get(word(x), 8, 8) /\ TsHeader_encode(x)[3] = Get(word(x), 0, 8)
  <2> TAKE x \in TsHeader
  <2>1. PICK a, w, b : a = x.mSyncByte /\ w = word(x) /\ b = last(x)
    BY Zenon
  <2>2. PICK d : d = TsHeader_encode(x)
    OBVIOUS
  <2>3. PICK p0 \in Int : p0 = 0
    OBVIOUS
  <2>4. /\ Are(<<a>>, 1) /\ Are(Bytes2(w), 2) /\ Are(<<b>>, 1)
        /\ Are(<<a>> \o Bytes2(w), 3)
    <3>1. w \in SUBSET Int /\ b \in SUBSET Int
      BY <2>1 DEF word, last, Put
    <3>2. a \in SUBSET Int
      BY <2>1, WordInts DEF TsHeader, Byte
    <3> QED BY <3>1, <3>2, OneByte, TwoBytes, Concat
  <2>5. Holds(d, p0, <<a>> \o Bytes2(w) \o <<b>>)
    <3>1. d = <<a>> \o Bytes2(w) \o <<b>>
      BY <1>7, <2>1, <2>2, Zenon
    <3>2. d \in Seq(SUBSET Int)
      BY <2>4, <3>1, Concat DEF Are
    <3>3. Holds(d, p0, d)
      BY <2>3, <3>2 DEF Holds
    <3> QED BY <3>1, <3>3
  <2>6. Holds(d, p0, <<a>>) /\ Holds(d, p0 + 1, Bytes2(w)) /\ Holds(d, p0 + 3, <<b>>)
    BY <2>4, <2>5, HoldsConcat
  <2>7. d[p0 + 1] = a /\ d[p0 + 4] = b
    BY <2>6, ByteAt
  <2>8. d[p0 + 2] = Get(w, 8, 8) /\ d[p0 + 3] = Get(w, 0, 8)
    BY <2>6 DEF Holds, Bytes2
  <2> QED BY <2>1, <2>2, <2>3, <2>7, <2>8
<1>9. 5 \notin HeaderBytesOf(p)[4] /\ 5 \in HeaderBytesOf(q)[4]
      /\ HeaderBytesOf(q)[4] = HeaderBytesOf(p)[4] \cup {5}
  BY <1>3, <1>6, <1>8
<1>10. /\ HeaderBytesOf(q)[1] = HeaderBytesOf(p)[1] /\ HeaderBytesOf(q)[2] = HeaderBytesOf(p)[2]
       /\ HeaderBytesOf(q)[3] = HeaderBytesOf(p)[3]
  BY <1>3, <1>4, <1>5, <1>8
<1> QED BY <1>9, <1>10

(* The head of a packet of a frame before it is stuffed.                   *)
HasBoth(u) == u.afc = mPayloadAdaptionBoth
FieldOk(af) == AfOk(af) /\ af.len = IF af.pcr = NoPcr THEN 1 ELSE 7
HeadOk(u) ==
    /\ HeaderOk(u)
    /\ u.afc = mPayloadOnly \/ (HasBoth(u) /\ FieldOk(u.af))
    /\ u.pusi => PesOk(u.load.pes)
FieldSize(u) == IF ~HasBoth(u) THEN 0 ELSE IF u.af.pcr = NoPcr THEN 2 ELSE 8
PesSize(u)   == IF u.pusi THEN 9 + u.load.pes.hdl ELSE 0
HeadParts(u, e) ==
    /\ Are(e, 4 + FieldSize(u) + PesSize(u))
    /\ Holds(e, 0, HeaderBytesOf(u))
    /\ HasBoth(u) => /\ e[5] = Bin(u.af.len) /\ e[6] = AfFlagsOf(u.af)
                     /\ u.af.pcr # NoPcr => Holds(e, 6, writePcr(Bin(u.af.pcr)))
    /\ u.pusi => Holds(e, 4 + FieldSize(u), PesHeaderBytesOf(u.load.pes))

LEMMA Afcs13 ==
    /\ ~hasAdaptationField(mPayloadOnly) /\ hasAdaptationField(mPayloadAdaptionBoth)
    /\ hasPayload(mPayloadOnly) /\ hasPayload(mPayloadAdaptionBoth)
    /\ mPayloadOnly # mPayloadAdaptionBoth
BY DEF hasAdaptationField, hasPayload, mPayloadOnly, mPayloadAdaptionBoth, mAdaptionOnly

LEMMA HeadIs ==
    ASSUME NEW u, HeadOk(u)
    PROVE  /\ HeadParts(u, PesHead(u))
           /\ FieldSize(u) \in {0, 2, 8} /\ PesSize(u) \in {0, 14, 19}
           /\ HasBoth(u) => FieldSize(u) = 1 + u.af.len
<1> DEFINE H == HeaderBytesOf(u)
           A == IF HasBoth(u) THEN AfBytesOf(u.af) ELSE <<>>
           P == IF u.pusi THEN PesHeaderBytesOf(u.load.pes) ELSE <<>>
           b == <<Bin(u.af.len), AfFlagsOf(u.af)>>
           w == PcrBytesOf(u.af)
<1>0. HeaderOk(u) /\ (u.afc = mPayloadOnly \/ (HasBoth(u) /\ FieldOk(u.af))) /\ (u.pusi => PesOk(u.load.pes))
  BY Zenon DEF HeadOk
<1>1. PICK e : e = PesHead(u)
  OBVIOUS
<1>2. e = (H \o A) \o P
  <2>1. hasAdaptationField(u.afc) <=> HasBoth(u)
    BY <1>0, Afcs13, Zenon DEF HasBoth
  <2>2. HeaderBytes(u.pid, u.pusi, u.afc, u.cc) = H
    BY DEF HeaderBytesOf
  <2>3. A = IF hasAdaptationField(u.afc) THEN AfBytesOf(u.af) ELSE <<>>
    BY <2>1, Zenon
  <2>4. PesHead(u) = HeaderBytes(u.pid, u.pusi, u.afc, u.cc)
                       \o (IF hasAdaptationField(u.afc) THEN AfBytesOf(u.af) ELSE <<>>) \o P
    BY Zenon DEF PesHead
  <2> HIDE DEF H, A, P
  <2> QED BY <1>1, <2>2, <2>3, <2>4, Zenon
<1>3. PICK four \in Nat : four = 4
  OBVIOUS
<1>4. Are(H, four)
  BY <1>0, <1>3, HeaderSeen
<1>5. PICK fs \in Nat : fs = FieldSize(u)
  BY DEF FieldSize
<1>6. HasBoth(u) => /\ AfOk(u.af) /\ u.af.len # 0 /\ FieldSize(u) = 1 + u.af.len
                    /\ FieldSize(u) = IF u.af.pcr = NoPcr THEN 2 ELSE 8
  <2> SUFFICES ASSUME HasBoth(u)
               PROVE  /\ AfOk(u.af) /\ u.af.len # 0 /\ FieldSize(u) = 1 + u.af.len
                      /\ FieldSize(u) = IF u.af.pcr = NoPcr THEN 2 ELSE 8
    OBVIOUS
  <2>1. FieldOk(u.af)
    BY <1>0, Afcs13, Zenon DEF HasBoth
  <2>2. AfOk(u.af)
    BY <2>1, Zenon DEF FieldOk
  <2>3. u.af.len = IF u.af.pcr = NoPcr THEN 1 ELSE 7
    BY <2>1, Zenon DEF FieldOk
  <2> QED BY <2>2, <2>3 DEF FieldSize
<1>7. Are(A, fs)
  <2>1. CASE HasBoth(u)
    <3>1. Are(AfBytesOf(u.af), IF u.af.pcr = NoPcr THEN 2 ELSE 8)
      BY <1>6, <2>1, AfBytesAre
    <3> QED BY <1>5, <1>6, <2>1, <3>1, Zenon
  <2>2. CASE ~HasBoth(u)
    <3>1. fs = 0 /\ A = <<>>
      BY <1>5, <2>2 DEF FieldSize
    <3>2. Are(<<>>, 0)
      BY DEF Are
    <3> QED BY <3>1, <3>2
  <2> QED BY <2>1, <2>2
<1>8. PesSize(u) \in {0, 14, 19}
  <2>1. u.pusi => u.load.pes.hdl = 5 \/ u.load.pes.hdl = 10
    BY <1>0, Zenon DEF PesOk
  <2> QED BY <2>1 DEF PesSize
<1>9. PICK ps \in Nat : ps = PesSize(u)
  BY <1>8
<1>10. Are(P, ps)
  <2>1. CASE u.pusi
    <3>1. Are(PesHeaderBytesOf(u.load.pes), 9 + u.load.pes.hdl)
      BY <1>0, <2>1, PesHeaderSeen
    <3> QED BY <1>9, <2>1, <3>1, Zenon DEF PesSize
  <2>2. CASE ~u.pusi
    <3>1. ps = 0 /\ P = <<>>
      BY <1>9, <2>2 DEF PesSize
    <3>2. Are(<<>>, 0)
      BY DEF Are
    <3> QED BY <3>1, <3>2
  <2> QED BY <2>1, <2>2
<1> HIDE DEF H, A, P
<1>11. Are(H \o A, four + fs) /\ Are(e, four + fs + ps)
  BY <1>2, <1>4, <1>7, <1>10, Concat
<1>12. Holds(e, 0, H) /\ Holds(e, four, A) /\ Holds(e, four + fs, P)
  <2>1. Holds(e, 0, (H \o A) \o P)
    <3>1. Holds(e, 0, e)
      BY <1>11 DEF Are, Holds
    <3> QED BY <1>2, <3>1
  <2>2. PICK p0 \in Int : p0 = 0
    OBVIOUS
  <2>3. Holds(e, p0, (H \o A) \o P)
    BY <2>1, <2>2, Zenon
  <2>4. Holds(e, p0, H \o A) /\ Holds(e, p0 + (four + fs), P)
    BY <1>10, <1>11, <2>3, HoldsConcat
  <2>5. Holds(e, p0, H) /\ Holds(e, p0 + four, A)
    BY <1>4, <1>7, <2>4, HoldsConcat
  <2> QED BY <2>2, <2>4, <2>5
<1>13. HasBoth(u) => /\ e[5] = Bin(u.af.len) /\ e[6] = AfFlagsOf(u.af)
                     /\ u.af.pcr # NoPcr => Holds(e, 6, writePcr(Bin(u.af.pcr)))
  <2> SUFFICES ASSUME HasBoth(u)
               PROVE  /\ e[5] = Bin(u.af.len) /\ e[6] = AfFlagsOf(u.af)
                      /\ u.af.pcr # NoPcr => Holds(e, 6, writePcr(Bin(u.af.pcr)))
    OBVIOUS
  <2>1. A = b \o w /\ Are(b, 2)
    BY <1>6, AfBytesAre DEF A
  <2>2. b[1] = Bin(u.af.len) /\ b[2] = AfFlagsOf(u.af)
    OBVIOUS
  <2>3. u.af.pcr # NoPcr => w = writePcr(Bin(u.af.pcr)) /\ Are(w, 6)
    <3>1. Are(writePcr(Bin(u.af.pcr)), 6)
      BY PcrAre
    <3> QED BY <3>1 DEF PcrBytesOf
  <2>4. u.af.pcr = NoPcr => w = <<>>
    BY DEF PcrBytesOf
  <2> HIDE DEF b, w
  <2>5. PICK n \in Nat : Are(w, n)
    <3>1. Are(<<>>, 0)
      BY DEF Are
    <3> QED BY <2>3, <2>4, <3>1
  <2>6. Holds(e, 4, b) /\ Holds(e, 6, w)
    <3>1. Holds(e, 4, b \o w)
      BY <1>3, <1>12, <2>1
    <3> QED BY <2>1, <2>5, <3>1, AfPart
  <2>7. e[5] = b[1] /\ e[6] = b[2]
    <3>1. DOMAIN b = 1 .. 2
      BY <2>1 DEF Are
    <3>2. e[4 + 1] = b[1] /\ e[4 + 2] = b[2]
      BY <2>6, <3>1 DEF Holds
    <3> QED BY <3>2
  <2> QED BY <2>2, <2>3, <2>6, <2>7
<1>14. u.pusi => Holds(e, 4 + FieldSize(u), PesHeaderBytesOf(u.load.pes))
  <2>1. four + fs = 4 + FieldSize(u)
    BY <1>3, <1>5
  <2> QED BY <1>12, <2>1, Zenon DEF P
<1>15. Are(e, 4 + FieldSize(u) + PesSize(u))
  BY <1>3, <1>5, <1>9, <1>11
<1>16. FieldSize(u) \in {0, 2, 8}
  BY DEF FieldSize
<1>17. HeadParts(u, e)
  BY <1>12, <1>13, <1>14, <1>15, Zenon DEF HeadParts, H
<1> QED BY <1>1, <1>6, <1>8, <1>16, <1>17, Zenon
-----------------------------------------------------------------------------
(* The packets of a frame, field by field.                                 *)
WithAf(f, first)   == first /\ (f.pid = PcrPid \/ f.ra)
FrameAfc(f, first) == IF WithAf(f, first) THEN mPayloadAdaptionBoth ELSE mPayloadOnly
FrameAf(f, first)  == IF ~WithAf(f, first) THEN NoAf ELSE IF f.pid = PcrPid THEN PcrAf(f) ELSE RaAf
FramePes(f, first) == IF first THEN PesOf(f) ELSE NoPes
PacketOf(f, first, cc, afc, af, run) ==
    [pid |-> f.pid, pusi |-> first, afc |-> afc, cc |-> cc, af |-> af,
     load |-> PesLoad(FramePes(f, first), run), bytes |-> kTsPacketSize_188]
ShapeOk(f) ==
    /\ f.pid \in EsPids /\ f.size \in Nat /\ f.pts \in Nat /\ f.dts \in Nat /\ f.pcr \in Nat
    /\ f.ra \in BOOLEAN
AfShape(af) == af = [len |-> af.len, disc |-> FALSE, ra |-> af.ra, pcr |-> af.pcr] /\ AfOk(af)

LEMMA ShapesOk ==
    ASSUME NEW f \in FrameShapes
    PROVE  ShapeOk(f)
<1>1. f \in Shape
  BY MuxerAssumption
<1> QED BY <1>1 DEF Shape, ShapeOk

LEMMA ShapePid ==
    ASSUME NEW f, ShapeOk(f)
    PROVE  f.pid \in Pids
<1>1. f.pid \in EsPids
  BY DEF ShapeOk
<1>2. EsPids \subseteq Pids
  BY ReservedNumbers, Zenon
<1> QED BY <1>1, <1>2, Zenon

LEMMA PacketFields ==
    ASSUME NEW f, NEW first, NEW cc, NEW afc, NEW af, NEW run,
           NEW p, p = PacketOf(f, first, cc, afc, af, run)
    PROVE  /\ p.pid = f.pid /\ p.pusi = first /\ p.afc = afc /\ p.cc = cc /\ p.af = af
           /\ p.load = PesLoad(FramePes(f, first), run) /\ p.bytes = 188
           /\ p.load.kind = "pes" /\ p.load.pes = FramePes(f, first) /\ p.load.run = run
           /\ p = [pid |-> p.pid, pusi |-> p.pusi, afc |-> p.afc, cc |-> p.cc, af |-> p.af,
                   load |-> PesLoad(FramePes(f, first), run), bytes |-> kTsPacketSize_188]
<1>1. PICK pid, load : pid = f.pid /\ load = PesLoad(FramePes(f, first), run)
  BY Zenon
<1>2. PICK a, b, c : a = first /\ b = afc /\ c = af
  BY Zenon
<1>3. p = [pid |-> pid, pusi |-> a, afc |-> b, cc |-> cc, af |-> c, load |-> load,
           bytes |-> kTsPacketSize_188]
  BY <1>1, <1>2, Zenon DEF PacketOf
<1>4. p.pid = pid /\ p.pusi = a /\ p.afc = b /\ p.cc = cc /\ p.af = c /\ p.load = load /\ p.bytes = 188
  BY <1>3, SMTT(30) DEF kTsPacketSize_188
<1>5. PICK pes : pes = FramePes(f, first)
  OBVIOUS
<1>6. load.kind = "pes" /\ load.pes = pes /\ load.run = run
  BY <1>1, <1>5 DEF PesLoad
<1>7. p = [pid |-> p.pid, pusi |-> p.pusi, afc |-> p.afc, cc |-> p.cc, af |-> p.af,
           load |-> load, bytes |-> kTsPacketSize_188]
  BY <1>3, <1>4, Zenon
<1> QED BY <1>1, <1>2, <1>4, <1>5, <1>6, <1>7, Zenon

LEMMA UnstuffedIs ==
    ASSUME NEW f, NEW frame, NEW first, NEW pos, NEW cc
    PROVE  Unstuffed(f, frame, first, pos, cc)
             = PacketOf(f, first, cc, FrameAfc(f, first), FrameAf(f, first), Run(frame, pos, 0))
BY Zenon DEF Unstuffed, PacketOf, FrameAfc, FrameAf, FramePes, WithAf

LEMMA PesLengthsBelow ==
    /\ 0 \in PesLengths
    /\ \A m \in PesLengths : m \in Nat /\ \A n \in Nat : n <= m => n \in PesLengths
<1>1. PICK top \in Nat : top = 65535
  OBVIOUS
<1>2. PesLengths = 0 .. top
  BY <1>1, SMTT(30) DEF PesLengths
<1> QED BY <1>2

LEMMA PesOfOk ==
    ASSUME NEW f, ShapeOk(f)
    PROVE  PesOk(PesOf(f))
<1>1. PICK pts \in Nat, dts \in Nat : pts = f.pts /\ dts = f.dts
  BY DEF ShapeOk
<1>2. PICK two, yes : two = (pts # dts) /\ yes = TRUE
  OBVIOUS
<1>3. PICK hdl \in Nat : hdl = IF pts # dts THEN 10 ELSE 5
  OBVIOUS
<1>4. PICK flags \in Nat : flags = IF pts # dts THEN 3 ELSE 2
  OBVIOUS
<1>5. PICK len \in PesLengths : len = IF hdl + f.size + 3 > MaxPesLength THEN 0 ELSE hdl + f.size + 3
  <2>1. f.size \in Nat
    BY DEF ShapeOk
  <2>2. PICK max : max = MaxPesLength /\ max \in PesLengths
    BY MuxerAssumption, Zenon
  <2>3. PICK total \in Nat : total = f.size
    BY <2>1
  <2>4. hdl + total + 3 \in Nat
    OBVIOUS
  <2>5. PICK sum \in Nat : sum = hdl + total + 3
    BY <2>4
  <2>6. (IF sum > max THEN 0 ELSE sum) \in PesLengths
    <3>1. CASE sum <= max
      BY <2>2, <3>1, PesLengthsBelow
    <3>2. CASE ~(sum <= max)
      <4>1. max \in Nat
        BY <2>2, PesLengthsBelow
      <4>2. sum > max
        BY <3>2, <4>1
      <4> QED BY <4>2, PesLengthsBelow
    <3> QED BY <3>1, <3>2, Zenon
  <2> QED BY <2>2, <2>3, <2>5, <2>6, Zenon
<1>6. PICK pes : pes = PesOf(f)
  OBVIOUS
<1>7. pes = [len |-> len, hdl |-> hdl, flags |-> flags, marker |-> yes, pts |-> pts, dts |-> dts]
  <2>1. (IF f.pts # f.dts THEN 2 * TimestampBytes ELSE TimestampBytes) = hdl
    BY <1>1, <1>3 DEF TimestampBytes
  <2>2. (IF f.pts # f.dts THEN 3 ELSE 2) = flags
    BY <1>1, <1>4
  <2>3. pes = [len |-> IF hdl + f.size + 3 > MaxPesLength THEN 0 ELSE hdl + f.size + 3, hdl |-> hdl,
               flags |-> flags, marker |-> TRUE, pts |-> f.pts, dts |-> f.dts]
    BY <1>6, <2>1, <2>2, Zenon DEF PesOf
  <2> QED BY <1>1, <1>2, <1>5, <2>3, Zenon
<1>8. pes.len = len /\ pes.hdl = hdl /\ pes.flags = flags /\ pes.pts = pts /\ pes.dts = dts
  BY <1>7, SMTT(30)
<1>9. \/ pes.flags = 3 /\ pes.hdl = 10
      \/ pes.flags = 2 /\ pes.hdl = 5 /\ pes.dts = pes.pts
  BY <1>3, <1>4, <1>8
<1>10. pes = [len |-> pes.len, hdl |-> pes.hdl, flags |-> pes.flags, marker |-> TRUE,
              pts |-> pes.pts, dts |-> pes.dts]
  BY <1>2, <1>7, <1>8, Zenon
<1> QED BY <1>6, <1>8, <1>9, <1>10, Zenon DEF PesOk

(* The field a frame asks for.                                             *)
Pcrs == Nat \cup {NoPcr}
AfFields(l, r, c) == [len |-> l, disc |-> FALSE, ra |-> r, pcr |-> c]

IsAf(af, l, r, c) == AfShape(af) /\ af.len = l /\ af.ra = r /\ af.pcr = c

LEMMA AfFieldsAre ==
    ASSUME NEW l \in AfLengths, NEW r \in BOOLEAN, NEW c \in Pcrs
    PROVE  IsAf(AfFields(l, r, c), l, r, c)
<1>0. PICK af : af = AfFields(l, r, c)
  OBVIOUS
<1>1. PICK s : s = r
  OBVIOUS
<1>2. PICK no : no = FALSE
  OBVIOUS
<1>3. af = [len |-> l, disc |-> no, ra |-> s, pcr |-> c]
  BY <1>0, <1>1, <1>2, Zenon DEF AfFields
<1>4. af.len = l /\ af.ra = s /\ af.pcr = c
  BY <1>3, SMTT(30)
<1>5. af = [len |-> af.len, disc |-> FALSE, ra |-> af.ra, pcr |-> af.pcr]
  BY <1>2, <1>3, <1>4, Zenon
<1>6. AfShape(af)
  BY <1>1, <1>4, <1>5, Zenon DEF AfShape, AfOk, Pcrs
<1> QED BY <1>0, <1>1, <1>4, <1>6, Zenon DEF IsAf

LEMMA FrameAfIs ==
    ASSUME NEW f, ShapeOk(f), NEW first
    PROVE  /\ AfShape(FrameAf(f, first))
           /\ WithAf(f, first) => FieldOk(FrameAf(f, first))
           /\ FrameAfc(f, first) \in {mPayloadOnly, mPayloadAdaptionBoth}
           /\ FrameAfc(f, first) = mPayloadAdaptionBoth <=> WithAf(f, first)
           /\ ~WithAf(f, first) => FrameAf(f, first) = NoAf
<1>1. PICK pcr \in Nat : pcr = f.pcr
  BY DEF ShapeOk
<1>2. PICK ra \in BOOLEAN : ra = f.ra
  BY Zenon DEF ShapeOk
<1>3. PICK yes \in BOOLEAN, no \in BOOLEAN : yes = TRUE /\ no = FALSE
  OBVIOUS
<1>4. PICK zero \in AfLengths, one \in AfLengths, seven \in AfLengths :
         zero = 0 /\ one = 1 /\ seven = 7
  BY DEF AfLengths
<1>5. PICK c \in Pcrs : c = NoPcr
  BY DEF Pcrs
<1>6. pcr \in Pcrs /\ pcr # NoPcr /\ 1 + PcrBytes = 7
  BY DEF NoPcr, PcrBytes, Pcrs
<1>7. NoAf = AfFields(zero, no, c) /\ RaAf = AfFields(one, yes, c) /\ PcrAf(f) = AfFields(seven, ra, pcr)
  BY <1>1, <1>2, <1>3, <1>4, <1>5, <1>6, Zenon DEF NoAf, RaAf, PcrAf, AfFields
<1>8. IsAf(NoAf, zero, no, c) /\ IsAf(RaAf, one, yes, c) /\ IsAf(PcrAf(f), seven, ra, pcr)
  BY <1>6, <1>7, AfFieldsAre
<1>9. RaAf.len = one /\ RaAf.pcr = c /\ PcrAf(f).len = seven /\ PcrAf(f).pcr = pcr
  BY <1>8, Zenon DEF IsAf
<1>10. AfShape(NoAf) /\ AfShape(RaAf) /\ AfShape(PcrAf(f))
  BY <1>8, Zenon DEF IsAf
<1>11. AfOk(RaAf) /\ AfOk(PcrAf(f))
  BY <1>10, Zenon DEF AfShape
<1>12. FieldOk(RaAf) /\ FieldOk(PcrAf(f))
  BY <1>4, <1>5, <1>6, <1>9, <1>11 DEF FieldOk
<1> QED BY <1>10, <1>12, Afcs13, Zenon DEF FrameAf, FrameAfc

LEMMA ClockOnItsPid ==
    ASSUME NEW f, NEW first, FrameAf(f, first).pcr # NoPcr
    PROVE  f.pid = PcrPid
<1>1. NoAf.pcr = NoPcr /\ RaAf.pcr = NoPcr
  BY DEF NoAf, RaAf
<1> QED BY <1>1, Zenon DEF FrameAf
-----------------------------------------------------------------------------
(* What filling and stuffing a packet of a frame make of it.               *)
LEMMA FilledIs ==
    ASSUME NEW f, NEW first, NEW cc, NEW afc, NEW af, NEW frame, NEW pos, NEW m, NEW len
    PROVE  Filled(PacketOf(f, first, cc, afc, af, Run(frame, pos, m)), len)
             = PacketOf(f, first, cc, afc, af, Run(frame, pos, len))
<1>1. PICK pid : pid = f.pid
  OBVIOUS
<1>2. PICK pes : pes = FramePes(f, first)
  OBVIOUS
<1>3. PICK a : a = first
  OBVIOUS
<1> DEFINE load(l) == [kind |-> "pes", pes |-> pes, run |-> [frame |-> frame, from |-> pos, len |-> l]]
           packet(l) == [pid |-> pid, pusi |-> a, afc |-> afc, cc |-> cc, af |-> af, load |-> l,
                         bytes |-> kTsPacketSize_188]
<1>4. \A l : PacketOf(f, first, cc, afc, af, Run(frame, pos, l)) = packet(load(l))
  BY <1>1, <1>2, <1>3, Zenon DEF PacketOf, PesLoad, Run
<1>5. [load(m) EXCEPT !.run.len = len] = load(len)
  BY SMTT(30)
<1> HIDE DEF load
<1>6. [packet(load(m)) EXCEPT !.load.run.len = len]
        = packet([load(m) EXCEPT !.run.len = len])
  BY SMTT(30)
<1> QED BY <1>4, <1>5, <1>6, Zenon DEF Filled

GetsLonger(f, first, cc, l, r, c, run, k) ==
    Stuffed(PacketOf(f, first, cc, mPayloadAdaptionBoth, AfFields(l, r, c), run), k)
      = PacketOf(f, first, cc, mPayloadAdaptionBoth, AfFields(l + k, r, c), run)
GetsField(f, first, cc, run, k) ==
    Stuffed(PacketOf(f, first, cc, mPayloadOnly, NoAf, run), k)
      = PacketOf(f, first, cc, mPayloadAdaptionBoth, AfFields(k - 1, FALSE, NoPcr), run)

LEMMA StuffedIs ==
    ASSUME NEW f, NEW first, NEW cc, NEW l, NEW r, NEW c, NEW run, NEW k
    PROVE  GetsLonger(f, first, cc, l, r, c, run, k) /\ GetsField(f, first, cc, run, k)
<1>1. PICK pid : pid = f.pid
  OBVIOUS
<1>2. PICK load : load = PesLoad(FramePes(f, first), run)
  OBVIOUS
<1>3. PICK a : a = first
  OBVIOUS
<1>4. PICK s : s = r
  OBVIOUS
<1>5. PICK no : no = FALSE
  OBVIOUS
<1> DEFINE packet(afc, af) == [pid |-> pid, pusi |-> a, afc |-> afc, cc |-> cc, af |-> af, load |-> load,
                               bytes |-> kTsPacketSize_188]
           field(i) == [len |-> i, disc |-> no, ra |-> s, pcr |-> c]
<1>6. \A afc, af : PacketOf(f, first, cc, afc, af, run) = packet(afc, af)
  BY <1>1, <1>2, <1>3, Zenon DEF PacketOf
<1>7. \A i : AfFields(i, r, c) = field(i)
  BY <1>4, <1>5, Zenon DEF AfFields
<1>8. \A afc, af : packet(afc, af).afc = afc
  BY SMTT(30)
<1>9. Stuffed(packet(mPayloadAdaptionBoth, field(l)), k) = packet(mPayloadAdaptionBoth, field(l + k))
  <2>1. PICK both : both = mPayloadAdaptionBoth
    OBVIOUS
  <2>2. Stuffed(packet(both, field(l)), k) = [packet(both, field(l)) EXCEPT !.af.len = @ + k]
    BY <1>8, <2>1, Afcs13, Zenon DEF Stuffed
  <2>3. [packet(both, field(l)) EXCEPT !.af.len = @ + k] = packet(both, field(l + k))
    BY SMTT(30)
  <2> QED BY <2>1, <2>2, <2>3, Zenon
<1>10. Stuffed(packet(mPayloadOnly, NoAf), k) = packet(mPayloadAdaptionBoth, StuffingAf(k))
  <2>1. PICK only, both, af, new : only = mPayloadOnly /\ both = mPayloadAdaptionBoth /\ af = NoAf
                                   /\ new = StuffingAf(k)
    BY Zenon
  <2>2. Stuffed(packet(only, af), k) = [packet(only, af) EXCEPT !.afc = both, !.af = new]
    BY <1>8, <2>1, Afcs13, Zenon DEF Stuffed
  <2>3. [packet(only, af) EXCEPT !.afc = both, !.af = new] = packet(both, new)
    <3>1. [packet(only, af) EXCEPT !.afc = both] = packet(both, af)
      BY SMTT(30)
    <3>2. [packet(both, af) EXCEPT !.af = new] = packet(both, new)
      BY SMTT(30)
    <3> HIDE DEF packet
    <3> QED BY <3>1, <3>2, Zenon
  <2> QED BY <2>1, <2>2, <2>3, Zenon
<1>11. StuffingAf(k) = AfFields(k - 1, FALSE, NoPcr)
  BY Zenon DEF StuffingAf, AfFields
<1> HIDE DEF packet, field
<1> QED BY <1>6, <1>7, <1>9, <1>10, <1>11, Zenon DEF GetsLonger, GetsField

(* Where the data of a packet begins before it is stuffed.                 *)
HeadLen(f, first) ==
    4 + (IF WithAf(f, first) THEN 1 + FrameAf(f, first).len ELSE 0)
      + (IF first THEN 9 + PesOf(f).hdl ELSE 0)
HeadOf(f, first, cc, run) == PacketOf(f, first, cc, FrameAfc(f, first), FrameAf(f, first), run)

LEMMA HeadOfIs ==
    ASSUME NEW f, ShapeOk(f), NEW first \in BOOLEAN, NEW cc \in Cc, NEW run,
           NEW u, u = HeadOf(f, first, cc, run)
    PROVE  /\ HeadOk(u) /\ (HasBoth(u) <=> WithAf(f, first))
           /\ u.pid = f.pid /\ u.pusi = first /\ u.cc = cc /\ u.af = FrameAf(f, first)
           /\ u.afc = FrameAfc(f, first) /\ u.load.pes = FramePes(f, first)
           /\ DataStart(u) = HeadLen(f, first)
           /\ 4 + FieldSize(u) + PesSize(u) = HeadLen(f, first)
           /\ PesSize(u) = IF first THEN 9 + PesOf(f).hdl ELSE 0
           /\ HeadLen(f, first) \in 4 .. 31
<1>1. /\ u.pid = f.pid /\ u.pusi = first /\ u.afc = FrameAfc(f, first) /\ u.cc = cc
      /\ u.af = FrameAf(f, first) /\ u.load.pes = FramePes(f, first)
  BY PacketFields DEF HeadOf
<1>2. HasBoth(u) <=> WithAf(f, first)
  BY <1>1, FrameAfIs, Zenon DEF HasBoth
<1>3. HeaderOk(u)
  <2>1. f.pid \in Pids
    BY ShapePid, Zenon
  <2>2. u.afc \in Afcs
    BY <1>1, FrameAfIs, SMTT(30) DEF mPayloadOnly, mPayloadAdaptionBoth, Afcs
  <2> QED BY <1>1, <2>1, <2>2, Zenon DEF HeaderOk
<1>4. u.afc = mPayloadOnly \/ (HasBoth(u) /\ FieldOk(u.af))
  BY <1>1, <1>2, FrameAfIs, Zenon
<1>5. first => u.load.pes = PesOf(f) /\ PesOk(PesOf(f))
  BY <1>1, PesOfOk, Zenon DEF FramePes
<1>6. HeadOk(u)
  BY <1>1, <1>3, <1>4, <1>5, Zenon DEF HeadOk
<1>7. /\ FieldSize(u) \in {0, 2, 8} /\ PesSize(u) \in {0, 14, 19}
      /\ HasBoth(u) => FieldSize(u) = 1 + u.af.len
  BY <1>6, HeadIs
<1>8. ~HasBoth(u) => FieldSize(u) = 0
  BY DEF FieldSize
<1>9. PesSize(u) = IF first THEN 9 + PesOf(f).hdl ELSE 0
  BY <1>1, <1>5, Zenon DEF PesSize
<1>10. DataStart(u) = 4 + (IF HasBoth(u) THEN 1 + u.af.len ELSE 0) + PesSize(u)
  <2>1. hasAdaptationField(u.afc) <=> HasBoth(u)
    BY <1>4, Afcs13, Zenon DEF HasBoth
  <2>2. AfBytes(u) = IF HasBoth(u) THEN 1 + u.af.len ELSE 0
    BY <2>1, Zenon DEF AfBytes
  <2>3. PesBytes(u) = PesSize(u)
    BY Zenon DEF PesBytes, PesSize, PesHeaderBytes
  <2> QED BY <2>2, <2>3, Zenon DEF DataStart, TsHeaderBytes
<1>11. HeadLen(f, first) = 4 + (IF HasBoth(u) THEN 1 + u.af.len ELSE 0) + PesSize(u)
  BY <1>1, <1>2, <1>9, Zenon DEF HeadLen
<1>12. 4 + FieldSize(u) + PesSize(u) = HeadLen(f, first)
  <2>1. FieldSize(u) = IF HasBoth(u) THEN 1 + u.af.len ELSE 0
    BY <1>7, <1>8
  <2> QED BY <1>11, <2>1, Zenon
<1>13. HeadLen(f, first) \in 4 .. 31
  BY <1>7, <1>12
<1> QED BY <1>1, <1>2, <1>6, <1>9, <1>10, <1>11, <1>12, <1>13, Zenon

StuffedField(f, first, k) ==
    IF WithAf(f, first) THEN AfFields(FrameAf(f, first).len + k, FrameAf(f, first).ra, FrameAf(f, first).pcr)
                        ELSE AfFields(k - 1, FALSE, NoPcr)

FullPackets(f, frame, first, pos, cc) ==
    \A len \in Nat : HeadLen(f, first) + len = 188 /\ len <= f.size - pos =>
        PesPacket(f, frame, first, pos, cc) = HeadOf(f, first, cc, Run(frame, pos, len))
ShortPackets(f, frame, first, pos, cc) ==
    \A k \in Nat \ {0} : \A in \in Nat : in = f.size - pos /\ HeadLen(f, first) + k + in = 188 =>
        PesPacket(f, frame, first, pos, cc)
          = PacketOf(f, first, cc, mPayloadAdaptionBoth, StuffedField(f, first, k), Run(frame, pos, in))

LEMMA PesPacketIs ==
    ASSUME NEW f, ShapeOk(f), NEW frame, NEW first \in BOOLEAN, NEW pos \in Nat, pos < f.size, NEW cc \in Cc
    PROVE  FullPackets(f, frame, first, pos, cc) /\ ShortPackets(f, frame, first, pos, cc)
<1>a. PICK zero : zero = 0
  OBVIOUS
<1>b. PICK run : run = Run(frame, pos, zero)
  OBVIOUS
<1>1. PICK h : h = HeadOf(f, first, cc, run)
  OBVIOUS
<1>2. Unstuffed(f, frame, first, pos, cc) = h
  BY <1>a, <1>b, <1>1, UnstuffedIs, Zenon DEF HeadOf
<1>3. PICK n \in 4 .. 31 : n = HeadLen(f, first)
  BY <1>1, HeadOfIs
<1>4. BodySize(h) = 188 - n
  BY <1>1, <1>3, HeadOfIs DEF BodySize, kTsPacketSize_188
<1>5. PICK left \in Nat : left = f.size - pos
  BY DEF ShapeOk
<1>6. PesPacket(f, frame, first, pos, cc)
        = IF BodySize(h) <= left THEN Filled(h, BodySize(h)) ELSE Filled(Stuffed(h, BodySize(h) - left), left)
  BY <1>2, <1>5, Zenon DEF PesPacket
<1>7. PICK p : p = PesPacket(f, frame, first, pos, cc)
  OBVIOUS
<1>8. ASSUME NEW len \in Nat, n + len = 188, len <= left
      PROVE  p = HeadOf(f, first, cc, Run(frame, pos, len))
  <2>1. BodySize(h) = len
    BY <1>4, <1>8
  <2>2. p = Filled(h, len)
    BY <1>6, <1>7, <1>8, <2>1, Zenon
  <2>3. PICK afc, af : afc = FrameAfc(f, first) /\ af = FrameAf(f, first)
    BY Zenon
  <2>4. h = PacketOf(f, first, cc, afc, af, Run(frame, pos, zero))
    BY <1>b, <1>1, <2>3, Zenon DEF HeadOf
  <2>5. p = PacketOf(f, first, cc, afc, af, Run(frame, pos, len))
    BY <2>2, <2>4, FilledIs
  <2> QED BY <2>3, <2>5, Zenon DEF HeadOf
<1>9. ASSUME NEW k \in Nat \ {0}, n + k + left = 188
      PROVE  p = PacketOf(f, first, cc, mPayloadAdaptionBoth, StuffedField(f, first, k), Run(frame, pos, left))
  <2>1. BodySize(h) - left = k /\ ~(BodySize(h) <= left)
    BY <1>4, <1>9
  <2>2. p = Filled(Stuffed(h, k), left)
    BY <1>6, <1>7, <2>1, Zenon
  <2>3. Stuffed(h, k) = PacketOf(f, first, cc, mPayloadAdaptionBoth, StuffedField(f, first, k), run)
    <3>1. CASE WithAf(f, first)
      <4>1. PICK l \in AfLengths, r \in BOOLEAN, c \in Nat \cup {NoPcr} :
               FrameAf(f, first) = AfFields(l, r, c) /\ l = FrameAf(f, first).len
               /\ r = FrameAf(f, first).ra /\ c = FrameAf(f, first).pcr
        BY FrameAfIs, ZenonT(40) DEF AfShape, AfOk, AfFields
      <4>2. h = PacketOf(f, first, cc, mPayloadAdaptionBoth, AfFields(l, r, c), run)
        BY <1>1, <3>1, <4>1, FrameAfIs, Zenon DEF HeadOf
      <4>3. Stuffed(h, k) = PacketOf(f, first, cc, mPayloadAdaptionBoth, AfFields(l + k, r, c), run)
        <5>1. GetsLonger(f, first, cc, l, r, c, run, k)
          BY StuffedIs
        <5> QED BY <4>2, <5>1, Zenon DEF GetsLonger
      <4> QED BY <3>1, <4>1, <4>3, Zenon DEF StuffedField
    <3>2. CASE ~WithAf(f, first)
      <4>1. h = PacketOf(f, first, cc, mPayloadOnly, NoAf, run)
        BY <1>1, <3>2, FrameAfIs, Zenon DEF HeadOf, FrameAfc
      <4>3. Stuffed(h, k) = PacketOf(f, first, cc, mPayloadAdaptionBoth, AfFields(k - 1, FALSE, NoPcr), run)
        <5>1. GetsField(f, first, cc, run, k)
          BY StuffedIs
        <5> QED BY <4>1, <5>1, Zenon DEF GetsField
      <4> QED BY <3>2, <4>3, Zenon DEF StuffedField
    <3> QED BY <3>1, <3>2
  <2>4. PICK afc, af : afc = mPayloadAdaptionBoth /\ af = StuffedField(f, first, k)
    BY Zenon
  <2>5. Stuffed(h, k) = PacketOf(f, first, cc, afc, af, Run(frame, pos, zero))
    BY <1>b, <2>3, <2>4, Zenon
  <2>6. p = PacketOf(f, first, cc, afc, af, Run(frame, pos, left))
    BY <2>2, <2>5, FilledIs
  <2> QED BY <2>4, <2>6, Zenon
<1>10. FullPackets(f, frame, first, pos, cc)
  BY <1>3, <1>5, <1>7, <1>8 DEF FullPackets
<1>11. ShortPackets(f, frame, first, pos, cc)
  BY <1>3, <1>5, <1>7, <1>9 DEF ShortPackets
<1> QED BY <1>10, <1>11

IsShort(f, first, pos, k, in) == in = f.size - pos /\ HeadLen(f, first) + k + in = 188
ShortPacket(f, frame, first, pos, cc, k, in) ==
    PesPacket(f, frame, first, pos, cc)
      = PacketOf(f, first, cc, mPayloadAdaptionBoth, StuffedField(f, first, k), Run(frame, pos, in))

LEMMA PesPacketIsShort ==
    ASSUME NEW f, ShapeOk(f), NEW frame, NEW first \in BOOLEAN, NEW pos \in Nat, pos < f.size, NEW cc \in Cc,
           NEW k \in Nat \ {0}, NEW in \in Nat, IsShort(f, first, pos, k, in)
    PROVE  ShortPacket(f, frame, first, pos, cc, k, in)
<1>0. PICK all : all = 188
  OBVIOUS
<1>1. in = f.size - pos /\ HeadLen(f, first) + k + in = all
  BY <1>0 DEF IsShort
<1>2. \A j \in Nat \ {0} : \A i \in Nat : i = f.size - pos /\ HeadLen(f, first) + j + i = all =>
         PesPacket(f, frame, first, pos, cc)
           = PacketOf(f, first, cc, mPayloadAdaptionBoth, StuffedField(f, first, j), Run(frame, pos, i))
  <2>1. ShortPackets(f, frame, first, pos, cc)
    BY PesPacketIs
  <2> QED BY <1>0, <2>1 DEF ShortPackets
<1> QED BY <1>1, <1>2, Zenon DEF ShortPacket
-----------------------------------------------------------------------------
(* What is right of the bytes d of a packet q of a frame.                  *)
FrameRight(q, d) ==
    /\ Seen(d, q.load) = Timed(q)
    /\ SubSeq(d, Len(d) - q.load.run.len + 1, Len(d)) = Data(q.load.run.from, q.load.run.len)
FieldEnd(afc, af) == 4 + IF afc = mPayloadAdaptionBoth THEN 1 + af.len ELSE 0

LEMMA PacketIsFramePacket ==
    ASSUME NEW f, ShapeOk(f), NEW first \in BOOLEAN, NEW cc \in Cc,
           NEW afc \in {mPayloadOnly, mPayloadAdaptionBoth}, NEW af, AfShape(af),
           NEW frame, NEW pos \in Nat, NEW len \in Nat,
           FieldEnd(afc, af) + (IF first THEN 9 + PesOf(f).hdl ELSE 0) + len = 188,
           NEW q, q = PacketOf(f, first, cc, afc, af, Run(frame, pos, len))
    PROVE  /\ FramePacket(q, FramePes(f, first), frame, pos, len)
           /\ PesStart(q) = FieldEnd(afc, af)
           /\ q.af = af /\ q.pusi = first /\ q.load.run = Run(frame, pos, len)
<1>1. PICK run : run = Run(frame, pos, len)
  OBVIOUS
<1>2. q = PacketOf(f, first, cc, afc, af, run)
  BY <1>1, Zenon
<1>3. /\ q.pid = f.pid /\ q.pusi = first /\ q.afc = afc /\ q.cc = cc /\ q.af = af /\ q.load.run = run
      /\ q = [pid |-> q.pid, pusi |-> q.pusi, afc |-> q.afc, cc |-> q.cc, af |-> q.af,
              load |-> PesLoad(FramePes(f, first), run), bytes |-> kTsPacketSize_188]
  BY <1>2, PacketFields
<1>4. HeaderOk(q)
  <2>1. f.pid \in Pids
    BY ShapePid
  <2>2. afc \in Afcs
    BY SMTT(30) DEF mPayloadOnly, mPayloadAdaptionBoth, Afcs
  <2> QED BY <1>3, <2>1, <2>2, Zenon DEF HeaderOk
<1>5. hasPayload(q.afc) /\ (hasAdaptationField(q.afc) <=> afc = mPayloadAdaptionBoth)
  <2>1. q.afc = afc
    BY <1>3, Zenon
  <2>2. CASE afc = mPayloadOnly
    BY <2>1, <2>2, Afcs13, Zenon
  <2>3. CASE afc = mPayloadAdaptionBoth
    BY <2>1, <2>3, Afcs13, Zenon
  <2> QED BY <2>2, <2>3, Zenon
<1>6. PesStart(q) = FieldEnd(afc, af)
  BY <1>3, <1>5, Zenon DEF PesStart, FieldEnd
<1>7. af = [len |-> af.len, disc |-> FALSE, ra |-> af.ra, pcr |-> af.pcr] /\ af.len \in AfLengths
  BY Zenon DEF AfShape, AfOk
<1>8. FrameFields(q, FramePes(f, first), run)
  BY <1>3, <1>4, <1>5, <1>7, Zenon DEF FrameFields
<1>9. FrameSizes(q, FramePes(f, first), len)
  <2>1. CASE first
    <3>1. FramePes(f, first) = PesOf(f) /\ PesOk(PesOf(f))
      BY <2>1, PesOfOk, Zenon DEF FramePes
    <3>2. PICK hdl \in Nat : hdl = PesOf(f).hdl
      <4>1. PesOf(f).hdl = 5 \/ PesOf(f).hdl = 10
        BY <3>1, Zenon DEF PesOk
      <4> QED BY <4>1
    <3>3. FieldEnd(afc, af) \in Nat
      BY <1>7 DEF FieldEnd, AfLengths
    <3>4. PesStart(q) + 9 + hdl + len = 188
      BY <1>6, <2>1, <3>2, <3>3
    <3> QED BY <1>3, <2>1, <3>1, <3>2, <3>4, Zenon DEF FrameSizes
  <2>2. CASE ~first
    <3>1. FramePes(f, first) = NoPes
      BY <2>2, Zenon DEF FramePes
    <3>2. FieldEnd(afc, af) \in Nat
      BY <1>7 DEF FieldEnd, AfLengths
    <3>3. PesStart(q) + len = 188
      BY <1>6, <2>2, <3>2
    <3> QED BY <1>3, <2>2, <3>1, <3>3, Zenon DEF FrameSizes
  <2> QED BY <2>1, <2>2
<1> QED BY <1>1, <1>3, <1>6, <1>8, <1>9, Zenon DEF FramePacket

LEMMA PacketRight ==
    ASSUME NEW f, ShapeOk(f), NEW first \in BOOLEAN, NEW cc \in Cc,
           NEW afc \in {mPayloadOnly, mPayloadAdaptionBoth}, NEW af, AfShape(af),
           NEW frame, NEW pos \in Nat, NEW len \in Nat \ {0},
           FieldEnd(afc, af) + (IF first THEN 9 + PesOf(f).hdl ELSE 0) + len = 188,
           NEW q, q = PacketOf(f, first, cc, afc, af, Run(frame, pos, len)),
           NEW d, Are(d, 188), Holds(d, 0, HeaderBytesOf(q)), AfIn(q, d) = AfTimes(af),
           first => Holds(d, FieldEnd(afc, af), PesHeaderBytesOf(PesOf(f))),
           NEW m \in Nat, m + len = 188, Holds(d, m, Data(pos, len))
    PROVE  FrameRight(q, d)
<1>1. /\ FramePacket(q, FramePes(f, first), frame, pos, len)
      /\ PesStart(q) = FieldEnd(afc, af)
      /\ q.af = af /\ q.pusi = first /\ q.load.run = Run(frame, pos, len)
  BY PacketIsFramePacket
<1>2. q.pusi => Holds(d, PesStart(q), PesHeaderBytesOf(FramePes(f, first)))
  BY <1>1, Zenon DEF FramePes
<1>3. AfIn(q, d) = AfTimes(q.af)
  BY <1>1, Zenon
<1>4. Seen(d, q.load) = Timed(q)
  BY <1>1, <1>2, <1>3, FrameSeen
<1>5. PICK s : s = Data(pos, len)
  OBVIOUS
<1>6. s \in Seq(SUBSET Int) /\ Len(s) = len
  BY <1>5, DataAre DEF Are
<1>7. SubSeq(d, m + 1, m + Len(s)) = s
  <2>1. d \in Seq(SUBSET Int) /\ Len(d) = 188 /\ Holds(d, m, s) /\ m + Len(s) <= Len(d)
    BY <1>5, <1>6 DEF Are
  <2> QED BY <1>6, <2>1, CutOut, ZenonT(40)
<1>8. q.load.run.from = pos /\ q.load.run.len = len
  <2>1. Run(frame, pos, len).from = pos /\ Run(frame, pos, len).len = len
    BY DEF Run
  <2> QED BY <1>1, <2>1, Zenon
<1>9. Len(d) - len + 1 = m + 1 /\ Len(d) = m + Len(s)
  BY <1>6 DEF Are
<1> QED BY <1>4, <1>5, <1>7, <1>8, <1>9, Zenon DEF FrameRight

Within(s, m, r, e, n) == Are(e, n) /\ Are(s, m) /\ Holds(e, r, s) /\ r + m <= n

LEMMA HoldsIn ==
    ASSUME NEW d, NEW e, NEW s, NEW n \in Nat, NEW m \in Nat, NEW r \in Nat,
           Within(s, m, r, e, n), Holds(d, 0, e)
    PROVE  Holds(d, r, s)
<1>1. DOMAIN e = 1 .. n /\ DOMAIN s = 1 .. m
  BY DEF Within, Are
<1>2. ASSUME NEW i \in 1 .. m PROVE d[r + i] = s[i]
  <2>1. r + i \in 1 .. n /\ 0 + (r + i) = r + i
    BY DEF Within
  <2>2. d[0 + (r + i)] = e[r + i]
    BY <1>1, <2>1 DEF Holds
  <2>3. e[r + i] = s[i]
    BY <1>1, <1>2 DEF Within, Holds
  <2> QED BY <2>1, <2>2, <2>3
<1> QED BY <1>1, <1>2 DEF Holds

(* A field of length 0 is nothing.                                         *)
LEMMA EmptyFieldSeen ==
    ASSUME NEW d, d[5] = {}, NEW pid
    PROVE  SeenAf(d, pid) = AfTimes(AfFields(0, FALSE, NoPcr))
<1>1. AdaptationFieldHeader_decode(d, TsHeaderBytes) = NoAdaptationField
  <2>1. TsHeaderBytes + 1 = 5
    BY DEF TsHeaderBytes
  <2> QED BY <2>1, Zenon DEF AdaptationFieldHeader_decode
<1>2. PICK none : none = {}
  OBVIOUS
<1>3. Num({}) = 0
  <2>1. Num(Bin(0)) = 0
    BY NumBin, SMTT(30)
  <2> QED BY <2>1, BinIs
<1>4. PICK a : a = NoAdaptationField
  OBVIOUS
<1>5. /\ a.mAdaptationFieldLength = none /\ a.mDiscontinuityIndicator = none
      /\ a.mRandomAccessIndicator = none /\ a.mPcrFlag = none
  BY <1>2, <1>4 DEF NoAdaptationField
<1>6. SeenAf(d, pid) = [len |-> 0, disc |-> FALSE, ra |-> FALSE, pcr |-> {}]
  BY <1>1, <1>2, <1>3, <1>4, <1>5, Zenon DEF SeenAf
<1>7. PICK no, c : no = FALSE /\ c = NoPcr
  BY Zenon
<1>8. PICK af : af = [len |-> 0, disc |-> no, ra |-> no, pcr |-> c]
  OBVIOUS
<1>9. AfFields(0, FALSE, NoPcr) = af
  BY <1>7, <1>8, Zenon DEF AfFields
<1>10. af.len = 0 /\ af.ra = no /\ af.pcr = c
  BY <1>8, SMTT(30)
<1> QED BY <1>6, <1>7, <1>9, <1>10, Zenon DEF AfTimes
-----------------------------------------------------------------------------
(* The head of a packet of a frame as it lies in the buffer.               *)
FieldLaid(af, d) ==
    /\ d[5] = Bin(af.len) /\ d[6] = AfFlagsOf(af)
    /\ af.pcr # NoPcr => Holds(d, 6, writePcr(Bin(af.pcr)))
HeadLaid(f, first, u, e, n, fs, ps) ==
    /\ Are(e, n) /\ n = 4 + fs + ps
    /\ Are(HeaderBytesOf(u), 4) /\ Holds(e, 0, HeaderBytesOf(u))
    /\ FieldEnd(FrameAfc(f, first), FrameAf(f, first)) = 4 + fs
    /\ IF WithAf(f, first) THEN /\ fs = 1 + FrameAf(f, first).len
                                /\ FieldOk(FrameAf(f, first)) /\ FieldLaid(FrameAf(f, first), e)
                           ELSE fs = 0
    /\ ps = IF first THEN 9 + PesOf(f).hdl ELSE 0
    /\ first => Are(PesHeaderBytesOf(PesOf(f)), ps) /\ Holds(e, 4 + fs, PesHeaderBytesOf(PesOf(f)))

LEMMA HeadIsLaid ==
    ASSUME NEW f, ShapeOk(f), NEW first \in BOOLEAN, NEW cc \in Cc, NEW run,
           NEW u, u = HeadOf(f, first, cc, run)
    PROVE  \E n, fs, ps \in Nat :
              /\ n = HeadLen(f, first) /\ n <= 31 /\ HeadLaid(f, first, u, PesHead(u), n, fs, ps)
<1>1. /\ HeadOk(u) /\ (HasBoth(u) <=> WithAf(f, first))
      /\ u.pusi = first /\ u.af = FrameAf(f, first)
      /\ u.afc = FrameAfc(f, first) /\ u.load.pes = FramePes(f, first)
      /\ 4 + FieldSize(u) + PesSize(u) = HeadLen(f, first)
      /\ PesSize(u) = IF first THEN 9 + PesOf(f).hdl ELSE 0
      /\ HeadLen(f, first) \in 4 .. 31
  BY HeadOfIs
<1>2. /\ HeadParts(u, PesHead(u))
      /\ FieldSize(u) \in {0, 2, 8} /\ PesSize(u) \in {0, 14, 19}
      /\ HasBoth(u) => FieldSize(u) = 1 + u.af.len
  BY <1>1, HeadIs
<1>3. PICK fs \in Nat : fs = FieldSize(u)
  BY <1>2
<1>4. PICK ps \in Nat : ps = PesSize(u)
  BY <1>2
<1>5. PICK n \in Nat : n = HeadLen(f, first) /\ n <= 31
  BY <1>1
<1>6. n = 4 + fs + ps
  BY <1>1, <1>3, <1>4, <1>5, Zenon
<1>7. PICK e : e = PesHead(u)
  OBVIOUS
<1>8. /\ Are(e, n) /\ Holds(e, 0, HeaderBytesOf(u))
      /\ HasBoth(u) => FieldLaid(u.af, e)
      /\ first => Holds(e, 4 + fs, PesHeaderBytesOf(FramePes(f, first)))
  BY <1>1, <1>2, <1>3, <1>4, <1>6, <1>7, Zenon DEF HeadParts, FieldLaid
<1>9. Are(HeaderBytesOf(u), 4)
  BY <1>1, HeaderSeen, Zenon DEF HeadOk
<1>10. IF WithAf(f, first) THEN /\ fs = 1 + FrameAf(f, first).len
                                /\ FieldOk(FrameAf(f, first)) /\ FieldLaid(FrameAf(f, first), e)
                           ELSE fs = 0
  <2>1. ~HasBoth(u) => fs = 0
    BY <1>3, Zenon DEF FieldSize
  <2>2. WithAf(f, first) => FieldOk(FrameAf(f, first))
    BY FrameAfIs, Zenon
  <2> QED BY <1>1, <1>2, <1>3, <1>8, <2>1, <2>2, Zenon
<1>11. FieldEnd(FrameAfc(f, first), FrameAf(f, first)) = 4 + fs
  <2>1. FrameAfc(f, first) = mPayloadAdaptionBoth <=> WithAf(f, first)
    BY FrameAfIs, Zenon
  <2>2. (IF FrameAfc(f, first) = mPayloadAdaptionBoth THEN 1 + FrameAf(f, first).len ELSE 0) = fs
    BY <1>10, <2>1, Zenon
  <2> QED BY <2>2, Zenon DEF FieldEnd
<1>12. first => Are(PesHeaderBytesOf(PesOf(f)), ps) /\ Holds(e, 4 + fs, PesHeaderBytesOf(PesOf(f)))
  <2>1. first => Are(PesHeaderBytesOf(PesOf(f)), 9 + PesOf(f).hdl)
    BY PesOfOk, PesHeaderSeen, Zenon
  <2> QED BY <1>1, <1>4, <1>8, <2>1, Zenon DEF FramePes
<1>13. HeadLaid(f, first, u, e, n, fs, ps)
  BY <1>1, <1>4, <1>6, <1>8, <1>9, <1>10, <1>11, <1>12, Zenon DEF HeadLaid
<1> QED BY <1>5, <1>7, <1>13

LEMMA SameHeader ==
    ASSUME NEW p, NEW q, p.pid = q.pid, p.pusi = q.pusi, p.afc = q.afc, p.cc = q.cc
    PROVE  HeaderBytesOf(p) = HeaderBytesOf(q)
BY Zenon DEF HeaderBytesOf

LEMMA FieldSeen ==
    ASSUME NEW af, AfOk(af), af.len # 0, NEW d, FieldLaid(af, d), NEW q, q.afc = mPayloadAdaptionBoth,
           af.pcr # NoPcr => q.pid = PcrPid
    PROVE  AfIn(q, d) = AfTimes(af)
<1>1. SeenAf(d, q.pid) = AfTimes(af)
  BY AfSeen, Zenon DEF FieldLaid
<1> QED BY <1>1, Afcs13, Zenon DEF AfIn

(* A packet that needs no stuffing.                                        *)
LEMMA FullRight ==
    ASSUME NEW f, ShapeOk(f), NEW frame, NEW first \in BOOLEAN, NEW cc \in Cc, NEW pos \in Nat,
           NEW in \in Nat, NEW len \in Nat \ {0}, HeadLen(f, first) + len = 188, len <= in, NEW run,
           NEW q, q = HeadOf(f, first, cc, Run(frame, pos, len)),
           NEW u, u = HeadOf(f, first, cc, run), NEW d, d = PesBody(PesHead(u), pos, in)
    PROVE  FrameRight(q, d)
<1>1. PICK n \in Nat, fs \in Nat, ps \in Nat :
         n = HeadLen(f, first) /\ n <= 31 /\ HeadLaid(f, first, u, PesHead(u), n, fs, ps)
  BY HeadIsLaid
<1>2. PICK e : e = PesHead(u)
  OBVIOUS
<1>a. HeadLaid(f, first, u, e, n, fs, ps) /\ n + len = 188
  BY <1>1, <1>2, Zenon
<1>b. Are(e, n) /\ Are(HeaderBytesOf(u), 4) /\ Holds(e, 0, HeaderBytesOf(u)) /\ n = 4 + fs + ps
  BY <1>a, Zenon DEF HeadLaid
<1>3. /\ FieldEnd(FrameAfc(f, first), FrameAf(f, first)) = 4 + fs
      /\ WithAf(f, first) => /\ fs = 1 + FrameAf(f, first).len
                             /\ FieldOk(FrameAf(f, first)) /\ FieldLaid(FrameAf(f, first), e)
      /\ ps = IF first THEN 9 + PesOf(f).hdl ELSE 0
      /\ first => Are(PesHeaderBytesOf(PesOf(f)), ps) /\ Holds(e, 4 + fs, PesHeaderBytesOf(PesOf(f)))
  BY <1>a, Zenon DEF HeadLaid
<1>4. Are(d, 188) /\ Holds(d, n, Data(pos, len)) /\ Holds(d, 0, e)
  <2>1. IsFull(d, e, n, pos, in, len)
    BY <1>2, <1>a, <1>b, Zenon DEF IsFull
  <2>2. FullBytes(d, e, n, pos, len)
    BY <2>1, BodyFull
  <2> QED BY <2>2, Zenon DEF FullBytes
<1>5. /\ q.pid = u.pid /\ q.pusi = u.pusi /\ q.afc = u.afc /\ q.cc = u.cc
      /\ q.afc = FrameAfc(f, first)
  <2>1. /\ q.pid = f.pid /\ q.pusi = first /\ q.cc = cc /\ q.afc = FrameAfc(f, first)
    BY HeadOfIs
  <2>2. /\ u.pid = f.pid /\ u.pusi = first /\ u.cc = cc /\ u.afc = FrameAfc(f, first)
    BY HeadOfIs
  <2> QED BY <2>1, <2>2, Zenon
<1>6. HeaderBytesOf(q) = HeaderBytesOf(u)
  BY <1>5, SameHeader
<1>7. Holds(d, 0, HeaderBytesOf(q))
  <2>1. Within(HeaderBytesOf(q), 4, 0, e, n)
    BY <1>b, <1>6 DEF Within
  <2> QED BY <1>4, <2>1, HoldsIn
<1>8. first => Holds(d, 4 + fs, PesHeaderBytesOf(PesOf(f)))
  <2> SUFFICES ASSUME first PROVE Holds(d, 4 + fs, PesHeaderBytesOf(PesOf(f)))
    OBVIOUS
  <2>1. PICK r \in Nat : r = 4 + fs
    OBVIOUS
  <2>2. PICK s : s = PesHeaderBytesOf(PesOf(f))
    OBVIOUS
  <2>3. Within(s, ps, r, e, n)
    BY <1>b, <1>3, <2>1, <2>2 DEF Within
  <2>4. Holds(d, r, s)
    BY <1>4, <2>3, HoldsIn
  <2> QED BY <2>1, <2>2, <2>4, Zenon
<1>9. AfIn(q, d) = AfTimes(FrameAf(f, first))
  <2>1. CASE WithAf(f, first)
    <3>1. q.afc = mPayloadAdaptionBoth
      BY <1>5, <2>1, Zenon DEF FrameAfc
    <3>2. AfOk(FrameAf(f, first)) /\ FrameAf(f, first).len = IF FrameAf(f, first).pcr = NoPcr THEN 1 ELSE 7
      BY <1>3, <2>1, Zenon DEF FieldOk
    <3>3. FrameAf(f, first).len # 0
      BY <3>2
    <3>4. FieldLaid(FrameAf(f, first), d)
      <4>1. \A i \in 1 .. n : d[i] = e[i]
        <5>1. DOMAIN e = 1 .. n
          BY <1>b DEF Are
        <5>2. \A i \in 1 .. n : d[0 + i] = e[i]
          BY <1>4, <5>1 DEF Holds
        <5> QED BY <5>2
      <4>2. PICK af : af = FrameAf(f, first)
        OBVIOUS
      <4>3. fs = 1 + af.len /\ af.len = IF af.pcr = NoPcr THEN 1 ELSE 7
        BY <1>3, <2>1, <3>2, <4>2, Zenon
      <4>4. 5 \in 1 .. n /\ 6 \in 1 .. n
        BY <1>b, <4>3
      <4>5. d[5] = e[5] /\ d[6] = e[6]
        BY <4>1, <4>4, Zenon
      <4>6. af.pcr # NoPcr => Holds(d, 6, writePcr(Bin(af.pcr)))
        <5> SUFFICES ASSUME af.pcr # NoPcr PROVE Holds(d, 6, writePcr(Bin(af.pcr)))
          OBVIOUS
        <5>1. PICK s : s = writePcr(Bin(af.pcr))
          OBVIOUS
        <5>2. Are(s, 6)
          BY <5>1, PcrAre
        <5>3. Holds(e, 6, s)
          BY <1>3, <2>1, <4>2, <5>1, Zenon DEF FieldLaid
        <5>4. Within(s, 6, 6, e, n)
          BY <1>b, <4>3, <5>2, <5>3 DEF Within
        <5>5. Holds(d, 6, s)
          BY <1>4, <5>4, HoldsIn
        <5> QED BY <5>1, <5>5
      <4> QED BY <1>3, <2>1, <4>2, <4>5, <4>6, Zenon DEF FieldLaid
    <3>5. FrameAf(f, first).pcr # NoPcr => q.pid = PcrPid
      <4>1. q.pid = f.pid
        BY HeadOfIs
      <4>2. FrameAf(f, first).pcr # NoPcr => f.pid = PcrPid
        BY ClockOnItsPid
      <4> QED BY <4>1, <4>2
    <3> QED BY <3>1, <3>2, <3>3, <3>4, <3>5, FieldSeen
  <2>2. CASE ~WithAf(f, first)
    <3>1. q.afc = mPayloadOnly /\ FrameAf(f, first) = NoAf
      BY <1>5, <2>2, Zenon DEF FrameAfc, FrameAf
    <3>2. AfIn(q, d) = [NoAf EXCEPT !.pcr = {}]
      BY <3>1, Afcs13, Zenon DEF AfIn
    <3> QED BY <3>1, <3>2, NoFieldIs, Zenon
  <2> QED BY <2>1, <2>2
<1>10. PICK afc, af : afc = FrameAfc(f, first) /\ af = FrameAf(f, first)
  BY Zenon
<1>11. afc \in {mPayloadOnly, mPayloadAdaptionBoth} /\ AfShape(af)
  BY <1>10, FrameAfIs, Zenon
<1>12. q = PacketOf(f, first, cc, afc, af, Run(frame, pos, len))
  BY <1>10, Zenon DEF HeadOf
<1>13. FieldEnd(afc, af) + (IF first THEN 9 + PesOf(f).hdl ELSE 0) + len = 188
  <2>1. (IF first THEN 9 + PesOf(f).hdl ELSE 0) = ps
    BY <1>3, Zenon
  <2>2. FieldEnd(afc, af) = 4 + fs
    BY <1>3, <1>10, Zenon
  <2> QED BY <1>a, <1>b, <2>1, <2>2
<1>14. first => Holds(d, FieldEnd(afc, af), PesHeaderBytesOf(PesOf(f)))
  BY <1>3, <1>8, <1>10, Zenon
<1>15. AfIn(q, d) = AfTimes(af)
  BY <1>9, <1>10, Zenon
<1> QED BY <1>4, <1>7, <1>11, <1>12, <1>13, <1>14, <1>15, <1>a, PacketRight
-----------------------------------------------------------------------------
LEMMA FieldBit ==
    ASSUME NEW u, HeaderOk(u), u.afc = mPayloadAdaptionBoth
    PROVE  5 \in HeaderBytesOf(u)[4]
<1>1. PICK pid, pusi, cc, afc : pid = u.pid /\ pusi = u.pusi /\ cc = u.cc /\ afc = mPayloadOnly
  BY Zenon
<1>2. PICK p : p = [pid |-> pid, pusi |-> pusi, cc |-> cc, afc |-> afc]
  OBVIOUS
<1>3. p.pid = pid /\ p.pusi = pusi /\ p.cc = cc /\ p.afc = afc
  BY <1>2, SMTT(30)
<1>4. mPayloadOnly \in Afcs
  BY DEF mPayloadOnly, Afcs
<1>5. HeaderOk(p)
  BY <1>1, <1>3, <1>4, Zenon DEF HeaderOk
<1>6. p.pid = u.pid /\ p.pusi = u.pusi /\ p.cc = u.cc /\ p.afc = mPayloadOnly
  BY <1>1, <1>3, Zenon
<1> QED BY <1>5, <1>6, HeaderFourth

(* A packet whose adaptation field stuffing lengthened.                    *)
LEMMA LengthenedRight ==
    ASSUME NEW f, ShapeOk(f), NEW frame, NEW first \in BOOLEAN, NEW cc \in Cc, NEW pos \in Nat,
           NEW in \in Nat \ {0}, NEW k \in Nat \ {0}, HeadLen(f, first) + k + in = 188, WithAf(f, first), NEW run,
           NEW q, q = PacketOf(f, first, cc, mPayloadAdaptionBoth, StuffedField(f, first, k),
                               Run(frame, pos, in)),
           NEW u, u = HeadOf(f, first, cc, run), NEW d, d = PesBody(PesHead(u), pos, in)
    PROVE  FrameRight(q, d)
<1>1. PICK n \in Nat, fs \in Nat, ps \in Nat :
         n = HeadLen(f, first) /\ n <= 31 /\ HeadLaid(f, first, u, PesHead(u), n, fs, ps)
  BY HeadIsLaid
<1>2. PICK e : e = PesHead(u)
  OBVIOUS
<1>a. HeadLaid(f, first, u, e, n, fs, ps) /\ n + k + in = 188
  BY <1>1, <1>2, Zenon
<1>b. Are(e, n) /\ Are(HeaderBytesOf(u), 4) /\ Holds(e, 0, HeaderBytesOf(u)) /\ n = 4 + fs + ps
  BY <1>a, Zenon DEF HeadLaid
<1>3. PICK had : had = FrameAf(f, first)
  OBVIOUS
<1>4. fs = 1 + had.len /\ FieldOk(had) /\ FieldLaid(had, e) /\ AfShape(had)
  BY <1>a, <1>3, FrameAfIs, Zenon DEF HeadLaid
<1>5. /\ ps = IF first THEN 9 + PesOf(f).hdl ELSE 0
      /\ first => Are(PesHeaderBytesOf(PesOf(f)), ps) /\ Holds(e, 4 + fs, PesHeaderBytesOf(PesOf(f)))
  BY <1>a, Zenon DEF HeadLaid
<1>c. AfOk(had)
  BY <1>4, Zenon DEF AfShape
<1>d. PICK l \in AfLengths : l = had.len
  BY <1>c DEF AfOk
<1>e. PICK r \in BOOLEAN : r = had.ra
  BY <1>c, Zenon DEF AfOk
<1>f. PICK c : c = had.pcr
  OBVIOUS
<1>6. l = had.len /\ r = had.ra /\ c = had.pcr /\ c \in Pcrs
  BY <1>c, <1>d, <1>e, <1>f, Zenon DEF AfOk, Pcrs
<1>7. l = IF c = NoPcr THEN 1 ELSE 7
  BY <1>4, <1>6, Zenon DEF FieldOk
<1>8. fs = 1 + l /\ n = 5 + l + ps
  BY <1>4, <1>6, <1>b, <1>7
<1>9. PICK af : af = AfFields(l + k, r, c)
  OBVIOUS
<1>10. q = PacketOf(f, first, cc, mPayloadAdaptionBoth, af, Run(frame, pos, in))
  BY <1>3, <1>6, <1>9, Zenon DEF StuffedField
<1>11. l + k \in AfLengths /\ l + k # 0
  BY <1>a, <1>7, <1>8 DEF AfLengths
<1>12. AfShape(af) /\ af.len = l + k /\ af.ra = r /\ af.pcr = c
  <2>1. IsAf(af, l + k, r, c)
    BY <1>6, <1>9, <1>11, AfFieldsAre
  <2> QED BY <2>1, Zenon DEF IsAf
<1>13. /\ q.pid = f.pid /\ q.pusi = first /\ q.cc = cc /\ q.afc = mPayloadAdaptionBoth
  BY <1>10, PacketFields
<1>14. /\ u.pid = f.pid /\ u.pusi = first /\ u.cc = cc /\ u.afc = mPayloadAdaptionBoth /\ HeadOk(u)
  <2>1. /\ u.pid = f.pid /\ u.pusi = first /\ u.cc = cc /\ u.afc = FrameAfc(f, first) /\ HeadOk(u)
    BY HeadOfIs
  <2> QED BY <2>1, Zenon DEF FrameAfc
<1>15. HeaderBytesOf(q) = HeaderBytesOf(u)
  BY <1>13, <1>14, SameHeader
<1>16. e[1] = HeaderBytesOf(q)[1] /\ e[2] = HeaderBytesOf(q)[2]
       /\ e[3] = HeaderBytesOf(q)[3] /\ e[4] = HeaderBytesOf(q)[4]
  <2>1. PICK h : h = HeaderBytesOf(q)
    OBVIOUS
  <2>2. DOMAIN h = 1 .. 4 /\ Holds(e, 0, h)
    BY <1>b, <1>15, <2>1 DEF Are
  <2>3. e[0 + 1] = h[1] /\ e[0 + 2] = h[2] /\ e[0 + 3] = h[3] /\ e[0 + 4] = h[4]
    BY <2>2 DEF Holds
  <2> QED BY <2>1, <2>3
<1>17. HasField(e, n, l)
  <2>1. 5 \in HeaderBytesOf(u)[4]
    BY <1>14, FieldBit, Zenon DEF HeadOk
  <2>2. e[5] = Bin(l)
    BY <1>4, <1>6, Zenon DEF FieldLaid
  <2>3. 5 + l <= n
    BY <1>7, <1>8
  <2> QED BY <1>15, <1>16, <2>1, <2>2, <2>3, Zenon DEF HasField
<1>18. /\ Are(d, 188) /\ Holds(d, n + k, Data(pos, in))
       /\ \A i \in 1 .. 5 + l : d[i] = IF i = 5 THEN Bin(l + k) ELSE e[i]
       /\ \A i \in 1 .. n - (5 + l) : d[5 + l + k + i] = e[5 + l + i]
  <2>1. IsLonger(d, e, n, pos, in, k, l)
    BY <1>2, <1>a, <1>b, <1>17, Zenon DEF IsLonger
  <2>2. LongerBytes(d, e, n, pos, in, k, l)
    BY <2>1, BodyLengthened
  <2> QED BY <2>2, Zenon DEF LongerBytes
<1>19. Holds(d, 0, HeaderBytesOf(q))
  <2>1. PICK h : h = HeaderBytesOf(q)
    OBVIOUS
  <2>2. DOMAIN h = 1 .. 4
    BY <1>b, <1>15, <2>1 DEF Are
  <2>3. d[1] = e[1] /\ d[2] = e[2] /\ d[3] = e[3] /\ d[4] = e[4]
    BY <1>7, <1>18
  <2>4. \A i \in 1 .. 4 : d[0 + i] = h[i]
    BY <1>16, <2>1, <2>3
  <2>5. Holds(d, 0, h)
    BY <2>2, <2>4 DEF Holds
  <2> QED BY <2>1, <2>5
<1>20. FieldLaid(af, d)
  <2>1. d[5] = Bin(l + k)
    BY <1>7, <1>18
  <2>2. d[6] = AfFlagsOf(af)
    <3>1. d[6] = e[6]
      BY <1>7, <1>18
    <3>2. e[6] = AfFlagsOf(had)
      BY <1>4, Zenon DEF FieldLaid
    <3>3. AfFlagsOf(had) = AfFlagsOf(af)
      BY <1>6, <1>12, Zenon DEF AfFlagsOf
    <3> QED BY <3>1, <3>2, <3>3, Zenon
  <2>3. c # NoPcr => Holds(d, 6, writePcr(Bin(c)))
    <3> SUFFICES ASSUME c # NoPcr PROVE Holds(d, 6, writePcr(Bin(c)))
      OBVIOUS
    <3>1. PICK s : s = writePcr(Bin(c))
      OBVIOUS
    <3>2. Holds(e, 6, s)
      BY <1>4, <1>6, <3>1, Zenon DEF FieldLaid
    <3>3. DOMAIN s = 1 .. 6
      BY <3>1, PcrAre DEF Are
    <3>4. \A i \in 1 .. 6 : d[6 + i] = s[i]
      <4> TAKE i \in 1 .. 6
      <4>1. 6 + i \in 1 .. 5 + l /\ 6 + i # 5
        BY <1>7
      <4>2. d[6 + i] = e[6 + i]
        BY <1>18, <4>1
      <4>3. e[6 + i] = s[i]
        BY <3>2, <3>3 DEF Holds
      <4> QED BY <4>2, <4>3
    <3>5. Holds(d, 6, s)
      BY <3>3, <3>4 DEF Holds
    <3> QED BY <3>1, <3>5
  <2> QED BY <1>12, <2>1, <2>2, <2>3, Zenon DEF FieldLaid
<1>21. AfIn(q, d) = AfTimes(af)
  <2>1. AfOk(af)
    BY <1>12, Zenon DEF AfShape
  <2>2. af.pcr # NoPcr => q.pid = PcrPid
    <3>1. FrameAf(f, first).pcr # NoPcr => f.pid = PcrPid
      BY ClockOnItsPid
    <3>2. af.pcr = FrameAf(f, first).pcr
      BY <1>3, <1>6, <1>12
    <3>3. q.pid = f.pid
      BY <1>13
    <3> QED BY <3>1, <3>2, <3>3
  <2> QED BY <1>11, <1>12, <1>13, <1>20, <2>1, <2>2, FieldSeen
<1>22. FieldEnd(mPayloadAdaptionBoth, af) = 5 + l + k
  <2>1. FieldEnd(mPayloadAdaptionBoth, af) = 4 + (1 + (l + k))
    BY <1>12, Zenon DEF FieldEnd
  <2> QED BY <1>7, <2>1
<1>23. first => Holds(d, 5 + l + k, PesHeaderBytesOf(PesOf(f)))
  <2> SUFFICES ASSUME first PROVE Holds(d, 5 + l + k, PesHeaderBytesOf(PesOf(f)))
    OBVIOUS
  <2>1. PICK s : s = PesHeaderBytesOf(PesOf(f))
    OBVIOUS
  <2>2. Are(s, ps) /\ Holds(e, 5 + l, s)
    <3>1. 4 + fs = 5 + l
      BY <1>7, <1>8
    <3> QED BY <1>5, <2>1, <3>1
  <2>3. DOMAIN s = 1 .. ps
    BY <2>2 DEF Are
  <2>4. n - (5 + l) = ps
    BY <1>7, <1>8
  <2>5. \A i \in 1 .. ps : d[5 + l + k + i] = s[i]
    <3> TAKE i \in 1 .. ps
    <3>1. d[5 + l + k + i] = e[5 + l + i]
      BY <1>18, <2>4
    <3>2. e[5 + l + i] = s[i]
      BY <2>2, <2>3 DEF Holds
    <3> QED BY <3>1, <3>2, Zenon
  <2>6. Holds(d, 5 + l + k, s)
    BY <2>3, <2>5 DEF Holds
  <2> QED BY <2>1, <2>6
<1>24. FieldEnd(mPayloadAdaptionBoth, af) + (IF first THEN 9 + PesOf(f).hdl ELSE 0) + in = 188
  <2>1. (IF first THEN 9 + PesOf(f).hdl ELSE 0) = ps
    BY <1>5, Zenon
  <2> QED BY <1>a, <1>7, <1>8, <1>22, <2>1
<1>25. first => Holds(d, FieldEnd(mPayloadAdaptionBoth, af), PesHeaderBytesOf(PesOf(f)))
  BY <1>22, <1>23, Zenon
<1>26. PICK afc : afc = mPayloadAdaptionBoth /\ afc \in {mPayloadOnly, mPayloadAdaptionBoth}
  OBVIOUS
<1>27. n + k \in Nat /\ (n + k) + in = 188
  BY <1>a
<1>28. AfShape(af)
  BY <1>12, Zenon
<1> QED BY <1>10, <1>18, <1>19, <1>21, <1>24, <1>25, <1>26, <1>27, <1>28, PacketRight
-----------------------------------------------------------------------------
(* A packet for which stuffing made the adaptation field.                  *)
LEMMA ClearFlags ==
    AfFlagsOf(AfFields(0, FALSE, NoPcr)) = {} /\ \A l : AfFlagsOf(AfFields(l, FALSE, NoPcr)) = {}
<1> SUFFICES ASSUME NEW l PROVE AfFlagsOf(AfFields(l, FALSE, NoPcr)) = {}
  BY Zenon
<1>1. PICK no, c : no = FALSE /\ c = NoPcr
  BY Zenon
<1>2. PICK af : af = [len |-> l, disc |-> no, ra |-> no, pcr |-> c]
  OBVIOUS
<1>3. AfFields(l, FALSE, NoPcr) = af
  BY <1>1, <1>2, Zenon DEF AfFields
<1>4. af.ra = no /\ af.pcr = c
  BY <1>2, SMTT(30)
<1>5. Flag(af.ra) = {} /\ Flag(af.pcr # NoPcr) = {}
  BY <1>1, <1>4, Zenon DEF Flag
<1>6. AfFlagsOf(af) = AfFlags({}, {})
  BY <1>5, Zenon DEF AfFlagsOf
<1>7. PICK none : none = {}
  OBVIOUS
<1>8. PICK a : a = [NoAdaptationField EXCEPT !.mRandomAccessIndicator = none, !.mPcrFlag = none]
  OBVIOUS
<1>9. AfFlags({}, {}) = AdaptationFieldFlags(a)
  BY <1>7, <1>8, Zenon DEF AfFlags
<1>10. a = [mAdaptationFieldLength |-> none, mAdaptationFieldExtensionFlag |-> none,
    mTransportPrivateDataFlag |-> none, mSplicingPointFlag |-> none, mOpcrFlag |-> none,
    mPcrFlag |-> none, mElementaryStreamPriorityIndicator |-> none,
    mRandomAccessIndicator |-> none, mDiscontinuityIndicator |-> none]
  <2>1. PICK b : b = [mAdaptationFieldLength |-> none, mAdaptationFieldExtensionFlag |-> none,
    mTransportPrivateDataFlag |-> none, mSplicingPointFlag |-> none, mOpcrFlag |-> none,
    mPcrFlag |-> none, mElementaryStreamPriorityIndicator |-> none,
    mRandomAccessIndicator |-> none, mDiscontinuityIndicator |-> none]
    OBVIOUS
  <2>2. NoAdaptationField = b
    BY <1>7, <2>1, Zenon DEF NoAdaptationField
  <2>3. [b EXCEPT !.mRandomAccessIndicator = none] = b
    BY <2>1, SMTT(30)
  <2>4. [b EXCEPT !.mPcrFlag = none] = b
    BY <2>1, SMTT(30)
  <2>5. a = b
    BY <1>8, <2>2, <2>3, <2>4, Zenon
  <2> QED BY <2>1, <2>5, Zenon
<1>11. /\ a.mAdaptationFieldExtensionFlag = none /\ a.mTransportPrivateDataFlag = none
       /\ a.mSplicingPointFlag = none /\ a.mOpcrFlag = none /\ a.mPcrFlag = none
       /\ a.mElementaryStreamPriorityIndicator = none /\ a.mRandomAccessIndicator = none
       /\ a.mDiscontinuityIndicator = none
  BY <1>10, SMTT(30)
<1>12. \A at, m : Put(none, at, m) = none
  BY <1>7 DEF Put, Shl
<1>13. AdaptationFieldFlags(a) = none
  <2>1. AdaptationFieldFlags(a) =
    Put(none, 0, 1) \cup Put(none, 1, 1)
      \cup Put(none, 2, 1) \cup Put(none, 3, 1)
      \cup Put(none, 4, 1) \cup Put(none, 5, 1)
      \cup Put(none, 6, 1) \cup Put(none, 7, 1)
    BY <1>11, Zenon DEF AdaptationFieldFlags
  <2>2. none \cup none = none
    BY <1>7
  <2> QED BY <1>12, <2>1, <2>2, Zenon
<1> QED BY <1>3, <1>6, <1>7, <1>9, <1>13, Zenon

StuffingLaid(k, d) == \A i \in 1 .. k : d[4 + i] = StuffingField(k)[i]
StuffingIn(q, d, k) == AfIn(q, d) = AfTimes(AfFields(k - 1, FALSE, NoPcr))

LEMMA StuffingSeen ==
    ASSUME NEW k \in Nat \ {0}, k - 1 \in AfLengths, NEW d, StuffingLaid(k, d),
           NEW q, q.afc = mPayloadAdaptionBoth
    PROVE  StuffingIn(q, d, k)
<1>0. \A i \in 1 .. k : d[4 + i] = StuffingField(k)[i]
  BY Zenon DEF StuffingLaid
<1>1. CASE k = 1
  <2>1. d[5] = {}
    <3>1. StuffingField(k) = <<{}>>
      BY <1>1, Zenon DEF StuffingField
    <3>2. d[4 + 1] = StuffingField(k)[1]
      BY <1>0, <1>1
    <3> QED BY <3>1, <3>2
  <2>2. SeenAf(d, q.pid) = AfTimes(AfFields(0, FALSE, NoPcr))
    BY <2>1, EmptyFieldSeen
  <2>3. AfIn(q, d) = SeenAf(d, q.pid)
    BY Afcs13, Zenon DEF AfIn
  <2>4. k - 1 = 0
    BY <1>1
  <2> QED BY <2>2, <2>3, <2>4, Zenon DEF StuffingIn
<1>2. CASE k # 1
  <2>1. PICK l \in AfLengths : l = k - 1
    OBVIOUS
  <2>2. PICK af : af = AfFields(l, FALSE, NoPcr)
    OBVIOUS
  <2>3. AfShape(af) /\ af.len = l /\ af.pcr = NoPcr
    <3>1. PICK r \in BOOLEAN : r = FALSE
      OBVIOUS
    <3>2. PICK c \in Pcrs : c = NoPcr
      BY DEF Pcrs
    <3>3. IsAf(AfFields(l, r, c), l, r, c)
      BY AfFieldsAre
    <3> QED BY <2>2, <3>1, <3>2, <3>3, Zenon DEF IsAf
  <2>4. d[5] = Bin(l) /\ d[6] = {}
    <3>1. StuffingField(k) = <<Bin(l), {}>> \o FF(k - 2)
      BY <1>2, <2>1, Zenon DEF StuffingField
    <3>2. PICK w : w = Bin(l)
      OBVIOUS
    <3>3. PICK m \in Nat : m = k - 2
      BY <1>2
    <3>4. PICK s : s = FF(m)
      OBVIOUS
    <3>5. Len(s) \in Nat
      BY <3>4, Fill DEF Are
    <3>6. (<<w, {}>> \o s)[1] = w /\ (<<w, {}>> \o s)[2] = {}
      BY <3>5
    <3>7. d[4 + 1] = StuffingField(k)[1] /\ d[4 + 2] = StuffingField(k)[2]
      BY <1>0, <1>2
    <3> QED BY <3>1, <3>2, <3>3, <3>4, <3>6, <3>7
  <2>5. AfFlagsOf(af) = {}
    BY <2>2, ClearFlags
  <2>6. FieldLaid(af, d)
    BY <2>3, <2>4, <2>5, Zenon DEF FieldLaid
  <2>7. AfOk(af) /\ af.len # 0
    <3>1. l # 0
      BY <1>2, <2>1
    <3> QED BY <2>3, <3>1, Zenon DEF AfShape
  <2>8. AfIn(q, d) = AfTimes(af)
    BY <2>3, <2>6, <2>7, FieldSeen
  <2> QED BY <2>1, <2>2, <2>8, Zenon DEF StuffingIn
<1> QED BY <1>1, <1>2
-----------------------------------------------------------------------------
LEMMA MadeRight ==
    ASSUME NEW f, ShapeOk(f), NEW frame, NEW first \in BOOLEAN, NEW cc \in Cc, NEW pos \in Nat,
           NEW in \in Nat \ {0}, NEW k \in Nat \ {0}, HeadLen(f, first) + k + in = 188, ~WithAf(f, first), NEW run,
           NEW q, q = PacketOf(f, first, cc, mPayloadAdaptionBoth, StuffedField(f, first, k),
                               Run(frame, pos, in)),
           NEW u, u = HeadOf(f, first, cc, run), NEW d, d = PesBody(PesHead(u), pos, in)
    PROVE  FrameRight(q, d)
<1>1. PICK n \in Nat, fs \in Nat, ps \in Nat :
         n = HeadLen(f, first) /\ n <= 31 /\ HeadLaid(f, first, u, PesHead(u), n, fs, ps)
  BY HeadIsLaid
<1>2. PICK e : e = PesHead(u)
  OBVIOUS
<1>a. HeadLaid(f, first, u, e, n, fs, ps) /\ n + k + in = 188
  BY <1>1, <1>2, Zenon
<1>b. Are(e, n) /\ Are(HeaderBytesOf(u), 4) /\ Holds(e, 0, HeaderBytesOf(u)) /\ n = 4 + fs + ps
  BY <1>a, Zenon DEF HeadLaid
<1>3. fs = 0
  BY <1>a, Zenon DEF HeadLaid
<1>5. /\ ps = IF first THEN 9 + PesOf(f).hdl ELSE 0
      /\ first => Are(PesHeaderBytesOf(PesOf(f)), ps) /\ Holds(e, 4 + fs, PesHeaderBytesOf(PesOf(f)))
  BY <1>a, Zenon DEF HeadLaid
<1>8. n = 4 + ps
  BY <1>3, <1>b
<1>9. PICK af : af = AfFields(k - 1, FALSE, NoPcr)
  OBVIOUS
<1>10. q = PacketOf(f, first, cc, mPayloadAdaptionBoth, af, Run(frame, pos, in))
  BY <1>9, Zenon DEF StuffedField
<1>11. k - 1 \in AfLengths
  BY <1>a DEF AfLengths
<1>12. AfShape(af) /\ af.len = k - 1
  <2>1. PICK r \in BOOLEAN : r = FALSE
    OBVIOUS
  <2>2. PICK c \in Pcrs : c = NoPcr
    BY DEF Pcrs
  <2>3. PICK l \in AfLengths : l = k - 1
    BY <1>11
  <2>4. IsAf(AfFields(l, r, c), l, r, c)
    BY AfFieldsAre
  <2> QED BY <1>9, <2>1, <2>2, <2>3, <2>4, Zenon DEF IsAf
<1>13. q.pid = f.pid /\ q.pusi = first /\ q.cc = cc /\ q.afc = mPayloadAdaptionBoth
  BY <1>10, PacketFields
<1>14. /\ u.pid = f.pid /\ u.pusi = first /\ u.cc = cc /\ u.afc = mPayloadOnly /\ HeadOk(u)
  <2>1. /\ u.pid = f.pid /\ u.pusi = first /\ u.cc = cc /\ u.afc = FrameAfc(f, first) /\ HeadOk(u)
    BY HeadOfIs
  <2> QED BY <2>1, Zenon DEF FrameAfc
<1>15. /\ 5 \notin HeaderBytesOf(u)[4]
       /\ HeaderBytesOf(q)[4] = HeaderBytesOf(u)[4] \cup {5}
       /\ \A i \in 1 .. 3 : HeaderBytesOf(q)[i] = HeaderBytesOf(u)[i]
  <2>1. HeaderOk(u)
    BY <1>14, Zenon DEF HeadOk
  <2>2. HeaderOk(q)
    <3>1. mPayloadAdaptionBoth \in Afcs
      BY DEF mPayloadAdaptionBoth, Afcs
    <3> QED BY <1>13, <1>14, <2>1, <3>1, Zenon DEF HeaderOk
  <2>3. u.pid = q.pid /\ u.pusi = q.pusi /\ u.cc = q.cc
    BY <1>13, <1>14, Zenon
  <2> QED BY <1>13, <1>14, <2>1, <2>2, <2>3, HeaderFourth
<1>16. \A i \in 1 .. 4 : e[i] = HeaderBytesOf(u)[i]
  <2>1. PICK h : h = HeaderBytesOf(u)
    OBVIOUS
  <2>2. DOMAIN h = 1 .. 4 /\ Holds(e, 0, h)
    BY <1>b, <2>1 DEF Are
  <2>3. \A i \in 1 .. 4 : e[0 + i] = h[i]
    BY <2>2 DEF Holds
  <2> QED BY <2>1, <2>3
<1>17. /\ Are(d, 188) /\ Holds(d, n + k, Data(pos, in))
       /\ \A i \in 1 .. 4 : d[i] = IF i = 4 THEN e[4] \cup {5} ELSE e[i]
       /\ \A i \in 1 .. k : d[4 + i] = StuffingField(k)[i]
       /\ \A i \in 1 .. n - 4 : d[4 + k + i] = e[4 + i]
  <2>1. 4 <= n /\ 5 \notin e[4]
    BY <1>8, <1>15, <1>16
  <2>2. IsWider(d, e, n, pos, in, k)
    BY <1>2, <1>a, <1>b, <2>1, Zenon DEF IsWider
  <2>3. WiderBytes(d, e, n, pos, in, k)
    BY <2>2, BodyMade
  <2> QED BY <2>3, Zenon DEF WiderBytes
<1>18. Holds(d, 0, HeaderBytesOf(q))
  <2>1. PICK g, h : g = HeaderBytesOf(u) /\ h = HeaderBytesOf(q)
    BY Zenon
  <2>2. DOMAIN h = 1 .. 4
    <3>1. HeaderOk(q)
      <4>1. HeaderOk(u)
        BY <1>14, Zenon DEF HeadOk
      <4>2. mPayloadAdaptionBoth \in Afcs
        BY DEF mPayloadAdaptionBoth, Afcs
      <4> QED BY <1>13, <1>14, <4>1, <4>2, Zenon DEF HeaderOk
    <3> QED BY <2>1, <3>1, HeaderSeen DEF Are
  <2>3. \A i \in 1 .. 4 : d[i] = h[i]
    <3> TAKE i \in 1 .. 4
    <3>1. CASE i = 4
      <4>1. d[4] = e[4] \cup {5} /\ e[4] = g[4] /\ h[4] = g[4] \cup {5}
        BY <1>15, <1>16, <1>17, <2>1
      <4> QED BY <3>1, <4>1, Zenon
    <3>2. CASE i # 4
      <4>1. i \in 1 .. 3
        BY <3>2
      <4>2. d[i] = e[i] /\ e[i] = g[i]
        BY <1>16, <1>17, <2>1, <3>2
      <4>3. h[i] = g[i]
        BY <1>15, <2>1, <4>1, Zenon
      <4> QED BY <4>2, <4>3, Zenon
    <3> QED BY <3>1, <3>2
  <2>4. \A i \in 1 .. 4 : d[0 + i] = h[i]
    BY <2>3
  <2>5. Holds(d, 0, h)
    BY <2>2, <2>4 DEF Holds
  <2> QED BY <2>1, <2>5
<1>19. AfIn(q, d) = AfTimes(af)
  <2>1. StuffingLaid(k, d)
    BY <1>17, Zenon DEF StuffingLaid
  <2>2. StuffingIn(q, d, k)
    BY <1>11, <1>13, <2>1, StuffingSeen
  <2> QED BY <1>9, <2>2, Zenon DEF StuffingIn
<1>22. FieldEnd(mPayloadAdaptionBoth, af) = 4 + k
  <2>1. FieldEnd(mPayloadAdaptionBoth, af) = 4 + (1 + (k - 1))
    BY <1>12, Zenon DEF FieldEnd
  <2> QED BY <2>1
<1>23. first => Holds(d, 4 + k, PesHeaderBytesOf(PesOf(f)))
  <2> SUFFICES ASSUME first PROVE Holds(d, 4 + k, PesHeaderBytesOf(PesOf(f)))
    OBVIOUS
  <2>1. PICK s : s = PesHeaderBytesOf(PesOf(f))
    OBVIOUS
  <2>2. Are(s, ps) /\ Holds(e, 4, s)
    <3>1. 4 + fs = 4
      BY <1>3
    <3> QED BY <1>5, <2>1, <3>1
  <2>3. DOMAIN s = 1 .. ps
    BY <2>2 DEF Are
  <2>4. n - 4 = ps
    BY <1>8
  <2>5. \A i \in 1 .. ps : d[4 + k + i] = s[i]
    <3> TAKE i \in 1 .. ps
    <3>1. d[4 + k + i] = e[4 + i]
      BY <1>17, <2>4
    <3>2. e[4 + i] = s[i]
      BY <2>2, <2>3 DEF Holds
    <3> QED BY <3>1, <3>2, Zenon
  <2>6. Holds(d, 4 + k, s)
    BY <2>3, <2>5 DEF Holds
  <2> QED BY <2>1, <2>6
<1>24. FieldEnd(mPayloadAdaptionBoth, af) + (IF first THEN 9 + PesOf(f).hdl ELSE 0) + in = 188
  <2>1. (IF first THEN 9 + PesOf(f).hdl ELSE 0) = ps
    BY <1>5, Zenon
  <2> QED BY <1>a, <1>8, <1>22, <2>1
<1>25. first => Holds(d, FieldEnd(mPayloadAdaptionBoth, af), PesHeaderBytesOf(PesOf(f)))
  BY <1>22, <1>23, Zenon
<1>26. PICK afc : afc = mPayloadAdaptionBoth /\ afc \in {mPayloadOnly, mPayloadAdaptionBoth}
  OBVIOUS
<1>27. n + k \in Nat /\ (n + k) + in = 188
  BY <1>a
<1>28. AfShape(af)
  BY <1>12, Zenon
<1> QED BY <1>10, <1>17, <1>18, <1>19, <1>24, <1>25, <1>26, <1>27, <1>28, PacketRight

(* Whatever frame, position and counter: the packet of the model and its   *)
(* bytes say the same.                                                     *)
LEMMA PesPacketSeen ==
    ASSUME NEW f, ShapeOk(f), NEW frame, NEW first \in BOOLEAN, NEW pos \in Nat, pos < f.size,
           NEW cc \in Cc
    PROVE  FrameRight(PesPacket(f, frame, first, pos, cc), PesPacketBytes(f, first, pos, cc))
<1>1. PICK run : run = Run([size |-> f.size], pos, 0)
  OBVIOUS
<1>2. PICK u : u = HeadOf(f, first, cc, run)
  OBVIOUS
<1>3. PICK in \in Nat \ {0} : in = f.size - pos
  <2>1. f.size \in Nat
    BY Zenon DEF ShapeOk
  <2> QED BY <2>1
<1>4. PICK d : d = PesPacketBytes(f, first, pos, cc)
  OBVIOUS
<1>5. d = PesBody(PesHead(u), pos, in)
  BY <1>1, <1>2, <1>3, <1>4, UnstuffedIs, Zenon DEF PesPacketBytes, HeadOf
<1>6. PICK n \in 4 .. 31 : n = HeadLen(f, first)
  BY <1>2, HeadOfIs
<1>7. PICK q : q = PesPacket(f, frame, first, pos, cc)
  OBVIOUS
<1>8. CASE 188 - n <= in
  <2>1. PICK len \in Nat \ {0} : len = 188 - n
    OBVIOUS
  <2>2. n + len = 188 /\ len <= in
    BY <1>8, <2>1
  <2>3. q = HeadOf(f, first, cc, Run(frame, pos, len))
    <3>1. FullPackets(f, frame, first, pos, cc)
      BY PesPacketIs
    <3> QED BY <1>3, <1>6, <1>7, <2>2, <3>1 DEF FullPackets
  <2> QED BY <1>2, <1>4, <1>5, <1>6, <1>7, <2>2, <2>3, FullRight
<1>9. CASE ~(188 - n <= in)
  <2>1. PICK k \in Nat \ {0} : k = 188 - n - in
    BY <1>9
  <2>2. n + k + in = 188
    BY <2>1
  <2>3. q = PacketOf(f, first, cc, mPayloadAdaptionBoth, StuffedField(f, first, k), Run(frame, pos, in))
    <3>1. IsShort(f, first, pos, k, in)
      BY <1>3, <1>6, <2>2, Zenon DEF IsShort
    <3>2. ShortPacket(f, frame, first, pos, cc, k, in)
      BY <3>1, PesPacketIsShort
    <3> QED BY <1>7, <3>2, Zenon DEF ShortPacket
  <2>4. HeadLen(f, first) + k + in = 188
    BY <1>6, <2>2
  <2>5. CASE WithAf(f, first)
    BY <1>2, <1>4, <1>5, <1>7, <2>3, <2>4, <2>5, LengthenedRight
  <2>6. CASE ~WithAf(f, first)
    BY <1>2, <1>4, <1>5, <1>7, <2>3, <2>4, <2>6, MadeRight
  <2> QED BY <2>5, <2>6
<1> QED BY <1>8, <1>9
-----------------------------------------------------------------------------
(***************************************************************************)
(* Where the packets of a buffer come from: what a call with job j builds  *)
(* before it has read n bytes of its frame (a frame packet has read some). *)
(***************************************************************************)
OfTable(p) == \E cc \in Cc : p = createPat(cc) \/ p = createPmt(cc)
OfClock(p) == (\E n \in Nat : p = PcrPacket(n)) \/ p = NullPacket
OfFrame(p, j, n) ==
    /\ j.op = "encode" /\ n > 0
    /\ \E first \in BOOLEAN, pos \in Nat, cc \in Cc :
          pos < j.shape.size /\ p = PesPacket(j.shape, j.frame, first, pos, cc)
BuiltBy(p, j, n) == OfTable(p) \/ OfClock(p) \/ OfFrame(p, j, n)
AllBuiltBy(s, j, n) == \A i \in DOMAIN s : BuiltBy(s[i], j, n)
BuffersBuilt == \A t \in Threads : AllBuiltBy(lSb[t], job[t], mDataPos[t])

LEMMA BuiltConcat ==
    ASSUME NEW s \in Seq(Packet), NEW u \in Seq(Packet), NEW j, NEW n, AllBuiltBy(s, j, n), AllBuiltBy(u, j, n)
    PROVE  AllBuiltBy(s \o u, j, n)
PROOF
<1> SUFFICES ASSUME NEW i \in DOMAIN (s \o u) PROVE BuiltBy((s \o u)[i], j, n)  BY DEF AllBuiltBy
<1>1. i \in 1 .. Len(s) + Len(u)  BY ConcatProperties, LenProperties
<1>2. CASE i <= Len(s)
  BY <1>1, <1>2, ConcatProperties, LenProperties DEF AllBuiltBy
<1>3. CASE ~(i <= Len(s))
  <2>1. i - Len(s) \in DOMAIN u /\ (s \o u)[i] = u[i - Len(s)]
    BY <1>1, <1>3, ConcatProperties, LenProperties
  <2> QED  BY <2>1 DEF AllBuiltBy
<1> QED  BY <1>2, <1>3

(* Reading on changes nothing for what is built.                           *)
LEMMA BuiltEarlier ==
    ASSUME NEW s, NEW j, NEW m \in Nat, NEW n \in Nat, m <= n, AllBuiltBy(s, j, m)
    PROVE  AllBuiltBy(s, j, n)
PROOF
<1>1. m > 0 => n > 0  OBVIOUS
<1>2. \A p : OfFrame(p, j, m) => OfFrame(p, j, n)  BY <1>1, Zenon DEF OfFrame
<1> QED  BY <1>2, Zenon DEF AllBuiltBy, BuiltBy

LEMMA BuiltEmit ==
    ASSUME TypeOK, BuffersBuilt, NEW t \in Threads, NEW packets \in Seq(Packet), NEW n \in Nat,
           mDataPos[t] <= n, AllBuiltBy(packets, job[t], n), Emit(t, packets), UNCHANGED job,
           mDataPos' = [mDataPos EXCEPT ![t] = n]
    PROVE  BuffersBuilt'
PROOF
<1>1. lSb[t] \in Seq(Packet) /\ mDataPos[t] \in Nat  BY DEF TypeOK
<1>2. AllBuiltBy(lSb[t], job[t], n)
  <2>1. AllBuiltBy(lSb[t], job[t], mDataPos[t])  BY DEF BuffersBuilt
  <2> QED  BY <1>1, <2>1, BuiltEarlier
<1>3. AllBuiltBy(lSb[t] \o packets, job[t], n)  BY <1>1, <1>2, BuiltConcat
<1>4. lSb' = [lSb EXCEPT ![t] = lSb[t] \o packets]  BY DEF Emit
<1> QED  BY <1>3, <1>4 DEF BuffersBuilt, TypeOK

LEMMA BuiltNext ==
    TypeInv /\ BuffersBuilt /\ [Next]_vars => BuffersBuilt'
PROOF
<1> SUFFICES ASSUME TypeInv, BuffersBuilt, [Next]_vars PROVE BuffersBuilt'  OBVIOUS
<1> USE DEF TypeInv
<1>1. CASE UNCHANGED vars  BY <1>1 DEF vars, locals, BuffersBuilt
<1> SUFFICES ASSUME NEW t \in Threads, Call(t) \/ Lock(t) \/ Inside(t) PROVE BuffersBuilt'
  BY <1>1 DEF Next
<1>a. \A j, n : AllBuiltBy(<<>>, j, n)  BY DEF AllBuiltBy
<1>b. ASSUME NEW packets \in Seq(Packet), AllBuiltBy(packets, job[t], mDataPos[t]), Emit(t, packets),
             UNCHANGED <<job, mDataPos>>
      PROVE  BuffersBuilt'
  <2>1. PICK n \in Nat : n = mDataPos[t]  BY DEF TypeOK
  <2>2. mDataPos[t] <= n /\ mDataPos' = [mDataPos EXCEPT ![t] = n]  BY <1>b, <2>1 DEF TypeOK
  <2>3. AllBuiltBy(packets, job[t], n) /\ Emit(t, packets) /\ UNCHANGED job  BY <1>b, <2>1
  <2> QED  BY <2>2, <2>3, BuiltEmit
<1>2. CASE Call(t)
  <2>1. lSb' = [lSb EXCEPT ![t] = <<>>] /\ mDataPos' = [mDataPos EXCEPT ![t] = 0]
    BY <1>2 DEF Call
  <2>2. \A u \in Threads \ {t} : job'[u] = job[u]  BY <1>2 DEF Call, TypeOK
  <2> QED  BY <1>a, <2>1, <2>2 DEF BuffersBuilt, TypeOK
<1>3. CASE Lock(t)  BY <1>3 DEF Lock, locals, BuffersBuilt
<1>4. CASE Encode(t)
  <2>1. CASE TablesDue(t)
    <3>1. PICK cc \in Cc : cc = getCc(TableKey)  BY CcValues DEF CcKeys
    <3>2. PICK pat \in Packet, pmt \in Packet : pat = createPat(cc) /\ pmt = createPmt(cc)
      BY TablePackets
    <3>3. OfTable(pat) /\ OfTable(pmt)  BY <3>2, Zenon DEF OfTable
    <3>4. BuiltBy(pat, job[t], mDataPos[t]) /\ BuiltBy(pmt, job[t], mDataPos[t])
      BY <3>3, Zenon DEF BuiltBy
    <3>5. <<pat, pmt>> \in Seq(Packet) /\ AllBuiltBy(<<pat, pmt>>, job[t], mDataPos[t])
      BY <3>4 DEF AllBuiltBy
    <3>6. Emit(t, <<pat, pmt>>) /\ UNCHANGED <<job, mDataPos>>
      BY <1>4, <2>1, <3>1, <3>2 DEF Encode
    <3> QED  BY <1>b, <3>5, <3>6
  <2>2. CASE ~TablesDue(t)  BY <1>4, <2>2 DEF Encode, BuffersBuilt
  <2> QED  BY <2>1, <2>2
<1>5. CASE CreatePes(t)
  <2>1. PICK f \in FrameShapes, frame \in Frame, pos \in Nat, first \in BOOLEAN, cc \in Cc :
           /\ f = job[t].shape /\ frame = job[t].frame /\ pos = mDataPos[t] /\ first = lFirst[t]
           /\ cc = getCc(f.type) /\ pos < f.size /\ job[t].op = "encode"
    <3>1. job[t].op = "encode"  BY <1>5 DEF CreatePes, OpOfCall
    <3>2. job[t].shape \in FrameShapes /\ job[t].frame \in Frame /\ getCc(job[t].shape.type) \in Cc
      BY <3>1, EncodeJobFields, CcValues
    <3>3. mDataPos[t] \in Nat /\ lFirst[t] \in BOOLEAN /\ mDataPos[t] < job[t].shape.size
      BY <1>5 DEF CreatePes, TypeOK
    <3> QED  BY <3>1, <3>2, <3>3
  <2>2. PICK pkt : pkt = PesPacket(f, frame, first, pos, cc)  OBVIOUS
  <2>3. pkt \in Packet /\ pkt.load.run.len \in Nat \ {0}
    BY <2>1, <2>2, PesPacketLayout, PesPacketRun
  <2>4. PICK n \in Nat : n = pos + pkt.load.run.len /\ n > 0 /\ pos <= n  BY <2>3
  <2>5. OfFrame(pkt, job[t], n)  BY <2>1, <2>2, <2>4, Zenon DEF OfFrame
  <2>6. AllBuiltBy(<<pkt>>, job[t], n) /\ <<pkt>> \in Seq(Packet)
    BY <2>3, <2>5 DEF AllBuiltBy, BuiltBy
  <2>7. Emit(t, <<pkt>>) /\ UNCHANGED job /\ mDataPos' = [mDataPos EXCEPT ![t] = n]
    BY <1>5, <2>1, <2>2, <2>4 DEF CreatePes
  <2> QED  BY <2>1, <2>4, <2>6, <2>7, BuiltEmit
<1>6. CASE PesDone(t)  BY <1>6 DEF PesDone, locals, BuffersBuilt
<1>7. CASE CreatePcr(t)
  <2>1. PICK p \in Packet : p = PcrPacket(nCalls[t])  BY OtherPackets DEF TypeOK
  <2>2. OfClock(p)  BY <2>1 DEF OfClock, TypeOK
  <2>3. <<p>> \in Seq(Packet) /\ AllBuiltBy(<<p>>, job[t], mDataPos[t])
    BY <2>2 DEF AllBuiltBy, BuiltBy
  <2>4. Emit(t, <<p>>) /\ UNCHANGED <<job, mDataPos>>  BY <1>7, <2>1 DEF CreatePcr
  <2> QED  BY <1>b, <2>3, <2>4
<1>8. CASE CreateNull(t)
  <2>1. PICK p \in Packet : p = NullPacket  BY OtherPackets
  <2>2. OfClock(p)  BY <2>1, Zenon DEF OfClock
  <2>3. <<p>> \in Seq(Packet) /\ AllBuiltBy(<<p>>, job[t], mDataPos[t])
    BY <2>2 DEF AllBuiltBy, BuiltBy
  <2>4. Emit(t, <<p>>) /\ UNCHANGED <<job, mDataPos>>  BY <1>8, <2>1 DEF CreateNull
  <2> QED  BY <1>b, <2>3, <2>4
<1>9. CASE Callback(t)  BY <1>9, <1>a DEF Callback, BuffersBuilt, TypeOK
<1>10. CASE Unlock(t)  BY <1>10 DEF Unlock, locals, BuffersBuilt
<1> QED  BY <1>2, <1>3, <1>4, <1>5, <1>6, <1>7, <1>8, <1>9, <1>10 DEF Inside

LEMMA AlwaysBuilt == Spec => [](TypeInv /\ BuffersBuilt)
PROOF
<1>1. Init => BuffersBuilt  BY DEF Init, BuffersBuilt, AllBuiltBy
<1> QED  BY <1>1, TypeInit, TypeNext, BuiltNext, PTL DEF Spec

(* The kinds of packets apart.                                             *)
LEMMA Kinds ==
    /\ \A p : OfTable(p) => p.load.kind \in {"pat", "pmt"} /\ p.load # NoLoad
    /\ \A p : OfClock(p) => p.load.kind = "none"
    /\ NullPacket.pid # PcrPid
PROOF
<1>1. ASSUME NEW cc PROVE createPat(cc).load.kind = "pat" /\ createPmt(cc).load.kind = "pmt"
  BY DEF createPat, createPmt, TablePacket, PatLoad, PmtLoad
<1>2. NoLoad.kind = "none"  BY DEF NoLoad
<1>3. \A n : PcrPacket(n).load = NoLoad  BY DEF PcrPacket
<1>4. NullPacket.load = NoLoad /\ NullPacket.pid # PcrPid
  BY MuxerAssumption DEF NullPacket, EsPids, MPEGTS_NULL_PACKET_PID
<1>5. ASSUME NEW p, OfTable(p) PROVE p.load.kind \in {"pat", "pmt"} /\ p.load # NoLoad
  <2>1. p.load.kind \in {"pat", "pmt"}  BY <1>1, <1>5 DEF OfTable
  <2> QED  BY <1>2, <2>1
<1>6. ASSUME NEW p, OfClock(p) PROVE p.load.kind = "none"
  BY <1>2, <1>3, <1>4, <1>6, Zenon DEF OfClock
<1> QED  BY <1>4, <1>5, <1>6

(***************************************************************************)
(* For all PIDs, streams and clock values, whatever was encoded before:    *)
(* the bytes of the tables createPat and createPmt write are parsed back   *)
(* to what they announce and pass the CRC check of any receiver. The bytes *)
(* of createPcr hold its clock where readPcr looks for it, but this parser *)
(* drops the packet, whose field is one byte longer than it allows.        *)
(***************************************************************************)
THEOREM TableBytesAlwaysRight == Spec => []TableBytesRight
PROOF
<1>1. TypeInv /\ BuffersBuilt => TableBytesRight
  <2> SUFFICES ASSUME TypeInv, BuffersBuilt, NEW t \in Threads, JustWritten(t), NEW i \in DOMAIN lSb[t],
                      NEW p, p = lSb[t][i], NEW d, d = BytesOfPacket(p, job[t])
               PROVE  /\ p.load.kind \in {"pat", "pmt"} =>
                            /\ Seen(d, p.load) = Timed(p)
                            /\ crc32(SubSeq(d, 6, 5 + 3 + Num(SectionHead_decode(d, 5).mSectionLength))) = {}
                      /\ p.pid = PcrPid /\ p.load = NoLoad =>
                            Seen(d, p.load) = Dropped /\ readPcr(d, TsHeaderBytes + 2) = Bin(p.af.pcr)
    BY Zenon DEF TableBytesRight
  <2>0. PmtPid \in EsPids /\ PcrPid \in EsPids  BY MuxerAssumption
  <2>1. BuiltBy(p, job[t], mDataPos[t])  BY Zenon DEF BuffersBuilt, AllBuiltBy
  <2>2. CASE OfTable(p)
    <3>1. p.load.kind \in {"pat", "pmt"} /\ p.load # NoLoad  BY <2>2, Kinds
    <3>2. TableRight(p, d)
      <4>1. PICK cc \in Cc : p = createPat(cc) \/ p = createPmt(cc)  BY <2>2, Zenon DEF OfTable
      <4>2. CASE p = createPat(cc)
        <5>1. p.load.kind = "pat" /\ p.cc = cc  BY <4>2 DEF createPat, TablePacket, PatLoad
        <5>2. d = PatBytes(cc)  BY <5>1 DEF BytesOfPacket
        <5> QED  BY <2>0, <4>2, <5>2, PatSeen
      <4>3. CASE p = createPmt(cc)
        <5>1. p.load.kind = "pmt" /\ p.cc = cc  BY <4>3 DEF createPmt, TablePacket, PmtLoad
        <5>2. d = PmtBytes(cc)  BY <5>1 DEF BytesOfPacket
        <5> QED  BY <4>3, <5>2, PmtSeen
      <4> QED  BY <4>1, <4>2, <4>3
    <3> QED  BY <3>1, <3>2, Zenon DEF TableRight
  <2>3. CASE OfClock(p)
    <3>1. p.load.kind = "none"  BY <2>3, Kinds
    <3> SUFFICES ASSUME p.pid = PcrPid, p.load = NoLoad
                 PROVE  Seen(d, p.load) = Dropped /\ readPcr(d, TsHeaderBytes + 2) = Bin(p.af.pcr)
      BY <3>1
    <3>2. PICK n \in Nat : p = PcrPacket(n)  BY <2>3, Kinds, Zenon DEF OfClock
    <3>3. p.af.pcr = n  BY <3>2 DEF PcrPacket
    <3>4. d = PcrPacketBytes(n)  BY <3>1, <3>3 DEF BytesOfPacket
    <3>5. Seen(d, NoLoad) = Dropped /\ readPcr(d, TsHeaderBytes + 2) = Bin(n)
      BY <2>0, <3>4, PcrSeen
    <3> QED  BY <3>3, <3>5, Zenon
  <2>4. CASE OfFrame(p, job[t], mDataPos[t])
    <3>1. mDataPos[t] > 0  BY <2>4, Zenon DEF OfFrame
    <3> QED  BY <3>1 DEF JustWritten
  <2> QED  BY <2>1, <2>2, <2>3, <2>4, Zenon DEF BuiltBy
<1> QED  BY <1>1, AlwaysBuilt, PTL

(***************************************************************************)
(* For every frame size, position, PID and counter and every combination   *)
(* of PCR, random access flag and timestamps: the bytes createPes writes,  *)
(* moves and stuffs are parsed back to the fields of the packet and end    *)
(* in the frame's next bytes, none of them overwritten.                    *)
(***************************************************************************)
THEOREM PesBytesAlwaysRight == Spec => []PesBytesRight
PROOF
<1>1. TypeInv /\ BuffersBuilt => PesBytesRight
  <2> SUFFICES ASSUME TypeInv, BuffersBuilt, NEW t \in Threads, lSb[t] # <<>>, Latest(t).load.kind = "pes"
               PROVE  FrameRight(Latest(t), LatestBytes(t))
    BY Zenon DEF PesBytesRight, FrameRight
  <2>1. PICK p : p = Latest(t)  OBVIOUS
  <2>2. BuiltBy(p, job[t], mDataPos[t])
    <3>1. lSb[t] \in Seq(Packet)  BY DEF TypeInv, TypeOK
    <3>2. Len(lSb[t]) \in DOMAIN lSb[t]  BY <3>1
    <3>3. AllBuiltBy(lSb[t], job[t], mDataPos[t])  BY DEF BuffersBuilt
    <3> QED  BY <2>1, <3>2, <3>3, Zenon DEF AllBuiltBy, Latest
  <2>3. ~OfTable(p) /\ ~OfClock(p)
    <3>1. OfTable(p) => p.load.kind \in {"pat", "pmt"}  BY Kinds
    <3>2. OfClock(p) => p.load.kind = "none"  BY Kinds
    <3> QED  BY <2>1, <3>1, <3>2
  <2>4. OfFrame(p, job[t], mDataPos[t])  BY <2>2, <2>3, Zenon DEF BuiltBy
  <2>5. PICK first \in BOOLEAN, pos \in Nat, cc \in Cc :
           pos < job[t].shape.size /\ p = PesPacket(job[t].shape, job[t].frame, first, pos, cc)
    BY <2>4, Zenon DEF OfFrame
  <2>6. PICK f \in FrameShapes, frame \in Frame : f = job[t].shape /\ frame = job[t].frame
    <3>1. job[t].op = "encode" /\ TypeOK  BY <2>4, Zenon DEF OfFrame, TypeInv
    <3> QED  BY <3>1, EncodeJobFields
  <2>7. pos < f.size /\ p = PesPacket(f, frame, first, pos, cc)  BY <2>5, <2>6, Zenon
  <2>8. p.cc = cc /\ p.pusi = first /\ p.load.run.from = pos
    BY <2>7, PesPacketLayout, PesPacketRun
  <2>9. LatestBytes(t) = PesPacketBytes(f, first, pos, cc)
    <3>1. LatestBytes(t) = BytesOfPacket(p, f)  BY <2>1, <2>6, Zenon DEF LatestBytes
    <3>2. p.load.kind = "pes"  BY <2>1, Zenon
    <3> QED  BY <2>8, <3>1, <3>2 DEF BytesOfPacket
  <2>10. ShapeOk(f)  BY ShapesOk
  <2>11. FrameRight(p, PesPacketBytes(f, first, pos, cc))  BY <2>7, <2>10, PesPacketSeen
  <2> QED  BY <2>1, <2>9, <2>11, Zenon
<1> QED  BY <1>1, AlwaysBuilt, PTL
=============================================================================
