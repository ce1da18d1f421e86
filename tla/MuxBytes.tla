------------------------------ MODULE MuxBytes ------------------------------
(***************************************************************************)
(* The bytes behind the packets of Muxer: what createPat, createPmt,       *)
(* createPes and createPcr do to a SimpleBuffer, and what the parser of    *)
(* the demultiplexer makes of the result. Frame data is not spelled out:   *)
(* byte i of a frame is the word {8 + i}, which no header byte is.         *)
(***************************************************************************)
EXTENDS Muxer, Codecs

FF(n)      == [i \in 1 .. n |-> Low(8)]
Data(from, n) == [i \in 1 .. n |-> {8 + from + i - 1}]
Padded(d)  == d \o FF(kTsPacketSize_188 - Len(d))
Flag(b)    == IF b THEN {0} ELSE {}

HeaderBytes(pid, pusi, afc, cc) ==
    TsHeader_encode([mSyncByte |-> Bin(71), mTransportErrorIndicator |-> {},
        mPayloadUnitStartIndicator |-> Flag(pusi), mTransportPriority |-> {}, mPid |-> Bin(pid),
        mTransportScramblingControl |-> {}, mAdaptationFieldControl |-> Bin(afc),
        mContinuityCounter |-> Bin(cc)])
AfBytesOf(af) ==
    AdaptationFieldHeader_encode([NoAdaptationField EXCEPT
        !.mAdaptationFieldLength = Bin(af.len), !.mRandomAccessIndicator = Flag(af.ra),
        !.mPcrFlag = Flag(af.pcr # NoPcr)])
      \o (IF af.pcr = NoPcr THEN <<>> ELSE writePcr(Bin(af.pcr)))

(* The empty adaptation field of a table packet is its pointer field.      *)
TableHead(tableId, length) ==
    [mTableId |-> Bin(tableId), mSectionSyntaxIndicator |-> {0}, mB0 |-> {}, mReserved0 |-> {0, 1},
     mSectionLength |-> Bin(length), number |-> {}, mReserved1 |-> {0, 1}, mVersionNumber |-> {},
     mCurrentNextIndicator |-> {0}, mSectionNumber |-> {}, mLastSectionNumber |-> {}]
Section(d)   == SubSeq(d, 6, Len(d))
MutWithCrc(d) == Padded(d \o Bytes4(crc32(SubSeq(d, 5, Len(d)))))  \* counts the pointer field in
WithCrc(d) == Padded(d \o Bytes4(crc32(Section(d))))
PatBytes(cc) ==
    WithCrc(HeaderBytes(MPEGTS_PAT_PID, TRUE, mPayloadOnly, cc) \o AfBytesOf(NoAf)
              \o PATHeader_encode(TableHead(0, 4 + 4 + 5))
              \o Bytes2(Bin(1)) \o Bytes2(13 .. 15 \cup Bin(PmtPid)))
PmtHeader ==
    LET infos == [i \in DOMAIN Streams |->
                    [mStreamType |-> Bin(Streams[i].type), mReserved0 |-> 0 .. 2,
                     mElementaryPid |-> Bin(Streams[i].pid), mReserved1 |-> 0 .. 3,
                     mEsInfoLength |-> {}]]
        table == [head |-> [TableHead(2, 0) EXCEPT !.number = Bin(1)], mReserved2 |-> 0 .. 2,
                  mPcrPid |-> Bin(PcrPid), mReserved3 |-> 0 .. 3, mProgramInfoLength |-> {},
                  mInfos |-> infos]
    IN  [table EXCEPT !.head.mSectionLength = Bin(PMTHeader_size(table) - 3 + 4)]
PmtBytes(cc) ==
    WithCrc(HeaderBytes(PmtPid, TRUE, mPayloadOnly, cc) \o AfBytesOf(NoAf) \o PMTHeader_encode(PmtHeader))

PcrPacketBytes(pcr) ==
    Padded(HeaderBytes(PcrPid, FALSE, mAdaptionOnly, 0) \o AfBytesOf(PcrPacket(pcr).af))
-----------------------------------------------------------------------------
(* The PES header of a frame with its timestamps.                          *)
PesHeaderBytesOf(pes) ==
    PESHeader_encode([mPacketStartCode |-> {0}, mStreamId |-> {}, mPesPacketLength |-> Bin(pes.len),
        mOriginalOrCopy |-> {0}, mCopyright |-> {}, mDataAlignmentIndicator |-> {},
        mPesPriority |-> {}, mPesScramblingControl |-> {}, mMarkerBits |-> {1},
        mPesExtFlag |-> {}, mPesCrcFlag |-> {}, mAddCopyInfoFlag |-> {},
        mDsmTrickModeFlag |-> {}, mEsRateFlag |-> {}, mEscrFlag |-> {},
        mPtsDtsFlags |-> Bin(pes.flags), mHeaderDataLength |-> Bin(pes.hdl)])
      \o (IF pes.flags = 3 THEN writePts({0, 1}, Bin(pes.pts)) \o writePts({0}, Bin(pes.dts))
                           ELSE writePts({1}, Bin(pes.pts)))

(* A length byte, a byte of clear flags if there is room, and filler.      *)
MutStuffingField(n) == <<Bin(n - 2), {}>> \o SubSeq(FF(n), 3, n)  \* flags left out of the length
StuffingField(n) == IF n = 1 THEN <<{}>> ELSE <<Bin(n - 1), {}>> \o FF(n - 2)

(* Stuffing moves what follows the adaptation field (or the header) up and *)
(* fills the gap with more adaptation field (or makes one).                *)
MovedUp(d, base, pos, n) == Overwritten(d, base + n, SubSeq(d, base + 1, pos))
Lengthened(d, base, pos, n) ==
    [Overwritten(MovedUp(d, base, pos, n), base, FF(n)) EXCEPT ![5] = Bin(Num(@) + n)]
FieldMade(d, base, pos, n) ==
    [Overwritten(MovedUp(d, base, pos, n), base, StuffingField(n)) EXCEPT ![4] = @ \cup {5}]
StuffedBuffer(lPacket, lStuffSize) ==
    LET d   == lPacket.data
        new == IF 5 \in d[4] THEN Lengthened(d, 5 + Num(d[5]), lPacket.pos, lStuffSize)
                             ELSE FieldMade(d, TsHeaderBytes, lPacket.pos, lStuffSize)
    IN  skip([lPacket EXCEPT !.data = new], lStuffSize)

(* One turn of the loop of createPes, down to the bytes: the head of the   *)
(* packet, and what is left of 188 bytes filled from the frame.            *)
PesHead(p) ==
    HeaderBytes(p.pid, p.pusi, p.afc, p.cc)
      \o (IF hasAdaptationField(p.afc) THEN AfBytesOf(p.af) ELSE <<>>)
      \o (IF p.pusi THEN PesHeaderBytesOf(p.load.pes) ELSE <<>>)
PesBody(head, from, lInSize) ==
    LET lPos == Len(head)
        lBodySize == kTsPacketSize_188 - lPos
        lPacket == skip(append(NoBytes, head \o FilledWith(lBodySize, {}).data), lPos)
        stuffed == StuffedBuffer(lPacket, lBodySize - lInSize)
    IN  IF lBodySize <= lInSize
        THEN setData(lPacket, lPos, Data(from, lBodySize)).data
        ELSE setData(stuffed, stuffed.pos, Data(from, lInSize)).data
PesPacketBytes(f, first, pos, cc) ==
    PesBody(PesHead(Unstuffed(f, [size |-> f.size], first, pos, cc)), pos, f.size - pos)

BytesOfPacket(p, f) ==
    CASE p.load.kind = "pat" -> PatBytes(p.cc)
      [] p.load.kind = "pmt" -> PmtBytes(p.cc)
      [] p.load.kind = "pes" -> PesPacketBytes(f, p.pusi, p.load.run.from, p.cc)
      [] p.load.kind = "none" /\ p.pid = PcrPid -> PcrPacketBytes(p.af.pcr)
      [] OTHER -> HeaderBytes(p.pid, p.pusi, p.afc, p.cc)
-----------------------------------------------------------------------------
(***************************************************************************)
(* The same bytes as parseTsPacket reads them.                             *)
(***************************************************************************)
(* Times stay words: 33 bits are more than TLC's integers have.            *)
Times(pes) == [pes EXCEPT !.pts = Bin(@), !.dts = Bin(@)]
TimedAf(af) == [af EXCEPT !.pcr = IF @ = NoPcr THEN {} ELSE {Bin(@)}]
TimedLoad(load) == IF load.kind = "pes" THEN [load EXCEPT !.pes = Times(@)] ELSE load
Timed(p) == [p EXCEPT !.af = TimedAf(@), !.load = TimedLoad(@)]
(* The adaptation field, its PCR only on the PID the PMT names for it; a   *)
(* field that is longer than the parser allows makes it drop the packet.   *)
SeenAf(d, pid) ==
    LET a == AdaptationFieldHeader_decode(d, TsHeaderBytes)
        shouldParsePcr == pid = PcrPid
    IN  [len |-> Num(a.mAdaptationFieldLength), disc |-> a.mDiscontinuityIndicator # {},
         ra |-> a.mRandomAccessIndicator # {},
         pcr |-> IF a.mPcrFlag # {} /\ shouldParsePcr THEN {readPcr(d, TsHeaderBytes + 2)} ELSE {}]
FieldTooLong(af) == af.len > kTsPacketSize_188 - TsHeaderBytes - 2
Dropped == [bytes |-> 0]
SeenPat(d, p) ==
    LET head == PATHeader_decode(d, p)
        at   == p + PATHeaderBytes
    IN  PatLoad([i \in 1 .. (Num(head.mSectionLength) - 5 - 4) \div 4 |->
                   [number |-> Num(Word2(d, at + 4 * i - 4)),
                    pmt |-> Num(Word2(d, at + 4 * i - 2) \cap Low(13))]])
SeenPmt(d, p) ==
    LET h == PMTHeader_decode(d, p)
    IN  PmtLoad(h.head.mB0 = {} /\ h.head.mSectionSyntaxIndicator = {0}, Num(h.mPcrPid),
                [i \in DOMAIN h.mInfos |-> [type |-> Num(h.mInfos[i].mStreamType),
                                            pid |-> Num(h.mInfos[i].mElementaryPid)]])
SeenPes(d, p) ==
    LET h == PESHeader_decode(d, p)
        flags == Num(h.mPtsDtsFlags)
        pts == readPts(d, p + PesHeaderBytes)
    IN  [len |-> Num(h.mPesPacketLength), hdl |-> Num(h.mHeaderDataLength), flags |-> flags,
         marker |-> h.mMarkerBits = {1}, pts |-> pts,
         dts |-> IF flags = 3 THEN readPts(d, p + PesHeaderBytes + TimestampBytes) ELSE pts]
Seen(d, like) ==
    LET h == TsHeader_decode(d, 0)
        pid == Num(h.mPid)
        afc == Num(h.mAdaptationFieldControl)
        af == IF hasAdaptationField(afc) THEN SeenAf(d, pid) ELSE [NoAf EXCEPT !.pcr = {}]
        start == TsHeaderBytes + IF hasAdaptationField(afc) THEN 1 + af.len ELSE 0
        pusi == h.mPayloadUnitStartIndicator = {0}
        pes == IF pusi THEN SeenPes(d, start) ELSE Times(NoPes)
        dataAt == start + IF pusi THEN PesHeaderBytes + pes.hdl ELSE 0
        load == CASE ~hasPayload(afc) \/ like.kind = "none" -> NoLoad
                  [] like.kind = "pat" -> SeenPat(d, start + 1 + Num(d[start + 1]))
                  [] like.kind = "pmt" -> SeenPmt(d, start + 1 + Num(d[start + 1]))
                  [] like.kind = "pes" -> PesLoad(pes, [like.run EXCEPT !.len = Len(d) - dataAt])
    IN  IF FieldTooLong(af) THEN Dropped
        ELSE [pid |-> pid, pusi |-> pusi, afc |-> afc, cc |-> Num(h.mContinuityCounter), af |-> af,
              bytes |-> Len(d), load |-> load]

Latest(t) == lSb[t][Len(lSb[t])]
LatestBytes(t) == BytesOfPacket(Latest(t), job[t].shape)
-----------------------------------------------------------------------------
(***************************************************************************)
(* The packets of a frame mean the same in bytes: what createPes writes,   *)
(* moves and stuffs, for each frame size and kind of header, is parsed     *)
(* back to the fields and the stuffing of the packet, and its last bytes   *)
(* are the frame's next bytes, none overwritten.                           *)
(***************************************************************************)
PesBytesRight ==
    \A t \in Threads : lSb[t] # <<>> /\ Latest(t).load.kind = "pes" =>
        LET p == Latest(t)
            d == LatestBytes(t)
        IN  /\ Seen(d, p.load) = Timed(p)
            /\ SubSeq(d, Len(d) - p.load.run.len + 1, Len(d)) = Data(p.load.run.from, p.load.run.len)

(***************************************************************************)
(* PAT and PMT packets are parsed back to what they announce, and the CRC  *)
(* of a table covers its section exactly, so that a receiver that checks   *)
(* it, as this demultiplexer does not, accepts the table. A PCR packet     *)
(* holds its PCR where readPcr looks for it, and yet this parser drops it: *)
(* createPcr fills the packet with a field of 183 bytes, and               *)
(* parseAdaptationField allows 182.                                        *)
(***************************************************************************)
JustWritten(t) == pc[t] \in {"pes", "out"} /\ mDataPos[t] = 0
TableBytesRight ==
    \A t \in Threads : JustWritten(t) => \A i \in DOMAIN lSb[t] :
        LET p == lSb[t][i]
            d == BytesOfPacket(p, job[t])
            length == Num(SectionHead_decode(d, 5).mSectionLength)
        IN  /\ p.load.kind \in {"pat", "pmt"} => /\ Seen(d, p.load) = Timed(p)
                                                 /\ crc32(SubSeq(d, 6, 5 + 3 + length)) = {}
            /\ p.pid = PcrPid /\ p.load = NoLoad => /\ Seen(d, p.load) = Dropped
                                                    /\ readPcr(d, TsHeaderBytes + 2) = Bin(p.af.pcr)
=============================================================================
