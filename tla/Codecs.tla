------------------------------- MODULE Codecs -------------------------------
(***************************************************************************)
(* The bit layout of the packet structures (ts_packet.cpp), of timestamps  *)
(* and PCRs (common.cpp), and the checksum of the tables (crc.cpp). Every  *)
(* field is a word. encode and write... give the bytes they append to a    *)
(* buffer; decode and read... give what they find in the bytes d from      *)
(* offset p on, and a ...Bytes operator by how much they move on.          *)
(***************************************************************************)
EXTENDS SimpleBuffer, SequencesExt

(* The two bytes of a 16-bit word and back, and a 32-bit word.             *)
Bytes2(w) == <<Get(w, 8, 8), Get(w, 0, 8)>>
Bytes4(w) == <<Get(w, 24, 8), Get(w, 16, 8), Get(w, 8, 8), Get(w, 0, 8)>>
Word2(d, p) == Shl(d[p + 1], 8) \cup d[p + 2]
Word4(d, p) == Shl(Word2(d, p), 16) \cup Word2(d, p + 2)
-----------------------------------------------------------------------------
TsHeader == [mSyncByte : Byte, mTransportErrorIndicator : Word(1),
    mPayloadUnitStartIndicator : Word(1), mTransportPriority : Word(1), mPid : Word(13),
    mTransportScramblingControl : Word(2), mAdaptationFieldControl : Word(2),
    mContinuityCounter : Word(4)]
TsHeader_encode(h) ==
    LET lB1b2 == Put(h.mPid, 0, 13) \cup Put(h.mTransportPriority, 13, 1)
                   \cup Put(h.mPayloadUnitStartIndicator, 14, 1)
                   \cup Put(h.mTransportErrorIndicator, 15, 1)
        lB3 == Put(h.mContinuityCounter, 0, 4) \cup Put(h.mAdaptationFieldControl, 4, 2)
                 \cup Put(h.mTransportScramblingControl, 6, 2)
    IN  <<h.mSyncByte>> \o Bytes2(lB1b2) \o <<lB3>>
(* The priority bit is assigned to the error indicator, which is then      *)
(* assigned its own: mTransportPriority keeps its initial 0.               *)
TsHeader_decode(d, p) ==
    LET lB1b2 == Word2(d, p + 1)
        lB3 == d[p + 4]
    IN  [mSyncByte |-> d[p + 1], mPid |-> Get(lB1b2, 0, 13), mTransportPriority |-> {},
         mPayloadUnitStartIndicator |-> Get(lB1b2, 14, 1),
         mTransportErrorIndicator |-> Get(lB1b2, 15, 1),
         mContinuityCounter |-> Get(lB3, 0, 4),
         mAdaptationFieldControl |-> Get(lB3, 4, 2),
         mTransportScramblingControl |-> Get(lB3, 6, 2)]

(* The head that PAT and PMT sections share, but for the number after the  *)
(* length and the mask of the length. PATHeader::decode leaves mReserved0. *)
SectionHead == [mTableId : Byte, mSectionSyntaxIndicator : Word(1), mB0 : Word(1),
    mReserved0 : Word(2), mSectionLength : Word(12), number : Word(16), mReserved1 : Word(2),
    mVersionNumber : Word(5), mCurrentNextIndicator : Word(1), mSectionNumber : Byte,
    mLastSectionNumber : Byte]
SectionHead_encode(h, lengthBits) ==
    LET lB1b2 == Put(h.mSectionLength, 0, lengthBits) \cup Put(h.mReserved0, 12, 2)
                   \cup Put(h.mB0, 14, 1) \cup Put(h.mSectionSyntaxIndicator, 15, 1)
        lB5 == Put(h.mCurrentNextIndicator, 0, 1) \cup Put(h.mVersionNumber, 1, 5)
                 \cup Put(h.mReserved1, 6, 2)
    IN  <<h.mTableId>> \o Bytes2(lB1b2) \o Bytes2(h.number)
          \o <<lB5, h.mSectionNumber, h.mLastSectionNumber>>
SectionHead_decode(d, p) ==
    LET lB1b2 == Word2(d, p + 1)
        lB5 == d[p + 6]
    IN  [mTableId |-> d[p + 1], mSectionSyntaxIndicator |-> Get(lB1b2, 15, 1),
         mB0 |-> Get(lB1b2, 14, 1), mReserved0 |-> Get(lB1b2, 12, 2),
         mSectionLength |-> Get(lB1b2, 0, 12), number |-> Word2(d, p + 3),
         mReserved1 |-> Get(lB5, 6, 2), mVersionNumber |-> Get(lB5, 1, 5),
         mCurrentNextIndicator |-> Get(lB5, 0, 1),
         mSectionNumber |-> d[p + 7], mLastSectionNumber |-> d[p + 8]]

PATHeader_encode(h)    == SectionHead_encode(h, 12)
PATHeader_decode(d, p) == [SectionHead_decode(d, p) EXCEPT !.mReserved0 = {}]
PATHeaderBytes == 8

(* mEsInfo is read when there is one but never written.                    *)
ElementInfo == [mStreamType : Byte, mReserved0 : Word(3), mElementaryPid : Word(13),
    mReserved1 : Word(4), mEsInfoLength : Word(12)]
PMTElementInfo_encode(e) ==
    <<e.mStreamType>>
      \o Bytes2(Put(e.mElementaryPid, 0, 13) \cup Put(e.mReserved0, 13, 3))
      \o Bytes2(Put(e.mEsInfoLength, 0, 12) \cup Put(e.mReserved1, 12, 4))
PMTElementInfo_decode(d, p) ==
    LET lB1b2 == Word2(d, p + 1)
        lB3b4 == Word2(d, p + 3)
    IN  [mStreamType |-> d[p + 1], mElementaryPid |-> Get(lB1b2, 0, 13),
         mReserved0 |-> Get(lB1b2, 13, 3), mEsInfoLength |-> Get(lB3b4, 0, 12),
         mReserved1 |-> Get(lB3b4, 12, 4)]
PMTElementInfo_size(e) == 5 + Num(e.mEsInfoLength)

PMTHeader == [head : SectionHead, mReserved2 : Word(3), mPcrPid : Word(13),
    mReserved3 : Word(4), mProgramInfoLength : Word(12), mInfos : Seq(ElementInfo)]
PMTHeader_encode(h) ==
    SectionHead_encode(h.head, 16)
      \o Bytes2(Put(h.mPcrPid, 0, 13) \cup Put(h.mReserved2, 13, 3))
      \o Bytes2(Put(h.mProgramInfoLength, 0, 12) \cup Put(h.mReserved3, 12, 4))
      \o FlattenSeq([i \in DOMAIN h.mInfos |-> PMTElementInfo_encode(h.mInfos[i])])
(* Entries are read until the section length, less the CRC, is used up.    *)
EntriesEnd(p, mSectionLength) == p + 3 + mSectionLength - 4
PMTHeader_decode(d, p) ==
    LET head == SectionHead_decode(d, p)
        mProgramInfoLength == Get(Word2(d, p + 10), 0, 12)
        infos[q \in Nat] ==
            IF q >= EntriesEnd(p, Num(head.mSectionLength)) THEN <<>>
            ELSE LET e == PMTElementInfo_decode(d, q)
                 IN  <<e>> \o infos[q + PMTElementInfo_size(e)]
    IN  [head |-> head, mReserved2 |-> Get(Word2(d, p + 8), 13, 3),
         mPcrPid |-> Get(Word2(d, p + 8), 0, 13), mReserved3 |-> Get(Word2(d, p + 10), 12, 4),
         mProgramInfoLength |-> mProgramInfoLength,
         mInfos |-> infos[p + 12 + Num(mProgramInfoLength)]]
PMTHeader_size(h) == 12 + FoldSeq(LAMBDA e, n : PMTElementInfo_size(e) + n, 0, h.mInfos)
(* A PMT announces the length of its entries, of five bytes each.          *)
WellFormedPmt(h) ==
    /\ h \in PMTHeader
    /\ h.mProgramInfoLength = {}
    /\ \A i \in DOMAIN h.mInfos : h.mInfos[i].mEsInfoLength = {}
    /\ Num(h.head.mSectionLength) = 12 + 5 * Len(h.mInfos) - 3 + 4
-----------------------------------------------------------------------------
AdaptationFieldHeader == [mAdaptationFieldLength : Byte,
    mAdaptationFieldExtensionFlag : Word(1), mTransportPrivateDataFlag : Word(1),
    mSplicingPointFlag : Word(1), mOpcrFlag : Word(1), mPcrFlag : Word(1),
    mElementaryStreamPriorityIndicator : Word(1), mRandomAccessIndicator : Word(1),
    mDiscontinuityIndicator : Word(1)]
NoAdaptationField == [mAdaptationFieldLength |-> {}, mAdaptationFieldExtensionFlag |-> {},
    mTransportPrivateDataFlag |-> {}, mSplicingPointFlag |-> {}, mOpcrFlag |-> {},
    mPcrFlag |-> {}, mElementaryStreamPriorityIndicator |-> {},
    mRandomAccessIndicator |-> {}, mDiscontinuityIndicator |-> {}]
AdaptationFieldFlags(a) ==
    Put(a.mAdaptationFieldExtensionFlag, 0, 1) \cup Put(a.mTransportPrivateDataFlag, 1, 1)
      \cup Put(a.mSplicingPointFlag, 2, 1) \cup Put(a.mOpcrFlag, 3, 1)
      \cup Put(a.mPcrFlag, 4, 1) \cup Put(a.mElementaryStreamPriorityIndicator, 5, 1)
      \cup Put(a.mRandomAccessIndicator, 6, 1) \cup Put(a.mDiscontinuityIndicator, 7, 1)
(* A field of length 0 is its length byte and nothing else.                *)
AdaptationFieldHeader_encode(a) ==
    IF a.mAdaptationFieldLength = {} THEN <<{}>>
    ELSE <<a.mAdaptationFieldLength, AdaptationFieldFlags(a)>>
AdaptationFieldHeader_decode(d, p) ==
    IF d[p + 1] = {} THEN NoAdaptationField
    ELSE LET lVal == d[p + 2]
         IN  [mAdaptationFieldLength |-> d[p + 1], mAdaptationFieldExtensionFlag |-> Get(lVal, 0, 1),
              mTransportPrivateDataFlag |-> Get(lVal, 1, 1), mSplicingPointFlag |-> Get(lVal, 2, 1),
              mOpcrFlag |-> Get(lVal, 3, 1), mPcrFlag |-> Get(lVal, 4, 1),
              mElementaryStreamPriorityIndicator |-> Get(lVal, 5, 1),
              mRandomAccessIndicator |-> Get(lVal, 6, 1), mDiscontinuityIndicator |-> Get(lVal, 7, 1)]

PESHeader == [mPacketStartCode : Word(24), mStreamId : Byte, mPesPacketLength : Word(16),
    mOriginalOrCopy : Word(1), mCopyright : Word(1), mDataAlignmentIndicator : Word(1),
    mPesPriority : Word(1), mPesScramblingControl : Word(2), mMarkerBits : Word(2),
    mPesExtFlag : Word(1), mPesCrcFlag : Word(1), mAddCopyInfoFlag : Word(1),
    mDsmTrickModeFlag : Word(1), mEsRateFlag : Word(1), mEscrFlag : Word(1),
    mPtsDtsFlags : Word(2), mHeaderDataLength : Byte]
PESHeader_encode(h) ==
    LET lB6 == Put(h.mOriginalOrCopy, 0, 1) \cup Put(h.mCopyright, 1, 1)
                 \cup Put(h.mDataAlignmentIndicator, 2, 1) \cup Put(h.mPesPriority, 3, 1)
                 \cup Put(h.mPesScramblingControl, 4, 2) \cup Put(h.mMarkerBits, 6, 2)
        lB7 == Put(h.mPesExtFlag, 0, 1) \cup Put(h.mPesCrcFlag, 1, 1)
                 \cup Put(h.mAddCopyInfoFlag, 2, 1) \cup Put(h.mDsmTrickModeFlag, 3, 1)
                 \cup Put(h.mEsRateFlag, 4, 1) \cup Put(h.mEscrFlag, 5, 1)
                 \cup Put(h.mPtsDtsFlags, 6, 2)
    IN  Bytes4(Put(h.mPacketStartCode, 8, 24) \cup h.mStreamId)
          \o Bytes2(h.mPesPacketLength) \o <<lB6, lB7, h.mHeaderDataLength>>
PESHeader_decode(d, p) ==
    LET lB6 == d[p + 7]
        lB7 == d[p + 8]
    IN  [mPacketStartCode |-> Get(Word4(d, p), 8, 24), mStreamId |-> Get(Word4(d, p), 0, 8),
         mPesPacketLength |-> Word2(d, p + 4),
         mOriginalOrCopy |-> Get(lB6, 0, 1), mCopyright |-> Get(lB6, 1, 1),
         mDataAlignmentIndicator |-> Get(lB6, 2, 1), mPesPriority |-> Get(lB6, 3, 1),
         mPesScramblingControl |-> Get(lB6, 4, 2), mMarkerBits |-> Get(lB6, 6, 2),
         mPesExtFlag |-> Get(lB7, 0, 1), mPesCrcFlag |-> Get(lB7, 1, 1),
         mAddCopyInfoFlag |-> Get(lB7, 2, 1), mDsmTrickModeFlag |-> Get(lB7, 3, 1),
         mEsRateFlag |-> Get(lB7, 4, 1), mEscrFlag |-> Get(lB7, 5, 1),
         mPtsDtsFlags |-> Get(lB7, 6, 2), mHeaderDataLength |-> d[p + 9]]
-----------------------------------------------------------------------------
(* 33 bits of PTS or DTS in five bytes, a marker bit after each part.      *)
MutwritePts(lFb, lPts) ==                    \* 32 bits, as of a smaller integer
    <<(Shl(lFb, 4) \cup Shl(Get(lPts, 30, 2), 1) \cup {0}) \cap Low(8)>>
      \o Bytes2(Shl(Get(lPts, 15, 15), 1) \cup {0}) \o Bytes2(Shl(Get(lPts, 0, 15), 1) \cup {0})
writePts(lFb, lPts) ==
    <<(Shl(lFb, 4) \cup Shl(Get(lPts, 30, 3), 1) \cup {0}) \cap Low(8)>>
      \o Bytes2(Shl(Get(lPts, 15, 15), 1) \cup {0}) \o Bytes2(Shl(Get(lPts, 0, 15), 1) \cup {0})
readPts(d, p) ==
    Shl(Get(d[p + 1], 1, 3), 30) \cup Shl(Get(Word2(d, p + 1), 1, 15), 15)
      \cup Get(Word2(d, p + 3), 1, 15)

(* 33 bits of PCR in six bytes, the 9 bits of the extension left 0.        *)
writePcr(lPcr) ==
    <<Get(lPcr, 25, 8), Get(lPcr, 17, 8), Get(lPcr, 9, 8), Get(lPcr, 1, 8),
      Put(lPcr, 7, 1) \cup 1 .. 6, {}>>
readPcr(d, p) ==
    Put(d[p + 1], 25, 8) \cup Put(d[p + 2], 17, 8) \cup Put(d[p + 3], 9, 8)
      \cup Put(d[p + 4], 1, 8) \cup Get(d[p + 5], 7, 1)
-----------------------------------------------------------------------------
(* The table holds the remainder of each byte by the polynomial.           *)
CrcPolynomial == {26, 23, 22, 16, 12, 11, 10, 8, 7, 5, 4, 2, 1, 0}
Divided(w) == IF 31 \in w THEN Xor(Shl(w \ {31}, 1), CrcPolynomial) ELSE Shl(w, 1)
crcTable ==
    LET divided[n \in 0 .. 8] == IF n = 0 THEN [w \in Word(32) |-> w]
                                 ELSE [w \in Word(32) |-> divided[n - 1][Divided(w)]]
    IN  [b \in Byte |-> divided[8][Shl(b, 24)]]
crc32(bytes) ==
    FoldLeft(LAMBDA lCrc, b : Xor(Shl(lCrc, 8) \cap Low(32), crcTable[Xor(Get(lCrc, 24, 8), b)]),
             Low(32), bytes)
=============================================================================
