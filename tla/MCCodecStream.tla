--------------------------- MODULE MCCodecStream ---------------------------
(***************************************************************************)
(* Structures for CodecStream: all bits of every field set, every other    *)
(* one, or none; tables of no, one and two entries. Timestamps differ in   *)
(* each of their parts and have bits above the 33 that are sent.           *)
(***************************************************************************)
EXTENDS CodecStream

OfKind(kind, vals) == {[kind |-> kind, val |-> v] : v \in vals}

(* What a field of n bits is filled with.                                  *)
Fills == {[n \in 1 .. 64 |-> Low(n)], [n \in 1 .. 64 |-> {b \in Low(n) : b % 2 = 0}],
          [n \in 1 .. 64 |-> {}]}

TsHeaderOf(F) ==
    [mSyncByte |-> Bin(71), mTransportErrorIndicator |-> F[1], mPayloadUnitStartIndicator |-> F[1],
     mTransportPriority |-> F[1], mPid |-> F[13], mTransportScramblingControl |-> F[2],
     mAdaptationFieldControl |-> F[2], mContinuityCounter |-> F[4]]
SectionHeadOf(F) ==
    [mTableId |-> F[8], mSectionSyntaxIndicator |-> F[1], mB0 |-> F[1], mReserved0 |-> F[2],
     mSectionLength |-> F[12], number |-> F[16], mReserved1 |-> F[2], mVersionNumber |-> F[5],
     mCurrentNextIndicator |-> F[1], mSectionNumber |-> F[8], mLastSectionNumber |-> F[8]]
ElementInfoOf(F) ==
    [mStreamType |-> F[8], mReserved0 |-> F[3], mElementaryPid |-> F[13], mReserved1 |-> F[4],
     mEsInfoLength |-> {}]
PmtOf(F, n) ==
    [head |-> [SectionHeadOf(F) EXCEPT !.mSectionLength = Bin(12 + 5 * n - 3 + 4)],
     mReserved2 |-> F[3], mPcrPid |-> F[13], mReserved3 |-> F[4], mProgramInfoLength |-> {},
     mInfos |-> [i \in 1 .. n |-> ElementInfoOf(F)]]
AdaptationFieldOf(F, len) ==
    [mAdaptationFieldLength |-> len, mAdaptationFieldExtensionFlag |-> F[1],
     mTransportPrivateDataFlag |-> F[1], mSplicingPointFlag |-> F[1], mOpcrFlag |-> F[1],
     mPcrFlag |-> F[1], mElementaryStreamPriorityIndicator |-> F[1],
     mRandomAccessIndicator |-> F[1], mDiscontinuityIndicator |-> F[1]]
PesHeaderOf(F) ==
    [mPacketStartCode |-> F[24], mStreamId |-> F[8], mPesPacketLength |-> F[16],
     mOriginalOrCopy |-> F[1], mCopyright |-> F[1], mDataAlignmentIndicator |-> F[1],
     mPesPriority |-> F[1], mPesScramblingControl |-> F[2], mMarkerBits |-> F[2],
     mPesExtFlag |-> F[1], mPesCrcFlag |-> F[1], mAddCopyInfoFlag |-> F[1],
     mDsmTrickModeFlag |-> F[1], mEsRateFlag |-> F[1], mEscrFlag |-> F[1],
     mPtsDtsFlags |-> F[2], mHeaderDataLength |-> F[8]]

MCStructures ==
    OfKind("ts", {TsHeaderOf(F) : F \in Fills})
      \cup OfKind("pat", {SectionHeadOf(F) : F \in Fills})
      \cup OfKind("pmt", {PmtOf(F, n) : F \in Fills, n \in 0 .. 2})
      \cup OfKind("af", {AdaptationFieldOf(F, len) : F \in Fills, len \in {{}, {0}}})
      \cup OfKind("pes", {PesHeaderOf(F) : F \in Fills})
      \cup OfKind("pts", {F[40] : F \in Fills} \cup {{0, 14}, {15, 29}, {30, 32}})
      \cup OfKind("pcr", {F[40] : F \in Fills} \cup {{0}, {1, 32}, {8, 9, 16, 17, 24, 25}})
      \cup UNION {OfKind(k[1], {F[8 * k[2]] : F \in Fills} \cup {{0}}) :
                    k \in {<<"w1", 1>>, <<"w2", 2>>, <<"w3", 3>>, <<"w4", 4>>, <<"w8", 8>>}}
      \cup OfKind("bytes", {<<{0}, {7}>>})
=============================================================================
