----------------------------- MODULE MCDemuxer -----------------------------
(***************************************************************************)
(* Instances of Demuxer for TLC.                                           *)
(***************************************************************************)
EXTENDS Demuxer

TsPacket(pid, pusi, cc, af, load) ==
    [pid |-> pid, pusi |-> pusi, cc |-> cc, af |-> af, load |-> load, bytes |-> kTsPacketSize_188,
     afc |-> IF load = NoLoad THEN mAdaptionOnly
             ELSE IF af = NoAf THEN mPayloadOnly ELSE mPayloadAdaptionBoth]
Af(len, disc, ra, pcr) == [len |-> len, disc |-> disc, ra |-> ra, pcr |-> pcr]

VideoPid == 256
AudioPid == 257
Video == [type |-> 27, pid |-> VideoPid]
Audio == [type |-> 15, pid |-> AudioPid]

Program(number, pmt) == [number |-> number, pmt |-> pmt]
Pat(cc, programs) == TsPacket(MPEGTS_PAT_PID, TRUE, cc, NoAf, PatLoad(programs))
Pmt(pid, pusi, ok, infos) == TsPacket(pid, pusi, 0, NoAf, PmtLoad(ok, VideoPid, infos))

Pes(len, hdl, flags, marker, pts) ==
    PesLoad([len |-> len, hdl |-> hdl, flags |-> flags, marker |-> marker,
             pts |-> pts, dts |-> pts - 1], Run(0, 0, 0))
More == PesLoad(NoPes, Run(0, 0, 0))

(* Bytes of data in an audio start packet and in a packet of nothing else. *)
FirstData == kTsPacketSize_188 - TsHeaderBytes - PesHeaderBytes - TimestampBytes
NextData  == kTsPacketSize_188 - TsHeaderBytes
AudioPes(size) == Pes(3 + TimestampBytes + size, TimestampBytes, 2, TRUE, 4)

GoodTables == <<Pat(0, <<Program(1, 100)>>), Pmt(100, TRUE, TRUE, <<Audio, Video>>)>>

(***************************************************************************)
(* Streams. Video frames have no size, audio frames one or two packets.    *)
(* Packets may come in any order, again, or not at all. Among them are a   *)
(* start packet with nothing but its PES header, a corrupt start packet,   *)
(* packets with a discontinuity flag, without payload, with an adaptation  *)
(* field too long for the demuxer, and null packets.                      *)
(***************************************************************************)
VideoStart == TsPacket(VideoPid, TRUE, 0, Af(7, FALSE, TRUE, 5), Pes(0, 10, 3, TRUE, 9))
StreamArrivals ==
    {VideoStart,
     TsPacket(VideoPid, FALSE, 1, NoAf, More),
     TsPacket(VideoPid, TRUE, 2, Af(164, FALSE, FALSE, NoPcr), Pes(0, 10, 3, TRUE, 7)),
     TsPacket(VideoPid, TRUE, 9, Af(7, TRUE, FALSE, 6), Pes(0, 5, 2, TRUE, 8)),
     TsPacket(VideoPid, FALSE, 1, Af(182, FALSE, FALSE, 7), NoLoad),
     TsPacket(VideoPid, FALSE, 1, Af(183, FALSE, FALSE, 8), NoLoad),
     TsPacket(AudioPid, TRUE, 0, NoAf, AudioPes(FirstData)),
     TsPacket(AudioPid, TRUE, 1, NoAf, AudioPes(FirstData + NextData)),
     TsPacket(AudioPid, FALSE, 2, NoAf, More),
     TsPacket(AudioPid, TRUE, 3, NoAf, Pes(100, 5, 2, FALSE, 3)),
     TsPacket(AudioPid, TRUE, 4, NoAf, Pes(100, 0, 2, TRUE, 2)),
     TsPacket(MPEGTS_NULL_PACKET_PID, FALSE, 0, NoAf, More)}

(***************************************************************************)
(* Tables: two PATs that disagree, one without programs, PMTs on either    *)
(* PID, rejected, continued and good ones, with streams in between.        *)
(***************************************************************************)
TableArrivals ==
    {Pat(0, <<Program(1, 100)>>),
     Pat(1, <<Program(0, 16), Program(1, 102), Program(2, 101)>>),
     Pat(2, <<Program(0, 16)>>),
     Pmt(100, TRUE, FALSE, <<Video>>),
     Pmt(100, TRUE, TRUE, <<Audio>>),
     Pmt(100, FALSE, TRUE, <<>>),
     Pmt(101, TRUE, TRUE, <<Video>>),
     TsPacket(AudioPid, TRUE, 0, NoAf, AudioPes(FirstData)),
     VideoStart}

MCArrivals == StreamArrivals \cup TableArrivals \cup Range(GoodTables)

(***************************************************************************)
(* Either any five packets of the tables, or the tables announcing both    *)
(* streams and then any four packets of the streams.                       *)
(***************************************************************************)
AnyTables == Len(arrived) < 5 /\ Range(arrived') \subseteq TableArrivals
AnyStream == \/ IsPrefix(arrived', GoodTables)
             \/ /\ IsPrefix(GoodTables, arrived)
                /\ Range(SubSeq(arrived', 3, Len(arrived'))) \subseteq StreamArrivals
MCSpec == Init /\ [][Next /\ (AnyTables \/ AnyStream)]_vars
=============================================================================
