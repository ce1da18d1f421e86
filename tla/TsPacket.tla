------------------------------ MODULE TsPacket ------------------------------
(***************************************************************************)
(* The transport stream packet: the numbers of ts_packet.h and common.h,   *)
(* the parts of a packet that mpegts_muxer.cpp writes and                  *)
(* mpegts_demuxer.cpp reads, and their sizes in bytes.                     *)
(*                                                                         *)
(* A packet is a record                                                    *)
(*   pid   mPid                                                            *)
(*   pusi  mPayloadUnitStartIndicator                                      *)
(*   afc   mAdaptationFieldControl                                         *)
(*   cc    mContinuityCounter                                              *)
(*   af    the adaptation field: its length byte, the two indicators the   *)
(*         demuxer uses, and the PCR (NoPcr when mPcrFlag is 0)            *)
(*   load  what follows: a PAT, a PMT, PES data or nothing                 *)
(*   bytes size of the packet as it stands in the output buffer            *)
(* Elementary stream bytes are never spelled out: a run of them is         *)
(* <<frame, from, len>>, the bytes from .. from+len-1 of one frame.        *)
(***************************************************************************)
EXTENDS Integers, Sequences

kTsPacketSize_188 == 188
TsHeaderBytes     == 4
PesHeaderBytes    == 9          \* PESHeader without the optional fields
TimestampBytes    == 5          \* one PTS or DTS
PcrBytes          == 6

MPEGTS_NULL_PACKET_PID == 8191
MPEGTS_PAT_PID         == 0

mPayloadOnly         == 1
mAdaptionOnly        == 2
mPayloadAdaptionBoth == 3

hasPayload(afc)         == afc \in {mPayloadOnly, mPayloadAdaptionBoth}
hasAdaptationField(afc) == afc \in {mAdaptionOnly, mPayloadAdaptionBoth}

(* The continuity counter is a 4-bit field. *)
CcModulus  == 16
Cc         == 0 .. CcModulus - 1
NextCc(cc) == (cc + 1) % CcModulus

NoPcr    == -1
NoAf     == [len |-> 0, disc |-> FALSE, ra |-> FALSE, pcr |-> NoPcr]

Run(frame, from, len) == [frame |-> frame, from |-> from, len |-> len]

(***************************************************************************)
(* What a packet carries after its header and adaptation field.            *)
(***************************************************************************)
NoLoad              == [kind |-> "none"]
PatLoad(programs)   == [kind |-> "pat", programs |-> programs]
PmtLoad(ok, pcr, infos) ==
    [kind |-> "pmt", ok |-> ok, pcrPid |-> pcr, infos |-> infos]
PesLoad(pes, run)   == [kind |-> "pes", pes |-> pes, run |-> run]

NoPes == [len |-> 0, hdl |-> 0, flags |-> 0, marker |-> TRUE, pts |-> 0, dts |-> 0]

(***************************************************************************)
(* Bytes before the elementary stream data of a packet, as a parser that   *)
(* trusts the adaptation field length and header data length finds them.   *)
(***************************************************************************)
AfBytes(pkt)   == IF hasAdaptationField(pkt.afc) THEN 1 + pkt.af.len ELSE 0
PesBytes(pkt)  == IF pkt.pusi THEN PesHeaderBytes + pkt.load.pes.hdl ELSE 0
DataStart(pkt) == TsHeaderBytes + AfBytes(pkt) + PesBytes(pkt)
-----------------------------------------------------------------------------
(* A packet's predecessor on its PID.                                      *)
Precedes(s, i, j) ==
    /\ i < j
    /\ s[i].pid = s[j].pid
    /\ \A k \in i + 1 .. j - 1 : s[k].pid # s[j].pid

(* The counter rule of a PID: a packet with payload counts one up, one     *)
(* without payload repeats.                                                *)
CcFollows(p, q) == q.cc = IF hasPayload(q.afc) THEN NextCc(p.cc) ELSE p.cc
=============================================================================
