--------------------------- MODULE DemuxerProofs ---------------------------
(***************************************************************************)
(* Theorems about Demuxer, for any set of packets that may arrive and any  *)
(* order of arrival.                                                       *)
(***************************************************************************)
EXTENDS Demuxer, SequenceTheorems, WellFoundedInduction, TLAPS

(***************************************************************************)
(* Max of a set of positions is in it and is the greatest.                 *)
(***************************************************************************)
LEMMA MaxIsGreatest ==
    ASSUME NEW n \in Nat, NEW S, S \subseteq 1 .. n, S # {}
    PROVE  Max(S) \in S /\ \A y \in S : Max(S) >= y
<1> DEFINE T == {n - s : s \in S}
<1>0. \A s \in S : s \in Int /\ n - s \in Nat
  OBVIOUS
<1>1. T \subseteq Nat
  BY <1>0, Zenon
<1>2. T # {}
  OBVIOUS
<1>3. PICK x \in T : \A y \in T : ~ (<<y, x>> \in OpToRel(<, Nat))
  <2> HIDE DEF T
  <2> QED  BY <1>1, <1>2, WFMin, NatLessThanWellFounded
<1>4. \A y \in T : x <= y
  <2> HIDE DEF T
  <2> TAKE y \in T
  <2>1. y \in Nat /\ x \in Nat  BY <1>1
  <2>2. ~ (y < x)  BY <1>3, <2>1 DEF OpToRel
  <2> QED  BY <2>1, <2>2
<1>5. PICK m \in S : x = n - m  OBVIOUS
<1>6. \A y \in S : m >= y
  <2> TAKE y \in S
  <2>1. n - y \in T  OBVIOUS
  <2>2. n - m <= n - y  BY <1>4, <1>5, <2>1
  <2>3. m \in Int /\ y \in Int  BY <1>0
  <2> HIDE DEF T
  <2> QED  BY <2>2, <2>3
<1> QED  BY <1>5, <1>6 DEF Max

(***************************************************************************)
(* The packets.                                                            *)
(***************************************************************************)
LEMMA PacketFields ==
    ASSUME NEW pkt \in ArrivalTypes
    PROVE  /\ pkt.pid \in Pid /\ pkt.pusi \in BOOLEAN /\ pkt.afc \in 0 .. 3 /\ pkt.cc \in Cc
           /\ pkt.af.len \in Byte /\ pkt.af.disc \in BOOLEAN /\ pkt.af.ra \in BOOLEAN
           /\ pkt.af.pcr \in Nat \cup {NoPcr}
           /\ pkt.load.kind = "pat" => pkt.load.programs \in Seq([number : Nat, pmt : Pid])
           /\ pkt.load.kind = "pmt" => /\ pkt.load.ok \in BOOLEAN /\ pkt.load.pcrPid \in Pid
                                       /\ pkt.load.infos \in Seq(Info)
           /\ pkt.load.kind = "pes" => pkt.load.pes \in PesHeader
BY DEF ArrivalTypes, PatPacket, PmtPacket, PesPacket, Packet

(* A packet parsed has room for payload after its adaptation field.        *)
LEMMA PayloadRoom ==
    ASSUME NEW pkt \in ArrivalTypes, ~BrokenAf(pkt)
    PROVE  payloadSize(pkt) \in 1 .. 184
<1>1. pkt.af.len \in 0 .. 255  BY PacketFields DEF Byte
<1>2. AfBytes(pkt) \in 0 .. 183
  BY <1>1 DEF BrokenAf, AfBytes, kTsPacketSize_188, TsHeaderBytes
<1> QED  BY <1>2 DEF payloadSize, kTsPacketSize_188, TsHeaderBytes

(* What arrives with payload on the PAT PID is a PAT.                      *)
LEMMA PayloadKinds ==
    ASSUME NEW pkt \in Arrivals, hasPayload(pkt.afc)
    PROVE  pkt \in ArrivalTypes /\ (pkt.pid = MPEGTS_PAT_PID => pkt.load.kind = "pat")
BY DemuxerAssumption DEF DemuxerAssumption

-----------------------------------------------------------------------------
(***************************************************************************)
(* The inductive invariant. TypeOK alone is not inductive: that the packet *)
(* on the PMT PID holds a PMT, and those of the streams PES data, follows  *)
(* from where the demuxer has its PIDs from.                               *)
(***************************************************************************)
Named(q) == \E p \in Arrivals : /\ p.load.kind = "pat"
                                /\ \E n \in DOMAIN p.load.programs : p.load.programs[n].pmt = q
Listed(info) == \E p \in Arrivals : /\ p.load.kind = "pmt"
                                    /\ \E n \in DOMAIN p.load.infos : p.load.infos[n] = info
TablesKnown ==
    /\ mPmtId # 0 => mPatIsValid /\ Named(mPmtId)
    /\ \A i \in DOMAIN mInfos : Listed(mInfos[i])
    /\ DOMAIN mEsFrames \subseteq Pids(mInfos)

IInv == TypeOK /\ TablesKnown

(* The counters, the history of packets and the callbacks of one packet.   *)
LEMMA CountingTyped ==
    ASSUME TypeOK, NEW pkt \in ArrivalTypes, NEW es \in Seq(Events),
           parseAdaptationField(pkt, es), arrived' = Append(arrived, pkt)
    PROVE  /\ DOMAIN mCCs' \subseteq Pid
           /\ \A q \in DOMAIN mCCs' : mCCs'[q] \in Cc
           /\ arrived' \in Seq(ArrivalTypes)
           /\ events' \in Seq(Events)
<1>1. pkt.pid \in Pid /\ pkt.cc \in Cc /\ pkt.af.pcr \in Nat \cup {NoPcr}
  BY PacketFields
<1>2. DOMAIN mCCs' \subseteq Pid /\ \A q \in DOMAIN mCCs' : mCCs'[q] \in Cc
  BY <1>1 DEF TypeOK, parseAdaptationField, MapTo
<1>3. arrived \in Seq(ArrivalTypes) /\ events \in Seq(Events)
  BY DEF TypeOK
<1>4. arrived' \in Seq(ArrivalTypes)
  BY <1>3, AppendProperties
<1>5. ThisPacket \in Nat
  BY <1>3, LenProperties DEF ThisPacket
<1>6. PcrEvents(pkt) \in Seq(Events)
  <2>1. CASE PcrEvents(pkt) = <<>>
    BY <2>1, EmptySeq
  <2>2. CASE PcrEvents(pkt) = <<[kind |-> "pcr", pid |-> pkt.pid, pcr |-> pkt.af.pcr, at |-> ThisPacket]>>
             /\ pkt.af.pcr # NoPcr
    <3>1. [kind |-> "pcr", pid |-> pkt.pid, pcr |-> pkt.af.pcr, at |-> ThisPacket] \in Events
      BY <1>1, <1>5, <2>2 DEF Events
    <3> QED  BY <2>2, <3>1
  <2> QED  BY <2>1, <2>2 DEF PcrEvents
<1>7. CcEvents(pkt) \in Seq(Events)
  <2>1. [kind |-> "cc", pid |-> pkt.pid, at |-> ThisPacket] \in Events
    BY <1>1, <1>5 DEF Events
  <2> QED  BY <2>1, EmptySeq DEF CcEvents
<1>8. events' \in Seq(Events)
  <2>1. events \o PcrEvents(pkt) \in Seq(Events)
    BY <1>3, <1>6, ConcatProperties
  <2>2. events \o PcrEvents(pkt) \o CcEvents(pkt) \in Seq(Events)
    BY <2>1, <1>7, ConcatProperties
  <2>3. events \o PcrEvents(pkt) \o CcEvents(pkt) \o es \in Seq(Events)
    BY <2>2, ConcatProperties
  <2> QED  BY <2>3 DEF parseAdaptationField
<1> QED  BY <1>2, <1>4, <1>8

(* Null packets and broken adaptation fields.                              *)
LEMMA IgnoreKeeps ==
    ASSUME IInv, NEW pkt \in Arrivals, Ignore(pkt), arrived' = Append(arrived, pkt)
    PROVE  IInv'
<1>1. arrived' \in Seq(ArrivalTypes)
  BY AppendProperties, DemuxerAssumption DEF IInv, TypeOK, DemuxerAssumption
<1> QED  BY <1>1 DEF IInv, TypeOK, TablesKnown, Ignore, tables

(* Packets on other PIDs, or on known ones too early or too late.          *)
LEMMA SkipKeeps ==
    ASSUME IInv, NEW pkt \in Arrivals, Skip(pkt), arrived' = Append(arrived, pkt)
    PROVE  IInv'
<1>1. pkt \in ArrivalTypes /\ <<>> \in Seq(Events)
  BY EmptySeq, DemuxerAssumption DEF DemuxerAssumption
<1>2. /\ DOMAIN mCCs' \subseteq Pid
      /\ \A q \in DOMAIN mCCs' : mCCs'[q] \in Cc
      /\ arrived' \in Seq(ArrivalTypes)
      /\ events' \in Seq(Events)
  BY <1>1, CountingTyped DEF IInv, Skip
<1> QED  BY <1>2 DEF IInv, TypeOK, TablesKnown, Skip, tables

(* A PAT: the PID it leaves in mPmtId is one a PAT names.                  *)
LEMMA ParsePatKeeps ==
    ASSUME IInv, NEW pkt \in Arrivals, ParsePat(pkt), arrived' = Append(arrived, pkt)
    PROVE  IInv'
<1>1. pkt \in ArrivalTypes /\ <<>> \in Seq(Events)
  BY EmptySeq, DemuxerAssumption DEF DemuxerAssumption
<1>2. /\ DOMAIN mCCs' \subseteq Pid
      /\ \A q \in DOMAIN mCCs' : mCCs'[q] \in Cc
      /\ arrived' \in Seq(ArrivalTypes)
      /\ events' \in Seq(Events)
  BY <1>1, CountingTyped DEF IInv, ParsePat
<1>3. pkt.load.kind = "pat" /\ pkt.load.programs \in Seq([number : Nat, pmt : Pid])
  BY <1>1, PayloadKinds, PacketFields DEF ParsePat, ToPat
<1>4. mPmtId' \in Pid /\ mPatIsValid' \in BOOLEAN /\ (mPatIsValid => mPatIsValid')
      /\ (mPmtId' # 0 => mPatIsValid' /\ Named(mPmtId'))
  <2> DEFINE programs == pkt.load.programs
             named == IF pkt.pusi THEN {i \in DOMAIN programs : programs[i].number # 0} ELSE {}
  <2>1. CASE named = {}
    BY <2>1 DEF IInv, TypeOK, TablesKnown, ParsePat
  <2>2. CASE named # {}
    <3>1. Len(programs) \in Nat /\ named \subseteq 1 .. Len(programs)
      BY <1>3, LenProperties
    <3>2. Max(named) \in DOMAIN programs
      <4> HIDE DEF named
      <4> QED  BY <2>2, <3>1, <1>3, MaxIsGreatest, LenProperties
    <3>3. programs[Max(named)].pmt \in Pid
      <4>1. programs[Max(named)] \in [number : Nat, pmt : Pid]
        <5> HIDE DEF named, programs
        <5>1. programs \in Seq([number : Nat, pmt : Pid])  BY <1>3 DEF programs
        <5> QED  BY <3>2, <5>1, ElementOfSeq, LenProperties
      <4> HIDE DEF named, programs
      <4> QED  BY <4>1
    <3>4. mPmtId' = programs[Max(named)].pmt /\ mPatIsValid' = TRUE
      BY <2>2 DEF ParsePat
    <3>5. Named(mPmtId')
      BY <1>3, <3>2, <3>4 DEF Named
    <3> QED  BY <3>3, <3>4, <3>5 DEF IInv, TypeOK
  <2> QED  BY <2>1, <2>2
<1>5. TypeOK'
  BY <1>2, <1>4 DEF IInv, TypeOK, ParsePat
<1>6. TablesKnown'
  BY <1>4 DEF IInv, TablesKnown, ParsePat
<1> QED  BY <1>5, <1>6 DEF IInv

(* What is chosen from a list of entries is one of them.                   *)
LEMMA LastOfPid ==
    ASSUME NEW infos \in Seq(Info), NEW p \in Pids(infos)
    PROVE  SelectLastInSeq(infos, LAMBDA i : i.pid = p) \in DOMAIN infos
<1> DEFINE S == {k \in 1 .. Len(infos) : infos[k].pid = p}
<1>1. Len(infos) \in Nat /\ DOMAIN infos = 1 .. Len(infos)
  BY LenProperties
<1>2. S \subseteq 1 .. Len(infos) /\ S # {}
  BY <1>1 DEF Pids
<1>3. Max(S) \in S
  <2> HIDE DEF S
  <2> QED  BY <1>1, <1>2, MaxIsGreatest
<1>4. SelectLastInSeq(infos, LAMBDA i : i.pid = p) = Max(S)
  BY <1>2 DEF SelectLastInSeq, SelectLastInSubSeq
<1> QED  BY <1>1, <1>3, <1>4

(* The same for the entry of a stream type.                                *)
LEMMA LastOfType ==
    ASSUME NEW infos \in Seq(Info), NEW y \in Types(infos)
    PROVE  SelectLastInSeq(infos, LAMBDA i : i.type = y) \in DOMAIN infos
<1> DEFINE S == {k \in 1 .. Len(infos) : infos[k].type = y}
<1>1. Len(infos) \in Nat /\ DOMAIN infos = 1 .. Len(infos)
  BY LenProperties
<1>2. S \subseteq 1 .. Len(infos) /\ S # {}
  BY <1>1 DEF Types
<1>3. Max(S) \in S
  <2> HIDE DEF S
  <2> QED  BY <1>1, <1>2, MaxIsGreatest
<1>4. SelectLastInSeq(infos, LAMBDA i : i.type = y) = Max(S)
  BY <1>2 DEF SelectLastInSeq, SelectLastInSubSeq
<1> QED  BY <1>1, <1>3, <1>4

(* The entries of a list, and the PIDs and types they use.                 *)
LEMMA InfosTyped ==
    ASSUME NEW infos \in Seq(Info)
    PROVE  /\ \A i \in DOMAIN infos : infos[i].type \in Byte /\ infos[i].pid \in Pid
           /\ Pids(infos) \subseteq Pid /\ Types(infos) \subseteq Byte
<1>1. \A i \in DOMAIN infos : infos[i] \in Info
  BY ElementOfSeq, LenProperties
<1>2. \A i \in DOMAIN infos : infos[i].type \in Byte /\ infos[i].pid \in Pid
  BY <1>1 DEF Info
<1> QED  BY <1>2 DEF Pids, Types

(* A frame of EsFrame, or after reset(), is typed and empty.               *)
LEMMA FreshFrame ==
    ASSUME NEW type \in Byte
    PROVE  /\ EsFrame(type) \in EsFrames
           /\ EsFrame(type).data = <<>> /\ EsFrame(type).size = 0 /\ EsFrame(type).type = type
<1>1. <<>> \in Seq(Nat)
  BY EmptySeq
<1>2. 0 \in 0 .. Uint16 - 1
  BY DEF Uint16
<1> QED  BY <1>1, <1>2 DEF EsFrame, EsFrames

(* A PMT: streams are set up for the PIDs it lists, and for no other.      *)
LEMMA ParsePmtKeeps ==
    ASSUME IInv, NEW pkt \in Arrivals, ParsePmt(pkt), arrived' = Append(arrived, pkt)
    PROVE  IInv'
<1> DEFINE all == mInfos \o pkt.load.infos
<1>1. pkt \in ArrivalTypes /\ <<>> \in Seq(Events)
  BY EmptySeq, DemuxerAssumption DEF DemuxerAssumption
<1>2. /\ DOMAIN mCCs' \subseteq Pid
      /\ \A q \in DOMAIN mCCs' : mCCs'[q] \in Cc
      /\ arrived' \in Seq(ArrivalTypes)
      /\ events' \in Seq(Events)
  BY <1>1, CountingTyped DEF IInv, ParsePmt
<1>3. /\ hasPayload(pkt.afc) /\ DOMAIN mEsFrames = {} /\ mPmtId # 0 /\ pkt.pid = mPmtId
      /\ mPatIsValid /\ Named(mPmtId)
  BY DEF ParsePmt, ToPmt, IInv, TablesKnown
<1>4. pkt.load.kind = "pmt"
  BY <1>3, DemuxerAssumption DEF DemuxerAssumption, Named
<1>5. pkt.load.pcrPid \in Pid /\ pkt.load.infos \in Seq(Info)
  BY <1>1, <1>4, PacketFields
<1>6. all \in Seq(Info) /\ mInfos \in Seq(Info)
  BY <1>5, ConcatProperties DEF IInv, TypeOK
<1>7. \A i \in DOMAIN all : Listed(all[i])
  <2> SUFFICES ASSUME NEW i \in DOMAIN all PROVE Listed(all[i])
    OBVIOUS
  <2>1. i \in 1 .. Len(mInfos) + Len(pkt.load.infos) /\ Len(mInfos) \in Nat /\ Len(pkt.load.infos) \in Nat
    BY <1>5, <1>6, ConcatProperties, LenProperties
  <2>2. CASE i <= Len(mInfos)
    <3>1. all[i] = mInfos[i] /\ i \in DOMAIN mInfos
      BY <2>1, <2>2, <1>5, <1>6, ConcatProperties, LenProperties
    <3> QED  BY <3>1 DEF IInv, TablesKnown
  <2>3. CASE i > Len(mInfos)
    <3>1. all[i] = pkt.load.infos[i - Len(mInfos)] /\ i - Len(mInfos) \in DOMAIN pkt.load.infos
      BY <2>1, <2>3, <1>5, <1>6, ConcatProperties, LenProperties
    <3> QED  BY <3>1, <1>4 DEF Listed
  <2> QED  BY <2>1, <2>2, <2>3
<1>8. CASE pkt.pusi /\ pkt.load.ok
  <2>1. /\ mInfos' = all /\ mPcrId' = pkt.load.pcrPid /\ mPmtIsValid' = TRUE
        /\ mPmtId' = mPmtId /\ mPatIsValid' = mPatIsValid
        /\ mEsFrames' = [p \in Pids(all) |->
                           EsFrame(all[SelectLastInSeq(all, LAMBDA i : i.pid = p)].type)]
        /\ mStreamPidMap' = [y \in DOMAIN mStreamPidMap \cup Types(all) |->
                               IF y \in Types(all)
                               THEN all[SelectLastInSeq(all, LAMBDA i : i.type = y)].pid
                               ELSE mStreamPidMap[y]]
    BY <1>8 DEF ParsePmt
  <2> HIDE DEF all
  <2>2. DOMAIN mEsFrames' = Pids(all) /\ Pids(all) \subseteq Pid /\ Types(all) \subseteq Byte
    BY <2>1, <1>6, InfosTyped
  <2>3. \A q \in DOMAIN mEsFrames' : /\ mEsFrames'[q] \in EsFrames
                                     /\ mEsFrames'[q].data = <<>> /\ mEsFrames'[q].size = 0
    <3> SUFFICES ASSUME NEW q \in Pids(all)
                 PROVE  /\ mEsFrames'[q] \in EsFrames
                        /\ mEsFrames'[q].data = <<>> /\ mEsFrames'[q].size = 0
      BY <2>2
    <3>1. mEsFrames'[q] = EsFrame(all[SelectLastInSeq(all, LAMBDA i : i.pid = q)].type)
      BY <2>1
    <3>2. SelectLastInSeq(all, LAMBDA i : i.pid = q) \in DOMAIN all
      BY <1>6, LastOfPid
    <3>3. all[SelectLastInSeq(all, LAMBDA i : i.pid = q)].type \in Byte
      BY <3>2, <1>6, InfosTyped
    <3> QED  BY <3>1, <3>3, FreshFrame
  <2>4. DOMAIN mStreamPidMap' \subseteq Byte
    BY <2>1, <2>2 DEF IInv, TypeOK
  <2>5. \A y \in DOMAIN mStreamPidMap' : mStreamPidMap'[y] \in DOMAIN mEsFrames'
    <3> SUFFICES ASSUME NEW y \in DOMAIN mStreamPidMap' PROVE mStreamPidMap'[y] \in Pids(all)
      BY <2>2
    <3>1. DOMAIN mStreamPidMap = {}
      BY <1>3 DEF IInv, TypeOK
    <3>2. y \in Types(all)
      BY <2>1, <3>1
    <3>3. mStreamPidMap'[y] = all[SelectLastInSeq(all, LAMBDA i : i.type = y)].pid
      BY <2>1, <3>2
    <3>4. SelectLastInSeq(all, LAMBDA i : i.type = y) \in DOMAIN all
      BY <1>6, <3>2, LastOfType
    <3> QED  BY <3>3, <3>4 DEF Pids
  <2>6. TypeOK'
    BY <2>1, <2>2, <2>3, <2>4, <2>5, <1>2, <1>3, <1>5, <1>6 DEF IInv, TypeOK
  <2>7. TablesKnown'
    BY <2>1, <2>2, <1>3, <1>7 DEF TablesKnown
  <2> QED  BY <2>6, <2>7 DEF IInv
<1>9. CASE ~(pkt.pusi /\ pkt.load.ok)
  <2>1. /\ mInfos' = all \/ mInfos' = mInfos
        /\ UNCHANGED <<mPcrId, mEsFrames, mStreamPidMap, mPmtIsValid, mPmtId, mPatIsValid>>
    BY <1>9 DEF ParsePmt
  <2> HIDE DEF all
  <2>2. TypeOK'
    BY <2>1, <1>2, <1>6 DEF IInv, TypeOK
  <2>3. TablesKnown'
    BY <2>1, <1>3, <1>7 DEF IInv, TablesKnown
  <2> QED  BY <2>2, <2>3 DEF IInv
<1> QED  BY <1>8, <1>9

(***************************************************************************)
(* The frame under construction, through the steps of one PES packet.      *)
(***************************************************************************)
Sound(frame) == frame \in EsFrames /\ (frame.data = <<>> <=> frame.size = 0)

(* The fields of a frame.                                                  *)
LEMMA FrameFields ==
    ASSUME NEW frame \in EsFrames
    PROVE  /\ frame.type \in Byte /\ frame.data \in Seq(Nat) /\ frame.size \in Nat
           /\ frame.pts \in Nat /\ frame.dts \in Nat /\ frame.ra \in BOOLEAN
           /\ frame.expPes \in 0 .. Uint16 - 1 /\ frame.expPayload \in 0 .. Uint16 - 1
BY DEF EsFrames

(* The expected payload is worked out in 16 bits.                          *)
LEMMA ModBound ==
    ASSUME NEW a \in Int, NEW b \in Int, NEW k \in Nat \ {0}
    PROVE  (a - 3 - b) % k \in 0 .. k - 1
<1> DEFINE n == a - 3 - b
<1>1. n \in Int
  OBVIOUS
<1> HIDE DEF n
<1>2. 0 <= n % k /\ n % k < k /\ n % k \in Int
  BY <1>1
<1>3. n % k \in 0 .. k - 1
  BY <1>2
<1> QED  BY <1>3 DEF n

(* 65536 is a modulus.                                                     *)
LEMMA Uint16Positive == Uint16 \in Nat \ {0}
BY DEF Uint16

(* Wrap-around of pes.len - 3 - pes.hdl.                                   *)
LEMMA Wraps ==
    ASSUME NEW total \in 0 .. Uint16 - 1, NEW header \in Byte
    PROVE  (total - 3 - header) % Uint16 \in 0 .. Uint16 - 1
<1>1. total \in Int /\ header \in Int
  BY DEF Byte
<1> QED  BY <1>1, Uint16Positive, ModBound, Zenon

(* A start packet leaves a sound frame, flushed or not.                    *)
LEMMA StartedSound ==
    ASSUME NEW pkt \in ArrivalTypes, pkt.load.kind = "pes", NEW frame, Sound(frame)
    PROVE  Sound(Started(pkt, frame))
<1> DEFINE old == IF Flushes(pkt, frame) THEN reset(frame) ELSE frame
           pes == pkt.load.pes
           pts == IF pes.flags \in {2, 3} THEN pes.pts ELSE old.pts
           dts == CASE pes.flags = 2 -> pes.pts [] pes.flags = 3 -> pes.dts [] OTHER -> old.dts
           size == IF pes.len # 0 THEN (pes.len - 3 - pes.hdl) % Uint16 ELSE old.expPayload
<1>1. Sound(old)
  <2>1. Sound(reset(frame))
    BY FrameFields, FreshFrame DEF Sound, reset
  <2> QED  BY <2>1
<1>2. /\ pes.len \in 0 .. Uint16 - 1 /\ pes.hdl \in Byte /\ pes.flags \in 0 .. 3
      /\ pes.pts \in Nat /\ pes.dts \in Nat
  BY PacketFields DEF PesHeader
<1>3. pkt.af.ra \in BOOLEAN
  BY PacketFields
<1> HIDE DEF old
<1>4. /\ old \in EsFrames /\ old.pts \in Nat /\ old.dts \in Nat /\ old.expPayload \in 0 .. Uint16 - 1
  BY <1>1, FrameFields DEF Sound
<1> HIDE DEF pes
<1>5. pts \in Nat /\ dts \in Nat
  BY <1>2, <1>4
<1>6. (pes.len - 3 - pes.hdl) % Uint16 \in 0 .. Uint16 - 1
  BY <1>2, Wraps
<1>7. size \in 0 .. Uint16 - 1
  BY <1>4, <1>6
<1>8. \/ Started(pkt, frame) = [old EXCEPT !.ra = pkt.af.ra]
      \/ Started(pkt, frame) = [[old EXCEPT !.ra = pkt.af.ra] EXCEPT
                                  !.pts = pts, !.dts = dts, !.expPes = pes.len, !.expPayload = size]
  BY <1>4 DEF Started, old, pes, EsFrames
<1> HIDE DEF pts, dts, size
<1> QED  BY <1>1, <1>2, <1>3, <1>5, <1>7, <1>8 DEF Sound, EsFrames

(* Data is appended together with its size.                                *)
LEMMA AppendedSound ==
    ASSUME NEW pkt \in ArrivalTypes, DataFits(pkt), ThisPacket \in Nat, ~BrokenAf(pkt),
           PesBytes(pkt) \in Nat, NEW frame, Sound(frame)
    PROVE  Sound(Appended(pkt, frame))
<1> DEFINE n == payloadSize(pkt) - PesBytes(pkt)
<1>1. n \in Nat
  BY PayloadRoom DEF DataFits
<1> HIDE DEF n
<1>2. CASE n = 0
  BY <1>2 DEF Appended, n
<1>3. CASE n # 0
  <2>1. Appended(pkt, frame) = [frame EXCEPT !.data = Append(frame.data, ThisPacket),
                                             !.size = frame.size + n]
    BY <1>3 DEF Appended, n
  <2>2. frame.data \in Seq(Nat) /\ frame.size \in Nat /\ frame \in EsFrames
    BY FrameFields DEF Sound
  <2>3. /\ Append(frame.data, ThisPacket) \in Seq(Nat)
        /\ Append(frame.data, ThisPacket) # <<>>
    BY <2>2, AppendProperties, EmptySeq, LenProperties
  <2>4. frame.size + n \in Nat /\ frame.size + n # 0
    BY <2>2, <1>1, <1>3
  <2> QED  BY <2>1, <2>2, <2>3, <2>4 DEF Sound, EsFrames
<1> QED  BY <1>2, <1>3

(* A delivered frame is an event.                                          *)
LEMMA DeliverTyped ==
    ASSUME NEW pid \in Pid, NEW frame \in EsFrames, NEW completed \in BOOLEAN, NEW upto \in Nat
    PROVE  Deliver(pid, frame, completed, upto) \in Events
BY DEF Deliver, Events

(* A single callback.                                                      *)
LEMMA OneEvent ==
    ASSUME NEW e \in Events
    PROVE  <<e>> \in Seq(Events)
OBVIOUS

(***************************************************************************)
(* The steps of ParsePes, by name: the frame under construction, after the *)
(* start packet's header, and after the data; what the packet leaves.      *)
(***************************************************************************)
Building(pkt)  == mEsFrames[pkt.pid]
Begun(pkt)     == IF pkt.pusi THEN Started(pkt, Building(pkt)) ELSE Building(pkt)
Grown(pkt)     == Appended(pkt, Begun(pkt))
Stored(pkt)    == HeaderOk(pkt) /\ DataFits(pkt)
Full(pkt)      == Stored(pkt) /\ Grown(pkt).expPayload = Grown(pkt).size
Left(pkt)      == IF Full(pkt) THEN reset(Grown(pkt)) ELSE IF Stored(pkt) THEN Grown(pkt) ELSE Begun(pkt)
Completes(pkt) == IF Full(pkt) THEN <<Deliver(pkt.pid, Grown(pkt), TRUE, ThisPacket)>> ELSE <<>>

LEMMA ParsePesSteps ==
    ASSUME NEW pkt, ParsePes(pkt)
    PROVE  /\ hasPayload(pkt.afc) /\ pkt.pid \in DOMAIN mEsFrames
           /\ mEsFrames' = [mEsFrames EXCEPT ![pkt.pid] = Left(pkt)]
           /\ parseAdaptationField(pkt, Flush(pkt, Building(pkt)) \o Completes(pkt))
           /\ UNCHANGED tables
BY DEF ParsePes, ToPes, Building, Begun, Grown, Stored, Full, Left, Completes

(* What arrives with payload on the PID of a stream is PES data.           *)
LEMMA StreamsCarryPes ==
    ASSUME IInv, NEW pkt \in Arrivals, hasPayload(pkt.afc), pkt.pid \in DOMAIN mEsFrames
    PROVE  pkt.load.kind = "pes"
<1>1. PICK i \in DOMAIN mInfos : pkt.pid = mInfos[i].pid
  BY DEF IInv, TablesKnown, Pids
<1>2. Listed(mInfos[i])
  BY DEF IInv, TablesKnown
<1> QED  BY <1>1, <1>2, DemuxerAssumption DEF DemuxerAssumption, Listed

(* The bytes a PES packet's header takes.                                  *)
LEMMA PesBytesTyped ==
    ASSUME NEW pkt \in ArrivalTypes, pkt.load.kind = "pes"
    PROVE  PesBytes(pkt) \in Nat
<1>1. PICK hdl \in 0 .. 255 : hdl = pkt.load.pes.hdl
  BY PacketFields DEF PesHeader, Byte
<1>2. PesHeaderBytes + hdl \in Nat
  BY DEF PesHeaderBytes
<1>3. PesBytes(pkt) = IF pkt.pusi THEN PesHeaderBytes + hdl ELSE 0
  BY <1>1 DEF PesBytes
<1> QED  BY <1>2, <1>3

(* Every one of these frames is sound, and what is delivered are events.   *)
LEMMA ParsePesSound ==
    ASSUME IInv, NEW pkt \in Arrivals, ~Ignored(pkt), hasPayload(pkt.afc),
           pkt.pid \in DOMAIN mEsFrames
    PROVE  /\ pkt \in ArrivalTypes /\ ~BrokenAf(pkt) /\ pkt.pid \in Pid /\ pkt.load.kind = "pes"
           /\ ThisPacket \in Nat /\ ThisPacket - 1 \in Nat /\ PesBytes(pkt) \in Nat
           /\ Sound(Building(pkt)) /\ Sound(Begun(pkt)) /\ (Stored(pkt) => Sound(Grown(pkt)))
           /\ Sound(Left(pkt))
           /\ Flush(pkt, Building(pkt)) \in Seq(Events) /\ Completes(pkt) \in Seq(Events)
<1>2. pkt \in ArrivalTypes /\ ~BrokenAf(pkt) /\ pkt.pid \in Pid
  BY DemuxerAssumption, PacketFields DEF DemuxerAssumption, Ignored
<1>3. pkt.load.kind = "pes"
  BY StreamsCarryPes
<1>4. Sound(Building(pkt))
  BY DEF IInv, TypeOK, Sound, Building
<1>5. Sound(Begun(pkt))
  BY <1>2, <1>3, <1>4, StartedSound DEF Begun
<1>6. ThisPacket \in Nat /\ ThisPacket - 1 \in Nat
  BY LenProperties DEF IInv, TypeOK, ThisPacket
<1>7. PesBytes(pkt) \in Nat
  BY <1>2, <1>3, PesBytesTyped
<1>8. Stored(pkt) => Sound(Grown(pkt))
  BY <1>2, <1>5, <1>6, <1>7, AppendedSound DEF Stored, Grown
<1>9. Stored(pkt) => Sound(reset(Grown(pkt)))
  BY <1>8, FrameFields, FreshFrame DEF Sound, reset
<1>10. Sound(Left(pkt))
  BY <1>5, <1>8, <1>9 DEF Left, Full
<1>11. Completes(pkt) \in Seq(Events)
  <2>1. CASE Full(pkt)
    <3>1. Grown(pkt) \in EsFrames
      BY <1>8, <2>1 DEF Sound, Full
    <3>2. Deliver(pkt.pid, Grown(pkt), TRUE, ThisPacket) \in Events
      BY <3>1, <1>2, <1>6, DeliverTyped
    <3> QED  BY <2>1, <3>2, OneEvent DEF Completes
  <2>2. CASE ~Full(pkt)
    BY <2>2, EmptySeq DEF Completes
  <2> QED  BY <2>1, <2>2
<1>12. Flush(pkt, Building(pkt)) \in Seq(Events)
  <2>1. Building(pkt) \in EsFrames
    BY <1>4 DEF Sound
  <2>2. Deliver(pkt.pid, Building(pkt), Building(pkt).expPes = 0, ThisPacket - 1) \in Events
    BY <2>1, <1>2, <1>6, DeliverTyped
  <2> QED  BY <2>2, EmptySeq DEF Flush
<1> QED  BY <1>2, <1>3, <1>4, <1>5, <1>6, <1>7, <1>8, <1>10, <1>11, <1>12

(* A PES packet: flush, start, append, complete, reset.                    *)
LEMMA ParsePesKeeps ==
    ASSUME IInv, NEW pkt \in Arrivals, ~Ignored(pkt), ParsePes(pkt),
           arrived' = Append(arrived, pkt)
    PROVE  IInv'
<1>1. /\ hasPayload(pkt.afc) /\ pkt.pid \in DOMAIN mEsFrames
      /\ mEsFrames' = [mEsFrames EXCEPT ![pkt.pid] = Left(pkt)]
      /\ parseAdaptationField(pkt, Flush(pkt, Building(pkt)) \o Completes(pkt))
      /\ UNCHANGED tables
  BY ParsePesSteps
<1>2. /\ pkt \in ArrivalTypes /\ Sound(Left(pkt))
      /\ Flush(pkt, Building(pkt)) \in Seq(Events) /\ Completes(pkt) \in Seq(Events)
  BY <1>1, ParsePesSound
<1>3. Flush(pkt, Building(pkt)) \o Completes(pkt) \in Seq(Events)
  BY <1>2, ConcatProperties
<1>4. /\ DOMAIN mCCs' \subseteq Pid
      /\ \A q \in DOMAIN mCCs' : mCCs'[q] \in Cc
      /\ arrived' \in Seq(ArrivalTypes)
      /\ events' \in Seq(Events)
  <2> DEFINE es == Flush(pkt, Building(pkt)) \o Completes(pkt)
  <2>1. es \in Seq(Events) /\ parseAdaptationField(pkt, es)
    BY <1>1, <1>3
  <2> HIDE DEF es
  <2> QED  BY <2>1, <1>2, CountingTyped DEF IInv
<1>5. /\ DOMAIN mEsFrames' = DOMAIN mEsFrames
      /\ \A q \in DOMAIN mEsFrames' : Sound(mEsFrames'[q])
  BY <1>1, <1>2 DEF IInv, TypeOK, Sound
<1>6. TypeOK'
  BY <1>1, <1>4, <1>5 DEF IInv, TypeOK, Sound, tables
<1>7. TablesKnown'
  BY <1>1, <1>5 DEF IInv, TablesKnown, tables
<1> QED  BY <1>6, <1>7 DEF IInv

-----------------------------------------------------------------------------
(* A new MpegTsDemuxer.                                                    *)
LEMMA InitKeeps == Init => IInv
<1> SUFFICES ASSUME Init PROVE IInv
  OBVIOUS
<1>1. 0 \in Pid
  BY DEF Pid, MPEGTS_NULL_PACKET_PID
<1>2. <<>> \in Seq(Info) /\ <<>> \in Seq(ArrivalTypes) /\ <<>> \in Seq(Events) /\ DOMAIN <<>> = {}
  BY EmptySeq
<1> QED  BY <1>1, <1>2 DEF Init, IInv, TypeOK, TablesKnown

(* Every packet keeps the invariant.                                       *)
LEMMA NextKeeps == IInv /\ [Next]_vars => IInv'
<1> SUFFICES ASSUME IInv, [Next]_vars PROVE IInv'
  OBVIOUS
<1>1. CASE UNCHANGED vars
  BY <1>1 DEF vars, tables, IInv, TypeOK, TablesKnown
<1>2. CASE Next
  <2>1. PICK pkt \in Arrivals : arrived' = Append(arrived, pkt) /\ parseTsPacket(pkt)
    BY <1>2 DEF Next, Arrive
  <2>2. CASE Ignore(pkt)
    BY <2>1, <2>2, IgnoreKeeps
  <2>3. CASE ParsePat(pkt)
    BY <2>1, <2>3, ParsePatKeeps
  <2>4. CASE ParsePmt(pkt)
    BY <2>1, <2>4, ParsePmtKeeps
  <2>5. CASE ~Ignored(pkt) /\ ParsePes(pkt)
    BY <2>1, <2>5, ParsePesKeeps
  <2>6. CASE Skip(pkt)
    BY <2>1, <2>6, SkipKeeps
  <2> QED  BY <2>1, <2>2, <2>3, <2>4, <2>5, <2>6 DEF parseTsPacket
<1> QED  BY <1>1, <1>2

(***************************************************************************)
(* Whatever packets arrive, in whatever order, every variable stays in its *)
(* range: a stream's lengths in their 16 bits, the stream map inside the   *)
(* streams, the data of a frame and its size empty together.               *)
(***************************************************************************)
THEOREM DemuxerTypeCorrect == Spec => []TypeOK
<1>1. Init => IInv
  BY InitKeeps
<1>2. IInv /\ [Next]_vars => IInv'
  BY NextKeeps
<1>3. IInv => TypeOK
  BY DEF IInv
<1> QED  BY <1>1, <1>2, <1>3, PTL DEF Spec
-----------------------------------------------------------------------------
(***************************************************************************)
(* The callbacks: continuity errors, PCRs and frames are exactly those the *)
(* arrived packets call for. Each ties the demuxer's state to the packets  *)
(* it was made from, and the properties follow from that tie.              *)
(***************************************************************************)
(***************************************************************************)
(* Counters: mCCs holds the counter of the last packet counted on a PID.   *)
(***************************************************************************)
Latest(i) == i \in Counted /\ \A k \in Counted : i < k => arrived[k].pid # arrived[i].pid
CountersKept ==
    /\ \A q \in DOMAIN mCCs : \E i \in Counted : Latest(i) /\ arrived[i].pid = q
    /\ \A i \in Counted : /\ arrived[i].pid \in DOMAIN mCCs
                          /\ Latest(i) => mCCs[arrived[i].pid] = arrived[i].cc
CounterInv == IInv /\ CountersKept /\ CcErrorsExact

(***************************************************************************)
(* Tables: the PMT PID is that of the first PAT, entries were heard in its *)
(* PMTs, streams exist from the tuning PMT on, and the PCR PID is the one  *)
(* the last good PMT up to there names.                                    *)
(***************************************************************************)
TablesHeard ==
    /\ mPmtId = IF PatAt = 0 THEN 0 ELSE NamedPmt
    /\ PatAt # 0 => NamedPmt # 0
    /\ mInfos = <<>> <=> \A b \in PmtsHeard : arrived[b].load.infos = <<>>
    /\ \A q \in Pids(mInfos) :
          \E b \in PmtsHeard : b <= TunedAt /\ q \in Pids(arrived[b].load.infos)
    /\ DOMAIN mEsFrames = {} <=> TuningPmts = {}
    /\ mPcrId = PcrPidAt(Len(arrived) + 1)
TableInv == IInv /\ TablesHeard

(***************************************************************************)
(* Frames: all data came after the streams were set up, and each callback  *)
(* was made for a stream that is there.                                    *)
(***************************************************************************)
FramesLate ==
    /\ \A q \in DOMAIN mEsFrames : mEsFrames[q].data # <<>> => TunedAt < Len(arrived)
    /\ \A k \in DOMAIN events : events[k].kind = "es" =>
          /\ events[k].pid \in DOMAIN mEsFrames
          /\ TunedAt < events[k].upto /\ events[k].upto <= Len(arrived)
-----------------------------------------------------------------------------
(***************************************************************************)
(* Sequences of events, and the events of a kind among them.               *)
(***************************************************************************)
Made(evs, arr, kind, S) ==
    LET made == {k \in DOMAIN evs : evs[k].kind = kind}
    IN  /\ {evs[k].at : k \in made} = S
        /\ \A k, l \in made : k < l => evs[k].at < evs[l].at
        /\ \A k \in made : evs[k].pid = arr[evs[k].at].pid

(* A sequence and one that continues it.                                   *)
LEMMA Continued ==
    ASSUME NEW T, NEW s \in Seq(T), NEW t \in Seq(T)
    PROVE  /\ s \o t \in Seq(T) /\ DOMAIN s = 1 .. Len(s) /\ DOMAIN t = 1 .. Len(t)
           /\ DOMAIN (s \o t) = 1 .. Len(s) + Len(t) /\ Len(s \o t) = Len(s) + Len(t)
           /\ Len(s) \in Nat /\ Len(t) \in Nat
           /\ \A k \in 1 .. Len(s) : (s \o t)[k] = s[k]
           /\ \A k \in 1 .. Len(t) : (s \o t)[Len(s) + k] = t[k]
           /\ \A k \in Len(s) + 1 .. Len(s) + Len(t) :
                 k - Len(s) \in 1 .. Len(t) /\ (s \o t)[k] = t[k - Len(s)]
BY ConcatProperties, LenProperties

(* Events of other kinds say nothing of this kind.                         *)
LEMMA MadeOthers ==
    ASSUME NEW evs \in Seq(Events), NEW new \in Seq(Events), NEW arr, NEW kind, NEW S,
           Made(evs, arr, kind, S), \A k \in DOMAIN new : new[k].kind # kind
    PROVE  Made(evs \o new, arr, kind, S)
<1> DEFINE both == evs \o new
           old  == {k \in DOMAIN evs : evs[k].kind = kind}
           now  == {k \in DOMAIN both : both[k].kind = kind}
<1>1. /\ DOMAIN evs = 1 .. Len(evs) /\ DOMAIN new = 1 .. Len(new)
      /\ DOMAIN both = 1 .. Len(evs) + Len(new)
      /\ Len(evs) \in Nat /\ Len(new) \in Nat
      /\ \A k \in 1 .. Len(evs) : both[k] = evs[k]
      /\ \A k \in Len(evs) + 1 .. Len(evs) + Len(new) :
            k - Len(evs) \in 1 .. Len(new) /\ both[k] = new[k - Len(evs)]
  BY Continued
<1> HIDE DEF both
<1>2. now = old
  <2>1. now \subseteq old
    <3> SUFFICES ASSUME NEW k \in now PROVE k \in old
      OBVIOUS
    <3>1. CASE k \in 1 .. Len(evs)
      BY <3>1, <1>1
    <3>2. CASE k \in Len(evs) + 1 .. Len(evs) + Len(new)
      BY <3>2, <1>1
    <3> QED  BY <3>1, <3>2, <1>1
  <2>2. old \subseteq now
    BY <1>1
  <2> QED  BY <2>1, <2>2
<1>3. \A k \in old : both[k] = evs[k]
  BY <1>1
<1>4. /\ {evs[k].at : k \in old} = S
      /\ \A k, l \in old : k < l => evs[k].at < evs[l].at
      /\ \A k \in old : evs[k].pid = arr[evs[k].at].pid
  BY DEF Made
<1> HIDE DEF old, now
<1>5. /\ {both[k].at : k \in now} = S
      /\ \A k, l \in now : k < l => both[k].at < both[l].at
      /\ \A k \in now : both[k].pid = arr[both[k].at].pid
  BY <1>2, <1>3, <1>4
<1> QED  BY <1>5 DEF Made, now, both

(* An event of the kind, made for a later packet.                          *)
LEMMA MadeThis ==
    ASSUME NEW evs \in Seq(Events), NEW e \in Events, NEW arr, NEW S,
           Made(evs, arr, e.kind, S), \A s \in S : s < e.at, e.pid = arr[e.at].pid
    PROVE  Made(evs \o <<e>>, arr, e.kind, S \cup {e.at})
<1> DEFINE both == evs \o <<e>>
           old  == {k \in DOMAIN evs : evs[k].kind = e.kind}
           now  == {k \in DOMAIN both : both[k].kind = e.kind}
           last == Len(evs) + 1
<1>1. <<e>> \in Seq(Events) /\ Len(<<e>>) = 1 /\ <<e>>[1] = e
  OBVIOUS
<1>2. /\ DOMAIN evs = 1 .. Len(evs) /\ DOMAIN both = 1 .. last
      /\ Len(evs) \in Nat
      /\ \A k \in 1 .. Len(evs) : both[k] = evs[k]
      /\ both[last] = e
  BY <1>1, Continued
<1> HIDE DEF both
<1>3. now = old \cup {last} /\ \A k \in old : both[k] = evs[k] /\ k < last
  BY <1>2
<1>4. /\ {evs[k].at : k \in old} = S
      /\ \A k, l \in old : k < l => evs[k].at < evs[l].at
      /\ \A k \in old : evs[k].pid = arr[evs[k].at].pid
  BY DEF Made
<1>5. both[last] = e /\ \A k \in now : k \in Int /\ last \in Int
  BY <1>2
<1> HIDE DEF old, now, last
<1>6. {both[k].at : k \in now} = S \cup {e.at}
  BY <1>3, <1>4, <1>5
<1>7. \A k, l \in now : k < l => both[k].at < both[l].at
  <2> SUFFICES ASSUME NEW k \in now, NEW l \in now, k < l PROVE both[k].at < both[l].at
    OBVIOUS
  <2>1. k \in old
    BY <1>3, <1>5
  <2>2. CASE l \in old
    BY <2>1, <2>2, <1>3, <1>4
  <2>3. CASE l = last
    BY <2>1, <2>3, <1>3, <1>4, <1>5
  <2> QED  BY <2>2, <2>3, <1>3
<1>8. \A k \in now : both[k].pid = arr[both[k].at].pid
  BY <1>3, <1>4, <1>5
<1> QED  BY <1>6, <1>7, <1>8 DEF Made, now, both

(* Later packets do not change what the earlier ones were.                 *)
LEMMA MadeLater ==
    ASSUME NEW evs, NEW arr \in Seq(ArrivalTypes), NEW pkt \in ArrivalTypes, NEW kind,
           NEW S, S \subseteq 1 .. Len(arr), Made(evs, arr, kind, S)
    PROVE  Made(evs, Append(arr, pkt), kind, S)
<1>1. \A i \in S : Append(arr, pkt)[i] = arr[i]
  BY AppendProperties
<1> DEFINE made == {k \in DOMAIN evs : evs[k].kind = kind}
<1>2. /\ {evs[k].at : k \in made} = S
      /\ \A k, l \in made : k < l => evs[k].at < evs[l].at
      /\ \A k \in made : evs[k].pid = arr[evs[k].at].pid
  BY DEF Made
<1> HIDE DEF made
<1>3. \A k \in made : evs[k].pid = Append(arr, pkt)[evs[k].at].pid
  BY <1>1, <1>2
<1> QED  BY <1>2, <1>3 DEF Made, made

-----------------------------------------------------------------------------
(***************************************************************************)
(* One packet: what every step has in common.                              *)
(***************************************************************************)
AllEs(es) == es \in Seq(Events) /\ \A k \in DOMAIN es : es[k].kind = "es"

LEMMA ArrivedGrows ==
    ASSUME IInv, NEW pkt \in Arrivals, arrived' = Append(arrived, pkt)
    PROVE  /\ arrived \in Seq(ArrivalTypes) /\ pkt \in ArrivalTypes
           /\ Len(arrived) \in Nat /\ DOMAIN arrived = 1 .. Len(arrived)
           /\ Len(arrived') = Len(arrived) + 1 /\ DOMAIN arrived' = 1 .. Len(arrived) + 1
           /\ \A i \in 1 .. Len(arrived) : arrived'[i] = arrived[i] /\ arrived[i] \in ArrivalTypes
           /\ arrived'[Len(arrived) + 1] = pkt
           /\ ThisPacket = Len(arrived) + 1
<1>1. arrived \in Seq(ArrivalTypes) /\ pkt \in ArrivalTypes
  BY DemuxerAssumption DEF DemuxerAssumption, IInv, TypeOK
<1> QED  BY <1>1, AppendProperties, LenProperties, ElementOfSeq DEF ThisPacket

(* The frames a packet delivers.                                           *)
LEMMA DeliveredEs ==
    ASSUME IInv, NEW pkt \in Arrivals, ~Ignored(pkt), ParsePes(pkt)
    PROVE  AllEs(Flush(pkt, Building(pkt))) /\ AllEs(Completes(pkt))
<1>1. Flush(pkt, Building(pkt)) \in Seq(Events) /\ Completes(pkt) \in Seq(Events)
  BY ParsePesSteps, ParsePesSound
<1>2. \A pid, frame, completed, upto : \A k \in DOMAIN <<Deliver(pid, frame, completed, upto)>> :
         <<Deliver(pid, frame, completed, upto)>>[k].kind = "es"
  BY DEF Deliver
<1>3. \A k \in DOMAIN Flush(pkt, Building(pkt)) : Flush(pkt, Building(pkt))[k].kind = "es"
  BY <1>2 DEF Flush
<1>4. \A k \in DOMAIN Completes(pkt) : Completes(pkt)[k].kind = "es"
  <2>1. CASE Full(pkt)
    <3> DEFINE d == <<Deliver(pkt.pid, Grown(pkt), TRUE, ThisPacket)>>
    <3>1. \A k \in DOMAIN d : d[k].kind = "es"
      BY DEF Deliver
    <3>2. Completes(pkt) = d
      BY <2>1 DEF Completes
    <3> HIDE DEF d
    <3> QED  BY <3>1, <3>2
  <2>2. CASE ~Full(pkt)
    BY <2>2 DEF Completes
  <2> QED  BY <2>1, <2>2
<1> QED  BY <1>1, <1>3, <1>4 DEF AllEs

(* A packet is ignored altogether or counted, whatever else is done to it. *)
LEMMA StepShape ==
    ASSUME IInv, NEW pkt \in Arrivals, parseTsPacket(pkt)
    PROVE  \/ Ignored(pkt) /\ UNCHANGED <<tables, mEsFrames, mCCs, events>>
           \/ /\ ~Ignored(pkt)
              /\ mCCs' = MapTo(mCCs, pkt.pid, pkt.cc)
              /\ \E es \in Seq(Events) :
                    AllEs(es) /\ events' = events \o PcrEvents(pkt) \o CcEvents(pkt) \o es
<1>1. CASE Ignore(pkt)
  BY <1>1 DEF Ignore
<1>2. AllEs(<<>>)
  BY EmptySeq DEF AllEs
<1>3. CASE ~Ignored(pkt) /\ (ParsePat(pkt) \/ ParsePmt(pkt) \/ Skip(pkt))
  <2>1. parseAdaptationField(pkt, <<>>)
    BY <1>3 DEF ParsePat, ParsePmt, Skip
  <2> QED  BY <2>1, <1>2, <1>3, EmptySeq DEF parseAdaptationField
<1>4. CASE ~Ignored(pkt) /\ ParsePes(pkt)
  <2> DEFINE es == Flush(pkt, Building(pkt)) \o Completes(pkt)
             a  == Flush(pkt, Building(pkt))
             b  == Completes(pkt)
  <2>1. AllEs(a) /\ AllEs(b)
    BY <1>4, DeliveredEs
  <2>2. parseAdaptationField(pkt, es)
    BY <1>4, ParsePesSteps
  <2> HIDE DEF a, b
  <2>3. AllEs(a \o b)
    <3>1. a \in Seq(Events) /\ b \in Seq(Events)
      BY <2>1 DEF AllEs
    <3>2. a \o b \in Seq(Events)
      BY <3>1, Continued
    <3>3. \A k \in DOMAIN (a \o b) : (a \o b)[k].kind = "es"
      BY <2>1, <3>1, Continued DEF AllEs
    <3> QED  BY <3>2, <3>3 DEF AllEs
  <2>4. AllEs(es)
    BY <2>3 DEF a, b
  <2> HIDE DEF es
  <2> QED  BY <2>2, <2>4, <1>4 DEF parseAdaptationField, AllEs
<1> QED  BY <1>1, <1>3, <1>4 DEF parseTsPacket

(* At most one PCR and one error for a packet, and both are events.        *)
LEMMA OwnEvents ==
    ASSUME IInv, NEW pkt \in Arrivals
    PROVE  /\ \/ PcrEvents(pkt) = <<>>
              \/ \E e \in Events : /\ PcrEvents(pkt) = <<e>> /\ e.kind = "pcr" /\ e.at = ThisPacket
                                   /\ e.pid = pkt.pid /\ e.pcr = pkt.af.pcr
           /\ \/ CcEvents(pkt) = <<>>
              \/ \E e \in Events : /\ CcEvents(pkt) = <<e>> /\ e.kind = "cc" /\ e.at = ThisPacket
                                   /\ e.pid = pkt.pid
           /\ PcrEvents(pkt) \in Seq(Events) /\ CcEvents(pkt) \in Seq(Events)
           /\ \A k \in DOMAIN PcrEvents(pkt) : PcrEvents(pkt)[k].kind = "pcr"
           /\ \A k \in DOMAIN CcEvents(pkt) : CcEvents(pkt)[k].kind = "cc"
<1>1. pkt \in ArrivalTypes /\ ThisPacket \in Nat
  BY DemuxerAssumption, LenProperties DEF DemuxerAssumption, IInv, TypeOK, ThisPacket
<1>2. pkt.pid \in Pid /\ pkt.af.pcr \in Nat \cup {NoPcr}
  BY <1>1, PacketFields
<1> DEFINE p == [kind |-> "pcr", pid |-> pkt.pid, pcr |-> pkt.af.pcr, at |-> ThisPacket]
           c == [kind |-> "cc", pid |-> pkt.pid, at |-> ThisPacket]
<1>3. PcrEvents(pkt) = <<>> \/ (PcrEvents(pkt) = <<p>> /\ p \in Events)
  BY <1>1, <1>2 DEF PcrEvents, Events
<1>4. CcEvents(pkt) = <<>> \/ CcEvents(pkt) = <<c>>
  BY DEF CcEvents
<1>5. c \in Events
  BY <1>1, <1>2 DEF Events
<1>6. p.kind = "pcr" /\ p.at = ThisPacket /\ p.pid = pkt.pid /\ p.pcr = pkt.af.pcr
  OBVIOUS
<1>7. c.kind = "cc" /\ c.at = ThisPacket /\ c.pid = pkt.pid
  OBVIOUS
<1> HIDE DEF p, c
<1>8. DOMAIN <<>> = {} /\ <<>> \in Seq(Events)
  BY EmptySeq
<1>9. \A e \in Events : <<e>> \in Seq(Events) /\ DOMAIN <<e>> = {1} /\ <<e>>[1] = e
  OBVIOUS
<1>10. /\ PcrEvents(pkt) \in Seq(Events)
       /\ \A k \in DOMAIN PcrEvents(pkt) : PcrEvents(pkt)[k].kind = "pcr"
  BY <1>3, <1>6, <1>8, <1>9
<1>11. /\ CcEvents(pkt) \in Seq(Events)
       /\ \A k \in DOMAIN CcEvents(pkt) : CcEvents(pkt)[k].kind = "cc"
  BY <1>4, <1>5, <1>7, <1>8, <1>9
<1> QED  BY <1>3, <1>4, <1>5, <1>6, <1>7, <1>10, <1>11

-----------------------------------------------------------------------------
(***************************************************************************)
(* Continuity errors.                                                      *)
(***************************************************************************)
CcDue == {j \in Counted : /\ ~arrived[j].af.disc
                          /\ \E i \in DOMAIN arrived : /\ CountsAfter(i, j)
                                                      /\ ~CcFollows(arrived[i], arrived[j])}

(* A packet that is not ignored is the last one counted on its PID.        *)
LEMMA CountedGrows ==
    ASSUME IInv, NEW pkt \in Arrivals, arrived' = Append(arrived, pkt), NEW n, n = Len(arrived)
    PROVE  /\ Counted' = Counted \cup (IF Ignored(pkt) THEN {} ELSE {n + 1})
           /\ Counted \subseteq 1 .. n
           /\ \A i, j \in 1 .. n : CountsAfter(i, j)' <=> CountsAfter(i, j)
           /\ \A i \in 1 .. n :
                 CountsAfter(i, n + 1)' <=> Latest(i) /\ arrived[i].pid = pkt.pid
           /\ \A i \in 1 .. n :
                 Latest(i)' <=> Latest(i) /\ (Ignored(pkt) \/ arrived[i].pid # pkt.pid)
           /\ Latest(n + 1)' <=> ~Ignored(pkt)
<1>1. /\ n \in Nat /\ DOMAIN arrived = 1 .. n /\ DOMAIN arrived' = 1 .. n + 1
      /\ \A i \in 1 .. n : arrived'[i] = arrived[i]
      /\ arrived'[n + 1] = pkt
  BY ArrivedGrows
<1>2. Counted' = Counted \cup (IF Ignored(pkt) THEN {} ELSE {n + 1})
  <2>1. \A i \in 1 .. n : i \in Counted' <=> i \in Counted
    BY <1>1 DEF Counted
  <2>2. n + 1 \in Counted' <=> ~Ignored(pkt)
    BY <1>1 DEF Counted
  <2>3. Counted' \subseteq 1 .. n + 1 /\ Counted \subseteq 1 .. n
    BY <1>1 DEF Counted
  <2>4. \A i \in 1 .. n + 1 : i \in 1 .. n \/ i = n + 1
    BY <1>1
  <2>5. n + 1 \notin 1 .. n
    BY <1>1
  <2> QED  BY <2>1, <2>2, <2>3, <2>4, <2>5
<1>3. Counted \subseteq 1 .. n
  BY <1>1 DEF Counted
<1>4. \A i, j \in 1 .. n : CountsAfter(i, j)' <=> CountsAfter(i, j)
  <2> SUFFICES ASSUME NEW i \in 1 .. n, NEW j \in 1 .. n
               PROVE  CountsAfter(i, j)' <=> CountsAfter(i, j)
    OBVIOUS
  <2>1. \A k \in i .. j : arrived'[k] = arrived[k] /\ (k \in Counted' <=> k \in Counted)
    BY <1>1, <1>2
  <2>2. i \in Counted' <=> i \in Counted
    BY <1>1, <1>2
  <2>3. arrived'[i] = arrived[i] /\ arrived'[j] = arrived[j]
    BY <1>1
  <2>4. \A k \in i + 1 .. j - 1 : k \in i .. j
    OBVIOUS
  <2>5. (\A k \in i + 1 .. j - 1 : k \in Counted' => arrived'[k].pid # arrived'[j].pid)
        <=> (\A k \in i + 1 .. j - 1 : k \in Counted => arrived[k].pid # arrived[j].pid)
    BY <2>1, <2>3, <2>4
  <2> QED  BY <2>2, <2>3, <2>5 DEF CountsAfter
<1>5. \A i \in 1 .. n : CountsAfter(i, n + 1)' <=> Latest(i) /\ arrived[i].pid = pkt.pid
  <2> SUFFICES ASSUME NEW i \in 1 .. n
               PROVE  CountsAfter(i, n + 1)' <=> Latest(i) /\ arrived[i].pid = pkt.pid
    OBVIOUS
  <2>1. CountsAfter(i, n + 1)' <=> /\ i \in Counted /\ arrived[i].pid = pkt.pid
                                   /\ \A k \in i + 1 .. n : k \in Counted => arrived[k].pid # pkt.pid
    <3>1. i \in Counted' <=> i \in Counted
      BY <1>1, <1>2
    <3>2. \A k \in i + 1 .. n + 1 - 1 : /\ k \in Counted' <=> k \in Counted
                                        /\ arrived'[k] = arrived[k] /\ k \in i + 1 .. n
      BY <1>1, <1>2
    <3>3. \A k \in i + 1 .. n : k \in i + 1 .. n + 1 - 1
      BY <1>1
    <3>4. (\A k \in i + 1 .. n + 1 - 1 : k \in Counted' => arrived'[k].pid # arrived'[n + 1].pid)
          <=> (\A k \in i + 1 .. n : k \in Counted => arrived[k].pid # pkt.pid)
      BY <3>2, <3>3, <1>1
    <3>5. CountsAfter(i, n + 1)' <=>
             /\ i \in Counted' /\ i < n + 1 /\ arrived'[i].pid = arrived'[n + 1].pid
             /\ \A k \in i + 1 .. n + 1 - 1 : k \in Counted' => arrived'[k].pid # arrived'[n + 1].pid
      BY DEF CountsAfter
    <3>6. i < n + 1 /\ arrived'[i] = arrived[i] /\ arrived'[n + 1] = pkt
      BY <1>1
    <3> QED  BY <3>1, <3>4, <3>5, <3>6
  <2>2. (\A k \in i + 1 .. n : k \in Counted => arrived[k].pid # arrived[i].pid)
        <=> (\A k \in Counted : i < k => arrived[k].pid # arrived[i].pid)
    BY <1>1, <1>3
  <2> QED  BY <2>1, <2>2 DEF Latest
<1>6. \A i \in 1 .. n : Latest(i)' <=> Latest(i) /\ (Ignored(pkt) \/ arrived[i].pid # pkt.pid)
  BY <1>1, <1>2, <1>3 DEF Latest
<1>7. Latest(n + 1)' <=> ~Ignored(pkt)
  <2>1. n + 1 \in Counted' <=> ~Ignored(pkt)
    BY <1>1, <1>2, <1>3
  <2>2. \A k \in Counted' : ~(n + 1 < k)
    BY <1>1, <1>2, <1>3
  <2> QED  BY <2>1, <2>2 DEF Latest
<1> QED  BY <1>2, <1>3, <1>4, <1>5, <1>6, <1>7

(* The errors due grow by the packet exactly when ccErrorCallback is       *)
(* called for it.                                                          *)
LEMMA CcDueGrows ==
    ASSUME IInv, CountersKept, NEW pkt \in Arrivals, arrived' = Append(arrived, pkt)
    PROVE  /\ CcDue' = CcDue \cup (IF Ignored(pkt) \/ CcEvents(pkt) = <<>> THEN {} ELSE {Len(arrived) + 1})
           /\ CcDue \subseteq 1 .. Len(arrived)
<1>0. PICK n : n = Len(arrived)
  OBVIOUS
<1>1. /\ n \in Nat /\ DOMAIN arrived = 1 .. n /\ DOMAIN arrived' = 1 .. n + 1
      /\ \A i \in 1 .. n : arrived'[i] = arrived[i]
      /\ arrived'[n + 1] = pkt
  BY <1>0, ArrivedGrows
<1>2. /\ Counted' = Counted \cup (IF Ignored(pkt) THEN {} ELSE {n + 1})
      /\ Counted \subseteq 1 .. n
      /\ \A i, j \in 1 .. n : CountsAfter(i, j)' <=> CountsAfter(i, j)
      /\ \A i \in 1 .. n : CountsAfter(i, n + 1)' <=> Latest(i) /\ arrived[i].pid = pkt.pid
  BY <1>0, CountedGrows
<1>3. \A i \in 1 .. n + 1, j \in 1 .. n + 1 : CountsAfter(i, j)' => i < j
  BY DEF CountsAfter
<1>4. CcDue' \subseteq 1 .. n + 1 /\ CcDue \subseteq 1 .. n
  <2>1. CcDue' \subseteq Counted' /\ CcDue \subseteq Counted
    BY DEF CcDue
  <2>2. Counted' \subseteq 1 .. n + 1 /\ Counted \subseteq 1 .. n
    BY <1>1, <1>2
  <2> QED  BY <2>1, <2>2
<1>5. \A j \in 1 .. n : j \in CcDue' <=> j \in CcDue
  <2> SUFFICES ASSUME NEW j \in 1 .. n PROVE j \in CcDue' <=> j \in CcDue
    OBVIOUS
  <2>1. j \in Counted' <=> j \in Counted
    BY <1>1, <1>2
  <2>2. j \in 1 .. n + 1 /\ arrived'[j] = arrived[j]
    BY <1>1
  <2>3. (\E i \in 1 .. n + 1 : CountsAfter(i, j)' /\ ~CcFollows(arrived'[i], arrived'[j]))
        <=> (\E i \in 1 .. n : CountsAfter(i, j) /\ ~CcFollows(arrived[i], arrived[j]))
    <3>1. ASSUME NEW i \in 1 .. n + 1, CountsAfter(i, j)', ~CcFollows(arrived'[i], arrived'[j])
          PROVE  \E h \in 1 .. n : CountsAfter(h, j) /\ ~CcFollows(arrived[h], arrived[j])
      <4>1. i \in 1 .. n
        BY <3>1, <1>1, <1>3, <2>2
      <4>2. CountsAfter(i, j) /\ arrived'[i] = arrived[i]
        BY <3>1, <4>1, <1>1, <1>2
      <4> QED  BY <3>1, <4>1, <4>2, <2>2
    <3>2. ASSUME NEW i \in 1 .. n, CountsAfter(i, j), ~CcFollows(arrived[i], arrived[j])
          PROVE  \E h \in 1 .. n + 1 : CountsAfter(h, j)' /\ ~CcFollows(arrived'[h], arrived'[j])
      <4>1. i \in 1 .. n + 1 /\ CountsAfter(i, j)' /\ arrived'[i] = arrived[i]
        BY <3>2, <1>1, <1>2
      <4> QED  BY <3>2, <4>1, <2>2
    <3> QED  BY <3>1, <3>2
  <2> QED  BY <2>1, <2>2, <2>3, <1>1 DEF CcDue
<1>6. n + 1 \in CcDue' <=> ~(Ignored(pkt) \/ CcEvents(pkt) = <<>>)
  <2>1. n + 1 \in Counted' <=> ~Ignored(pkt)
    BY <1>1, <1>2
  <2>2. (\E i \in 1 .. n + 1 : CountsAfter(i, n + 1)' /\ ~CcFollows(arrived'[i], pkt))
        <=> (\E i \in 1 .. n : Latest(i) /\ arrived[i].pid = pkt.pid /\ ~CcFollows(arrived[i], pkt))
    <3>1. ASSUME NEW i \in 1 .. n + 1, CountsAfter(i, n + 1)', ~CcFollows(arrived'[i], pkt)
          PROVE  \E h \in 1 .. n : Latest(h) /\ arrived[h].pid = pkt.pid /\ ~CcFollows(arrived[h], pkt)
      <4>1. i < n + 1
        BY <3>1 DEF CountsAfter
      <4>2. i \in 1 .. n
        BY <4>1, <1>1
      <4> QED  BY <3>1, <4>2, <1>1, <1>2
    <3>2. ASSUME NEW i \in 1 .. n, Latest(i), arrived[i].pid = pkt.pid, ~CcFollows(arrived[i], pkt)
          PROVE  \E h \in 1 .. n + 1 : CountsAfter(h, n + 1)' /\ ~CcFollows(arrived'[h], pkt)
      <4>1. i \in 1 .. n + 1 /\ CountsAfter(i, n + 1)' /\ arrived'[i] = arrived[i]
        BY <3>2, <1>1, <1>2
      <4> QED  BY <3>2, <4>1
    <3> QED  BY <3>1, <3>2
  <2>3. \A i \in 1 .. n : Latest(i) /\ arrived[i].pid = pkt.pid =>
           /\ pkt.pid \in DOMAIN mCCs
           /\ CcFollows(arrived[i], pkt) <=> pkt.cc = expectedCC(pkt)
    BY DEF CountersKept, CcFollows, expectedCC, Latest
  <2>4. pkt.pid \in DOMAIN mCCs => \E i \in 1 .. n : Latest(i) /\ arrived[i].pid = pkt.pid
    BY <1>2 DEF CountersKept
  <2>5. CcEvents(pkt) # <<>> <=> pkt.pid \in DOMAIN mCCs /\ ~pkt.af.disc /\ pkt.cc # expectedCC(pkt)
    BY DEF CcEvents
  <2>6. n + 1 \in CcDue' <=>
           /\ ~Ignored(pkt) /\ ~pkt.af.disc
           /\ \E i \in 1 .. n + 1 : CountsAfter(i, n + 1)' /\ ~CcFollows(arrived'[i], pkt)
    BY <2>1, <1>1 DEF CcDue
  <2> QED  BY <2>2, <2>3, <2>4, <2>5, <2>6
<1>7. CcDue' = CcDue \cup (IF Ignored(pkt) \/ CcEvents(pkt) = <<>> THEN {} ELSE {n + 1})
  <2>1. \A j \in 1 .. n + 1 : j \in 1 .. n \/ j = n + 1
    BY <1>1
  <2>2. n + 1 \notin 1 .. n
    BY <1>1
  <2> HIDE DEF CcDue
  <2> QED  BY <2>1, <2>2, <1>4, <1>5, <1>6, Zenon
<1> QED  BY <1>0, <1>4, <1>7, Zenon

(* The counter of the packet counted becomes that of its PID.              *)
LEMMA CountersNext ==
    ASSUME IInv, CountersKept, NEW pkt \in Arrivals, parseTsPacket(pkt),
           arrived' = Append(arrived, pkt)
    PROVE  CountersKept'
<1>0. PICK n : n = Len(arrived)
  OBVIOUS
<1>1. /\ n \in Nat /\ DOMAIN arrived' = 1 .. n + 1
      /\ \A i \in 1 .. n : arrived'[i] = arrived[i]
      /\ arrived'[n + 1] = pkt
  BY <1>0, ArrivedGrows
<1>2. /\ Counted' = Counted \cup (IF Ignored(pkt) THEN {} ELSE {n + 1})
      /\ Counted \subseteq 1 .. n
      /\ \A i \in 1 .. n : Latest(i)' <=> Latest(i) /\ (Ignored(pkt) \/ arrived[i].pid # pkt.pid)
      /\ Latest(n + 1)' <=> ~Ignored(pkt)
  BY <1>0, CountedGrows
<1>3. CASE Ignored(pkt)
  <2>1. mCCs' = mCCs
    BY <1>3, StepShape
  <2> QED  BY <2>1, <1>1, <1>2, <1>3 DEF CountersKept
<1>4. CASE ~Ignored(pkt)
  <2>1. mCCs' = [x \in DOMAIN mCCs \cup {pkt.pid} |-> IF x = pkt.pid THEN pkt.cc ELSE mCCs[x]]
    BY <1>4, StepShape DEF MapTo
  <2>2. \A q \in DOMAIN mCCs' : \E i \in Counted' : Latest(i)' /\ arrived'[i].pid = q
    <3> SUFFICES ASSUME NEW q \in DOMAIN mCCs'
                 PROVE  \E i \in Counted' : Latest(i)' /\ arrived'[i].pid = q
      OBVIOUS
    <3>1. CASE q = pkt.pid
      <4>1. n + 1 \in Counted' /\ Latest(n + 1)' /\ arrived'[n + 1].pid = q
        BY <3>1, <1>1, <1>2, <1>4
      <4> QED  BY <4>1
    <3>2. CASE q # pkt.pid
      <4>1. PICK i \in Counted : Latest(i) /\ arrived[i].pid = q
        BY <3>2, <2>1 DEF CountersKept
      <4>2. i \in 1 .. n /\ i \in Counted' /\ arrived'[i] = arrived[i]
        BY <1>1, <1>2
      <4> QED  BY <4>1, <4>2, <3>2, <1>2
    <3> QED  BY <3>1, <3>2
  <2>3. \A i \in Counted' : /\ arrived'[i].pid \in DOMAIN mCCs'
                            /\ Latest(i)' => mCCs'[arrived'[i].pid] = arrived'[i].cc
    <3> SUFFICES ASSUME NEW i \in Counted'
                 PROVE  /\ arrived'[i].pid \in DOMAIN mCCs'
                        /\ Latest(i)' => mCCs'[arrived'[i].pid] = arrived'[i].cc
      OBVIOUS
    <3>1. CASE i = n + 1
      BY <3>1, <1>1, <2>1
    <3>2. CASE i \in Counted
      <4>1. i \in 1 .. n /\ arrived'[i] = arrived[i]
        BY <3>2, <1>1, <1>2
      <4> QED  BY <4>1, <3>2, <1>2, <1>4, <2>1 DEF CountersKept
    <3> QED  BY <3>1, <3>2, <1>2, <1>4
  <2> QED  BY <2>2, <2>3 DEF CountersKept
<1> QED  BY <1>3, <1>4

(* Every packet keeps errors and errors due the same.                      *)
LEMMA CcErrorsNext ==
    ASSUME CounterInv, NEW pkt \in Arrivals, parseTsPacket(pkt), arrived' = Append(arrived, pkt)
    PROVE  CcErrorsExact'
<1>1. IInv /\ CountersKept /\ Made(events, arrived, "cc", CcDue) /\ events \in Seq(Events)
  BY DEF CounterInv, CcErrorsExact, MadeFor, Made, CcDue, IInv, TypeOK
<1>2. /\ arrived \in Seq(ArrivalTypes) /\ pkt \in ArrivalTypes /\ Len(arrived) \in Nat
      /\ arrived'[Len(arrived) + 1] = pkt /\ ThisPacket = Len(arrived) + 1
  BY <1>1, ArrivedGrows
<1>3. /\ CcDue' = CcDue \cup (IF Ignored(pkt) \/ CcEvents(pkt) = <<>> THEN {} ELSE {Len(arrived) + 1})
      /\ CcDue \subseteq 1 .. Len(arrived)
  BY <1>1, CcDueGrows
<1>4. Made(events, arrived', "cc", CcDue)
  BY <1>1, <1>2, <1>3, MadeLater
<1>5. CASE Ignored(pkt)
  <2>1. events' = events /\ CcDue' = CcDue
    BY <1>1, <1>3, <1>5, StepShape
  <2> QED  BY <2>1, <1>4 DEF CcErrorsExact, MadeFor, Made, CcDue
<1>6. CASE ~Ignored(pkt)
  <2>1. PICK es \in Seq(Events) :
           AllEs(es) /\ events' = events \o PcrEvents(pkt) \o CcEvents(pkt) \o es
    BY <1>1, <1>6, StepShape
  <2> DEFINE a == events \o PcrEvents(pkt)
             b == a \o CcEvents(pkt)
  <2>2. /\ PcrEvents(pkt) \in Seq(Events) /\ CcEvents(pkt) \in Seq(Events)
        /\ \A k \in DOMAIN PcrEvents(pkt) : PcrEvents(pkt)[k].kind = "pcr"
    BY <1>1, OwnEvents
  <2>3. a \in Seq(Events)
    BY <1>1, <2>2, Continued
  <2>4. Made(a, arrived', "cc", CcDue)
    BY <1>1, <1>4, <2>2, MadeOthers
  <2>5. b \in Seq(Events)
    <3> HIDE DEF a
    <3> QED  BY <2>2, <2>3, Continued
  <2>6. Made(b, arrived', "cc", CcDue')
    <3> HIDE DEF a
    <3>1. CASE CcEvents(pkt) = <<>>
      <4>1. b = a /\ CcDue' = CcDue
        BY <3>1, <2>3, <1>3, <1>6, ConcatEmptySeq
      <4> QED  BY <4>1, <2>4
    <3>2. CASE CcEvents(pkt) # <<>>
      <4>1. PICK e \in Events : /\ CcEvents(pkt) = <<e>> /\ e.kind = "cc" /\ e.at = Len(arrived) + 1
                                /\ e.pid = pkt.pid
        BY <3>2, <1>1, <1>2, OwnEvents
      <4>2. CcDue' = CcDue \cup {e.at} /\ \A s \in CcDue : s < e.at
        BY <3>2, <4>1, <1>2, <1>3, <1>6
      <4>3. e.pid = arrived'[e.at].pid
        BY <4>1, <1>2
      <4>4. Made(a \o <<e>>, arrived', e.kind, CcDue \cup {e.at})
        BY <2>3, <2>4, <4>1, <4>2, <4>3, MadeThis
      <4> QED  BY <4>1, <4>2, <4>4
    <3> QED  BY <3>1, <3>2
  <2>7. Made(b \o es, arrived', "cc", CcDue')
    <3> HIDE DEF b
    <3>1. \A k \in DOMAIN es : es[k].kind # "cc"
      BY <2>1 DEF AllEs
    <3> QED  BY <2>5, <2>6, <3>1, MadeOthers
  <2>8. events' = b \o es
    BY <2>1
  <2> HIDE DEF a, b
  <2>9. Made(events', arrived', "cc", CcDue')
    BY <2>7, <2>8
  <2> QED  BY <2>9 DEF CcErrorsExact, MadeFor, Made, CcDue
<1> QED  BY <1>5, <1>6

(***************************************************************************)
(* Whatever packets arrive, ccErrorCallback is called once, in order, for  *)
(* each packet whose counter does not follow that of the last packet       *)
(* counted on its PID, and for no other.                                   *)
(***************************************************************************)
THEOREM CcErrorsAlwaysExact == Spec => []CcErrorsExact
<1>1. Init => CounterInv
  <2> SUFFICES ASSUME Init PROVE CounterInv
    OBVIOUS
  <2>1. DOMAIN <<>> = {} /\ Counted = {} /\ IInv
    BY InitKeeps DEF Init, Counted
  <2> QED  BY <2>1 DEF Init, CounterInv, CountersKept, CcErrorsExact, MadeFor
<1>2. CounterInv /\ [Next]_vars => CounterInv'
  <2> SUFFICES ASSUME CounterInv, [Next]_vars PROVE CounterInv'
    OBVIOUS
  <2>1. IInv'
    BY NextKeeps DEF CounterInv
  <2>2. CASE UNCHANGED vars
    BY <2>1, <2>2 DEF vars, CounterInv, CountersKept, CcErrorsExact, MadeFor, Latest, Counted, CountsAfter
  <2>3. CASE Next
    <3>1. PICK pkt \in Arrivals : arrived' = Append(arrived, pkt) /\ parseTsPacket(pkt)
      BY <2>3 DEF Next, Arrive
    <3>2. CountersKept' /\ CcErrorsExact'
      BY <3>1, CountersNext, CcErrorsNext DEF CounterInv
    <3> QED  BY <2>1, <3>2 DEF CounterInv
  <2> QED  BY <2>2, <2>3
<1>3. CounterInv => CcErrorsExact
  BY DEF CounterInv
<1> QED  BY <1>1, <1>2, <1>3, PTL DEF Spec

-----------------------------------------------------------------------------
(***************************************************************************)
(* The packets the tables go by, as packets arrive.                        *)
(***************************************************************************)
(* Min of a set of positions is in it and is the least.                    *)
LEMMA MinIsLeast ==
    ASSUME NEW S, S \subseteq Nat, S # {}
    PROVE  Min(S) \in S /\ \A y \in S : Min(S) <= y
<1>1. PICK x \in S : \A y \in S : ~ (<<y, x>> \in OpToRel(<, Nat))
  BY WFMin, NatLessThanWellFounded
<1>2. \A y \in S : x <= y
  <2> TAKE y \in S
  <2>1. y \in Nat /\ x \in Nat
    OBVIOUS
  <2>2. ~ (y < x)
    BY <1>1, <2>1 DEF OpToRel
  <2> QED  BY <2>1, <2>2
<1> QED  BY <1>2 DEF Min

(* The greatest position of a set is its Max.                              *)
LEMMA MaxIs ==
    ASSUME NEW S, NEW m \in S, S \subseteq Nat, \A y \in S : y <= m
    PROVE  Max(S) = m
<1>1. \A y \in S : m >= y
  OBVIOUS
<1>2. Max(S) \in S /\ \A y \in S : Max(S) >= y
  BY <1>1 DEF Max
<1>3. Max(S) \in Nat /\ m \in Nat /\ Max(S) <= m /\ Max(S) >= m
  BY <1>2
<1> QED  BY <1>3

NamesPat(p) == p.pid = MPEGTS_PAT_PID /\ p.pusi /\ Heard(p) /\ Names(p) # {}

(* What PatAt is: the first PAT that names a program.                      *)
PatFirst ==
    /\ PatAt \in 0 .. Len(arrived)
    /\ PatAt = 0 => \A i \in 1 .. Len(arrived) : ~NamesPat(arrived[i])
    /\ PatAt # 0 => /\ NamesPat(arrived[PatAt])
                    /\ \A i \in 1 .. PatAt - 1 : ~NamesPat(arrived[i])
LEMMA PatFirstHolds == TypeOK => PatFirst
<1> SUFFICES ASSUME TypeOK PROVE PatFirst
  OBVIOUS
<1> DEFINE S == {i \in 1 .. Len(arrived) : NamesPat(arrived[i])}
<1>1. Len(arrived) \in Nat
  BY LenProperties DEF TypeOK
<1>2. PatAt = IF S # {} THEN Min(S) ELSE 0
  BY DEF PatAt, SelectInSeq, NamesPat
<1>3. S \subseteq Nat
  BY <1>1
<1>4. S # {} => Min(S) \in S /\ \A y \in S : Min(S) <= y
  <2> HIDE DEF S
  <2> QED  BY <1>3, MinIsLeast
<1>5. CASE S = {}
  BY <1>1, <1>2, <1>5 DEF PatFirst
<1>6. CASE S # {}
  <2>1. PatAt \in S /\ \A y \in S : PatAt <= y
    BY <1>2, <1>4, <1>6
  <2>2. \A i \in 1 .. PatAt - 1 : i \notin S
    BY <1>3, <2>1
  <2>3. \A i \in 1 .. PatAt - 1 : i \in 1 .. Len(arrived)
    BY <1>1, <2>1
  <2> QED  BY <1>1, <2>1, <2>2, <2>3 DEF PatFirst
<1> QED  BY <1>5, <1>6

(* What TunedAt is: the first PMT that leaves streams, or past the end.    *)
TunedFirst ==
    /\ TuningPmts = {} => TunedAt = Len(arrived) + 1
    /\ TuningPmts # {} => TunedAt \in TuningPmts /\ \A b \in TuningPmts : TunedAt <= b
LEMMA TunedFirstHolds == TypeOK => TunedFirst
<1> SUFFICES ASSUME TypeOK PROVE TunedFirst
  OBVIOUS
<1>1. Len(arrived) \in Nat /\ DOMAIN arrived = 1 .. Len(arrived)
  BY LenProperties DEF TypeOK
<1>2. TuningPmts \subseteq Nat
  BY <1>1 DEF TuningPmts, PmtsHeard
<1> QED  BY <1>2, MinIsLeast DEF TunedFirst, TunedAt

(* The PAT gone by stays, or is the packet.                                *)
LEMMA PatGrows ==
    ASSUME IInv, IInv', NEW pkt \in Arrivals, arrived' = Append(arrived, pkt),
           NEW n, n = Len(arrived)
    PROVE  /\ PatAt \in 0 .. n
           /\ PatAt # 0 => PatAt' = PatAt /\ NamedPmt' = NamedPmt
           /\ PatAt = 0 => PatAt' = IF NamesPat(pkt) THEN n + 1 ELSE 0
           /\ PatAt = 0 /\ NamesPat(pkt) => NamedPmt' = pkt.load.programs[Max(Names(pkt))].pmt
<1>1. /\ n \in Nat /\ Len(arrived') = n + 1
      /\ \A i \in 1 .. n : arrived'[i] = arrived[i]
      /\ arrived'[n + 1] = pkt
  BY ArrivedGrows
<1>2. PatFirst /\ PatFirst'
  <2>1. TypeOK /\ TypeOK'
    BY DEF IInv
  <2>2. TypeOK => PatFirst
    BY PatFirstHolds
  <2>3. TypeOK' => PatFirst'
    BY PatFirstHolds, PTL
  <2> QED  BY <2>1, <2>2, <2>3
<1>3. /\ PatAt \in 0 .. n
      /\ PatAt = 0 => \A i \in 1 .. n : ~NamesPat(arrived[i])
      /\ PatAt # 0 => /\ NamesPat(arrived[PatAt])
                      /\ \A i \in 1 .. PatAt - 1 : ~NamesPat(arrived[i])
  BY <1>2 DEF PatFirst
<1>4. /\ PatAt' \in 0 .. n + 1
      /\ PatAt' = 0 => \A i \in 1 .. n + 1 : ~NamesPat(arrived'[i])
      /\ PatAt' # 0 => /\ NamesPat(arrived'[PatAt'])
                       /\ \A i \in 1 .. PatAt' - 1 : ~NamesPat(arrived'[i])
  BY <1>1, <1>2 DEF PatFirst
<1>5. PatAt # 0 => PatAt' = PatAt
  <2> SUFFICES ASSUME PatAt # 0 PROVE PatAt' = PatAt
    OBVIOUS
  <2>1. PatAt \in 1 .. n /\ NamesPat(arrived'[PatAt])
    BY <1>1, <1>3
  <2>2. PatAt' # 0 /\ ~(PatAt < PatAt')
    <3>1. PatAt \in 1 .. n + 1
      BY <1>1, <2>1
    <3>2. PatAt' # 0
      BY <3>1, <1>4, <2>1
    <3>3. PatAt < PatAt' => PatAt \in 1 .. PatAt' - 1
      <4>1. \A a \in 1 .. n + 1, b \in 0 .. n + 1 : a < b => a \in 1 .. b - 1
        BY <1>1
      <4> QED  BY <4>1, <3>1, <1>4
    <3> QED  BY <3>2, <3>3, <1>4, <2>1
  <2>3. ~(PatAt' < PatAt)
    <3> SUFFICES ASSUME PatAt' < PatAt PROVE FALSE
      OBVIOUS
    <3>1. PatAt' \in 1 .. PatAt - 1 /\ PatAt' \in 1 .. n
      BY <2>1, <2>2, <1>1, <1>4
    <3>2. NamesPat(arrived[PatAt'])
      BY <3>1, <2>2, <1>1, <1>4
    <3> QED  BY <3>1, <3>2, <1>3
  <2> QED  BY <2>1, <2>2, <2>3, <1>4
<1>6. PatAt = 0 => PatAt' = IF NamesPat(pkt) THEN n + 1 ELSE 0
  <2> SUFFICES ASSUME PatAt = 0 PROVE PatAt' = IF NamesPat(pkt) THEN n + 1 ELSE 0
    OBVIOUS
  <2>1. \A i \in 1 .. n : ~NamesPat(arrived'[i])
    BY <1>1, <1>3
  <2>2. PatAt' \notin 1 .. n
    <3>1. PatAt' \in 1 .. n => PatAt' # 0
      BY <1>1
    <3> QED  BY <3>1, <1>4, <2>1
  <2>3. PatAt' = 0 \/ PatAt' = n + 1
    BY <1>1, <1>4, <2>2
  <2> QED  BY <1>1, <1>4, <2>3
<1>7. PatAt # 0 => NamedPmt' = NamedPmt
  <2>1. PatAt # 0 => arrived'[PatAt'] = arrived[PatAt]
    BY <1>1, <1>3, <1>5
  <2> QED  BY <2>1 DEF NamedPmt
<1>8. PatAt = 0 /\ NamesPat(pkt) => NamedPmt' = pkt.load.programs[Max(Names(pkt))].pmt
  BY <1>1, <1>6 DEF NamedPmt
<1> QED  BY <1>3, <1>5, <1>6, <1>7, <1>8

(* The packet is a PMT the tables may go by.                               *)
HearsPmt(pkt) == PatAt # 0 /\ pkt.pid = NamedPmt /\ pkt.pusi /\ Heard(pkt)

LEMMA PmtsGrow ==
    ASSUME IInv, IInv', NEW pkt \in Arrivals, arrived' = Append(arrived, pkt),
           NEW n, n = Len(arrived)
    PROVE  /\ PmtsHeard \subseteq 1 .. n
           /\ PmtsHeard' = PmtsHeard \cup (IF HearsPmt(pkt) THEN {n + 1} ELSE {})
           /\ TuningPmts' = TuningPmts \cup
                (IF /\ HearsPmt(pkt) /\ pkt.load.ok
                    /\ \/ pkt.load.infos # <<>>
                       \/ \E c \in PmtsHeard : arrived[c].load.infos # <<>>
                 THEN {n + 1} ELSE {})
<1>1. /\ n \in Nat /\ DOMAIN arrived = 1 .. n /\ DOMAIN arrived' = 1 .. n + 1
      /\ \A i \in 1 .. n : arrived'[i] = arrived[i]
      /\ arrived'[n + 1] = pkt
  BY ArrivedGrows
<1>2. /\ PatAt \in 0 .. n
      /\ PatAt # 0 => PatAt' = PatAt /\ NamedPmt' = NamedPmt
      /\ PatAt = 0 => PatAt' = IF NamesPat(pkt) THEN n + 1 ELSE 0
  BY PatGrows
<1>3. \A b \in 1 .. n + 1 : b \in 1 .. n \/ b = n + 1
  BY <1>1
<1>4. n + 1 \notin 1 .. n /\ n + 1 \in 1 .. n + 1
  BY <1>1
<1>5. PmtsHeard \subseteq 1 .. n /\ PmtsHeard' \subseteq 1 .. n + 1
  BY <1>1 DEF PmtsHeard
<1>6. \A b \in 1 .. n : b \in PmtsHeard' <=> b \in PmtsHeard
  <2> SUFFICES ASSUME NEW b \in 1 .. n PROVE b \in PmtsHeard' <=> b \in PmtsHeard
    OBVIOUS
  <2>1. b \in 1 .. n + 1 /\ arrived'[b] = arrived[b]
    BY <1>1
  <2>2. (PatAt' \in 1 .. b - 1) <=> (PatAt \in 1 .. b - 1)
    BY <1>1, <1>2
  <2>3. PatAt \in 1 .. b - 1 => NamedPmt' = NamedPmt
    BY <1>1, <1>2
  <2> QED  BY <2>1, <2>2, <2>3, <1>1 DEF PmtsHeard
<1>7. n + 1 \in PmtsHeard' <=> HearsPmt(pkt)
  <2>1. (PatAt' \in 1 .. n + 1 - 1) <=> PatAt # 0
    BY <1>1, <1>2
  <2>2. n + 1 \in PmtsHeard' <=>
           (PatAt' \in 1 .. n + 1 - 1) /\ pkt.pid = NamedPmt' /\ pkt.pusi /\ Heard(pkt)
    BY <1>1, <1>4 DEF PmtsHeard
  <2> QED  BY <2>1, <2>2, <1>2 DEF HearsPmt
<1>8. PmtsHeard' = PmtsHeard \cup (IF HearsPmt(pkt) THEN {n + 1} ELSE {})
  BY <1>3, <1>4, <1>5, <1>6, <1>7, Zenon
<1> DEFINE tunes == /\ HearsPmt(pkt) /\ pkt.load.ok
                    /\ \/ pkt.load.infos # <<>>
                       \/ \E c \in PmtsHeard : arrived[c].load.infos # <<>>
<1>9. TuningPmts \subseteq PmtsHeard /\ TuningPmts' \subseteq PmtsHeard'
  BY DEF TuningPmts
<1>10. \A b \in 1 .. n : b \in TuningPmts' <=> b \in TuningPmts
  <2> SUFFICES ASSUME NEW b \in 1 .. n PROVE b \in TuningPmts' <=> b \in TuningPmts
    OBVIOUS
  <2>1. b \in PmtsHeard' <=> b \in PmtsHeard
    BY <1>6
  <2>2. arrived'[b] = arrived[b]
    BY <1>1
  <2>3. \A c : c \in PmtsHeard' /\ c <= b <=> c \in PmtsHeard /\ c <= b
    BY <1>1, <1>8
  <2>4. \A c \in PmtsHeard : arrived'[c] = arrived[c]
    BY <1>1, <1>5
  <2>5. (\E c \in PmtsHeard' : c <= b /\ arrived'[c].load.infos # <<>>)
        <=> (\E c \in PmtsHeard : c <= b /\ arrived[c].load.infos # <<>>)
    BY <2>3, <2>4
  <2> QED  BY <2>1, <2>2, <2>5 DEF TuningPmts
<1>11. n + 1 \in TuningPmts' <=> tunes
  <2>1. \A c \in PmtsHeard : c <= n + 1 /\ arrived'[c] = arrived[c]
    BY <1>1, <1>5
  <2>2. HearsPmt(pkt) =>
           ((\E c \in PmtsHeard' : c <= n + 1 /\ arrived'[c].load.infos # <<>>)
            <=> \/ pkt.load.infos # <<>>
                \/ \E c \in PmtsHeard : arrived[c].load.infos # <<>>)
    <3> SUFFICES ASSUME HearsPmt(pkt)
                 PROVE  (\E c \in PmtsHeard' : c <= n + 1 /\ arrived'[c].load.infos # <<>>)
                        <=> \/ pkt.load.infos # <<>>
                            \/ \E c \in PmtsHeard : arrived[c].load.infos # <<>>
      OBVIOUS
    <3>1. PmtsHeard' = PmtsHeard \cup {n + 1}
      BY <1>8
    <3>2. n + 1 <= n + 1 /\ arrived'[n + 1] = pkt
      BY <1>1
    <3> QED  BY <2>1, <3>1, <3>2, Zenon
  <2> QED  BY <2>2, <1>1, <1>7 DEF TuningPmts
<1>12. TuningPmts' = TuningPmts \cup (IF tunes THEN {n + 1} ELSE {})
  <2> HIDE DEF tunes
  <2>1. TuningPmts \subseteq 1 .. n /\ TuningPmts' \subseteq 1 .. n + 1
    BY <1>5, <1>9
  <2> QED  BY <2>1, <1>3, <1>4, <1>10, <1>11, Zenon
<1> QED  BY <1>5, <1>8, <1>12

(* Once tuned, always tuned.                                               *)
LEMMA TunedGrows ==
    ASSUME IInv, IInv', NEW pkt \in Arrivals, arrived' = Append(arrived, pkt),
           NEW n, n = Len(arrived)
    PROVE  /\ TunedAt \in 1 .. n + 1 /\ (TuningPmts # {} <=> TunedAt <= n)
           /\ TuningPmts # {} => TunedAt \in PmtsHeard /\ TunedAt' = TunedAt
           /\ TuningPmts = {} => TunedAt = n + 1
           /\ TuningPmts = {} => TunedAt' = IF TuningPmts' = {} THEN n + 2 ELSE n + 1
<1>1. n \in Nat /\ Len(arrived') = n + 1
  BY ArrivedGrows
<1>2. TunedFirst /\ TunedFirst'
  <2>1. TypeOK /\ TypeOK'
    BY DEF IInv
  <2>2. TypeOK => TunedFirst
    BY TunedFirstHolds
  <2>3. TypeOK' => TunedFirst'
    BY TunedFirstHolds, PTL
  <2> QED  BY <2>1, <2>2, <2>3
<1>3. /\ PmtsHeard \subseteq 1 .. n
      /\ TuningPmts' = TuningPmts \/ TuningPmts' = TuningPmts \cup {n + 1}
  BY PmtsGrow
<1>4. TuningPmts \subseteq PmtsHeard
  BY DEF TuningPmts
<1>5. CASE TuningPmts = {}
  <2>1. TunedAt = n + 1
    BY <1>2, <1>5 DEF TunedFirst
  <2>2. TuningPmts' = {} => TunedAt' = n + 2
    BY <1>1, <1>2 DEF TunedFirst
  <2>3. TuningPmts' # {} => TunedAt' = n + 1
    BY <1>2, <1>3, <1>5 DEF TunedFirst
  <2> QED  BY <1>1, <1>5, <2>1, <2>2, <2>3
<1>6. CASE TuningPmts # {}
  <2>1. TunedAt \in TuningPmts /\ \A b \in TuningPmts : TunedAt <= b
    BY <1>2, <1>6 DEF TunedFirst
  <2>2. TunedAt \in 1 .. n /\ TunedAt \in PmtsHeard
    BY <2>1, <1>3, <1>4
  <2>3. TunedAt' \in TuningPmts' /\ \A b \in TuningPmts' : TunedAt' <= b
    BY <1>2, <1>3, <1>6 DEF TunedFirst
  <2>4. TunedAt' <= TunedAt /\ TunedAt <= TunedAt'
    <3>1. TunedAt' = n + 1 \/ TunedAt' \in TuningPmts
      BY <2>3, <1>3
    <3>2. TunedAt \in TuningPmts' /\ TunedAt \in 1 .. n
      BY <2>1, <2>2, <1>3
    <3>3. TunedAt' <= TunedAt
      BY <2>3, <3>2
    <3>4. TunedAt <= n + 1
      BY <3>2, <1>1
    <3> QED  BY <3>1, <3>3, <3>4, <2>1
  <2>5. TunedAt' \in Int /\ TunedAt \in Int
    <3>1. TunedAt' = n + 1 \/ TunedAt' \in TuningPmts
      BY <2>3, <1>3
    <3>2. \A b \in TuningPmts : b \in Int
      BY <1>1, <1>3, <1>4
    <3> QED  BY <3>1, <3>2, <2>2, <1>1
  <2> QED  BY <2>2, <2>4, <2>5, <1>1, <1>6
<1> QED  BY <1>5, <1>6

-----------------------------------------------------------------------------
(***************************************************************************)
(* The tables are those the packets make.                                  *)
(***************************************************************************)
PcrPmts(i) == {b \in PmtsHeard : b < i /\ arrived[b].load.ok /\ b <= TunedAt}

(* The PCR PID at a packet depends on what came before it alone.           *)
LEMMA PcrPidGrows ==
    ASSUME IInv, IInv', NEW pkt \in Arrivals, arrived' = Append(arrived, pkt),
           NEW n, n = Len(arrived)
    PROVE  /\ \A i \in 1 .. n + 1 : PcrPidAt(i)' = PcrPidAt(i)
           /\ PcrPidAt(n + 2)' = IF HearsPmt(pkt) /\ pkt.load.ok /\ TuningPmts = {}
                                 THEN pkt.load.pcrPid ELSE PcrPidAt(n + 1)
<1>1. /\ n \in Nat /\ Len(arrived') = n + 1
      /\ \A i \in 1 .. n : arrived'[i] = arrived[i]
      /\ arrived'[n + 1] = pkt
  BY ArrivedGrows
<1>2. /\ PmtsHeard \subseteq 1 .. n
      /\ PmtsHeard' = PmtsHeard \cup (IF HearsPmt(pkt) THEN {n + 1} ELSE {})
  BY PmtsGrow
<1>3. /\ TunedAt \in 1 .. n + 1 /\ (TuningPmts # {} <=> TunedAt <= n)
      /\ TuningPmts # {} => TunedAt \in PmtsHeard /\ TunedAt' = TunedAt
      /\ TuningPmts = {} => TunedAt = n + 1
      /\ TuningPmts = {} => TunedAt' = IF TuningPmts' = {} THEN n + 2 ELSE n + 1
  BY TunedGrows
<1>4. \A b \in PmtsHeard : /\ b \in 1 .. n /\ arrived'[b] = arrived[b]
                           /\ b <= TunedAt' <=> b <= TunedAt
  <2> SUFFICES ASSUME NEW b \in PmtsHeard
               PROVE  /\ b \in 1 .. n /\ arrived'[b] = arrived[b]
                      /\ b <= TunedAt' <=> b <= TunedAt
    OBVIOUS
  <2>1. b \in 1 .. n /\ arrived'[b] = arrived[b]
    BY <1>1, <1>2
  <2>2. CASE TuningPmts # {}
    BY <1>3, <2>1, <2>2
  <2>3. CASE TuningPmts = {}
    <3>1. TunedAt = n + 1 /\ TunedAt' \in {n + 1, n + 2}
      BY <1>3, <2>3
    <3> QED  BY <1>1, <2>1, <3>1
  <2> QED  BY <2>1, <2>2, <2>3
<1>5. \A S \in SUBSET (1 .. n) : S # {} => Max(S) \in S
  BY <1>1, MaxIsGreatest
<1>6. ASSUME NEW i \in 1 .. n + 1 PROVE PcrPidAt(i)' = PcrPidAt(i)
  <2>1. \A b \in PmtsHeard' : b < i => b \in PmtsHeard
    BY <1>1, <1>2
  <2>2. PcrPmts(i)' = PcrPmts(i)
    BY <2>1, <1>2, <1>4 DEF PcrPmts
  <2>3. PcrPmts(i) # {} => Max(PcrPmts(i)) \in PmtsHeard
    <3>1. PcrPmts(i) \subseteq PmtsHeard
      BY DEF PcrPmts
    <3> QED  BY <3>1, <1>2, <1>5
  <2>4. PcrPidAt(i) = IF PcrPmts(i) = {} THEN 0 ELSE arrived[Max(PcrPmts(i))].load.pcrPid
    BY DEF PcrPidAt, PcrPmts
  <2>5. PcrPidAt(i)' = IF PcrPmts(i)' = {} THEN 0 ELSE arrived'[Max(PcrPmts(i)')].load.pcrPid
    BY DEF PcrPidAt, PcrPmts
  <2> QED  BY <2>2, <2>3, <2>4, <2>5, <1>4
<1>7. PcrPidAt(n + 2)' = IF HearsPmt(pkt) /\ pkt.load.ok /\ TuningPmts = {}
                         THEN pkt.load.pcrPid ELSE PcrPidAt(n + 1)
  <2>0. PICK m, k : m = n + 1 /\ k = n + 2
    OBVIOUS
  <2>1. m \in 1 .. n + 1 /\ m \in Nat /\ m < k /\ \A b \in 1 .. n : b < m /\ b < k
    BY <2>0, <1>1
  <2>2. PcrPidAt(k)' = IF PcrPmts(k)' = {} THEN 0 ELSE arrived'[Max(PcrPmts(k)')].load.pcrPid
    BY DEF PcrPidAt, PcrPmts
  <2>3. PcrPidAt(m) = IF PcrPmts(m) = {} THEN 0 ELSE arrived[Max(PcrPmts(m))].load.pcrPid
    BY DEF PcrPidAt, PcrPmts
  <2>4. PcrPmts(m) \subseteq 1 .. n /\ PcrPmts(m) \subseteq PmtsHeard
    BY <1>2 DEF PcrPmts
  <2>5. m <= TunedAt' <=> TuningPmts = {}
    BY <2>0, <1>1, <1>3
  <2>6. \A b \in PmtsHeard : b \in PcrPmts(k)' <=> b \in PcrPmts(m)
    BY <2>1, <1>2, <1>4 DEF PcrPmts
  <2>7. HearsPmt(pkt) => (m \in PcrPmts(k)' <=> pkt.load.ok /\ TuningPmts = {})
    <3>1. HearsPmt(pkt) => m \in PmtsHeard'
      BY <2>0, <1>2
    <3>2. arrived'[m] = pkt
      BY <2>0, <1>1
    <3>3. m \in PcrPmts(k)' <=>
             m \in PmtsHeard' /\ m < k /\ arrived'[m].load.ok /\ m <= TunedAt'
      BY DEF PcrPmts
    <3>4. arrived'[m].load.ok <=> pkt.load.ok
      BY <3>2
    <3> QED  BY <3>1, <3>3, <3>4, <2>1, <2>5
  <2>8. PcrPmts(k)' \subseteq PmtsHeard'
    BY DEF PcrPmts
  <2>9. CASE HearsPmt(pkt) /\ pkt.load.ok /\ TuningPmts = {}
    <3>1. m \in PcrPmts(k)' /\ \A b \in PcrPmts(k)' : b \in Nat /\ b <= m
      <4>1. m \in PcrPmts(k)'
        BY <2>7, <2>9
      <4>2. \A b \in PmtsHeard' : b \in 1 .. n \/ b = m
        BY <2>0, <2>9, <1>2
      <4>3. \A b \in 1 .. n : b \in Nat /\ b <= m
        BY <2>0, <1>1
      <4>4. m \in Nat /\ m <= m
        BY <2>1
      <4> QED  BY <4>1, <4>2, <4>3, <4>4, <2>8
    <3>2. Max(PcrPmts(k)') = m
      BY <3>1, MaxIs
    <3> QED  BY <3>1, <3>2, <2>2, <2>9, <2>0, <1>1
  <2>10. CASE ~(HearsPmt(pkt) /\ pkt.load.ok /\ TuningPmts = {})
    <3>1. PcrPmts(k)' \subseteq PmtsHeard
      BY <2>7, <2>8, <2>10, <2>0, <1>2
    <3>2. PcrPmts(k)' = PcrPmts(m)
      BY <3>1, <2>4, <2>6
    <3>3. PcrPmts(m) # {} => Max(PcrPmts(m)) \in PmtsHeard
      BY <2>4, <1>5
    <3>4. PcrPidAt(k)' = PcrPidAt(m)
      BY <3>2, <3>3, <2>2, <2>3, <1>4
    <3> QED  BY <3>4, <2>10, <2>0
  <2> QED  BY <2>9, <2>10
<1> QED  BY <1>6, <1>7

(* A packet that touches no table is none the tables could go by.          *)
LEMMA TablesQuiet ==
    ASSUME TableInv, IInv', NEW pkt \in Arrivals, arrived' = Append(arrived, pkt),
           UNCHANGED tables, DOMAIN mEsFrames' = DOMAIN mEsFrames,
           PatAt = 0 => ~NamesPat(pkt), HearsPmt(pkt) => TuningPmts # {}
    PROVE  TablesHeard'
<1>0. PICK n : n = Len(arrived)
  OBVIOUS
<1>1. /\ IInv /\ n \in Nat /\ Len(arrived') = n + 1
      /\ \A i \in 1 .. n : arrived'[i] = arrived[i]
  BY <1>0, ArrivedGrows DEF TableInv
<1>2. /\ PatAt # 0 => PatAt' = PatAt /\ NamedPmt' = NamedPmt
      /\ PatAt = 0 => PatAt' = 0
  BY <1>0, <1>1, PatGrows
<1>3. /\ PmtsHeard \subseteq 1 .. n
      /\ PmtsHeard' = PmtsHeard \cup (IF HearsPmt(pkt) THEN {n + 1} ELSE {})
      /\ TuningPmts = {} => PmtsHeard' = PmtsHeard /\ TuningPmts' = {}
      /\ TuningPmts # {} => TuningPmts' # {}
  BY <1>0, <1>1, PmtsGrow
<1>4. /\ TuningPmts # {} => TunedAt' = TunedAt
      /\ TuningPmts = {} => TunedAt = n + 1 /\ TunedAt' = n + 2
  BY <1>0, <1>1, <1>3, TunedGrows
<1>5. PcrPidAt(n + 2)' = PcrPidAt(n + 1)
  BY <1>0, <1>1, PcrPidGrows
<1>6. \A b \in PmtsHeard : /\ b \in PmtsHeard' /\ arrived'[b] = arrived[b]
                           /\ b <= TunedAt => b <= TunedAt'
  BY <1>1, <1>3, <1>4
<1>7. /\ mPmtId' = mPmtId /\ mInfos' = mInfos /\ mPcrId' = mPcrId
  BY DEF tables
<1>8. (mInfos' = <<>>) <=> \A b \in PmtsHeard' : arrived'[b].load.infos = <<>>
  <2>1. CASE TuningPmts = {}
    BY <2>1, <1>3, <1>6, <1>7 DEF TableInv, TablesHeard
  <2>2. CASE TuningPmts # {}
    <3>1. PICK c \in PmtsHeard : arrived[c].load.infos # <<>>
      BY <2>2 DEF TuningPmts
    <3>2. mInfos # <<>>
      BY <3>1 DEF TableInv, TablesHeard
    <3> QED  BY <3>1, <3>2, <1>6, <1>7
  <2> QED  BY <2>1, <2>2
<1>9. \A q \in Pids(mInfos') :
         \E b \in PmtsHeard' : b <= TunedAt' /\ q \in Pids(arrived'[b].load.infos)
  BY <1>6, <1>7 DEF TableInv, TablesHeard
<1>10. (DOMAIN mEsFrames' = {}) <=> TuningPmts' = {}
  BY <1>3 DEF TableInv, TablesHeard
<1>11. mPcrId' = PcrPidAt(Len(arrived) + 1)'
  <2>1. mPcrId = PcrPidAt(n + 1)
    BY <1>0 DEF TableInv, TablesHeard
  <2>2. PcrPidAt(Len(arrived) + 1)' = PcrPidAt(n + 2)'
    <3>1. Len(arrived') + 1 = n + 2
      BY <1>1
    <3> QED  BY <3>1, Zenon DEF PcrPidAt
  <2> QED  BY <2>1, <2>2, <1>5, <1>7
<1>12. /\ mPmtId' = IF PatAt' = 0 THEN 0 ELSE NamedPmt'
       /\ PatAt' # 0 => NamedPmt' # 0
  BY <1>2, <1>7 DEF TableInv, TablesHeard
<1> QED  BY <1>8, <1>9, <1>10, <1>11, <1>12 DEF TablesHeard

(* The first PAT that names a program.                                     *)
LEMMA TablesNamed ==
    ASSUME TableInv, IInv', NEW pkt \in Arrivals, arrived' = Append(arrived, pkt),
           ParsePat(pkt), NamesPat(pkt)
    PROVE  TablesHeard'
<1>0. PICK n : n = Len(arrived)
  OBVIOUS
<1>1. /\ IInv /\ n \in Nat /\ Len(arrived') = n + 1
      /\ \A i \in 1 .. n : arrived'[i] = arrived[i]
  BY <1>0, ArrivedGrows DEF TableInv
<1>2. PatAt = 0
  BY DEF TableInv, TablesHeard, ParsePat, ToPat
<1>3. PatAt' = n + 1 /\ NamedPmt' = pkt.load.programs[Max(Names(pkt))].pmt
  BY <1>0, <1>1, <1>2, PatGrows
<1>4. /\ PmtsHeard \subseteq 1 .. n /\ PmtsHeard' = PmtsHeard /\ TuningPmts' = TuningPmts
      /\ ~HearsPmt(pkt)
  BY <1>0, <1>1, <1>2, PmtsGrow DEF HearsPmt
<1>5. TunedAt <= TunedAt' /\ PcrPidAt(n + 2)' = PcrPidAt(n + 1)
  BY <1>0, <1>1, <1>4, TunedGrows, PcrPidGrows
<1>6. /\ hasPayload(pkt.afc) /\ pkt.load.kind = "pat" /\ pkt.pid = MPEGTS_PAT_PID
      /\ pkt.load.programs \in Seq([number : Nat, pmt : Pid])
  BY PayloadKinds, PacketFields DEF ParsePat, ToPat
<1>7. Max(Names(pkt)) \in DOMAIN pkt.load.programs
  <2>1. Len(pkt.load.programs) \in Nat /\ DOMAIN pkt.load.programs = 1 .. Len(pkt.load.programs)
    BY <1>6, LenProperties
  <2>2. Names(pkt) \subseteq 1 .. Len(pkt.load.programs) /\ Names(pkt) # {}
    BY <2>1 DEF Names, NamesPat
  <2> QED  BY <2>1, <2>2, MaxIsGreatest
<1>8. NamedPmt' # 0
  BY <1>3, <1>6, <1>7, DemuxerAssumption DEF DemuxerAssumption, MPEGTS_PAT_PID
<1>9. /\ mPmtId' = pkt.load.programs[Max(Names(pkt))].pmt
      /\ mInfos' = mInfos /\ mPcrId' = mPcrId /\ mEsFrames' = mEsFrames
  BY DEF ParsePat, Names, NamesPat
<1>10. (mInfos' = <<>>) <=> \A b \in PmtsHeard' : arrived'[b].load.infos = <<>>
  BY <1>1, <1>4, <1>9 DEF TableInv, TablesHeard
<1>11. \A q \in Pids(mInfos') :
          \E b \in PmtsHeard' : b <= TunedAt' /\ q \in Pids(arrived'[b].load.infos)
  <2>1. \A b \in PmtsHeard : /\ arrived'[b] = arrived[b]
                             /\ b <= TunedAt => b <= TunedAt'
    <3>1. TunedAt \in Int /\ TunedAt' \in Int
      BY <1>0, <1>1, TunedGrows
    <3> QED  BY <3>1, <1>1, <1>4, <1>5
  <2> QED  BY <2>1, <1>4, <1>9 DEF TableInv, TablesHeard
<1>12. mPcrId' = PcrPidAt(Len(arrived) + 1)'
  <2>1. mPcrId = PcrPidAt(n + 1)
    BY <1>0 DEF TableInv, TablesHeard
  <2>2. PcrPidAt(Len(arrived) + 1)' = PcrPidAt(n + 2)'
    <3>1. Len(arrived') + 1 = n + 2
      BY <1>1
    <3> QED  BY <3>1, Zenon DEF PcrPidAt
  <2> QED  BY <2>1, <2>2, <1>5, <1>9
<1>13. (DOMAIN mEsFrames' = {}) <=> TuningPmts' = {}
  BY <1>4, <1>9 DEF TableInv, TablesHeard
<1>14. PatAt' # 0
  BY <1>1, <1>3
<1> QED  BY <1>3, <1>8, <1>9, <1>10, <1>11, <1>12, <1>13, <1>14 DEF TablesHeard

(* A PMT that is decoded: accepted, and perhaps tuned to, or rejected.     *)
LEMMA TablesDecoded ==
    ASSUME TableInv, IInv', NEW pkt \in Arrivals, arrived' = Append(arrived, pkt),
           ~Ignored(pkt), ParsePmt(pkt), pkt.pusi
    PROVE  TablesHeard'
<1>0. PICK n : n = Len(arrived)
  OBVIOUS
<1> DEFINE all == mInfos \o pkt.load.infos
<1>1. /\ IInv /\ n \in Nat /\ Len(arrived') = n + 1
      /\ \A i \in 1 .. n : arrived'[i] = arrived[i]
      /\ arrived'[n + 1] = pkt /\ pkt \in ArrivalTypes
  BY <1>0, ArrivedGrows DEF TableInv
<1>2. /\ hasPayload(pkt.afc) /\ DOMAIN mEsFrames = {} /\ mPmtId # 0 /\ pkt.pid = mPmtId
      /\ mInfos' = all /\ mPmtId' = mPmtId
      /\ pkt.load.ok => mPcrId' = pkt.load.pcrPid /\ DOMAIN mEsFrames' = Pids(all)
      /\ ~pkt.load.ok => mPcrId' = mPcrId /\ mEsFrames' = mEsFrames
  BY DEF ParsePmt, ToPmt
<1>3. PatAt # 0 /\ HearsPmt(pkt) /\ TuningPmts = {}
  BY <1>2 DEF TableInv, TablesHeard, HearsPmt, Heard
<1>4. PatAt' = PatAt /\ NamedPmt' = NamedPmt
  BY <1>0, <1>1, <1>3, PatGrows
<1>5. /\ PmtsHeard \subseteq 1 .. n /\ PmtsHeard' = PmtsHeard \cup {n + 1}
      /\ TuningPmts' = IF pkt.load.ok /\ (\/ pkt.load.infos # <<>>
                                          \/ \E c \in PmtsHeard : arrived[c].load.infos # <<>>)
                       THEN {n + 1} ELSE {}
  BY <1>0, <1>1, <1>3, PmtsGrow
<1>6. TunedAt = n + 1 /\ n + 1 <= TunedAt'
  BY <1>0, <1>1, <1>3, TunedGrows
<1>7. PcrPidAt(n + 2)' = IF pkt.load.ok THEN pkt.load.pcrPid ELSE PcrPidAt(n + 1)
  BY <1>0, <1>1, <1>3, PcrPidGrows
<1>8. pkt.load.kind = "pmt" /\ pkt.load.infos \in Seq(Info) /\ mInfos \in Seq(Info)
  <2>1. Named(mPmtId)
    BY <1>1, <1>2 DEF IInv, TablesKnown
  <2>2. pkt.load.kind = "pmt"
    BY <2>1, <1>2, DemuxerAssumption DEF DemuxerAssumption, Named
  <2> QED  BY <2>2, <1>1, PacketFields DEF IInv, TypeOK
<1>9. /\ all = <<>> <=> mInfos = <<>> /\ pkt.load.infos = <<>>
      /\ Pids(all) = Pids(mInfos) \cup Pids(pkt.load.infos)
      /\ Pids(all) = {} <=> all = <<>>
  <2>1. all \in Seq(Info) /\ Len(all) = Len(mInfos) + Len(pkt.load.infos)
        /\ Len(mInfos) \in Nat /\ Len(pkt.load.infos) \in Nat
    BY <1>8, Continued
  <2>2. \A s \in Seq(Info) : s = <<>> <=> Len(s) = 0
    BY EmptySeq
  <2>3. all = <<>> <=> mInfos = <<>> /\ pkt.load.infos = <<>>
    <3> HIDE DEF all
    <3> QED  BY <2>1, <2>2, <1>8
  <2>4. Pids(all) = Pids(mInfos) \cup Pids(pkt.load.infos)
    <3>1. /\ DOMAIN mInfos = 1 .. Len(mInfos) /\ DOMAIN pkt.load.infos = 1 .. Len(pkt.load.infos)
          /\ DOMAIN all = 1 .. Len(mInfos) + Len(pkt.load.infos)
          /\ \A k \in 1 .. Len(mInfos) : all[k] = mInfos[k]
          /\ \A k \in 1 .. Len(pkt.load.infos) : all[Len(mInfos) + k] = pkt.load.infos[k]
          /\ \A k \in Len(mInfos) + 1 .. Len(mInfos) + Len(pkt.load.infos) :
                /\ k - Len(mInfos) \in 1 .. Len(pkt.load.infos)
                /\ all[k] = pkt.load.infos[k - Len(mInfos)]
      BY <1>8, Continued
    <3> HIDE DEF all
    <3>2. ASSUME NEW k \in DOMAIN all PROVE all[k].pid \in Pids(mInfos) \cup Pids(pkt.load.infos)
      <4>1. CASE k \in 1 .. Len(mInfos)
        BY <4>1, <3>1 DEF Pids
      <4>2. CASE k \in Len(mInfos) + 1 .. Len(mInfos) + Len(pkt.load.infos)
        BY <4>2, <3>1 DEF Pids
      <4> QED  BY <4>1, <4>2, <3>1, <2>1
    <3>3. ASSUME NEW k \in DOMAIN mInfos PROVE mInfos[k].pid \in Pids(all)
      <4>1. k \in DOMAIN all /\ all[k] = mInfos[k]
        BY <3>1, <2>1
      <4> QED  BY <4>1 DEF Pids
    <3>4. ASSUME NEW k \in DOMAIN pkt.load.infos PROVE pkt.load.infos[k].pid \in Pids(all)
      <4>1. Len(mInfos) + k \in DOMAIN all /\ all[Len(mInfos) + k] = pkt.load.infos[k]
        BY <3>1, <2>1
      <4> QED  BY <4>1 DEF Pids
    <3>5. Pids(all) \subseteq Pids(mInfos) \cup Pids(pkt.load.infos)
      BY <3>2 DEF Pids
    <3>6. Pids(mInfos) \subseteq Pids(all) /\ Pids(pkt.load.infos) \subseteq Pids(all)
      BY <3>3, <3>4 DEF Pids
    <3> QED  BY <3>5, <3>6
  <2>5. Pids(all) = {} <=> all = <<>>
    <3> HIDE DEF all
    <3>1. all # <<>> => 1 \in DOMAIN all
      BY <2>1, <2>2, LenProperties
    <3>2. DOMAIN <<>> = {}
      OBVIOUS
    <3> QED  BY <3>1, <3>2 DEF Pids
  <2> QED  BY <2>3, <2>4, <2>5
<1> HIDE DEF all
<1>10. \A b \in PmtsHeard : arrived'[b] = arrived[b] /\ b <= n /\ b <= TunedAt'
  <2>1. TunedAt' \in Int
    BY <1>0, <1>1, <1>3, TunedGrows
  <2> QED  BY <2>1, <1>1, <1>5, <1>6
<1>11. mInfos = <<>> <=> ~\E c \in PmtsHeard : arrived[c].load.infos # <<>>
  BY DEF TableInv, TablesHeard
<1>12. (mInfos' = <<>>) <=> \A b \in PmtsHeard' : arrived'[b].load.infos = <<>>
  BY <1>1, <1>2, <1>5, <1>9, <1>10, <1>11
<1>13. \A q \in Pids(mInfos') :
          \E b \in PmtsHeard' : b <= TunedAt' /\ q \in Pids(arrived'[b].load.infos)
  <2> SUFFICES ASSUME NEW q \in Pids(all)
               PROVE  \E b \in PmtsHeard' : b <= TunedAt' /\ q \in Pids(arrived'[b].load.infos)
    BY <1>2
  <2>1. CASE q \in Pids(mInfos)
    <3>1. PICK b \in PmtsHeard : q \in Pids(arrived[b].load.infos)
      BY <2>1 DEF TableInv, TablesHeard
    <3> QED  BY <3>1, <1>5, <1>10
  <2>2. CASE q \in Pids(pkt.load.infos)
    BY <2>2, <1>1, <1>5, <1>6
  <2> QED  BY <2>1, <2>2, <1>9
<1>14. (DOMAIN mEsFrames' = {}) <=> TuningPmts' = {}
  BY <1>2, <1>5, <1>9, <1>11
<1>15. mPcrId' = PcrPidAt(Len(arrived) + 1)'
  <2>1. mPcrId = PcrPidAt(n + 1)
    BY <1>0 DEF TableInv, TablesHeard
  <2>2. PcrPidAt(Len(arrived) + 1)' = PcrPidAt(n + 2)'
    <3>1. Len(arrived') + 1 = n + 2
      BY <1>1
    <3> QED  BY <3>1, Zenon DEF PcrPidAt
  <2> QED  BY <2>1, <2>2, <1>2, <1>7
<1> QED  BY <1>2, <1>4, <1>12, <1>13, <1>14, <1>15 DEF TableInv, TablesHeard

(* Every packet keeps the tables what the packets make them.               *)
LEMMA TablesNext ==
    ASSUME TableInv, IInv', NEW pkt \in Arrivals, arrived' = Append(arrived, pkt),
           parseTsPacket(pkt)
    PROVE  TablesHeard'
<1>1. CASE Ignore(pkt)
  <2>1. ~NamesPat(pkt) /\ ~HearsPmt(pkt)
    BY <1>1 DEF Ignore, NamesPat, HearsPmt, Heard
  <2> QED  BY <2>1, <1>1, TablesQuiet DEF Ignore
<1>2. CASE ~Ignored(pkt) /\ Skip(pkt)
  <2>1. PatAt = 0 => ~NamesPat(pkt)
    BY <1>2 DEF Skip, ToPat, NamesPat, Heard, TableInv, TablesHeard
  <2>2. HearsPmt(pkt) => TuningPmts # {}
    BY <1>2 DEF Skip, ToPmt, HearsPmt, Heard, TableInv, TablesHeard
  <2> QED  BY <2>1, <2>2, <1>2, TablesQuiet DEF Skip
<1>3. CASE ~Ignored(pkt) /\ ParsePes(pkt)
  <2>1. /\ ~ToPat(pkt) /\ hasPayload(pkt.afc) /\ DOMAIN mEsFrames # {}
        /\ DOMAIN mEsFrames' = DOMAIN mEsFrames /\ UNCHANGED tables
    BY <1>3 DEF ParsePes, ToPes
  <2>2. PatAt = 0 => ~NamesPat(pkt)
    BY <2>1 DEF ToPat, NamesPat, TableInv, TablesHeard
  <2>3. TuningPmts # {}
    BY <2>1 DEF TableInv, TablesHeard
  <2> QED  BY <2>1, <2>2, <2>3, TablesQuiet
<1>4. CASE ~Ignored(pkt) /\ ParsePat(pkt)
  <2>1. CASE NamesPat(pkt)
    BY <2>1, <1>4, TablesNamed
  <2>2. CASE ~NamesPat(pkt)
    <3>1. UNCHANGED <<tables, mEsFrames>>
      BY <2>2, <1>4 DEF ParsePat, ToPat, NamesPat, Names, Heard, tables
    <3>2. ~HearsPmt(pkt)
      BY <1>4 DEF ParsePat, ToPat, HearsPmt, TableInv, TablesHeard
    <3> QED  BY <3>1, <3>2, <2>2, TablesQuiet
  <2> QED  BY <2>1, <2>2
<1>5. CASE ~Ignored(pkt) /\ ParsePmt(pkt)
  <2>1. CASE pkt.pusi
    BY <2>1, <1>5, TablesDecoded
  <2>2. CASE ~pkt.pusi
    <3>1. UNCHANGED <<tables, mEsFrames>>
      BY <2>2, <1>5 DEF ParsePmt, tables
    <3> QED  BY <3>1, <2>2, TablesQuiet DEF NamesPat, HearsPmt
  <2> QED  BY <2>1, <2>2
<1> QED  BY <1>1, <1>2, <1>3, <1>4, <1>5 DEF parseTsPacket

-----------------------------------------------------------------------------
(***************************************************************************)
(* PCRs.                                                                   *)
(***************************************************************************)
PcrDue == {i \in Counted : CarriesPcr(i)}
Valued(evs, arr) ==
    \A k \in DOMAIN evs : evs[k].kind = "pcr" => evs[k].pcr = arr[evs[k].at].af.pcr

(* The PCRs due grow by the packet exactly when pcrOutCallback is called   *)
(* for it.                                                                 *)
LEMMA PcrDueGrows ==
    ASSUME TableInv, IInv', NEW pkt \in Arrivals, arrived' = Append(arrived, pkt)
    PROVE  /\ PcrDue' = PcrDue \cup (IF Ignored(pkt) \/ PcrEvents(pkt) = <<>> THEN {} ELSE {Len(arrived) + 1})
           /\ PcrDue \subseteq 1 .. Len(arrived)
<1>0. PICK n : n = Len(arrived)
  OBVIOUS
<1>1. /\ IInv /\ n \in Nat /\ DOMAIN arrived = 1 .. n /\ DOMAIN arrived' = 1 .. n + 1
      /\ \A i \in 1 .. n : arrived'[i] = arrived[i]
      /\ arrived'[n + 1] = pkt
  BY <1>0, ArrivedGrows DEF TableInv
<1>2. /\ Counted' = Counted \cup (IF Ignored(pkt) THEN {} ELSE {n + 1})
      /\ Counted \subseteq 1 .. n
  BY <1>0, <1>1, CountedGrows
<1>3. \A i \in 1 .. n + 1 : PcrPidAt(i)' = PcrPidAt(i)
  BY <1>0, <1>1, PcrPidGrows
<1>4. PcrPidAt(n + 1) = mPcrId
  BY <1>0 DEF TableInv, TablesHeard
<1>5. PcrDue \subseteq Counted /\ PcrDue' \subseteq Counted'
  BY DEF PcrDue
<1>6. ASSUME NEW i \in 1 .. n PROVE i \in PcrDue' <=> i \in PcrDue
  <2>1. arrived'[i] = arrived[i] /\ PcrPidAt(i)' = PcrPidAt(i)
    BY <1>1, <1>3
  <2>2. CarriesPcr(i)' <=> CarriesPcr(i)
    BY <2>1 DEF CarriesPcr
  <2>3. i \in Counted' <=> i \in Counted
    BY <1>1, <1>2
  <2> QED  BY <2>2, <2>3 DEF PcrDue
<1>7. n + 1 \in PcrDue' <=> ~(Ignored(pkt) \/ PcrEvents(pkt) = <<>>)
  <2>1. PICK m : m = n + 1
    OBVIOUS
  <2>2. PcrPidAt(m)' = mPcrId /\ arrived'[m] = pkt
    BY <2>1, <1>1, <1>3, <1>4
  <2>3. CarriesPcr(m)' <=> /\ hasAdaptationField(pkt.afc) /\ pkt.af.pcr # NoPcr
                           /\ mPcrId # 0 /\ mPcrId = pkt.pid
    BY <2>2 DEF CarriesPcr
  <2>4. pkt.af.pcr # NoPcr => pkt.af.len > 0
    <3>1. pkt.af.len \in 0 .. 255
      BY PacketFields, DemuxerAssumption DEF DemuxerAssumption, Byte
    <3>2. pkt.af.pcr # NoPcr => pkt.af.len > PcrBytes
      BY DemuxerAssumption DEF DemuxerAssumption
    <3>3. \A len \in 0 .. 255 : len > PcrBytes => len > 0
      BY DEF PcrBytes
    <3> QED  BY <3>1, <3>2, <3>3
  <2>5. PcrEvents(pkt) # <<>> <=>
           /\ hasAdaptationField(pkt.afc) /\ pkt.af.len > 0 /\ pkt.af.pcr # NoPcr
           /\ mPcrId # 0 /\ pkt.pid = mPcrId
    BY DEF PcrEvents, shouldParsePcr
  <2>6. m \in Counted' <=> ~Ignored(pkt)
    BY <2>1, <1>1, <1>2
  <2>7. m \in PcrDue' <=> m \in Counted' /\ CarriesPcr(m)'
    BY DEF PcrDue
  <2> QED  BY <2>1, <2>3, <2>4, <2>5, <2>6, <2>7
<1>8. PcrDue' = PcrDue \cup (IF Ignored(pkt) \/ PcrEvents(pkt) = <<>> THEN {} ELSE {n + 1})
  <2>1. \A j \in 1 .. n + 1 : j \in 1 .. n \/ j = n + 1
    BY <1>1
  <2>2. n + 1 \notin 1 .. n
    BY <1>1
  <2>3. PcrDue' \subseteq 1 .. n + 1 /\ PcrDue \subseteq 1 .. n
    <3>1. 1 .. n \subseteq 1 .. n + 1 /\ n + 1 \in 1 .. n + 1
      BY <1>1
    <3>2. Counted' \subseteq 1 .. n + 1
      BY <3>1, <1>2
    <3> QED  BY <3>2, <1>2, <1>5
  <2> QED  BY <2>1, <2>2, <2>3, <1>6, <1>7, Zenon
<1>9. PcrDue \subseteq 1 .. n
  BY <1>2, <1>5
<1> QED  BY <1>0, <1>8, <1>9, Zenon

PcrInv == TableInv /\ PcrsExact

LEMMA PcrsNext ==
    ASSUME PcrInv, IInv', NEW pkt \in Arrivals, parseTsPacket(pkt), arrived' = Append(arrived, pkt)
    PROVE  PcrsExact'
<1>1. /\ IInv /\ TableInv /\ events \in Seq(Events)
      /\ Made(events, arrived, "pcr", PcrDue) /\ Valued(events, arrived)
  BY DEF PcrInv, TableInv, PcrsExact, MadeFor, Made, PcrDue, Valued, IInv, TypeOK
<1>2. /\ arrived \in Seq(ArrivalTypes) /\ pkt \in ArrivalTypes /\ Len(arrived) \in Nat
      /\ \A i \in 1 .. Len(arrived) : arrived'[i] = arrived[i]
      /\ arrived'[Len(arrived) + 1] = pkt /\ ThisPacket = Len(arrived) + 1
  BY <1>1, ArrivedGrows
<1>3. /\ PcrDue' = PcrDue \cup (IF Ignored(pkt) \/ PcrEvents(pkt) = <<>> THEN {} ELSE {Len(arrived) + 1})
      /\ PcrDue \subseteq 1 .. Len(arrived)
  BY <1>1, PcrDueGrows
<1>4. Made(events, arrived', "pcr", PcrDue)
  BY <1>1, <1>2, <1>3, MadeLater
<1>5. Valued(events, arrived')
  <2>1. \A k \in DOMAIN events : events[k].kind = "pcr" => events[k].at \in PcrDue
    BY <1>1 DEF Made
  <2> QED  BY <2>1, <1>1, <1>2, <1>3 DEF Valued
<1>6. CASE Ignored(pkt)
  <2>1. events' = events /\ PcrDue' = PcrDue
    BY <1>1, <1>3, <1>6, StepShape
  <2> QED  BY <2>1, <1>4, <1>5 DEF PcrsExact, MadeFor, Made, PcrDue, Valued
<1>7. CASE ~Ignored(pkt)
  <2>1. PICK es \in Seq(Events) :
           AllEs(es) /\ events' = events \o PcrEvents(pkt) \o CcEvents(pkt) \o es
    BY <1>1, <1>7, StepShape
  <2> DEFINE a == events \o PcrEvents(pkt)
             b == a \o CcEvents(pkt)
  <2>2. /\ PcrEvents(pkt) \in Seq(Events) /\ CcEvents(pkt) \in Seq(Events)
        /\ \A k \in DOMAIN CcEvents(pkt) : CcEvents(pkt)[k].kind = "cc"
    BY <1>1, OwnEvents
  <2>3. a \in Seq(Events)
    BY <1>1, <2>2, Continued
  <2>4. Made(a, arrived', "pcr", PcrDue') /\ Valued(a, arrived')
    <3>1. CASE PcrEvents(pkt) = <<>>
      <4>1. a = events /\ PcrDue' = PcrDue
        BY <3>1, <1>1, <1>3, <1>7, ConcatEmptySeq
      <4> QED  BY <4>1, <1>4, <1>5
    <3>2. CASE PcrEvents(pkt) # <<>>
      <4>1. PICK e \in Events : /\ PcrEvents(pkt) = <<e>> /\ e.kind = "pcr" /\ e.at = Len(arrived) + 1
                                /\ e.pid = pkt.pid /\ e.pcr = pkt.af.pcr
        BY <3>2, <1>1, <1>2, OwnEvents
      <4>2. PcrDue' = PcrDue \cup {e.at} /\ \A s \in PcrDue : s < e.at
        BY <3>2, <4>1, <1>2, <1>3, <1>7
      <4>3. e.pid = arrived'[e.at].pid /\ e.pcr = arrived'[e.at].af.pcr
        BY <4>1, <1>2
      <4>4. Made(events \o <<e>>, arrived', e.kind, PcrDue \cup {e.at})
        BY <1>1, <1>4, <4>1, <4>2, <4>3, MadeThis
      <4>5. Valued(events \o <<e>>, arrived')
        <5>1. <<e>> \in Seq(Events) /\ Len(<<e>>) = 1 /\ <<e>>[1] = e
          OBVIOUS
        <5>2. /\ DOMAIN events = 1 .. Len(events) /\ Len(events) \in Nat
              /\ DOMAIN (events \o <<e>>) = 1 .. Len(events) + 1
              /\ \A k \in 1 .. Len(events) : (events \o <<e>>)[k] = events[k]
              /\ (events \o <<e>>)[Len(events) + 1] = e
          BY <5>1, <1>1, Continued
        <5>3. \A k \in 1 .. Len(events) + 1 : k \in 1 .. Len(events) \/ k = Len(events) + 1
          BY <5>2
        <5> QED  BY <5>2, <5>3, <4>3, <1>5 DEF Valued
      <4> QED  BY <4>1, <4>2, <4>4, <4>5
    <3> QED  BY <3>1, <3>2
  <2>5. /\ b \in Seq(Events)
        /\ Made(b, arrived', "pcr", PcrDue')
        /\ \A k \in DOMAIN b : b[k].kind = "pcr" => k \in DOMAIN a /\ b[k] = a[k]
    <3> HIDE DEF a
    <3>1. b \in Seq(Events) /\ Made(b, arrived', "pcr", PcrDue')
      BY <2>2, <2>3, <2>4, MadeOthers, Continued
    <3>2. /\ DOMAIN a = 1 .. Len(a) /\ DOMAIN CcEvents(pkt) = 1 .. Len(CcEvents(pkt))
          /\ DOMAIN b = 1 .. Len(a) + Len(CcEvents(pkt))
          /\ Len(a) \in Nat /\ Len(CcEvents(pkt)) \in Nat
          /\ \A k \in 1 .. Len(a) : b[k] = a[k]
          /\ \A k \in Len(a) + 1 .. Len(a) + Len(CcEvents(pkt)) :
                k - Len(a) \in 1 .. Len(CcEvents(pkt)) /\ b[k] = CcEvents(pkt)[k - Len(a)]
      BY <2>2, <2>3, Continued
    <3> HIDE DEF b
    <3>3. \A k \in DOMAIN b : b[k].kind = "pcr" => k \in DOMAIN a /\ b[k] = a[k]
      <4> SUFFICES ASSUME NEW k \in DOMAIN b, b[k].kind = "pcr" PROVE k \in DOMAIN a /\ b[k] = a[k]
        OBVIOUS
      <4>1. k \in 1 .. Len(a) \/ k \in Len(a) + 1 .. Len(a) + Len(CcEvents(pkt))
        BY <3>2
      <4> QED  BY <4>1, <3>2, <2>2
    <3> QED  BY <3>1, <3>3
  <2>6. events' = b \o es /\ \A k \in DOMAIN es : es[k].kind = "es"
    BY <2>1 DEF AllEs
  <2>7. Valued(b, arrived')
    <3> HIDE DEF a, b
    <3> QED  BY <2>4, <2>5 DEF Valued
  <2> HIDE DEF a, b
  <2>8. Made(events', arrived', "pcr", PcrDue')
    BY <2>5, <2>6, MadeOthers
  <2>9. Valued(events', arrived')
    <3>1. /\ DOMAIN b = 1 .. Len(b) /\ DOMAIN es = 1 .. Len(es)
          /\ DOMAIN events' = 1 .. Len(b) + Len(es)
          /\ Len(b) \in Nat /\ Len(es) \in Nat
          /\ \A k \in 1 .. Len(b) : events'[k] = b[k]
          /\ \A k \in Len(b) + 1 .. Len(b) + Len(es) :
                k - Len(b) \in 1 .. Len(es) /\ events'[k] = es[k - Len(b)]
      BY <2>5, <2>6, Continued
    <3> SUFFICES ASSUME NEW k \in DOMAIN events', events'[k].kind = "pcr"
                 PROVE  events'[k].pcr = arrived'[events'[k].at].af.pcr
      BY DEF Valued
    <3>2. k \in 1 .. Len(b) \/ k \in Len(b) + 1 .. Len(b) + Len(es)
      BY <3>1
    <3> QED  BY <3>1, <3>2, <2>6, <2>7 DEF Valued
  <2> QED  BY <2>8, <2>9 DEF PcrsExact, MadeFor, Made, PcrDue, Valued
<1> QED  BY <1>6, <1>7

(* Before any packet: no table was heard.                                  *)
LEMMA TablesInit == Init => TableInv
<1> SUFFICES ASSUME Init PROVE TableInv
  OBVIOUS
<1>1. IInv /\ TypeOK
  BY InitKeeps DEF IInv
<1>2. arrived = <<>> /\ Len(arrived) = 0 /\ DOMAIN arrived = {}
  BY DEF Init
<1>3. PatAt = 0
  <2>1. PatFirst
    BY <1>1, PatFirstHolds
  <2> QED  BY <2>1, <1>2 DEF PatFirst
<1>4. PmtsHeard = {} /\ TuningPmts = {}
  BY <1>2 DEF PmtsHeard, TuningPmts
<1>5. \A i : PcrPidAt(i) = 0
  BY <1>4 DEF PcrPidAt
<1> QED  BY <1>1, <1>2, <1>3, <1>4, <1>5 DEF Init, TableInv, TablesHeard, Pids

(* Nothing is heard when nothing arrives.                                  *)
LEMMA NothingHeard ==
    ASSUME UNCHANGED arrived
    PROVE  /\ PatAt' = PatAt /\ NamedPmt' = NamedPmt /\ PmtsHeard' = PmtsHeard
           /\ TuningPmts' = TuningPmts /\ TunedAt' = TunedAt
           /\ \A i : PcrPidAt(i)' = PcrPidAt(i)
<1>1. PatAt' = PatAt
  BY DEF PatAt, SelectInSeq
<1>2. NamedPmt' = NamedPmt
  BY <1>1 DEF NamedPmt
<1>3. PmtsHeard' = PmtsHeard
  BY <1>1, <1>2 DEF PmtsHeard
<1>4. TuningPmts' = TuningPmts
  BY <1>3 DEF TuningPmts
<1>5. TunedAt' = TunedAt
  BY <1>4 DEF TunedAt
<1>6. \A i : PcrPidAt(i)' = PcrPidAt(i)
  BY <1>3, <1>5 DEF PcrPidAt
<1> QED  BY <1>1, <1>2, <1>3, <1>4, <1>5, <1>6

(* Every packet keeps the tables.                                          *)
LEMMA TableInvNext == TableInv /\ [Next]_vars => TableInv'
<1> SUFFICES ASSUME TableInv, [Next]_vars PROVE TableInv'
  OBVIOUS
<1>1. IInv'
  BY NextKeeps DEF TableInv
<1>2. CASE UNCHANGED vars
  <2>1. /\ PatAt' = PatAt /\ NamedPmt' = NamedPmt /\ PmtsHeard' = PmtsHeard
        /\ TuningPmts' = TuningPmts /\ TunedAt' = TunedAt
    BY <1>2, NothingHeard DEF vars
  <2>2. PcrPidAt(Len(arrived) + 1)' = PcrPidAt(Len(arrived) + 1)
    BY <2>1, <1>2 DEF vars, PcrPidAt
  <2> QED  BY <2>1, <2>2, <1>1, <1>2 DEF vars, tables, TableInv, TablesHeard
<1>3. CASE Next
  <2>1. PICK pkt \in Arrivals : arrived' = Append(arrived, pkt) /\ parseTsPacket(pkt)
    BY <1>3 DEF Next, Arrive
  <2> QED  BY <2>1, <1>1, TablesNext DEF TableInv
<1> QED  BY <1>2, <1>3

(***************************************************************************)
(* Whatever packets arrive, pcrOutCallback is called once, in order, with  *)
(* the PCR of each packet on the PID that the PMTs so far name for it.     *)
(* Packets whose adaptation field is longer than 182 bytes, createPcr's    *)
(* among them, are the exception: parseAdaptationField refuses them and    *)
(* the whole packet is dropped, its PCR with it.                           *)
(***************************************************************************)
THEOREM PcrsAlwaysExact == Spec => []PcrsExact
<1>1. Init => PcrInv
  <2> SUFFICES ASSUME Init PROVE PcrInv
    OBVIOUS
  <2>1. DOMAIN <<>> = {} /\ Counted = {} /\ TableInv
    BY TablesInit DEF Init, Counted
  <2> QED  BY <2>1 DEF Init, PcrInv, PcrsExact, MadeFor
<1>2. PcrInv /\ [Next]_vars => PcrInv'
  <2> SUFFICES ASSUME PcrInv, [Next]_vars PROVE PcrInv'
    OBVIOUS
  <2>1. TableInv'
    BY TableInvNext DEF PcrInv
  <2>2. CASE UNCHANGED vars
    <3>1. PmtsHeard' = PmtsHeard /\ TunedAt' = TunedAt
      BY <2>2, NothingHeard DEF vars
    <3>4. PcrDue' = PcrDue
      BY <3>1, <2>2 DEF vars, PcrDue, Counted, CarriesPcr, PcrPidAt
    <3>5. events' = events /\ arrived' = arrived
      BY <2>2 DEF vars
    <3> QED  BY <3>4, <3>5, <2>1 DEF PcrInv, PcrsExact, MadeFor, PcrDue
  <2>3. CASE Next
    <3>1. PICK pkt \in Arrivals : arrived' = Append(arrived, pkt) /\ parseTsPacket(pkt)
      BY <2>3 DEF Next, Arrive
    <3>2. PcrsExact'
      BY <3>1, <2>1, PcrsNext DEF TableInv
    <3> QED  BY <2>1, <3>2 DEF PcrInv
  <2> QED  BY <2>2, <2>3
<1>3. PcrInv => PcrsExact
  BY DEF PcrInv
<1> QED  BY <1>1, <1>2, <1>3, PTL DEF Spec

-----------------------------------------------------------------------------
(***************************************************************************)
(* One packet, as the streams see it.                                      *)
(***************************************************************************)
Quiet(own) == own \in Seq(Events) /\ \A k \in DOMAIN own : own[k].kind # "es"

(* The PCR and the error of a packet are no frames.                        *)
LEMMA OwnQuiet ==
    ASSUME IInv, NEW pkt \in Arrivals
    PROVE  Quiet(<<>>) /\ Quiet(PcrEvents(pkt) \o CcEvents(pkt))
<1>1. Quiet(<<>>)
  BY EmptySeq DEF Quiet
<1> DEFINE p == PcrEvents(pkt)
           c == CcEvents(pkt)
<1>2. /\ p \in Seq(Events) /\ c \in Seq(Events)
      /\ \A k \in DOMAIN p : p[k].kind = "pcr"
      /\ \A k \in DOMAIN c : c[k].kind = "cc"
  BY OwnEvents
<1> HIDE DEF p, c
<1>3. /\ p \o c \in Seq(Events)
      /\ DOMAIN p = 1 .. Len(p) /\ DOMAIN c = 1 .. Len(c)
      /\ DOMAIN (p \o c) = 1 .. Len(p) + Len(c) /\ Len(p) \in Nat /\ Len(c) \in Nat
      /\ \A k \in 1 .. Len(p) : (p \o c)[k] = p[k]
      /\ \A k \in Len(p) + 1 .. Len(p) + Len(c) :
            k - Len(p) \in 1 .. Len(c) /\ (p \o c)[k] = c[k - Len(p)]
  BY <1>2, Continued
<1>4. ASSUME NEW k \in DOMAIN (p \o c) PROVE (p \o c)[k].kind # "es"
  <2>1. k \in 1 .. Len(p) \/ k \in Len(p) + 1 .. Len(p) + Len(c)
    BY <1>3
  <2> QED  BY <2>1, <1>2, <1>3
<1> QED  BY <1>1, <1>3, <1>4 DEF Quiet, p, c

(* The callbacks of a PES packet, in order.                                *)
LEMMA Regroup ==
    ASSUME NEW s \in Seq(Events), NEW t \in Seq(Events), NEW u \in Seq(Events)
    PROVE  s \o (t \o u) = (s \o t) \o u
BY ConcatAssociative

LEMMA EsChain ==
    ASSUME IInv, NEW pkt \in Arrivals, ~Ignored(pkt), ParsePes(pkt)
    PROVE  \E own : /\ Quiet(own)
                    /\ events' = ((events \o own) \o Flush(pkt, Building(pkt))) \o Completes(pkt)
<1> DEFINE p == PcrEvents(pkt)
           c == CcEvents(pkt)
           f == Flush(pkt, Building(pkt))
           l == Completes(pkt)
<1>1. /\ events \in Seq(Events) /\ p \in Seq(Events) /\ c \in Seq(Events)
      /\ f \in Seq(Events) /\ l \in Seq(Events)
  BY OwnEvents, DeliveredEs DEF AllEs, IInv, TypeOK
<1>2. events' = ((events \o p) \o c) \o (f \o l)
  BY ParsePesSteps DEF parseAdaptationField
<1>3. Quiet(p \o c)
  BY OwnQuiet
<1> HIDE DEF p, c, f, l
<1>4. p \o c \in Seq(Events) /\ (events \o p) \o c = events \o (p \o c)
  <2>1. p \o c \in Seq(Events)
    BY <1>1, ConcatProperties
  <2>2. (events \o p) \o c = events \o (p \o c)
    BY <1>1, ConcatAssociative
  <2> QED  BY <2>1, <2>2
<1>5. events \o (p \o c) \in Seq(Events)
  BY <1>1, <1>4, ConcatProperties
<1>6. events' = ((events \o (p \o c)) \o f) \o l
  <2> DEFINE own == p \o c
             s   == events \o own
  <2>1. s \in Seq(Events) /\ events' = s \o (f \o l)
    BY <1>2, <1>4, <1>5
  <2> HIDE DEF s
  <2>2. s \o (f \o l) = (s \o f) \o l
    BY <2>1, <1>1, Regroup
  <2> QED  BY <2>1, <2>2 DEF s
<1> QED  BY <1>3, <1>6 DEF f, l

(* Once there are streams there is a PMT PID.                              *)
LEMMA StreamsHavePmt ==
    ASSUME TableInv, DOMAIN mEsFrames # {}
    PROVE  mPmtId # 0
<1>1. PICK b \in PmtsHeard : TRUE
  BY DEF TableInv, TablesHeard, TuningPmts
<1>2. Len(arrived) \in Nat /\ DOMAIN arrived = 1 .. Len(arrived)
  BY LenProperties DEF TableInv, IInv, TypeOK
<1>3. PatAt \in 1 .. b - 1 /\ b \in 1 .. Len(arrived)
  BY <1>1, <1>2 DEF PmtsHeard
<1>4. PatAt # 0
  BY <1>2, <1>3
<1> QED  BY <1>4 DEF TableInv, TablesHeard

(* A packet that is not PES data of a stream leaves the frames alone, or   *)
(* is the PMT that sets them up.                                           *)
LEMMA StreamStep ==
    ASSUME TableInv, NEW pkt \in Arrivals, parseTsPacket(pkt)
    PROVE  \/ ~Ignored(pkt) /\ ParsePes(pkt)
           \/ /\ \E own : Quiet(own) /\ events' = events \o own
              /\ \/ mEsFrames' = mEsFrames
                 \/ /\ DOMAIN mEsFrames = {}
                    /\ \A q \in DOMAIN mEsFrames' : mEsFrames'[q].data = <<>>
              /\ ~(Heard(pkt) /\ pkt.pid \in DOMAIN mEsFrames)
<1>1. IInv /\ events \in Seq(Events) /\ pkt \in ArrivalTypes
  BY DemuxerAssumption DEF TableInv, IInv, TypeOK, DemuxerAssumption
<1>2. CASE Ignore(pkt)
  <2>1. events' = events \o <<>>
    BY <1>1, <1>2, ConcatEmptySeq DEF Ignore
  <2> QED  BY <2>1, <1>1, <1>2, OwnQuiet DEF Ignore, Heard
<1>3. ASSUME parseAdaptationField(pkt, <<>>)
      PROVE  \E own : Quiet(own) /\ events' = events \o own
  <2> DEFINE p == PcrEvents(pkt)
             c == CcEvents(pkt)
  <2>1. p \in Seq(Events) /\ c \in Seq(Events)
    BY <1>1, OwnEvents
  <2>2. events' = ((events \o p) \o c) \o <<>>
    BY <1>3 DEF parseAdaptationField
  <2>3. Quiet(p \o c)
    BY <1>1, OwnQuiet
  <2> HIDE DEF p, c
  <2>4. (events \o p) \o c = events \o (p \o c) /\ (events \o p) \o c \in Seq(Events)
    <3>1. events \o p \in Seq(Events)
      BY <1>1, <2>1, ConcatProperties
    <3> QED  BY <3>1, <1>1, <2>1, ConcatProperties, ConcatAssociative
  <2>5. events' = events \o (p \o c)
    BY <2>2, <2>4, ConcatEmptySeq
  <2> QED  BY <2>3, <2>5
<1>4. CASE ~Ignored(pkt) /\ ParsePat(pkt)
  <2>1. DOMAIN mEsFrames = {}
    BY <1>4, StreamsHavePmt DEF ParsePat, ToPat
  <2> QED  BY <2>1, <1>3, <1>4 DEF ParsePat
<1>5. CASE ~Ignored(pkt) /\ ParsePmt(pkt)
  <2>1. DOMAIN mEsFrames = {} /\ parseAdaptationField(pkt, <<>>)
    BY <1>5 DEF ParsePmt, ToPmt
  <2>2. \A type : EsFrame(type).data = <<>>
    BY DEF EsFrame
  <2>3. \/ mEsFrames' = mEsFrames
        \/ \A q \in DOMAIN mEsFrames' : mEsFrames'[q].data = <<>>
    <3>1. CASE pkt.pusi /\ pkt.load.ok
      <4> DEFINE all == mInfos \o pkt.load.infos
      <4>1. mEsFrames' = [p \in Pids(all) |->
                            EsFrame(all[SelectLastInSeq(all, LAMBDA i : i.pid = p)].type)]
        BY <3>1, <1>5 DEF ParsePmt
      <4> HIDE DEF all
      <4> QED  BY <4>1, <2>2
    <3>2. CASE ~(pkt.pusi /\ pkt.load.ok)
      BY <3>2, <1>5 DEF ParsePmt
    <3> QED  BY <3>1, <3>2
  <2> QED  BY <2>1, <2>3, <1>3
<1>6. CASE ~Ignored(pkt) /\ Skip(pkt)
  <2>1. ~(Heard(pkt) /\ pkt.pid \in DOMAIN mEsFrames)
    <3>1. payloadSize(pkt) > 0
      <4>1. payloadSize(pkt) \in 1 .. 184
        BY <1>1, <1>6, PayloadRoom DEF Ignored
      <4> QED  BY <4>1
    <3> QED  BY <3>1, <1>6 DEF Skip, ToPes, Heard
  <2> QED  BY <2>1, <1>3, <1>6 DEF Skip
<1> QED  BY <1>2, <1>4, <1>5, <1>6 DEF parseTsPacket

-----------------------------------------------------------------------------
(***************************************************************************)
(* Frames are of announced streams.                                        *)
(***************************************************************************)
Told(evs, pids, tuned, n) ==
    \A k \in DOMAIN evs : evs[k].kind = "es" =>
        evs[k].pid \in pids /\ tuned < evs[k].upto /\ evs[k].upto <= n

LEMMA ToldQuiet ==
    ASSUME NEW evs \in Seq(Events), NEW own, Quiet(own), NEW pids, NEW tuned, NEW n,
           Told(evs, pids, tuned, n)
    PROVE  evs \o own \in Seq(Events) /\ Told(evs \o own, pids, tuned, n)
<1>1. /\ evs \o own \in Seq(Events)
      /\ DOMAIN evs = 1 .. Len(evs) /\ DOMAIN own = 1 .. Len(own)
      /\ DOMAIN (evs \o own) = 1 .. Len(evs) + Len(own)
      /\ Len(evs) \in Nat /\ Len(own) \in Nat
      /\ \A k \in 1 .. Len(evs) : (evs \o own)[k] = evs[k]
      /\ \A k \in Len(evs) + 1 .. Len(evs) + Len(own) :
            k - Len(evs) \in 1 .. Len(own) /\ (evs \o own)[k] = own[k - Len(evs)]
  BY Continued DEF Quiet
<1>2. ASSUME NEW k \in DOMAIN (evs \o own), (evs \o own)[k].kind = "es"
      PROVE  k \in DOMAIN evs /\ (evs \o own)[k] = evs[k]
  <2>1. k \in 1 .. Len(evs) \/ k \in Len(evs) + 1 .. Len(evs) + Len(own)
    BY <1>1
  <2> QED  BY <2>1, <1>1, <1>2 DEF Quiet
<1> QED  BY <1>1, <1>2 DEF Told

(* An event at the end of a sequence.                                      *)
LEMMA OneAtEnd ==
    ASSUME NEW evs \in Seq(Events), NEW e \in Events
    PROVE  /\ evs \o <<e>> \in Seq(Events)
           /\ Len(evs) \in Nat /\ DOMAIN evs = 1 .. Len(evs)
           /\ Len(evs \o <<e>>) = Len(evs) + 1
           /\ DOMAIN (evs \o <<e>>) = 1 .. Len(evs) + 1
           /\ \A k \in 1 .. Len(evs) : (evs \o <<e>>)[k] = evs[k]
           /\ (evs \o <<e>>)[Len(evs) + 1] = e
           /\ \A k \in 1 .. Len(evs) + 1 : k \in 1 .. Len(evs) \/ k = Len(evs) + 1
<1>1. <<e>> \in Seq(Events) /\ Len(<<e>>) = 1 /\ <<e>>[1] = e
  OBVIOUS
<1>2. /\ evs \o <<e>> \in Seq(Events)
      /\ Len(evs) \in Nat /\ DOMAIN evs = 1 .. Len(evs)
      /\ Len(evs \o <<e>>) = Len(evs) + 1
      /\ DOMAIN (evs \o <<e>>) = 1 .. Len(evs) + 1
      /\ \A k \in 1 .. Len(evs) : (evs \o <<e>>)[k] = evs[k]
      /\ (evs \o <<e>>)[Len(evs) + 1] = e
  BY <1>1, Continued
<1>3. \A k \in 1 .. Len(evs) + 1 : k \in 1 .. Len(evs) \/ k = Len(evs) + 1
  BY <1>2
<1> QED  BY <1>2, <1>3

LEMMA ToldOne ==
    ASSUME NEW evs \in Seq(Events), NEW e \in Events, NEW pids, NEW tuned, NEW n,
           Told(evs, pids, tuned, n), e.pid \in pids, tuned < e.upto, e.upto <= n
    PROVE  evs \o <<e>> \in Seq(Events) /\ Told(evs \o <<e>>, pids, tuned, n)
<1>1. /\ evs \o <<e>> \in Seq(Events)
      /\ DOMAIN evs = 1 .. Len(evs)
      /\ DOMAIN (evs \o <<e>>) = 1 .. Len(evs) + 1
      /\ \A k \in 1 .. Len(evs) : (evs \o <<e>>)[k] = evs[k]
      /\ (evs \o <<e>>)[Len(evs) + 1] = e
      /\ \A k \in 1 .. Len(evs) + 1 : k \in 1 .. Len(evs) \/ k = Len(evs) + 1
  BY OneAtEnd
<1> QED  BY <1>1 DEF Told

(* What a PES packet delivers, if it does.                                 *)
LEMMA DeliveredOnce ==
    ASSUME IInv, NEW pkt \in Arrivals, ~Ignored(pkt), ParsePes(pkt), NEW n, n = Len(arrived)
    PROVE  /\ Flush(pkt, Building(pkt)) =
                 IF pkt.pusi /\ Building(pkt).data # <<>>
                 THEN <<Deliver(pkt.pid, Building(pkt), Building(pkt).expPes = 0, n)>> ELSE <<>>
           /\ pkt.pusi /\ Building(pkt).data # <<>> =>
                 Deliver(pkt.pid, Building(pkt), Building(pkt).expPes = 0, n) \in Events
           /\ Completes(pkt) = IF Full(pkt) THEN <<Deliver(pkt.pid, Grown(pkt), TRUE, n + 1)>> ELSE <<>>
           /\ Full(pkt) => Deliver(pkt.pid, Grown(pkt), TRUE, n + 1) \in Events
<1>1. /\ pkt.pid \in Pid /\ ThisPacket \in Nat /\ ThisPacket - 1 \in Nat
      /\ Building(pkt) \in EsFrames /\ (Full(pkt) => Grown(pkt) \in EsFrames)
  BY ParsePesSteps, ParsePesSound DEF Sound, Full
<1>2. n \in Nat /\ ThisPacket - 1 = n /\ ThisPacket = n + 1
  BY LenProperties DEF IInv, TypeOK, ThisPacket
<1>3. n + 1 \in Nat
  BY <1>2
<1>4. Deliver(pkt.pid, Building(pkt), Building(pkt).expPes = 0, n) \in Events
  BY <1>1, <1>2, DeliverTyped
<1>5. Full(pkt) => Deliver(pkt.pid, Grown(pkt), TRUE, n + 1) \in Events
  BY <1>1, <1>3, DeliverTyped
<1>6. Flush(pkt, Building(pkt)) =
         IF pkt.pusi /\ Building(pkt).data # <<>>
         THEN <<Deliver(pkt.pid, Building(pkt), Building(pkt).expPes = 0, n)>> ELSE <<>>
  BY <1>2 DEF Flush, Flushes
<1>7. Completes(pkt) = IF Full(pkt) THEN <<Deliver(pkt.pid, Grown(pkt), TRUE, n + 1)>> ELSE <<>>
  BY <1>2 DEF Completes
<1> QED  BY <1>4, <1>5, <1>6, <1>7

FrameInv == TableInv /\ FramesLate

(* A frame with data, or an event, means tuned: so it is not too early.    *)
LEMMA FramesLateNext ==
    ASSUME FrameInv, IInv', NEW pkt \in Arrivals, parseTsPacket(pkt),
           arrived' = Append(arrived, pkt)
    PROVE  FramesLate'
<1>0. PICK n : n = Len(arrived)
  OBVIOUS
<1>1. /\ IInv /\ TableInv /\ n \in Nat /\ Len(arrived') = n + 1 /\ events \in Seq(Events)
  BY <1>0, ArrivedGrows DEF FrameInv, TableInv, IInv, TypeOK
<1>2. /\ TunedAt \in 1 .. n + 1 /\ (TuningPmts # {} <=> TunedAt <= n)
      /\ TuningPmts # {} => TunedAt' = TunedAt
      /\ TuningPmts # {} <=> DOMAIN mEsFrames # {}
  BY <1>0, <1>1, TunedGrows DEF TableInv, TablesHeard
<1>3. /\ \A q \in DOMAIN mEsFrames : mEsFrames[q].data # <<>> => TunedAt < n
      /\ Told(events, DOMAIN mEsFrames, TunedAt, n)
  BY <1>0 DEF FrameInv, FramesLate, Told
<1>4. Told(events, DOMAIN mEsFrames, TunedAt, n + 1)
  <2>1. \A k \in DOMAIN events : events[k].kind = "es" => events[k].upto \in Nat
    <3>1. \A k \in DOMAIN events : events[k] \in Events
      BY <1>1, ElementOfSeq, LenProperties
    <3> QED  BY <3>1 DEF Events
  <2>2. \A u \in Nat : u <= n => u <= n + 1
    BY <1>1
  <2> QED  BY <2>1, <2>2, <1>3 DEF Told
<1>5. SUFFICES /\ \A q \in DOMAIN mEsFrames' : mEsFrames'[q].data # <<>> => TunedAt' < n + 1
               /\ Told(events', DOMAIN mEsFrames', TunedAt', n + 1)
  BY <1>1 DEF FramesLate, Told
<1>6. CASE ~Ignored(pkt) /\ ParsePes(pkt)
  <2>1. /\ pkt.pid \in DOMAIN mEsFrames /\ DOMAIN mEsFrames' = DOMAIN mEsFrames
    BY <1>6, ParsePesSteps
  <2>2. TunedAt' = TunedAt /\ TunedAt <= n /\ TunedAt < n + 1
    BY <2>1, <1>1, <1>2
  <2>3. PICK own : /\ Quiet(own)
                   /\ events' = ((events \o own) \o Flush(pkt, Building(pkt))) \o Completes(pkt)
    BY <1>1, <1>6, EsChain
  <2> DEFINE a == events \o own
             b == a \o Flush(pkt, Building(pkt))
             e == Deliver(pkt.pid, Building(pkt), Building(pkt).expPes = 0, n)
             l == Deliver(pkt.pid, Grown(pkt), TRUE, n + 1)
  <2>4. a \in Seq(Events) /\ Told(a, DOMAIN mEsFrames, TunedAt, n + 1)
    BY <2>3, <1>1, <1>4, ToldQuiet
  <2>5. /\ Flush(pkt, Building(pkt)) = IF pkt.pusi /\ Building(pkt).data # <<>> THEN <<e>> ELSE <<>>
        /\ pkt.pusi /\ Building(pkt).data # <<>> => e \in Events
        /\ Completes(pkt) = IF Full(pkt) THEN <<l>> ELSE <<>>
        /\ Full(pkt) => l \in Events
    BY <1>0, <1>1, <1>6, DeliveredOnce
  <2>6. e.pid = pkt.pid /\ e.upto = n /\ l.pid = pkt.pid /\ l.upto = n + 1
    BY DEF Deliver
  <2>7. Building(pkt).data # <<>> => TunedAt < n
    BY <2>1, <1>3 DEF Building
  <2>8. n <= n + 1 /\ n + 1 <= n + 1
    BY <1>1
  <2> HIDE DEF a, e, l
  <2>9. b \in Seq(Events) /\ Told(b, DOMAIN mEsFrames, TunedAt, n + 1)
    <3>1. CASE pkt.pusi /\ Building(pkt).data # <<>>
      <4>1. b = a \o <<e>> /\ e \in Events
        BY <3>1, <2>5
      <4> QED  BY <4>1, <3>1, <2>1, <2>4, <2>6, <2>7, <2>8, ToldOne
    <3>2. CASE ~(pkt.pusi /\ Building(pkt).data # <<>>)
      <4>1. b = a
        BY <3>2, <2>4, <2>5, ConcatEmptySeq
      <4> QED  BY <4>1, <2>4
    <3> QED  BY <3>1, <3>2
  <2>10. events' = b \o Completes(pkt)
    BY <2>3 DEF a
  <2> HIDE DEF b
  <2>11. Told(events', DOMAIN mEsFrames, TunedAt, n + 1)
    <3>1. CASE Full(pkt)
      <4>1. events' = b \o <<l>> /\ l \in Events
        BY <3>1, <2>5, <2>10
      <4> QED  BY <4>1, <2>1, <2>2, <2>6, <2>8, <2>9, ToldOne
    <3>2. CASE ~Full(pkt)
      <4>1. events' = b
        BY <3>2, <2>5, <2>9, <2>10, ConcatEmptySeq
      <4> QED  BY <4>1, <2>9
    <3> QED  BY <3>1, <3>2
  <2> QED  BY <2>1, <2>2, <2>11
<1>7. CASE ~(~Ignored(pkt) /\ ParsePes(pkt))
  <2>1. /\ \E own : Quiet(own) /\ events' = events \o own
        /\ \/ mEsFrames' = mEsFrames
           \/ /\ DOMAIN mEsFrames = {}
              /\ \A q \in DOMAIN mEsFrames' : mEsFrames'[q].data = <<>>
    BY <1>1, <1>7, StreamStep
  <2>2. Told(events', DOMAIN mEsFrames, TunedAt, n + 1)
    BY <2>1, <1>1, <1>4, ToldQuiet
  <2>3. CASE DOMAIN mEsFrames # {}
    <3>1. TunedAt' = TunedAt /\ mEsFrames' = mEsFrames /\ TunedAt < n + 1
      BY <2>1, <2>3, <1>1, <1>2
    <3> QED  BY <3>1, <2>2
  <2>4. CASE DOMAIN mEsFrames = {}
    <3>1. Told(events', DOMAIN mEsFrames', TunedAt', n + 1)
      BY <2>2, <2>4 DEF Told
    <3>2. \A q \in DOMAIN mEsFrames' : mEsFrames'[q].data = <<>>
      BY <2>1, <2>4
    <3> QED  BY <3>1, <3>2
  <2> QED  BY <2>3, <2>4
<1> QED  BY <1>6, <1>7

LEMMA FrameInvInit == Init => FrameInv
<1> SUFFICES ASSUME Init PROVE FrameInv
  OBVIOUS
<1>1. TableInv /\ DOMAIN <<>> = {}
  BY TablesInit
<1> QED  BY <1>1 DEF Init, FrameInv, FramesLate

LEMMA FrameInvNext == FrameInv /\ [Next]_vars => FrameInv'
<1> SUFFICES ASSUME FrameInv, [Next]_vars PROVE FrameInv'
  OBVIOUS
<1>1. TableInv'
  BY TableInvNext DEF FrameInv
<1>2. CASE UNCHANGED vars
  <2>1. TunedAt' = TunedAt
    BY <1>2, NothingHeard DEF vars
  <2> QED  BY <2>1, <1>1, <1>2 DEF vars, FrameInv, FramesLate
<1>3. CASE Next
  <2>1. PICK pkt \in Arrivals : arrived' = Append(arrived, pkt) /\ parseTsPacket(pkt)
    BY <1>3 DEF Next, Arrive
  <2>2. FramesLate'
    BY <2>1, <1>1, FramesLateNext DEF TableInv
  <2> QED  BY <2>2, <1>1 DEF FrameInv
<1> QED  BY <1>2, <1>3

(***************************************************************************)
(* Whatever packets arrive, frames only come from PIDs announced by a PMT  *)
(* that was sent, before the frame, on the PID the first PAT names.        *)
(***************************************************************************)
THEOREM OnlyAnnouncedAlways == Spec => []OnlyAnnounced
<1>1. Init => FrameInv
  BY FrameInvInit
<1>2. FrameInv /\ [Next]_vars => FrameInv'
  BY FrameInvNext
<1>3. FrameInv => OnlyAnnounced
  <2> SUFFICES ASSUME FrameInv, NEW k \in DOMAIN events, events[k].kind = "es"
               PROVE  \E b \in PmtsHeard : /\ b < events[k].upto
                                           /\ events[k].pid \in Pids(arrived[b].load.infos)
    BY DEF OnlyAnnounced
  <2>1. /\ events[k].pid \in DOMAIN mEsFrames
        /\ TunedAt < events[k].upto /\ events[k].upto <= Len(arrived)
    BY DEF FrameInv, FramesLate
  <2>2. events[k].pid \in Pids(mInfos)
    BY <2>1 DEF FrameInv, TableInv, IInv, TablesKnown
  <2>3. PICK b \in PmtsHeard : b <= TunedAt /\ events[k].pid \in Pids(arrived[b].load.infos)
    BY <2>2 DEF FrameInv, TableInv, TablesHeard
  <2>4. b \in Int /\ TunedAt \in Int /\ events[k].upto \in Int
    <3>1. TypeOK /\ DOMAIN arrived = 1 .. Len(arrived) /\ Len(arrived) \in Nat
      BY LenProperties DEF FrameInv, TableInv, IInv, TypeOK
    <3>2. b \in Int
      BY <3>1 DEF PmtsHeard
    <3>3. TunedAt \in Int
      <4>1. TunedFirst
        BY <3>1, TunedFirstHolds
      <4>2. TuningPmts \subseteq Int
        BY <3>1 DEF TuningPmts, PmtsHeard
      <4>3. Len(arrived) + 1 \in Int
        BY <3>1
      <4> QED  BY <4>1, <4>2, <4>3, Zenon DEF TunedFirst
    <3>4. events[k] \in Events
      BY <3>1, ElementOfSeq, LenProperties DEF TypeOK
    <3> QED  BY <3>2, <3>3, <3>4 DEF Events
  <2>5. b < events[k].upto
    BY <2>1, <2>3, <2>4
  <2> QED  BY <2>3, <2>5
<1> QED  BY <1>1, <1>2, <1>3, PTL DEF Spec

-----------------------------------------------------------------------------
(***************************************************************************)
(* How the frames delivered on a PID, and the data of the one under        *)
(* construction, split the packets of a set S among them.                  *)
(***************************************************************************)
EsIn(evs, q)      == {k \in DOMAIN evs : evs[k].kind = "es" /\ evs[k].pid = q}
Before(evs, q, k) == {j \in EsIn(evs, q) : j < k}
UptoIn(evs, q, k) == IF Before(evs, q, k) = {} THEN 0 ELSE evs[Max(Before(evs, q, k))].upto
Split(evs, q, S, data) ==
    /\ \A k \in EsIn(evs, q) :
          Holds(evs[k].frame.data, {i \in S : UptoIn(evs, q, k) < i /\ i <= evs[k].upto})
    /\ Holds(data, {i \in S : UptoIn(evs, q, Len(evs) + 1) < i})
Conserved == \A q \in DOMAIN mEsFrames : Split(events, q, StoredOn(q), mEsFrames[q].data)

LEMMA PayloadSplit == PayloadConserved <=> Conserved
BY DEF PayloadConserved, Conserved, Split, EsOn, EsIn, UptoBefore, Before, UptoIn

(* The last frame before an event is one, and accounts for what it says.   *)
LEMMA UptoIs ==
    ASSUME NEW evs \in Seq(Events), NEW q, NEW k, NEW n \in Nat,
           \A j \in EsIn(evs, q) : evs[j].upto <= n
    PROVE  /\ EsIn(evs, q) \subseteq 1 .. Len(evs) /\ Len(evs) \in Nat
           /\ \A j \in EsIn(evs, q) : evs[j].upto \in Nat
           /\ UptoIn(evs, q, k) \in Nat /\ UptoIn(evs, q, k) <= n
           /\ Before(evs, q, k) # {} => Max(Before(evs, q, k)) \in EsIn(evs, q)
<1>1. DOMAIN evs = 1 .. Len(evs) /\ Len(evs) \in Nat /\ EsIn(evs, q) \subseteq 1 .. Len(evs)
  BY LenProperties DEF EsIn
<1>2. \A j \in EsIn(evs, q) : evs[j].upto \in Nat
  <2>1. \A j \in EsIn(evs, q) : evs[j] \in Events /\ evs[j].kind = "es"
    BY <1>1, ElementOfSeq DEF EsIn
  <2> QED  BY <2>1 DEF Events
<1>3. Before(evs, q, k) # {} => Max(Before(evs, q, k)) \in EsIn(evs, q)
  <2>1. Before(evs, q, k) \subseteq EsIn(evs, q)
    BY DEF Before
  <2> QED  BY <2>1, <1>1, MaxIsGreatest
<1>4. UptoIn(evs, q, k) \in Nat /\ UptoIn(evs, q, k) <= n
  BY <1>2, <1>3 DEF UptoIn
<1> QED  BY <1>1, <1>2, <1>3, <1>4

(* More events change nothing for the earlier ones.                        *)
LEMMA UptoStays ==
    ASSUME NEW evs \in Seq(Events), NEW new \in Seq(Events), NEW q,
           NEW k \in 1 .. Len(evs) + 1
    PROVE  /\ Before(evs \o new, q, k) = Before(evs, q, k)
           /\ UptoIn(evs \o new, q, k) = UptoIn(evs, q, k)
<1> DEFINE both == evs \o new
<1>1. /\ DOMAIN evs = 1 .. Len(evs) /\ Len(evs) \in Nat /\ Len(new) \in Nat
      /\ DOMAIN both = 1 .. Len(evs) + Len(new)
      /\ \A j \in 1 .. Len(evs) : both[j] = evs[j]
  BY Continued
<1> HIDE DEF both
<1>2. Before(both, q, k) = Before(evs, q, k)
  <2>1. \A j \in DOMAIN both : j < k => j \in DOMAIN evs
    BY <1>1
  <2>2. \A j \in DOMAIN evs : j \in DOMAIN both
    BY <1>1
  <2> QED  BY <2>1, <2>2, <1>1 DEF Before, EsIn
<1>3. Before(evs, q, k) # {} => both[Max(Before(evs, q, k))] = evs[Max(Before(evs, q, k))]
  <2>1. Before(evs, q, k) \subseteq 1 .. Len(evs)
    BY <1>1 DEF Before, EsIn
  <2>2. Before(evs, q, k) # {} => Max(Before(evs, q, k)) \in 1 .. Len(evs)
    BY <2>1, <1>1, MaxIsGreatest
  <2> QED  BY <2>2, <1>1
<1> QED  BY <1>2, <1>3 DEF UptoIn, both

(* Events that are no frames of the PID leave the split alone.             *)
LEMMA SplitOther ==
    ASSUME NEW evs \in Seq(Events), NEW new \in Seq(Events), NEW q, NEW S, NEW data,
           \A k \in DOMAIN new : ~(new[k].kind = "es" /\ new[k].pid = q),
           Split(evs, q, S, data)
    PROVE  /\ EsIn(evs \o new, q) = EsIn(evs, q)
           /\ Split(evs \o new, q, S, data)
<1> DEFINE both == evs \o new
<1>1. /\ DOMAIN evs = 1 .. Len(evs) /\ Len(evs) \in Nat /\ Len(new) \in Nat
      /\ DOMAIN both = 1 .. Len(evs) + Len(new) /\ Len(both) = Len(evs) + Len(new)
      /\ \A j \in 1 .. Len(evs) : both[j] = evs[j]
      /\ \A k \in Len(evs) + 1 .. Len(evs) + Len(new) :
            k - Len(evs) \in DOMAIN new /\ both[k] = new[k - Len(evs)]
  BY Continued
<1>2. \A k \in 1 .. Len(evs) + 1 : UptoIn(both, q, k) = UptoIn(evs, q, k)
  BY UptoStays
<1> HIDE DEF both
<1>3. EsIn(both, q) = EsIn(evs, q)
  <2>1. ASSUME NEW k \in EsIn(both, q) PROVE k \in EsIn(evs, q)
    <3>1. k \in 1 .. Len(evs) \/ k \in Len(evs) + 1 .. Len(evs) + Len(new)
      BY <1>1 DEF EsIn
    <3>2. k \notin Len(evs) + 1 .. Len(evs) + Len(new)
      BY <1>1 DEF EsIn
    <3> QED  BY <3>1, <3>2, <1>1 DEF EsIn
  <2>2. ASSUME NEW k \in EsIn(evs, q) PROVE k \in EsIn(both, q)
    <3>1. k \in 1 .. Len(evs) /\ k \in DOMAIN both
      BY <1>1 DEF EsIn
    <3> QED  BY <3>1, <1>1 DEF EsIn
  <2> QED  BY <2>1, <2>2
<1>4. UptoIn(both, q, Len(both) + 1) = UptoIn(evs, q, Len(evs) + 1)
  <2>1. \A k \in EsIn(evs, q) : k < Len(both) + 1 /\ k < Len(evs) + 1
    BY <1>1 DEF EsIn
  <2>2. Before(both, q, Len(both) + 1) = Before(both, q, Len(evs) + 1)
    BY <2>1, <1>3 DEF Before
  <2>3. Len(evs) + 1 \in 1 .. Len(evs) + 1
    BY <1>1
  <2> QED  BY <2>2, <2>3, <1>2 DEF UptoIn
<1>5. \A k \in EsIn(evs, q) : both[k] = evs[k] /\ UptoIn(both, q, k) = UptoIn(evs, q, k)
  <2>1. \A k \in EsIn(evs, q) : k \in 1 .. Len(evs) /\ k \in 1 .. Len(evs) + 1
    BY <1>1 DEF EsIn
  <2> QED  BY <2>1, <1>1, <1>2
<1>6. Split(both, q, S, data)
  BY <1>3, <1>4, <1>5 DEF Split
<1> QED  BY <1>3, <1>6 DEF both

(* A delivery hands over what is under construction, and nothing is left.  *)
LEMMA SplitDeliver ==
    ASSUME NEW evs \in Seq(Events), NEW e \in Events, NEW S, NEW data, e.kind = "es",
           e.frame.data = data, \A i \in S : i \in Int /\ i <= e.upto,
           Split(evs, e.pid, S, data)
    PROVE  /\ EsIn(evs \o <<e>>, e.pid) = EsIn(evs, e.pid) \cup {Len(evs) + 1}
           /\ Split(evs \o <<e>>, e.pid, S, <<>>)
<1> DEFINE both == evs \o <<e>>
           q    == e.pid
           last == Len(evs) + 1
<1>1. /\ DOMAIN evs = 1 .. Len(evs) /\ Len(evs) \in Nat
      /\ DOMAIN both = 1 .. last /\ Len(both) = last
      /\ \A k \in 1 .. Len(evs) : both[k] = evs[k]
      /\ both[last] = e
      /\ \A k \in 1 .. last : k \in 1 .. Len(evs) \/ k = last
  BY OneAtEnd
<1>2. \A k \in 1 .. last : UptoIn(both, q, k) = UptoIn(evs, q, k)
  <2>1. <<e>> \in Seq(Events)
    OBVIOUS
  <2> QED  BY <2>1, UptoStays
<1> HIDE DEF both
<1>3. EsIn(both, q) = EsIn(evs, q) \cup {last} /\ last \in 1 .. last
  <2>1. last \in 1 .. last /\ \A k \in 1 .. Len(evs) : k \in 1 .. last
    BY <1>1
  <2> HIDE DEF last
  <2> QED  BY <2>1, <1>1 DEF EsIn
<1>4. \A k \in EsIn(evs, q) : both[k] = evs[k] /\ UptoIn(both, q, k) = UptoIn(evs, q, k)
  <2>1. \A k \in EsIn(evs, q) : k \in 1 .. Len(evs) /\ k \in 1 .. last
    BY <1>1 DEF EsIn
  <2> QED  BY <2>1, <1>1, <1>2
<1>5. Holds(e.frame.data, {i \in S : UptoIn(both, q, last) < i /\ i <= e.upto})
  <2>1. {i \in S : UptoIn(evs, q, last) < i /\ i <= e.upto} = {i \in S : UptoIn(evs, q, last) < i}
    OBVIOUS
  <2> QED  BY <2>1, <1>2, <1>3 DEF Split
<1>6. UptoIn(both, q, last + 1) = e.upto
  <2>1. Before(both, q, last + 1) \subseteq Nat /\ last \in Before(both, q, last + 1)
        /\ \A y \in Before(both, q, last + 1) : y <= last
    <3>1. \A y \in 1 .. last : y \in Nat /\ y <= last /\ last < last + 1
      BY <1>1
    <3>2. EsIn(both, q) \subseteq 1 .. last
      BY <1>1 DEF EsIn
    <3> QED  BY <3>1, <3>2, <1>3 DEF Before
  <2>2. Max(Before(both, q, last + 1)) = last
    BY <2>1, MaxIs
  <2> QED  BY <2>1, <2>2, <1>1 DEF UptoIn
<1>7. Holds(<<>>, {i \in S : UptoIn(both, q, last + 1) < i})
  <2>1. e.upto \in Int
    BY DEF Events
  <2>2. {i \in S : UptoIn(both, q, last + 1) < i} = {}
    BY <2>1, <1>6
  <2>3. DOMAIN <<>> = {}
    BY EmptySeq
  <2> QED  BY <2>2, <2>3 DEF Holds, Range
<1>8. Split(both, q, S, <<>>)
  BY <1>1, <1>3, <1>4, <1>5, <1>7 DEF Split
<1> QED  BY <1>3, <1>8 DEF both

(* A later packet goes to the end of the frame under construction.         *)
LEMMA HoldsMore ==
    ASSUME NEW data \in Seq(Nat), NEW S, NEW m \in Nat, Holds(data, S), \A i \in S : i < m
    PROVE  Holds(Append(data, m), S \cup {m})
<1> DEFINE more == Append(data, m)
           last == Len(data) + 1
<1>1. /\ DOMAIN data = 1 .. Len(data) /\ Len(data) \in Nat
      /\ DOMAIN more = 1 .. last
      /\ \A k \in 1 .. Len(data) : more[k] = data[k] /\ k # last /\ ~(last < k)
      /\ more[last] = m
      /\ last \in 1 .. last /\ ~(last < last)
      /\ \A k \in 1 .. Len(data) : k \in 1 .. last
      /\ \A k \in 1 .. last : k \in 1 .. Len(data) \/ k = last
  <2>1. Len(data) \in Nat /\ DOMAIN data = 1 .. Len(data)
    BY LenProperties
  <2>2. DOMAIN more = 1 .. last /\ more[last] = m /\ \A k \in 1 .. Len(data) : more[k] = data[k]
    BY <2>1, AppendProperties
  <2> QED  BY <2>1, <2>2
<1> HIDE DEF more, last
<1>2. Range(data) = S /\ \A i, j \in DOMAIN data : i < j => data[i] < data[j]
  BY DEF Holds
<1>3. Range(more) = S \cup {m}
  BY <1>1, <1>2 DEF Range
<1>4. ASSUME NEW i \in DOMAIN more, NEW j \in DOMAIN more, i < j PROVE more[i] < more[j]
  <2>1. i \in 1 .. Len(data)
    BY <1>1, <1>4
  <2>2. more[i] \in S
    BY <2>1, <1>1, <1>2 DEF Range
  <2> QED  BY <2>1, <2>2, <1>1, <1>2, <1>4
<1> QED  BY <1>3, <1>4 DEF Holds, more

LEMMA SplitStore ==
    ASSUME NEW evs \in Seq(Events), NEW q, NEW S, NEW data \in Seq(Nat), NEW n \in Nat,
           S \subseteq 1 .. n, \A k \in EsIn(evs, q) : evs[k].upto <= n,
           Split(evs, q, S, data)
    PROVE  Split(evs, q, S \cup {n + 1}, Append(data, n + 1))
<1> DEFINE u(k) == UptoIn(evs, q, k)
<1>1. \A k : u(k) \in Nat /\ u(k) <= n
  BY UptoIs
<1>2. \A k \in EsIn(evs, q) : evs[k].upto \in Nat /\ evs[k].upto <= n
  BY UptoIs
<1> HIDE DEF u
<1>3. \A k \in EsIn(evs, q) : {i \in S \cup {n + 1} : u(k) < i /\ i <= evs[k].upto}
                                = {i \in S : u(k) < i /\ i <= evs[k].upto}
  <2>1. \A k \in EsIn(evs, q) : ~(n + 1 <= evs[k].upto)
    BY <1>2
  <2> QED  BY <2>1
<1> DEFINE T == {i \in S : u(Len(evs) + 1) < i}
<1>4. {i \in S \cup {n + 1} : u(Len(evs) + 1) < i} = T \cup {n + 1}
  <2>1. u(Len(evs) + 1) < n + 1
    BY <1>1
  <2> QED  BY <2>1
<1>5. \A i \in T : i < n + 1
  OBVIOUS
<1>6. Holds(data, T)
  BY DEF Split, u
<1> HIDE DEF T
<1>7. Holds(Append(data, n + 1), T \cup {n + 1})
  BY <1>5, <1>6, HoldsMore
<1> QED  BY <1>3, <1>4, <1>7 DEF Split, u

(* The packets stored on a PID are those of before, and this one if it is. *)
StoresOn(pkt, q) ==
    pkt.pid = q /\ Heard(pkt) /\ HeaderOk(pkt) /\ PesBytes(pkt) < payloadSize(pkt)

LEMMA StoredGrows ==
    ASSUME TableInv, IInv', NEW pkt \in Arrivals, arrived' = Append(arrived, pkt),
           NEW q, NEW n, n = Len(arrived)
    PROVE  /\ StoredOn(q) \subseteq 1 .. n
           /\ DOMAIN mEsFrames # {} =>
                 StoredOn(q)' = StoredOn(q) \cup (IF StoresOn(pkt, q) THEN {n + 1} ELSE {})
           /\ DOMAIN mEsFrames = {} => StoredOn(q)' = {}
<1>1. /\ IInv /\ n \in Nat /\ Len(arrived') = n + 1
      /\ \A i \in 1 .. n : arrived'[i] = arrived[i]
      /\ arrived'[n + 1] = pkt
  BY ArrivedGrows DEF TableInv
<1>2. /\ TunedAt \in 1 .. n + 1
      /\ TuningPmts # {} => TunedAt' = TunedAt /\ TunedAt <= n
      /\ TuningPmts = {} => TunedAt' = n + 1 \/ TunedAt' = n + 2
      /\ TuningPmts # {} <=> DOMAIN mEsFrames # {}
  BY <1>1, TunedGrows DEF TableInv, TablesHeard
<1>3. StoredOn(q) = {i \in TunedAt + 1 .. n : StoresOn(arrived[i], q)}
  BY DEF StoredOn, StoresOn
<1>4. StoredOn(q)' = {i \in TunedAt' + 1 .. n + 1 : StoresOn(arrived'[i], q)}
  BY <1>1 DEF StoredOn, StoresOn, Heard, Ignored, BrokenAf, HeaderOk, payloadSize
<1>5. ASSUME DOMAIN mEsFrames # {}
      PROVE  StoredOn(q)' = StoredOn(q) \cup (IF StoresOn(pkt, q) THEN {n + 1} ELSE {})
  <2>1. TunedAt' = TunedAt /\ TunedAt <= n
    BY <1>2, <1>5
  <2>2. /\ \A i \in TunedAt + 1 .. n + 1 : i \in TunedAt + 1 .. n \/ i = n + 1
        /\ \A i \in TunedAt + 1 .. n : i \in TunedAt + 1 .. n + 1 /\ i \in 1 .. n
        /\ n + 1 \in TunedAt + 1 .. n + 1
    BY <2>1, <1>1, <1>2
  <2>3. \A i \in TunedAt + 1 .. n + 1 :
           StoresOn(arrived'[i], q) <=> \/ i \in TunedAt + 1 .. n /\ StoresOn(arrived[i], q)
                                        \/ i = n + 1 /\ StoresOn(pkt, q)
    <3>1. \A i \in TunedAt + 1 .. n : arrived'[i] = arrived[i] /\ i # n + 1
      BY <2>2, <1>1
    <3>2. n + 1 \notin TunedAt + 1 .. n
      BY <1>1
    <3> QED  BY <3>1, <3>2, <2>2, <1>1
  <2>4. StoredOn(q)' = {i \in TunedAt + 1 .. n + 1 : StoresOn(arrived'[i], q)}
    BY <2>1, <1>4
  <2> QED  BY <2>2, <2>3, <2>4, <1>3, Zenon
<1>6. ASSUME DOMAIN mEsFrames = {} PROVE StoredOn(q)' = {}
  <2>1. \A i \in TunedAt' + 1 .. n + 1 : FALSE
    BY <1>1, <1>2, <1>6
  <2> QED  BY <2>1, <1>4
<1>7. StoredOn(q) \subseteq 1 .. n
  BY <1>1, <1>2, <1>3
<1> QED  BY <1>5, <1>6, <1>7

(* What a PES packet does to the data of its stream.                       *)
LEMMA DataSteps ==
    ASSUME IInv, NEW pkt \in Arrivals, ~Ignored(pkt), ParsePes(pkt), NEW n, n = Len(arrived)
    PROVE  /\ Begun(pkt).data = IF pkt.pusi THEN <<>> ELSE Building(pkt).data
           /\ Begun(pkt).data \in Seq(Nat)
           /\ Left(pkt).data = IF Full(pkt) THEN <<>>
                               ELSE IF Stored(pkt) THEN Grown(pkt).data ELSE Begun(pkt).data
           /\ Stored(pkt) => Grown(pkt).data = IF StoresOn(pkt, pkt.pid)
                                               THEN Append(Begun(pkt).data, n + 1)
                                               ELSE Begun(pkt).data
           /\ ~Stored(pkt) => ~StoresOn(pkt, pkt.pid)
<1>1. /\ pkt \in ArrivalTypes /\ ~BrokenAf(pkt) /\ PesBytes(pkt) \in Nat /\ hasPayload(pkt.afc)
      /\ Building(pkt) \in EsFrames /\ Begun(pkt) \in EsFrames
      /\ (Stored(pkt) => Grown(pkt) \in EsFrames)
  BY ParsePesSteps, ParsePesSound DEF Sound
<1>2. payloadSize(pkt) \in 1 .. 184
  BY <1>1, PayloadRoom
<1>3. Heard(pkt)
  BY <1>1 DEF Heard
<1>4. \A frame : reset(frame).data = <<>>
  BY DEF reset, EsFrame
<1>5. Begun(pkt).data = IF pkt.pusi THEN <<>> ELSE Building(pkt).data
  <2>1. CASE pkt.pusi
    <3> DEFINE old == IF Flushes(pkt, Building(pkt)) THEN reset(Building(pkt)) ELSE Building(pkt)
    <3>1. old.data = <<>> /\ old \in EsFrames
      <4>1. reset(Building(pkt)) \in EsFrames
        BY <1>1, FrameFields, FreshFrame DEF reset
      <4> QED  BY <4>1, <1>1, <1>4, <2>1 DEF Flushes
    <3>2. Started(pkt, Building(pkt)).data = old.data
      BY <3>1 DEF Started, EsFrames
    <3> QED  BY <2>1, <3>1, <3>2 DEF Begun
  <2>2. CASE ~pkt.pusi
    BY <2>2 DEF Begun
  <2> QED  BY <2>1, <2>2
<1>6. Begun(pkt).data \in Seq(Nat)
  BY <1>1, FrameFields
<1>7. Left(pkt).data = IF Full(pkt) THEN <<>>
                       ELSE IF Stored(pkt) THEN Grown(pkt).data ELSE Begun(pkt).data
  BY <1>4 DEF Left
<1>8. \A x \in Nat, y \in 1 .. 184 : IF x <= y THEN x < y <=> y - x # 0 ELSE ~(x < y)
  OBVIOUS
<1>9. ASSUME Stored(pkt)
      PROVE  Grown(pkt).data = IF StoresOn(pkt, pkt.pid) THEN Append(Begun(pkt).data, n + 1)
                               ELSE Begun(pkt).data
  <2>1. HeaderOk(pkt) /\ PesBytes(pkt) <= payloadSize(pkt)
    BY <1>9 DEF Stored, DataFits
  <2>2. StoresOn(pkt, pkt.pid) <=> payloadSize(pkt) - PesBytes(pkt) # 0
    BY <2>1, <1>1, <1>2, <1>3, <1>8 DEF StoresOn
  <2>3. \A size : [Begun(pkt) EXCEPT !.data = Append(Begun(pkt).data, n + 1), !.size = size].data
                    = Append(Begun(pkt).data, n + 1)
    BY <1>1 DEF EsFrames
  <2> QED  BY <2>2, <2>3 DEF Grown, Appended, ThisPacket
<1>10. ASSUME ~Stored(pkt) PROVE ~StoresOn(pkt, pkt.pid)
  BY <1>10, <1>1, <1>2, <1>8 DEF Stored, StoresOn, DataFits
<1> QED  BY <1>5, <1>6, <1>7, <1>9, <1>10

ConservedInv == FrameInv /\ Conserved

LEMMA ConservedNext ==
    ASSUME ConservedInv, FrameInv', NEW pkt \in Arrivals, parseTsPacket(pkt),
           arrived' = Append(arrived, pkt)
    PROVE  Conserved'
<1>0. PICK n : n = Len(arrived)
  OBVIOUS
<1>1. /\ IInv /\ TableInv /\ IInv' /\ FrameInv /\ n \in Nat /\ events \in Seq(Events)
  BY <1>0, ArrivedGrows DEF ConservedInv, FrameInv, TableInv, IInv, TypeOK
<1>2. SUFFICES ASSUME NEW q \in DOMAIN mEsFrames'
               PROVE  Split(events', q, StoredOn(q)', mEsFrames'[q].data)
  BY DEF Conserved
<1>3. /\ StoredOn(q) \subseteq 1 .. n
      /\ DOMAIN mEsFrames # {} =>
            StoredOn(q)' = StoredOn(q) \cup (IF StoresOn(pkt, q) THEN {n + 1} ELSE {})
      /\ DOMAIN mEsFrames = {} => StoredOn(q)' = {}
  BY <1>0, <1>1, StoredGrows
<1>4. Told(events, DOMAIN mEsFrames, TunedAt, n)
  BY <1>0, <1>1 DEF FrameInv, FramesLate, Told
<1>5. \A k \in EsIn(events, q) : events[k].upto <= n
  BY <1>4 DEF EsIn, Told
<1>6. CASE ~(~Ignored(pkt) /\ ParsePes(pkt))
  <2>1. /\ \E own : Quiet(own) /\ events' = events \o own
        /\ \/ mEsFrames' = mEsFrames
           \/ /\ DOMAIN mEsFrames = {}
              /\ \A p \in DOMAIN mEsFrames' : mEsFrames'[p].data = <<>>
        /\ ~(Heard(pkt) /\ pkt.pid \in DOMAIN mEsFrames)
    BY <1>1, <1>6, StreamStep
  <2>2. PICK own : Quiet(own) /\ events' = events \o own
    BY <2>1
  <2>3. /\ own \in Seq(Events)
        /\ \A k \in DOMAIN own : ~(own[k].kind = "es" /\ own[k].pid = q)
    BY <2>2 DEF Quiet
  <2>4. CASE DOMAIN mEsFrames # {}
    <3>1. mEsFrames' = mEsFrames
      BY <2>1, <2>4
    <3>2. StoredOn(q)' = StoredOn(q)
      BY <2>1, <2>4, <3>1, <1>3 DEF StoresOn
    <3>3. Split(events, q, StoredOn(q), mEsFrames[q].data)
      BY <3>1 DEF ConservedInv, Conserved
    <3> QED  BY <3>1, <3>2, <3>3, <2>2, <2>3, <1>1, SplitOther
  <2>5. CASE DOMAIN mEsFrames = {}
    <3>1. StoredOn(q)' = {} /\ mEsFrames'[q].data = <<>>
      BY <2>1, <2>5, <1>2, <1>3
    <3>2. EsIn(events, q) = {}
      BY <2>5, <1>4 DEF EsIn, Told
    <3>3. Holds(<<>>, {})
      BY EmptySeq DEF Holds, Range
    <3>4. Split(events, q, {}, <<>>)
      BY <3>2, <3>3 DEF Split
    <3> QED  BY <3>1, <3>4, <2>2, <2>3, <1>1, SplitOther
  <2> QED  BY <2>4, <2>5
<1>7. CASE ~Ignored(pkt) /\ ParsePes(pkt)
  <2>1. /\ pkt.pid \in DOMAIN mEsFrames /\ mEsFrames' = [mEsFrames EXCEPT ![pkt.pid] = Left(pkt)]
    BY <1>7, ParsePesSteps
  <2>2. q \in DOMAIN mEsFrames /\ Split(events, q, StoredOn(q), mEsFrames[q].data)
    BY <2>1 DEF ConservedInv, Conserved
  <2>3. PICK own : /\ Quiet(own)
                   /\ events' = ((events \o own) \o Flush(pkt, Building(pkt))) \o Completes(pkt)
    BY <1>1, <1>7, EsChain
  <2> DEFINE a == events \o own
             b == a \o Flush(pkt, Building(pkt))
             e == Deliver(pkt.pid, Building(pkt), Building(pkt).expPes = 0, n)
             l == Deliver(pkt.pid, Grown(pkt), TRUE, n + 1)
  <2>4. /\ a \in Seq(Events) /\ EsIn(a, q) = EsIn(events, q)
        /\ Split(a, q, StoredOn(q), mEsFrames[q].data)
        /\ \A k \in EsIn(a, q) : a[k].upto <= n
    <3>1. a \in Seq(Events) /\ Told(a, DOMAIN mEsFrames, TunedAt, n)
      BY <2>3, <1>1, <1>4, ToldQuiet
    <3>2. \A k \in EsIn(a, q) : a[k].upto <= n
      BY <3>1 DEF EsIn, Told
    <3>3. /\ own \in Seq(Events)
          /\ \A k \in DOMAIN own : ~(own[k].kind = "es" /\ own[k].pid = q)
      BY <2>3 DEF Quiet
    <3> QED  BY <3>1, <3>2, <3>3, <2>2, <1>1, SplitOther
  <2>5. /\ Flush(pkt, Building(pkt)) = IF pkt.pusi /\ Building(pkt).data # <<>> THEN <<e>> ELSE <<>>
        /\ pkt.pusi /\ Building(pkt).data # <<>> => e \in Events
        /\ Completes(pkt) = IF Full(pkt) THEN <<l>> ELSE <<>>
        /\ Full(pkt) => l \in Events
    BY <1>0, <1>1, <1>7, DeliveredOnce
  <2>6. /\ e.kind = "es" /\ e.pid = pkt.pid /\ e.upto = n /\ e.frame = Building(pkt)
        /\ l.kind = "es" /\ l.pid = pkt.pid /\ l.upto = n + 1 /\ l.frame = Grown(pkt)
    BY DEF Deliver
  <2>7. events' = b \o Completes(pkt)
    BY <2>3
  <2> HIDE DEF a, e, l
  <2>8. /\ b \in Seq(Events)
        /\ b = IF pkt.pusi /\ Building(pkt).data # <<>> THEN a \o <<e>> ELSE a
    <3>1. <<e>> \in Seq(Events) \/ ~(pkt.pusi /\ Building(pkt).data # <<>>)
      BY <2>5
    <3> QED  BY <3>1, <2>4, <2>5, ConcatProperties, ConcatEmptySeq
  <2>9. events' = IF Full(pkt) THEN b \o <<l>> ELSE b
    BY <2>5, <2>7, <2>8, ConcatEmptySeq
  <2> HIDE DEF b
  <2>10. CASE q # pkt.pid
    <3>1. mEsFrames'[q] = mEsFrames[q] /\ StoredOn(q)' = StoredOn(q)
      BY <2>1, <2>2, <2>10, <1>3 DEF StoresOn
    <3>2. \A d \in Events : d.pid = pkt.pid =>
             /\ <<d>> \in Seq(Events)
             /\ \A k \in DOMAIN <<d>> : ~(<<d>>[k].kind = "es" /\ <<d>>[k].pid = q)
      BY <2>10
    <3>3. Split(b, q, StoredOn(q), mEsFrames[q].data)
      BY <3>2, <2>4, <2>5, <2>6, <2>8, SplitOther
    <3>4. Split(events', q, StoredOn(q), mEsFrames[q].data)
      BY <3>2, <3>3, <2>5, <2>6, <2>8, <2>9, SplitOther
    <3> QED  BY <3>1, <3>4
  <2>11. CASE q = pkt.pid
    <3> DEFINE S    == StoredOn(q)
               more == IF StoresOn(pkt, q) THEN {n + 1} ELSE {}
    <3>1. /\ Begun(pkt).data = IF pkt.pusi THEN <<>> ELSE Building(pkt).data
          /\ Begun(pkt).data \in Seq(Nat)
          /\ Left(pkt).data = IF Full(pkt) THEN <<>>
                              ELSE IF Stored(pkt) THEN Grown(pkt).data ELSE Begun(pkt).data
          /\ Stored(pkt) => Grown(pkt).data = IF StoresOn(pkt, q)
                                              THEN Append(Begun(pkt).data, n + 1)
                                              ELSE Begun(pkt).data
          /\ ~Stored(pkt) => ~StoresOn(pkt, q)
      BY <1>0, <1>1, <1>7, <2>11, DataSteps
    <3>2. mEsFrames[q] = Building(pkt) /\ mEsFrames'[q] = Left(pkt) /\ S \subseteq 1 .. n
      BY <2>1, <2>11, <1>3 DEF Building
    <3>3. \A i \in S : i \in Int /\ i <= n
      BY <3>2
    <3>4. StoredOn(q)' = S \cup more
      BY <2>2, <1>3
    <3> HIDE DEF S
    <3>5. Split(b, q, S, Begun(pkt).data) /\ \A k \in EsIn(b, q) : b[k].upto <= n
      <4>0. Split(a, q, S, Building(pkt).data)
        BY <2>4, <3>2 DEF S
      <4>1. CASE pkt.pusi /\ Building(pkt).data # <<>>
        <5>1. b = a \o <<e>> /\ e \in Events /\ Begun(pkt).data = <<>>
          BY <4>1, <2>5, <2>8, <3>1
        <5>2. /\ EsIn(b, q) = EsIn(a, q) \cup {Len(a) + 1}
              /\ Split(b, q, S, <<>>)
          BY <5>1, <4>0, <2>4, <2>6, <2>11, <3>3, SplitDeliver
        <5>3. \A k \in EsIn(a, q) : b[k] = a[k]
          BY <5>1, <2>4, OneAtEnd DEF EsIn
        <5>4. b[Len(a) + 1].upto = n /\ n <= n
          BY <5>1, <2>4, <2>6, <1>1, OneAtEnd
        <5> QED  BY <5>1, <5>2, <5>3, <5>4, <2>4
      <4>2. CASE ~(pkt.pusi /\ Building(pkt).data # <<>>)
        <5>1. b = a /\ Begun(pkt).data = Building(pkt).data
          BY <4>2, <2>8, <3>1
        <5> QED  BY <5>1, <4>0, <2>4
      <4> QED  BY <4>1, <4>2
    <3> DEFINE now == IF Stored(pkt) THEN Grown(pkt).data ELSE Begun(pkt).data
    <3>6. Split(b, q, S \cup more, now)
      <4>1. CASE StoresOn(pkt, q)
        <5>1. now = Append(Begun(pkt).data, n + 1) /\ more = {n + 1}
          BY <4>1, <3>1
        <5> HIDE DEF now, more
        <5> QED  BY <5>1, <2>8, <3>1, <3>2, <3>5, <1>1, SplitStore
      <4>2. CASE ~StoresOn(pkt, q)
        <5>1. now = Begun(pkt).data /\ S \cup more = S
          BY <4>2, <3>1
        <5> QED  BY <5>1, <3>5
      <4> QED  BY <4>1, <4>2
    <3>7. CASE Full(pkt)
      <4>1. events' = b \o <<l>> /\ l \in Events /\ Left(pkt).data = <<>> /\ now = l.frame.data
        BY <3>7, <2>5, <2>6, <2>9, <3>1 DEF Full
      <4>2. \A i \in S \cup more : i \in Int /\ i <= n + 1
        BY <3>3, <1>1
      <4> HIDE DEF now, more
      <4>3. Split(events', q, S \cup more, <<>>)
        BY <4>1, <4>2, <2>6, <2>8, <2>11, <3>6, SplitDeliver
      <4> QED  BY <4>1, <4>3, <3>2, <3>4
    <3>8. CASE ~Full(pkt)
      <4>1. events' = b /\ Left(pkt).data = now
        BY <3>8, <2>9, <3>1
      <4> HIDE DEF now, more
      <4> QED  BY <4>1, <3>2, <3>4, <3>6
    <3> QED  BY <3>7, <3>8
  <2> QED  BY <2>10, <2>11
<1> QED  BY <1>6, <1>7

(***************************************************************************)
(* Whatever packets arrive, the frames delivered on a PID and the one      *)
(* under construction hold its payload once and in order, and all of it    *)
(* that came with a good PES header.                                       *)
(***************************************************************************)
THEOREM PayloadAlwaysConserved == Spec => []PayloadConserved
<1>1. Init => ConservedInv
  <2> SUFFICES ASSUME Init PROVE ConservedInv
    OBVIOUS
  <2>1. FrameInv /\ DOMAIN <<>> = {}
    BY FrameInvInit, EmptySeq
  <2> QED  BY <2>1 DEF Init, ConservedInv, Conserved
<1>2. ConservedInv /\ [Next]_vars => ConservedInv'
  <2> SUFFICES ASSUME ConservedInv, [Next]_vars PROVE ConservedInv'
    OBVIOUS
  <2>1. FrameInv'
    BY FrameInvNext DEF ConservedInv
  <2>2. CASE UNCHANGED vars
    <3>1. TunedAt' = TunedAt
      BY <2>2, NothingHeard DEF vars
    <3>2. \A q : StoredOn(q)' = StoredOn(q)
      BY <3>1, <2>2 DEF vars, StoredOn, Heard, Ignored, BrokenAf, HeaderOk, payloadSize
    <3> QED  BY <3>2, <2>1, <2>2 DEF vars, ConservedInv, Conserved
  <2>3. CASE Next
    <3>1. PICK pkt \in Arrivals : arrived' = Append(arrived, pkt) /\ parseTsPacket(pkt)
      BY <2>3 DEF Next, Arrive
    <3>2. Conserved'
      BY <3>1, <2>1, ConservedNext
    <3> QED  BY <2>1, <3>2 DEF ConservedInv
  <2> QED  BY <2>2, <2>3
<1>3. ConservedInv => PayloadConserved
  BY PayloadSplit DEF ConservedInv
<1> QED  BY <1>1, <1>2, <1>3, PTL DEF Spec

-----------------------------------------------------------------------------
(***************************************************************************)
(* Frames and the start packets they go by.                                *)
(***************************************************************************)
IsStart(p, q)       == p.pid = q /\ p.pusi /\ Heard(p)
StartIn(arr, q, n)  == LET I == {i \in 1 .. n : IsStart(arr[i], q)} IN IF I = {} THEN 0 ELSE Max(I)
Goes(arr, tuned, e, h) ==
    h = StartIn(arr, e.pid, e.upto) /\ h > tuned /\ arr[h].load.pes.marker
Untold(evs, arr, tuned, h) ==
    \A j \in DOMAIN evs : evs[j].kind = "es" => ~Goes(arr, tuned, evs[j], h)

(* The frame says what the header of start packet p says.                  *)
Says(frame, p) ==
    LET pes == p.load.pes
    IN  /\ frame.ra = p.af.ra
        /\ pes.flags = 2 => frame.pts = pes.pts /\ frame.dts = pes.pts
        /\ pes.flags = 3 => frame.pts = pes.pts /\ frame.dts = pes.dts

(* So does the event, and its verdict is right.                            *)
TrueTo(e, p) ==
    /\ Says(e.frame, p)
    /\ e.completed <=> (Sized(p.load.pes) => e.frame.size = Promised(p.load.pes))
AllTrue(evs, arr, tuned) ==
    \A k \in DOMAIN evs, h \in DOMAIN arr :
        /\ evs[k].kind = "es" /\ Goes(arr, tuned, evs[k], h)
        /\ \A j \in 1 .. k - 1 : evs[j].kind = "es" => ~Goes(arr, tuned, evs[j], h)
        => TrueTo(evs[k], arr[h])

(***************************************************************************)
(* A frame under construction still says what its start packet said, until *)
(* it is delivered.                                                        *)
(***************************************************************************)
Bears(frame, p) ==
    /\ Says(frame, p)
    /\ frame.expPes = p.load.pes.len
    /\ Sized(p.load.pes) => frame.expPayload = Promised(p.load.pes)
Held(frame, q, evs, arr, tuned) ==
    \A h \in DOMAIN arr :
        /\ h = StartIn(arr, q, Len(arr)) /\ h > tuned /\ arr[h].load.pes.marker
        /\ Untold(evs, arr, tuned, h)
        => Bears(frame, arr[h])
(* Had a frame with data its size, it would have been delivered.           *)
NotYetFull(frame) == frame.data # <<>> => frame.expPayload # frame.size
HeadersInv ==
    /\ FrameInv
    /\ \A q \in DOMAIN mEsFrames : /\ Held(mEsFrames[q], q, events, arrived, TunedAt)
                                   /\ NotYetFull(mEsFrames[q])
    /\ AllTrue(events, arrived, TunedAt)

(* The start packets up to a packet do not depend on later ones.           *)
LEMMA StartStays ==
    ASSUME NEW arr \in Seq(ArrivalTypes), NEW pkt \in ArrivalTypes, NEW n, n = Len(arr), NEW q
    PROVE  /\ \A m \in 0 .. n : /\ StartIn(Append(arr, pkt), q, m) = StartIn(arr, q, m)
                                /\ StartIn(arr, q, m) \in 0 .. m
           /\ StartIn(Append(arr, pkt), q, n + 1) =
                 IF IsStart(pkt, q) THEN n + 1 ELSE StartIn(arr, q, n)
<1> DEFINE later == Append(arr, pkt)
           I(m)  == {i \in 1 .. m : IsStart(arr[i], q)}
           J(m)  == {i \in 1 .. m : IsStart(later[i], q)}
<1>1. n \in Nat /\ later[n + 1] = pkt /\ \A i \in 1 .. n : later[i] = arr[i]
  BY AppendProperties, LenProperties
<1>2. /\ \A m : StartIn(arr, q, m) = IF I(m) = {} THEN 0 ELSE Max(I(m))
      /\ \A m : StartIn(later, q, m) = IF J(m) = {} THEN 0 ELSE Max(J(m))
  BY DEF StartIn
<1> HIDE DEF later
<1>3. \A m \in 0 .. n : J(m) = I(m)
  BY <1>1
<1>4. \A m \in 0 .. n : I(m) # {} => Max(I(m)) \in 1 .. m
  <2> TAKE m \in 0 .. n
  <2>1. I(m) \subseteq 1 .. m /\ m \in Nat
    BY <1>1
  <2> HIDE DEF I
  <2> QED  BY <2>1, MaxIsGreatest
<1>5. J(n + 1) = I(n) \cup (IF IsStart(pkt, q) THEN {n + 1} ELSE {})
  <2>1. /\ \A i \in 1 .. n + 1 : i \in 1 .. n \/ i = n + 1
        /\ \A i \in 1 .. n : i \in 1 .. n + 1
        /\ n + 1 \in 1 .. n + 1
    BY <1>1
  <2> QED  BY <2>1, <1>1, Zenon
<1>6. IsStart(pkt, q) => Max(J(n + 1)) = n + 1
  <2>1. ASSUME IsStart(pkt, q)
        PROVE  n + 1 \in J(n + 1) /\ J(n + 1) \subseteq Nat /\ \A y \in J(n + 1) : y <= n + 1
    BY <2>1, <1>1, <1>5
  <2> HIDE DEF J
  <2> QED  BY <2>1, MaxIs
<1>7. IsStart(pkt, q) => n + 1 \in J(n + 1)
  BY <1>5
<1>8. \A m \in 0 .. n : 0 \in 0 .. m /\ 1 .. m \subseteq 0 .. m
  BY <1>1
<1> HIDE DEF I, J
<1>9. \A m \in 0 .. n : StartIn(later, q, m) = StartIn(arr, q, m) /\ StartIn(arr, q, m) \in 0 .. m
  BY <1>2, <1>3, <1>4, <1>8
<1>10. StartIn(later, q, n + 1) = IF IsStart(pkt, q) THEN n + 1 ELSE StartIn(arr, q, n)
  BY <1>2, <1>5, <1>6, <1>7
<1> QED  BY <1>9, <1>10 DEF later

(* What earlier frames go by does not depend on later packets.             *)
LEMMA GoesStays ==
    ASSUME NEW arr \in Seq(ArrivalTypes), NEW pkt \in ArrivalTypes, NEW tuned \in Nat,
           NEW e, e.upto \in 0 .. Len(arr), NEW h
    PROVE  /\ Goes(Append(arr, pkt), tuned, e, h) <=> Goes(arr, tuned, e, h)
           /\ Goes(arr, tuned, e, h) => h \in 1 .. Len(arr)
<1>1. /\ Len(arr) \in Nat /\ \A i \in 1 .. Len(arr) : Append(arr, pkt)[i] = arr[i]
  BY AppendProperties, LenProperties
<1>2. /\ StartIn(Append(arr, pkt), e.pid, e.upto) = StartIn(arr, e.pid, e.upto)
      /\ StartIn(arr, e.pid, e.upto) \in 0 .. e.upto
  BY StartStays
<1>3. h = StartIn(arr, e.pid, e.upto) /\ h > tuned => h \in 1 .. Len(arr)
  BY <1>1, <1>2
<1> QED  BY <1>1, <1>2, <1>3 DEF Goes

(* So a later packet leaves what was true of them true.                    *)
LEMMA TrueLater ==
    ASSUME NEW arr \in Seq(ArrivalTypes), NEW pkt \in ArrivalTypes, NEW tuned \in Nat,
           NEW evs \in Seq(Events), \A k \in DOMAIN evs : evs[k].kind = "es" => evs[k].upto <= Len(arr)
    PROVE  /\ AllTrue(evs, arr, tuned) => AllTrue(evs, Append(arr, pkt), tuned)
           /\ \A h : Untold(evs, Append(arr, pkt), tuned, h) <=> Untold(evs, arr, tuned, h)
           /\ Untold(evs, Append(arr, pkt), tuned, Len(arr) + 1)
<1> DEFINE later == Append(arr, pkt)
           n     == Len(arr)
<1>1. /\ n \in Nat /\ DOMAIN arr = 1 .. n /\ DOMAIN evs = 1 .. Len(evs) /\ Len(evs) \in Nat
      /\ \A i \in 1 .. n : later[i] = arr[i]
  BY AppendProperties, LenProperties
<1>2. \A k \in DOMAIN evs : evs[k].kind = "es" => evs[k].upto \in 0 .. n
  <2>1. \A k \in DOMAIN evs : evs[k] \in Events
    BY <1>1, ElementOfSeq
  <2> QED  BY <2>1, <1>1 DEF Events
<1>3. \A k \in DOMAIN evs : \A h :
         evs[k].kind = "es" => /\ Goes(later, tuned, evs[k], h) <=> Goes(arr, tuned, evs[k], h)
                               /\ Goes(arr, tuned, evs[k], h) => h \in 1 .. n
  BY <1>2, GoesStays
<1>4. n + 1 \notin 1 .. n
  BY <1>1
<1> HIDE DEF later
<1>5. ASSUME AllTrue(evs, arr, tuned) PROVE AllTrue(evs, later, tuned)
  <2> SUFFICES ASSUME NEW k \in DOMAIN evs, NEW h, evs[k].kind = "es",
                      Goes(later, tuned, evs[k], h),
                      \A j \in 1 .. k - 1 : evs[j].kind = "es" => ~Goes(later, tuned, evs[j], h)
               PROVE  TrueTo(evs[k], later[h])
    BY DEF AllTrue
  <2>1. h \in 1 .. n /\ Goes(arr, tuned, evs[k], h) /\ later[h] = arr[h]
    BY <1>1, <1>3
  <2>2. \A j \in 1 .. k - 1 : j \in DOMAIN evs
    BY <1>1
  <2>3. \A j \in 1 .. k - 1 : evs[j].kind = "es" => ~Goes(arr, tuned, evs[j], h)
    BY <2>2, <1>3
  <2> QED  BY <2>1, <2>3, <1>1, <1>5 DEF AllTrue
<1>6. \A h : Untold(evs, later, tuned, h) <=> Untold(evs, arr, tuned, h)
  BY <1>3 DEF Untold
<1>7. Untold(evs, later, tuned, n + 1)
  BY <1>3, <1>4 DEF Untold
<1> QED  BY <1>5, <1>6, <1>7 DEF later

(* Events that are no frames.                                              *)
LEMMA TrueQuiet ==
    ASSUME NEW arr, NEW tuned, NEW evs \in Seq(Events), NEW own, Quiet(own)
    PROVE  /\ AllTrue(evs, arr, tuned) => AllTrue(evs \o own, arr, tuned)
           /\ \A h : Untold(evs \o own, arr, tuned, h) <=> Untold(evs, arr, tuned, h)
<1> DEFINE both == evs \o own
<1>1. /\ DOMAIN evs = 1 .. Len(evs) /\ DOMAIN own = 1 .. Len(own)
      /\ DOMAIN both = 1 .. Len(evs) + Len(own)
      /\ Len(evs) \in Nat /\ Len(own) \in Nat
      /\ \A k \in 1 .. Len(evs) : both[k] = evs[k]
      /\ \A k \in Len(evs) + 1 .. Len(evs) + Len(own) :
            k - Len(evs) \in 1 .. Len(own) /\ both[k] = own[k - Len(evs)]
  BY Continued DEF Quiet
<1> HIDE DEF both
<1>2. ASSUME NEW k \in DOMAIN both, both[k].kind = "es"
      PROVE  k \in DOMAIN evs /\ both[k] = evs[k]
  <2>1. k \in 1 .. Len(evs) \/ k \in Len(evs) + 1 .. Len(evs) + Len(own)
    BY <1>1
  <2> QED  BY <2>1, <1>1, <1>2 DEF Quiet
<1>3. \A k \in DOMAIN evs : /\ k \in DOMAIN both /\ both[k] = evs[k]
                            /\ \A j \in 1 .. k - 1 : j \in DOMAIN evs /\ both[j] = evs[j]
  BY <1>1
<1>4. AllTrue(evs, arr, tuned) => AllTrue(both, arr, tuned)
  BY <1>2, <1>3 DEF AllTrue
<1>5. \A h : Untold(both, arr, tuned, h) <=> Untold(evs, arr, tuned, h)
  BY <1>2, <1>3 DEF Untold
<1> QED  BY <1>4, <1>5 DEF both

(* One more frame, true if it is the first to go by its start packet.      *)
LEMMA TrueOne ==
    ASSUME NEW arr, NEW tuned, NEW evs \in Seq(Events), NEW e \in Events, e.kind = "es",
           AllTrue(evs, arr, tuned),
           \A h \in DOMAIN arr : Goes(arr, tuned, e, h) /\ Untold(evs, arr, tuned, h) => TrueTo(e, arr[h])
    PROVE  /\ AllTrue(evs \o <<e>>, arr, tuned)
           /\ \A h : Untold(evs \o <<e>>, arr, tuned, h) <=>
                        Untold(evs, arr, tuned, h) /\ ~Goes(arr, tuned, e, h)
<1> DEFINE both == evs \o <<e>>
           last == Len(evs) + 1
<1>1. /\ Len(evs) \in Nat /\ DOMAIN evs = 1 .. Len(evs) /\ DOMAIN both = 1 .. last
      /\ \A k \in 1 .. Len(evs) : both[k] = evs[k]
      /\ both[last] = e
      /\ \A k \in 1 .. last : k \in 1 .. Len(evs) \/ k = last
  BY OneAtEnd
<1>2. /\ last \in DOMAIN both /\ 1 .. last - 1 = DOMAIN evs
      /\ \A k \in DOMAIN evs : k \in DOMAIN both /\ \A j \in 1 .. k - 1 : j \in DOMAIN evs
  BY <1>1
<1> HIDE DEF both, last
<1>3. ASSUME NEW k \in DOMAIN both, NEW h \in DOMAIN arr,
             both[k].kind = "es", Goes(arr, tuned, both[k], h),
             \A j \in 1 .. k - 1 : both[j].kind = "es" => ~Goes(arr, tuned, both[j], h)
      PROVE  TrueTo(both[k], arr[h])
  <2>1. CASE k \in DOMAIN evs
    BY <2>1, <1>1, <1>2, <1>3 DEF AllTrue
  <2>2. CASE k = last
    <3>1. Untold(evs, arr, tuned, h)
      BY <2>2, <1>1, <1>2, <1>3 DEF Untold
    <3> QED  BY <3>1, <2>2, <1>1, <1>3
  <2> QED  BY <2>1, <2>2, <1>1
<1>4. AllTrue(both, arr, tuned)
  BY <1>3 DEF AllTrue
<1>5. \A h : Untold(both, arr, tuned, h) <=> Untold(evs, arr, tuned, h) /\ ~Goes(arr, tuned, e, h)
  BY <1>1, <1>2 DEF Untold
<1> QED  BY <1>4, <1>5 DEF both

(* What a PES packet does to what its stream's frame says.                 *)
LEMMA HeaderSteps ==
    ASSUME IInv, NEW pkt \in Arrivals, ~Ignored(pkt), ParsePes(pkt)
    PROVE  /\ pkt.pusi /\ pkt.load.pes.marker => Bears(Begun(pkt), pkt)
           /\ ~pkt.pusi => Begun(pkt) = Building(pkt)
           /\ Stored(pkt) => \A p : Bears(Begun(pkt), p) => Bears(Grown(pkt), p)
           /\ Full(pkt) => Stored(pkt) /\ Grown(pkt).expPayload = Grown(pkt).size
           /\ ~Full(pkt) => Left(pkt) = IF Stored(pkt) THEN Grown(pkt) ELSE Begun(pkt)
           /\ Stored(pkt) /\ pkt.pusi => pkt.load.pes.marker
           /\ NotYetFull(Building(pkt)) => NotYetFull(Left(pkt))
<1>1. /\ Building(pkt) \in EsFrames /\ Begun(pkt) \in EsFrames
  BY ParsePesSteps, ParsePesSound DEF Sound
<1>2. ASSUME pkt.pusi, pkt.load.pes.marker PROVE Bears(Begun(pkt), pkt)
  <2> DEFINE old == IF Flushes(pkt, Building(pkt)) THEN reset(Building(pkt)) ELSE Building(pkt)
             pes == pkt.load.pes
             new == [old EXCEPT !.ra = pkt.af.ra]
  <2>1. old \in EsFrames
    <3>1. reset(Building(pkt)) \in EsFrames
      BY <1>1, FrameFields, FreshFrame DEF reset
    <3> QED  BY <3>1, <1>1
  <2>2. Begun(pkt) =
          [new EXCEPT
            !.pts = IF pes.flags \in {2, 3} THEN pes.pts ELSE @,
            !.dts = CASE pes.flags = 2 -> pes.pts [] pes.flags = 3 -> pes.dts [] OTHER -> @,
            !.expPes = pes.len,
            !.expPayload = IF pes.len # 0 THEN (pes.len - 3 - pes.hdl) % Uint16 ELSE @]
    BY <1>2 DEF Begun, Started
  <2> HIDE DEF old
  <2>3. /\ Begun(pkt).ra = pkt.af.ra
        /\ Begun(pkt).pts = IF pes.flags \in {2, 3} THEN pes.pts ELSE old.pts
        /\ Begun(pkt).dts = CASE pes.flags = 2 -> pes.pts [] pes.flags = 3 -> pes.dts
                              [] OTHER -> old.dts
        /\ Begun(pkt).expPes = pes.len
        /\ Begun(pkt).expPayload = IF pes.len # 0 THEN Promised(pes) ELSE old.expPayload
    BY <2>1, <2>2 DEF EsFrames, Promised
  <2> QED  BY <2>3 DEF Bears, Says, Sized
<1>3. ~pkt.pusi => Begun(pkt) = Building(pkt)
  BY DEF Begun
<1>4. /\ Grown(pkt).ra = Begun(pkt).ra /\ Grown(pkt).pts = Begun(pkt).pts
      /\ Grown(pkt).dts = Begun(pkt).dts /\ Grown(pkt).expPes = Begun(pkt).expPes
      /\ Grown(pkt).expPayload = Begun(pkt).expPayload
  BY <1>1 DEF Grown, Appended, EsFrames
<1>5. Stored(pkt) => \A p : Bears(Begun(pkt), p) => Bears(Grown(pkt), p)
  BY <1>4 DEF Bears, Says
<1>6. /\ Full(pkt) => Stored(pkt) /\ Grown(pkt).expPayload = Grown(pkt).size
      /\ ~Full(pkt) => Left(pkt) = IF Stored(pkt) THEN Grown(pkt) ELSE Begun(pkt)
      /\ Stored(pkt) /\ pkt.pusi => pkt.load.pes.marker
  BY DEF Full, Left, Stored, HeaderOk
<1>7. ASSUME NotYetFull(Building(pkt)) PROVE NotYetFull(Left(pkt))
  <2>0. PICK n : n = Len(arrived)
    OBVIOUS
  <2>1. /\ Begun(pkt).data = IF pkt.pusi THEN <<>> ELSE Building(pkt).data
        /\ Left(pkt).data = IF Full(pkt) THEN <<>>
                            ELSE IF Stored(pkt) THEN Grown(pkt).data ELSE Begun(pkt).data
    BY <2>0, DataSteps
  <2>2. CASE Full(pkt)
    BY <2>1, <2>2 DEF NotYetFull
  <2>3. CASE ~Full(pkt) /\ Stored(pkt)
    <3>1. Left(pkt) = Grown(pkt) /\ Grown(pkt).expPayload # Grown(pkt).size
      BY <2>3 DEF Full, Left
    <3> QED  BY <3>1 DEF NotYetFull
  <2>4. CASE ~Full(pkt) /\ ~Stored(pkt)
    <3>1. Left(pkt) = Begun(pkt)
      BY <2>4, <1>6
    <3> QED  BY <3>1, <2>1, <1>3, <1>7 DEF NotYetFull
  <2> QED  BY <2>2, <2>3, <2>4
<1> QED  BY <1>2, <1>3, <1>5, <1>6, <1>7

(* A frame cut off by a start packet was whole only if it had no size.     *)
LEMMA FlushTrue ==
    ASSUME NEW frame \in EsFrames, frame.data # <<>>, NotYetFull(frame), NEW p, Bears(frame, p),
           NEW e, e.frame = frame, e.completed = (frame.expPes = 0)
    PROVE  TrueTo(e, p)
<1>1. frame.expPayload # frame.size
  BY DEF NotYetFull
<1>2. Sized(p.load.pes) => frame.expPes # 0 /\ frame.expPayload = Promised(p.load.pes)
  BY DEF Bears, Sized
<1>3. ~Sized(p.load.pes) => frame.expPes = 0
  BY DEF Bears, Sized
<1> QED  BY <1>1, <1>2, <1>3 DEF TrueTo, Bears

LEMMA HeadersNext ==
    ASSUME HeadersInv, FrameInv', NEW pkt \in Arrivals, parseTsPacket(pkt),
           arrived' = Append(arrived, pkt)
    PROVE  HeadersInv'
<1>0. PICK n : n = Len(arrived)
  OBVIOUS
<1>1. /\ IInv /\ TableInv /\ IInv' /\ FrameInv /\ n \in Nat /\ events \in Seq(Events)
      /\ arrived \in Seq(ArrivalTypes) /\ pkt \in ArrivalTypes
      /\ DOMAIN arrived = 1 .. n /\ DOMAIN arrived' = 1 .. n + 1 /\ Len(arrived') = n + 1
      /\ arrived'[n + 1] = pkt /\ \A i \in 1 .. n : arrived'[i] = arrived[i]
  BY <1>0, ArrivedGrows DEF HeadersInv, FrameInv, TableInv, IInv, TypeOK
<1>2. /\ TunedAt \in 1 .. n + 1
      /\ DOMAIN mEsFrames # {} => TunedAt' = TunedAt /\ TunedAt <= n
      /\ DOMAIN mEsFrames = {} => TunedAt' = n + 1 \/ TunedAt' = n + 2
  BY <1>0, <1>1, TunedGrows DEF TableInv, TablesHeard
<1>3. Told(events, DOMAIN mEsFrames, TunedAt, n)
  BY <1>0, <1>1 DEF FrameInv, FramesLate, Told
<1>4. /\ \A q \in DOMAIN mEsFrames : /\ Held(mEsFrames[q], q, events, arrived, TunedAt)
                                     /\ NotYetFull(mEsFrames[q])
      /\ AllTrue(events, arrived, TunedAt)
  BY DEF HeadersInv
<1>5. /\ AllTrue(events, arrived', TunedAt)
      /\ \A h : Untold(events, arrived', TunedAt, h) <=> Untold(events, arrived, TunedAt, h)
      /\ Untold(events, arrived', TunedAt, n + 1)
  <2>1. \A k \in DOMAIN events : events[k].kind = "es" => events[k].upto <= Len(arrived)
    BY <1>0, <1>3 DEF Told
  <2>2. TunedAt \in Nat
    BY <1>1, <1>2
  <2> QED  BY <2>1, <2>2, <1>0, <1>1, <1>4, TrueLater
<1>6. \A q : /\ StartIn(arrived', q, n) = StartIn(arrived, q, n)
             /\ StartIn(arrived, q, n) \in 0 .. n
             /\ StartIn(arrived', q, n + 1) = IF IsStart(pkt, q) THEN n + 1 ELSE StartIn(arrived, q, n)
  <2> TAKE q
  <2>1. n \in 0 .. n
    BY <1>1
  <2>2. /\ \A m \in 0 .. n : /\ StartIn(Append(arrived, pkt), q, m) = StartIn(arrived, q, m)
                             /\ StartIn(arrived, q, m) \in 0 .. m
        /\ StartIn(Append(arrived, pkt), q, n + 1) =
              IF IsStart(pkt, q) THEN n + 1 ELSE StartIn(arrived, q, n)
    <3>1. arrived \in Seq(ArrivalTypes) /\ pkt \in ArrivalTypes /\ n = Len(arrived)
      BY <1>0, <1>1
    <3> QED  BY ONLY <3>1, StartStays
  <2> QED  BY <2>1, <2>2
(* A frame that was there, when no start packet came for it.               *)
<1>7. ASSUME NEW q \in DOMAIN mEsFrames, NEW evs, ~IsStart(pkt, q),
             \A h : Untold(evs, arrived', TunedAt, h) => Untold(events, arrived, TunedAt, h)
      PROVE  Held(mEsFrames[q], q, evs, arrived', TunedAt)
  <2> SUFFICES ASSUME NEW h, h = StartIn(arrived', q, n + 1), h > TunedAt,
                      arrived'[h].load.pes.marker, Untold(evs, arrived', TunedAt, h)
               PROVE  Bears(mEsFrames[q], arrived'[h])
    BY <1>1 DEF Held
  <2>1. h = StartIn(arrived, q, n) /\ h \in 1 .. n
    <3>1. h = StartIn(arrived, q, n) /\ h \in 0 .. n
      BY <1>6, <1>7
    <3> QED  BY <3>1, <1>2
  <2>2. arrived'[h] = arrived[h] /\ Untold(events, arrived, TunedAt, h)
    BY <2>1, <1>1, <1>7
  <2> QED  BY <2>1, <2>2, <1>0, <1>1, <1>4 DEF Held
<1>8. SUFFICES /\ \A q \in DOMAIN mEsFrames' : /\ Held(mEsFrames'[q], q, events', arrived', TunedAt')
                                               /\ NotYetFull(mEsFrames'[q])
               /\ AllTrue(events', arrived', TunedAt')
  BY DEF HeadersInv
<1>9. CASE ~(~Ignored(pkt) /\ ParsePes(pkt))
  <2>1. /\ \E own : Quiet(own) /\ events' = events \o own
        /\ \/ mEsFrames' = mEsFrames
           \/ /\ DOMAIN mEsFrames = {}
              /\ \A p \in DOMAIN mEsFrames' : mEsFrames'[p].data = <<>>
        /\ ~(Heard(pkt) /\ pkt.pid \in DOMAIN mEsFrames)
    BY <1>1, <1>9, StreamStep
  <2>2. PICK own : Quiet(own) /\ events' = events \o own
    BY <2>1
  <2>3. CASE DOMAIN mEsFrames # {}
    <3>1. mEsFrames' = mEsFrames /\ TunedAt' = TunedAt
      BY <2>1, <2>3, <1>2
    <3>2. /\ AllTrue(events', arrived', TunedAt)
          /\ \A h : Untold(events', arrived', TunedAt, h) => Untold(events, arrived, TunedAt, h)
      BY <2>2, <1>1, <1>5, TrueQuiet
    <3>3. \A q \in DOMAIN mEsFrames : ~IsStart(pkt, q)
      BY <2>1 DEF IsStart
    <3>4. \A q \in DOMAIN mEsFrames : Held(mEsFrames[q], q, events', arrived', TunedAt)
      BY <3>2, <3>3, <1>7
    <3> QED  BY <3>1, <3>2, <3>4, <1>4
  <2>4. CASE DOMAIN mEsFrames = {}
    <3>1. \A q \in DOMAIN mEsFrames' : mEsFrames'[q].data = <<>>
      BY <2>1, <2>4
    <3>2. \A k \in DOMAIN events' : events'[k].kind # "es"
      <4>1. Told(events', {}, TunedAt, n)
        BY <2>2, <2>4, <1>1, <1>3, ToldQuiet
      <4> QED  BY <4>1 DEF Told
    <3>3. \A h \in DOMAIN arrived' : ~(h > TunedAt')
      BY <2>4, <1>1, <1>2
    <3> QED  BY <3>1, <3>2, <3>3 DEF Held, NotYetFull, AllTrue
  <2> QED  BY <2>3, <2>4
<1>10. CASE ~Ignored(pkt) /\ ParsePes(pkt)
  <2> DEFINE p == pkt.pid
             f == Building(pkt)
             g == Grown(pkt)
             flushed == pkt.pusi /\ f.data # <<>>
  <2>1. /\ p \in DOMAIN mEsFrames /\ mEsFrames' = [mEsFrames EXCEPT ![p] = Left(pkt)]
        /\ hasPayload(pkt.afc) /\ f = mEsFrames[p] /\ f \in EsFrames
    BY <1>1, <1>10, ParsePesSteps, ParsePesSound DEF Building, Sound
  <2>2. TunedAt' = TunedAt /\ TunedAt \in Nat /\ n + 1 > TunedAt
    BY <2>1, <1>1, <1>2
  <2>3. IsStart(pkt, p) <=> pkt.pusi
    BY <2>1, <1>10 DEF IsStart, Heard
  <2>4. /\ pkt.pusi /\ pkt.load.pes.marker => Bears(Begun(pkt), pkt)
        /\ ~pkt.pusi => Begun(pkt) = f
        /\ Stored(pkt) => \A q : Bears(Begun(pkt), q) => Bears(g, q)
        /\ Full(pkt) => Stored(pkt) /\ g.expPayload = g.size
        /\ ~Full(pkt) => Left(pkt) = IF Stored(pkt) THEN g ELSE Begun(pkt)
        /\ Stored(pkt) /\ pkt.pusi => pkt.load.pes.marker
        /\ NotYetFull(f) => NotYetFull(Left(pkt))
    BY <1>1, <1>10, HeaderSteps
  <2>5. PICK own : /\ Quiet(own)
                   /\ events' = ((events \o own) \o Flush(pkt, f)) \o Completes(pkt)
    BY <1>1, <1>10, EsChain
  <2> DEFINE a == events \o own
             b == a \o Flush(pkt, f)
             e == Deliver(p, f, f.expPes = 0, n)
             l == Deliver(p, g, TRUE, n + 1)
  <2>6. /\ Flush(pkt, f) = IF flushed THEN <<e>> ELSE <<>>
        /\ flushed => e \in Events
        /\ Completes(pkt) = IF Full(pkt) THEN <<l>> ELSE <<>>
        /\ Full(pkt) => l \in Events
    BY <1>0, <1>1, <1>10, DeliveredOnce
  <2>7. /\ e.kind = "es" /\ e.pid = p /\ e.upto = n /\ e.frame = f /\ e.completed = (f.expPes = 0)
        /\ l.kind = "es" /\ l.pid = p /\ l.upto = n + 1 /\ l.frame = g /\ l.completed = TRUE
    BY DEF Deliver
  <2>8. events' = b \o Completes(pkt) /\ a \in Seq(Events)
    BY <2>5, <1>1, <1>3, ToldQuiet
  <2>9. /\ AllTrue(a, arrived', TunedAt)
        /\ \A h : Untold(a, arrived', TunedAt, h) <=> Untold(events, arrived, TunedAt, h)
        /\ Untold(a, arrived', TunedAt, n + 1)
    BY <2>5, <1>1, <1>5, TrueQuiet
  <2>10. Held(f, p, events, arrived, TunedAt) /\ NotYetFull(f)
    BY <2>1, <1>4
  <2>11. /\ b \in Seq(Events)
         /\ b = IF flushed THEN a \o <<e>> ELSE a
         /\ events' = IF Full(pkt) THEN b \o <<l>> ELSE b
    <3>1. b = IF flushed THEN a \o <<e>> ELSE a
      BY <2>6, <2>8, ConcatEmptySeq
    <3>2. b \in Seq(Events)
      BY <3>1, <2>6, <2>8, OneAtEnd
    <3> QED  BY <3>1, <3>2, <2>6, <2>8, ConcatEmptySeq
  <2> HIDE DEF a, b, e, l, f, g, p
  (* What the flushed frame went by: the last start packet before this.    *)
  <2>12. /\ AllTrue(b, arrived', TunedAt)
         /\ \A h : Untold(b, arrived', TunedAt, h) => Untold(a, arrived', TunedAt, h)
         /\ Untold(b, arrived', TunedAt, n + 1)
    <3>1. CASE flushed
      <4>1. e \in Events /\ b = a \o <<e>>
        BY <3>1, <2>6, <2>11
      <4>2. \A h \in DOMAIN arrived' :
               Goes(arrived', TunedAt, e, h) /\ Untold(a, arrived', TunedAt, h) => TrueTo(e, arrived'[h])
        <5> SUFFICES ASSUME NEW h, Goes(arrived', TunedAt, e, h), Untold(a, arrived', TunedAt, h)
                     PROVE  TrueTo(e, arrived'[h])
          OBVIOUS
        <5>1. h = StartIn(arrived, p, n) /\ h > TunedAt /\ arrived'[h].load.pes.marker
          BY <2>7, <1>6 DEF Goes
        <5>2. h \in 1 .. n
          <6>1. h \in 0 .. n
            BY <5>1, <1>6
          <6> QED  BY <6>1, <5>1, <1>2
        <5>3. arrived'[h] = arrived[h] /\ Untold(events, arrived, TunedAt, h)
          BY <5>2, <2>9, <1>1
        <5>4. Bears(f, arrived[h])
          BY <5>1, <5>2, <5>3, <2>10, <1>0, <1>1 DEF Held
        <5> QED  BY <5>3, <5>4, <3>1, <2>1, <2>7, <2>10, FlushTrue
      <4>3. ~Goes(arrived', TunedAt, e, n + 1)
        <5>1. StartIn(arrived', p, n) \in 0 .. n /\ n + 1 \notin 0 .. n
          BY <1>1, <1>6
        <5> QED  BY <5>1, <2>7 DEF Goes
      <4>4. AllTrue(a \o <<e>>, arrived', TunedAt)
        BY <4>1, <4>2, <2>7, <2>8, <2>9, TrueOne
      <4>5. \A h : Untold(a \o <<e>>, arrived', TunedAt, h) <=>
                      Untold(a, arrived', TunedAt, h) /\ ~Goes(arrived', TunedAt, e, h)
        BY <4>1, <4>2, <2>7, <2>8, <2>9, TrueOne
      <4> QED  BY <4>1, <4>3, <4>4, <4>5, <2>9
    <3>2. CASE ~flushed
      BY <3>2, <2>9, <2>11
    <3> QED  BY <3>1, <3>2
  (* After the packet, the frame goes by this packet or by the one before. *)
  <2>13. ASSUME NEW h, h = StartIn(arrived', p, n + 1), h > TunedAt,
                arrived'[h].load.pes.marker, Untold(b, arrived', TunedAt, h)
         PROVE  Bears(Begun(pkt), arrived'[h])
    <3>1. CASE pkt.pusi
      BY <3>1, <2>3, <2>4, <2>13, <1>1, <1>6
    <3>2. CASE ~pkt.pusi
      <4>1. \A i : Untold(b, arrived', TunedAt, i) => Untold(events, arrived, TunedAt, i)
        BY <2>9, <2>12
      <4>2. Held(mEsFrames[p], p, b, arrived', TunedAt)
        BY <4>1, <3>2, <2>1, <2>3, <1>7
      <4>3. h \in DOMAIN arrived'
        <5>1. h \in 0 .. n
          BY <3>2, <2>3, <2>13, <1>6
        <5> QED  BY <5>1, <2>13, <1>1, <1>2
      <4> QED  BY <4>2, <4>3, <3>2, <2>1, <2>4, <2>13, <1>1 DEF Held
    <3> QED  BY <3>1, <3>2
  <2>14. /\ AllTrue(events', arrived', TunedAt)
         /\ \A h : Untold(events', arrived', TunedAt, h) => Untold(b, arrived', TunedAt, h)
         /\ Full(pkt) => \A h : Untold(events', arrived', TunedAt, h) => ~Goes(arrived', TunedAt, l, h)
    <3>1. CASE Full(pkt)
      <4>1. l \in Events /\ events' = b \o <<l>>
        BY <3>1, <2>6, <2>11
      <4>2. \A h \in DOMAIN arrived' :
               Goes(arrived', TunedAt, l, h) /\ Untold(b, arrived', TunedAt, h) => TrueTo(l, arrived'[h])
        <5> SUFFICES ASSUME NEW h, Goes(arrived', TunedAt, l, h), Untold(b, arrived', TunedAt, h)
                     PROVE  TrueTo(l, arrived'[h])
          OBVIOUS
        <5>1. Bears(g, arrived'[h]) /\ g.expPayload = g.size
          BY <3>1, <2>4, <2>7, <2>13 DEF Goes
        <5> QED  BY <5>1, <2>7 DEF TrueTo, Bears
      <4>3. AllTrue(b \o <<l>>, arrived', TunedAt)
        BY <4>1, <4>2, <2>7, <2>11, <2>12, TrueOne
      <4>4. \A h : Untold(b \o <<l>>, arrived', TunedAt, h) <=>
                      Untold(b, arrived', TunedAt, h) /\ ~Goes(arrived', TunedAt, l, h)
        BY <4>1, <4>2, <2>7, <2>11, <2>12, TrueOne
      <4> QED  BY <4>1, <4>3, <4>4
    <3>2. CASE ~Full(pkt)
      BY <3>2, <2>11, <2>12
    <3> QED  BY <3>1, <3>2
  <2>15. Held(Left(pkt), p, events', arrived', TunedAt)
    <3> SUFFICES ASSUME NEW h, h = StartIn(arrived', p, n + 1), h > TunedAt,
                        arrived'[h].load.pes.marker, Untold(events', arrived', TunedAt, h)
                 PROVE  Bears(Left(pkt), arrived'[h])
      BY <1>1 DEF Held
    <3>1. ~Full(pkt)
      BY <2>7, <2>14 DEF Goes
    <3>2. Bears(Begun(pkt), arrived'[h])
      BY <2>13, <2>14
    <3> QED  BY <3>1, <3>2, <2>4
  <2>16. ASSUME NEW q \in DOMAIN mEsFrames, q # p
         PROVE  Held(mEsFrames[q], q, events', arrived', TunedAt)
    <3>1. \A h : Untold(events', arrived', TunedAt, h) => Untold(events, arrived, TunedAt, h)
      BY <2>9, <2>12, <2>14
    <3>2. ~IsStart(pkt, q)
      BY <2>16 DEF IsStart, p
    <3> QED  BY <3>1, <3>2, <1>7
  <2>17. \A q \in DOMAIN mEsFrames' : /\ Held(mEsFrames'[q], q, events', arrived', TunedAt)
                                      /\ NotYetFull(mEsFrames'[q])
    BY <2>1, <2>4, <2>10, <2>15, <2>16, <1>4
  <2> QED  BY <2>2, <2>14, <2>17
<1> QED  BY <1>9, <1>10

LEMMA HeadersAlways == Spec => []HeadersInv
<1>1. Init => HeadersInv
  <2> SUFFICES ASSUME Init PROVE HeadersInv
    OBVIOUS
  <2>1. FrameInv /\ DOMAIN <<>> = {}
    BY FrameInvInit, EmptySeq
  <2> QED  BY <2>1 DEF Init, HeadersInv, AllTrue
<1>2. HeadersInv /\ [Next]_vars => HeadersInv'
  <2> SUFFICES ASSUME HeadersInv, [Next]_vars PROVE HeadersInv'
    OBVIOUS
  <2>1. FrameInv'
    BY FrameInvNext DEF HeadersInv
  <2>2. CASE UNCHANGED vars
    <3>1. TunedAt' = TunedAt
      BY <2>2, NothingHeard DEF vars
    <3> QED  BY <3>1, <2>1, <2>2 DEF vars, HeadersInv
  <2>3. CASE Next
    <3>1. PICK pkt \in Arrivals : arrived' = Append(arrived, pkt) /\ parseTsPacket(pkt)
      BY <2>3 DEF Next, Arrive
    <3> QED  BY <3>1, <2>1, HeadersNext
  <2> QED  BY <2>2, <2>3
<1> QED  BY <1>1, <1>2, PTL DEF Spec

(* The frame of a start packet, as the invariant sees it.                  *)
LEMMA FirstToGo ==
    ASSUME HeadersInv, NEW k \in DOMAIN events, NEW h \in DOMAIN arrived, IsFrameOf(k, h)
    PROVE  TrueTo(events[k], arrived[h])
<1>1. \A e : GoesBy(e, h) <=> Goes(arrived, TunedAt, e, h)
  BY DEF GoesBy, Goes, StartOf, StartIn, SelectLastInSubSeq, IsStart
<1> QED  BY <1>1 DEF IsFrameOf, HeadersInv, AllTrue

(***************************************************************************)
(* Whatever packets arrive, a sized frame with an intact header is handed  *)
(* out as completed exactly when it has the size promised, one of unknown  *)
(* size always.                                                            *)
(***************************************************************************)
THEOREM VerdictsAlwaysRight == Spec => []VerdictsRight
<1>1. HeadersInv => VerdictsRight
  BY FirstToGo DEF VerdictsRight, TrueTo
<1> QED  BY <1>1, HeadersAlways, PTL

(***************************************************************************)
(* Whatever packets arrive, the first frame delivered after an intact      *)
(* start packet has that packet's timestamps and random access flag.       *)
(***************************************************************************)
THEOREM HeaderAlwaysKept == Spec => []HeaderKept
<1>1. HeadersInv => HeaderKept
  BY FirstToGo DEF HeaderKept, TrueTo, Says
<1> QED  BY <1>1, HeadersAlways, PTL

=============================================================================
