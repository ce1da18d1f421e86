------------------------------ MODULE Demuxer ------------------------------
(***************************************************************************)
(* MpegTsDemuxer (mpegts_demuxer.cpp, mpegts_demuxer.h) from parseTsPacket *)
(* down: what one transport stream packet does to the tables, the          *)
(* continuity counters and the frames under construction, and which        *)
(* callbacks it makes. All callbacks are taken to be set. Finding the      *)
(* packets in the byte stream is TsFraming's part.                         *)
(*                                                                         *)
(* Packets are numbered as they arrive, and frame data is the numbers of   *)
(* the packets its bytes came in. How many bytes of a packet are data is   *)
(* worked out from the lengths the packet carries.                         *)
(*                                                                         *)
(* A definition Mut<Name> is <Name> with a plausible bug: each property is *)
(* known to fail when one of them takes the place of the original.         *)
(***************************************************************************)
EXTENDS TsPacket, SequencesExt

CONSTANTS
    Arrivals,       \* the packets that may arrive
    MaxArrivals     \* bound: how many do

(***************************************************************************)
(* PIDs are used consistently: tables arrive on the PIDs of tables, and    *)
(* elementary streams on other PIDs.                                       *)
(***************************************************************************)
Byte   == 0 .. 255
Uint16 == 65536
Pid    == 0 .. MPEGTS_NULL_PACKET_PID
PesHeader == [len : 0 .. Uint16 - 1, hdl : Byte, flags : 0 .. 3, marker : BOOLEAN,
              pts : Nat, dts : Nat]
Info   == [type : Byte, pid : Pid]
Packet(load) ==
    [pid : Pid, pusi : BOOLEAN, afc : 0 .. 3, cc : Cc,
     af : [len : Byte, disc : BOOLEAN, ra : BOOLEAN, pcr : Nat \cup {NoPcr}],
     load : load, bytes : Nat]
PatPacket == Packet([kind : {"pat"}, programs : Seq([number : Nat, pmt : Pid])])
PmtPacket == Packet([kind : {"pmt"}, ok : BOOLEAN, pcrPid : Pid, infos : Seq(Info)])
PesPacket == Packet([kind : {"pes"}, pes : PesHeader,
                     run : [frame : Nat, from : Nat, len : Nat]])
ArrivalTypes == PatPacket \cup PmtPacket \cup PesPacket \cup Packet([kind : {"none"}])

ASSUME DemuxerAssumption ==
    /\ Arrivals \subseteq ArrivalTypes
    /\ MaxArrivals \in Nat
    /\ \A p \in Arrivals :
         /\ p.pid = MPEGTS_PAT_PID \/ p.load.kind # "pat"
         /\ hasPayload(p.afc) => p.load.kind = "pat" \/ p.pid # MPEGTS_PAT_PID
         /\ p.af.len = 0 \/ ~hasAdaptationField(p.afc) => p.af = NoAf
         /\ p.af.pcr # NoPcr => p.af.len > PcrBytes
    /\ \A p, q \in Arrivals : hasPayload(q.afc) =>
         /\ p.load.kind = "pat" =>
              \A n \in DOMAIN p.load.programs :
                  q.pid = p.load.programs[n].pmt => q.load.kind = "pmt"
         /\ p.load.kind = "pmt" =>
              \A n \in DOMAIN p.load.infos : q.pid = p.load.infos[n].pid => q.load.kind = "pes"

VARIABLES
    mPmtId,         \* PID of the PMT, 0 until a PAT names one
    mPatIsValid,
    mInfos,         \* mPmtHeader.mInfos: every entry decoded so far
    mPmtIsValid,
    mPcrId,         \* 0 until a PMT names one
    mStreamPidMap,  \* stream type -> PID
    mEsFrames,      \* PID -> the frame under construction
    mCCs,           \* PID -> last continuity counter
    arrived,        \* the packets so far
    events          \* history: the callbacks made, in order

tables == <<mPmtId, mPatIsValid, mInfos, mPmtIsValid, mPcrId, mStreamPidMap>>
vars   == <<tables, mEsFrames, mCCs, arrived, events>>

Init ==
    /\ mPmtId = 0 /\ mPatIsValid = FALSE
    /\ mInfos = <<>> /\ mPmtIsValid = FALSE
    /\ mPcrId = 0
    /\ mStreamPidMap = <<>>
    /\ mEsFrames = <<>>
    /\ mCCs = <<>>
    /\ arrived = <<>>
    /\ events = <<>>

(* EsFrame(streamType, pid), and what reset() leaves of a frame.           *)
EsFrame(type) ==
    [type |-> type, data |-> <<>>, size |-> 0, pts |-> 0, dts |-> 0, ra |-> FALSE,
     expPes |-> 0, expPayload |-> 0]
Mutreset(frame) == [frame EXCEPT !.data = <<>>]   \* forgets the size
reset(frame) == EsFrame(frame.type)

MapTo(f, k, v) == [x \in DOMAIN f \cup {k} |-> IF x = k THEN v ELSE f[x]]
-----------------------------------------------------------------------------
(***************************************************************************)
(* The header and the adaptation field.                                    *)
(***************************************************************************)
payloadSize(pkt) == kTsPacketSize_188 - TsHeaderBytes - AfBytes(pkt)

BrokenAf(pkt) ==
    hasAdaptationField(pkt.afc) /\ pkt.af.len > kTsPacketSize_188 - TsHeaderBytes - 2

Ignored(pkt) == pkt.pid = MPEGTS_NULL_PACKET_PID \/ BrokenAf(pkt)

(* The number of the packet being parsed. *)
ThisPacket == Len(arrived) + 1

shouldParsePcr(pkt) == mPcrId # 0 /\ pkt.pid = mPcrId
MutPcrEvents(pkt) ==                         \* only looks at packets with payload
    IF pkt.afc = mPayloadAdaptionBoth /\ pkt.af.pcr # NoPcr /\ shouldParsePcr(pkt)
    THEN <<[kind |-> "pcr", pid |-> pkt.pid, pcr |-> pkt.af.pcr, at |-> ThisPacket]>>
    ELSE <<>>
PcrEvents(pkt) ==
    IF hasAdaptationField(pkt.afc) /\ pkt.af.len > 0 /\ pkt.af.pcr # NoPcr /\ shouldParsePcr(pkt)
    THEN <<[kind |-> "pcr", pid |-> pkt.pid, pcr |-> pkt.af.pcr, at |-> ThisPacket]>>
    ELSE <<>>

MutexpectedCC(pkt) == NextCc(mCCs[pkt.pid])  \* counts packets without payload
expectedCC(pkt) == IF hasPayload(pkt.afc) THEN NextCc(mCCs[pkt.pid]) ELSE mCCs[pkt.pid]

MutCcEvents(pkt) ==                          \* takes a start packet for a fresh beginning
    IF pkt.pid \in DOMAIN mCCs /\ ~pkt.af.disc /\ ~pkt.pusi /\ pkt.cc # expectedCC(pkt)
    THEN <<[kind |-> "cc", pid |-> pkt.pid, at |-> ThisPacket]>>
    ELSE <<>>
CcEvents(pkt) ==
    IF pkt.pid \in DOMAIN mCCs /\ ~pkt.af.disc /\ pkt.cc # expectedCC(pkt)
    THEN <<[kind |-> "cc", pid |-> pkt.pid, at |-> ThisPacket]>>
    ELSE <<>>

(* Every packet that gets past its adaptation field is counted, whatever   *)
(* becomes of its payload.                                                 *)
parseAdaptationField(pkt, esEvents) ==
    /\ mCCs' = MapTo(mCCs, pkt.pid, pkt.cc)
    /\ events' = events \o PcrEvents(pkt) \o CcEvents(pkt) \o esEvents
-----------------------------------------------------------------------------
(***************************************************************************)
(* The tables. A PAT whose section is rejected changes nothing: it is a    *)
(* PAT without programs here. A PMT section is decoded before it is        *)
(* rejected.                                                               *)
(***************************************************************************)
MutToPat(pkt) == hasPayload(pkt.afc) /\ pkt.pid = MPEGTS_PAT_PID  \* takes every PAT
ToPat(pkt) == hasPayload(pkt.afc) /\ pkt.pid = MPEGTS_PAT_PID /\ mPmtId = 0
ToPmt(pkt) ==
    hasPayload(pkt.afc) /\ DOMAIN mEsFrames = {} /\ mPmtId # 0 /\ pkt.pid = mPmtId
ToPes(pkt) ==
    hasPayload(pkt.afc) /\ ~ToPat(pkt) /\ pkt.pid \in DOMAIN mEsFrames /\ payloadSize(pkt) > 0

ParsePat(pkt) ==
    LET named == IF pkt.pusi THEN {i \in DOMAIN pkt.load.programs : pkt.load.programs[i].number # 0}
                 ELSE {}
    IN  /\ ToPat(pkt)
        /\ IF named = {} THEN UNCHANGED <<mPmtId, mPatIsValid>>
           ELSE /\ mPmtId' = pkt.load.programs[Max(named)].pmt
                /\ mPatIsValid' = TRUE
        /\ parseAdaptationField(pkt, <<>>)
        /\ UNCHANGED <<mInfos, mPmtIsValid, mPcrId, mStreamPidMap, mEsFrames>>

(* The stream types and PIDs of a list of entries; the last one wins.      *)
Pids(infos)  == {infos[i].pid : i \in DOMAIN infos}
Types(infos) == {infos[i].type : i \in DOMAIN infos}

MutParsePmt(pkt) ==                          \* uses a section before rejecting it
    LET all == mInfos \o pkt.load.infos
    IN  /\ ToPmt(pkt)
        /\ mInfos' = IF pkt.pusi THEN all ELSE mInfos
        /\ mPcrId' = IF pkt.pusi THEN pkt.load.pcrPid ELSE mPcrId
        /\ IF pkt.pusi /\ pkt.load.ok
           THEN /\ mEsFrames' = [p \in Pids(all) |->
                                   EsFrame(all[SelectLastInSeq(all, LAMBDA i : i.pid = p)].type)]
                /\ mStreamPidMap' = [y \in Types(all) |->
                                       all[SelectLastInSeq(all, LAMBDA i : i.type = y)].pid]
                /\ mPmtIsValid' = TRUE
           ELSE UNCHANGED <<mEsFrames, mStreamPidMap, mPmtIsValid>>
        /\ parseAdaptationField(pkt, <<>>)
        /\ UNCHANGED <<mPmtId, mPatIsValid>>

ParsePmt(pkt) ==
    LET all == mInfos \o pkt.load.infos
    IN  /\ ToPmt(pkt)
        /\ mInfos' = IF pkt.pusi THEN all ELSE mInfos
        /\ IF pkt.pusi /\ pkt.load.ok
           THEN /\ mPcrId' = pkt.load.pcrPid
                /\ mEsFrames' = [p \in Pids(all) |->
                                   EsFrame(all[SelectLastInSeq(all, LAMBDA i : i.pid = p)].type)]
                /\ mStreamPidMap' = [y \in DOMAIN mStreamPidMap \cup Types(all) |->
                                       IF y \in Types(all)
                                       THEN all[SelectLastInSeq(all, LAMBDA i : i.type = y)].pid
                                       ELSE mStreamPidMap[y]]
                /\ mPmtIsValid' = TRUE
           ELSE UNCHANGED <<mPcrId, mEsFrames, mStreamPidMap, mPmtIsValid>>
        /\ parseAdaptationField(pkt, <<>>)
        /\ UNCHANGED <<mPmtId, mPatIsValid>>
-----------------------------------------------------------------------------
(***************************************************************************)
(* The elementary streams.                                                 *)
(***************************************************************************)
(* A call of esOutCallback; upto is the last packet the frame could hold.  *)
Deliver(pid, frame, completed, upto) ==
    [kind |-> "es", pid |-> pid, frame |-> frame, completed |-> completed, upto |-> upto]

(* A start packet flushes what is there, complete or broken.               *)
Flushes(pkt, frame) == pkt.pusi /\ frame.data # <<>>
MutFlush(pkt, frame) ==                      \* holds that any frame cut off by a start is broken
    IF Flushes(pkt, frame) THEN <<Deliver(pkt.pid, frame, FALSE, ThisPacket - 1)>> ELSE <<>>
Flush(pkt, frame) ==
    IF Flushes(pkt, frame) THEN <<Deliver(pkt.pid, frame, frame.expPes = 0, ThisPacket - 1)>> ELSE <<>>

TimestampsRead(pes) ==
    CASE pes.flags = 2 -> TimestampBytes
      [] pes.flags = 3 -> 2 * TimestampBytes
      [] OTHER         -> 0

HeaderOk(pkt) ==
    pkt.pusi => /\ pkt.load.pes.marker
                /\ TimestampsRead(pkt.load.pes) <= pkt.load.pes.hdl
DataFits(pkt) == PesBytes(pkt) <= payloadSize(pkt)

MutStarted(pkt, frame) ==                    \* keeps what it has flushed
    LET pes == pkt.load.pes
    IN  [frame EXCEPT
            !.ra  = pkt.af.ra,
            !.pts = IF pes.flags \in {2, 3} THEN pes.pts ELSE @,
            !.dts = CASE pes.flags = 2 -> pes.pts [] pes.flags = 3 -> pes.dts [] OTHER -> @,
            !.expPes = pes.len,
            !.expPayload = IF pes.len # 0 THEN (pes.len - 3 - pes.hdl) % Uint16 ELSE @]

MutStartedLate(pkt, frame) ==                \* resets what it has just read
    IF Flushes(pkt, frame) THEN reset(frame)
    ELSE LET pes == pkt.load.pes
         IN  [frame EXCEPT
                !.ra  = pkt.af.ra,
                !.pts = IF pes.flags \in {2, 3} THEN pes.pts ELSE @,
                !.dts = CASE pes.flags = 2 -> pes.pts [] pes.flags = 3 -> pes.dts [] OTHER -> @,
                !.expPes = pes.len,
                !.expPayload = IF pes.len # 0 THEN (pes.len - 3 - pes.hdl) % Uint16 ELSE @]

MutStartedLong(pkt, frame) ==                \* expects the timestamps to be payload
    LET pes == pkt.load.pes
    IN  [(IF Flushes(pkt, frame) THEN reset(frame) ELSE frame) EXCEPT
                !.ra  = pkt.af.ra,
                !.pts = IF pes.flags \in {2, 3} THEN pes.pts ELSE @,
                !.dts = CASE pes.flags = 2 -> pes.pts [] pes.flags = 3 -> pes.dts [] OTHER -> @,
                !.expPes = pes.len,
                !.expPayload = IF pes.len # 0 THEN (pes.len - 3) % Uint16 ELSE @]

(* The frame after the header of a start packet: only a frame with data    *)
(* has been reset, and a bad marker ends it before the header's fields.    *)
Started(pkt, frame) ==
    LET old == IF Flushes(pkt, frame) THEN reset(frame) ELSE frame
        new == [old EXCEPT !.ra = pkt.af.ra]
        pes == pkt.load.pes
    IN  IF ~pes.marker THEN new
        ELSE [new EXCEPT
                !.pts = IF pes.flags \in {2, 3} THEN pes.pts ELSE @,
                !.dts = CASE pes.flags = 2 -> pes.pts [] pes.flags = 3 -> pes.dts [] OTHER -> @,
                !.expPes = pes.len,
                !.expPayload = IF pes.len # 0 THEN (pes.len - 3 - pes.hdl) % Uint16 ELSE @]

Appended(pkt, frame) ==
    LET n == payloadSize(pkt) - PesBytes(pkt)
    IN  IF n = 0 THEN frame
        ELSE [frame EXCEPT !.data = Append(@, ThisPacket),
                           !.size = @ + n]

MutParsePes(pkt) ==                          \* completes a frame once it has enough, not exactly enough
    LET frame   == mEsFrames[pkt.pid]
        started == IF pkt.pusi THEN Started(pkt, frame) ELSE frame
        grown   == Appended(pkt, started)
        stored  == HeaderOk(pkt) /\ DataFits(pkt)
        full    == stored /\ grown.expPayload <= grown.size
    IN  /\ ToPes(pkt)
        /\ mEsFrames' = [mEsFrames EXCEPT ![pkt.pid] =
                            IF full THEN reset(grown) ELSE IF stored THEN grown ELSE started]
        /\ parseAdaptationField(pkt, Flush(pkt, frame)
                                       \o IF full THEN <<Deliver(pkt.pid, grown, TRUE, ThisPacket)>> ELSE <<>>)
        /\ UNCHANGED tables

MutParsePesLate(pkt) ==                      \* flushes after it has parsed
    LET frame   == mEsFrames[pkt.pid]
        started == IF pkt.pusi THEN Started(pkt, frame) ELSE frame
        grown   == Appended(pkt, started)
        stored  == HeaderOk(pkt) /\ DataFits(pkt)
        full    == stored /\ grown.expPayload = grown.size
    IN  /\ ToPes(pkt)
        /\ mEsFrames' = [mEsFrames EXCEPT ![pkt.pid] =
                            IF full THEN reset(grown) ELSE IF stored THEN grown ELSE started]
        /\ parseAdaptationField(pkt, (IF full THEN <<Deliver(pkt.pid, grown, TRUE, ThisPacket)>> ELSE <<>>)
                                       \o Flush(pkt, frame))
        /\ UNCHANGED tables

ParsePes(pkt) ==
    LET frame   == mEsFrames[pkt.pid]
        started == IF pkt.pusi THEN Started(pkt, frame) ELSE frame
        grown   == Appended(pkt, started)
        stored  == HeaderOk(pkt) /\ DataFits(pkt)
        full    == stored /\ grown.expPayload = grown.size
    IN  /\ ToPes(pkt)
        /\ mEsFrames' = [mEsFrames EXCEPT ![pkt.pid] =
                            IF full THEN reset(grown) ELSE IF stored THEN grown ELSE started]
        /\ parseAdaptationField(pkt, Flush(pkt, frame)
                                       \o IF full THEN <<Deliver(pkt.pid, grown, TRUE, ThisPacket)>> ELSE <<>>)
        /\ UNCHANGED tables

(* Packets of no interest still have their counter checked.                *)
Skip(pkt) ==
    /\ ~ToPat(pkt) /\ ~ToPmt(pkt) /\ ~ToPes(pkt)
    /\ parseAdaptationField(pkt, <<>>)
    /\ UNCHANGED <<tables, mEsFrames>>

Ignore(pkt) == Ignored(pkt) /\ UNCHANGED <<tables, mEsFrames, mCCs, events>>

parseTsPacket(pkt) ==
    \/ Ignore(pkt)
    \/ /\ ~Ignored(pkt)
       /\ ParsePat(pkt) \/ ParsePmt(pkt) \/ ParsePes(pkt) \/ Skip(pkt)

Arrive(pkt) == arrived' = Append(arrived, pkt) /\ parseTsPacket(pkt)

Next == \E pkt \in Arrivals : Len(arrived) < MaxArrivals /\ Arrive(pkt)
Spec == Init /\ [][Next]_vars
-----------------------------------------------------------------------------
EsFrames == [type : Byte, data : Seq(Nat), size : Nat, pts : Nat, dts : Nat, ra : BOOLEAN,
             expPes : 0 .. Uint16 - 1, expPayload : 0 .. Uint16 - 1]
Events ==
    [kind : {"cc"}, pid : Pid, at : Nat]
      \cup [kind : {"pcr"}, pid : Pid, pcr : Nat, at : Nat]
      \cup [kind : {"es"}, pid : Pid, frame : EsFrames, completed : BOOLEAN, upto : Nat]

(* Every variable stays in its range, frames have data exactly when they   *)
(* have a size, and streams are only set up by a PMT after a PAT.          *)
TypeOK ==
    /\ mPmtId \in Pid
    /\ mPatIsValid \in BOOLEAN
    /\ mInfos \in Seq(Info)
    /\ mPmtIsValid \in BOOLEAN
    /\ mPcrId \in Pid
    /\ DOMAIN mStreamPidMap \subseteq Byte
    /\ \A y \in DOMAIN mStreamPidMap : mStreamPidMap[y] \in DOMAIN mEsFrames
    /\ DOMAIN mEsFrames \subseteq Pid
    /\ \A q \in DOMAIN mEsFrames : mEsFrames[q] \in EsFrames
    /\ \A q \in DOMAIN mEsFrames : mEsFrames[q].data = <<>> <=> mEsFrames[q].size = 0
    /\ DOMAIN mCCs \subseteq Pid
    /\ \A q \in DOMAIN mCCs : mCCs[q] \in Cc
    /\ arrived \in Seq(ArrivalTypes)
    /\ events \in Seq(Events)
    /\ DOMAIN mEsFrames # {} => mPmtIsValid
    /\ mPmtIsValid => mPatIsValid

-----------------------------------------------------------------------------
(***************************************************************************)
(* What the packets that arrived say, without the demuxer's state: the PAT *)
(* it goes by, the PMTs on the PID that PAT names, and where the streams   *)
(* are known from. Indices into arrived; 0 when there is none.             *)
(***************************************************************************)
Heard(p)   == hasPayload(p.afc) /\ ~Ignored(p)
Names(p)   == {n \in DOMAIN p.load.programs : p.load.programs[n].number # 0}
PatAt      == SelectInSeq(arrived, LAMBDA p : /\ p.pid = MPEGTS_PAT_PID
                                             /\ p.pusi /\ Heard(p) /\ Names(p) # {})
NamedPmt   == LET p == arrived[PatAt] IN p.load.programs[Max(Names(p))].pmt
PmtsHeard  == {b \in DOMAIN arrived : /\ PatAt \in 1 .. b - 1
                                      /\ arrived[b].pid = NamedPmt
                                      /\ arrived[b].pusi /\ Heard(arrived[b])}
TuningPmts == {b \in PmtsHeard : /\ arrived[b].load.ok
                                 /\ \E c \in PmtsHeard : c <= b /\ arrived[c].load.infos # <<>>}
TunedAt    == IF TuningPmts = {} THEN Len(arrived) + 1 ELSE Min(TuningPmts)

(* The packets whose payload belongs to a frame on PID q.                  *)
StoredOn(q) ==
    {i \in TunedAt + 1 .. Len(arrived) :
        LET p == arrived[i]
        IN  p.pid = q /\ Heard(p) /\ HeaderOk(p) /\ PesBytes(p) < payloadSize(p)}

EsOn(q) == {k \in DOMAIN events : events[k].kind = "es" /\ events[k].pid = q}
(* Up to which packet the frames of q before event k account for payload.  *)
UptoBefore(q, k) ==
    LET before == {j \in EsOn(q) : j < k}
    IN  IF before = {} THEN 0 ELSE events[Max(before)].upto
Holds(data, S) == /\ Range(data) = S
                  /\ \A i, j \in DOMAIN data : i < j => data[i] < data[j]

(***************************************************************************)
(* esOutCallback gets every payload byte of a stream once and in order:    *)
(* the frames delivered on a PID and the one under construction split the  *)
(* packets of the PID among them, whatever headers, sizes, flushes and     *)
(* resets came between. Only a packet with a bad PES header is left out.   *)
(***************************************************************************)
PayloadConserved ==
    \A q \in DOMAIN mEsFrames :
        /\ \A k \in EsOn(q) :
              Holds(events[k].frame.data,
                    {i \in StoredOn(q) : UptoBefore(q, k) < i /\ i <= events[k].upto})
        /\ Holds(mEsFrames[q].data, {i \in StoredOn(q) : UptoBefore(q, Len(events) + 1) < i})

(* The start packet a frame of PID q delivered after n packets goes by.    *)
StartOf(q, n) ==
    SelectLastInSubSeq(arrived, 1, n, LAMBDA p : p.pid = q /\ p.pusi /\ Heard(p))
Sized(pes)    == pes.len # 0
Promised(pes) == (pes.len - 3 - pes.hdl) % Uint16
GoesBy(e, h)  == /\ h = StartOf(e.pid, e.upto) /\ h > TunedAt
                 /\ arrived[h].load.pes.marker
(* The event is the frame of intact start packet h; anything delivered     *)
(* after it and before the next start has no header of its own.            *)
IsFrameOf(k, h) == /\ events[k].kind = "es" /\ GoesBy(events[k], h)
                   /\ \A j \in 1 .. k - 1 : events[j].kind = "es" => ~GoesBy(events[j], h)

(***************************************************************************)
(* mCompleted and mBroken tell the truth about a frame with an intact      *)
(* header: sized frames are completed when they have the size the header   *)
(* promised and broken otherwise, frames of unknown size never broken.     *)
(***************************************************************************)
VerdictsRight ==
    \A k \in DOMAIN events, h \in DOMAIN arrived : IsFrameOf(k, h) =>
        LET pes == arrived[h].load.pes
        IN  events[k].completed <=> (Sized(pes) => events[k].frame.size = Promised(pes))

(***************************************************************************)
(* The frame of an intact start packet carries the timestamps and the      *)
(* random access flag of that packet, whatever was flushed when it came.   *)
(***************************************************************************)
HeaderKept ==
    \A k \in DOMAIN events, h \in DOMAIN arrived : IsFrameOf(k, h) =>
        LET pes   == arrived[h].load.pes
            frame == events[k].frame
        IN  /\ frame.ra = arrived[h].af.ra
            /\ pes.flags = 2 => frame.pts = pes.pts /\ frame.dts = pes.pts
            /\ pes.flags = 3 => frame.pts = pes.pts /\ frame.dts = pes.dts

(* The events of a kind are made for the packets of S, one each, in order. *)
MadeFor(kind, S) ==
    LET made == {k \in DOMAIN events : events[k].kind = kind}
    IN  /\ {events[k].at : k \in made} = S
        /\ \A k, l \in made : k < l => events[k].at < events[l].at
        /\ \A k \in made : events[k].pid = arrived[events[k].at].pid

Counted == {i \in DOMAIN arrived : ~Ignored(arrived[i])}
CountsAfter(i, j) == /\ i \in Counted /\ i < j /\ arrived[i].pid = arrived[j].pid
                     /\ \A k \in i + 1 .. j - 1 : k \in Counted => arrived[k].pid # arrived[j].pid

(***************************************************************************)
(* ccErrorCallback reports exactly the packets that do not follow their    *)
(* predecessor on the PID, neither counting null packets nor packets with  *)
(* a broken adaptation field, and none right after a discontinuity flag.   *)
(***************************************************************************)
CcErrorsExact ==
    MadeFor("cc", {j \in Counted : /\ ~arrived[j].af.disc
                                   /\ \E i \in DOMAIN arrived : /\ CountsAfter(i, j)
                                                               /\ ~CcFollows(arrived[i], arrived[j])})

(***************************************************************************)
(* Frames only come from PIDs some PMT announced, and that PMT was sent on *)
(* the PID the first PAT named: a stale or foreign table opens no stream.  *)
(***************************************************************************)
OnlyAnnounced ==
    \A k \in DOMAIN events : events[k].kind = "es" =>
        \E b \in PmtsHeard : /\ b < events[k].upto
                              /\ events[k].pid \in Pids(arrived[b].load.infos)

(* The PCRs of the packets after the PMT on the PID it names for them.     *)
PcrPidAt(i) ==
    LET pmts == {b \in PmtsHeard : b < i /\ arrived[b].load.ok /\ b <= TunedAt}
    IN  IF pmts = {} THEN 0 ELSE arrived[Max(pmts)].load.pcrPid
CarriesPcr(i) == /\ hasAdaptationField(arrived[i].afc)
                 /\ arrived[i].af.pcr # NoPcr
                 /\ PcrPidAt(i) # 0
                 /\ PcrPidAt(i) = arrived[i].pid

(***************************************************************************)
(* pcrOutCallback gets, in order and once each, the PCR of the packets on  *)
(* the PCR PID whose adaptation field has 182 bytes at most, with payload  *)
(* or without, once a PMT has named that PID. Packets with a longer field  *)
(* are dropped, those of createPcr among them (183 bytes): see             *)
(* PcrsComplete, which does not hold.                                      *)
(***************************************************************************)
PcrsExact ==
    /\ MadeFor("pcr", {i \in Counted : CarriesPcr(i)})
    /\ \A k \in DOMAIN events :
          events[k].kind = "pcr" => events[k].pcr = arrived[events[k].at].af.pcr

(* The same for every packet whose adaptation field fits into it.          *)
PcrsComplete ==
    MadeFor("pcr", {i \in DOMAIN arrived : /\ CarriesPcr(i)
                                           /\ AfBytes(arrived[i]) <= kTsPacketSize_188 - TsHeaderBytes})

(***************************************************************************)
(* A frame of unknown size is handed out by the start packet after it and  *)
(* by nothing else: there is no other end to it.                           *)
(***************************************************************************)
UnsizedEndByStart ==
    \A k \in DOMAIN events, h \in DOMAIN arrived :
        IsFrameOf(k, h) /\ ~Sized(arrived[h].load.pes) =>
            LET next == events[k].upto + 1
            IN  next \in DOMAIN arrived /\ arrived[next].pid = events[k].pid /\ arrived[next].pusi
=============================================================================
