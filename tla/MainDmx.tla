------------------------------ MODULE MainDmx ------------------------------
(***************************************************************************)
(* main_dmx.cpp: bars.ts is read a packet at a time into one buffer, which *)
(* is decoded, and each frame delivered is written to files in bars_dmx:   *)
(* an audio frame is cut into its ADTS frames, one file each, a video      *)
(* frame becomes one file of data and one of timestamps. bars.ts exists    *)
(* and holds whole packets; only esOutCallback is set.                     *)
(*                                                                         *)
(* File data is runs of the frames of bars.ts. Where ADTS headers are in   *)
(* those frames is the constant Adts.                                      *)
(***************************************************************************)
EXTENDS BarsDmx, TsPacket, SequencesExt

CONSTANTS
    BarsTs,         \* what bars.ts may be: sequences of packets
    Adts            \* frame -> offset of an ADTS header -> [mpeg4, lLength]

ASSUME MainDmxAssumption ==
    /\ \A s \in BarsTs : Len(s) > 0
    /\ \A f \in DOMAIN Adts : \A o \in DOMAIN Adts[f] : Adts[f][o].lLength \in Nat \ {0}

VARIABLES
    mPmtId, mPatIsValid, mInfos, mPmtIsValid, mPcrId, mStreamPidMap,
    mEsFrames, mCCs, arrived, events,
    bars,           \* the packets of bars.ts
    eof             \* ifile.eof()

demuxVars == <<mPmtId, mPatIsValid, mInfos, mPmtIsValid, mPcrId, mStreamPidMap,
               mEsFrames, mCCs, arrived, events>>
dmxVars == <<demuxVars, bars, eof, aFiles, vFiles>>

gDemuxer == INSTANCE Demuxer WITH Arrivals <- {}, MaxArrivals <- 0

TYPE_AUDIO      == 15
TYPE_VIDEO_H264 == 27

(* Runs that follow each other in a frame are one run.                     *)
Joined(runs) ==
    FoldLeft(LAMBDA rs, r :
               IF rs # <<>> /\ Last(rs).frame = r.frame /\ Last(rs).from + Last(rs).len = r.from
               THEN [rs EXCEPT ![Len(rs)].len = @ + r.len]
               ELSE Append(rs, r), <<>>, runs)
(* n bytes of data from lDataPointer on.                                   *)
LenOf(runs) == FoldSeq(LAMBDA r, n : r.len + n, 0, runs)
Clip(data, lDataPointer, n) ==
    LET piece(i) ==
          LET at == LenOf(SubSeq(data, 1, i - 1))
              lo == Max({lDataPointer, at})
              hi == Min({lDataPointer + n, at + data[i].len})
          IN  Run(data[i].frame, data[i].from + lo - at, hi - lo)
    IN  SelectSeq([i \in DOMAIN data |-> piece(i)], LAMBDA r : r.len > 0)

(* The ADTS header at a byte: sync word there, and MPEG-4.                 *)
HeaderAt(data, lDataPointer) ==
    LET byte == Clip(data, lDataPointer, 1)[1]
    IN  IF byte.frame \in DOMAIN Adts /\ byte.from \in DOMAIN Adts[byte.frame]
        THEN Adts[byte.frame][byte.from] ELSE [mpeg4 |-> FALSE, lLength |-> 0]
MutAdtsFiles(data) ==                        \* writes all that is left
    LET from[p \in Nat] ==
            IF p >= LenOf(data) \/ ~HeaderAt(data, p).mpeg4 THEN <<>>
            ELSE <<Clip(data, p, LenOf(data))>> \o from[p + HeaderAt(data, p).lLength]
    IN  from[0]
AdtsFiles(data) ==
    LET from[p \in Nat] ==
            IF p >= LenOf(data) \/ ~HeaderAt(data, p).mpeg4 THEN <<>>
            ELSE <<Clip(data, p, HeaderAt(data, p).lLength)>> \o from[p + HeaderAt(data, p).lLength]
    IN  from[0]

(* The callbacks of one call of decode.                                    *)
OfType(type) ==
    SelectSeq(SubSeq(events', Len(events) + 1, Len(events')),
              LAMBDA e : e.kind = "es" /\ e.frame.type = type)
DataOf(esFrame) ==
    Joined([i \in DOMAIN esFrame.data |-> arrived'[esFrame.data[i]].load.run])
dmxOutput ==
    LET audio == OfType(TYPE_AUDIO)
        video == OfType(TYPE_VIDEO_H264)
    IN  /\ aFiles' = aFiles \o FlattenSeq([i \in DOMAIN audio |-> AdtsFiles(DataOf(audio[i].frame))])
        /\ vFiles' = vFiles \o [i \in DOMAIN video |->
              [data |-> DataOf(video[i].frame), pts |-> video[i].frame.pts, dts |-> video[i].frame.dts]]

DmxInit ==
    /\ gDemuxer!Init
    /\ bars \in BarsTs
    /\ eof = FALSE
    /\ aFiles = <<>> /\ vFiles = <<>>

(* One turn of the read loop. The end of the file is seen by the read that *)
(* finds nothing; the buffer it leaves alone is decoded once more.         *)
MutReadPacket ==                             \* starts over after the end
    /\ ~eof
    /\ eof' = (Len(arrived) = 2 * Len(bars))
    /\ gDemuxer!Arrive(bars[(Len(arrived) % Len(bars)) + 1])
    /\ dmxOutput
    /\ UNCHANGED bars
ReadPacket ==
    /\ ~eof
    /\ eof' = (Len(arrived) = Len(bars))
    /\ gDemuxer!Arrive(bars[Min({Len(arrived) + 1, Len(bars)})])
    /\ dmxOutput
    /\ UNCHANGED bars
-----------------------------------------------------------------------------
(***************************************************************************)
(* What bars.ts carries: its frames from their start packets on, and the   *)
(* files they make.                                                        *)
(***************************************************************************)
StartsIn(type) ==
    SelectSeq(bars, LAMBDA p : /\ p.load.kind = "pes" /\ p.pusi
                               /\ \E q \in DOMAIN mEsFrames : mEsFrames[q].type = type /\ q = p.pid)
RunsOf(frame) ==
    LET packets == SelectSeq(bars, LAMBDA p : p.load.kind = "pes" /\ p.load.run.frame = frame)
    IN  Joined([i \in DOMAIN packets |-> packets[i].load.run])
(* The ADTS frames of a frame up to the first that is no MPEG-4.           *)
AdtsIn(frame) ==
    LET headers == Adts[frame]
        good == {o \in DOMAIN headers : \A q \in DOMAIN headers : q <= o => headers[q].mpeg4}
        at   == SetToSortSeq(good, <)
    IN  [i \in DOMAIN at |-> Run(frame, at[i], headers[at[i]].lLength)]
AudioIn(starts) ==
    LET adts == FlattenSeq([i \in DOMAIN starts |-> AdtsIn(starts[i].load.run.frame)])
    IN  [i \in DOMAIN adts |-> <<adts[i]>>]
VideoIn(starts) ==
    [i \in DOMAIN starts |-> [data |-> RunsOf(starts[i].load.run.frame),
                              pts |-> starts[i].load.pes.pts, dts |-> starts[i].load.pes.dts]]
(* The last packet is a frame of its own.                                  *)
RepeatedFrame(type) ==
    LET p == Last(bars)
    IN  IF p.load.kind = "pes" /\ p.pusi /\ p.pid \in DOMAIN mEsFrames
             /\ mEsFrames[p.pid].type = type /\ p.load.run.len = LenOf(RunsOf(p.load.run.frame))
        THEN <<p>> ELSE <<>>

(***************************************************************************)
(* The audio files are the ADTS frames of bars.ts, all of them, whole and  *)
(* in order, whatever PES packets they share. The packet decoded twice     *)
(* adds files only when it is an audio frame of its own.                   *)
(***************************************************************************)
AudioFilesRight ==
    LET all == AudioIn(StartsIn(TYPE_AUDIO)) \o AudioIn(RepeatedFrame(TYPE_AUDIO))
    IN  IsPrefix(aFiles, all) /\ (eof => aFiles = all)

(***************************************************************************)
(* The video files are the frames of bars.ts with their timestamps, whole  *)
(* and in order, but the last, which no start packet follows: unless it is *)
(* the packet decoded twice.                                               *)
(***************************************************************************)
VideoFilesRight ==
    LET starts == StartsIn(TYPE_VIDEO_H264)
        all    == VideoIn(starts)
    IN  /\ IsPrefix(vFiles, all)
        /\ eof => Len(vFiles) = Len(all) - IF RepeatedFrame(TYPE_VIDEO_H264) = <<>> /\ all # <<>>
                                           THEN 1 ELSE 0
=============================================================================
