-------------------------------- MODULE Link --------------------------------
(***************************************************************************)
(* A multiplexer, the packets in flight and a demultiplexer: what the      *)
(* unit tests and the examples build by passing the buffer of              *)
(* tsOutCallback on to MpegTsDemuxer::decode, over a network that may lose *)
(* or repeat packets. Every packet is taken to be found in the byte stream *)
(* (TsFraming shows when).                                                 *)
(***************************************************************************)
EXTENDS Muxer, SequencesExt

CONSTANTS
    LossSizes,      \* how many packets in a row the network may lose
    MaxFaults       \* bound: losses and repetitions

VARIABLES
    mPmtId, mPatIsValid, mInfos, mPmtIsValid, mPcrId, mStreamPidMap,
    mEsFrames, mCCs, arrived, events,
    nTaken,         \* packets of wire that are no longer in flight
    nFaults,
    received        \* history: which packet of wire each arrival is

demuxVars == <<mPmtId, mPatIsValid, mInfos, mPmtIsValid, mPcrId, mStreamPidMap,
               mEsFrames, mCCs, arrived, events>>
linkVars  == <<vars, demuxVars, nTaken, nFaults, received>>

D == INSTANCE Demuxer WITH Arrivals <- {}, MaxArrivals <- 0

(***************************************************************************)
(* What is encoded is announced, and not on the PID of the PMT; null       *)
(* packets are no whole packets; mPesPacketLength has 16 bits.             *)
(***************************************************************************)
ASSUME LinkAssumption ==
    /\ \A f \in FrameShapes : \E i \in DOMAIN Streams :
           Streams[i] = [type |-> f.type, pid |-> f.pid]
    /\ \A i \in DOMAIN Streams : Streams[i].pid # PmtPid
    /\ Ops \subseteq {"encode", "pcr"}
    /\ MaxPesLength < D!Uint16
    /\ LossSizes \subseteq Nat \ {0}
    /\ MaxFaults \in Nat

LinkInit == Init /\ D!Init /\ nTaken = 0 /\ nFaults = 0 /\ received = <<>>

Mux == Next /\ UNCHANGED <<demuxVars, nTaken, nFaults, received>>

Receive ==
    /\ nTaken < Len(wire)
    /\ D!Arrive(wire[nTaken + 1])
    /\ nTaken' = nTaken + 1
    /\ received' = Append(received, nTaken + 1)
    /\ UNCHANGED <<vars, nFaults>>

Lose ==
    /\ nFaults < MaxFaults
    /\ \E n \in LossSizes : nTaken + n <= Len(wire) /\ nTaken' = nTaken + n
    /\ nFaults' = nFaults + 1
    /\ UNCHANGED <<vars, demuxVars, received>>

(* The last packet taken, received again.                                  *)
Repeat ==
    /\ nFaults < MaxFaults
    /\ nTaken > 0
    /\ D!Arrive(wire[nTaken])
    /\ received' = Append(received, nTaken)
    /\ nFaults' = nFaults + 1
    /\ UNCHANGED <<vars, nTaken>>

LinkNext == Mux \/ Receive \/ Lose \/ Repeat
LinkSpec == LinkInit /\ [][LinkNext]_linkVars
-----------------------------------------------------------------------------
(***************************************************************************)
(* The frames a receiver is entitled to: those encoded after the first PMT *)
(* with all that an EsFrame tells of them. A frame without data leaves no  *)
(* packet behind.                                                          *)
(***************************************************************************)
Told(frame, pts, dts, ra) == [frame |-> frame, pts |-> pts, dts |-> dts, ra |-> ra]
Frames ==
    {Told([src |-> t, no |-> n, size |-> f.size, key |-> k], f.pts, f.dts, f.ra) :
        t \in Threads, n \in 1 .. MaxCalls, f \in FrameShapes, k \in RandomAccessArgs}
EncodedPids == {f.pid : f \in FrameShapes}

(* A finite set of numbers in ascending order, by their ranks.             *)
Rank(S, x) == Cardinality({y \in S : y <= x})
InOrder(S) == [n \in 1 .. Cardinality(S) |-> CHOOSE x \in {y \in S : Rank(S, y) = n} : TRUE]

(* The start packets on PID q among the first n that come after a PMT.     *)
StartsOn(q, n) ==
    {i \in 1 .. n : /\ wire[i].pid = q /\ IsStart(wire[i])
                    /\ \E j \in 1 .. i : wire[j].load.kind = "pmt"}
ToldBy(p) ==
    LET pes == p.load.pes
    IN  Told(p.load.run.frame, pes.pts, IF pes.flags = 3 THEN pes.dts ELSE pes.pts, p.af.ra)
SentBy(q, n) == LET starts == InOrder(StartsOn(q, n))
                IN  [i \in DOMAIN starts |-> ToldBy(wire[starts[i]])]
Sent(q)      == SentBy(q, Len(wire))

(* A delivered frame is genuine if it is completed and its bytes are those *)
(* of one encoded frame, all of them, in order.                            *)
Runs(e) == [i \in DOMAIN e.frame.data |-> arrived[e.frame.data[i]].load.run]
WholeFrame(runs, size) ==
    /\ runs # <<>>
    /\ runs[1].from = 0
    /\ \A i \in 1 .. Len(runs) - 1 : /\ runs[i + 1].frame = runs[1].frame
                                     /\ runs[i + 1].from = EndOf(runs[i])
    /\ EndOf(runs[Len(runs)]) = size
    /\ runs[1].frame.size = size
Genuine(e) == e.completed /\ WholeFrame(Runs(e), e.frame.size)
Garbled == [garbled |-> TRUE]
ToldIn(e) ==
    IF Genuine(e) THEN Told(Runs(e)[1].frame, e.frame.pts, e.frame.dts, e.frame.ra) ELSE Garbled
Delivered(q) == LET es == InOrder(D!EsOn(q))
                IN  [i \in DOMAIN es |-> ToldIn(events[es[i]])]

Channel == INSTANCE FrameChannel WITH
    Pids      <- EncodedPids,
    sent      <- [q \in EncodedPids |-> Sent(q)],
    delivered <- [q \in EncodedPids |-> Delivered(q)]

(***************************************************************************)
(* Over a network that loses nothing, multiplexer and demultiplexer are a  *)
(* channel of frames per PID: from the first PMT on, each frame comes out  *)
(* once, byte for byte, in order, marked completed, with its timestamps    *)
(* and random access flag, however its packets were cut and stuffed.       *)
(***************************************************************************)
ChannelSpec == Channel!Spec

UnknownSize(m) ==
    LET hdl == IF m.pts = m.dts THEN TimestampBytes ELSE 2 * TimestampBytes
    IN  hdl + m.frame.size + 3 > MaxPesLength

(***************************************************************************)
(* And it holds back little: when every packet is received, at most the    *)
(* last frame of each PID is still inside, and only if it is too long for  *)
(* its PES header to give its size.                                        *)
(***************************************************************************)
LittleHeldBack ==
    nTaken = Len(wire) =>
        \A q \in EncodedPids :
            LET nSent == Len(Sent(q))
                nOut  == Len(Delivered(q))
            IN  \/ nOut = nSent
                \/ nOut = nSent - 1 /\ UnknownSize(Sent(q)[nSent])

(* Nor does it report a lost packet where none was.                        *)
NoFalseAlarm == \A k \in DOMAIN events : events[k].kind # "cc"

-----------------------------------------------------------------------------
(* Fewer packets of any PID are lost in a row than its counter has values. *)
FewLost ==
    \A i, j \in DOMAIN arrived : Precedes(arrived, i, j) =>
        Cardinality({n \in received[i] + 1 .. received[j] - 1 : wire[n].pid = arrived[j].pid})
            < CcModulus

(* The start packet that the frame of event k goes by, 0 if none was heard *)
(* on its PID; and a continuity error reported on the PID since.           *)
StartFor(k) == D!StartOf(events[k].pid, events[k].upto)
Warned(k) ==
    \E j \in 1 .. k - 1 : /\ events[j].kind = "cc" /\ events[j].pid = events[k].pid
                          /\ events[j].at > StartFor(k)

(***************************************************************************)
(* Loss and repetition never go unnoticed, as long as fewer than 16        *)
(* packets of a PID are lost in a row: a frame that is not what was        *)
(* encoded is marked broken, or a continuity error was reported on its PID *)
(* since the start packet it goes by. The exception is what arrives before *)
(* any start packet of the PID does: there is no counter to go by.         *)
(***************************************************************************)
NoSilentCorruption ==
    FewLost =>
        \A k \in DOMAIN events :
            events[k].kind = "es" /\ events[k].completed /\ ~Genuine(events[k]) =>
                Warned(k) \/ StartFor(k) = 0

(***************************************************************************)
(* Whole frames of one caller come out in the order they went in, and only *)
(* with a continuity error at its start does one come out again.           *)
(***************************************************************************)
GenuineInOrder ==
    \A q \in EncodedPids : \A i, j \in D!EsOn(q) :
        LET before == Runs(events[i])[1].frame
            after  == Runs(events[j])[1].frame
        IN  i < j /\ Genuine(events[i]) /\ Genuine(events[j]) /\ before.src = after.src =>
                \/ before.no < after.no
                \/ /\ before = after
                   /\ \E c \in 1 .. j - 1 : /\ events[c].kind = "cc"
                                            /\ events[c].at = events[j].frame.data[1]

(* A frame marked broken lost some of its packets, and not unnoticed.      *)
BrokenMeansLoss ==
    FewLost =>
        \A k \in DOMAIN events :
            events[k].kind = "es" /\ ~events[k].completed => Warned(k)

-----------------------------------------------------------------------------
(* Every PCR sent on the PID of PCRs reaches pcrOutCallback.               *)
PcrsReachReceiver == D!PcrsComplete
=============================================================================
