------------------------------ MODULE MCMuxer ------------------------------
(***************************************************************************)
(* Instances of Muxer for TLC.                                             *)
(***************************************************************************)
EXTENDS MuxBytes

CONSTANTS t1, t2

MCThreads == {t1, t2}
OneThread == {t1}

Video == [type |-> 27, pid |-> 256]
Audio == [type |-> 15, pid |-> 257]
MCStreams == <<Audio, Video>>

(* Times of more than 30 bits, to which Bin gives a second part.           *)
VideoShape(n, dts, ra) ==
    [type |-> 27, pid |-> 256, size |-> n, pts |-> 2^30 + 3, dts |-> 2^30 + dts, pcr |-> 2^30 + 1,
     ra |-> ra]
AudioShape(n) ==
    [type |-> 15, pid |-> 257, size |-> n, pts |-> 2, dts |-> 2, pcr |-> 0, ra |-> FALSE]

(* Two threads: an empty frame, one of one packet, one of two.             *)
InterleavedShapes == {VideoShape(0, 3, FALSE), VideoShape(300, 1, TRUE), AudioShape(20)}

(* Every size up to three packets and a bit, on the PCR PID and off it,    *)
(* with one or two timestamps, as random access point or not.              *)
LayoutSizes  == 0 .. 580
LayoutShapes ==
    {VideoShape(n, dts, ra) : n \in LayoutSizes, dts \in {1, 3}, ra \in BOOLEAN}
        \cup {[VideoShape(n, dts, ra) EXCEPT !.pid = 257, !.type = 15] :
                 n \in LayoutSizes, dts \in {1, 3}, ra \in BOOLEAN}

(* A single stream for long runs: the table cadence and counters that wrap.*)
LongShapes == {VideoShape(300, 3, FALSE)}
=============================================================================
