------------------------------- MODULE MCLink -------------------------------
(***************************************************************************)
(* Instances of Link for TLC.                                              *)
(***************************************************************************)
EXTENDS Link

CONSTANTS t1

MCThreads == {t1}

Video == [type |-> 27, pid |-> 256]
Audio == [type |-> 15, pid |-> 257]
MCStreams == <<Audio, Video>>

VideoShape(size, ra) ==
    [type |-> 27, pid |-> 256, size |-> size, pts |-> 9, dts |-> 7, pcr |-> 6, ra |-> ra]
AudioShape(size) ==
    [type |-> 15, pid |-> 257, size |-> size, pts |-> 2, dts |-> 2, pcr |-> 0, ra |-> TRUE]

(* Frames of unknown size in two or three packets and one in none, frames  *)
(* of known size in one or two.                                            *)
MCShapes == {VideoShape(320, FALSE), VideoShape(400, TRUE), VideoShape(0, FALSE),
             VideoShape(20, FALSE), AudioShape(20), AudioShape(200)}

(* Two packets of known size, the second full, and three of unknown size.  *)
MCLossyShapes == {VideoShape(341, FALSE), VideoShape(500, TRUE), VideoShape(0, FALSE),
                  VideoShape(20, FALSE), AudioShape(20), AudioShape(200)}
=============================================================================
