---------------------------- MODULE FrameChannel ----------------------------
(***************************************************************************)
(* What a multiplexer and a demultiplexer promise together: on every PID   *)
(* the frames that went in come out once each, whole and in order. Frames  *)
(* may be held back, and several may come out at once.                     *)
(***************************************************************************)
EXTENDS Integers, Sequences

CONSTANTS
    Pids,
    Frames          \* with what a receiver is told of each

VARIABLES
    sent,           \* PID -> frames in the order they went in
    delivered       \* PID -> frames in the order they came out

Init ==
    /\ sent = [q \in Pids |-> <<>>]
    /\ delivered = [q \in Pids |-> <<>>]

Send(q) ==
    /\ sent' \in {[sent EXCEPT ![q] = Append(@, f)] : f \in Frames}
    /\ UNCHANGED delivered

Deliver(q) ==
    /\ delivered' \in {[delivered EXCEPT ![q] = SubSeq(sent[q], 1, n)] :
                          n \in Len(delivered[q]) + 1 .. Len(sent[q])}
    /\ UNCHANGED sent

Next == \E q \in Pids : Send(q) \/ Deliver(q)
Spec == Init /\ [][Next]_<<sent, delivered>>
=============================================================================
