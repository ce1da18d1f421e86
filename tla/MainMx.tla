------------------------------- MODULE MainMx -------------------------------
(***************************************************************************)
(* main_mx.cpp: the files main_dmx wrote are multiplexed again, forever.   *)
(* An audio and a video thread take a file each time their next time has   *)
(* come, work out its timestamps and encode it; the main thread counts     *)
(* seconds and stops the recording; the output callback sends each packet  *)
(* and records it. gTimeReference and savingFrames are shared without a    *)
(* lock, so that a write may fall between any two steps of the others. The *)
(* multiplexer (Muxer) is no more here than its mutex.                     *)
(*                                                                         *)
(* Time is in ticks and passes between any two steps: a thread may sleep   *)
(* too long and fall behind, but never acts before its time.               *)
(***************************************************************************)
EXTENDS BarsDmx, Integers, SequencesExt

CONSTANTS
    Distance,       \* ticks between frames: 21.3 ms of audio, 20 ms of video
    LoopFrames,     \* LOOP_FRAME_COUNT_AUDIO, LOOP_FRAME_COUNT_VIDEO
    Packets,        \* packets a frame is multiplexed into
    AudioPts,       \* 1920: PTS between audio frames
    SECOND_SLEEP, SAVED_TS_NUM_SECONDS,
    Idr,            \* the frames of bars.ts with a NAL of type 5
    MaxNow          \* bound: time

Encoders == {"audio", "video"}
ASSUME MainMxAssumption ==
    /\ Distance \in [Encoders -> Nat \ {0}]
    /\ LoopFrames \in [Encoders -> Nat \ {0}]
    /\ Packets \in [Encoders -> Nat]
    /\ AudioPts \in Nat \ {0}
    /\ SECOND_SLEEP \in Nat \ {0}
    /\ SAVED_TS_NUM_SECONDS \in Nat
    /\ MaxNow \in Nat

VARIABLES
    now,            \* steady_clock
    gTimeReference,
    mainPc,         \* the main thread: starting, in its loop, checking, sleeping
    savedOutputSeconds, savingFrames, closeOnce,
    enc,            \* the encoder threads
    sending,        \* the call of the multiplexer: by whom, packets to go
    sent,           \* history: the packets sent
    file            \* output.ts

mxVars == <<now, gTimeReference, mainPc, savedOutputSeconds, savingFrames, closeOnce,
            enc, sending, sent, file>>

gFirstPts        == vFiles[1].pts
MutgPtsLoopDuration == vFiles[LoopFrames["video"]].pts - gFirstPts     \* off by one file
gPtsLoopDuration == vFiles[LoopFrames["video"] + 1].pts - gFirstPts

NoFrame == [stream |-> "none"]
Idle    == [by |-> "none", left |-> 0]
MxInit ==
    /\ now = 0
    /\ gTimeReference = 0
    /\ mainPc = "start"
    /\ savedOutputSeconds = 0 /\ savingFrames = TRUE /\ closeOnce = FALSE
    /\ enc = [e \in Encoders |-> [pc |-> "none", lNextTriger |-> 0, lFrameCounter |-> 0, lPts |-> 0,
                                  lCurrentOffset |-> 0, frame |-> NoFrame, no |-> 0]]
    /\ sending = Idle
    /\ sent = <<>> /\ file = <<>>
-----------------------------------------------------------------------------
(* The main thread.                                                        *)
StartThreads ==
    /\ mainPc = "start"
    /\ mainPc' = "loop"
    /\ gTimeReference' = now
    /\ enc' = [e \in Encoders |-> [enc[e] EXCEPT !.pc = "start"]]
    /\ UNCHANGED <<now, savedOutputSeconds, savingFrames, closeOnce, sending, sent, file>>

(* One second on, and if that has passed, the present: both writes show.   *)
MainAdvance ==
    /\ mainPc = "loop"
    /\ mainPc' = "check"
    /\ gTimeReference' = gTimeReference + SECOND_SLEEP
    /\ UNCHANGED <<now, savedOutputSeconds, savingFrames, closeOnce, enc, sending, sent, file>>

MutMainCompensate ==                         \* the present, always
    /\ mainPc = "check"
    /\ mainPc' = "sleep"
    /\ gTimeReference' = now
    /\ UNCHANGED <<now, savedOutputSeconds, savingFrames, closeOnce, enc, sending, sent, file>>
MainCompensate ==
    /\ mainPc = "check"
    /\ mainPc' = "sleep"
    /\ gTimeReference' = IF gTimeReference < now THEN now ELSE gTimeReference
    /\ UNCHANGED <<now, savedOutputSeconds, savingFrames, closeOnce, enc, sending, sent, file>>

MutMainSecond ==                             \* follows the count
    /\ mainPc = "sleep" /\ now >= gTimeReference
    /\ mainPc' = "loop"
    /\ savedOutputSeconds' = savedOutputSeconds + 1
    /\ savingFrames' = (savedOutputSeconds # SAVED_TS_NUM_SECONDS)
    /\ UNCHANGED <<now, gTimeReference, closeOnce, enc, sending, sent, file>>
MainSecond ==
    /\ mainPc = "sleep" /\ now >= gTimeReference
    /\ mainPc' = "loop"
    /\ savedOutputSeconds' = savedOutputSeconds + 1
    /\ savingFrames' = (savingFrames /\ savedOutputSeconds # SAVED_TS_NUM_SECONDS)
    /\ UNCHANGED <<now, gTimeReference, closeOnce, enc, sending, sent, file>>
-----------------------------------------------------------------------------
(* The encoder threads.                                                    *)
SetEnc(e, x) == enc' = [enc EXCEPT ![e] = x]
mainVars == <<now, gTimeReference, mainPc, savedOutputSeconds, savingFrames>>

StartEncoder(e) ==
    /\ enc[e].pc = "start"
    /\ SetEnc(e, [enc[e] EXCEPT !.pc = "wait",
                     !.lNextTriger = gTimeReference + Distance[e],
                     !.lPts = IF e = "audio" THEN gFirstPts - AudioPts ELSE 0])
    /\ UNCHANGED <<mainVars, closeOnce, sending, sent, file>>

(* The end of a turn: the next file, and after the last one the first,     *)
(* a loop later.                                                           *)
MutNextFile(e, x) ==                         \* goes on from the last PTS
    LET last == x.lFrameCounter + 1 = LoopFrames[e]
    IN  [x EXCEPT !.pc = "wait", !.frame = NoFrame, !.no = @ + 1,
                  !.lFrameCounter = (@ + 1) % LoopFrames[e],
                  !.lCurrentOffset = IF last THEN @ + gPtsLoopDuration ELSE @]
NextFile(e, x) ==
    LET last == x.lFrameCounter + 1 = LoopFrames[e]
    IN  [x EXCEPT !.pc = "wait", !.frame = NoFrame, !.no = @ + 1,
                  !.lFrameCounter = (@ + 1) % LoopFrames[e],
                  !.lCurrentOffset = IF last THEN @ + gPtsLoopDuration ELSE @,
                  !.lPts = IF last /\ e = "audio" THEN gFirstPts - AudioPts ELSE @]

Due(e) == enc[e].pc = "wait" /\ now >= enc[e].lNextTriger
AudioFrame(x, pts) ==
    [stream |-> "audio", no |-> x.no, pts |-> pts + x.lCurrentOffset,
     dts |-> pts + x.lCurrentOffset, ra |-> TRUE]
VideoFrame(x, f) ==
    [stream |-> "video", no |-> x.no, pts |-> f.pts + x.lCurrentOffset,
     dts |-> f.dts + x.lCurrentOffset, ra |-> \E r \in Range(f.data) : r.frame \in Idr]

(* The time has come. A file that cannot be opened is passed over.         *)
Files(e) == IF e = "audio" THEN aFiles ELSE vFiles
Trigger(e) ==
    LET x == [enc[e] EXCEPT !.lNextTriger = @ + Distance[e]]
        n == x.lFrameCounter + 1
        lPts == IF e = "audio" THEN x.lPts + AudioPts ELSE vFiles[n].pts
    IN  /\ Due(e)
        /\ SetEnc(e, IF n \notin DOMAIN Files(e) THEN NextFile(e, x)
                     ELSE [x EXCEPT !.pc = "encode", !.lPts = lPts,
                              !.frame = IF e = "audio" THEN AudioFrame(x, lPts)
                                        ELSE VideoFrame(x, vFiles[n])])
        /\ UNCHANGED <<mainVars, closeOnce, sending, sent, file>>

(* encode: the mutex of the multiplexer, then muxOutput.                   *)
Encode(e) ==
    /\ enc[e].pc = "encode"
    /\ sending = Idle
    /\ sending' = [by |-> e, left |-> Packets[e]]
    /\ SetEnc(e, [enc[e] EXCEPT !.pc = "send"])
    /\ UNCHANGED <<mainVars, closeOnce, sent, file>>

(* One packet sent, and recorded unless the recording is over.             *)
muxOutput(e) ==
    LET packet == [frame |-> enc[e].frame, left |-> sending.left]
    IN  /\ sending.by = e /\ sending.left > 0
        /\ sending' = [sending EXCEPT !.left = @ - 1]
        /\ sent' = Append(sent, packet)
        /\ file' = IF savingFrames THEN Append(file, packet) ELSE file
        /\ closeOnce' = (closeOnce \/ ~savingFrames)
        /\ UNCHANGED <<mainVars, enc>>

Encoded(e) ==
    /\ sending = [by |-> e, left |-> 0]
    /\ sending' = Idle
    /\ SetEnc(e, NextFile(e, enc[e]))
    /\ UNCHANGED <<mainVars, closeOnce, sent, file>>

Tick ==
    /\ now < MaxNow
    /\ now' = now + 1
    /\ UNCHANGED <<gTimeReference, mainPc, savedOutputSeconds, savingFrames, closeOnce,
                   enc, sending, sent, file>>

MxNext ==
    \/ StartThreads \/ MainAdvance \/ MainCompensate \/ MainSecond \/ Tick
    \/ \E e \in Encoders : StartEncoder(e) \/ Trigger(e) \/ Encode(e) \/ muxOutput(e) \/ Encoded(e)
-----------------------------------------------------------------------------
(***************************************************************************)
(* The recording is what was sent, from the first packet to the one before *)
(* which the output callback first saw savingFrames go: no hole, nothing   *)
(* after the file is closed, whenever the flag is written.                 *)
(***************************************************************************)
RecordingIsPrefix ==
    /\ IsPrefix(file, sent)
    /\ ~closeOnce => file = sent
    /\ closeOnce => ~savingFrames

(***************************************************************************)
(* The recording is not stopped before SAVED_TS_NUM_SECONDS have passed    *)
(* (one more, in fact), even when the main thread is overloaded and moves  *)
(* its reference.                                                          *)
(***************************************************************************)
RecordsLongEnough ==
    ~savingFrames => now >= (SAVED_TS_NUM_SECONDS + 1) * SECOND_SLEEP

(***************************************************************************)
(* Audio and video start each loop of the files with the same PTS,         *)
(* whatever time reference each thread has caught, however late it is and  *)
(* however many audio files were missing in the loops before.              *)
(***************************************************************************)
LoopOf(f)     == f.no \div LoopFrames[f.stream]
LoopStarts    == {sent[i].frame : i \in {j \in DOMAIN sent :
                                           sent[j].frame.no % LoopFrames[sent[j].frame.stream] = 0}}
LoopsInStep == \A f, g \in LoopStarts : LoopOf(f) = LoopOf(g) => f.pts = g.pts

(***************************************************************************)
(* In what is sent the DTS of a stream increase from frame to frame, over  *)
(* the end of a loop too, and packets of a frame are not torn apart. (The  *)
(* PTS of video goes back at every B frame: files are in decoding order.)  *)
(***************************************************************************)
DtsIncreasing ==
    \A i, j \in DOMAIN sent :
        LET f == sent[i].frame
            g == sent[j].frame
        IN  i < j /\ f.stream = g.stream /\ f # g => f.dts < g.dts
=============================================================================
