--------------------------- MODULE ExamplesProofs ---------------------------
(***************************************************************************)
(* Proofs about the recording of main_mx, for every bars.ts, every number  *)
(* of files and packets and every pace of the threads.                     *)
(***************************************************************************)
EXTENDS Examples, TLAPS

(***************************************************************************)
(* Once closed the file is not written again, as savingFrames stays FALSE; *)
(* before, it is all that was sent.                                        *)
(***************************************************************************)
RecordingInv ==
    /\ \E S : sent \in Seq(S) /\ file \in Seq(S)
    /\ IsPrefix(file, sent)
    /\ savingFrames \in BOOLEAN
    /\ ~closeOnce => file = sent
    /\ closeOnce => ~savingFrames

(* Prefixes.                                                               *)
LEMMA PrefixOfItself ==
    ASSUME NEW S, NEW s \in Seq(S)
    PROVE  IsPrefix(s, s)
BY DEF IsPrefix

LEMMA PrefixGrows ==
    ASSUME NEW S, NEW s \in Seq(S), NEW t \in Seq(S), NEW x \in S, IsPrefix(s, t)
    PROVE  IsPrefix(s, Append(t, x))
<1>1. Len(s) <= Len(t) /\ SubSeq(s, 1, Len(s)) = SubSeq(t, 1, Len(s))
  BY DEF IsPrefix
<1>2. SubSeq(Append(t, x), 1, Len(s)) = SubSeq(t, 1, Len(s))
  BY <1>1
<1> QED BY <1>1, <1>2 DEF IsPrefix

LEMMA RecordingStep ==
    ASSUME RecordingInv, [Next]_vars
    PROVE  RecordingInv'
<1>1. PICK S : sent \in Seq(S) /\ file \in Seq(S)
  BY DEF RecordingInv
<1>2. CASE UNCHANGED mxVars
  BY <1>2 DEF RecordingInv, mxVars
<1>3. ASSUME NEW e \in Encoders, muxOutput(e)
      PROVE  RecordingInv'
  <2> DEFINE packet == [frame |-> enc[e].frame, left |-> sending.left]
             T == S \cup {packet}
  <2>1. sent \in Seq(T) /\ file \in Seq(T) /\ packet \in T
    BY <1>1
  <2>2. /\ sent' = Append(sent, packet)
        /\ file' = IF savingFrames THEN Append(file, packet) ELSE file
        /\ closeOnce' = (closeOnce \/ ~savingFrames)
        /\ savingFrames' = savingFrames
    BY <1>3 DEF muxOutput, mainVars
  <2> HIDE DEF packet, T
  <2>3. sent' \in Seq(T) /\ file' \in Seq(T)
    BY <2>1, <2>2
  <2>4. CASE savingFrames
    <3>1. ~closeOnce /\ file = sent
      BY <2>4 DEF RecordingInv
    <3>2. file' = sent' /\ ~closeOnce'
      BY <2>2, <2>4, <3>1
    <3> QED BY <2>2, <2>3, <2>4, <3>2, PrefixOfItself DEF RecordingInv
  <2>5. CASE ~savingFrames
    <3>1. IsPrefix(file', sent')
      BY <2>1, <2>2, <2>5, PrefixGrows DEF RecordingInv
    <3> QED BY <2>2, <2>3, <2>5, <3>1 DEF RecordingInv
  <2> QED BY <2>4, <2>5
<1>4. CASE MainSecond
  BY <1>1, <1>4 DEF MainSecond, RecordingInv
<1>5. ASSUME UNCHANGED <<sent, file, savingFrames, closeOnce>>
      PROVE  RecordingInv'
  BY <1>5 DEF RecordingInv
<1>6. CASE StartThreads \/ MainAdvance \/ MainCompensate \/ Tick
  BY <1>5, <1>6 DEF StartThreads, MainAdvance, MainCompensate, Tick
<1>7. ASSUME NEW e \in Encoders, StartEncoder(e) \/ Trigger(e) \/ Encode(e) \/ Encoded(e)
      PROVE  RecordingInv'
  BY <1>5, <1>7 DEF StartEncoder, Trigger, Encode, Encoded, mainVars
<1> QED BY <1>2, <1>3, <1>4, <1>6, <1>7 DEF Next, Dmx, Mx, MxNext, vars

(***************************************************************************)
(* The recording is a prefix of what was sent, whenever the main thread's  *)
(* write to savingFrames falls.                                            *)
(***************************************************************************)
THEOREM RecordingAlwaysPrefix == Spec => []RecordingIsPrefix
<1>1. Init => RecordingInv
  <2> SUFFICES ASSUME Init PROVE RecordingInv
    OBVIOUS
  <2>1. sent = <<>> /\ file = <<>> /\ savingFrames = TRUE /\ closeOnce = FALSE
    BY DEF Init, MxInit
  <2>2. sent \in Seq({}) /\ file \in Seq({})
    BY <2>1
  <2> QED BY <2>1, <2>2, PrefixOfItself DEF RecordingInv
<1>2. RecordingInv => RecordingIsPrefix
  BY DEF RecordingInv, RecordingIsPrefix
<1> QED BY <1>1, <1>2, RecordingStep, PTL DEF Spec
-----------------------------------------------------------------------------
(***************************************************************************)
(* The reference is a second ahead of the seconds counted while the main   *)
(* thread sleeps, and it is never moved back.                              *)
(***************************************************************************)
TimeInv ==
    /\ now \in Nat /\ gTimeReference \in Nat /\ savedOutputSeconds \in Nat
    /\ mainPc \in {"start", "loop", "check", "sleep"}
    /\ mainPc = "start" => savedOutputSeconds = 0
    /\ mainPc # "start" => gTimeReference >= savedOutputSeconds * SECOND_SLEEP
    /\ mainPc \in {"check", "sleep"} => gTimeReference >= (savedOutputSeconds + 1) * SECOND_SLEEP
    /\ RecordsLongEnough

(* One second more.                                                        *)
LEMMA OneMore ==
    ASSUME NEW n \in Nat, NEW k \in Nat
    PROVE  n * k \in Nat /\ (n + 1) * k = n * k + k
OBVIOUS

LEMMA TimeStep ==
    ASSUME TimeInv, [Next]_vars
    PROVE  TimeInv'
<1> USE MainMxAssumption
<1>1. CASE UNCHANGED <<now, gTimeReference, mainPc, savedOutputSeconds, savingFrames>>
  BY <1>1 DEF TimeInv, RecordsLongEnough
<1>2. CASE StartThreads
  BY <1>2 DEF StartThreads, TimeInv, RecordsLongEnough
<1>3. CASE MainAdvance
  <2>1. /\ now' = now /\ savedOutputSeconds' = savedOutputSeconds /\ savingFrames' = savingFrames
        /\ mainPc = "loop" /\ mainPc' = "check"
        /\ gTimeReference' = gTimeReference + SECOND_SLEEP
    BY <1>3 DEF MainAdvance
  <2>2. /\ gTimeReference' \in Nat /\ gTimeReference' >= savedOutputSeconds * SECOND_SLEEP
        /\ gTimeReference' >= (savedOutputSeconds + 1) * SECOND_SLEEP
    BY <2>1, OneMore DEF TimeInv
  <2> QED BY <2>1, <2>2 DEF TimeInv, RecordsLongEnough
<1>7. CASE MainCompensate
  <2>1. /\ now' = now /\ savedOutputSeconds' = savedOutputSeconds /\ savingFrames' = savingFrames
        /\ mainPc = "check" /\ mainPc' = "sleep"
        /\ gTimeReference' \in Nat /\ gTimeReference' >= gTimeReference
    BY <1>7 DEF MainCompensate, TimeInv
  <2>2. savedOutputSeconds * SECOND_SLEEP \in Nat /\ (savedOutputSeconds + 1) * SECOND_SLEEP \in Nat
    BY OneMore DEF TimeInv
  <2> QED BY <2>1, <2>2 DEF TimeInv, RecordsLongEnough
<1>4. CASE MainSecond
  <2>1. /\ now >= gTimeReference /\ mainPc = "sleep" /\ mainPc' = "loop"
        /\ savedOutputSeconds' = savedOutputSeconds + 1
        /\ savingFrames' = (savingFrames /\ savedOutputSeconds # SAVED_TS_NUM_SECONDS)
        /\ now' = now /\ gTimeReference' = gTimeReference
    BY <1>4 DEF MainSecond
  <2>2. gTimeReference >= (savedOutputSeconds + 1) * SECOND_SLEEP
    BY <2>1 DEF TimeInv
  <2>3. RecordsLongEnough'
    <3>1. CASE savedOutputSeconds = SAVED_TS_NUM_SECONDS
      <4>1. (SAVED_TS_NUM_SECONDS + 1) * SECOND_SLEEP \in Nat
        BY OneMore
      <4> QED BY <2>1, <2>2, <3>1, <4>1 DEF RecordsLongEnough, TimeInv
    <3>2. CASE savedOutputSeconds # SAVED_TS_NUM_SECONDS
      BY <2>1, <3>2 DEF RecordsLongEnough, TimeInv
    <3> QED BY <3>1, <3>2
  <2> QED BY <2>1, <2>2, <2>3 DEF TimeInv
<1>5. CASE Tick
  <2>1. (SAVED_TS_NUM_SECONDS + 1) * SECOND_SLEEP \in Nat
    BY OneMore
  <2> QED BY <1>5, <2>1 DEF Tick, TimeInv, RecordsLongEnough
<1>6. ASSUME NEW e \in Encoders,
             StartEncoder(e) \/ Trigger(e) \/ Encode(e) \/ muxOutput(e) \/ Encoded(e)
      PROVE  TimeInv'
  BY <1>1, <1>6 DEF StartEncoder, Trigger, Encode, muxOutput, Encoded, mainVars
<1> QED BY <1>1, <1>2, <1>3, <1>4, <1>5, <1>6, <1>7 DEF Next, Dmx, Mx, MxNext, vars, mxVars

(***************************************************************************)
(* The recording is never stopped early, however overloaded the machine is.*)
(***************************************************************************)
THEOREM AlwaysRecordsLongEnough == Spec => []RecordsLongEnough
<1>1. Init => TimeInv
  BY MainMxAssumption DEF Init, MxInit, TimeInv, RecordsLongEnough
<1>2. TimeInv => RecordsLongEnough
  BY DEF TimeInv
<1> QED BY <1>1, <1>2, TimeStep, PTL DEF Spec
-----------------------------------------------------------------------------
(* The PTS of a file is a number: main_dmx prints that of a frame, which   *)
(* is one by DemuxerTypeCorrect.                                           *)
FilesTyped ==
    \E S : vFiles \in Seq(S) /\ \A f \in S : f.pts \in Int

(* An encoder's count of turns splits into loops and the file of the loop, *)
(* its offset is that many durations, and the first frame of a loop has    *)
(* the first PTS and that offset.                                          *)
EncoderInv(e, x) ==
    /\ x.lFrameCounter \in 0 .. LoopFrames[e] - 1
    /\ \E k \in Nat : /\ x.no = k * LoopFrames[e] + x.lFrameCounter
                      /\ x.lCurrentOffset = k * gPtsLoopDuration
    /\ e = "audio" /\ x.pc = "wait" /\ x.lFrameCounter = 0 => x.lPts = gFirstPts - AudioPts
    /\ x.pc \in {"encode", "send"} =>
         /\ x.frame.stream = e /\ x.frame.no = x.no
         /\ x.lFrameCounter = 0 => x.frame.pts = gFirstPts + x.lCurrentOffset
FrameInv(f) ==
    /\ f.stream \in Encoders
    /\ f.no % LoopFrames[f.stream] = 0 => f.pts = gFirstPts + LoopOf(f) * gPtsLoopDuration
Started ==
    /\ eof /\ Len(vFiles) > LoopFrames["video"]
    /\ \A e \in Encoders : EncoderInv(e, enc[e])
    /\ \A i \in DOMAIN sent : FrameInv(sent[i].frame)
EncoderState(frames) ==
    [pc : {"none", "start", "wait", "encode", "send"}, lNextTriger : Int, lFrameCounter : Int,
     lPts : Int, lCurrentOffset : Int, frame : frames, no : Nat]
EncodersTyped == \E frames : enc \in [Encoders -> EncoderState(frames)]
LoopInv ==
    /\ \E S : sent \in Seq(S)
    /\ EncodersTyped
    /\ \A e \in Encoders : sending.by = e => enc[e].pc = "send"
    /\ \/ /\ mainPc = "start" /\ sent = <<>>
          /\ \A e \in Encoders : /\ enc[e].pc = "none" /\ enc[e].no = 0
                                 /\ enc[e].lFrameCounter = 0 /\ enc[e].lCurrentOffset = 0
       \/ mainPc # "start" /\ Started

(* Turns split into loops and files in one way only.                       *)
LEMMA LoopNumber ==
    ASSUME NEW L \in Nat \ {0}, NEW k \in Nat, NEW c \in 0 .. L - 1
    PROVE  (k * L + c) \div L = k /\ (k * L + c) % L = c
OBVIOUS

(* The counter of files goes up, and back to 0 after the last.             *)
LEMMA NextCount ==
    ASSUME NEW L \in Nat \ {0}, NEW c \in 0 .. L - 1
    PROVE  IF c + 1 = L THEN (c + 1) % L = 0 ELSE (c + 1) % L = c + 1 /\ c + 1 \in 0 .. L - 1
<1>1. CASE c + 1 = L
  BY <1>1, LoopNumber, L = 1 * L + 0
<1>2. CASE c + 1 # L
  <2>1. c + 1 \in 0 .. L - 1 /\ c + 1 = 0 * L + (c + 1)
    BY <1>2
  <2> QED BY <1>2, <2>1, LoopNumber
<1> QED BY <1>1, <1>2

(* What main_mx reads from the files are numbers once they are there.      *)
LEMMA FilesOfALoop ==
    ASSUME FilesTyped, Len(vFiles) > LoopFrames["video"]
    PROVE  /\ gFirstPts \in Int /\ gPtsLoopDuration \in Int
           /\ \A n \in 1 .. LoopFrames["video"] : vFiles[n].pts \in Int
<1>1. PICK S : vFiles \in Seq(S) /\ \A f \in S : f.pts \in Int
  BY DEF FilesTyped
<1>2. LoopFrames["video"] \in Nat \ {0}
  BY MainMxAssumption DEF Encoders
<1>3. \A n \in 1 .. LoopFrames["video"] + 1 : vFiles[n] \in S
  BY <1>1, <1>2
<1> QED BY <1>1, <1>2, <1>3 DEF gFirstPts, gPtsLoopDuration

(* The end of a turn.                                                      *)
LEMMA NextFileInv ==
    ASSUME NEW e \in Encoders, NEW x, NEW frames, x \in EncoderState(frames),
           gFirstPts \in Int, gPtsLoopDuration \in Int,
           EncoderInv(e, x)
    PROVE  LET y == NextFile(e, x)
           IN  y.pc = "wait" /\ y \in EncoderState(frames \cup {NoFrame}) /\ EncoderInv(e, y)
<1> DEFINE y == NextFile(e, x)
           L == LoopFrames[e]
<1>0. PICK k \in Nat : x.no = k * LoopFrames[e] + x.lFrameCounter
                       /\ x.lCurrentOffset = k * gPtsLoopDuration
  BY DEF EncoderInv
<1>5. x.lFrameCounter \in 0 .. L - 1
  BY DEF EncoderInv
<1>1. L \in Nat \ {0} /\ AudioPts \in Nat
  BY MainMxAssumption
<1>2. /\ x.lFrameCounter \in Int /\ x.no \in Nat /\ x.lPts \in Int /\ x.lCurrentOffset \in Int
      /\ x.frame \in frames /\ x.lNextTriger \in Int
  BY DEF EncoderState
<1>3. CASE x.lFrameCounter + 1 = L
  <2>1. (x.lFrameCounter + 1) % L = 0
    BY <1>1, <1>3, <1>5, NextCount
  <2>2. y = [x EXCEPT !.pc = "wait", !.frame = NoFrame, !.no = @ + 1, !.lFrameCounter = 0,
                      !.lCurrentOffset = x.lCurrentOffset + gPtsLoopDuration,
                      !.lPts = IF e = "audio" THEN gFirstPts - AudioPts ELSE @]
    BY <1>3, <2>1 DEF NextFile
  <2> HIDE DEF y
  <2>3. /\ y.pc = "wait" /\ y.no = x.no + 1 /\ y.lFrameCounter = 0
        /\ y.lCurrentOffset = x.lCurrentOffset + gPtsLoopDuration
        /\ e = "audio" => y.lPts = gFirstPts - AudioPts
    BY <1>1, <1>2, <2>2 DEF EncoderState
  <2>6. y \in EncoderState(frames \cup {NoFrame})
    <3>1. y = [pc |-> "wait", lNextTriger |-> x.lNextTriger, lFrameCounter |-> 0,
               lPts |-> IF e = "audio" THEN gFirstPts - AudioPts ELSE x.lPts,
               lCurrentOffset |-> x.lCurrentOffset + gPtsLoopDuration, frame |-> NoFrame, no |-> x.no + 1]
      BY <2>2 DEF EncoderState
    <3>2. gFirstPts - AudioPts \in Int
      BY <1>1
    <3> QED BY <1>2, <3>1, <3>2 DEF EncoderState
  <2> HIDE DEF L
  <2>4. k + 1 \in Nat /\ (k + 1) * L = k * L + L
        /\ (k + 1) * gPtsLoopDuration = k * gPtsLoopDuration + gPtsLoopDuration
    BY <1>1
  <2>5. y.no = (k + 1) * L + y.lFrameCounter
    BY <1>0, <1>1, <1>2, <1>3, <2>3, <2>4 DEF L
  <2>7. y.lCurrentOffset = (k + 1) * gPtsLoopDuration
    BY <1>0, <2>3, <2>4
  <2>8. 0 \in 0 .. L - 1
    BY <1>1 DEF L
  <2> QED BY <2>3, <2>4, <2>5, <2>6, <2>7, <2>8 DEF y, L, EncoderInv
<1>4. CASE x.lFrameCounter + 1 # L
  <2>1. (x.lFrameCounter + 1) % L = x.lFrameCounter + 1 /\ x.lFrameCounter + 1 \in 0 .. L - 1
    BY <1>1, <1>4, <1>5, NextCount
  <2>2. y = [x EXCEPT !.pc = "wait", !.frame = NoFrame, !.no = @ + 1,
                      !.lFrameCounter = x.lFrameCounter + 1]
    BY <1>2, <1>4, <2>1 DEF NextFile, EncoderState
  <2> HIDE DEF y
  <2>3. /\ y.pc = "wait" /\ y.no = x.no + 1 /\ y.lFrameCounter = x.lFrameCounter + 1
        /\ y.lCurrentOffset = x.lCurrentOffset
    BY <1>1, <1>2, <2>2 DEF EncoderState
  <2>6. y \in EncoderState(frames \cup {NoFrame})
    <3>1. y = [pc |-> "wait", lNextTriger |-> x.lNextTriger, lFrameCounter |-> x.lFrameCounter + 1,
               lPts |-> x.lPts,
               lCurrentOffset |-> x.lCurrentOffset, frame |-> NoFrame, no |-> x.no + 1]
      BY <2>2 DEF EncoderState
    <3> QED BY <1>2, <3>1 DEF EncoderState
  <2> HIDE DEF L
  <2>4. k * L \in Int
    BY <1>1
  <2>5. y.no = k * L + y.lFrameCounter /\ y.lFrameCounter \in 0 .. L - 1 /\ y.lFrameCounter # 0
    BY <1>0, <1>1, <1>2, <1>4, <1>5, <2>1, <2>3, <2>4 DEF L
  <2> QED BY <1>0, <2>3, <2>5, <2>6 DEF y, L, EncoderInv
<1> QED BY <1>3, <1>4

(* A step of encoder e to y, with nothing sent.                            *)
LEMMA EncoderStep ==
    ASSUME LoopInv, Started, NEW e \in Encoders, NEW frames, enc \in [Encoders -> EncoderState(frames)],
           NEW more, NEW y \in EncoderState(frames \cup more), EncoderInv(e, y),
           enc' = [enc EXCEPT ![e] = y],
           \A f \in Encoders : sending'.by = f => enc'[f].pc = "send",
           vFiles' = vFiles, eof' = eof, sent' = sent, mainPc' = mainPc, mainPc # "start"
    PROVE  LoopInv'
<1>1. enc \in [Encoders -> EncoderState(frames \cup more)]
  <2>1. EncoderState(frames) \subseteq EncoderState(frames \cup more)
    BY DEF EncoderState
  <2> QED BY <2>1
<1>2. enc' \in [Encoders -> EncoderState(frames \cup more)]
  BY <1>1
<1>3. EncodersTyped'
  BY <1>2 DEF EncodersTyped, EncoderState
<1>4. gFirstPts' = gFirstPts /\ gPtsLoopDuration' = gPtsLoopDuration
  BY DEF gFirstPts, gPtsLoopDuration
<1>5. \A f \in Encoders : EncoderInv(f, enc'[f])
  BY DEF Started
<1>6. Started'
  BY <1>4, <1>5 DEF Started, EncoderInv, FrameInv, LoopOf
<1> QED BY <1>3, <1>6 DEF LoopInv

(* Every step of the two programs keeps the loops in step.                 *)
LEMMA LoopStep ==
    ASSUME LoopInv, FilesTyped, TimeInv, [Next]_vars
    PROVE  LoopInv'
<1>1. CASE UNCHANGED mxVars /\ (UNCHANGED dmxVars \/ ReadPacket)
  <2>1. UNCHANGED <<sent, enc, sending, mainPc>>
    BY <1>1 DEF mxVars
  <2>2. CASE mainPc = "start"
    BY <2>1, <2>2 DEF LoopInv, EncodersTyped, EncoderState
  <2>3. CASE mainPc # "start"
    <3>1. Started /\ ~ReadPacket
      BY <2>3 DEF LoopInv, Started, ReadPacket
    <3>2. vFiles' = vFiles /\ eof' = eof
      BY <1>1, <3>1 DEF dmxVars
    <3>3. Started'
      BY <2>1, <3>1, <3>2 DEF Started, EncoderInv, FrameInv, LoopOf, gFirstPts, gPtsLoopDuration
    <3> QED BY <2>1, <2>3, <3>3 DEF LoopInv, EncodersTyped, EncoderState
  <2> QED BY <2>2, <2>3
<1>2. ASSUME eof, Len(vFiles) > LoopFrames["video"], UNCHANGED dmxVars, MxNext
      PROVE  LoopInv'
  <2> DEFINE D == gPtsLoopDuration
             F == gFirstPts
  <2>1. /\ F \in Int /\ D \in Int
        /\ \A n \in 1 .. LoopFrames["video"] : vFiles[n].pts \in Int
    BY <1>2, FilesOfALoop
  <2>2. vFiles' = vFiles /\ eof' = eof /\ F' = F /\ D' = D
    BY <1>2 DEF dmxVars, gFirstPts, gPtsLoopDuration
  <2>3. PICK frames : enc \in [Encoders -> EncoderState(frames)]
    BY DEF LoopInv, EncodersTyped
  <2> HIDE DEF D, F
  <2>4. CASE StartThreads
    <3>1. enc' = [e \in Encoders |-> [enc[e] EXCEPT !.pc = "start"]]
      BY <2>4 DEF StartThreads
    <3>2. /\ sent = <<>> /\ sent' = sent /\ mainPc' # "start" /\ sending' = sending
          /\ \A e \in Encoders : /\ enc[e].pc = "none" /\ enc[e].no = 0
                                 /\ enc[e].lFrameCounter = 0 /\ enc[e].lCurrentOffset = 0
      BY <2>4 DEF StartThreads, LoopInv
    <3>3. ASSUME NEW e \in Encoders
          PROVE  EncoderInv(e, enc'[e]) /\ enc'[e] \in EncoderState(frames)
      <4>1. LoopFrames[e] \in Nat \ {0}
        BY MainMxAssumption
      <4>2. enc[e] \in EncoderState(frames)
        BY <2>3
      <4>3. /\ enc'[e].pc = "start" /\ enc'[e].no = 0
            /\ enc'[e].lFrameCounter = 0 /\ enc'[e].lCurrentOffset = 0
            /\ enc'[e] \in EncoderState(frames)
        BY <3>1, <3>2, <4>2 DEF EncoderState
      <4>4. 0 = 0 * LoopFrames[e] + 0 /\ 0 = 0 * gPtsLoopDuration /\ 0 \in 0 .. LoopFrames[e] - 1
        BY <2>1, <4>1 DEF D
      <4> QED BY <4>3, <4>4 DEF EncoderInv
    <3>4. Started'
      BY <1>2, <2>2, <3>2, <3>3 DEF Started, EncoderInv, F, D
    <3>5. \A e \in Encoders : sending'.by # e
      BY <3>2 DEF LoopInv
    <3>6. EncodersTyped'
      BY <3>1, <3>3 DEF EncodersTyped, EncoderState
    <3> QED BY <3>2, <3>4, <3>5, <3>6 DEF LoopInv
  <2>5. CASE MainAdvance \/ MainCompensate \/ MainSecond \/ Tick
    <3>1. /\ UNCHANGED <<sent, enc, sending>>
          /\ mainPc = "start" <=> mainPc' = "start"
      BY <2>5 DEF MainAdvance, MainCompensate, MainSecond, Tick
    <3>2. CASE mainPc = "start"
      BY <3>1, <3>2 DEF LoopInv, EncodersTyped, EncoderState
    <3>3. CASE mainPc # "start"
      <4>1. Started'
        BY <2>2, <3>1, <3>3 DEF LoopInv, Started, EncoderInv, FrameInv, LoopOf, F, D
      <4> QED BY <3>1, <3>3, <4>1 DEF LoopInv, EncodersTyped, EncoderState
    <3> QED BY <3>2, <3>3
  <2>6. ASSUME NEW e \in Encoders,
               StartEncoder(e) \/ Trigger(e) \/ Encode(e) \/ muxOutput(e) \/ Encoded(e)
        PROVE  LoopInv'
    <3>1. mainPc # "start" /\ Started /\ mainPc' = mainPc
      <4>1. enc[e].pc # "none"
        BY <2>6 DEF StartEncoder, Trigger, Due, Encode, muxOutput, Encoded, LoopInv
      <4>2. mainPc' = mainPc
        BY <2>6 DEF StartEncoder, Trigger, Encode, muxOutput, Encoded, mainVars
      <4> QED BY <4>1, <4>2 DEF LoopInv
    <3>2. enc[e] \in EncoderState(frames) /\ EncoderInv(e, enc[e])
      BY <2>3, <3>1 DEF Started
    <3>3. AudioPts \in Nat /\ Distance[e] \in Nat /\ LoopFrames[e] \in Nat \ {0}
      BY MainMxAssumption
    <3>4. CASE StartEncoder(e)
      <4> DEFINE t == gTimeReference + Distance[e]
                 p == IF e = "audio" THEN gFirstPts - AudioPts ELSE 0
                 y == [enc[e] EXCEPT !.pc = "wait", !.lNextTriger = t, !.lPts = p]
      <4>1. /\ enc[e].pc = "start" /\ enc' = [enc EXCEPT ![e] = y]
            /\ sending' = sending /\ sent' = sent
        BY <3>4 DEF StartEncoder, SetEnc
      <4>2. t \in Int /\ p \in Int /\ (e = "audio" => p = gFirstPts - AudioPts)
        BY <2>1, <3>3 DEF TimeInv, F
      <4> HIDE DEF t, p
      <4>3. y \in EncoderState(frames)
        BY <3>2, <4>2 DEF EncoderState
      <4>4. /\ y.pc = "wait" /\ y.lFrameCounter = enc[e].lFrameCounter /\ y.no = enc[e].no
            /\ y.lCurrentOffset = enc[e].lCurrentOffset
            /\ e = "audio" => y.lPts = gFirstPts - AudioPts
        BY <3>2, <4>2 DEF EncoderState
      <4> HIDE DEF y
      <4>5. EncoderInv(e, y)
        BY <3>2, <4>4 DEF EncoderInv
      <4>6. \A f \in Encoders : sending'.by = f => enc'[f].pc = "send"
        BY <2>3, <4>1 DEF LoopInv
      <4> QED BY <2>2, <2>3, <3>1, <4>1, <4>3, <4>5, <4>6, EncoderStep, frames = frames \cup {}
    <3>5. CASE Trigger(e)
      <4> DEFINE x == [enc[e] EXCEPT !.lNextTriger = @ + Distance[e]]
                 n == x.lFrameCounter + 1
                 lPts == IF e = "audio" THEN x.lPts + AudioPts ELSE vFiles[n].pts
                 frame == IF e = "audio" THEN AudioFrame(x, lPts) ELSE VideoFrame(x, vFiles[n])
                 z == [x EXCEPT !.pc = "encode", !.lPts = lPts, !.frame = frame]
                 y == IF n \notin DOMAIN Files(e) THEN NextFile(e, x) ELSE z
      <4>1. /\ enc[e].pc = "wait" /\ enc' = [enc EXCEPT ![e] = y]
            /\ sending' = sending /\ sent' = sent
        BY <3>5 DEF Trigger, Due, SetEnc
      <4>2. /\ x.pc = "wait" /\ x.lFrameCounter = enc[e].lFrameCounter /\ x.no = enc[e].no
            /\ x.lCurrentOffset = enc[e].lCurrentOffset /\ x.lPts = enc[e].lPts
            /\ x \in EncoderState(frames)
        BY <3>2, <3>3, <4>1 DEF EncoderState
      <4>3. \A f \in Encoders : sending'.by = f => enc'[f].pc = "send"
        BY <2>3, <4>1 DEF LoopInv
      <4> HIDE DEF x
      <4>4. EncoderInv(e, x)
        BY <3>2, <4>1, <4>2 DEF EncoderInv
      <4>5. CASE n \notin DOMAIN Files(e)
        <5>1. y = NextFile(e, x)
          BY <4>5
        <5> HIDE DEF y
        <5>2. y \in EncoderState(frames \cup {NoFrame}) /\ EncoderInv(e, y)
          BY <2>1, <4>2, <4>4, <5>1, NextFileInv DEF F, D
        <5> QED BY <2>2, <2>3, <3>1, <4>1, <4>3, <5>2, EncoderStep
      <4>6. CASE n \in DOMAIN Files(e)
        <5>1. x.lFrameCounter \in 0 .. LoopFrames[e] - 1 /\ n \in 1 .. LoopFrames[e]
          BY <3>3, <4>4 DEF EncoderInv
        <5>2. lPts \in Int
          BY <2>1, <3>3, <4>2, <5>1 DEF EncoderState, Encoders
        <5>3. x.lCurrentOffset \in Int /\ x.lPts \in Int
          BY <4>2 DEF EncoderState
        <5>4. frame.stream = e /\ frame.no = x.no /\ frame.pts = lPts + x.lCurrentOffset
          BY DEF AudioFrame, VideoFrame, Encoders
        <5>5. x.lFrameCounter = 0 => lPts = gFirstPts
          BY <2>1, <3>3, <4>2, <4>4, <5>3 DEF EncoderInv, F, gFirstPts
        <5>6. y = z
          BY <4>6
        <5> HIDE DEF lPts, frame, n
        <5>7. /\ z.pc = "encode" /\ z.frame = frame /\ z.no = x.no
              /\ z.lFrameCounter = x.lFrameCounter /\ z.lCurrentOffset = x.lCurrentOffset
          BY <4>2 DEF EncoderState
        <5>8. z \in EncoderState(frames \cup {frame})
          BY <4>2, <5>2 DEF EncoderState
        <5> HIDE DEF z, y
        <5>9. EncoderInv(e, y)
          BY <4>4, <5>4, <5>5, <5>6, <5>7 DEF EncoderInv
        <5> QED BY <2>2, <2>3, <3>1, <4>1, <4>3, <5>6, <5>8, <5>9, EncoderStep
      <4> QED BY <4>5, <4>6
    <3>6. CASE Encode(e)
      <4> DEFINE y == [enc[e] EXCEPT !.pc = "send"]
      <4>1. /\ enc[e].pc = "encode" /\ enc' = [enc EXCEPT ![e] = y]
            /\ sending'.by = e /\ sent' = sent
        BY <3>6 DEF Encode, SetEnc
      <4>2. /\ y.pc = "send" /\ y.frame = enc[e].frame /\ y.no = enc[e].no
            /\ y.lFrameCounter = enc[e].lFrameCounter
            /\ y.lCurrentOffset = enc[e].lCurrentOffset /\ y \in EncoderState(frames)
        BY <3>2 DEF EncoderState
      <4> HIDE DEF y
      <4>3. EncoderInv(e, y)
        BY <3>2, <4>1, <4>2 DEF EncoderInv
      <4>4. \A f \in Encoders : sending'.by = f => enc'[f].pc = "send"
        BY <2>3, <4>1, <4>2
      <4> QED BY <2>2, <2>3, <3>1, <4>1, <4>2, <4>3, <4>4, EncoderStep, frames = frames \cup {}
    <3>7. CASE muxOutput(e)
      <4> DEFINE packet == [frame |-> enc[e].frame, left |-> sending.left]
      <4>1. /\ sending.by = e /\ sending' = [sending EXCEPT !.left = @ - 1]
            /\ sent' = Append(sent, packet) /\ enc' = enc
        BY <3>7 DEF muxOutput
      <4>2. enc[e].pc = "send"
        BY <4>1 DEF LoopInv
      <4>3. FrameInv(enc[e].frame)
        <5>1. PICK k \in Nat : /\ enc[e].no = k * LoopFrames[e] + enc[e].lFrameCounter
                               /\ enc[e].lCurrentOffset = k * gPtsLoopDuration
          BY <3>2 DEF EncoderInv
        <5>2. enc[e].lFrameCounter \in 0 .. LoopFrames[e] - 1
          BY <3>2 DEF EncoderInv
        <5> DEFINE L == LoopFrames[e]
                   c == enc[e].lFrameCounter
        <5>3. L \in Nat \ {0} /\ c \in 0 .. L - 1 /\ enc[e].no = k * L + c
          BY <3>3, <5>1, <5>2
        <5> HIDE DEF L, c
        <5>4. enc[e].no % L = c /\ enc[e].no \div L = k
          BY <5>3, LoopNumber
        <5> QED BY <3>2, <4>2, <5>1, <5>4 DEF EncoderInv, FrameInv, LoopOf, L, c
      <4>4. PICK S : sent \in Seq(S)
        BY DEF LoopInv
      <4> HIDE DEF packet
      <4>5. sent \in Seq(S \cup {packet}) /\ packet \in S \cup {packet}
        BY <4>4
      <4>6. sent' \in Seq(S \cup {packet})
        BY <4>1, <4>5
      <4>7. \A i \in DOMAIN sent' : sent'[i] = packet \/ (i \in DOMAIN sent /\ sent'[i] = sent[i])
        <5>1. /\ DOMAIN sent' = 1 .. Len(sent) + 1 /\ DOMAIN sent = 1 .. Len(sent)
              /\ Len(sent) \in Nat
          BY <4>1, <4>5, <4>6
        <5>2. \A i \in 1 .. Len(sent) + 1 :
                 sent'[i] = IF i = Len(sent) + 1 THEN packet ELSE sent[i]
          BY <4>1, <4>5
        <5> SUFFICES ASSUME NEW i \in DOMAIN sent'
                     PROVE  sent'[i] = packet \/ (i \in DOMAIN sent /\ sent'[i] = sent[i])
          OBVIOUS
        <5>3. i \in 1 .. Len(sent) + 1
          BY <5>1
        <5>4. CASE i = Len(sent) + 1
          BY <5>2, <5>3, <5>4
        <5>5. CASE i # Len(sent) + 1
          BY <5>1, <5>2, <5>3, <5>5
        <5> QED BY <5>4, <5>5
      <4>8. \A i \in DOMAIN sent' : FrameInv(sent'[i].frame)
        BY <3>1, <4>3, <4>7 DEF Started, packet
      <4>9. Started'
        BY <2>2, <3>1, <4>1, <4>8 DEF Started, EncoderInv, FrameInv, LoopOf, F, D
      <4>10. \A f \in Encoders : sending'.by = f => enc'[f].pc = "send"
        BY <4>1 DEF LoopInv
      <4> QED BY <3>1, <4>1, <4>6, <4>9, <4>10 DEF LoopInv, EncodersTyped, EncoderState
    <3>8. CASE Encoded(e)
      <4>1. enc' = [enc EXCEPT ![e] = NextFile(e, enc[e])] /\ sending'.by = "none" /\ sent' = sent
        BY <3>8 DEF Encoded, SetEnc, Idle
      <4>2. NextFile(e, enc[e]) \in EncoderState(frames \cup {NoFrame}) /\ EncoderInv(e, NextFile(e, enc[e]))
        BY <2>1, <3>2, NextFileInv DEF F, D
      <4>3. \A f \in Encoders : sending'.by = f => enc'[f].pc = "send"
        BY <4>1 DEF Encoders
      <4> QED BY <2>2, <2>3, <3>1, <4>1, <4>2, <4>3, EncoderStep
    <3> QED BY <2>6, <3>4, <3>5, <3>6, <3>7, <3>8
  <2> QED BY <1>2, <2>4, <2>5, <2>6 DEF MxNext
<1> QED BY <1>1, <1>2 DEF Next, Dmx, Mx, vars

(* No thread runs and nothing is sent at first.                            *)
LEMMA InitLoops ==
    ASSUME Init
    PROVE  LoopInv /\ TimeInv
<1>1. TimeInv
  BY MainMxAssumption DEF Init, MxInit, TimeInv, RecordsLongEnough
<1>2. /\ mainPc = "start" /\ sent = <<>> /\ sending.by = "none"
      /\ \A e \in Encoders : /\ enc[e].pc = "none" /\ enc[e].no = 0
                             /\ enc[e].lFrameCounter = 0 /\ enc[e].lCurrentOffset = 0
      /\ enc \in [Encoders -> EncoderState({NoFrame})]
  BY DEF Init, MxInit, Idle, EncoderState
<1>3. sent \in Seq({})
  BY <1>2
<1> QED BY <1>1, <1>2, <1>3 DEF LoopInv, EncodersTyped, Encoders

(***************************************************************************)
(* Whatever files the programs work on, in whatever way the threads share  *)
(* the time reference, audio and video start each loop with the same PTS.  *)
(***************************************************************************)
THEOREM LoopsAlwaysInStep == Spec /\ []FilesTyped => []LoopsInStep
<1>1. LoopInv => LoopsInStep
  <2> SUFFICES ASSUME LoopInv PROVE LoopsInStep
    OBVIOUS
  <2>1. \A i \in DOMAIN sent : FrameInv(sent[i].frame)
    BY DEF LoopInv, Started
  <2> QED BY <2>1 DEF LoopsInStep, LoopStarts, FrameInv
<1>2. LoopInv /\ TimeInv /\ FilesTyped /\ [Next]_vars => LoopInv' /\ TimeInv'
  BY LoopStep, TimeStep
<1> QED BY <1>1, <1>2, InitLoops, PTL DEF Spec
-----------------------------------------------------------------------------
(***************************************************************************)
(* What the files of main_dmx must be for main_mx to send increasing DTS:  *)
(* the video frames of a loop are in order of their DTS, the last one less *)
(* than a loop after the first, and the audio of a loop is no longer than  *)
(* the video. PTS may be in any order, as the B frames of bars.ts want it. *)
(* The files of bars.ts are that: frames come in decoding order, 1200 of   *)
(* 1800 each make a loop of 25 groups of 48 (generate_bars.sh has closed   *)
(* groups of that length), so that file 1201 is a first frame of a group   *)
(* as file 1 is and a loop takes 1200 steps of DTS as it does of PTS; and  *)
(* the last of 1125 audio frames of 1920 begins one step before its end.   *)
(***************************************************************************)
FilesInOrder ==
    /\ FilesTyped
    /\ Len(vFiles) > LoopFrames["video"] =>
         /\ \A n \in 1 .. LoopFrames["video"] : vFiles[n].dts \in Int
         /\ \A n \in 1 .. LoopFrames["video"] - 1 : vFiles[n].dts < vFiles[n + 1].dts
         /\ vFiles[LoopFrames["video"]].dts < vFiles[1].dts + gPtsLoopDuration
         /\ (LoopFrames["audio"] - 1) * AudioPts < gPtsLoopDuration

(* The DTS of the frame an encoder has, or else that of the next file if   *)
(* it is there. Missing audio files cost no time, so that it may be early. *)
Coming(e, x) ==
    x.lCurrentOffset + (IF e = "video" THEN vFiles[x.lFrameCounter + 1].dts
                        ELSE IF x.pc = "wait" THEN x.lPts + AudioPts ELSE x.lPts)
NotLate(e, x) ==
    e = "audio" => Coming(e, x) <= gFirstPts + x.lCurrentOffset + x.lFrameCounter * AudioPts
(* All an encoder has sent has an earlier DTS, but for the frame at hand.  *)
SentBefore(e, x) ==
    \A i \in DOMAIN sent : sent[i].frame.stream = e =>
        /\ sent[i].frame.dts \in Int
        /\ sent[i].frame.dts < Coming(e, x) \/ (x.pc = "send" /\ sent[i].frame = x.frame)
OrderOf(e, x) ==
    /\ x.pc = "start" => \A i \in DOMAIN sent : sent[i].frame.stream # e
    /\ x.pc # "start" => NotLate(e, x) /\ SentBefore(e, x)
    /\ x.pc \in {"encode", "send"} => x.frame.dts = Coming(e, x)
OrderInv ==
    mainPc = "start" \/ ((\A e \in Encoders : OrderOf(e, enc[e])) /\ DtsIncreasing)

(* The DTS to come goes up with the end of a turn, over the end of a loop  *)
(* too.                                                                    *)
LEMMA NextFileOrder ==
    ASSUME NEW e \in Encoders, NEW x, NEW frames, x \in EncoderState(frames),
           FilesInOrder, Len(vFiles) > LoopFrames["video"],
           EncoderInv(e, x), NotLate(e, x), x.pc \in {"wait", "send"}
    PROVE  LET y == NextFile(e, x)
           IN  /\ y.pc = "wait" /\ NotLate(e, y)
               /\ Coming(e, x) \in Int /\ Coming(e, y) \in Int
               /\ Coming(e, x) <= Coming(e, y)
               /\ x.pc = "send" => Coming(e, x) < Coming(e, y)
<1> DEFINE y == NextFile(e, x)
           L == LoopFrames[e]
           c == x.lFrameCounter
           D == gPtsLoopDuration
           F == gFirstPts
<1>1. F \in Int /\ D \in Int
  BY FilesOfALoop DEF FilesInOrder
<1>8. \A n \in 1 .. LoopFrames["video"] : vFiles[n].dts \in Int
  BY DEF FilesInOrder
<1>2. L \in Nat \ {0} /\ AudioPts \in Nat \ {0} /\ c \in 0 .. L - 1
  BY MainMxAssumption DEF EncoderInv
<1>3. x.lPts \in Int /\ x.lCurrentOffset \in Int
  BY DEF EncoderState
<1>4. y.pc = "wait" /\ y.lFrameCounter = (c + 1) % L
      /\ y.lCurrentOffset = (IF c + 1 = L THEN x.lCurrentOffset + D ELSE x.lCurrentOffset)
      /\ y.lPts = (IF c + 1 = L /\ e = "audio" THEN F - AudioPts ELSE x.lPts)
  BY DEF NextFile, EncoderState
<1>5. IF c + 1 = L THEN (c + 1) % L = 0 ELSE (c + 1) % L = c + 1
  BY <1>2, NextCount
<1> HIDE DEF y
<1>6. CASE e = "video"
  <2>1. vFiles[c + 1].dts \in Int
    BY <1>2, <1>6, <1>8
  <2>2. Coming(e, x) = x.lCurrentOffset + vFiles[c + 1].dts
    BY <1>6 DEF Coming
  <2>3. CASE c + 1 = L
    <3>1. vFiles[1].dts \in Int /\ vFiles[c + 1].dts < vFiles[1].dts + D
      <4>1. c + 1 = LoopFrames["video"] /\ 1 \in 1 .. LoopFrames["video"]
        BY <1>2, <1>6, <2>3
      <4> QED BY <1>8, <4>1 DEF FilesInOrder
    <3>2. Coming(e, y) = (x.lCurrentOffset + D) + vFiles[1].dts
      <4>1. y.lFrameCounter + 1 = 1 /\ y.lCurrentOffset = x.lCurrentOffset + D
        BY <1>4, <1>5, <2>3
      <4> QED BY <1>6, <4>1 DEF Coming
    <3>3. NotLate(e, y) /\ y.pc = "wait"
      BY <1>4, <1>6 DEF NotLate
    <3> HIDE DEF D, F, c, L
    <3>4. Coming(e, x) \in Int /\ Coming(e, y) \in Int /\ Coming(e, x) < Coming(e, y)
      <4>1. PICK o \in Int, d \in Int, v \in Int, w \in Int :
              o = x.lCurrentOffset /\ d = D /\ v = vFiles[c + 1].dts /\ w = vFiles[1].dts
        BY <1>1, <1>3, <2>1, <3>1
      <4>2. v < w + d /\ Coming(e, x) = o + v /\ Coming(e, y) = (o + d) + w
        BY <2>2, <3>1, <3>2, <4>1
      <4> QED BY <4>2
    <3> QED BY <3>3, <3>4 DEF y
  <2>4. CASE c + 1 # L
    <3>1. Coming(e, y) = x.lCurrentOffset + vFiles[c + 2].dts
      <4>1. (c + 1) + 1 = c + 2
        BY <1>2
      <4>2. y.lFrameCounter + 1 = c + 2 /\ y.lCurrentOffset = x.lCurrentOffset
        BY <1>4, <1>5, <2>4, <4>1
      <4> HIDE DEF c
      <4> QED BY <1>6, <4>2 DEF Coming
    <3>2. vFiles[c + 2].dts \in Int /\ vFiles[c + 1].dts < vFiles[c + 2].dts
      <4>1. PICK V \in Nat \ {0} : V = LoopFrames["video"] /\ V = L
        BY <1>2, <1>6
      <4>2. c + 1 \in 1 .. V - 1 /\ (c + 1) + 1 = c + 2 /\ c + 2 \in 1 .. V
        <5>1. PICK n \in Nat : n = c /\ n < V /\ n + 1 # V
          BY <1>2, <2>4, <4>1
        <5> QED BY <5>1
      <4>3. vFiles[c + 1].dts < vFiles[(c + 1) + 1].dts
        BY <4>1, <4>2 DEF FilesInOrder
      <4> QED BY <1>8, <4>1, <4>2, <4>3
    <3>3. NotLate(e, y) /\ y.pc = "wait"
      BY <1>4, <1>6 DEF NotLate
    <3> HIDE DEF c, L
    <3>4. Coming(e, x) \in Int /\ Coming(e, y) \in Int /\ Coming(e, x) < Coming(e, y)
      <4>1. PICK o \in Int, v \in Int, w \in Int :
              o = x.lCurrentOffset /\ v = vFiles[c + 1].dts /\ w = vFiles[c + 2].dts
        BY <1>3, <2>1, <3>2
      <4>2. v < w /\ Coming(e, x) = o + v /\ Coming(e, y) = o + w
        BY <2>2, <3>1, <3>2, <4>1
      <4> QED BY <4>2
    <3> QED BY <3>3, <3>4 DEF y
  <2> QED BY <2>3, <2>4
<1>7. CASE e = "audio"
  <2> DEFINE A == AudioPts
  <2>1. Coming(e, x) = x.lCurrentOffset + (IF x.pc = "wait" THEN x.lPts + A ELSE x.lPts)
    BY <1>7 DEF Coming
  <2>2. Coming(e, y) = y.lCurrentOffset + (y.lPts + A) /\ Coming(e, x) <= F + x.lCurrentOffset + c * A
    BY <1>4, <1>7 DEF Coming, NotLate
  <2>3. c * A \in Int /\ (c + 1) * A = c * A + A /\ 0 * A = 0
    BY <1>2
  <2>4. CASE c + 1 = L
    <3>1. c * A < D
      <4>1. c = LoopFrames["audio"] - 1
        BY <1>2, <1>7, <2>4
      <4> QED BY <4>1 DEF FilesInOrder
    <3>2. /\ Coming(e, y) = (x.lCurrentOffset + D) + ((F - A) + A)
          /\ y.lCurrentOffset = x.lCurrentOffset + D /\ y.lFrameCounter * A = 0
      BY <1>4, <1>5, <1>7, <2>2, <2>3, <2>4
    <3> HIDE DEF A, D, F, c, L
    <3>5. A \in Int /\ Coming(e, y) = x.lCurrentOffset + D + F /\ Coming(e, x) \in Int
      BY <1>1, <1>2, <1>3, <2>1, <3>2 DEF A
    <3>3. Coming(e, x) < Coming(e, y) /\ Coming(e, y) \in Int
      <4> DEFINE w == c * A
      <4>1. w \in Int /\ w < D /\ Coming(e, x) <= F + x.lCurrentOffset + w
        BY <2>2, <2>3, <3>1
      <4> HIDE DEF w
      <4>2. PICK o \in Int, d \in Int, f \in Int : o = x.lCurrentOffset /\ d = D /\ f = F
        BY <1>1, <1>3
      <4>3. w < d /\ Coming(e, x) <= f + o + w /\ Coming(e, x) \in Int /\ Coming(e, y) = o + d + f
        BY <3>5, <4>1, <4>2
      <4> QED BY <4>1, <4>3
    <3>4. NotLate(e, y)
      <4>1. Coming(e, y) <= F + y.lCurrentOffset + 0
        BY <1>1, <1>3, <3>2, <3>5
      <4> QED BY <3>2, <4>1 DEF NotLate, A, F
    <3> QED BY <1>4, <3>3, <3>4, <3>5 DEF y
  <2>5. CASE c + 1 # L
    <3>1. /\ Coming(e, y) = x.lCurrentOffset + (x.lPts + A)
          /\ y.lCurrentOffset = x.lCurrentOffset /\ y.lFrameCounter * A = c * A + A
      BY <1>4, <1>5, <1>7, <2>2, <2>3, <2>5
    <3> HIDE DEF A, D, F, c, L
    <3>2. /\ Coming(e, x) \in Int /\ Coming(e, x) <= Coming(e, y) /\ Coming(e, y) \in Int
          /\ x.pc = "send" => Coming(e, x) < Coming(e, y)
      <4>1. PICK o \in Int, q \in Int, a \in Nat \ {0} : o = x.lCurrentOffset /\ q = x.lPts /\ a = A
        BY <1>2, <1>3 DEF A
      <4>2. /\ Coming(e, y) = o + (q + a)
            /\ Coming(e, x) = o + (q + a) \/ Coming(e, x) = o + q
            /\ x.pc = "send" => Coming(e, x) = o + q
        BY <2>1, <3>1, <4>1
      <4> QED BY <4>2
    <3>3. Coming(e, y) <= F + x.lCurrentOffset + (c * A + A)
      <4>1. PICK o \in Int, q \in Int, a \in Nat \ {0}, f \in Int, w \in Int :
              o = x.lCurrentOffset /\ q = x.lPts /\ a = A /\ f = F /\ w = c * A
        BY <1>1, <1>2, <1>3, <2>3 DEF A
      <4>2. /\ Coming(e, y) = o + (q + a)
            /\ Coming(e, x) = o + (q + a) \/ Coming(e, x) = o + q
            /\ Coming(e, x) <= f + o + w
        BY <2>1, <2>2, <3>1, <4>1
      <4>3. Coming(e, y) <= f + o + (w + a)
        BY <4>2
      <4> QED BY <4>1, <4>3
    <3>4. NotLate(e, y)
      BY <3>1, <3>3 DEF NotLate, A, F
    <3> QED BY <1>4, <3>2, <3>4 DEF y
  <2> QED BY <2>4, <2>5
<1> QED BY <1>6, <1>7 DEF Encoders

(* A step of encoder e to y, with nothing sent.                            *)
LEMMA OrderStep ==
    ASSUME OrderInv, NEW e \in Encoders, NEW frames, enc \in [Encoders -> EncoderState(frames)],
           NEW y, OrderOf(e, y), enc' = [enc EXCEPT ![e] = y],
           vFiles' = vFiles, sent' = sent, mainPc # "start"
    PROVE  OrderInv'
<1>1. \A f \in Encoders : OrderOf(f, enc'[f])
  BY DEF OrderInv
<1>2. gFirstPts' = gFirstPts
  BY DEF gFirstPts
<1>3. \A f \in Encoders : OrderOf(f, enc[f])'
  BY <1>1, <1>2 DEF OrderOf, NotLate, SentBefore, Coming
<1> QED BY <1>3 DEF OrderInv, DtsIncreasing

LEMMA OrderKept ==
    ASSUME OrderInv, LoopInv, FilesInOrder, [Next]_vars
    PROVE  OrderInv'
<1>1. ASSUME UNCHANGED <<sent, enc>>, mainPc = "start" <=> mainPc' = "start",
             mainPc # "start" => vFiles' = vFiles
      PROVE  OrderInv'
  BY <1>1 DEF OrderInv, OrderOf, NotLate, SentBefore, Coming, DtsIncreasing, gFirstPts
<1>2. CASE UNCHANGED mxVars /\ (UNCHANGED dmxVars \/ ReadPacket)
  <2>1. mainPc # "start" => vFiles' = vFiles
    BY <1>2 DEF LoopInv, Started, ReadPacket, dmxVars
  <2> QED BY <1>1, <1>2, <2>1 DEF mxVars
<1>3. ASSUME eof, Len(vFiles) > LoopFrames["video"], UNCHANGED dmxVars, MxNext
      PROVE  OrderInv'
  <2>1. vFiles' = vFiles
    BY <1>3 DEF dmxVars
  <2>2. CASE StartThreads
    <3>1. sent' = <<>> /\ \A e \in Encoders : enc'[e].pc = "start"
      <4>1. sent' = <<>> /\ enc' = [e \in Encoders |-> [enc[e] EXCEPT !.pc = "start"]]
        BY <2>2 DEF StartThreads, LoopInv
      <4>2. \E frames : enc \in [Encoders -> EncoderState(frames)]
        BY DEF LoopInv, EncodersTyped
      <4> QED BY <4>1, <4>2 DEF EncoderState
    <3> QED BY <3>1 DEF OrderInv, OrderOf, DtsIncreasing
  <2>3. CASE MainAdvance \/ MainCompensate \/ MainSecond \/ Tick
    BY <1>1, <2>1, <2>3 DEF MainAdvance, MainCompensate, MainSecond, Tick
  <2>4. PICK frames : enc \in [Encoders -> EncoderState(frames)]
    BY DEF LoopInv, EncodersTyped
  <2>5. ASSUME NEW e \in Encoders,
               StartEncoder(e) \/ Trigger(e) \/ Encode(e) \/ muxOutput(e) \/ Encoded(e)
        PROVE  OrderInv'
    <3>1. mainPc # "start" /\ Started
      BY <2>5 DEF StartEncoder, Trigger, Due, Encode, muxOutput, Encoded, LoopInv
    <3>2. enc[e] \in EncoderState(frames) /\ EncoderInv(e, enc[e]) /\ OrderOf(e, enc[e])
      BY <2>4, <3>1 DEF Started, OrderInv
    <3>3. /\ gFirstPts \in Int
          /\ \A n \in 1 .. LoopFrames["video"] : vFiles[n].dts \in Int
      BY <1>3, FilesOfALoop DEF FilesInOrder
    <3>4. AudioPts \in Nat /\ LoopFrames[e] \in Nat \ {0} /\ enc[e].lFrameCounter \in 0 .. LoopFrames[e] - 1
      BY <3>2, MainMxAssumption DEF EncoderInv
    <3>5. enc[e].lCurrentOffset \in Int /\ enc[e].lPts \in Int
      BY <3>2 DEF EncoderState
    <3>6. CASE StartEncoder(e)
      <4> DEFINE t == gTimeReference + Distance[e]
                 p == IF e = "audio" THEN gFirstPts - AudioPts ELSE 0
                 y == [enc[e] EXCEPT !.pc = "wait", !.lNextTriger = t, !.lPts = p]
      <4>1. enc[e].pc = "start" /\ enc' = [enc EXCEPT ![e] = y] /\ sent' = sent
        BY <3>6 DEF StartEncoder, SetEnc
      <4>2. /\ y.pc = "wait" /\ y.lFrameCounter = enc[e].lFrameCounter /\ y.lPts = p
            /\ y.lCurrentOffset = enc[e].lCurrentOffset
        BY <3>2 DEF EncoderState
      <4>3. \A i \in DOMAIN sent : sent[i].frame.stream # e
        BY <3>2, <4>1 DEF OrderOf
      <4> HIDE DEF y
      <4>4. NotLate(e, y)
        <5> SUFFICES ASSUME e = "audio" PROVE Coming(e, y) <= gFirstPts + y.lCurrentOffset + y.lFrameCounter * AudioPts
          BY DEF NotLate
        <5>1. Coming(e, y) = y.lCurrentOffset + ((gFirstPts - AudioPts) + AudioPts)
          BY <4>2 DEF Coming
        <5>2. enc[e].lFrameCounter * AudioPts \in Nat
          BY <3>4
        <5> QED BY <3>3, <3>4, <3>5, <4>2, <5>1, <5>2
      <4>5. OrderOf(e, y)
        BY <4>2, <4>3, <4>4 DEF OrderOf, SentBefore
      <4> QED BY <2>1, <2>4, <3>1, <4>1, <4>5, OrderStep
    <3>7. CASE Trigger(e)
      <4> DEFINE x == [enc[e] EXCEPT !.lNextTriger = @ + Distance[e]]
                 n == x.lFrameCounter + 1
                 lPts == IF e = "audio" THEN x.lPts + AudioPts ELSE vFiles[n].pts
                 frame == IF e = "audio" THEN AudioFrame(x, lPts) ELSE VideoFrame(x, vFiles[n])
                 z == [x EXCEPT !.pc = "encode", !.lPts = lPts, !.frame = frame]
                 y == IF n \notin DOMAIN Files(e) THEN NextFile(e, x) ELSE z
      <4>1. enc[e].pc = "wait" /\ enc' = [enc EXCEPT ![e] = y] /\ sent' = sent
        BY <3>7 DEF Trigger, Due, SetEnc
      <4>2. /\ x.pc = "wait" /\ x.lFrameCounter = enc[e].lFrameCounter /\ x.no = enc[e].no
            /\ x.lCurrentOffset = enc[e].lCurrentOffset /\ x.lPts = enc[e].lPts
            /\ x \in EncoderState(frames)
        <5>1. Distance[e] \in Nat
          BY MainMxAssumption
        <5> QED BY <3>2, <4>1, <5>1 DEF EncoderState
      <4> HIDE DEF x
      <4>3. /\ EncoderInv(e, x) /\ NotLate(e, x) /\ Coming(e, x) = Coming(e, enc[e])
            /\ \A i \in DOMAIN sent : sent[i].frame.stream = e =>
                  sent[i].frame.dts \in Int /\ sent[i].frame.dts < Coming(e, x)
        BY <3>2, <4>1, <4>2 DEF EncoderInv, OrderOf, NotLate, SentBefore, Coming
      <4>4. CASE n \notin DOMAIN Files(e)
        <5>1. y = NextFile(e, x)
          BY <4>4
        <5> HIDE DEF y
        <5>2. /\ y.pc = "wait" /\ NotLate(e, y) /\ Coming(e, x) <= Coming(e, y)
              /\ Coming(e, x) \in Int /\ Coming(e, y) \in Int
          BY <1>3, <4>2, <4>3, <5>1, NextFileOrder
        <5>3. SentBefore(e, y)
          BY <4>3, <5>2, <3>1, <3>2 DEF SentBefore
        <5>4. OrderOf(e, y)
          BY <5>2, <5>3 DEF OrderOf
        <5> QED BY <2>1, <2>4, <3>1, <4>1, <5>4, OrderStep
      <4>5. CASE n \in DOMAIN Files(e)
        <5>1. y = z
          BY <4>5
        <5>2. frame.dts = (IF e = "audio" THEN lPts ELSE vFiles[n].dts) + x.lCurrentOffset
          BY DEF AudioFrame, VideoFrame
        <5>3. n = x.lFrameCounter + 1
          OBVIOUS
        <5>4. e = "audio" => lPts = x.lPts + AudioPts /\ lPts \in Int
          BY <3>4, <3>5, <4>2
        <5>5. e = "video" => vFiles[n].dts \in Int
          BY <3>3, <3>4, <4>2
        <5> HIDE DEF lPts, frame, n
        <5>6. /\ z.pc = "encode" /\ z.frame = frame /\ z.lPts = lPts
              /\ z.lFrameCounter = x.lFrameCounter /\ z.lCurrentOffset = x.lCurrentOffset
          BY <4>2 DEF EncoderState
        <5> HIDE DEF z, y
        <5>7. Coming(e, y) = Coming(e, x) /\ y.frame.dts = Coming(e, y) /\ y.pc = "encode"
          BY <3>5, <4>2, <5>1, <5>2, <5>3, <5>4, <5>5, <5>6 DEF Coming, Encoders
        <5>8. NotLate(e, y)
          BY <4>3, <5>1, <5>6, <5>7 DEF NotLate
        <5>9. OrderOf(e, y)
          BY <4>3, <5>7, <5>8 DEF OrderOf, SentBefore
        <5> QED BY <2>1, <2>4, <3>1, <4>1, <5>9, OrderStep
      <4> QED BY <4>4, <4>5
    <3>8. CASE Encode(e)
      <4> DEFINE y == [enc[e] EXCEPT !.pc = "send"]
      <4>1. enc[e].pc = "encode" /\ enc' = [enc EXCEPT ![e] = y] /\ sent' = sent
        BY <3>8 DEF Encode, SetEnc
      <4>2. /\ y.pc = "send" /\ y.frame = enc[e].frame /\ y.lPts = enc[e].lPts
            /\ y.lFrameCounter = enc[e].lFrameCounter /\ y.lCurrentOffset = enc[e].lCurrentOffset
        BY <3>2 DEF EncoderState
      <4> HIDE DEF y
      <4>3. OrderOf(e, y)
        BY <3>2, <4>1, <4>2 DEF OrderOf, NotLate, SentBefore, Coming
      <4> QED BY <2>1, <2>4, <3>1, <4>1, <4>3, OrderStep
    <3>9. CASE muxOutput(e)
      <4> DEFINE packet == [frame |-> enc[e].frame, left |-> sending.left]
      <4>1. /\ sending.by = e /\ sent' = Append(sent, packet) /\ enc' = enc /\ mainPc' = mainPc
        BY <3>9 DEF muxOutput, mainVars
      <4>2. enc[e].pc = "send" /\ enc[e].frame.stream = e
        BY <3>2, <4>1 DEF LoopInv, EncoderInv
      <4>3. PICK S : sent \in Seq(S)
        BY DEF LoopInv
      <4> HIDE DEF packet
      <4>4. /\ DOMAIN sent' = 1 .. Len(sent) + 1 /\ DOMAIN sent = 1 .. Len(sent) /\ Len(sent) \in Nat
            /\ \A i \in 1 .. Len(sent) : sent'[i] = sent[i]
            /\ sent'[Len(sent) + 1] = packet
        <5>1. sent \in Seq(S \cup {packet}) /\ packet \in S \cup {packet}
          BY <4>3
        <5> QED BY <4>1, <5>1
      <4>5. packet.frame = enc[e].frame
        BY DEF packet
      <4>9. packet.frame.dts = Coming(e, enc[e]) /\ Coming(e, enc[e]) \in Int
        <5>1. Coming(e, enc[e]) \in Int
          BY <1>3, <3>2, <4>2, NextFileOrder DEF OrderOf
        <5> QED BY <3>2, <4>2, <4>5, <5>1 DEF OrderOf
      <4>6. \A i \in 1 .. Len(sent) : sent[i].frame.stream = e =>
               sent[i].frame.dts < enc[e].frame.dts \/ sent[i].frame = enc[e].frame
        BY <3>2, <4>2, <4>4 DEF OrderOf, SentBefore
      <4>7. DtsIncreasing'
        <5> SUFFICES ASSUME NEW i \in DOMAIN sent', NEW j \in DOMAIN sent', i < j,
                            sent'[i].frame.stream = sent'[j].frame.stream,
                            sent'[i].frame # sent'[j].frame
                     PROVE  sent'[i].frame.dts < sent'[j].frame.dts
          BY DEF DtsIncreasing
        <5>1. i \in 1 .. Len(sent) /\ sent'[i] = sent[i]
          BY <4>4
        <5>2. CASE j = Len(sent) + 1
          <6>1. sent'[j].frame = enc[e].frame
            BY <4>4, <4>5, <5>2
          <6> QED BY <4>2, <4>6, <5>1, <6>1
        <5>3. CASE j # Len(sent) + 1
          <6>1. j \in 1 .. Len(sent) /\ sent'[j] = sent[j]
            BY <4>4, <5>3
          <6> QED BY <3>1, <4>4, <5>1, <6>1 DEF OrderInv, DtsIncreasing
        <5> QED BY <5>2, <5>3
      <4>8. ASSUME NEW f \in Encoders
            PROVE  OrderOf(f, enc[f])'
        <5>1. OrderOf(f, enc[f]) /\ enc'[f] = enc[f]
          BY <3>1, <4>1 DEF OrderInv
        <5>2. /\ Coming(f, enc[f])' = Coming(f, enc[f]) /\ gFirstPts' = gFirstPts
              /\ NotLate(f, enc[f])' <=> NotLate(f, enc[f])
          BY <2>1, <4>1 DEF Coming, NotLate, gFirstPts
        <5>3. CASE f = e
          <6>1. SentBefore(e, enc[e])'
            BY <4>1, <4>2, <4>4, <4>5, <4>9, <5>1, <5>2, <5>3 DEF OrderOf, SentBefore
          <6> QED BY <4>1, <4>2, <5>1, <5>2, <5>3, <6>1 DEF OrderOf
        <5>4. CASE f # e
          <6>1. \A i \in DOMAIN sent' : sent'[i].frame.stream = f => i \in DOMAIN sent /\ sent'[i] = sent[i]
            BY <4>2, <4>4, <4>5, <5>4
          <6> QED BY <4>1, <5>1, <5>2, <6>1 DEF OrderOf, SentBefore
        <5> QED BY <5>3, <5>4
      <4> QED BY <4>7, <4>8 DEF OrderInv
    <3>10. CASE Encoded(e)
      <4> DEFINE y == NextFile(e, enc[e])
      <4>1. enc' = [enc EXCEPT ![e] = y] /\ sent' = sent /\ sending.by = e
        BY <3>10 DEF Encoded, SetEnc
      <4>2. enc[e].pc = "send"
        BY <4>1 DEF LoopInv
      <4> HIDE DEF y
      <4>3. /\ y.pc = "wait" /\ NotLate(e, y) /\ Coming(e, enc[e]) < Coming(e, y)
            /\ Coming(e, enc[e]) \in Int /\ Coming(e, y) \in Int
        BY <1>3, <3>2, <4>2, NextFileOrder DEF y, OrderOf
      <4>4. enc[e].frame.dts = Coming(e, enc[e]) /\ SentBefore(e, enc[e])
        BY <3>2, <4>2 DEF OrderOf
      <4>5. SentBefore(e, y)
        BY <4>3, <4>4 DEF SentBefore
      <4>6. OrderOf(e, y)
        BY <4>3, <4>5 DEF OrderOf
      <4> QED BY <2>1, <2>4, <3>1, <4>1, <4>6, OrderStep
    <3> QED BY <2>5, <3>6, <3>7, <3>8, <3>9, <3>10
  <2> QED BY <1>3, <2>2, <2>3, <2>5 DEF MxNext
<1> QED BY <1>2, <1>3 DEF Next, Dmx, Mx, vars

(***************************************************************************)
(* However late threads are and however many audio files are missing, the  *)
(* DTS of a stream increase over any number of loops, over the end of each *)
(* too, if the files are as bars.ts has them.                              *)
(***************************************************************************)
THEOREM DtsAlwaysIncreasing == Spec /\ []FilesInOrder => []DtsIncreasing
<1>1. Init => OrderInv
  BY DEF Init, MxInit, OrderInv
<1>2. LoopInv /\ OrderInv => DtsIncreasing
  BY DEF LoopInv, OrderInv, DtsIncreasing
<1>3. LoopInv /\ TimeInv /\ OrderInv /\ FilesInOrder /\ [Next]_vars => LoopInv' /\ TimeInv' /\ OrderInv'
  BY LoopStep, TimeStep, OrderKept DEF FilesInOrder
<1> QED BY <1>1, <1>2, <1>3, InitLoops, PTL DEF Spec
=============================================================================
