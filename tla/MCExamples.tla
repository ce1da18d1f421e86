----------------------------- MODULE MCExamples -----------------------------
(***************************************************************************)
(* Instances of Examples for TLC. A bars.ts is made of frames of one or    *)
(* two packets: audio frames of one or two ADTS frames, whose second ADTS  *)
(* frame may be no MPEG-4 or run into the second packet, and video frames  *)
(* of unknown size with B frames among them.                               *)
(***************************************************************************)
EXTENDS Examples

Pkt(pid, pusi, load) ==
    [pid |-> pid, pusi |-> pusi, afc |-> mPayloadOnly, cc |-> 0, af |-> NoAf,
     load |-> load, bytes |-> kTsPacketSize_188]
Tables ==
    <<Pkt(MPEGTS_PAT_PID, TRUE, PatLoad(<<[number |-> 1, pmt |-> 100]>>)),
      Pkt(100, TRUE, PmtLoad(TRUE, 256, <<[type |-> TYPE_AUDIO, pid |-> 257],
                                          [type |-> TYPE_VIDEO_H264, pid |-> 256]>>))>>

(* Bytes of data in a start packet and in another one.                     *)
FirstData(hdl) == kTsPacketSize_188 - TsHeaderBytes - PesHeaderBytes - hdl
NextData  == kTsPacketSize_188 - TsHeaderBytes
Size(n)   == FirstData(TimestampBytes) + (n - 1) * NextData

(* The n-th video frame: groups of an I, a P and a B frame in the order of *)
(* decoding, the B frame shown before the P frame.                         *)
FrameDts(n)  == 10 + 3 * n
ShownLate(n) == CASE n % 3 = 1 -> 3 [] n % 3 = 2 -> 6 [] OTHER -> 0

(* The k-th frame of bars.ts; n says how many of its kind there are by it. *)
FramePackets(kind, k, n) ==
    LET audio == kind.type = TYPE_AUDIO
        pid   == IF audio THEN 257 ELSE 256
        late  == IF audio THEN 0 ELSE ShownLate(n)
        hdl   == IF late = 0 THEN TimestampBytes ELSE 2 * TimestampBytes
        pes   == [len |-> IF audio THEN Size(kind.packets) + hdl + 3 ELSE 0,
                  hdl |-> hdl, flags |-> IF late = 0 THEN 2 ELSE 3, marker |-> TRUE,
                  pts |-> FrameDts(n) + late, dts |-> FrameDts(n)]
        id    == <<kind, k>>
        first == <<Pkt(pid, TRUE, PesLoad(pes, Run(id, 0, FirstData(hdl))))>>
    IN  IF kind.packets = 1 THEN first
        ELSE first \o <<Pkt(pid, FALSE, PesLoad(NoPes, Run(id, FirstData(hdl), NextData)))>>

Kind(type, packets, adts) == [type |-> type, packets |-> packets, adts |-> adts]
Header(mpeg4, lLength) == [mpeg4 |-> mpeg4, lLength |-> lLength]
AdtsOf(kind) ==
    LET size == Size(kind.packets)
    IN  CASE kind.adts = "one" -> (0 :> Header(TRUE, size))
          [] kind.adts = "two" -> (0 :> Header(TRUE, 100)) @@ (100 :> Header(TRUE, size - 100))
          [] kind.adts = "bad" -> (0 :> Header(TRUE, 100)) @@ (100 :> Header(FALSE, size - 100))
          [] OTHER             -> <<>>
V(n) == Kind(TYPE_VIDEO_H264, n, "none")
A(n, adts) == Kind(TYPE_AUDIO, n, adts)
MCKinds == {V(1), V(2), A(1, "two"), A(2, "one"), A(2, "two"), A(2, "bad")}

Number(kinds, k) == Cardinality({j \in 1 .. k : kinds[j].type = kinds[k].type})
BarsOf(kinds) ==
    Tables \o FlattenSeq([k \in DOMAIN kinds |-> FramePackets(kinds[k], k, Number(kinds, k))])

(* Short ones of every mix, and two that main_mx can use, with one audio   *)
(* file, which is too few, and with three.                                 *)
LongKinds == {<<V(1), A(1, "one"), V(1), V(2), V(1), V(1)>>,
              <<V(2), A(2, "two"), V(1), A(1, "one"), V(1), V(1), V(1)>>}
MCBarsTs == {BarsOf(kinds) : kinds \in UNION {[1 .. n -> MCKinds] : n \in 0 .. 3} \cup LongKinds}
MCAdts == [id \in MCKinds \X (1 .. 4) \cup UNION {{<<kinds[k], k>> : k \in DOMAIN kinds} : kinds \in LongKinds}
             |-> AdtsOf(id[1])]
MCIdr == {<<V(1), 1>>}

MCDistance   == [audio |-> 3, video |-> 2]
MCLoopFrames == [audio |-> 2, video |-> 3]
MCPackets    == [audio |-> 2, video |-> 1]
=============================================================================
