----------------------------- MODULE LinkProofs -----------------------------
(***************************************************************************)
(* What holds of multiplexer and demultiplexer together, for every set of  *)
(* threads, streams and frames and for calls without bound, while the      *)
(* network loses and repeats nothing: a channel of frames per PID.         *)
(***************************************************************************)
EXTENDS Link, MuxerProofs

(***************************************************************************)
(* Packets in a row. A thread in createPes is alone in the stream, so each *)
(* packet of a frame comes right after the one before it, whatever its     *)
(* PID, and each PMT right after a PAT.                                    *)
(***************************************************************************)
Mid(p)         == IsPes(p) /\ EndOf(p.load.run) < p.load.run.frame.size
CarriesOnAt(p) == [pid |-> p.pid, frame |-> p.load.run.frame, end |-> p.load.run.from]

PartOf(f, p) ==
    LET r == p.load.run
    IN  /\ p.pid = f.pid
        /\ r \in [frame : Frame, from : Nat, len : Nat \ {0}]
        /\ EndOf(r) <= r.frame.size
        /\ r.frame.size = f.size /\ r.frame.no \in 1 .. MaxCalls /\ r.frame.key \in RandomAccessArgs
        /\ p.pusi <=> r.from = 0
        /\ p.pusi => p.load.pes = PesOf(f) /\ p.af.ra = f.ra
        /\ Fits(p) /\ hasPayload(p.afc) /\ ~p.af.disc
Made(p) ==
    \/ \E cc \in Cc : p = createPat(cc) \/ p = createPmt(cc)
    \/ p = PcrPacket(p.af.pcr)
    \/ IsPes(p) /\ \E f \in FrameShapes : PartOf(f, p)

Rows(s, open) ==
    /\ \A i \in DOMAIN s : Made(s[i])
    /\ \A i \in DOMAIN s : s[i].load.kind = "pmt" =>
          i - 1 \in DOMAIN s /\ s[i - 1].load.kind = "pat"
    /\ \A i \in DOMAIN s : IsPes(s[i]) /\ ~s[i].pusi =>
          i - 1 \in DOMAIN s /\ IsPes(s[i - 1]) /\ Cursor(s[i - 1]) = CarriesOnAt(s[i])
    /\ \A i \in DOMAIN s : Mid(s[i]) =>
          IF i = Len(s) THEN Cursor(s[i]) \in open ELSE IsPes(s[i + 1]) /\ ~s[i + 1].pusi
    /\ open # {} => /\ Len(s) \in DOMAIN s /\ IsPes(s[Len(s)])
                    /\ open = {Cursor(s[Len(s)])}

RowInv == Rows(Stream, Open) /\ Rows(wire, {})

(* Frames are numbered by calls, and a call brings one start at most.      *)
CallsInv ==
    \A t \in Threads :
        /\ nCalls[t] <= MaxCalls
        /\ job[t].op = "encode" =>
              job[t].frame.no \in 1 .. MaxCalls /\ job[t].frame.key \in RandomAccessArgs
StartsInCall == Starts(Stream, Len(wire) + 1, Len(Stream))
StartInv ==
    /\ \A i, k \in StartsInCall : i = k
    /\ \A t \in Threads :
          pc[t] = "encode" \/ (pc[t] = "pes" /\ lFirst[t]) => StartsInCall = {}

MuxInv == /\ TypeInv /\ Holder /\ EmptyOutside /\ Position
          /\ RowInv /\ CallsInv /\ StartInv

(***************************************************************************)
(* The receiver, in terms of the packets sent. It hears the tables, and    *)
(* has streams from the first PMT on.                                      *)
(***************************************************************************)
Heard(kind, n) == \E j \in 1 .. n : wire[j].load.kind = kind
AnnouncedPids  == {Streams[i].pid : i \in DOMAIN Streams}

ArrivedInv ==
    /\ nFaults = 0
    /\ nTaken \in 0 .. Len(wire)
    /\ arrived \in Seq(Packet) /\ Len(arrived) = nTaken
    /\ \A i \in 1 .. nTaken : arrived[i] = wire[i]
TablesInv ==
    /\ mPmtId = IF Heard("pat", nTaken) THEN PmtPid ELSE 0
    /\ mInfos = IF Heard("pmt", nTaken) THEN Streams ELSE <<>>
    /\ DOMAIN mEsFrames = IF Heard("pmt", nTaken) THEN AnnouncedPids ELSE {}

(* A frame under construction: data are the numbers of its packets so far, *)
(* without a gap, and everything else follows from them.                   *)
RunOf(i) == wire[i].load.run
StartsIn(w, q, n) ==
    {i \in 1 .. n : /\ w[i].pid = q /\ IsStart(w[i])
                    /\ \E j \in 1 .. i : w[j].load.kind = "pmt"}
Held(w, n, q, d) ==
    /\ d \in Seq(1 .. n) /\ d # <<>>
    /\ d[1] \in StartsIn(w, q, n)
    /\ \A i \in 1 .. Len(d) - 1 :
          /\ w[d[i + 1]].load.run.frame = w[d[1]].load.run.frame
          /\ w[d[i + 1]].load.run.from = EndOf(w[d[i]].load.run)
    /\ IsPes(w[d[Len(d)]]) /\ w[d[Len(d)]].pid = q
Filling(w, type, d) ==
    LET p   == w[d[1]]
        pes == p.load.pes
    IN  [type |-> type, data |-> d, size |-> EndOf(w[d[Len(d)]].load.run),
         pts |-> pes.pts, dts |-> IF pes.flags = 3 THEN pes.dts ELSE pes.pts, ra |-> p.af.ra,
         expPes |-> pes.len, expPayload |-> IF pes.len = 0 THEN 0 ELSE p.load.run.frame.size]
InFrame(w, n, q, frame) ==
    LET d == frame.data
    IN  IF d = <<>> THEN frame = D!EsFrame(frame.type)
        ELSE /\ Held(w, n, q, d) /\ frame = Filling(w, frame.type, d)
             /\ IF Mid(w[d[Len(d)]]) THEN d[Len(d)] = n ELSE frame.expPes = 0
FramesInv ==
    /\ \A q \in DOMAIN mEsFrames : InFrame(wire, nTaken, q, mEsFrames[q])
    /\ nTaken > 0 /\ Heard("pmt", nTaken) /\ Mid(wire[nTaken]) =>
          LET d == mEsFrames[wire[nTaken].pid].data IN d # <<>> /\ d[Len(d)] = nTaken

(* What came out of a stream, with what is in hand, is what went in.       *)
Picks(S, g)       == [i \in 1 .. Cardinality(S) |-> g[InOrder(S)[i]]]
SentIn(w, q, n)   == Picks(StartsIn(w, q, n), [i \in 1 .. n |-> ToldBy(w[i])])
RunsIn(a, e)      == [i \in DOMAIN e.frame.data |-> a[e.frame.data[i]].load.run]
GenuineIn(a, e)   == e.completed /\ WholeFrame(RunsIn(a, e), e.frame.size)
ToldOf(a, e) ==
    IF GenuineIn(a, e) THEN Told(RunsIn(a, e)[1].frame, e.frame.pts, e.frame.dts, e.frame.ra)
    ELSE Garbled
EsOf(ev, q)       == {k \in DOMAIN ev : ev[k].kind = "es" /\ ev[k].pid = q}
Tell(ev, q, a)    == Picks(EsOf(ev, q), [k \in DOMAIN ev |-> ToldOf(a, ev[k])])
InHand(w, fs, q) ==
    IF q \in DOMAIN fs /\ fs[q].data # <<>> THEN <<ToldBy(w[fs[q].data[1]])>> ELSE <<>>

EventsInv ==
    /\ \E S : events \in Seq(S)
    /\ \A k \in DOMAIN events : events[k].kind = "es" => events[k].frame.data \in Seq(1 .. nTaken)
InStep ==
    \A q \in EncodedPids :
        SentIn(wire, q, nTaken) = Tell(events, q, arrived) \o InHand(wire, mEsFrames, q)

LinkInv == MuxInv /\ ArrivedInv /\ TablesInv /\ FramesInv /\ EventsInv /\ InStep
-----------------------------------------------------------------------------
(***************************************************************************)
(* Sets of numbers in ascending order.                                     *)
(***************************************************************************)
LEMMA RankIsNumber ==
    ASSUME NEW S, IsFiniteSet(S), NEW x \in S
    PROVE  Rank(S, x) \in Nat /\ Rank(S, x) <= Cardinality(S) /\ Cardinality(S) \in Nat
<1>1. {y \in S : y <= x} \in SUBSET S
  OBVIOUS
<1> QED  BY <1>1, FS_Subset, FS_CardinalityType DEF Rank

LEMMA RankGrows ==
    ASSUME NEW S, S \subseteq Nat, IsFiniteSet(S), NEW x \in S, NEW y \in S, x < y
    PROVE  Rank(S, x) < Rank(S, y)
<1> DEFINE X == {z \in S : z <= x}
           Y == {z \in S : z <= y}
<1>n. \A a, b, c \in Nat : (a <= b /\ b < c => a <= c) /\ (b < c => ~(c <= b)) /\ a <= a
  OBVIOUS
<1>1. X \subseteq S /\ Y \subseteq S /\ X \subseteq Y /\ y \in Y /\ y \notin X
  BY <1>n
<1>2. IsFiniteSet(X) /\ IsFiniteSet(Y)
  BY <1>1, FS_Subset
<1>3. Cardinality(X) <= Cardinality(Y) /\ Cardinality(X) # Cardinality(Y)
  <2> HIDE DEF X, Y
  <2>1. X \in SUBSET Y
    BY <1>1
  <2> QED  BY <1>1, <1>2, <2>1, FS_Subset
<1>4. Cardinality(X) \in Nat /\ Cardinality(Y) \in Nat
  BY <1>2, FS_CardinalityType
<1> QED  BY <1>3, <1>4 DEF Rank

(* InOrder lists the members of the set.                                   *)
LEMMA InOrderIn ==
    ASSUME NEW S, S \subseteq Nat, IsFiniteSet(S), NEW i \in 1 .. Cardinality(S)
    PROVE  InOrder(S)[i] \in S /\ Rank(S, InOrder(S)[i]) = i
<1> DEFINE T == 1 .. Cardinality(S)
           f == [x \in S |-> Rank(S, x)]
<1>1. Cardinality(S) \in Nat
  BY FS_CardinalityType
<1>2. IsFiniteSet(T) /\ Cardinality(T) = Cardinality(S)
  BY <1>1, FS_Interval
<1>3. ASSUME NEW x \in S
      PROVE  Rank(S, x) \in T
  <2>1. x \in {y \in S : y <= x} /\ {y \in S : y <= x} \in SUBSET S
    OBVIOUS
  <2>2. IsFiniteSet({y \in S : y <= x})
    BY <2>1, FS_Subset
  <2>3. Rank(S, x) # 0
    BY <2>1, <2>2, FS_EmptySet DEF Rank
  <2> QED  BY <1>1, <2>3, RankIsNumber
<1>4. \A x, y \in S : Rank(S, x) = Rank(S, y) => x = y
  <2> TAKE x \in S, y \in S
  <2>1. Rank(S, x) \in Nat /\ Rank(S, y) \in Nat
    BY RankIsNumber
  <2>2. x < y => Rank(S, x) < Rank(S, y)
    BY RankGrows
  <2>3. y < x => Rank(S, y) < Rank(S, x)
    BY RankGrows
  <2> QED  BY <2>1, <2>2, <2>3
<1>5. f \in Injection(S, T)
  BY <1>3, <1>4 DEF Injection, IsInjective
<1>6. f \in Surjection(S, T)
  <2> HIDE DEF f, T
  <2> QED  BY <1>2, <1>5, FS_Injection
<1>7. \E x \in S : Rank(S, x) = i
  BY <1>6 DEF Surjection
<1>8. {y \in S : Rank(S, y) = i} # {}
  BY <1>7
<1>9. InOrder(S)[i] \in {y \in S : Rank(S, y) = i}
  BY <1>8 DEF InOrder
<1> QED  BY <1>9

(* The least members of a set come first.                                  *)
LEMMA InOrderFirst ==
    ASSUME NEW S, S \subseteq Nat, IsFiniteSet(S), NEW T, T \subseteq S,
           \A x \in T, y \in S \ T : x < y
    PROVE  /\ Cardinality(T) \in Nat /\ Cardinality(S) \in Nat
           /\ Cardinality(T) <= Cardinality(S) /\ IsFiniteSet(T)
           /\ \A i \in 1 .. Cardinality(T) : InOrder(T)[i] = InOrder(S)[i]
<1>1. /\ Cardinality(T) \in Nat /\ Cardinality(S) \in Nat
      /\ Cardinality(T) <= Cardinality(S) /\ IsFiniteSet(T)
  BY FS_Subset, FS_CardinalityType
<1>2. ASSUME NEW x \in T
      PROVE  Rank(T, x) = Rank(S, x)
  <2>0. \A y \in S : y <= x => y \in T
    <3>1. \A a, b \in Nat : a < b => ~(b <= a)
      OBVIOUS
    <3> QED  BY <3>1
  <2>1. {y \in T : y <= x} = {y \in S : y <= x}
    BY <2>0
  <2> QED  BY <2>1 DEF Rank
<1>3. ASSUME NEW x \in S \ T
      PROVE  Cardinality(T) < Rank(S, x)
  <2> DEFINE X == {y \in S : y <= x}
  <2>1. T \cup {x} \subseteq X /\ X \subseteq S
    OBVIOUS
  <2>2. IsFiniteSet(X) /\ Cardinality(X) \in Nat
    BY <2>1, FS_Subset, FS_CardinalityType
  <2>3. Cardinality(T \cup {x}) = Cardinality(T) + 1
    BY <1>1, FS_AddElement
  <2>4. Cardinality(T \cup {x}) <= Cardinality(X)
    <3> HIDE DEF X
    <3> QED  BY <2>1, <2>2, FS_Subset
  <2> QED  BY <1>1, <2>2, <2>3, <2>4 DEF Rank
<1>4. ASSUME NEW i \in 1 .. Cardinality(T)
      PROVE  InOrder(T)[i] = InOrder(S)[i]
  <2>1. \A y \in S \ T : Rank(S, y) # i
    <3> TAKE y \in S \ T
    <3>1. Rank(S, y) \in Nat
      BY RankIsNumber
    <3> QED  BY <1>1, <1>3, <3>1
  <2>2. {y \in T : Rank(T, y) = i} = {y \in S : Rank(S, y) = i}
    BY <1>2, <2>1
  <2>3. i \in 1 .. Cardinality(S)
    BY <1>1
  <2> QED  BY <2>2, <2>3 DEF InOrder
<1> QED  BY <1>1, <1>4

LEMMA PicksSame ==
    ASSUME NEW S, S \subseteq Nat, IsFiniteSet(S), NEW g, NEW h, \A x \in S : g[x] = h[x]
    PROVE  Picks(S, g) = Picks(S, h)
<1>1. \A i \in 1 .. Cardinality(S) : g[InOrder(S)[i]] = h[InOrder(S)[i]]
  BY InOrderIn
<1> QED  BY <1>1 DEF Picks

LEMMA PicksSeq ==
    ASSUME NEW S, IsFiniteSet(S), NEW g
    PROVE  /\ Cardinality(S) \in Nat /\ Len(Picks(S, g)) = Cardinality(S)
           /\ DOMAIN Picks(S, g) = 1 .. Cardinality(S)
           /\ \E X : Picks(S, g) \in Seq(X)
<1>1. Cardinality(S) \in Nat
  BY FS_CardinalityType
<1> DEFINE X == {Picks(S, g)[i] : i \in 1 .. Cardinality(S)}
<1>2. Picks(S, g) \in [1 .. Cardinality(S) -> X]
  BY DEF Picks
<1>3. Picks(S, g) \in Seq(X)
  BY <1>1, <1>2
<1>4. Len(Picks(S, g)) = Cardinality(S) /\ DOMAIN Picks(S, g) = 1 .. Cardinality(S)
  BY <1>1, <1>2, <1>3
<1> QED  BY <1>1, <1>3, <1>4

LEMMA PicksFirst ==
    ASSUME NEW S, S \subseteq Nat, IsFiniteSet(S), NEW T, T \subseteq S,
           \A x \in T, y \in S \ T : x < y, NEW g
    PROVE  Picks(T, g) = SubSeq(Picks(S, g), 1, Cardinality(T))
<1>1. /\ Cardinality(T) \in Nat /\ Cardinality(S) \in Nat
      /\ Cardinality(T) <= Cardinality(S)
      /\ \A i \in 1 .. Cardinality(T) : InOrder(T)[i] = InOrder(S)[i]
  BY InOrderFirst
<1>2. SubSeq(Picks(S, g), 1, Cardinality(T)) = [i \in 1 .. Cardinality(T) |-> Picks(S, g)[i]]
  <2>1. PICK X : Picks(S, g) \in Seq(X) /\ Len(Picks(S, g)) = Cardinality(S)
    BY PicksSeq
  <2> QED  BY <1>1, <2>1
<1>3. \A i \in 1 .. Cardinality(T) : Picks(S, g)[i] = g[InOrder(T)[i]]
  BY <1>1 DEF Picks
<1> QED  BY <1>2, <1>3 DEF Picks

(* One more at the end.                                                    *)
Numbers(S)     == S \subseteq Nat /\ IsFiniteSet(S)
Above(S, m)    == m \in Nat /\ \A x \in S : x < m
Alike(S, g, h) == \A x \in S : g[x] = h[x]
With(S, m)     == S \cup {m}
Then(s, e)     == s \o <<e>>

LEMMA PicksMore ==
    ASSUME NEW S, NEW m, NEW g, NEW h, Numbers(S), Above(S, m), Alike(S, g, h)
    PROVE  Picks(With(S, m), h) = Then(Picks(S, g), h[m])
<1>0. /\ S \subseteq Nat /\ IsFiniteSet(S) /\ m \in Nat /\ \A x \in S : x < m
      /\ \A x \in S : g[x] = h[x]
  BY DEF Numbers, Above, Alike
<1> USE <1>0
<1> DEFINE U == S \cup {m}
           n == Cardinality(S)
<1>1. IsFiniteSet(U) /\ Cardinality(U) = n + 1 /\ n \in Nat /\ U \subseteq Nat
  <2>1. m \notin S  OBVIOUS
  <2>2. IsFiniteSet(U) /\ Cardinality(U) = n + 1  BY <2>1, FS_AddElement
  <2>3. n \in Nat  BY FS_CardinalityType
  <2> QED  BY <2>2, <2>3
<1>2. \A i \in 1 .. n : InOrder(U)[i] = InOrder(S)[i]
  <2>1. S \subseteq U /\ \A x \in S, y \in U \ S : x < y
    OBVIOUS
  <2> HIDE DEF U
  <2> QED  BY <1>1, <2>1, InOrderFirst
<1>3. InOrder(U)[n + 1] = m
  <2>1. Rank(U, m) = n + 1
    <3>0. \A y \in U : y <= m
      OBVIOUS
    <3>1. {y \in U : y <= m} = U
      <4> HIDE DEF U
      <4> QED  BY <3>0
    <3> QED  BY <1>1, <3>1 DEF Rank
  <2>2. InOrder(U)[n + 1] \in U /\ Rank(U, InOrder(U)[n + 1]) = n + 1
    <3>1. n + 1 \in 1 .. Cardinality(U)
      <4> HIDE DEF U, n
      <4> QED  BY <1>1
    <3> HIDE DEF U, n
    <3> QED  BY <1>1, <3>1, InOrderIn
  <2>3. \A y \in U : y < m => Rank(U, y) < Rank(U, m)
    <3>1. m \in U
      OBVIOUS
    <3> HIDE DEF U
    <3> QED  BY <1>1, <3>1, RankGrows
  <2>4. \A y \in U : y < m => Rank(U, y) # n + 1
    <3> TAKE y \in U
    <3>1. Rank(U, y) \in Nat
      <4> HIDE DEF U
      <4> QED  BY <1>1, RankIsNumber
    <3> QED  BY <1>1, <2>1, <2>3, <3>1
  <2> QED  BY <2>2, <2>4
<1>4. Picks(S, g) = Picks(S, h)
  BY PicksSame
<1>5. PICK X : Picks(S, h) \in Seq(X) /\ Len(Picks(S, h)) = n
  BY PicksSeq
<1>6. Picks(S, h) \o <<h[m]>> = [i \in 1 .. n + 1 |-> IF i <= n THEN Picks(S, h)[i] ELSE h[m]]
  BY <1>1, <1>5
<1>7. \A i \in 1 .. n + 1 : h[InOrder(U)[i]] = IF i <= n THEN Picks(S, h)[i] ELSE h[m]
  BY <1>1, <1>2, <1>3 DEF Picks
<1>8. Picks(U, h) = [i \in 1 .. n + 1 |-> h[InOrder(U)[i]]]
  BY <1>1 DEF Picks
<1> QED  BY <1>4, <1>6, <1>7, <1>8 DEF With, Then
-----------------------------------------------------------------------------
(***************************************************************************)
(* The packets of the multiplexer in a row.                                *)
(***************************************************************************)

(* The first packet of a frame carries its header. No packet announces a   *)
(* discontinuity.                                                          *)
LEMMA PesPacketHead ==
    ASSUME NEW f \in FrameShapes, NEW frame \in Frame, NEW first \in BOOLEAN,
           NEW pos \in Nat, pos < f.size, NEW cc \in Cc
    PROVE  LET p == PesPacket(f, frame, first, pos, cc)
           IN  (first => p.load.pes = PesOf(f) /\ p.af.ra = f.ra) /\ ~p.af.disc
PROOF
<1> DEFINE p  == PesPacket(f, frame, first, pos, cc)
           in == f.size - pos
<1>0. in \in Nat \ {0} /\ f.ra \in BOOLEAN  BY MuxerAssumption DEF Shape
<1>1. PICK h \in Packet :
        /\ h = Unstuffed(f, frame, first, pos, cc)
        /\ h.load \in PesData
        /\ DataStart(h) \in 4 .. 31
        /\ \/ h.afc = mPayloadOnly /\ h.af = NoAf
           \/ h.afc = mPayloadAdaptionBoth
  <2> DEFINE u == Unstuffed(f, frame, first, pos, cc)
  <2>1. /\ u \in Packet
        /\ u.pid = f.pid /\ u.cc = cc /\ u.pusi = first
        /\ u.bytes = kTsPacketSize_188
        /\ u.load \in PesData /\ PesBytes(u) \in Nat
        /\ \/ u.afc = mPayloadOnly /\ u.af = NoAf /\ AfBytes(u) = 0
           \/ u.afc = mPayloadAdaptionBoth /\ u.af.len \in {1, 7} /\ AfBytes(u) = 1 + u.af.len
        /\ DataStart(u) \in 4 .. 31
    BY UnstuffedLayout, Zenon
  <2>2. u = Unstuffed(f, frame, first, pos, cc)  OBVIOUS
  <2> HIDE DEF u
  <2> QED  BY <2>1, <2>2, Zenon
<1>2. (first => h.load.pes = PesOf(f) /\ h.af.ra = f.ra) /\ ~h.af.disc
  <2>1. h = Unstuffed(f, frame, first, pos, cc)  BY <1>1
  <2>2. h.load = PesLoad(IF first THEN PesOf(f) ELSE NoPes, Run(frame, pos, 0))
    BY <2>1 DEF Unstuffed
  <2>3. h.af = IF ~(first /\ (f.pid = PcrPid \/ f.ra)) THEN NoAf
               ELSE IF f.pid = PcrPid THEN PcrAf(f) ELSE RaAf
    BY <2>1 DEF Unstuffed
  <2>4. first => h.load.pes = PesOf(f)  BY <2>2 DEF PesLoad
  <2>5. NoAf.ra = FALSE /\ ~NoAf.disc /\ RaAf.ra = TRUE /\ ~RaAf.disc /\ PcrAf(f).ra = f.ra /\ ~PcrAf(f).disc
    BY DEF NoAf, RaAf, PcrAf
  <2>6. ~h.af.disc /\ (first => h.af.ra = f.ra)
    <3>1. CASE ~(first /\ (f.pid = PcrPid \/ f.ra))  BY <1>0, <2>3, <2>5, <3>1
    <3>2. CASE first /\ f.pid = PcrPid  BY <2>3, <2>5, <3>2
    <3>3. CASE first /\ f.pid # PcrPid /\ f.ra  BY <1>0, <2>3, <2>5, <3>3
    <3> QED  BY <3>1, <3>2, <3>3, Zenon
  <2> QED  BY <2>4, <2>6
<1>3. BodySize(h) \in 157 .. 184  BY <1>1 DEF BodySize, kTsPacketSize_188
<1> DEFINE Started == (first => p.load.pes = PesOf(f) /\ p.af.ra = f.ra) /\ ~p.af.disc
<1>4. ASSUME BodySize(h) <= in PROVE Started
  <2>1. p = Filled(h, BodySize(h)) /\ BodySize(h) \in Nat  BY <1>1, <1>3, <1>4 DEF PesPacket
  <2>2. p.load.pes = h.load.pes /\ p.af = h.af  BY <1>1, <2>1, FilledFields
  <2> HIDE DEF p
  <2> QED  BY <1>2, <2>2
<1>5. ASSUME ~(BodySize(h) <= in) PROVE Started
  <2> DEFINE stuff == BodySize(h) - in
             q == Stuffed(h, stuff)
  <2>1. stuff \in Nat \ {0}  BY <1>0, <1>3, <1>5
  <2>2. p = Filled(q, in)  BY <1>1, <1>5 DEF PesPacket
  <2>3. q.af.ra = h.af.ra /\ q.af.disc = h.af.disc
    <3> HIDE DEF stuff
    <3>1. h.af \in [len : Nat, disc : BOOLEAN, ra : BOOLEAN, pcr : Nat \cup {NoPcr}]
      BY DEF Packet
    <3>2. CASE h.afc = mPayloadOnly /\ h.af = NoAf
      <4>1. q = [h EXCEPT !.afc = mPayloadAdaptionBoth, !.af = StuffingAf(stuff)]
        BY <3>2 DEF Stuffed, hasAdaptationField, mPayloadOnly, mPayloadAdaptionBoth, mAdaptionOnly
      <4>2. q.af = StuffingAf(stuff)  BY <4>1 DEF Packet
      <4> QED  BY <3>2, <4>2 DEF StuffingAf, NoAf
    <3>3. CASE h.afc = mPayloadAdaptionBoth
      <4>1. q = [h EXCEPT !.af = [h.af EXCEPT !.len = h.af.len + stuff]]
        BY <3>3 DEF Stuffed, hasAdaptationField
      <4>2. q.af = [h.af EXCEPT !.len = h.af.len + stuff]  BY <4>1 DEF Packet
      <4> QED  BY <3>1, <4>2
    <3> QED  BY <1>1, <3>2, <3>3
  <2>4. q \in Packet /\ q.load = h.load
    <3> HIDE DEF stuff
    <3> QED  BY <1>1, <2>1, StuffedFields
  <2> HIDE DEF q
  <2>5. p.load.pes = q.load.pes /\ p.af = q.af  BY <1>0, <1>1, <2>2, <2>4, FilledFields
  <2> HIDE DEF p
  <2> QED  BY <1>2, <2>3, <2>4, <2>5
<1> QED  BY <1>4, <1>5

(* What a packet of createPes is.                                          *)
LEMMA PesPacketMade ==
    ASSUME NEW f \in FrameShapes, NEW frame \in Frame, NEW first \in BOOLEAN,
           NEW pos \in Nat, pos < f.size, NEW cc \in Cc, first <=> pos = 0,
           frame.size = f.size, frame.no \in 1 .. MaxCalls, frame.key \in RandomAccessArgs
    PROVE  LET p == PesPacket(f, frame, first, pos, cc)
           IN  /\ p \in Packet /\ IsPes(p) /\ p.pusi = first /\ PartOf(f, p) /\ Made(p)
               /\ p.pid = f.pid /\ p.load.run.frame = frame /\ p.load.run.from = pos
               /\ EndOf(p.load.run) = pos + p.load.run.len
PROOF
<1> DEFINE p == PesPacket(f, frame, first, pos, cc)
           r == p.load.run
<1>1. /\ IsPes(p) /\ p.pusi = first
      /\ r \in [frame : Frame, from : Nat, len : Nat \ {0}]
      /\ r.frame = frame /\ r.from = pos /\ r.len <= f.size - pos
  BY PesPacketRun
<1>2. p \in Packet /\ Fits(p) /\ p.pid = f.pid /\ hasPayload(p.afc)  BY PesPacketLayout
<1>3. (first => p.load.pes = PesOf(f) /\ p.af.ra = f.ra) /\ ~p.af.disc  BY PesPacketHead, Zenon
<1>4. f.size \in Nat  BY MuxerAssumption DEF Shape
<1> HIDE DEF p
<1>5. EndOf(r) = pos + r.len /\ EndOf(r) <= f.size
  <2>1. r.len \in Nat  BY <1>1
  <2> QED  BY <1>1, <1>4, <2>1 DEF EndOf
<1>6. PartOf(f, p)  BY <1>1, <1>2, <1>3, <1>5 DEF PartOf
<1>7. Made(p)  BY <1>1, <1>2, <1>5, <1>6 DEF Made
<1>8. p = PesPacket(f, frame, first, pos, cc)  BY DEF p
<1> HIDE DEF r
<1>9. r = p.load.run  BY DEF r
<1> QED  BY <1>1, <1>2, <1>5, <1>6, <1>7, <1>8, <1>9

(* The kinds of packets there are.                                         *)
LEMMA MadeKinds ==
    ASSUME NEW p, Made(p)
    PROVE  /\ p.load.kind \in {"pat", "pmt", "none", "pes"}
           /\ p.load.kind = "pat" => \E cc \in Cc : p = createPat(cc)
           /\ p.load.kind = "pmt" => \E cc \in Cc : p = createPmt(cc)
           /\ p.load.kind = "none" => p = PcrPacket(p.af.pcr)
           /\ p.load.kind = "pes" => IsPes(p) /\ \E f \in FrameShapes : PartOf(f, p)
PROOF
<1>1. \A cc : createPat(cc).load.kind = "pat" /\ createPmt(cc).load.kind = "pmt"
  BY DEF createPat, createPmt, TablePacket, PatLoad, PmtLoad
<1>2. \A n : PcrPacket(n).load.kind = "none"  BY DEF PcrPacket, NoLoad
<1> QED  BY <1>1, <1>2 DEF Made, IsPes

LEMMA RowsMore ==
    ASSUME NEW s \in Seq(Packet), NEW p \in Packet, NEW open, Rows(s, open), Made(p),
           p.load.kind = "pmt" => Len(s) \in DOMAIN s /\ s[Len(s)].load.kind = "pat",
           IF IsPes(p) /\ ~p.pusi THEN open = {CarriesOnAt(p)} ELSE open = {}
    PROVE  Rows(s \o <<p>>, IF IsPes(p) THEN {Cursor(p)} ELSE {})
PROOF
<1> DEFINE u == s \o <<p>>
           n == Len(s) + 1
           now == IF IsPes(p) THEN {Cursor(p)} ELSE {}
<1>p. IsPes(p) => now = {Cursor(p)}  OBVIOUS
<1>q. now # {} => IsPes(p) /\ now = {Cursor(p)}  OBVIOUS
<1>1. /\ u \in Seq(Packet) /\ DOMAIN u = 1 .. n /\ Len(u) = n /\ Len(s) \in Nat
      /\ DOMAIN s = 1 .. Len(s)
      /\ u[n] = p /\ \A i \in 1 .. Len(s) : u[i] = s[i]
  BY ConcatOne, LenProperties
<1> HIDE DEF u, now
<1>2. \A i \in DOMAIN u : (i \in DOMAIN s /\ u[i] = s[i]) \/ (i = n /\ u[i] = p)  BY <1>1
<1>3. \A i \in DOMAIN u : Made(u[i])  BY <1>2 DEF Rows
<1>4. ASSUME NEW i \in DOMAIN u, u[i].load.kind = "pmt"
      PROVE  i - 1 \in DOMAIN u /\ u[i - 1].load.kind = "pat"
  <2>1. CASE i \in DOMAIN s /\ u[i] = s[i]
    <3>1. i - 1 \in DOMAIN s /\ s[i - 1].load.kind = "pat"  BY <1>4, <2>1 DEF Rows
    <3> QED  BY <1>1, <3>1
  <2>2. CASE i = n /\ u[i] = p
    <3>1. n - 1 = Len(s) /\ Len(s) \in DOMAIN s /\ s[Len(s)].load.kind = "pat"
      BY <1>1, <1>4, <2>2
    <3> QED  BY <1>1, <2>2, <3>1
  <2> QED  BY <1>2, <2>1, <2>2
<1>5. ASSUME NEW i \in DOMAIN u, IsPes(u[i]), ~u[i].pusi
      PROVE  i - 1 \in DOMAIN u /\ IsPes(u[i - 1]) /\ Cursor(u[i - 1]) = CarriesOnAt(u[i])
  <2>1. CASE i \in DOMAIN s /\ u[i] = s[i]
    <3>1. i - 1 \in DOMAIN s /\ IsPes(s[i - 1]) /\ Cursor(s[i - 1]) = CarriesOnAt(s[i])
      BY <1>5, <2>1 DEF Rows
    <3> QED  BY <1>1, <2>1, <3>1
  <2>2. CASE i = n /\ u[i] = p
    <3>1. open = {CarriesOnAt(p)}  BY <1>5, <2>2
    <3>2. Len(s) \in DOMAIN s /\ IsPes(s[Len(s)]) /\ open = {Cursor(s[Len(s)])}
      BY <3>1 DEF Rows
    <3>3. Cursor(s[Len(s)]) = CarriesOnAt(p)  BY <3>1, <3>2
    <3>4. n - 1 = Len(s)  BY <1>1
    <3> QED  BY <1>1, <2>2, <3>2, <3>3, <3>4
  <2> QED  BY <1>2, <2>1, <2>2
<1>6. ASSUME NEW i \in DOMAIN u, Mid(u[i])
      PROVE  IF i = Len(u) THEN Cursor(u[i]) \in now ELSE IsPes(u[i + 1]) /\ ~u[i + 1].pusi
  <2>1. CASE i \in DOMAIN s /\ u[i] = s[i] /\ i # Len(s)
    <3>1. IsPes(s[i + 1]) /\ ~s[i + 1].pusi  BY <1>6, <2>1 DEF Rows
    <3> QED  BY <1>1, <2>1, <3>1
  <2>2. CASE i \in DOMAIN s /\ u[i] = s[i] /\ i = Len(s)
    <3>1. Cursor(s[i]) \in open  BY <1>6, <2>2 DEF Rows
    <3>2. IsPes(p) /\ ~p.pusi  BY <3>1
    <3>3. i = Len(s)  BY <2>2
    <3>4. Len(s) # Len(u)
      <4>1. Len(u) = Len(s) + 1 /\ Len(s) \in Nat  BY <1>1
      <4> QED  BY <4>1
    <3>5. u[Len(s) + 1] = p  BY <1>1
    <3> QED  BY <3>2, <3>3, <3>4, <3>5
  <2>3. CASE i = n /\ u[i] = p
    <3>1. IsPes(p) /\ i = Len(u)  BY <1>1, <1>6, <2>3 DEF Mid
    <3>2. Cursor(u[i]) = Cursor(p)  BY <2>3
    <3>3. Cursor(u[i]) \in now  BY <1>p, <3>1, <3>2
    <3> QED  BY <3>1, <3>3
  <2> QED  BY <1>2, <2>1, <2>2, <2>3
<1>7. now # {} => Len(u) \in DOMAIN u /\ IsPes(u[Len(u)]) /\ now = {Cursor(u[Len(u)])}
  BY <1>1, <1>q
<1> QED  BY <1>3, <1>4, <1>5, <1>6, <1>7 DEF Rows, u, now

(* A frame that has all its bytes is not open any more.                    *)
LEMMA RowsClose ==
    ASSUME NEW s, NEW open, Rows(s, open), \A o \in open : o.end = o.frame.size
    PROVE  Rows(s, {})
PROOF
<1>1. ASSUME NEW i \in DOMAIN s, Mid(s[i]) PROVE Cursor(s[i]) \notin open
  <2>1. PICK f \in FrameShapes : PartOf(f, s[i])  BY <1>1, MadeKinds DEF Rows, Mid, IsPes
  <2>2. EndOf(s[i].load.run) \in Nat /\ s[i].load.run.frame.size \in Nat
    BY <2>1 DEF PartOf, EndOf, Frame
  <2>3. EndOf(s[i].load.run) # s[i].load.run.frame.size  BY <1>1, <2>2 DEF Mid
  <2> QED  BY <2>3 DEF Cursor
<1>2. \A i \in DOMAIN s : Mid(s[i]) =>
          IF i = Len(s) THEN Cursor(s[i]) \in {} ELSE IsPes(s[i + 1]) /\ ~s[i + 1].pusi
  BY <1>1 DEF Rows
<1> QED  BY <1>2 DEF Rows

LEMMA RowNext ==
    /\ TypeInv /\ Holder /\ EmptyOutside /\ Position /\ RowInv /\ CallsInv
    /\ TypeInv' /\ Holder' /\ [Next]_vars
    => RowInv'
PROOF
<1> SUFFICES ASSUME TypeInv, Holder, EmptyOutside, Position, RowInv, CallsInv,
                    TypeInv', Holder', [Next]_vars
             PROVE  RowInv'
  OBVIOUS
<1>a. ASSUME Stream' = Stream, Open' = Open, wire' = wire PROVE RowInv'
  BY <1>a DEF RowInv
<1>s. Stream \in Seq(Packet)  BY StreamType DEF TypeInv
<1>1. CASE UNCHANGED vars  BY <1>1, <1>a DEF vars, locals, Stream, Open
<1> SUFFICES ASSUME NEW t \in Threads, Call(t) \/ Lock(t) \/ Inside(t) PROVE RowInv'
  BY <1>1 DEF Next
<1>h. ASSUME pc[t] \in InsideMuxer PROVE mMuxMtx = t  BY <1>h DEF Holder
<1>k. ASSUME mMuxMtx = t, pc'[t] # "pes", mMuxMtx' = t PROVE Open' = {}
  BY <1>k DEF Open, Holder, InsideMuxer
<1>2. CASE Call(t)
  <2>1. /\ pc[t] # "pes" /\ pc'[t] # "pes"
        /\ \A u \in Threads \ {t} : /\ pc'[u] = pc[u] /\ lFirst'[u] = lFirst[u]
                                     /\ job'[u] = job[u] /\ mDataPos'[u] = mDataPos[u]
    BY <1>2 DEF Call, Goto, TypeInv, TypeOK
  <2>2. {u \in Threads : pc'[u] = "pes" /\ ~lFirst'[u]}
          = {u \in Threads \ {t} : pc[u] = "pes" /\ ~lFirst[u]}
    BY <2>1
  <2>3. {u \in Threads : pc[u] = "pes" /\ ~lFirst[u]}
          = {u \in Threads \ {t} : pc[u] = "pes" /\ ~lFirst[u]}
    BY <2>1
  <2>4. Open' = Open  BY <2>1, <2>2, <2>3 DEF Open
  <2> QED  BY <1>2, <2>4, <1>a, StreamStays DEF Call
<1>3. CASE Lock(t)
  <2>1. job[t].op \in {"encode", "pcr", "null"}
    BY <1>3, MuxerAssumption DEF Lock, Goto, TypeInv, OpOfCall
  <2>2. pc[t] # "pes" /\ pc'[t] # "pes" /\ \A u \in Threads \ {t} : pc'[u] = pc[u]
    BY <1>3, <2>1 DEF Lock, Goto, TypeInv, TypeOK
  <2>3. {u \in Threads : pc'[u] = "pes" /\ ~lFirst[u]} = {u \in Threads : pc[u] = "pes" /\ ~lFirst[u]}
    BY <2>2
  <2>4. Open' = Open  BY <1>3, <2>3 DEF Lock, locals, Open
  <2> QED  BY <1>3, <2>4, <1>a, StreamStays DEF Lock
<1>4. CASE Encode(t)
  <2>1. mMuxMtx = t /\ mMuxMtx' = t /\ wire' = wire
    BY <1>4, <1>h DEF Encode, Goto, InsideMuxer
  <2>2. Open = {} /\ Open' = {}
    <3>1. pc[t] = "encode" /\ lFirst[t] /\ lFirst' = lFirst
      BY <1>4 DEF Encode, Goto, Position
    <3>2. Open = {}  BY <2>1, <3>1, OpenIsHolders
    <3>3. Open' = {}  BY <2>1, <3>1 DEF Open, Holder, InsideMuxer
    <3> QED  BY <3>2, <3>3
  <2>3. CASE TablesDue(t)
    <3> DEFINE cc  == getCc(TableKey)
               pat == createPat(cc)
               pmt == createPmt(cc)
               v   == Stream \o <<pat>>
    <3>1. /\ cc \in Cc /\ pat \in Packet /\ pmt \in Packet /\ Stream' = v \o <<pmt>>
      BY <1>4, <2>3, EncodeEmits
    <3>2. /\ ~IsPes(pat) /\ ~IsPes(pmt) /\ pat.load.kind = "pat" /\ pmt.load.kind = "pmt"
          /\ Made(pat) /\ Made(pmt)
      BY <3>1 DEF createPat, createPmt, TablePacket, PatLoad, PmtLoad, IsPes, Made
    <3> HIDE DEF pat, pmt
    <3>3. v \in Seq(Packet) /\ Len(v) \in DOMAIN v /\ v[Len(v)] = pat
      BY <1>s, <3>1, ConcatOne, LenProperties
    <3>4. Rows(v, {})
      <4>1. Rows(v, IF IsPes(pat) THEN {Cursor(pat)} ELSE {})
        BY <1>s, <2>2, <3>1, <3>2, RowsMore DEF RowInv
      <4> QED  BY <3>2, <4>1
    <3> HIDE DEF v
    <3>5. Rows(v \o <<pmt>>, {})
      <4>1. Rows(v \o <<pmt>>, IF IsPes(pmt) THEN {Cursor(pmt)} ELSE {})
        BY <3>1, <3>2, <3>3, <3>4, RowsMore
      <4> QED  BY <3>2, <4>1
    <3> QED  BY <2>1, <2>2, <3>1, <3>5 DEF RowInv
  <2>4. CASE ~TablesDue(t)  BY <1>4, <1>a, <2>1, <2>2, <2>4, StreamStays
  <2> QED  BY <2>3, <2>4
<1>5. CASE CreatePes(t)
  <2> DEFINE f     == job[t].shape
             frame == job[t].frame
             pos   == mDataPos[t]
             pkt   == PesPacket(f, frame, lFirst[t], pos, getCc(f.type))
             r     == pkt.load.run
  <2>1. /\ mMuxMtx = t /\ job[t].op = "encode" /\ f \in FrameShapes /\ frame \in Frame
        /\ getCc(f.type) \in Cc /\ Stream' = Stream \o <<pkt>>
    BY <1>5, CreatePesEmits
  <2>2. /\ pc[t] = "pes" /\ pos < f.size /\ pos \in Nat /\ lFirst[t] \in BOOLEAN
        /\ lFirst[t] <=> pos = 0
        /\ frame.size = f.size
        /\ frame.no \in 1 .. MaxCalls /\ frame.key \in RandomAccessArgs
    <3>1. pc[t] = "pes" /\ pos < f.size  BY <1>5 DEF CreatePes
    <3>2. pos \in Nat /\ lFirst[t] \in BOOLEAN  BY DEF TypeInv, TypeOK
    <3>3. lFirst[t] <=> pos = 0  BY <3>1 DEF Position
    <3>4. frame.size = f.size /\ frame.no \in 1 .. MaxCalls /\ frame.key \in RandomAccessArgs
      BY <2>1 DEF CallsInv, TypeInv, TypeOK
    <3> QED  BY <3>1, <3>2, <3>3, <3>4
  <2>3. /\ pkt \in Packet /\ IsPes(pkt) /\ pkt.pusi = lFirst[t] /\ Made(pkt)
        /\ pkt.pid = f.pid /\ r.frame = frame /\ r.from = pos
        /\ EndOf(r) = pos + r.len
    BY <2>1, <2>2, PesPacketMade
  <2>4. /\ mDataPos' = [mDataPos EXCEPT ![t] = pos + r.len]
        /\ lFirst' = [lFirst EXCEPT ![t] = FALSE]
        /\ UNCHANGED <<pc, job, wire, mMuxMtx>>
    BY <1>5 DEF CreatePes
  <2> HIDE DEF pkt
  <2>5. Open = IF lFirst[t] THEN {} ELSE {[pid |-> f.pid, frame |-> frame, end |-> pos]}
    BY <2>1, <2>2, OpenIsHolders
  <2>6. IF IsPes(pkt) /\ ~pkt.pusi THEN Open = {CarriesOnAt(pkt)} ELSE Open = {}
    BY <2>2, <2>3, <2>5 DEF CarriesOnAt
  <2>7. pkt.load.kind # "pmt"  BY <2>3 DEF IsPes
  <2>8. Rows(Stream \o <<pkt>>, {Cursor(pkt)})
    <3>1. Rows(Stream \o <<pkt>>, IF IsPes(pkt) THEN {Cursor(pkt)} ELSE {})
      BY <1>s, <2>3, <2>6, <2>7, RowsMore DEF RowInv
    <3> QED  BY <2>3, <3>1
  <2>9. Open' = {Cursor(pkt)}
    <3>1. Cursor(pkt) = [pid |-> f.pid, frame |-> frame, end |-> pos + r.len]
      BY <2>3 DEF Cursor
    <3>2. mDataPos'[t] = pos + r.len /\ lFirst'[t] = FALSE  BY <2>4 DEF TypeInv, TypeOK
    <3>3. Open' = {[pid |-> job'[t].shape.pid, frame |-> job'[t].frame, end |-> mDataPos'[t]]}
      BY <2>1, <2>2, <2>4, <3>2 DEF Open, Holder, InsideMuxer
    <3> QED  BY <2>4, <3>1, <3>2, <3>3
  <2> QED  BY <2>1, <2>4, <2>8, <2>9 DEF RowInv
<1>6. CASE PesDone(t)
  <2>1. /\ mMuxMtx = t /\ mMuxMtx' = t /\ pc[t] = "pes" /\ pc'[t] = "out" /\ wire' = wire
        /\ job[t].op = "encode" /\ mDataPos[t] >= job[t].shape.size
    BY <1>6, <1>h DEF PesDone, Goto, InsideMuxer, TypeInv, TypeOK, OpOfCall
  <2>2. mDataPos[t] = job[t].frame.size
    <3>1. mDataPos[t] \in Nat /\ job[t].shape.size \in Nat /\ job[t].frame.size = job[t].shape.size
          /\ mDataPos[t] <= job[t].shape.size
      BY <2>1, EncodeJobFields DEF TypeInv, TypeOK, Position
    <3> QED  BY <2>1, <3>1
  <2>3. \A o \in Open : o.end = o.frame.size  BY <2>1, <2>2, OpenIsHolders
  <2>4. Rows(Stream, {})  BY <2>3, RowsClose DEF RowInv
  <2>5. Open' = {}  BY <2>1, <1>k
  <2>6. Stream' = Stream  BY <1>6, StreamStays
  <2> QED  BY <2>1, <2>4, <2>5, <2>6 DEF RowInv
<1>7. CASE CreatePcr(t)
  <2> DEFINE pkt == PcrPacket(nCalls[t])
  <2>1. mMuxMtx = t /\ pkt \in Packet /\ Stream' = Stream \o <<pkt>>
    BY <1>7, PcrEmits
  <2>2. ~IsPes(pkt) /\ pkt.load.kind = "none" /\ Made(pkt)
    BY DEF PcrPacket, NoLoad, IsPes, Made
  <2>3. Open = {} /\ Open' = {} /\ wire' = wire
    <3>1. pc[t] = "pcr" /\ pc'[t] = "out" /\ mMuxMtx' = t /\ wire' = wire
      BY <1>7, <2>1 DEF CreatePcr, Goto, TypeInv, TypeOK
    <3> QED  BY <2>1, <3>1, <1>k, OpenIsHolders
  <2> HIDE DEF pkt
  <2>4. Rows(Stream \o <<pkt>>, IF IsPes(pkt) THEN {Cursor(pkt)} ELSE {})
    BY <1>s, <2>1, <2>2, <2>3, RowsMore DEF RowInv
  <2> QED  BY <2>1, <2>2, <2>3, <2>4 DEF RowInv
<1>8. CASE CreateNull(t)
  BY <1>8, LinkAssumption DEF CreateNull, Goto, TypeInv, OpOfCall
<1>9. CASE Callback(t)
  <2>1. /\ mMuxMtx = t /\ mMuxMtx' = t /\ pc[t] = "out" /\ pc'[t] = "unlock"
        /\ wire' = wire \o lSb[t]
    BY <1>9, <1>h DEF Callback, Goto, InsideMuxer, TypeInv, TypeOK
  <2>2. Open = {} /\ Open' = {}  BY <2>1, <1>k, OpenIsHolders
  <2>3. Stream' = Stream  BY <1>9, StreamStays
  <2>4. wire' = Stream
    <3>1. t # NoThread  BY MuxerAssumption
    <3> QED  BY <2>1, <3>1 DEF Stream
  <2> QED  BY <2>2, <2>3, <2>4 DEF RowInv
<1>10. CASE Unlock(t)
  <2>1. mMuxMtx = t /\ pc[t] = "unlock" /\ pc'[t] = "idle" /\ mMuxMtx' = NoThread /\ wire' = wire
    BY <1>10, <1>h DEF Unlock, Goto, InsideMuxer, TypeInv, TypeOK
  <2>2. Open = {}  BY <2>1, OpenIsHolders
  <2>3. Open' = {}  BY <2>1, MuxerAssumption DEF Open, Holder, InsideMuxer
  <2>4. Stream' = Stream  BY <1>10, StreamStays
  <2> QED  BY <2>1, <2>2, <2>3, <2>4, <1>a
<1> QED  BY <1>2, <1>3, <1>4, <1>5, <1>6, <1>7, <1>8, <1>9, <1>10 DEF Inside
-----------------------------------------------------------------------------
(***************************************************************************)
(* Calls, and the starts they bring.                                       *)
(***************************************************************************)
LEMMA CallsNext ==
    TypeInv /\ CallsInv /\ [Next]_vars => CallsInv'
PROOF
<1> SUFFICES ASSUME TypeInv, CallsInv, [Next]_vars PROVE CallsInv'  OBVIOUS
<1> USE DEF TypeInv, CallsInv
<1>1. CASE UNCHANGED vars  BY <1>1 DEF vars, locals
<1> SUFFICES ASSUME NEW t \in Threads, Call(t) \/ Lock(t) \/ Inside(t) PROVE CallsInv'
  BY <1>1 DEF Next
<1>2. CASE Call(t)
  <2>1. /\ nCalls[t] \in Nat /\ nCalls[t] < MaxCalls /\ MaxCalls \in Nat
        /\ nCalls' = [nCalls EXCEPT ![t] = nCalls[t] + 1]
    BY <1>2, MuxerAssumption DEF Call, TypeOK
  <2>2. nCalls[t] + 1 \in 1 .. MaxCalls  BY <2>1
  <2>3. /\ \A u \in Threads \ {t} : job'[u] = job[u]
        /\ job'[t].op = "encode" =>
              job'[t].frame.no = nCalls[t] + 1 /\ job'[t].frame.key \in RandomAccessArgs
    BY <1>2 DEF Call, TypeOK
  <2>4. \A u \in Threads : nCalls'[u] = IF u = t THEN nCalls[t] + 1 ELSE nCalls[u]
    BY <2>1 DEF TypeOK
  <2> QED  BY <2>2, <2>3, <2>4
<1>3. CASE Lock(t) \/ Inside(t)
  <2>1. UNCHANGED <<job, nCalls>>
    BY <1>3 DEF Lock, Inside, Encode, CreatePes, PesDone, CreatePcr, CreateNull, Callback, Unlock, locals
  <2> QED  BY <2>1
<1> QED  BY <1>2, <1>3

LEMMA StartNext ==
    /\ TypeInv /\ Holder /\ EmptyOutside /\ Position /\ StartInv /\ TypeInv' /\ Holder' /\ [Next]_vars
    => StartInv'
PROOF
<1> SUFFICES ASSUME TypeInv, Holder, EmptyOutside, Position, StartInv, TypeInv', Holder',
                    [Next]_vars
             PROVE  StartInv'
  OBVIOUS
<1> DEFINE Due(u) == pc[u] = "encode" \/ (pc[u] = "pes" /\ lFirst[u])
           n == Len(Stream)
           m == Len(wire)
<1>s. /\ Stream \in Seq(Packet) /\ n \in Nat /\ m \in Nat /\ m <= n
      /\ DOMAIN Stream = 1 .. n
  BY StreamType, WireBegins DEF TypeInv
<1>o. /\ \A i, k \in StartsInCall : i = k
      /\ \A u \in Threads : Due(u) => StartsInCall = {}
  BY DEF StartInv
<1>i. ASSUME \A i, k \in StartsInCall' : i = k,
             \A u \in Threads : Due(u)' => StartsInCall' = {}
      PROVE  StartInv'
  BY <1>i DEF StartInv
<1>a. ASSUME Stream' = Stream, wire' = wire, \A u \in Threads : Due(u)' => Due(u) \/ StartsInCall = {}
      PROVE  StartInv'
  <2>1. StartsInCall' = StartsInCall  BY <1>a DEF StartsInCall, Starts
  <2> QED  BY <1>a, <1>i, <1>o, <2>1
<1>b. ASSUME NEW p \in Packet, ~IsStart(p)
      PROVE  Starts(Stream \o <<p>>, m + 1, n + 1) = StartsInCall
  <2>1. \A k \in 1 .. n : (Stream \o <<p>>)[k] = Stream[k]  BY <1>s, ConcatOne
  <2>2. (Stream \o <<p>>)[n + 1] = p  BY <1>s, ConcatOne
  <2>3. m + 1 .. n + 1 = (m + 1 .. n) \cup {n + 1}  BY <1>s
  <2>4. \A k \in m + 1 .. n : k \in 1 .. n  BY <1>s
  <2> QED  BY <1>b, <2>1, <2>2, <2>3, <2>4 DEF Starts, StartsInCall
<1>1. CASE UNCHANGED vars  BY <1>1, <1>a DEF vars, locals, Stream
<1> SUFFICES ASSUME NEW t \in Threads, Call(t) \/ Lock(t) \/ Inside(t) PROVE StartInv'
  BY <1>1 DEF Next
<1>h. ASSUME pc[t] \in InsideMuxer PROVE mMuxMtx = t  BY <1>h DEF Holder
<1>k. ASSUME mMuxMtx' = t, ~Due(t)' PROVE \A u \in Threads : ~Due(u)'
  BY <1>k DEF Holder, InsideMuxer
<1>2. CASE Call(t)
  <2>1. \A u \in Threads : Due(u)' => Due(u)  BY <1>2 DEF Call, Goto, TypeInv, TypeOK
  <2> QED  BY <1>2, <2>1, <1>a, StreamStays DEF Call
<1>3. CASE Lock(t)
  <2>1. Stream = wire  BY <1>3 DEF Lock, Stream
  <2>2. StartsInCall = {}
    <3>1. m + 1 .. m = {}  BY <1>s
    <3> QED  BY <2>1, <3>1 DEF StartsInCall, Starts
  <2> QED  BY <1>3, <2>2, <1>a, StreamStays DEF Lock
<1>4. CASE Encode(t)
  <2>1. /\ Due(t) /\ pc[t] = "encode" /\ wire' = wire
        /\ mMuxMtx' = mMuxMtx /\ mMuxMtx = t
    BY <1>4, <1>h DEF Encode, Goto, InsideMuxer
  <2>2. StartsInCall = {}  BY <1>o, <2>1
  <2>3. CASE TablesDue(t)
    <3> DEFINE cc  == getCc(TableKey)
               pat == createPat(cc)
               pmt == createPmt(cc)
               u   == (Stream \o <<pat>>) \o <<pmt>>
    <3>1. cc \in Cc /\ Stream' = u  BY <1>4, <2>3, EncodeEmits
    <3>2. /\ Len(u) = n + 2 /\ \A k \in 1 .. n : u[k] = Stream[k]
          /\ u[n + 1] = pat /\ u[n + 2] = pmt /\ ~IsStart(pat) /\ ~IsStart(pmt)
      BY <1>s, <3>1, TablesArrive
    <3> HIDE DEF u
    <3>3. Starts(u, m + 1, n + 2) = {}
      <4>1. m + 1 .. n + 2 = (m + 1 .. n) \cup {n + 1, n + 2}  BY <1>s
      <4>2. \A k \in m + 1 .. n : k \in 1 .. n /\ ~IsStart(Stream[k])
        BY <1>s, <2>2 DEF StartsInCall, Starts
      <4>3. \A k \in m + 1 .. n + 2 : ~IsStart(u[k])  BY <3>2, <4>1, <4>2
      <4> QED  BY <4>3 DEF Starts
    <3>4. StartsInCall' = {}  BY <2>1, <3>1, <3>2, <3>3 DEF StartsInCall
    <3> QED  BY <1>i, <3>4
  <2>4. CASE ~TablesDue(t)  BY <1>4, <1>a, <2>1, <2>2, <2>4, StreamStays
  <2> QED  BY <2>3, <2>4
<1>5. CASE CreatePes(t)
  <2> DEFINE f   == job[t].shape
             pkt == PesPacket(f, job[t].frame, lFirst[t], mDataPos[t], getCc(f.type))
  <2>1. /\ mMuxMtx = t /\ f \in FrameShapes /\ job[t].frame \in Frame
        /\ getCc(f.type) \in Cc /\ pkt \in Packet /\ Stream' = Stream \o <<pkt>>
    BY <1>5, CreatePesEmits
  <2>2. /\ pc[t] = "pes" /\ mDataPos[t] < f.size /\ mDataPos[t] \in Nat /\ lFirst[t] \in BOOLEAN
        /\ lFirst'[t] = FALSE /\ mMuxMtx' = mMuxMtx /\ wire' = wire /\ pc' = pc
    BY <1>5 DEF CreatePes, TypeInv, TypeOK
  <2>3. IsStart(pkt) <=> lFirst[t]
    BY <2>1, <2>2, PesPacketRun DEF IsStart, IsPes
  <2>4. \A u \in Threads : ~Due(u)'
    <3>1. ~Due(t)'  BY <2>2
    <3> HIDE DEF Due
    <3> QED  BY <1>k, <2>1, <2>2, <3>1
  <2> HIDE DEF pkt
  <2>5. Len(Stream') = n + 1  BY <1>s, <2>1, ConcatOne
  <2>6. CASE ~lFirst[t]
    <3>1. Starts(Stream \o <<pkt>>, m + 1, n + 1) = StartsInCall  BY <1>b, <2>1, <2>3, <2>6
    <3>2. StartsInCall' = StartsInCall  BY <2>1, <2>2, <2>5, <3>1 DEF StartsInCall
    <3> QED  BY <1>i, <1>o, <2>4, <3>2
  <2>7. CASE lFirst[t]
    <3>1. StartsInCall = {}  BY <1>o, <2>2, <2>7
    <3>2. \A k \in m + 1 .. n : ~IsStart(Stream[k])  BY <3>1 DEF StartsInCall, Starts
    <3>3. \A k \in m + 1 .. n : k \in 1 .. n /\ (Stream \o <<pkt>>)[k] = Stream[k]
      BY <1>s, <2>1, ConcatOne
    <3>4. \A k \in m + 1 .. n + 1 : IsStart((Stream \o <<pkt>>)[k]) => k = n + 1
      <4>1. \A k \in m + 1 .. n + 1 : k # n + 1 => k \in m + 1 .. n  BY <1>s
      <4> QED  BY <3>2, <3>3, <4>1
    <3>5. \A k \in StartsInCall' : k = n + 1
      BY <2>1, <2>2, <2>5, <3>4 DEF StartsInCall, Starts
    <3> QED  BY <1>i, <2>4, <3>5
  <2> QED  BY <2>2, <2>6, <2>7
<1>6. CASE PesDone(t)
  <2>1. \A u \in Threads : Due(u)' => Due(u)
    BY <1>6 DEF PesDone, Goto, locals, TypeInv, TypeOK
  <2> QED  BY <1>6, <2>1, <1>a, StreamStays DEF PesDone
<1>7. CASE CreatePcr(t)
  <2> DEFINE pkt == PcrPacket(nCalls[t])
  <2>1. mMuxMtx = t /\ pkt \in Packet /\ Stream' = Stream \o <<pkt>>  BY <1>7, PcrEmits
  <2>2. pc'[t] = "out" /\ mMuxMtx' = mMuxMtx /\ wire' = wire
    BY <1>7 DEF CreatePcr, Goto, TypeInv, TypeOK
  <2>3. ~IsStart(pkt)  BY OthersNoStart
  <2> HIDE DEF pkt
  <2>4. \A u \in Threads : ~Due(u)'
    <3>1. ~Due(t)'  BY <2>2
    <3> HIDE DEF Due
    <3> QED  BY <1>k, <2>1, <2>2, <3>1
  <2>5. Len(Stream') = n + 1  BY <1>s, <2>1, ConcatOne
  <2>6. Starts(Stream \o <<pkt>>, m + 1, n + 1) = StartsInCall  BY <1>b, <2>1, <2>3
  <2>7. StartsInCall' = StartsInCall  BY <2>1, <2>2, <2>5, <2>6 DEF StartsInCall
  <2> QED  BY <1>i, <1>o, <2>4, <2>7
<1>8. CASE CreateNull(t)
  BY <1>8, LinkAssumption DEF CreateNull, Goto, TypeInv, OpOfCall
<1>9. CASE Callback(t)
  <2>1. /\ mMuxMtx = t /\ pc[t] = "out" /\ pc'[t] = "unlock" /\ wire' = wire \o lSb[t]
    BY <1>9, <1>h DEF Callback, Goto, InsideMuxer, TypeInv, TypeOK
  <2>2. Stream' = Stream  BY <1>9, StreamStays
  <2>3. wire' = Stream
    <3>1. t # NoThread  BY MuxerAssumption
    <3> QED  BY <2>1, <3>1 DEF Stream
  <2>4. StartsInCall' = {}
    <3>1. n + 1 .. n = {}  BY <1>s
    <3> QED  BY <2>2, <2>3, <3>1 DEF StartsInCall, Starts
  <2> QED  BY <1>i, <2>4
<1>10. CASE Unlock(t)
  <2>1. \A u \in Threads : Due(u)' => Due(u)
    BY <1>10 DEF Unlock, Goto, locals, TypeInv, TypeOK
  <2> QED  BY <1>10, <2>1, <1>a, StreamStays DEF Unlock
<1> QED  BY <1>2, <1>3, <1>4, <1>5, <1>6, <1>7, <1>8, <1>9, <1>10 DEF Inside

LEMMA MuxInit == Init => MuxInv
PROOF
<1> SUFFICES ASSUME Init PROVE MuxInv  OBVIOUS
<1>1. TypeInv  BY TypeInit
<1>2. Holder /\ EmptyOutside  BY MuxerAssumption DEF Init, Holder, EmptyOutside, InsideMuxer
<1>3. Position  BY DEF Init, Position, NoJob
<1>4. Stream = <<>> /\ wire = <<>> /\ Open = {}  BY DEF Init, Stream, Open
<1>5. RowInv  BY <1>4 DEF RowInv, Rows
<1>6. CallsInv  BY MuxerAssumption DEF Init, CallsInv, NoJob
<1>7. StartInv
  <2>1. StartsInCall = {}  BY <1>4 DEF StartsInCall, Starts
  <2> QED  BY <2>1 DEF StartInv
<1> QED  BY <1>1, <1>2, <1>3, <1>5, <1>6, <1>7 DEF MuxInv

LEMMA MuxNext == MuxInv /\ [Next]_vars => MuxInv'
BY TypeNext, HolderNext, PositionNext, RowNext, CallsNext, StartNext DEF MuxInv

(* What a callback hands out: packets after those already on the wire,     *)
(* one start among them at most.                                           *)
LEMMA WireGrows ==
    ASSUME MuxInv, [Next]_vars
    PROVE  /\ wire' \in Seq(Packet) /\ Len(wire) <= Len(wire') /\ Len(wire') \in Nat
           /\ \A i \in 1 .. Len(wire) : wire'[i] = wire[i]
           /\ \A i, k \in Len(wire) + 1 .. Len(wire') :
                 IsStart(wire'[i]) /\ IsStart(wire'[k]) => i = k
PROOF
<1>0. wire \in Seq(Packet) /\ Len(wire) \in Nat /\ DOMAIN wire = 1 .. Len(wire)
  BY LenProperties DEF MuxInv, TypeInv, TypeOK
<1>1. CASE wire' = wire  BY <1>0, <1>1
<1>2. CASE wire' # wire
  <2>1. PICK t \in Threads : Callback(t)
    <3>1. ~(UNCHANGED vars)  BY <1>2 DEF vars
    <3>2. \A t \in Threads : Call(t) \/ Lock(t) \/ Encode(t) => wire' = wire
      BY DEF Call, Lock, Encode
    <3>3. \A t \in Threads :
             CreatePes(t) \/ PesDone(t) \/ CreatePcr(t) \/ CreateNull(t) \/ Unlock(t) => wire' = wire
      BY DEF CreatePes, PesDone, CreatePcr, CreateNull, Unlock
    <3> QED  BY <1>2, <3>1, <3>2, <3>3 DEF Next, Inside
  <2>2. wire' = Stream
    <3>1. mMuxMtx = t  BY <2>1 DEF Callback, Goto, Holder, InsideMuxer, MuxInv
    <3>2. t # NoThread  BY MuxerAssumption
    <3> QED  BY <2>1, <3>1, <3>2 DEF Callback, Stream
  <2>3. /\ Stream \in Seq(Packet) /\ DOMAIN Stream = 1 .. Len(Stream) /\ Len(Stream) \in Nat
        /\ Len(wire) <= Len(Stream) /\ \A i \in DOMAIN wire : Stream[i] = wire[i]
    BY StreamType, WireBegins DEF MuxInv, TypeInv
  <2>4. \A i, k \in StartsInCall : i = k  BY DEF MuxInv, StartInv
  <2> QED  BY <1>0, <2>2, <2>3, <2>4 DEF StartsInCall, Starts
<1> QED  BY <1>1, <1>2
-----------------------------------------------------------------------------
(***************************************************************************)
(* What the demultiplexer makes of each kind of packet.                    *)
(***************************************************************************)
LEMMA DemuxNumbers ==
    /\ D!MPEGTS_PAT_PID = 0 /\ D!MPEGTS_NULL_PACKET_PID = 8191
    /\ \A p : D!hasPayload(p.afc) <=> hasPayload(p.afc)
    /\ \A p : D!hasAdaptationField(p.afc) <=> hasAdaptationField(p.afc)
    /\ \A p : D!AfBytes(p) = AfBytes(p)
    /\ \A p : D!PesBytes(p) = PesBytes(p)
    /\ \A p : D!payloadSize(p) = 184 - AfBytes(p)
    /\ \A p : D!BrokenAf(p) <=> hasAdaptationField(p.afc) /\ p.af.len > 182
PROOF
<1>1. D!MPEGTS_PAT_PID = 0 /\ D!MPEGTS_NULL_PACKET_PID = 8191
  BY DEF D!MPEGTS_PAT_PID, D!MPEGTS_NULL_PACKET_PID
<1>2. \A p : /\ D!hasPayload(p.afc) <=> hasPayload(p.afc)
             /\ D!hasAdaptationField(p.afc) <=> hasAdaptationField(p.afc)
  BY DEF D!hasPayload, hasPayload, D!hasAdaptationField, hasAdaptationField,
         D!mPayloadOnly, D!mAdaptionOnly, D!mPayloadAdaptionBoth,
         mPayloadOnly, mAdaptionOnly, mPayloadAdaptionBoth
<1>3. \A p : D!AfBytes(p) = AfBytes(p)  BY <1>2 DEF D!AfBytes, AfBytes
<1>4. \A p : D!PesBytes(p) = PesBytes(p)
  BY DEF D!PesBytes, PesBytes, D!PesHeaderBytes, PesHeaderBytes
<1>5. \A p : D!payloadSize(p) = 184 - AfBytes(p)
  BY <1>3 DEF D!payloadSize, D!kTsPacketSize_188, D!TsHeaderBytes
<1>6. \A p : D!BrokenAf(p) <=> hasAdaptationField(p.afc) /\ p.af.len > 182
  BY <1>2 DEF D!BrokenAf, D!kTsPacketSize_188, D!TsHeaderBytes
<1> QED  BY <1>1, <1>2, <1>3, <1>4, <1>5, <1>6

(* Callbacks made for a packet: perhaps others, then those for frames es.  *)
Brings(es) ==
    \E S : \E quiet \in Seq(S) :
        /\ events \in Seq(S) /\ es \in Seq(S)
        /\ \A k \in DOMAIN quiet : quiet[k].kind # "es"
        /\ events' = (events \o quiet) \o es

LEMMA PacketBrings ==
    ASSUME NEW pkt, NEW es, D!parseAdaptationField(pkt, es),
           \E S : events \in Seq(S), \E S : es \in Seq(S)
    PROVE  Brings(es)
PROOF
<1> DEFINE P == D!PcrEvents(pkt)
           C == D!CcEvents(pkt)
<1>1. PICK S1 : events \in Seq(S1)  OBVIOUS
<1>2. PICK S2 : es \in Seq(S2)  OBVIOUS
<1>3. \E S3 : /\ P \in Seq(S3) /\ C \in Seq(S3)
              /\ \A x \in S3 : x.kind # "es"
  <2> DEFINE a == [kind |-> "pcr", pid |-> pkt.pid, pcr |-> pkt.af.pcr, at |-> D!ThisPacket]
             b == [kind |-> "cc", pid |-> pkt.pid, at |-> D!ThisPacket]
  <2>1. a.kind # "es" /\ b.kind # "es"  OBVIOUS
  <2>2. P = <<a>> \/ P = <<>>  BY DEF D!PcrEvents
  <2>3. C = <<b>> \/ C = <<>>  BY DEF D!CcEvents
  <2> HIDE DEF a, b, P, C
  <2>4. \A T : <<>> \in Seq(T) /\ \A x \in T : <<x>> \in Seq(T)  OBVIOUS
  <2>5. a \in {a, b} /\ b \in {a, b}  OBVIOUS
  <2>6. P \in Seq({a, b})  BY <2>2, <2>4, <2>5, Zenon
  <2>7. C \in Seq({a, b})  BY <2>3, <2>4, <2>5, Zenon
  <2> QED  BY <2>1, <2>6, <2>7
<1>4. PICK S3 : P \in Seq(S3) /\ C \in Seq(S3) /\ \A x \in S3 : x.kind # "es"  BY <1>3
<1>5. events' = ((events \o P) \o C) \o es  BY DEF D!parseAdaptationField
<1> HIDE DEF P, C
<1> DEFINE S == S1 \cup S2 \cup S3
<1>6. /\ events \in Seq(S) /\ es \in Seq(S)
  BY <1>1, <1>2, SeqMonotonic
<1>7. P \in Seq(S) /\ C \in Seq(S)  BY <1>4
<1>8. P \o C \in Seq(S3)  BY <1>4, ConcatProperties
<1>9. \A k \in DOMAIN (P \o C) : (P \o C)[k].kind # "es"
  BY <1>4, <1>8, ElementOfSeq
<1>10. (events \o P) \o C = events \o (P \o C)
  BY <1>6, <1>7, ConcatAssociative
<1>11. P \o C \in Seq(S)  BY <1>7, ConcatProperties
<1> HIDE DEF S
<1> QED  BY <1>5, <1>6, <1>9, <1>10, <1>11 DEF Brings

LEMMA Announced ==
    /\ Streams \in Seq(StreamInfo)
    /\ PmtPid # 0 /\ PmtPid # 8191 /\ PmtPid \notin AnnouncedPids
    /\ 0 \notin AnnouncedPids /\ 8191 \notin AnnouncedPids
    /\ EncodedPids \subseteq AnnouncedPids
    /\ AnnouncedPids = {} => Streams = <<>>
PROOF
<1>1. Streams \in Seq(StreamInfo) /\ PmtPid \in EsPids  BY MuxerAssumption
<1>2. ASSUME NEW i \in DOMAIN Streams
      PROVE  Streams[i].pid \in EsPids /\ Streams[i].pid # PmtPid
  <2>1. Streams[i] \in StreamInfo  BY <1>1
  <2>2. Streams[i].pid \in EsPids  BY <2>1 DEF StreamInfo
  <2> QED  BY <2>2, LinkAssumption
<1>3. EncodedPids \subseteq AnnouncedPids
  <2> SUFFICES ASSUME NEW f \in FrameShapes PROVE f.pid \in AnnouncedPids  BY DEF EncodedPids
  <2>1. PICK i \in DOMAIN Streams : Streams[i] = [type |-> f.type, pid |-> f.pid]
    BY LinkAssumption
  <2>2. Streams[i].pid = f.pid  BY <2>1
  <2> QED  BY <2>2 DEF AnnouncedPids
<1>4. AnnouncedPids = {} => Streams = <<>>
  <2>1. AnnouncedPids = {} => DOMAIN Streams = {}  BY DEF AnnouncedPids
  <2> QED  BY <1>1, <2>1
<1>5. 0 \notin EsPids /\ 8191 \notin EsPids  BY DEF EsPids, MPEGTS_NULL_PACKET_PID
<1>6. PmtPid \notin AnnouncedPids /\ 0 \notin AnnouncedPids /\ 8191 \notin AnnouncedPids
  BY <1>2, <1>5 DEF AnnouncedPids
<1> QED  BY <1>1, <1>3, <1>4, <1>5, <1>6

LEMMA MaxOfOne == \A n \in Nat : D!Max({n}) = n
BY DEF D!Max

(* A PAT names the PID of the PMT; only the first one is looked at.        *)
LEMMA PatArrives ==
    ASSUME NEW cc \in Cc, D!parseTsPacket(createPat(cc)), \E S : events \in Seq(S),
           mPmtId \in {0, PmtPid}, DOMAIN mEsFrames \subseteq AnnouncedPids
    PROVE  mPmtId' = PmtPid /\ mInfos' = mInfos /\ mEsFrames' = mEsFrames /\ Brings(<<>>)
PROOF
<1> DEFINE pkt == createPat(cc)
           programs == <<[number |-> 1, pmt |-> PmtPid]>>
<1>1. /\ pkt.pid = 0 /\ pkt.pusi = TRUE /\ pkt.load.programs = programs
      /\ hasPayload(pkt.afc) /\ ~hasAdaptationField(pkt.afc)
  BY DEF createPat, TablePacket, PatLoad, MPEGTS_PAT_PID, hasPayload, hasAdaptationField,
         mPayloadOnly, mAdaptionOnly, mPayloadAdaptionBoth
<1> HIDE DEF pkt
<1>2. PmtPid # 0 /\ 0 \notin AnnouncedPids  BY Announced
<1>3. ~D!Ignored(pkt)  BY <1>1, DemuxNumbers DEF D!Ignored
<1>4. D!ParsePat(pkt) \/ D!ParsePmt(pkt) \/ D!ParsePes(pkt) \/ D!Skip(pkt)
  BY <1>3 DEF D!parseTsPacket, D!Ignore, pkt
<1>5. ~D!ToPmt(pkt) /\ ~D!ToPes(pkt)
  BY <1>1, <1>2 DEF D!ToPmt, D!ToPes
<1>6. \E S : <<>> \in Seq(S)  OBVIOUS
<1>7. CASE D!ParsePat(pkt)
  <2> DEFINE named == {i \in DOMAIN programs : programs[i].number # 0}
  <2>1. DOMAIN programs = {1} /\ programs[1].number = 1 /\ programs[1].pmt = PmtPid  OBVIOUS
  <2>2. named = {1}
    <3> HIDE DEF programs
    <3> QED  BY <2>1
  <2>3. D!Max(named) = 1  BY <2>2, MaxOfOne
  <2> HIDE DEF programs
  <2>4. IF pkt.pusi THEN {i \in DOMAIN pkt.load.programs : pkt.load.programs[i].number # 0} = named ELSE FALSE
    BY <1>1
  <2>5. mPmtId' = PmtPid
    BY <1>1, <1>7, <2>1, <2>2, <2>3, <2>4 DEF D!ParsePat
  <2>6. Brings(<<>>)  BY <1>6, <1>7, PacketBrings DEF D!ParsePat
  <2> QED  BY <1>7, <2>5, <2>6 DEF D!ParsePat
<1>8. CASE D!Skip(pkt)
  <2>1. mPmtId # 0  BY <1>1, <1>8, DemuxNumbers DEF D!Skip, D!ToPat
  <2>2. Brings(<<>>)  BY <1>6, <1>8, PacketBrings DEF D!Skip
  <2> QED  BY <1>8, <2>1, <2>2 DEF D!Skip, D!tables
<1> QED  BY <1>4, <1>5, <1>7, <1>8 DEF D!ParsePmt, D!ParsePes

(* A PMT sets the streams up, unless there are some already.               *)
LEMMA PmtArrives ==
    ASSUME NEW cc \in Cc, D!parseTsPacket(createPmt(cc)), \E S : events \in Seq(S),
           mPmtId = PmtPid,
           \/ mInfos = Streams /\ DOMAIN mEsFrames = AnnouncedPids
           \/ mInfos = <<>> /\ DOMAIN mEsFrames = {}
    PROVE  /\ mPmtId' = PmtPid /\ mInfos' = Streams /\ DOMAIN mEsFrames' = AnnouncedPids
           /\ \/ mEsFrames' = mEsFrames
              \/ /\ DOMAIN mEsFrames = {}
                 /\ \A q \in DOMAIN mEsFrames' : \E type : mEsFrames'[q] = D!EsFrame(type)
           /\ Brings(<<>>)
PROOF
<1> DEFINE pkt == createPmt(cc)
<1>1. /\ pkt.pid = PmtPid /\ pkt.pusi = TRUE /\ pkt.load.infos = Streams /\ pkt.load.ok = TRUE
      /\ hasPayload(pkt.afc) /\ ~hasAdaptationField(pkt.afc)
  BY DEF createPmt, TablePacket, PmtLoad, hasPayload, hasAdaptationField,
         mPayloadOnly, mAdaptionOnly, mPayloadAdaptionBoth
<1> HIDE DEF pkt
<1>2. PmtPid # 0 /\ PmtPid # 8191 /\ PmtPid \notin AnnouncedPids  BY Announced
<1>3. ~D!Ignored(pkt)  BY <1>1, <1>2, DemuxNumbers DEF D!Ignored
<1>4. D!ParsePat(pkt) \/ D!ParsePmt(pkt) \/ D!ParsePes(pkt) \/ D!Skip(pkt)
  BY <1>3 DEF D!parseTsPacket, D!Ignore, pkt
<1>5. ~D!ToPat(pkt) /\ ~D!ToPes(pkt)
  BY <1>1, <1>2, DemuxNumbers DEF D!ToPat, D!ToPes
<1>6. \E S : <<>> \in Seq(S)  OBVIOUS
<1>7. CASE D!ParsePmt(pkt)
  <2>1. DOMAIN mEsFrames = {} /\ mPmtId' = mPmtId  BY <1>7 DEF D!ParsePmt, D!ToPmt
  <2>2. mInfos \o Streams = Streams
    <3>1. mInfos = <<>>  BY <2>1, Announced
    <3>2. Streams \in Seq(StreamInfo)  BY Announced
    <3>3. <<>> \o Streams = Streams  BY <3>2, ConcatEmptySeq
    <3> QED  BY <3>1, <3>3
  <2>3. mInfos' = Streams /\ \E h : mEsFrames' = [q \in D!Pids(Streams) |-> D!EsFrame(h[q])]
    <3> DEFINE all == mInfos \o pkt.load.infos
               Entry(p) == D!SelectLastInSeq(all, LAMBDA i : i.pid = p)
    <3>1. all = Streams  BY <1>1, <2>2
    <3>2. mInfos' = all /\ mEsFrames' = [p \in D!Pids(all) |-> D!EsFrame(all[Entry(p)].type)]
      BY <1>1, <1>7 DEF D!ParsePmt
    <3> DEFINE h == [p \in D!Pids(all) |-> all[Entry(p)].type]
    <3>3. mEsFrames' = [p \in D!Pids(all) |-> D!EsFrame(h[p])]  BY <3>2
    <3> HIDE DEF h, all
    <3> QED  BY <3>1, <3>2, <3>3
  <2>4. D!Pids(Streams) = AnnouncedPids  BY DEF D!Pids, AnnouncedPids
  <2>5. Brings(<<>>)  BY <1>6, <1>7, PacketBrings DEF D!ParsePmt
  <2> QED  BY <2>1, <2>3, <2>4, <2>5
<1>8. CASE D!Skip(pkt)
  <2>1. DOMAIN mEsFrames # {}
    <3>1. D!hasPayload(pkt.afc)  BY <1>1, DemuxNumbers
    <3>2. ~D!ToPmt(pkt)  BY <1>8 DEF D!Skip
    <3>3. mPmtId # 0 /\ pkt.pid = mPmtId  BY <1>1, <1>2
    <3> QED  BY <3>1, <3>2, <3>3 DEF D!ToPmt
  <2>2. Brings(<<>>)  BY <1>6, <1>8, PacketBrings DEF D!Skip
  <2> QED  BY <1>8, <2>1, <2>2 DEF D!Skip, D!tables
<1> QED  BY <1>4, <1>5, <1>7, <1>8 DEF D!ParsePat, D!ParsePes

(* The packets of createPcr have an adaptation field longer than any that  *)
(* is accepted.                                                            *)
LEMMA PcrArrives ==
    ASSUME NEW n, D!parseTsPacket(PcrPacket(n)), \E S : events \in Seq(S)
    PROVE  UNCHANGED <<mPmtId, mInfos, mEsFrames>> /\ Brings(<<>>)
PROOF
<1> DEFINE pkt == PcrPacket(n)
<1>1. hasAdaptationField(pkt.afc) /\ pkt.af.len = 183
  BY DEF PcrPacket, hasAdaptationField, mAdaptionOnly, kTsPacketSize_188
<1> HIDE DEF pkt
<1>2. D!Ignored(pkt)  BY <1>1, DemuxNumbers DEF D!Ignored
<1>3. UNCHANGED <<mPmtId, mInfos, mEsFrames, events>>
  BY <1>2 DEF D!parseTsPacket, D!Ignore, D!tables, pkt
<1>4. PICK S : events \in Seq(S)  OBVIOUS
<1>5. events' = (events \o <<>>) \o <<>> /\ <<>> \in Seq(S)
  BY <1>3, <1>4, ConcatEmptySeq
<1>6. \A k \in DOMAIN <<>> : <<>>[k].kind # "es"  OBVIOUS
<1>7. \E quiet \in Seq(S) :
        /\ events \in Seq(S) /\ <<>> \in Seq(S)
        /\ \A k \in DOMAIN quiet : quiet[k].kind # "es"
        /\ events' = (events \o quiet) \o <<>>
  BY <1>4, <1>5, <1>6
<1> QED  BY <1>3, <1>7 DEF Brings
-----------------------------------------------------------------------------
(***************************************************************************)
(* Packets of frames.                                                      *)
(***************************************************************************)
LEMMA HeaderOfShape ==
    ASSUME NEW f \in FrameShapes
    PROVE  LET pes == PesOf(f)
           IN  /\ pes.marker = TRUE
               /\ \/ pes.flags = 2 /\ pes.hdl = 5 /\ f.pts = f.dts
                  \/ pes.flags = 3 /\ pes.hdl = 10
               /\ pes.pts = f.pts /\ pes.dts = f.dts
               /\ pes.len # 0 => (pes.len - 3 - pes.hdl) % D!Uint16 = f.size
PROOF
<1> DEFINE pes == PesOf(f)
           lPesSize == pes.hdl + f.size + 3
<1>1. f.size \in Nat /\ MaxPesLength \in Nat /\ MaxPesLength < 65536
  <2>1. f.size \in Nat /\ MaxPesLength \in PesLengths  BY MuxerAssumption DEF Shape
  <2>2. MaxPesLength \in Nat  BY <2>1, PesLengthsBelow
  <2>3. MaxPesLength < 65536  BY LinkAssumption DEF D!Uint16
  <2> QED  BY <2>1, <2>2, <2>3
<1>2. /\ pes.marker = TRUE
      /\ \/ pes.flags = 2 /\ pes.hdl = 5 /\ f.pts = f.dts
         \/ pes.flags = 3 /\ pes.hdl = 10
      /\ pes.pts = f.pts /\ pes.dts = f.dts
      /\ pes.len = IF lPesSize > MaxPesLength THEN 0 ELSE lPesSize
  BY DEF PesOf, TimestampBytes
<1> HIDE DEF pes
<1>3. ASSUME pes.len # 0
      PROVE  (pes.len - 3 - pes.hdl) % D!Uint16 = f.size
  <2>1. PICK hdl \in {5, 10} : hdl = pes.hdl  BY <1>2
  <2>2. pes.len = hdl + f.size + 3 /\ ~(hdl + f.size + 3 > MaxPesLength)  BY <1>2, <1>3, <2>1
  <2>3. /\ f.size \in Nat /\ f.size < 65536 /\ pes.len - 3 - hdl = f.size
    <3> SUFFICES ASSUME NEW n \in Nat, n = f.size PROVE n < 65536 /\ pes.len - 3 - hdl = n
      BY <1>1
    <3> QED  BY <1>1, <2>2
  <2>4. \A n \in Nat : n < 65536 => n % 65536 = n  OBVIOUS
  <2> QED  BY <2>1, <2>3, <2>4 DEF D!Uint16
<1> QED  BY <1>2, <1>3 DEF pes

(* What the demultiplexer needs to know of a packet of a frame.            *)
LEMMA PesFields ==
    ASSUME NEW p \in Packet, Made(p), IsPes(p)
    PROVE  LET r   == p.load.run
               pes == p.load.pes
           IN  /\ p.pid \in EncodedPids /\ p.pid \in AnnouncedPids /\ p.pusi \in BOOLEAN
               /\ hasPayload(p.afc) /\ ~p.af.disc /\ ~D!BrokenAf(p) /\ ~D!Ignored(p)
               /\ r.from \in Nat /\ r.len \in Nat \ {0} /\ EndOf(r) = r.from + r.len
               /\ r.frame \in Frame /\ r.frame.size \in Nat /\ EndOf(r) <= r.frame.size
               /\ p.pusi <=> r.from = 0
               /\ PesBytes(p) \in Nat
               /\ D!payloadSize(p) = PesBytes(p) + r.len
               /\ p.pusi => /\ pes.marker = TRUE
                            /\ \/ pes.flags = 2 /\ pes.hdl = 5
                               \/ pes.flags = 3 /\ pes.hdl = 10
                            /\ pes.len # 0 => (pes.len - 3 - pes.hdl) % D!Uint16 = r.frame.size
               /\ p.pusi => ToldBy(p) \in Frames
PROOF
<1> DEFINE r == p.load.run
           pes == p.load.pes
<1>1. PICK f \in FrameShapes : PartOf(f, p)  BY MadeKinds DEF IsPes
<1>2. p.pid \in EncodedPids  BY <1>1 DEF PartOf, EncodedPids
<1>3. p.pid \in AnnouncedPids /\ p.pid # 8191  BY <1>2, Announced
<1>4. /\ r \in [frame : Frame, from : Nat, len : Nat \ {0}]
      /\ EndOf(r) <= r.frame.size /\ (p.pusi <=> r.from = 0)
      /\ r.frame.size = f.size /\ r.frame.no \in 1 .. MaxCalls /\ r.frame.key \in RandomAccessArgs
      /\ p.pusi => pes = PesOf(f) /\ p.af.ra = f.ra
      /\ Fits(p) /\ hasPayload(p.afc) /\ ~p.af.disc
  BY <1>1 DEF PartOf
<1>5. /\ DataStart(p) + r.len = 188 /\ p.af.len \in 0 .. 182
  BY <1>4 DEF Fits, IsPes, kTsPacketSize_188, TsHeaderBytes
<1>6. ~D!BrokenAf(p)
  <2>1. ~(p.af.len > 182)  BY <1>5
  <2> QED  BY <2>1, DemuxNumbers
<1>7. ~D!Ignored(p)  BY <1>3, <1>6, DemuxNumbers DEF D!Ignored
<1>8. p.pusi \in BOOLEAN /\ AfBytes(p) \in Nat /\ r.len \in Nat
  BY <1>4 DEF Packet, AfBytes
<1>9. PesBytes(p) \in Nat
  <2>1. CASE p.pusi
    <3>1. pes.hdl \in {5, 10}  BY <1>4, <2>1, HeaderOfShape
    <3> QED  BY <2>1, <3>1 DEF PesBytes, PesHeaderBytes
  <2>2. CASE ~p.pusi  BY <2>2 DEF PesBytes
  <2> QED  BY <2>1, <2>2
<1>10. D!payloadSize(p) = PesBytes(p) + r.len
  <2>1. D!payloadSize(p) = 184 - AfBytes(p)  BY DemuxNumbers
  <2>2. 4 + AfBytes(p) + PesBytes(p) + r.len = 188  BY <1>5 DEF DataStart, TsHeaderBytes
  <2> QED  BY <1>8, <1>9, <2>1, <2>2
<1>11. p.pusi => /\ pes.marker = TRUE
                 /\ \/ pes.flags = 2 /\ pes.hdl = 5
                    \/ pes.flags = 3 /\ pes.hdl = 10
                 /\ pes.len # 0 => (pes.len - 3 - pes.hdl) % D!Uint16 = r.frame.size
  <2> SUFFICES ASSUME p.pusi
               PROVE  /\ pes.marker = TRUE
                      /\ \/ pes.flags = 2 /\ pes.hdl = 5
                         \/ pes.flags = 3 /\ pes.hdl = 10
                      /\ pes.len # 0 => (pes.len - 3 - pes.hdl) % D!Uint16 = r.frame.size
    OBVIOUS
  <2>1. pes = PesOf(f) /\ r.frame.size = f.size  BY <1>4
  <2> HIDE DEF pes, r
  <2> QED  BY <2>1, HeaderOfShape
<1>12. ASSUME p.pusi PROVE ToldBy(p) \in Frames
  <2>1. r.frame \in Frame /\ r.frame.src \in Threads
        /\ r.frame = [src |-> r.frame.src, no |-> r.frame.no, size |-> f.size, key |-> r.frame.key]
    BY <1>4 DEF Frame
  <2>2. ToldBy(p) = Told(r.frame, f.pts, f.dts, f.ra)
    <3>1. pes.pts = f.pts /\ (IF pes.flags = 3 THEN pes.dts ELSE pes.pts) = f.dts /\ p.af.ra = f.ra
      BY <1>4, <1>12, HeaderOfShape
    <3> QED  BY <3>1 DEF ToldBy
  <2>3. ToldBy(p) = Told([src |-> r.frame.src, no |-> r.frame.no, size |-> f.size, key |-> r.frame.key],
                         f.pts, f.dts, f.ra)
    BY <2>1, <2>2
  <2> QED  BY <1>4, <2>1, <2>3 DEF Frames
<1>13. r.frame \in Frame /\ r.frame.size \in Nat /\ r.from \in Nat /\ r.len \in Nat \ {0}
  BY <1>4 DEF Frame
<1>14. EndOf(r) = r.from + r.len  BY DEF EndOf
<1> QED  BY <1>2, <1>3, <1>4, <1>6, <1>7, <1>8, <1>9, <1>10, <1>11, <1>12, <1>13, <1>14

(* A packet that starts no frame carries on the frame of the one before.   *)
LEMMA CarriesOn ==
    ASSUME MuxInv, NEW n \in Nat, n + 1 <= Len(wire), IsPes(wire[n + 1]), ~wire[n + 1].pusi
    PROVE  /\ n \in 1 .. Len(wire) /\ Mid(wire[n]) /\ wire[n].pid = wire[n + 1].pid
           /\ RunOf(n).frame = RunOf(n + 1).frame /\ EndOf(RunOf(n)) = RunOf(n + 1).from
PROOF
<1>1. wire \in Seq(Packet) /\ Len(wire) \in Nat /\ DOMAIN wire = 1 .. Len(wire)
  BY LenProperties DEF MuxInv, TypeInv, TypeOK
<1>2. Rows(wire, {}) /\ n + 1 \in DOMAIN wire  BY <1>1 DEF MuxInv, RowInv
<1>3. (n + 1) - 1 = n  OBVIOUS
<1>4. n \in DOMAIN wire /\ IsPes(wire[n]) /\ Cursor(wire[n]) = CarriesOnAt(wire[n + 1])
  BY <1>2, <1>3 DEF Rows
<1>5. /\ wire[n].pid = wire[n + 1].pid /\ RunOf(n).frame = RunOf(n + 1).frame
      /\ EndOf(RunOf(n)) = RunOf(n + 1).from
  BY <1>4 DEF Cursor, CarriesOnAt, RunOf
<1>6. wire[n + 1] \in Packet /\ Made(wire[n + 1])  BY <1>1, <1>2 DEF Rows
<1>7. /\ RunOf(n + 1).from \in Nat /\ RunOf(n + 1).len \in Nat \ {0}
      /\ RunOf(n + 1).frame.size \in Nat
      /\ RunOf(n + 1).from + RunOf(n + 1).len <= RunOf(n + 1).frame.size
  BY <1>6, PesFields DEF RunOf
<1>8. EndOf(RunOf(n)) < RunOf(n).frame.size
  <2>1. \A a, c \in Nat, b \in Nat \ {0} : a + b <= c => a < c  OBVIOUS
  <2>2. RunOf(n + 1).from < RunOf(n + 1).frame.size  BY <1>7, <2>1
  <2> QED  BY <1>5, <2>2
<1> QED  BY <1>1, <1>4, <1>5, <1>8 DEF Mid, RunOf

(* A start packet always finds a frame as reset() leaves it.               *)
LEMMA StartedFrame ==
    ASSUME NEW p \in Packet, Made(p), IsPes(p), p.pusi,
           NEW frame, NEW type, frame.type = type, frame.data = <<>> => frame = D!EsFrame(type)
    PROVE  LET pes == p.load.pes
           IN  D!Started(p, frame) =
                 [type |-> type, data |-> <<>>, size |-> 0, pts |-> pes.pts,
                  dts |-> IF pes.flags = 3 THEN pes.dts ELSE pes.pts, ra |-> p.af.ra,
                  expPes |-> pes.len,
                  expPayload |-> IF pes.len = 0 THEN 0 ELSE p.load.run.frame.size]
PROOF
<1> DEFINE pes == p.load.pes
           old == IF D!Flushes(p, frame) THEN D!reset(frame) ELSE frame
           new == [old EXCEPT !.ra = p.af.ra]
           total == (pes.len - 3 - pes.hdl) % D!Uint16
<1>1. old = D!EsFrame(type)  BY DEF D!Flushes, D!reset
<1>2. /\ pes.marker = TRUE /\ (pes.flags = 2 \/ pes.flags = 3)
      /\ pes.len # 0 => total = p.load.run.frame.size
  BY PesFields
<1>3. D!Started(p, frame) =
        [new EXCEPT
            !.pts = IF pes.flags \in {2, 3} THEN pes.pts ELSE @,
            !.dts = CASE pes.flags = 2 -> pes.pts [] pes.flags = 3 -> pes.dts [] OTHER -> @,
            !.expPes = pes.len,
            !.expPayload = IF pes.len # 0 THEN total ELSE @]
  BY <1>2 DEF D!Started
<1>4. new = [type |-> type, data |-> <<>>, size |-> 0, pts |-> 0, dts |-> 0, ra |-> p.af.ra,
             expPes |-> 0, expPayload |-> 0]
  BY <1>1 DEF D!EsFrame
<1> HIDE DEF new, total, pes
<1>5. /\ pes.flags \in {2, 3}
      /\ ~(pes.flags = 2 /\ pes.flags = 3)
  BY <1>2
<1>6. (CASE pes.flags = 2 -> pes.pts [] pes.flags = 3 -> pes.dts [] OTHER -> 0) =
        IF pes.flags = 3 THEN pes.dts ELSE pes.pts
  BY <1>2
<1> DEFINE dts == CASE pes.flags = 2 -> pes.pts [] pes.flags = 3 -> pes.dts [] OTHER -> 0
           due == IF pes.len # 0 THEN total ELSE 0
<1>7. D!Started(p, frame) =
        [new EXCEPT !.pts = pes.pts, !.dts = dts, !.expPes = pes.len, !.expPayload = due]
  <2>1. new.dts = 0 /\ new.expPayload = 0  BY <1>4
  <2> QED  BY <1>3, <1>5, <2>1
<1> HIDE DEF dts, due
<1>8. D!Started(p, frame) =
        [type |-> type, data |-> <<>>, size |-> 0, pts |-> pes.pts, dts |-> dts,
         ra |-> p.af.ra, expPes |-> pes.len, expPayload |-> due]
  BY <1>4, <1>7
<1> QED  BY <1>2, <1>6, <1>8 DEF pes, dts, due

(* All packets of a frame are of the same frame, and numbers of the wire.  *)
LEMMA HeldFacts ==
    ASSUME NEW w, NEW n \in Nat, NEW q, NEW d, Held(w, n, q, d)
    PROVE  /\ Len(d) \in Nat \ {0} /\ DOMAIN d = 1 .. Len(d)
           /\ \A i \in 1 .. Len(d) : d[i] \in 1 .. n
           /\ \A i \in 1 .. Len(d) : w[d[i]].load.run.frame = w[d[1]].load.run.frame
           /\ Len(d) \in 1 .. Len(d) /\ 1 \in 1 .. Len(d) /\ d[Len(d)] \in 1 .. n
PROOF
<1>1. d \in Seq(1 .. n) /\ d # <<>>  BY DEF Held
<1>2. Len(d) \in Nat \ {0} /\ DOMAIN d = 1 .. Len(d) /\ \A i \in 1 .. Len(d) : d[i] \in 1 .. n
  BY <1>1, LenProperties, EmptySeq, ElementOfSeq
<1>3. ASSUME NEW i \in 1 .. Len(d) PROVE w[d[i]].load.run.frame = w[d[1]].load.run.frame
  <2>1. CASE i = 1  BY <2>1
  <2>2. CASE i # 1
    <3>1. i - 1 \in 1 .. Len(d) - 1 /\ (i - 1) + 1 = i  BY <1>2, <2>2
    <3> QED  BY <3>1 DEF Held
  <2> QED  BY <2>1, <2>2
<1>4. Len(d) \in 1 .. Len(d) /\ 1 \in 1 .. Len(d)  BY <1>2
<1> QED  BY <1>2, <1>3, <1>4

(* What a packet of a frame does, with n the packets received before it.   *)
Taken    == wire[nTaken + 1]
OldFrame == mEsFrames[Taken.pid]
NewData  == IF Taken.pusi THEN <<nTaken + 1>> ELSE Append(OldFrame.data, nTaken + 1)
NewFrame == Filling(wire, OldFrame.type, NewData)
Full     == ~Mid(Taken) /\ NewFrame.expPes # 0
CutOff   == Taken.pusi /\ OldFrame.data # <<>>
Completed(q, frame, n) == D!Deliver(q, frame, TRUE, n)
PesEvents ==
    (IF CutOff THEN <<Completed(Taken.pid, OldFrame, nTaken)>> ELSE <<>>)
      \o (IF Full THEN <<Completed(Taken.pid, NewFrame, nTaken + 1)>> ELSE <<>>)

LEMMA TakenFacts ==
    ASSUME MuxInv, ArrivedInv, TablesInv, FramesInv,
           nTaken < Len(wire), IsPes(Taken), Heard("pmt", nTaken)
    PROVE  /\ nTaken \in Nat /\ Taken \in Packet /\ Made(Taken)
           /\ Taken.pid \in DOMAIN mEsFrames /\ Taken.pid \in EncodedPids
           /\ InFrame(wire, nTaken, Taken.pid, OldFrame)
           /\ ~Taken.pusi => /\ OldFrame.data # <<>> /\ OldFrame.data[Len(OldFrame.data)] = nTaken
                             /\ nTaken \in 1 .. Len(wire) /\ Mid(wire[nTaken])
                             /\ wire[nTaken].pid = Taken.pid
                             /\ RunOf(nTaken).frame = RunOf(nTaken + 1).frame
                             /\ EndOf(RunOf(nTaken)) = RunOf(nTaken + 1).from
           /\ CutOff => ~Mid(wire[OldFrame.data[Len(OldFrame.data)]]) /\ OldFrame.expPes = 0
PROOF
<1>1. /\ wire \in Seq(Packet) /\ Len(wire) \in Nat /\ DOMAIN wire = 1 .. Len(wire)
      /\ nTaken \in Nat /\ nTaken + 1 \in DOMAIN wire
  BY LenProperties DEF MuxInv, TypeInv, TypeOK, ArrivedInv
<1>2. Rows(wire, {})  BY DEF MuxInv, RowInv
<1>3. Taken \in Packet /\ Made(Taken)  BY <1>1, <1>2, ElementOfSeq DEF Rows, Taken
<1>4. Taken.pid \in EncodedPids /\ Taken.pid \in AnnouncedPids  BY <1>3, PesFields
<1>5. Taken.pid \in DOMAIN mEsFrames  BY <1>4 DEF TablesInv
<1>6. InFrame(wire, nTaken, Taken.pid, OldFrame)  BY <1>5 DEF FramesInv, OldFrame
<1>7. ASSUME ~Taken.pusi
      PROVE  /\ OldFrame.data # <<>> /\ OldFrame.data[Len(OldFrame.data)] = nTaken
             /\ nTaken \in 1 .. Len(wire) /\ Mid(wire[nTaken])
             /\ wire[nTaken].pid = Taken.pid
             /\ RunOf(nTaken).frame = RunOf(nTaken + 1).frame
             /\ EndOf(RunOf(nTaken)) = RunOf(nTaken + 1).from
  <2>1. nTaken + 1 <= Len(wire)  BY <1>1
  <2>2. /\ nTaken \in 1 .. Len(wire) /\ Mid(wire[nTaken]) /\ wire[nTaken].pid = Taken.pid
        /\ RunOf(nTaken).frame = RunOf(nTaken + 1).frame
        /\ EndOf(RunOf(nTaken)) = RunOf(nTaken + 1).from
    BY <1>1, <1>7, <2>1, CarriesOn DEF Taken
  <2>3. nTaken > 0  BY <2>2
  <2> QED  BY <2>2, <2>3 DEF FramesInv, OldFrame
<1>8. ASSUME CutOff
      PROVE  ~Mid(wire[OldFrame.data[Len(OldFrame.data)]]) /\ OldFrame.expPes = 0
  <2>1. OldFrame.data # <<>> /\ Taken.pusi  BY <1>8 DEF CutOff
  <2>2. /\ Held(wire, nTaken, Taken.pid, OldFrame.data)
        /\ IF Mid(wire[OldFrame.data[Len(OldFrame.data)]])
           THEN OldFrame.data[Len(OldFrame.data)] = nTaken ELSE OldFrame.expPes = 0
    BY <1>6, <2>1 DEF InFrame
  <2>4. OldFrame.data[Len(OldFrame.data)] \in 1 .. nTaken  BY <1>1, <2>2, HeldFacts
  <2>5. ASSUME Mid(wire[OldFrame.data[Len(OldFrame.data)]]) PROVE FALSE
    <3>1. Mid(wire[nTaken]) /\ nTaken \in 1 .. nTaken  BY <2>2, <2>4, <2>5
    <3>2. nTaken \in DOMAIN wire /\ nTaken # Len(wire)
      <4>1. nTaken # 0  BY <3>1
      <4>2. \A a, b \in Nat : a # 0 /\ a + 1 \in 1 .. b => a \in 1 .. b /\ a # b  OBVIOUS
      <4>3. nTaken \in Nat /\ Len(wire) \in Nat /\ nTaken + 1 \in 1 .. Len(wire)  BY <1>1
      <4>4. nTaken \in 1 .. Len(wire) /\ nTaken # Len(wire)  BY <4>1, <4>2, <4>3
      <4>5. DOMAIN wire = 1 .. Len(wire)  BY <1>1
      <4>6. nTaken \in DOMAIN wire  BY <4>4, <4>5, Zenon
      <4> QED  BY <4>4, <4>6
    <3>3. ~wire[nTaken + 1].pusi  BY <1>2, <3>1, <3>2 DEF Rows
    <3> QED  BY <2>1, <3>3 DEF Taken
  <2> QED  BY <2>2, <2>5
<1> QED  BY <1>1, <1>3, <1>4, <1>5, <1>6, <1>7, <1>8

(* A frame with one more packet, the one that arrives as number n + 1.     *)
Grown(frame, n, len) ==
    [[frame EXCEPT !.data = Append(frame.data, n)] EXCEPT !.size = frame.size + len]

LEMMA Appends ==
    ASSUME NEW p \in Packet, Made(p), IsPes(p), NEW frame
    PROVE  D!Appended(p, frame) = Grown(frame, D!ThisPacket, p.load.run.len)
PROOF
<1> DEFINE r == p.load.run
<1>1. /\ r.len \in Nat \ {0} /\ PesBytes(p) \in Nat
      /\ D!payloadSize(p) = PesBytes(p) + r.len
  BY PesFields
<1>2. D!payloadSize(p) - D!PesBytes(p) = r.len
  <2>1. D!PesBytes(p) = PesBytes(p)  BY DemuxNumbers
  <2>2. \A a \in Nat, b \in Nat : (a + b) - a = b  OBVIOUS
  <2> QED  BY <1>1, <2>1, <2>2
<1> QED  BY <1>1, <1>2 DEF D!Appended, Grown

(* Packet n + 1 of w starts a frame with data d or carries one on, and the *)
(* frame is what d makes of it.                                            *)
Extends(w, n, old, d) ==
    LET p == w[n + 1]
    IN  /\ p.pusi => /\ d = <<n + 1>>
                     /\ old.data = <<>> => old = D!EsFrame(old.type)
        /\ ~p.pusi =>
             /\ Held(w, n, p.pid, old.data) /\ old = Filling(w, old.type, old.data)
             /\ w[old.data[Len(old.data)]].load.run.frame = p.load.run.frame
             /\ EndOf(w[old.data[Len(old.data)]].load.run) = p.load.run.from
             /\ d = Append(old.data, n + 1)

LEMMA FrameGrows ==
    ASSUME NEW w, NEW n \in Nat, w[n + 1] \in Packet, Made(w[n + 1]), IsPes(w[n + 1]),
           NEW old, NEW d, Extends(w, n, old, d)
    PROVE  LET p   == w[n + 1]
               new == Filling(w, old.type, d)
           IN  /\ Grown(IF p.pusi THEN D!Started(p, old) ELSE old, n + 1, p.load.run.len) = new
               /\ new.expPayload = new.size <=> ~Mid(p) /\ new.expPes # 0
               /\ new.size \in Nat \ {0}
PROOF
<1> DEFINE p == w[n + 1]
           r == p.load.run
           new == Filling(w, old.type, d)
           started == IF p.pusi THEN D!Started(p, old) ELSE old
<1>1. p \in Packet /\ Made(p) /\ IsPes(p)  OBVIOUS
<1>2. /\ r.from \in Nat /\ r.len \in Nat \ {0} /\ EndOf(r) = r.from + r.len
      /\ r.frame.size \in Nat /\ EndOf(r) <= r.frame.size
      /\ p.pusi <=> r.from = 0
  BY <1>1, PesFields
<1>5. Grown(started, n + 1, r.len) =
        [[started EXCEPT !.data = Append(started.data, n + 1)]
                 EXCEPT !.size = started.size + r.len]
  BY DEF Grown
<1>7. /\ Grown(started, n + 1, r.len) = new
      /\ new.size = EndOf(r)
      /\ new.expPayload = IF new.expPes = 0 THEN 0 ELSE r.frame.size
  <2>1. CASE p.pusi
    <3> DEFINE pes == p.load.pes
    <3>1. (old.data = <<>> => old = D!EsFrame(old.type)) /\ d = <<n + 1>>
      BY <2>1 DEF Extends
    <3>2. started =
                 [type |-> old.type, data |-> <<>>, size |-> 0, pts |-> pes.pts,
                  dts |-> IF pes.flags = 3 THEN pes.dts ELSE pes.pts, ra |-> p.af.ra,
                  expPes |-> pes.len,
                  expPayload |-> IF pes.len = 0 THEN 0 ELSE r.frame.size]
      BY <1>1, <2>1, <3>1, StartedFrame
    <3>3. Len(d) = 1 /\ d[1] = n + 1 /\ w[d[1]] = p  BY <3>1
    <3>4. EndOf(r) = r.len /\ 0 + r.len = r.len  BY <1>2, <2>1
    <3>5. Append(<<>>, n + 1) = d  BY <3>1
    <3>6. new =
                 [type |-> old.type, data |-> d, size |-> EndOf(r), pts |-> pes.pts,
                  dts |-> IF pes.flags = 3 THEN pes.dts ELSE pes.pts, ra |-> p.af.ra,
                  expPes |-> pes.len,
                  expPayload |-> IF pes.len = 0 THEN 0 ELSE r.frame.size]
      <4>1. w[d[Len(d)]].load.run = r  BY <3>3
      <4> QED  BY <3>3, <4>1 DEF Filling
    <3> HIDE DEF pes, started, r, p, new
    <3>7. Grown(started, n + 1, r.len) =
                 [type |-> old.type, data |-> d, size |-> EndOf(r), pts |-> pes.pts,
                  dts |-> IF pes.flags = 3 THEN pes.dts ELSE pes.pts, ra |-> p.af.ra,
                  expPes |-> pes.len,
                  expPayload |-> IF pes.len = 0 THEN 0 ELSE r.frame.size]
      <4>1. started.data = <<>> /\ started.size = 0  BY <3>2
      <4>2. Grown(started, n + 1, r.len) = [[started EXCEPT !.data = d] EXCEPT !.size = EndOf(r)]
        BY <1>5, <3>4, <3>5, <4>1
      <4> DEFINE next == [started EXCEPT !.data = d]
      <4>3. next =
                 [type |-> old.type, data |-> d, size |-> 0, pts |-> pes.pts,
                  dts |-> IF pes.flags = 3 THEN pes.dts ELSE pes.pts, ra |-> p.af.ra,
                  expPes |-> pes.len,
                  expPayload |-> IF pes.len = 0 THEN 0 ELSE r.frame.size]
        BY <3>2
      <4>4. Grown(started, n + 1, r.len) = [next EXCEPT !.size = EndOf(r)]  BY <4>2
      <4> HIDE DEF next
      <4> QED  BY <4>3, <4>4
    <3> QED  BY <3>6, <3>7
  <2>2. CASE ~p.pusi
    <3> DEFINE b == old.data
               h == w[b[1]]
               pes == h.load.pes
    <3>1. /\ Held(w, n, p.pid, b) /\ old = Filling(w, old.type, b) /\ d = Append(b, n + 1)
          /\ w[b[Len(b)]].load.run.frame = r.frame /\ EndOf(w[b[Len(b)]].load.run) = r.from
      BY <2>2 DEF Extends
    <3>3. /\ Len(b) \in Nat \ {0} /\ DOMAIN b = 1 .. Len(b)
          /\ w[b[Len(b)]].load.run.frame = h.load.run.frame
      BY <3>1, HeldFacts
    <3>4. h.load.run.frame = r.frame  BY <3>1, <3>3
    <3>5. old =
                 [type |-> old.type, data |-> b, size |-> r.from, pts |-> pes.pts,
                  dts |-> IF pes.flags = 3 THEN pes.dts ELSE pes.pts, ra |-> h.af.ra,
                  expPes |-> pes.len,
                  expPayload |-> IF pes.len = 0 THEN 0 ELSE r.frame.size]
      BY <3>1, <3>4 DEF Filling
    <3>6. /\ Len(d) = Len(b) + 1 /\ d[1] = b[1] /\ d[Len(d)] = n + 1
      <4>2. b \in Seq(1 .. n)  BY <3>1 DEF Held
      <4>3. n + 1 \in Nat /\ b \in Seq(Nat)
        <5>1. 1 .. n \subseteq Nat  OBVIOUS
        <5> QED  BY <4>2, <5>1, SeqMonotonic
      <4> HIDE DEF b
      <4> QED  BY <3>1, <3>3, <4>3, AppendProperties
    <3>7. new =
                 [type |-> old.type, data |-> d, size |-> EndOf(r), pts |-> pes.pts,
                  dts |-> IF pes.flags = 3 THEN pes.dts ELSE pes.pts, ra |-> h.af.ra,
                  expPes |-> pes.len,
                  expPayload |-> IF pes.len = 0 THEN 0 ELSE r.frame.size]
      <4>3. w[d[1]] = h  BY <3>6
      <4>4. w[d[Len(d)]].load.run = r  BY <3>6
      <4> HIDE DEF b, h, r, p
      <4> QED  BY <3>4, <4>3, <4>4 DEF Filling
    <3>8. started = old  BY <2>2
    <3> HIDE DEF pes, started, r, b, h, p, new
    <3>9. Grown(started, n + 1, r.len) =
                 [type |-> old.type, data |-> d, size |-> EndOf(r), pts |-> pes.pts,
                  dts |-> IF pes.flags = 3 THEN pes.dts ELSE pes.pts, ra |-> h.af.ra,
                  expPes |-> pes.len,
                  expPayload |-> IF pes.len = 0 THEN 0 ELSE r.frame.size]
      <4>1. started.data = b /\ started.size = r.from  BY <3>5, <3>8
      <4>2. Grown(started, n + 1, r.len) = [[started EXCEPT !.data = d] EXCEPT !.size = EndOf(r)]
        BY <1>2, <1>5, <3>1, <4>1
      <4> DEFINE next == [started EXCEPT !.data = d]
      <4>3. next =
                 [type |-> old.type, data |-> d, size |-> r.from, pts |-> pes.pts,
                  dts |-> IF pes.flags = 3 THEN pes.dts ELSE pes.pts, ra |-> h.af.ra,
                  expPes |-> pes.len,
                  expPayload |-> IF pes.len = 0 THEN 0 ELSE r.frame.size]
        BY <3>5, <3>8
      <4>4. Grown(started, n + 1, r.len) = [next EXCEPT !.size = EndOf(r)]  BY <4>2
      <4> HIDE DEF next
      <4> QED  BY <4>3, <4>4
    <3> QED  BY <3>7, <3>9
  <2> QED  BY <2>1, <2>2
<1>8. EndOf(r) \in Nat \ {0}
  <2>1. \A a \in Nat, b \in Nat \ {0} : a + b \in Nat \ {0}  OBVIOUS
  <2> QED  BY <1>2, <2>1
<1>9. Mid(p) <=> EndOf(r) < r.frame.size  BY <1>1 DEF Mid
<1> HIDE DEF r, new, started, p
<1>11. \A e : EndOf(r) = e =>
         ((IF new.expPes = 0 THEN 0 ELSE r.frame.size) = e <=>
            ~(e < r.frame.size) /\ new.expPes # 0)
  <2> SUFFICES ASSUME NEW e, EndOf(r) = e
               PROVE  (IF new.expPes = 0 THEN 0 ELSE r.frame.size) = e <=>
                         ~(e < r.frame.size) /\ new.expPes # 0
    OBVIOUS
  <2>1. e \in Nat \ {0} /\ e <= r.frame.size /\ r.frame.size \in Nat  BY <1>2, <1>8
  <2> QED  BY <2>1
<1>12. new.expPayload = new.size <=> ~Mid(p) /\ new.expPes # 0  BY <1>7, <1>9, <1>11
<1> QED  BY <1>7, <1>8, <1>12 DEF new, r, started, p

LEMMA NewFrameMade ==
    ASSUME MuxInv, ArrivedInv, TablesInv, FramesInv,
           nTaken < Len(wire), IsPes(Taken), Heard("pmt", nTaken)
    PROVE  /\ Extends(wire, nTaken, OldFrame, NewData)
           /\ D!Appended(Taken, IF Taken.pusi THEN D!Started(Taken, OldFrame) ELSE OldFrame) = NewFrame
           /\ NewFrame.expPayload = NewFrame.size <=> Full
           /\ NewFrame.size \in Nat \ {0}
PROOF
<1>1. /\ nTaken \in Nat /\ Taken \in Packet /\ Made(Taken) /\ InFrame(wire, nTaken, Taken.pid, OldFrame)
  BY TakenFacts
<1>2. Taken = wire[nTaken + 1]  BY DEF Taken
<1>3. Extends(wire, nTaken, OldFrame, NewData)
  <2>1. CASE Taken.pusi
    <3>1. NewData = <<nTaken + 1>>  BY <2>1 DEF NewData
    <3> QED  BY <1>1, <1>2, <2>1, <3>1 DEF Extends, InFrame
  <2>2. CASE ~Taken.pusi
    <3> DEFINE d == OldFrame.data
    <3>1. /\ d # <<>> /\ d[Len(d)] = nTaken
          /\ wire[nTaken].load.run.frame = Taken.load.run.frame
          /\ EndOf(wire[nTaken].load.run) = Taken.load.run.from
      BY <1>2, <2>2, TakenFacts DEF RunOf
    <3>2. Held(wire, nTaken, Taken.pid, d) /\ OldFrame = Filling(wire, OldFrame.type, d)
      BY <1>1, <3>1 DEF InFrame
    <3>3. NewData = Append(d, nTaken + 1)  BY <2>2 DEF NewData
    <3> QED  BY <1>2, <2>2, <3>1, <3>2, <3>3 DEF Extends
  <2> QED  BY <2>1, <2>2
<1>4. D!ThisPacket = nTaken + 1  BY DEF D!ThisPacket, ArrivedInv
<1> QED  BY <1>1, <1>2, <1>3, <1>4, FrameGrows, Appends DEF NewFrame, Full


(* A packet of a frame whose PID is announced is parsed to the end.        *)
LEMMA PesParsed ==
    ASSUME NEW p \in Packet, Made(p), IsPes(p), D!parseTsPacket(p), p.pid \in DOMAIN mEsFrames,
           NEW grown,
           grown = Grown(IF p.pusi THEN D!Started(p, mEsFrames[p.pid]) ELSE mEsFrames[p.pid],
                         D!ThisPacket, p.load.run.len)
    PROVE  /\ UNCHANGED D!tables
           /\ mEsFrames' = [mEsFrames EXCEPT ![p.pid] =
                               IF grown.expPayload = grown.size THEN D!reset(grown) ELSE grown]
           /\ D!parseAdaptationField(p,
                D!Flush(p, mEsFrames[p.pid])
                  \o IF grown.expPayload = grown.size
                     THEN <<Completed(p.pid, grown, D!ThisPacket)>> ELSE <<>>)
PROOF
<1> DEFINE frame   == mEsFrames[p.pid]
           started == IF p.pusi THEN D!Started(p, frame) ELSE frame
           stored  == D!HeaderOk(p) /\ D!DataFits(p)
           pes     == p.load.pes
<1>2. /\ hasPayload(p.afc) /\ ~D!Ignored(p) /\ p.pid \in AnnouncedPids
      /\ p.load.run.len \in Nat \ {0} /\ PesBytes(p) \in Nat
      /\ D!payloadSize(p) = PesBytes(p) + p.load.run.len
      /\ p.pusi => /\ pes.marker = TRUE
                   /\ \/ pes.flags = 2 /\ pes.hdl = 5
                      \/ pes.flags = 3 /\ pes.hdl = 10
  BY PesFields
<1>3. ~D!ToPat(p) /\ ~D!ToPmt(p)
  <2>1. p.pid # 0  BY <1>2, Announced
  <2> QED  BY <2>1, DemuxNumbers DEF D!ToPat, D!ToPmt
<1>4. D!DataFits(p) /\ D!payloadSize(p) > 0
  <2>1. \A a \in Nat, b \in Nat \ {0} : a <= a + b /\ a + b > 0  BY SMT
  <2>2. D!PesBytes(p) = PesBytes(p)  BY DemuxNumbers
  <2> QED  BY <1>2, <2>1, <2>2 DEF D!DataFits
<1>5. D!ToPes(p)  BY <1>2, <1>3, <1>4, DemuxNumbers DEF D!ToPes
<1>6. D!HeaderOk(p)
  <2> SUFFICES ASSUME p.pusi PROVE pes.marker /\ D!TimestampsRead(pes) <= pes.hdl
    BY DEF D!HeaderOk
  <2>1. CASE pes.flags = 2 /\ pes.hdl = 5
    BY <1>2, <2>1 DEF D!TimestampsRead, D!TimestampBytes
  <2>2. CASE pes.flags = 3 /\ pes.hdl = 10
    BY <1>2, <2>2 DEF D!TimestampsRead, D!TimestampBytes
  <2> QED  BY <1>2, <2>1, <2>2
<1>7. D!ParsePes(p)
  <2>1. ~D!Ignore(p)  BY <1>2 DEF D!Ignore
  <2>2. ~D!ParsePat(p) /\ ~D!ParsePmt(p)  BY <1>3 DEF D!ParsePat, D!ParsePmt
  <2>3. ~D!Skip(p)  BY <1>5 DEF D!Skip
  <2> QED  BY <2>1, <2>2, <2>3 DEF D!parseTsPacket
<1>8. D!Appended(p, started) = grown  BY Appends
<1>12. /\ mEsFrames' = [mEsFrames EXCEPT ![p.pid] =
                          IF stored /\ grown.expPayload = grown.size THEN D!reset(grown)
                          ELSE IF stored THEN grown ELSE started]
       /\ D!parseAdaptationField(p,
            D!Flush(p, frame)
              \o IF stored /\ grown.expPayload = grown.size
                 THEN <<Completed(p.pid, grown, D!ThisPacket)>> ELSE <<>>)
       /\ UNCHANGED D!tables
  <2> HIDE DEF Completed
  <2>1. \A n : Completed(p.pid, grown, n) = D!Deliver(p.pid, grown, TRUE, n)
    BY DEF Completed
  <2> QED  BY <1>7, <1>8, <2>1 DEF D!ParsePes
<1> QED  BY <1>4, <1>6, <1>12

LEMMA PesArrives ==
    ASSUME MuxInv, ArrivedInv, TablesInv, FramesInv, \E S : events \in Seq(S),
           nTaken < Len(wire), IsPes(Taken), Heard("pmt", nTaken), D!parseTsPacket(Taken)
    PROVE  /\ UNCHANGED <<mPmtId, mInfos>>
           /\ mEsFrames' = [mEsFrames EXCEPT ![Taken.pid] =
                               IF Full THEN D!EsFrame(OldFrame.type) ELSE NewFrame]
           /\ Brings(PesEvents)
PROOF
<1> DEFINE flush   == IF CutOff THEN <<Completed(Taken.pid, OldFrame, nTaken)>> ELSE <<>>
           last    == IF Full THEN <<Completed(Taken.pid, NewFrame, nTaken + 1)>> ELSE <<>>
<1>1. /\ nTaken \in Nat /\ Taken \in Packet /\ Made(Taken)
      /\ Taken.pid \in DOMAIN mEsFrames
      /\ CutOff => OldFrame.expPes = 0
  BY TakenFacts
<1>8. /\ D!Appended(Taken, IF Taken.pusi THEN D!Started(Taken, OldFrame) ELSE OldFrame) = NewFrame
      /\ NewFrame.expPayload = NewFrame.size <=> Full
  BY NewFrameMade
<1>9. D!ThisPacket = nTaken + 1 /\ D!ThisPacket - 1 = nTaken  BY <1>1 DEF D!ThisPacket, ArrivedInv
<1>10. D!Flush(Taken, OldFrame) = flush
  <2>1. D!Flushes(Taken, OldFrame) <=> CutOff  BY DEF D!Flushes, CutOff
  <2>2. CutOff => D!Deliver(Taken.pid, OldFrame, OldFrame.expPes = 0, D!ThisPacket - 1)
                    = Completed(Taken.pid, OldFrame, nTaken)
    <3>1. CutOff => (OldFrame.expPes = 0) = TRUE  BY <1>1
    <3> QED  BY <1>9, <3>1 DEF Completed
  <2> QED  BY <2>1, <2>2 DEF D!Flush
<1>11. D!reset(NewFrame) = D!EsFrame(OldFrame.type)
  <2>1. NewFrame.type = OldFrame.type  BY DEF NewFrame, Filling
  <2> QED  BY <2>1 DEF D!reset
<1>12. NewFrame = Grown(IF Taken.pusi THEN D!Started(Taken, mEsFrames[Taken.pid])
                        ELSE mEsFrames[Taken.pid],
                        D!ThisPacket, Taken.load.run.len)
  BY <1>1, <1>8, Appends DEF OldFrame
<1>13. /\ UNCHANGED D!tables
       /\ mEsFrames' = [mEsFrames EXCEPT ![Taken.pid] =
                           IF NewFrame.expPayload = NewFrame.size
                           THEN D!reset(NewFrame) ELSE NewFrame]
       /\ D!parseAdaptationField(Taken,
            D!Flush(Taken, mEsFrames[Taken.pid])
              \o IF NewFrame.expPayload = NewFrame.size
                 THEN <<Completed(Taken.pid, NewFrame, D!ThisPacket)>> ELSE <<>>)
  <2> HIDE DEF NewFrame, Completed
  <2> QED  BY <1>1, <1>12, PesParsed
<1>14. D!parseAdaptationField(Taken, PesEvents)
  <2>1. PesEvents = flush \o last  BY DEF PesEvents
  <2> QED  BY <1>8, <1>9, <1>10, <1>13, <2>1 DEF OldFrame
<1>15. \E S : PesEvents \in Seq(S)
  <2> DEFINE a == Completed(Taken.pid, OldFrame, nTaken)
             b == Completed(Taken.pid, NewFrame, nTaken + 1)
  <2>1. flush = <<a>> \/ flush = <<>>  OBVIOUS
  <2>2. last = <<b>> \/ last = <<>>  OBVIOUS
  <2>3. \A T : <<>> \in Seq(T) /\ \A x \in T : <<x>> \in Seq(T)  OBVIOUS
  <2>4. PesEvents = flush \o last  BY DEF PesEvents
  <2> HIDE DEF a, b, flush, last
  <2>5. a \in {a, b} /\ b \in {a, b}  OBVIOUS
  <2>6. flush \in Seq({a, b}) /\ last \in Seq({a, b})  BY <2>1, <2>2, <2>3, <2>5, Zenon
  <2>7. flush \o last \in Seq({a, b})  BY <2>6, ConcatProperties
  <2> QED  BY <2>4, <2>7
<1>16. Brings(PesEvents)  BY <1>14, <1>15, PacketBrings
<1>17. mEsFrames' = [mEsFrames EXCEPT ![Taken.pid] =
                        IF Full THEN D!EsFrame(OldFrame.type) ELSE NewFrame]
  BY <1>8, <1>11, <1>13
<1> QED  BY <1>13, <1>16, <1>17 DEF D!tables

(* Before the first PMT nothing is made of them.                           *)
LEMMA PesSkipped ==
    ASSUME NEW p \in Packet, Made(p), IsPes(p), D!parseTsPacket(p),
           mPmtId \in {0, PmtPid}, DOMAIN mEsFrames = {}
    PROVE  UNCHANGED <<mPmtId, mInfos, mEsFrames>> /\ D!parseAdaptationField(p, <<>>)
PROOF
<1>3. hasPayload(p.afc) /\ ~D!Ignored(p) /\ p.pid \in AnnouncedPids  BY PesFields
<1>4. p.pid # 0 /\ p.pid # PmtPid  BY <1>3, Announced
<1>6. ~D!ToPat(p) /\ ~D!ToPmt(p) /\ ~D!ToPes(p)
  BY <1>4, DemuxNumbers DEF D!ToPat, D!ToPmt, D!ToPes
<1>7. D!Skip(p)
  <2>1. ~D!Ignore(p)  BY <1>3 DEF D!Ignore
  <2>2. ~D!ParsePat(p) /\ ~D!ParsePmt(p)  BY <1>6 DEF D!ParsePat, D!ParsePmt
  <2>3. ~D!ParsePes(p)  BY <1>6 DEF D!ParsePes
  <2> QED  BY <2>1, <2>2, <2>3 DEF D!parseTsPacket
<1> QED  BY <1>7 DEF D!Skip, D!tables

LEMMA PesPassedOver ==
    ASSUME MuxInv, ArrivedInv, TablesInv, \E S : events \in Seq(S),
           nTaken < Len(wire), IsPes(Taken), ~Heard("pmt", nTaken), D!parseTsPacket(Taken)
    PROVE  UNCHANGED <<mPmtId, mInfos, mEsFrames>> /\ Brings(<<>>)
PROOF
<1>1. /\ wire \in Seq(Packet) /\ nTaken + 1 \in DOMAIN wire
  BY LenProperties DEF MuxInv, TypeInv, TypeOK, ArrivedInv
<1>2. Taken \in Packet /\ Made(Taken)
  BY <1>1, ElementOfSeq DEF MuxInv, RowInv, Rows, Taken
<1>3. mPmtId \in {0, PmtPid} /\ DOMAIN mEsFrames = {}  BY DEF TablesInv
<1>4. UNCHANGED <<mPmtId, mInfos, mEsFrames>> /\ D!parseAdaptationField(Taken, <<>>)
  BY <1>2, <1>3, PesSkipped
<1>5. \E S : <<>> \in Seq(S)  OBVIOUS
<1> QED  BY <1>4, <1>5, PacketBrings
-----------------------------------------------------------------------------
(***************************************************************************)
(* What stays as it is when packets are added.                             *)
(***************************************************************************)
Agree(w, u, n) == \A i \in 1 .. n : u[i] = w[i]

LEMMA StartsSame ==
    ASSUME NEW w, NEW u, NEW n \in Nat, Agree(w, u, n), NEW q
    PROVE  StartsIn(u, q, n) = StartsIn(w, q, n)
PROOF
<1>1. \A i \in 1 .. n : \A j \in 1 .. i : j \in 1 .. n  OBVIOUS
<1>2. \A i \in 1 .. n : (\E j \in 1 .. i : u[j].load.kind = "pmt")
                           <=> (\E j \in 1 .. i : w[j].load.kind = "pmt")
  BY <1>1 DEF Agree
<1> QED  BY <1>2 DEF StartsIn, Agree

LEMMA HeldKept ==
    ASSUME NEW w, NEW u, NEW n \in Nat, NEW m \in Nat, n <= m, Agree(w, u, n),
           NEW q, NEW d, Held(w, n, q, d)
    PROVE  /\ Held(u, m, q, d) /\ \A type : Filling(u, type, d) = Filling(w, type, d)
           /\ u[d[Len(d)]] = w[d[Len(d)]] /\ u[d[1]] = w[d[1]]
PROOF
<1>1. /\ Len(d) \in Nat \ {0} /\ \A i \in 1 .. Len(d) : d[i] \in 1 .. n
      /\ Len(d) \in 1 .. Len(d) /\ 1 \in 1 .. Len(d)
  BY HeldFacts
<1>2. \A i \in 1 .. Len(d) : u[d[i]] = w[d[i]]  BY <1>1 DEF Agree
<1>3. d \in Seq(1 .. m)
  <2>1. d \in Seq(1 .. n) /\ 1 .. n \subseteq 1 .. m  BY DEF Held
  <2> QED  BY <2>1, SeqMonotonic
<1>4. d[1] \in StartsIn(u, q, m)
  <2>1. d[1] \in StartsIn(u, q, n)  BY StartsSame DEF Held
  <2> QED  BY <2>1 DEF StartsIn
<1>5. \A i \in 1 .. Len(d) - 1 :
          /\ u[d[i + 1]].load.run.frame = u[d[1]].load.run.frame
          /\ u[d[i + 1]].load.run.from = EndOf(u[d[i]].load.run)
  <2> TAKE i \in 1 .. Len(d) - 1
  <2>1. i \in 1 .. Len(d) /\ i + 1 \in 1 .. Len(d)  BY <1>1
  <2>2. u[d[i]] = w[d[i]] /\ u[d[i + 1]] = w[d[i + 1]] /\ u[d[1]] = w[d[1]]  BY <1>1, <1>2, <2>1
  <2> QED  BY <2>2 DEF Held
<1>6. u[d[Len(d)]] = w[d[Len(d)]] /\ u[d[1]] = w[d[1]]  BY <1>1, <1>2
<1>7. d # <<>> /\ IsPes(w[d[Len(d)]]) /\ w[d[Len(d)]].pid = q  BY DEF Held
<1>8. Held(u, m, q, d)  BY <1>3, <1>4, <1>5, <1>6, <1>7 DEF Held
<1>9. \A type : Filling(u, type, d) = Filling(w, type, d)  BY <1>6 DEF Filling
<1> QED  BY <1>6, <1>8, <1>9

LEMMA InFrameKept ==
    ASSUME NEW w, NEW u, NEW n \in Nat, NEW m \in Nat, n <= m, Agree(w, u, n),
           NEW q, NEW frame, InFrame(w, n, q, frame),
           frame.data # <<>> /\ Mid(w[frame.data[Len(frame.data)]]) => m = n
    PROVE  InFrame(u, m, q, frame)
PROOF
<1>1. CASE frame.data = <<>>  BY <1>1 DEF InFrame
<1>2. CASE frame.data # <<>>
  <2> DEFINE d == frame.data
  <2>1. /\ Held(w, n, q, d) /\ frame = Filling(w, frame.type, d)
        /\ IF Mid(w[d[Len(d)]]) THEN d[Len(d)] = n ELSE frame.expPes = 0
    BY <1>2 DEF InFrame
  <2>2. /\ Held(u, m, q, d) /\ Filling(u, frame.type, d) = Filling(w, frame.type, d)
        /\ u[d[Len(d)]] = w[d[Len(d)]]
    BY <2>1, HeldKept
  <2>3. IF Mid(u[d[Len(d)]]) THEN d[Len(d)] = m ELSE frame.expPes = 0
    BY <1>2, <2>1, <2>2
  <2> QED  BY <1>2, <2>1, <2>2, <2>3 DEF InFrame
<1> QED  BY <1>1, <1>2

(* Packet n of w starts a frame on PID q that a receiver is entitled to.   *)
StartsAt(w, q, n) == w[n].pid = q /\ IsStart(w[n]) /\ \E j \in 1 .. n : w[j].load.kind = "pmt"

LEMMA StartsAreNumbers ==
    ASSUME NEW w, NEW n \in Nat, NEW q
    PROVE  StartsIn(w, q, n) \subseteq Nat /\ IsFiniteSet(StartsIn(w, q, n))
PROOF
<1>1. IsFiniteSet(1 .. n)  BY FS_Interval
<1>2. StartsIn(w, q, n) \in SUBSET (1 .. n)  BY DEF StartsIn
<1>3. IsFiniteSet(StartsIn(w, q, n))  BY <1>1, <1>2, FS_Subset
<1> QED  BY <1>2, <1>3

LEMMA SentSame ==
    ASSUME NEW w, NEW u, NEW n \in Nat, Agree(w, u, n), NEW q
    PROVE  SentIn(u, q, n) = SentIn(w, q, n)
PROOF
<1>1. StartsIn(u, q, n) = StartsIn(w, q, n)  BY StartsSame
<1>2. [i \in 1 .. n |-> ToldBy(u[i])] = [i \in 1 .. n |-> ToldBy(w[i])]  BY DEF Agree
<1> QED  BY <1>1, <1>2 DEF SentIn

LEMMA SentMore ==
    ASSUME NEW w, NEW n \in Nat, NEW q
    PROVE  SentIn(w, q, n + 1) =
             IF StartsAt(w, q, n + 1) THEN SentIn(w, q, n) \o <<ToldBy(w[n + 1])>>
             ELSE SentIn(w, q, n)
PROOF
<1> DEFINE S == StartsIn(w, q, n)
           g == [i \in 1 .. n |-> ToldBy(w[i])]
           h == [i \in 1 .. n + 1 |-> ToldBy(w[i])]
<1>1. S \subseteq Nat /\ IsFiniteSet(S)  BY StartsAreNumbers
<1>2. S \subseteq 1 .. n  BY DEF StartsIn
<1>3. 1 .. n + 1 = (1 .. n) \cup {n + 1} /\ n + 1 \notin 1 .. n  OBVIOUS
<1>4. \A x \in S : x < n + 1 /\ g[x] = h[x]  BY <1>2
<1>5. h[n + 1] = ToldBy(w[n + 1])  BY <1>3
<1>6. StartsIn(w, q, n + 1) = IF StartsAt(w, q, n + 1) THEN S \cup {n + 1} ELSE S
  BY <1>3 DEF StartsIn, StartsAt
<1>7. n + 1 \in Nat  OBVIOUS
<1> HIDE DEF S, g, h
<1>8. Picks(S \cup {n + 1}, h) = Picks(S, g) \o <<h[n + 1]>>
  <2>1. Numbers(S) /\ Above(S, n + 1) /\ Alike(S, g, h)
    BY <1>1, <1>4, <1>7 DEF Numbers, Above, Alike
  <2>2. Picks(With(S, n + 1), h) = Then(Picks(S, g), h[n + 1])  BY <2>1, PicksMore
  <2> QED  BY <2>2 DEF With, Then
<1>9. Picks(S, h) = Picks(S, g)  BY <1>1, <1>4, PicksSame
<1> QED  BY <1>5, <1>6, <1>8, <1>9 DEF SentIn, S, g, h
-----------------------------------------------------------------------------
(***************************************************************************)
(* What is told of a frame that comes out.                                 *)
(***************************************************************************)
AllMade(w, n) == \A i \in 1 .. n : w[i] \in Packet /\ Made(w[i])

(* A frame held whole is genuine, and told as its start packet says.       *)
LEMMA HeldGenuine ==
    ASSUME NEW w, NEW n \in Nat, AllMade(w, n),
           NEW a, Agree(w, a, n), NEW q, NEW d, Held(w, n, q, d), ~Mid(w[d[Len(d)]]),
           NEW type, NEW k
    PROVE  LET e == Completed(q, Filling(w, type, d), k)
           IN  GenuineIn(a, e) /\ RunsIn(a, e)[1] = w[d[1]].load.run
PROOF
<1> DEFINE f == Filling(w, type, d)
           e == Completed(q, f, k)
           runs == [i \in 1 .. Len(d) |-> w[d[i]].load.run]
           last == w[d[Len(d)]]
           head == w[d[1]]
<1>1. /\ Len(d) \in Nat \ {0} /\ DOMAIN d = 1 .. Len(d)
      /\ \A i \in 1 .. Len(d) : d[i] \in 1 .. n
      /\ last.load.run.frame = head.load.run.frame
      /\ Len(d) \in 1 .. Len(d) /\ 1 \in 1 .. Len(d)
  BY HeldFacts
<1>2. e.completed = TRUE /\ e.frame = f  BY DEF Completed, D!Deliver
<1>3. /\ f.data = d /\ f.size = EndOf(last.load.run)
      /\ f.pts = head.load.pes.pts /\ f.ra = head.af.ra
      /\ f.dts = IF head.load.pes.flags = 3 THEN head.load.pes.dts ELSE head.load.pes.pts
  BY DEF Filling
<1>4. RunsIn(a, e) = runs
  <2>1. \A i \in 1 .. Len(d) : a[d[i]] = w[d[i]]  BY <1>1 DEF Agree
  <2>2. RunsIn(a, e) = [i \in 1 .. Len(d) |-> a[d[i]].load.run]
    BY <1>1, <1>2, <1>3 DEF RunsIn
  <2> QED  BY <2>1, <2>2
<1>5. Len(runs) = Len(d) /\ runs # <<>>
  <2> DEFINE X == {w[d[i]].load.run : i \in 1 .. Len(d)}
  <2>1. runs \in [1 .. Len(d) -> X]  OBVIOUS
  <2> HIDE DEF X
  <2>2. runs \in Seq(X)  BY <1>1, <2>1
  <2> QED  BY <1>1, <2>2
<1>6. head.load.run.from = 0
  <2>1. head \in Packet /\ Made(head)  BY <1>1 DEF AllMade
  <2>2. IsPes(head) /\ head.pusi  BY DEF Held, StartsIn, IsStart, IsPes
  <2> QED  BY <2>1, <2>2, PesFields
<1>7. EndOf(last.load.run) = last.load.run.frame.size
  <2>1. last \in Packet /\ Made(last) /\ IsPes(last)  BY <1>1 DEF Held, AllMade
  <2>2. /\ last.load.run.from \in Nat /\ last.load.run.len \in Nat \ {0}
        /\ EndOf(last.load.run) = last.load.run.from + last.load.run.len
        /\ last.load.run.frame.size \in Nat
        /\ EndOf(last.load.run) <= last.load.run.frame.size
    BY <2>1, PesFields
  <2>3. EndOf(last.load.run) \in Nat
    <3>1. \A x, y \in Nat : x + y \in Nat  OBVIOUS
    <3> QED  BY <2>2, <3>1
  <2>4. ~(EndOf(last.load.run) < last.load.run.frame.size)  BY <2>1 DEF Mid
  <2>5. \A x, y \in Nat : x <= y /\ ~(x < y) => x = y  OBVIOUS
  <2> QED  BY <2>2, <2>3, <2>4, <2>5
<1>8. \A i \in 1 .. Len(d) - 1 : /\ runs[i + 1].frame = runs[1].frame
                                 /\ runs[i + 1].from = EndOf(runs[i])
  <2> TAKE i \in 1 .. Len(d) - 1
  <2>1. i \in 1 .. Len(d) /\ i + 1 \in 1 .. Len(d)  BY <1>1
  <2> QED  BY <1>1, <2>1 DEF Held
<1>9. runs[1] = head.load.run /\ runs[Len(d)] = last.load.run  BY <1>1
<1> HIDE DEF runs, head, last, f
<1>10. WholeFrame(runs, f.size)
  BY <1>1, <1>3, <1>5, <1>6, <1>7, <1>8, <1>9 DEF WholeFrame
<1>11. GenuineIn(a, e)  BY <1>2, <1>4, <1>10 DEF GenuineIn
<1> QED  BY <1>1, <1>4, <1>9, <1>11 DEF e, f, head

LEMMA HeldTold ==
    ASSUME NEW w, NEW n \in Nat, AllMade(w, n),
           NEW a, Agree(w, a, n), NEW q, NEW d, Held(w, n, q, d), ~Mid(w[d[Len(d)]]),
           NEW type, NEW k
    PROVE  ToldOf(a, Completed(q, Filling(w, type, d), k)) = ToldBy(w[d[1]])
PROOF
<1> DEFINE f == Filling(w, type, d)
           e == Completed(q, f, k)
           head == w[d[1]]
<1>1. GenuineIn(a, e) /\ RunsIn(a, e)[1] = head.load.run  BY HeldGenuine
<1>2. e.frame = f  BY DEF Completed, D!Deliver
<1>3. /\ f.pts = head.load.pes.pts /\ f.ra = head.af.ra
      /\ f.dts = IF head.load.pes.flags = 3 THEN head.load.pes.dts ELSE head.load.pes.pts
  BY DEF Filling
<1> HIDE DEF head, f, e
<1>4. ToldOf(a, e) = Told(head.load.run.frame, f.pts, f.dts, f.ra)  BY <1>1, <1>2 DEF ToldOf
<1>5. ToldOf(a, e) = ToldBy(head)  BY <1>3, <1>4 DEF ToldBy
<1> QED  BY <1>5 DEF e, f, head

LEMMA EsAreNumbers ==
    ASSUME NEW S, NEW ev \in Seq(S), NEW q
    PROVE  /\ EsOf(ev, q) \subseteq Nat /\ IsFiniteSet(EsOf(ev, q))
           /\ EsOf(ev, q) \subseteq 1 .. Len(ev) /\ Len(ev) \in Nat /\ DOMAIN ev = 1 .. Len(ev)
PROOF
<1>1. Len(ev) \in Nat /\ DOMAIN ev = 1 .. Len(ev)  BY LenProperties
<1>2. EsOf(ev, q) \in SUBSET (1 .. Len(ev))  BY <1>1 DEF EsOf
<1>3. IsFiniteSet(1 .. Len(ev))  BY <1>1, FS_Interval
<1>4. IsFiniteSet(EsOf(ev, q))  BY <1>2, <1>3, FS_Subset
<1> QED  BY <1>1, <1>2, <1>4

LEMMA TellSame ==
    ASSUME NEW n, NEW a, NEW b, Agree(a, b, n), NEW S, NEW ev \in Seq(S),
           \A k \in DOMAIN ev : ev[k].kind = "es" => ev[k].frame.data \in Seq(1 .. n),
           NEW q
    PROVE  Tell(ev, q, b) = Tell(ev, q, a)
PROOF
<1> DEFINE g == [k \in DOMAIN ev |-> ToldOf(a, ev[k])]
           h == [k \in DOMAIN ev |-> ToldOf(b, ev[k])]
<1>1. EsOf(ev, q) \subseteq Nat /\ IsFiniteSet(EsOf(ev, q))  BY EsAreNumbers
<1>2. ASSUME NEW k \in EsOf(ev, q) PROVE g[k] = h[k]
  <2>1. k \in DOMAIN ev /\ ev[k].frame.data \in Seq(1 .. n)  BY DEF EsOf
  <2>2. RunsIn(a, ev[k]) = RunsIn(b, ev[k])
    <3>1. \A i \in DOMAIN ev[k].frame.data : ev[k].frame.data[i] \in 1 .. n
      BY <2>1, ElementOfSeq, LenProperties
    <3> QED  BY <3>1 DEF RunsIn, Agree
  <2>3. ToldOf(a, ev[k]) = ToldOf(b, ev[k])  BY <2>2 DEF ToldOf, GenuineIn
  <2> QED  BY <2>1, <2>3
<1> HIDE DEF g, h
<1>3. Picks(EsOf(ev, q), g) = Picks(EsOf(ev, q), h)  BY <1>1, <1>2, PicksSame
<1> QED  BY <1>3 DEF Tell, g, h

LEMMA TellOne ==
    ASSUME NEW S, NEW ev \in Seq(S), NEW e \in S, NEW q, NEW a
    PROVE  Tell(ev \o <<e>>, q, a) =
             IF e.kind = "es" /\ e.pid = q THEN Then(Tell(ev, q, a), ToldOf(a, e))
             ELSE Tell(ev, q, a)
PROOF
<1> DEFINE u == ev \o <<e>>
           n == Len(ev) + 1
           T == EsOf(ev, q)
           g == [k \in DOMAIN ev |-> ToldOf(a, ev[k])]
           h == [k \in DOMAIN u |-> ToldOf(a, u[k])]
<1>1. /\ T \subseteq Nat /\ IsFiniteSet(T) /\ T \subseteq 1 .. Len(ev)
      /\ Len(ev) \in Nat /\ DOMAIN ev = 1 .. Len(ev)
  BY EsAreNumbers
<1>2. DOMAIN u = 1 .. n /\ u[n] = e /\ \A k \in 1 .. Len(ev) : u[k] = ev[k]
  BY LenProperties
<1>3. 1 .. n = (1 .. Len(ev)) \cup {n} /\ n \notin 1 .. Len(ev) /\ n \in Nat
      /\ \A k \in 1 .. Len(ev) : k < n
  BY <1>1
<1> HIDE DEF u, n
<1>4. EsOf(u, q) = IF e.kind = "es" /\ e.pid = q THEN With(T, n) ELSE T
  BY <1>1, <1>2, <1>3 DEF EsOf, With
<1>5. Alike(T, g, h)  BY <1>1, <1>2, <1>3 DEF Alike
<1>6. h[n] = ToldOf(a, e)  BY <1>2, <1>3
<1>7. Numbers(T) /\ Above(T, n)  BY <1>1, <1>3 DEF Numbers, Above
<1> HIDE DEF T, g, h
<1>8. Picks(With(T, n), h) = Then(Picks(T, g), h[n])  BY <1>5, <1>7, PicksMore
<1>9. Picks(T, h) = Picks(T, g)  BY <1>5, <1>7, PicksSame DEF Alike, Numbers
<1> QED  BY <1>4, <1>6, <1>8, <1>9 DEF Tell, T, g, h, u

LEMMA TellQuiet ==
    ASSUME NEW S, NEW ev \in Seq(S), NEW quiet \in Seq(S),
           \A k \in DOMAIN quiet : quiet[k].kind # "es", NEW q, NEW a
    PROVE  Tell(ev \o quiet, q, a) = Tell(ev, q, a)
PROOF
<1> DEFINE u == ev \o quiet
           g == [k \in DOMAIN ev |-> ToldOf(a, ev[k])]
           h == [k \in DOMAIN u |-> ToldOf(a, u[k])]
<1>1. /\ Len(ev) \in Nat /\ DOMAIN ev = 1 .. Len(ev)
      /\ Len(quiet) \in Nat /\ DOMAIN quiet = 1 .. Len(quiet)
  BY LenProperties
<1>2. /\ u \in Seq(S) /\ Len(u) = Len(ev) + Len(quiet)
      /\ \A k \in 1 .. Len(u) : u[k] = IF k <= Len(ev) THEN ev[k] ELSE quiet[k - Len(ev)]
  BY ConcatProperties
<1>3. DOMAIN u = 1 .. Len(ev) + Len(quiet)  BY <1>2, LenProperties
<1>4. \A k \in 1 .. Len(ev) : k \in DOMAIN u /\ u[k] = ev[k]
  BY <1>1, <1>2, <1>3
<1>5. \A k \in DOMAIN u : k \in 1 .. Len(ev) \/ u[k].kind # "es"
  <2> SUFFICES ASSUME NEW k \in 1 .. Len(ev) + Len(quiet), k \notin 1 .. Len(ev)
               PROVE  u[k].kind # "es"
    BY <1>3
  <2>1. ~(k <= Len(ev)) /\ k - Len(ev) \in 1 .. Len(quiet)  BY <1>1
  <2>2. u[k] = quiet[k - Len(ev)]  BY <1>2, <2>1
  <2> QED  BY <1>1, <2>1, <2>2
<1> HIDE DEF u
<1>6. EsOf(u, q) = EsOf(ev, q)  BY <1>1, <1>4, <1>5 DEF EsOf
<1>7. EsOf(ev, q) \subseteq Nat /\ IsFiniteSet(EsOf(ev, q))  BY EsAreNumbers
<1>8. \A k \in EsOf(ev, q) : g[k] = h[k]  BY <1>1, <1>4 DEF EsOf
<1> HIDE DEF g, h
<1>9. Picks(EsOf(ev, q), g) = Picks(EsOf(ev, q), h)  BY <1>7, <1>8, PicksSame
<1> QED  BY <1>6, <1>9 DEF Tell, g, h, u
-----------------------------------------------------------------------------
(***************************************************************************)
(* Every step preserves LinkInv.                                           *)
(***************************************************************************)
LEMMA LinkTypes ==
    ASSUME LinkInv
    PROVE  /\ wire \in Seq(Packet) /\ Len(wire) \in Nat /\ DOMAIN wire = 1 .. Len(wire)
           /\ nTaken \in Nat /\ nTaken <= Len(wire) /\ nTaken \in 0 .. Len(wire)
           /\ \A i \in 1 .. Len(wire) : wire[i] \in Packet /\ Made(wire[i])
           /\ Agree(wire, arrived, nTaken)
PROOF
<1>1. /\ wire \in Seq(Packet) /\ Len(wire) \in Nat /\ DOMAIN wire = 1 .. Len(wire)
  BY LenProperties DEF LinkInv, MuxInv, TypeInv, TypeOK
<1>2. nTaken \in 0 .. Len(wire)  BY DEF LinkInv, ArrivedInv
<1>3. nTaken \in Nat /\ nTaken <= Len(wire)  BY <1>1, <1>2
<1>4. Rows(wire, {})  BY DEF LinkInv, MuxInv, RowInv
<1>5. \A i \in 1 .. Len(wire) : wire[i] \in Packet /\ Made(wire[i])
  BY <1>1, <1>4, ElementOfSeq DEF Rows
<1>6. Agree(wire, arrived, nTaken)  BY DEF LinkInv, ArrivedInv, Agree
<1> QED  BY <1>1, <1>2, <1>3, <1>5, <1>6

LEMMA StartOfFrame ==
    ASSUME LinkInv, NEW q \in DOMAIN mEsFrames, mEsFrames[q].data # <<>>
    PROVE  /\ Held(wire, nTaken, q, mEsFrames[q].data)
           /\ mEsFrames[q].data[1] \in 1 .. nTaken
           /\ mEsFrames[q].data[Len(mEsFrames[q].data)] \in 1 .. nTaken
           /\ Heard("pmt", nTaken)
PROOF
<1>1. InFrame(wire, nTaken, q, mEsFrames[q])  BY DEF LinkInv, FramesInv
<1>2. Held(wire, nTaken, q, mEsFrames[q].data)  BY <1>1 DEF InFrame
<1>3. nTaken \in Nat  BY LinkTypes
<1>4. DOMAIN mEsFrames # {}  OBVIOUS
<1>5. Heard("pmt", nTaken)  BY <1>4 DEF LinkInv, TablesInv
<1> QED  BY <1>2, <1>3, <1>5, HeldFacts

MuxOrNone == [Next]_vars /\ UNCHANGED <<demuxVars, nTaken, nFaults>>

LEMMA MuxKeeps == LinkInv /\ MuxOrNone => LinkInv'
PROOF
<1> SUFFICES ASSUME LinkInv, MuxOrNone PROVE LinkInv'  OBVIOUS
<1>1. UNCHANGED <<mPmtId, mInfos, mEsFrames, arrived, events, nTaken, nFaults>>
  BY DEF MuxOrNone, demuxVars
<1>2. [Next]_vars  BY DEF MuxOrNone
<1>3. MuxInv'  BY <1>2, MuxNext DEF LinkInv
<1>t. /\ nTaken \in Nat /\ nTaken <= Len(wire) /\ Len(wire) \in Nat  BY LinkTypes
<1>4. /\ Len(wire) <= Len(wire') /\ Len(wire') \in Nat
      /\ \A i \in 1 .. Len(wire) : wire'[i] = wire[i]
  BY <1>2, WireGrows DEF LinkInv
<1>5. \A i \in 1 .. nTaken : i \in 1 .. Len(wire)  BY <1>t
<1>6. Agree(wire, wire', nTaken)  BY <1>4, <1>5 DEF Agree
<1>7. ArrivedInv'
  <2>1. nTaken \in 0 .. Len(wire')  BY <1>t, <1>4
  <2>2. \A i \in 1 .. nTaken : arrived[i] = wire'[i]  BY <1>6 DEF LinkInv, ArrivedInv, Agree
  <2> QED  BY <1>1, <2>1, <2>2 DEF LinkInv, ArrivedInv
<1>8. \A kind : (\E j \in 1 .. nTaken : wire'[j].load.kind = kind) <=> Heard(kind, nTaken)
  BY <1>6 DEF Heard, Agree
<1>9. TablesInv'
  BY <1>1, <1>8 DEF LinkInv, TablesInv, Heard
<1>10. FramesInv'
  <2>1. ASSUME NEW q \in DOMAIN mEsFrames PROVE InFrame(wire', nTaken, q, mEsFrames[q])
    BY <1>t, <1>6, InFrameKept DEF LinkInv, FramesInv
  <2>2. nTaken > 0 => wire'[nTaken] = wire[nTaken]
    <3>1. nTaken > 0 => nTaken \in 1 .. nTaken  BY <1>t
    <3> QED  BY <1>6, <3>1 DEF Agree
  <2>3. nTaken > 0 /\ Heard("pmt", nTaken) /\ Mid(wire'[nTaken]) =>
          LET d == mEsFrames[wire'[nTaken].pid].data IN d # <<>> /\ d[Len(d)] = nTaken
    BY <2>2 DEF LinkInv, FramesInv
  <2> QED  BY <1>1, <1>8, <2>1, <2>3 DEF FramesInv, Heard
<1>11. EventsInv'  BY <1>1 DEF LinkInv, EventsInv
<1>12. InStep'
  <2>1. ASSUME NEW q \in EncodedPids
        PROVE  SentIn(wire', q, nTaken) = Tell(events, q, arrived) \o InHand(wire', mEsFrames, q)
    <3>1. SentIn(wire', q, nTaken) = SentIn(wire, q, nTaken)  BY <1>t, <1>6, SentSame
    <3>2. InHand(wire', mEsFrames, q) = InHand(wire, mEsFrames, q)
      <4>1. q \in DOMAIN mEsFrames /\ mEsFrames[q].data # <<>> =>
               wire'[mEsFrames[q].data[1]] = wire[mEsFrames[q].data[1]]
        BY <1>6, StartOfFrame DEF Agree
      <4> QED  BY <4>1 DEF InHand
    <3> QED  BY <3>1, <3>2 DEF LinkInv, InStep
  <2> QED  BY <1>1, <2>1 DEF InStep
<1> QED  BY <1>3, <1>7, <1>9, <1>10, <1>11, <1>12 DEF LinkInv

(* One more packet for the receiver, which is one of the four kinds.       *)
LEMMA ReceiveTaken ==
    ASSUME LinkInv, Receive
    PROVE  /\ wire' = wire /\ nTaken' = nTaken + 1 /\ nFaults' = nFaults /\ [Next]_vars
           /\ arrived' = Append(arrived, Taken) /\ D!parseTsPacket(Taken)
           /\ nTaken < Len(wire) /\ nTaken + 1 \in 1 .. Len(wire)
           /\ Taken \in Packet /\ Made(Taken)
           /\ \A kind : (\E j \in 1 .. nTaken + 1 : wire[j].load.kind = kind)
                           <=> Heard(kind, nTaken) \/ Taken.load.kind = kind
PROOF
<1>1. /\ wire' = wire /\ nTaken' = nTaken + 1 /\ nFaults' = nFaults /\ [Next]_vars
      /\ nTaken < Len(wire) /\ D!Arrive(Taken)
  BY DEF Receive, vars, Taken
<1>2. arrived' = Append(arrived, Taken) /\ D!parseTsPacket(Taken)  BY <1>1 DEF D!Arrive
<1>3. nTaken \in Nat /\ Len(wire) \in Nat  BY LinkTypes
<1>4. nTaken + 1 \in 1 .. Len(wire)  BY <1>1, <1>3
<1>5. Taken \in Packet /\ Made(Taken)  BY <1>4, LinkTypes DEF Taken
<1>6. 1 .. nTaken + 1 = (1 .. nTaken) \cup {nTaken + 1}  BY <1>3
<1>7. \A kind : (\E j \in 1 .. nTaken + 1 : wire[j].load.kind = kind)
                   <=> Heard(kind, nTaken) \/ Taken.load.kind = kind
  BY <1>6 DEF Heard, Taken
<1> QED  BY <1>1, <1>2, <1>4, <1>5, <1>7

LEMMA Arrival ==
    ASSUME LinkInv, Receive
    PROVE  /\ TablesInv'
           /\ IF IsPes(Taken) /\ Heard("pmt", nTaken)
              THEN /\ mEsFrames' = [mEsFrames EXCEPT ![Taken.pid] =
                                       IF Full THEN D!EsFrame(OldFrame.type) ELSE NewFrame]
                   /\ Brings(PesEvents)
              ELSE /\ Brings(<<>>)
                   /\ \/ mEsFrames' = mEsFrames
                      \/ /\ DOMAIN mEsFrames = {}
                         /\ \A q \in DOMAIN mEsFrames' : \E type : mEsFrames'[q] = D!EsFrame(type)
PROOF
<1>1. /\ wire' = wire /\ nTaken' = nTaken + 1 /\ D!parseTsPacket(Taken)
      /\ nTaken < Len(wire) /\ nTaken + 1 \in 1 .. Len(wire)
      /\ Taken \in Packet /\ Made(Taken)
      /\ \A kind : (\E j \in 1 .. nTaken + 1 : wire[j].load.kind = kind)
                      <=> Heard(kind, nTaken) \/ Taken.load.kind = kind
  BY ReceiveTaken
<1>2. MuxInv /\ ArrivedInv /\ TablesInv /\ FramesInv /\ \E S : events \in Seq(S)
  BY DEF LinkInv, EventsInv
<1> DEFINE kind == Taken.load.kind
<1>3. /\ kind \in {"pat", "pmt", "none", "pes"}
      /\ kind = "pat" => \E cc \in Cc : Taken = createPat(cc)
      /\ kind = "pmt" => \E cc \in Cc : Taken = createPmt(cc)
      /\ kind = "none" => Taken = PcrPacket(Taken.af.pcr)
  BY <1>1, MadeKinds
<1>4. /\ mPmtId \in {0, PmtPid} /\ DOMAIN mEsFrames \subseteq AnnouncedPids
      /\ mPmtId = IF Heard("pat", nTaken) THEN PmtPid ELSE 0
      /\ mInfos = IF Heard("pmt", nTaken) THEN Streams ELSE <<>>
      /\ DOMAIN mEsFrames = IF Heard("pmt", nTaken) THEN AnnouncedPids ELSE {}
  BY <1>2 DEF TablesInv
<1>5. ASSUME mPmtId' = IF Heard("pat", nTaken) \/ kind = "pat" THEN PmtPid ELSE 0,
             mInfos' = IF Heard("pmt", nTaken) \/ kind = "pmt" THEN Streams ELSE <<>>,
             DOMAIN mEsFrames' = IF Heard("pmt", nTaken) \/ kind = "pmt" THEN AnnouncedPids ELSE {}
      PROVE  TablesInv'
  BY <1>1, <1>5 DEF TablesInv, Heard
<1>6. IsPes(Taken) <=> kind = "pes"  BY DEF IsPes
<1>7. CASE kind = "pat"
  <2>1. mPmtId' = PmtPid /\ mInfos' = mInfos /\ mEsFrames' = mEsFrames /\ Brings(<<>>)
    BY <1>1, <1>2, <1>3, <1>4, <1>7, PatArrives
  <2>2. TablesInv'  BY <1>4, <1>5, <1>7, <2>1
  <2> QED  BY <1>6, <1>7, <2>1, <2>2
<1>8. CASE kind = "pmt"
  <2>1. Heard("pat", nTaken)
    <3>1. /\ Rows(wire, {}) /\ nTaken + 1 \in DOMAIN wire /\ (nTaken + 1) - 1 = nTaken
          /\ nTaken \in Nat /\ DOMAIN wire = 1 .. Len(wire)
      BY <1>1, LinkTypes DEF LinkInv, MuxInv, RowInv
    <3>2. nTaken \in DOMAIN wire /\ wire[nTaken].load.kind = "pat"
      BY <1>8, <3>1 DEF Rows, Taken
    <3>3. nTaken \in 1 .. nTaken
      <4>1. nTaken \in 1 .. Len(wire)  BY <3>1, <3>2
      <4> QED  BY <4>1
    <3> QED  BY <3>2, <3>3 DEF Heard
  <2>2. \/ mInfos = Streams /\ DOMAIN mEsFrames = AnnouncedPids
        \/ mInfos = <<>> /\ DOMAIN mEsFrames = {}
    BY <1>4
  <2>3. /\ mPmtId' = PmtPid /\ mInfos' = Streams /\ DOMAIN mEsFrames' = AnnouncedPids
        /\ \/ mEsFrames' = mEsFrames
           \/ /\ DOMAIN mEsFrames = {}
              /\ \A q \in DOMAIN mEsFrames' : \E type : mEsFrames'[q] = D!EsFrame(type)
        /\ Brings(<<>>)
    BY <1>1, <1>2, <1>3, <1>4, <1>8, <2>1, <2>2, PmtArrives
  <2>4. TablesInv'  BY <1>5, <1>8, <2>1, <2>3
  <2> QED  BY <1>6, <1>8, <2>3, <2>4
<1>9. CASE kind = "none"
  <2>1. UNCHANGED <<mPmtId, mInfos, mEsFrames>> /\ Brings(<<>>)
    <3>1. Taken = PcrPacket(Taken.af.pcr)  BY <1>3, <1>9
    <3>2. D!parseTsPacket(PcrPacket(Taken.af.pcr))  BY <1>1, <3>1
    <3> QED  BY <1>2, <3>2, PcrArrives
  <2>2. TablesInv'  BY <1>4, <1>5, <1>9, <2>1
  <2> QED  BY <1>6, <1>9, <2>1, <2>2
<1>10. CASE kind = "pes" /\ ~Heard("pmt", nTaken)
  <2>1. UNCHANGED <<mPmtId, mInfos, mEsFrames>> /\ Brings(<<>>)
    BY <1>1, <1>2, <1>6, <1>10, PesPassedOver
  <2>2. TablesInv'  BY <1>4, <1>5, <1>10, <2>1
  <2> QED  BY <1>10, <2>1, <2>2
<1>11. CASE kind = "pes" /\ Heard("pmt", nTaken)
  <2>1. /\ UNCHANGED <<mPmtId, mInfos>>
        /\ mEsFrames' = [mEsFrames EXCEPT ![Taken.pid] =
                            IF Full THEN D!EsFrame(OldFrame.type) ELSE NewFrame]
        /\ Brings(PesEvents)
    BY <1>1, <1>2, <1>6, <1>11, PesArrives
  <2>2. DOMAIN mEsFrames' = DOMAIN mEsFrames  BY <2>1
  <2>3. TablesInv'  BY <1>4, <1>5, <1>11, <2>1, <2>2
  <2> QED  BY <1>6, <1>11, <2>1, <2>3
<1> QED  BY <1>3, <1>7, <1>8, <1>9, <1>10, <1>11

(* The frame a packet goes into is held as the packets so far make it.     *)
LEMMA HeldGrows ==
    ASSUME NEW w, NEW m \in Nat, IsPes(w[m + 1]), \E j \in 1 .. m : w[j].load.kind = "pmt",
           NEW old, NEW e, Extends(w, m, old, e)
    PROVE  LET p == w[m + 1]
           IN  /\ Held(w, m + 1, p.pid, e)
               /\ e \in Seq(1 .. m + 1) /\ Len(e) \in Nat /\ e # <<>>
               /\ e[Len(e)] = m + 1
               /\ e[1] = IF p.pusi THEN m + 1 ELSE old.data[1]
               /\ ~p.pusi => old.data # <<>>
PROOF
<1> DEFINE n == m + 1
           p == w[n]
<1>3. n \in Nat /\ n \in 1 .. n /\ m <= n  OBVIOUS
<1>5. CASE p.pusi
  <2>1. e = <<n>>  BY <1>5 DEF Extends
  <2>3. n \in StartsIn(w, p.pid, n)
    <3>1. IsStart(p)  BY <1>5 DEF IsStart, IsPes
    <3>2. \E j \in 1 .. n : w[j].load.kind = "pmt"
      <4>1. \A j \in 1 .. m : j \in 1 .. n  BY <1>3
      <4> QED  BY <4>1
    <3> HIDE DEF n
    <3> QED  BY <1>3, <3>1, <3>2 DEF StartsIn
  <2> HIDE DEF n
  <2>2. /\ e \in Seq(1 .. n) /\ Len(e) = 1 /\ e[1] = n /\ e # <<>>
    BY <1>3, <2>1
  <2>4. \A i \in 1 .. Len(e) - 1 : FALSE  BY <2>2
  <2>5. Held(w, n, p.pid, e)  BY <2>2, <2>3, <2>4 DEF Held, n
  <2> QED  BY <1>5, <2>2, <2>5 DEF n
<1>6. CASE ~p.pusi
  <2> DEFINE d == old.data
  <2>1. /\ Held(w, m, p.pid, d) /\ e = Append(d, n)
        /\ w[n].load.run.frame = w[d[Len(d)]].load.run.frame
        /\ w[n].load.run.from = EndOf(w[d[Len(d)]].load.run)
    BY <1>6 DEF Extends
  <2>2. d # <<>>  BY <2>1 DEF Held
  <2>3. Held(w, n, p.pid, d)
    <3>1. Agree(w, w, m)  BY DEF Agree
    <3> HIDE DEF n, d, p
    <3> QED  BY <1>3, <2>1, <3>1, HeldKept
  <2>5. /\ Len(d) \in Nat \ {0} /\ Len(d) \in 1 .. Len(d) /\ 1 \in 1 .. Len(d)
        /\ w[d[Len(d)]].load.run.frame = w[d[1]].load.run.frame
    <3> HIDE DEF n, d, p
    <3> QED  BY <2>1, HeldFacts
  <2>6. IsPes(p)  OBVIOUS
  <2> HIDE DEF n, d
  <2>7. /\ e \in Seq(1 .. n) /\ Len(e) = Len(d) + 1 /\ e[Len(d) + 1] = n
        /\ \A i \in 1 .. Len(d) : e[i] = d[i]
    <3>1. d \in Seq(1 .. n)  BY <2>3 DEF Held
    <3> QED  BY <1>3, <2>1, <2>5, <3>1, AppendProperties
  <2>8. e # <<>>  BY <2>5, <2>7
  <2>9. e[1] = d[1]  BY <2>5, <2>7
  <2>10. \A i \in 1 .. Len(e) - 1 :
          /\ w[e[i + 1]].load.run.frame = w[e[1]].load.run.frame
          /\ w[e[i + 1]].load.run.from = EndOf(w[e[i]].load.run)
    <3> SUFFICES ASSUME NEW i \in 1 .. Len(d)
                 PROVE  /\ w[e[i + 1]].load.run.frame = w[d[1]].load.run.frame
                        /\ w[e[i + 1]].load.run.from = EndOf(w[d[i]].load.run)
      BY <2>5, <2>7, <2>9
    <3>1. CASE i = Len(d)  BY <2>1, <2>5, <2>7, <3>1
    <3>2. CASE i # Len(d)
      <4>1. i \in 1 .. Len(d) - 1 /\ i + 1 \in 1 .. Len(d)  BY <2>5, <3>2
      <4>2. e[i + 1] = d[i + 1]  BY <2>7, <4>1
      <4> QED  BY <2>3, <4>1, <4>2 DEF Held
    <3> QED  BY <3>1, <3>2
  <2>12. Len(e) = Len(d) + 1 /\ e[Len(e)] = n  BY <2>5, <2>7
  <2>11. Held(w, n, p.pid, e)
    <3>1. d[1] \in StartsIn(w, p.pid, n)  BY <2>3 DEF Held
    <3>2. w[e[Len(e)]] = p  BY <2>12 DEF n
    <3> HIDE DEF p
    <3> QED  BY <2>6, <2>7, <2>8, <2>9, <2>10, <3>1, <3>2 DEF Held
  <2>14. e \in Seq(1 .. n) /\ Len(e) \in Nat  BY <2>7, LenProperties
  <2> QED  BY <1>6, <2>2, <2>8, <2>9, <2>11, <2>12, <2>14 DEF n, d
<1> QED  BY <1>5, <1>6

LEMMA NewHeld ==
    ASSUME LinkInv, Receive, IsPes(Taken), Heard("pmt", nTaken)
    PROVE  /\ Held(wire, nTaken + 1, Taken.pid, NewData)
           /\ NewData \in Seq(1 .. nTaken + 1) /\ Len(NewData) \in Nat /\ NewData # <<>>
           /\ NewData[Len(NewData)] = nTaken + 1
           /\ NewData[1] = IF Taken.pusi THEN nTaken + 1 ELSE OldFrame.data[1]
           /\ ~Taken.pusi => OldFrame.data # <<>>
PROOF
<1>1. nTaken < Len(wire) /\ nTaken \in Nat  BY ReceiveTaken, LinkTypes
<1>2. Extends(wire, nTaken, OldFrame, NewData)  BY <1>1, NewFrameMade DEF LinkInv
<1> HIDE DEF Extends
<1> QED  BY <1>1, <1>2, HeldGrows DEF Taken, Heard


LEMMA FramesNext == LinkInv /\ Receive => FramesInv'
PROOF
<1> SUFFICES ASSUME LinkInv, Receive PROVE FramesInv'  OBVIOUS
<1> DEFINE n == nTaken + 1
<1>1. /\ wire' = wire /\ nTaken' = n /\ nTaken < Len(wire) /\ n \in 1 .. Len(wire)
      /\ \A kind : (\E j \in 1 .. n : wire[j].load.kind = kind)
                      <=> Heard(kind, nTaken) \/ Taken.load.kind = kind
      /\ nTaken \in Nat /\ n \in Nat /\ nTaken <= n /\ Agree(wire, wire, nTaken)
  BY ReceiveTaken, LinkTypes DEF Agree
<1>2. Rows(wire, {}) /\ DOMAIN wire = 1 .. Len(wire)
  BY LinkTypes DEF LinkInv, MuxInv, RowInv
<1>3. \A q \in DOMAIN mEsFrames : InFrame(wire, nTaken, q, mEsFrames[q])
  BY DEF LinkInv, FramesInv
<1>4. wire[n] = Taken  BY DEF Taken
<1> HIDE DEF n
<1>5. SUFFICES
        /\ \A q \in DOMAIN mEsFrames' : InFrame(wire, n, q, mEsFrames'[q])
        /\ (\E j \in 1 .. n : wire[j].load.kind = "pmt") /\ Mid(Taken) =>
              LET d == mEsFrames'[Taken.pid].data IN d # <<>> /\ d[Len(d)] = n
  BY <1>1, <1>4 DEF FramesInv, Heard
(* What is not touched stays as it is, unless it waits for this packet.    *)
<1>6. ASSUME NEW q \in DOMAIN mEsFrames, ~(IsPes(Taken) /\ ~Taken.pusi /\ wire[nTaken].pid = q)
      PROVE  InFrame(wire, n, q, mEsFrames[q])
  <2> DEFINE d == mEsFrames[q].data
  <2>1. ASSUME d # <<>>, Mid(wire[d[Len(d)]]) PROVE FALSE
    <3>1. Held(wire, nTaken, q, d) /\ d[Len(d)] \in 1 .. nTaken  BY <2>1, StartOfFrame
    <3>2. InFrame(wire, nTaken, q, mEsFrames[q])  BY <1>3
    <3>3. d[Len(d)] = nTaken  BY <2>1, <3>2 DEF InFrame
    <3>4. Mid(wire[nTaken]) /\ wire[nTaken].pid = q  BY <2>1, <3>1, <3>3 DEF Held
    <3>5. nTaken \in 1 .. nTaken  BY <3>1, <3>3
    <3>6. nTaken \in 1 .. Len(wire) /\ nTaken # Len(wire)
      <4>1. \A a, b \in Nat : a \in 1 .. a /\ a < b => a \in 1 .. b /\ a # b  OBVIOUS
      <4>2. Len(wire) \in Nat  BY LinkTypes
      <4> QED  BY <1>1, <3>5, <4>1, <4>2
    <3>7. IsPes(wire[nTaken + 1]) /\ ~wire[nTaken + 1].pusi
      <4>1. nTaken \in DOMAIN wire  BY <1>2, <3>6, Zenon
      <4>2. \A i \in DOMAIN wire : Mid(wire[i]) =>
               IF i = Len(wire) THEN Cursor(wire[i]) \in {}
               ELSE IsPes(wire[i + 1]) /\ ~wire[i + 1].pusi
        BY <1>2 DEF Rows
      <4> QED  BY <3>4, <3>6, <4>1, <4>2, Zenon
    <3> QED  BY <1>6, <3>4, <3>7 DEF Taken
  <2> HIDE DEF d
  <2>2. mEsFrames[q].data # <<>> /\ Mid(wire[mEsFrames[q].data[Len(mEsFrames[q].data)]]) => n = nTaken
    BY <2>1 DEF d
  <2> QED  BY <1>1, <1>3, <2>2, InFrameKept
<1>7. CASE ~(IsPes(Taken) /\ Heard("pmt", nTaken))
  <2>1. \/ mEsFrames' = mEsFrames
        \/ /\ DOMAIN mEsFrames = {}
           /\ \A q \in DOMAIN mEsFrames' : \E type : mEsFrames'[q] = D!EsFrame(type)
    BY <1>7, Arrival
  <2>2. ASSUME NEW q \in DOMAIN mEsFrames' PROVE InFrame(wire, n, q, mEsFrames'[q])
    <3>1. CASE mEsFrames' = mEsFrames
      <4>1. q \in DOMAIN mEsFrames /\ DOMAIN mEsFrames # {}  BY <2>2, <3>1
      <4>2. Heard("pmt", nTaken)  BY <4>1 DEF LinkInv, TablesInv
      <4> QED  BY <1>6, <1>7, <3>1, <4>1, <4>2
    <3>2. CASE \E type : mEsFrames'[q] = D!EsFrame(type)
      <4>1. PICK type : mEsFrames'[q] = D!EsFrame(type)  BY <3>2
      <4>2. D!EsFrame(type).data = <<>> /\ D!EsFrame(type).type = type  BY DEF D!EsFrame
      <4> QED  BY <4>1, <4>2 DEF InFrame
    <3> QED  BY <2>1, <2>2, <3>1, <3>2
  <2>3. ~(Mid(Taken) /\ \E j \in 1 .. n : wire[j].load.kind = "pmt")
    <3>1. Mid(Taken) => Taken.load.kind = "pes"  BY DEF Mid, IsPes
    <3> QED  BY <1>1, <1>7, <3>1 DEF IsPes
  <2> QED  BY <2>2, <2>3
<1>8. CASE IsPes(Taken) /\ Heard("pmt", nTaken)
  <2>1. mEsFrames' = [mEsFrames EXCEPT ![Taken.pid] =
                         IF Full THEN D!EsFrame(OldFrame.type) ELSE NewFrame]
    BY <1>8, Arrival
  <2>2. Taken.pid \in DOMAIN mEsFrames /\ (~Taken.pusi => wire[nTaken].pid = Taken.pid)
    BY <1>1, <1>8, TakenFacts DEF LinkInv
  <2>3. ASSUME NEW q \in DOMAIN mEsFrames, q # Taken.pid
        PROVE  InFrame(wire, n, q, mEsFrames'[q])
    <3>1. mEsFrames'[q] = mEsFrames[q]  BY <2>1, <2>3
    <3> QED  BY <1>6, <2>2, <2>3, <3>1
  <2>4. /\ Held(wire, n, Taken.pid, NewData) /\ NewData # <<>> /\ NewData[Len(NewData)] = n
    BY <1>8, NewHeld DEF n
  <2>5. NewFrame.data = NewData /\ NewFrame.type = OldFrame.type  BY DEF NewFrame, Filling
  <2>6. mEsFrames'[Taken.pid] = IF Full THEN D!EsFrame(OldFrame.type) ELSE NewFrame
    BY <2>1, <2>2
  <2>7. InFrame(wire, n, Taken.pid, mEsFrames'[Taken.pid])
    <3>1. CASE Full
      <4>1. D!EsFrame(OldFrame.type).data = <<>> /\ D!EsFrame(OldFrame.type).type = OldFrame.type
        BY DEF D!EsFrame
      <4> QED  BY <2>6, <3>1, <4>1 DEF InFrame
    <3>2. CASE ~Full
      <4>1. NewFrame = Filling(wire, NewFrame.type, NewData)  BY <2>5 DEF NewFrame
      <4>2. ~Mid(Taken) => NewFrame.expPes = 0  BY <3>2 DEF Full
      <4>3. wire[NewData[Len(NewData)]] = Taken  BY <1>4, <2>4
      <4> QED  BY <2>4, <2>5, <2>6, <3>2, <4>1, <4>2, <4>3 DEF InFrame
    <3> QED  BY <3>1, <3>2
  <2>8. DOMAIN mEsFrames' = DOMAIN mEsFrames  BY <2>1
  <2>9. Mid(Taken) => mEsFrames'[Taken.pid].data = NewData  BY <2>5, <2>6 DEF Full
  <2> QED  BY <2>3, <2>4, <2>7, <2>8, <2>9
<1> QED  BY <1>7, <1>8

(* The frames that come out, one after the other.                          *)
LEMMA ToldNothing ==
    ASSUME Brings(<<>>), NEW q, NEW a
    PROVE  Tell(events', q, a) = Tell(events, q, a)
PROOF
<1>1. PICK S : \E quiet \in Seq(S) :
        /\ events \in Seq(S) /\ <<>> \in Seq(S)
        /\ \A k \in DOMAIN quiet : quiet[k].kind # "es"
        /\ events' = (events \o quiet) \o <<>>
  BY DEF Brings
<1>2. PICK quiet \in Seq(S) :
        /\ events \in Seq(S)
        /\ \A k \in DOMAIN quiet : quiet[k].kind # "es"
        /\ events' = (events \o quiet) \o <<>>
  BY <1>1
<1>3. events' = events \o quiet  BY <1>2, ConcatProperties, ConcatEmptySeq
<1> QED  BY <1>2, <1>3, TellQuiet

LEMMA ToldFrames ==
    ASSUME Brings(PesEvents), NEW q, NEW a
    PROVE  LET old == Tell(events, q, a)
               cut == IF CutOff /\ q = Taken.pid
                      THEN Then(old, ToldOf(a, Completed(Taken.pid, OldFrame, nTaken))) ELSE old
           IN  Tell(events', q, a) =
                 IF Full /\ q = Taken.pid
                 THEN Then(cut, ToldOf(a, Completed(Taken.pid, NewFrame, nTaken + 1))) ELSE cut
PROOF
<1> DEFINE x == Completed(Taken.pid, OldFrame, nTaken)
           y == Completed(Taken.pid, NewFrame, nTaken + 1)
           flush == IF CutOff THEN <<x>> ELSE <<>>
           last  == IF Full THEN <<y>> ELSE <<>>
           old == Tell(events, q, a)
           cut == IF CutOff /\ q = Taken.pid THEN Then(old, ToldOf(a, x)) ELSE old
<1>1. PICK S : \E quiet \in Seq(S) :
        /\ events \in Seq(S) /\ PesEvents \in Seq(S)
        /\ \A k \in DOMAIN quiet : quiet[k].kind # "es"
        /\ events' = (events \o quiet) \o PesEvents
  BY DEF Brings
<1>2. PICK quiet \in Seq(S) :
        /\ events \in Seq(S) /\ PesEvents \in Seq(S)
        /\ \A k \in DOMAIN quiet : quiet[k].kind # "es"
        /\ events' = (events \o quiet) \o PesEvents
  BY <1>1
<1>3. x.kind = "es" /\ x.pid = Taken.pid /\ y.kind = "es" /\ y.pid = Taken.pid
  BY DEF Completed, D!Deliver
<1>4. PesEvents = flush \o last  BY DEF PesEvents
<1> DEFINE T == S \cup {x, y}
           ev0 == events \o quiet
           ev1 == ev0 \o flush
<1>5. x \in T /\ y \in T /\ events \in Seq(T) /\ quiet \in Seq(T)
  <2>1. S \subseteq T  OBVIOUS
  <2> HIDE DEF T
  <2>2. events \in Seq(T) /\ quiet \in Seq(T)  BY <1>2, <2>1, SeqMonotonic
  <2> QED  BY <2>2 DEF T
<1>6. flush \in Seq(T) /\ last \in Seq(T)
  <2>1. <<>> \in Seq(T) /\ \A z \in T : <<z>> \in Seq(T)  OBVIOUS
  <2>2. (flush = <<x>> \/ flush = <<>>) /\ (last = <<y>> \/ last = <<>>)  OBVIOUS
  <2> HIDE DEF T, flush, last, x, y
  <2> QED  BY <1>5, <2>1, <2>2, Zenon
<1> HIDE DEF T, x, y
<1>7. ev0 \in Seq(T) /\ Tell(ev0, q, a) = old
  <2>1. ev0 \in Seq(T)  BY <1>5, ConcatProperties
  <2>2. Tell(events \o quiet, q, a) = Tell(events, q, a)  BY <1>2, TellQuiet
  <2> QED  BY <2>1, <2>2
<1>8. ev1 \in Seq(T) /\ Tell(ev1, q, a) = cut
  <2> HIDE DEF ev0
  <2>1. CASE CutOff
    <3>1. ev1 = ev0 \o <<x>>  BY <2>1
    <3>2. ev1 \in Seq(T)  BY <1>6, <1>7, ConcatProperties
    <3>3. Tell(ev1, q, a) = IF x.kind = "es" /\ x.pid = q THEN Then(Tell(ev0, q, a), ToldOf(a, x))
                            ELSE Tell(ev0, q, a)
      BY <1>5, <1>7, <3>1, TellOne
    <3> QED  BY <1>3, <1>7, <2>1, <3>2, <3>3
  <2>2. CASE ~CutOff
    <3>1. ev1 = ev0  BY <1>7, <2>2, ConcatEmptySeq
    <3> QED  BY <1>7, <2>2, <3>1
  <2> QED  BY <2>1, <2>2
<1>9. events' = ev1 \o last
  <2> HIDE DEF flush, last, ev0
  <2>1. (ev0 \o flush) \o last = ev0 \o (flush \o last)
    BY <1>6, <1>7, ConcatAssociative
  <2>2. events' = ev0 \o (flush \o last)  BY <1>2, <1>4 DEF ev0
  <2> QED  BY <2>1, <2>2
<1> HIDE DEF ev1, cut
<1>10. Tell(events', q, a) = IF Full /\ q = Taken.pid THEN Then(cut, ToldOf(a, y)) ELSE cut
  <2>1. CASE Full
    <3>1. events' = ev1 \o <<y>>  BY <1>9, <2>1
    <3>2. Tell(events', q, a) = IF y.kind = "es" /\ y.pid = q THEN Then(Tell(ev1, q, a), ToldOf(a, y))
                                ELSE Tell(ev1, q, a)
      BY <1>5, <1>8, <3>1, TellOne
    <3> QED  BY <1>3, <1>8, <2>1, <3>2
  <2>2. CASE ~Full
    <3>1. events' = ev1  BY <1>8, <1>9, <2>2, ConcatEmptySeq
    <3> QED  BY <1>8, <2>2, <3>1
  <2> QED  BY <2>1, <2>2
<1> QED  BY <1>10 DEF cut, x, y

(* The data of the frames in ev are in T.                                  *)
DataIn(ev, T) == \A k \in DOMAIN ev : ev[k].kind = "es" => ev[k].frame.data \in T

LEMMA DataMore ==
    ASSUME NEW S, NEW s \in Seq(S), NEW t \in Seq(S), NEW T, DataIn(s, T), DataIn(t, T)
    PROVE  DataIn(s \o t, T)
PROOF
<1> DEFINE u == s \o t
<1>1. /\ Len(s) \in Nat /\ DOMAIN s = 1 .. Len(s) /\ Len(t) \in Nat /\ DOMAIN t = 1 .. Len(t)
  BY LenProperties
<1>2. /\ u \in Seq(S) /\ Len(u) = Len(s) + Len(t)
      /\ \A k \in 1 .. Len(u) : u[k] = IF k <= Len(s) THEN s[k] ELSE t[k - Len(s)]
  BY ConcatProperties
<1>3. DOMAIN u = 1 .. Len(s) + Len(t)  BY <1>2, LenProperties
<1> HIDE DEF u
<1>4. SUFFICES ASSUME NEW k \in 1 .. Len(s) + Len(t), u[k].kind = "es" PROVE u[k].frame.data \in T
  BY <1>3 DEF DataIn, u
<1>5. CASE k <= Len(s)
  <2>1. k \in 1 .. Len(s) /\ u[k] = s[k]  BY <1>1, <1>2, <1>5
  <2> QED  BY <1>1, <1>4, <2>1 DEF DataIn
<1>6. CASE ~(k <= Len(s))
  <2>1. k - Len(s) \in 1 .. Len(t) /\ u[k] = t[k - Len(s)]  BY <1>1, <1>2, <1>6
  <2> QED  BY <1>1, <1>4, <2>1 DEF DataIn
<1> QED  BY <1>5, <1>6

LEMMA EventsNext == LinkInv /\ Receive => EventsInv'
PROOF
<1> SUFFICES ASSUME LinkInv, Receive PROVE EventsInv'  OBVIOUS
<1> DEFINE n == nTaken + 1
<1>1. nTaken' = n /\ nTaken \in Nat /\ n \in Nat  BY ReceiveTaken, LinkTypes
<1>2. 1 .. nTaken \subseteq 1 .. n  BY <1>1
<1>3. DataIn(events, Seq(1 .. n))
  <2>1. DataIn(events, Seq(1 .. nTaken))  BY DEF LinkInv, EventsInv, DataIn
  <2> HIDE DEF n
  <2>2. Seq(1 .. nTaken) \subseteq Seq(1 .. n)  BY <1>2, SeqMonotonic
  <2> QED  BY <2>1, <2>2 DEF DataIn
<1>4. PICK es, S : \E quiet \in Seq(S) :
        /\ events \in Seq(S) /\ es \in Seq(S)
        /\ \A k \in DOMAIN quiet : quiet[k].kind # "es"
        /\ events' = (events \o quiet) \o es
        /\ DataIn(es, Seq(1 .. n))
  <2>1. CASE ~(IsPes(Taken) /\ Heard("pmt", nTaken))
    <3>1. Brings(<<>>)  BY <2>1, Arrival
    <3>2. DataIn(<<>>, Seq(1 .. n))  BY DEF DataIn
    <3> QED  BY <3>1, <3>2 DEF Brings
  <2>2. CASE IsPes(Taken) /\ Heard("pmt", nTaken)
    <3>1. Brings(PesEvents)  BY <2>2, Arrival
    <3> DEFINE x == Completed(Taken.pid, OldFrame, nTaken)
               y == Completed(Taken.pid, NewFrame, nTaken + 1)
               flush == IF CutOff THEN <<x>> ELSE <<>>
               last  == IF Full THEN <<y>> ELSE <<>>
    <3>2. CutOff => x.frame.data \in Seq(1 .. n)
      <4>1. x.frame.data = OldFrame.data  BY DEF Completed, D!Deliver
      <4>2. ASSUME CutOff PROVE OldFrame.data \in Seq(1 .. nTaken)
        <5>1. Taken.pid \in DOMAIN mEsFrames /\ mEsFrames[Taken.pid].data # <<>>
              /\ OldFrame = mEsFrames[Taken.pid]
          BY <2>2, <4>2, ReceiveTaken, TakenFacts DEF LinkInv, CutOff, OldFrame
        <5> QED  BY <5>1, StartOfFrame DEF Held
      <4> HIDE DEF n, x
      <4> QED  BY <1>2, <4>1, <4>2, SeqMonotonic
    <3>3. y.frame.data \in Seq(1 .. n)
      <4>1. y.frame.data = NewData  BY DEF Completed, D!Deliver, NewFrame, Filling
      <4> QED  BY <2>2, <4>1, NewHeld
    <3> HIDE DEF x, y, n
    <3>4. PesEvents = flush \o last  BY DEF PesEvents, x, y
    <3>5. DataIn(flush, Seq(1 .. n)) /\ DataIn(last, Seq(1 .. n))
          /\ flush \in Seq({x, y}) /\ last \in Seq({x, y})
      <4>1. <<>> \in Seq({x, y}) /\ DataIn(<<>>, Seq(1 .. n))  BY DEF DataIn
      <4>2. <<x>> \in Seq({x, y}) /\ (x.frame.data \in Seq(1 .. n) => DataIn(<<x>>, Seq(1 .. n)))
        BY DEF DataIn
      <4>3. <<y>> \in Seq({x, y}) /\ (y.frame.data \in Seq(1 .. n) => DataIn(<<y>>, Seq(1 .. n)))
        BY DEF DataIn
      <4> QED  BY <3>2, <3>3, <4>1, <4>2, <4>3
    <3>6. DataIn(PesEvents, Seq(1 .. n))
      <4> HIDE DEF flush, last
      <4> QED  BY <3>4, <3>5, DataMore
    <3> QED  BY <3>1, <3>6 DEF Brings
  <2> QED  BY <2>1, <2>2
<1>5. PICK quiet \in Seq(S) :
        /\ events \in Seq(S) /\ es \in Seq(S)
        /\ \A k \in DOMAIN quiet : quiet[k].kind # "es"
        /\ events' = (events \o quiet) \o es
        /\ DataIn(es, Seq(1 .. n))
  BY <1>4
<1>6. events' \in Seq(S)  BY <1>5, ConcatProperties
<1>7. DataIn(quiet, Seq(1 .. n))  BY <1>5 DEF DataIn
<1>8. DataIn(events \o quiet, Seq(1 .. n)) /\ events \o quiet \in Seq(S)
  BY <1>3, <1>5, <1>7, DataMore, ConcatProperties
<1>9. DataIn((events \o quiet) \o es, Seq(1 .. n))  BY <1>5, <1>8, DataMore
<1>10. DataIn(events', Seq(1 .. n))  BY <1>5, <1>9
<1> QED  BY <1>1, <1>6, <1>10 DEF EventsInv, DataIn

LEMMA TellsSeq ==
    ASSUME LinkInv, NEW q, NEW a
    PROVE  /\ \E X : Tell(events, q, a) \in Seq(X)
           /\ Tell(events, q, a) \o <<>> = Tell(events, q, a)
PROOF
<1>1. PICK S : events \in Seq(S)  BY DEF LinkInv, EventsInv
<1>2. IsFiniteSet(EsOf(events, q))  BY <1>1, EsAreNumbers
<1>3. \E X : Tell(events, q, a) \in Seq(X)  BY <1>2, PicksSeq DEF Tell
<1>4. PICK X : Tell(events, q, a) \in Seq(X)  BY <1>3
<1> QED  BY <1>3, <1>4, ConcatEmptySeq

LEMMA InStepNext == LinkInv /\ Receive => InStep'
PROOF
<1> SUFFICES ASSUME LinkInv, Receive PROVE InStep'  OBVIOUS
<1> DEFINE n == nTaken + 1
           b == arrived'
<1>1. /\ wire' = wire /\ nTaken' = n /\ nTaken < Len(wire) /\ n \in 1 .. Len(wire)
      /\ \A kind : (\E j \in 1 .. n : wire[j].load.kind = kind)
                      <=> Heard(kind, nTaken) \/ Taken.load.kind = kind
      /\ nTaken \in Nat /\ n \in Nat /\ nTaken <= n
      /\ arrived' = Append(arrived, Taken)
  BY ReceiveTaken, LinkTypes
<1>2. wire[n] = Taken  BY DEF Taken
<1>3. Agree(arrived, b, nTaken) /\ Agree(wire, b, n)
  <2>1. arrived \in Seq(Packet) /\ Len(arrived) = nTaken /\ Agree(wire, arrived, nTaken)
    BY DEF LinkInv, ArrivedInv, Agree
  <2>2. Taken \in Packet  BY ReceiveTaken
  <2>3. /\ \A i \in 1 .. nTaken : b[i] = arrived[i]
        /\ b[n] = Taken
    BY <1>1, <2>1, <2>2, AppendProperties
  <2>4. 1 .. n = (1 .. nTaken) \cup {n}  BY <1>1
  <2> QED  BY <1>2, <2>1, <2>3, <2>4 DEF Agree
<1> HIDE DEF n
<1>4. ASSUME NEW q \in EncodedPids
      PROVE  Tell(events, q, b) = Tell(events, q, arrived)
  BY <1>3, TellSame DEF LinkInv, EventsInv
<1>5. ASSUME NEW q \in EncodedPids
      PROVE  SentIn(wire, q, n) = IF StartsAt(wire, q, n) THEN SentIn(wire, q, nTaken) \o <<ToldBy(Taken)>>
                                  ELSE SentIn(wire, q, nTaken)
  BY <1>1, <1>2, SentMore DEF n
<1>6. ASSUME NEW q \in EncodedPids
      PROVE  SentIn(wire, q, n) = Tell(events', q, b) \o InHand(wire, mEsFrames', q)
  <2> DEFINE S0 == SentIn(wire, q, nTaken)
             t0 == Tell(events, q, b)
  <2>1. S0 = t0 \o InHand(wire, mEsFrames, q) /\ t0 \o <<>> = t0
    BY <1>4, TellsSeq DEF LinkInv, InStep
  <2>2. CASE ~(IsPes(Taken) /\ Heard("pmt", nTaken))
    <3>1. /\ Brings(<<>>)
          /\ \/ mEsFrames' = mEsFrames
             \/ /\ DOMAIN mEsFrames = {}
                /\ \A p \in DOMAIN mEsFrames' : \E type : mEsFrames'[p] = D!EsFrame(type)
      BY <2>2, Arrival
    <3>2. Tell(events', q, b) = t0  BY <3>1, ToldNothing
    <3>3. InHand(wire, mEsFrames', q) = InHand(wire, mEsFrames, q)
      <4>1. \A type : D!EsFrame(type).data = <<>>  BY DEF D!EsFrame
      <4> QED  BY <3>1, <4>1 DEF InHand
    <3>4. ~StartsAt(wire, q, n)
      <4>1. IsStart(Taken) => Taken.load.kind = "pes"  BY DEF IsStart
      <4> QED  BY <1>1, <1>2, <2>2, <4>1 DEF StartsAt, IsPes
    <3> QED  BY <1>5, <2>1, <3>2, <3>3, <3>4
  <2>3. CASE IsPes(Taken) /\ Heard("pmt", nTaken) /\ q # Taken.pid
    <3>1. /\ mEsFrames' = [mEsFrames EXCEPT ![Taken.pid] =
                             IF Full THEN D!EsFrame(OldFrame.type) ELSE NewFrame]
          /\ Brings(PesEvents)
      BY <2>3, Arrival
    <3>2. Tell(events', q, b) = t0  BY <2>3, <3>1, ToldFrames
    <3>3. DOMAIN mEsFrames' = DOMAIN mEsFrames
          /\ (q \in DOMAIN mEsFrames => mEsFrames'[q] = mEsFrames[q])
      BY <2>3, <3>1
    <3>4. InHand(wire, mEsFrames', q) = InHand(wire, mEsFrames, q)  BY <3>3 DEF InHand
    <3>5. ~StartsAt(wire, q, n)  BY <1>2, <2>3 DEF StartsAt
    <3> QED  BY <1>5, <2>1, <3>2, <3>4, <3>5
  <2>4. CASE IsPes(Taken) /\ Heard("pmt", nTaken) /\ q = Taken.pid
    <3> DEFINE d == OldFrame.data
               x == ToldOf(b, Completed(Taken.pid, OldFrame, nTaken))
               y == ToldOf(b, Completed(Taken.pid, NewFrame, nTaken + 1))
               cut == IF CutOff THEN Then(t0, x) ELSE t0
    <3>1. /\ mEsFrames' = [mEsFrames EXCEPT ![Taken.pid] =
                             IF Full THEN D!EsFrame(OldFrame.type) ELSE NewFrame]
          /\ Brings(PesEvents)
      BY <2>4, Arrival
    <3>2. /\ Taken.pid \in DOMAIN mEsFrames
          /\ InFrame(wire, nTaken, q, OldFrame)
          /\ CutOff => ~Mid(wire[d[Len(d)]])
      BY <1>1, <2>4, TakenFacts DEF LinkInv
    <3>3. /\ Held(wire, n, q, NewData) /\ NewData # <<>> /\ NewData[Len(NewData)] = n
          /\ NewData[1] = IF Taken.pusi THEN n ELSE d[1]
          /\ ~Taken.pusi => d # <<>>
      BY <2>4, NewHeld DEF n
    <3>4. AllMade(wire, n)
      <4>1. \A i \in 1 .. n : i \in 1 .. Len(wire)
        <5>1. Len(wire) \in Nat  BY LinkTypes
        <5> QED  BY <1>1, <5>1
      <4> QED  BY <4>1, LinkTypes DEF AllMade
    <3>5. Tell(events', q, b) = IF Full THEN Then(cut, y) ELSE cut
      BY <2>4, <3>1, ToldFrames
    <3>6. CutOff => x = ToldBy(wire[d[1]])
      <4> SUFFICES ASSUME CutOff PROVE x = ToldBy(wire[d[1]])  OBVIOUS
      <4>1. d # <<>>  BY DEF CutOff
      <4>2. Held(wire, nTaken, q, d) /\ OldFrame = Filling(wire, OldFrame.type, d)
        BY <3>2, <4>1 DEF InFrame
      <4>3. AllMade(wire, nTaken)
        <5>1. \A i \in 1 .. nTaken : i \in 1 .. n  BY <1>1
        <5> QED  BY <3>4, <5>1 DEF AllMade
      <4>4. Agree(wire, b, nTaken)
        <5>1. \A i \in 1 .. nTaken : i \in 1 .. n  BY <1>1
        <5> QED  BY <1>3, <5>1 DEF Agree
      <4>5. ToldOf(b, Completed(q, Filling(wire, OldFrame.type, d), nTaken)) = ToldBy(wire[d[1]])
        <5>1. ~Mid(wire[d[Len(d)]])  BY <3>2
        <5> HIDE DEF d, b
        <5> QED  BY <1>1, <4>2, <4>3, <4>4, <5>1, HeldTold
      <4> QED  BY <2>4, <4>2, <4>5
    <3>7. Full => y = ToldBy(wire[NewData[1]])
      <4> SUFFICES ASSUME Full PROVE y = ToldBy(wire[NewData[1]])  OBVIOUS
      <4>1. ~Mid(wire[NewData[Len(NewData)]])  BY <1>2, <3>3 DEF Full
      <4>2. ToldOf(b, Completed(q, Filling(wire, OldFrame.type, NewData), nTaken + 1))
              = ToldBy(wire[NewData[1]])
        <5> HIDE DEF b
        <5> QED  BY <1>1, <1>3, <3>3, <3>4, <4>1, HeldTold
      <4> QED  BY <2>4, <4>2 DEF NewFrame
    <3>8. InHand(wire, mEsFrames, q) = IF d # <<>> THEN <<ToldBy(wire[d[1]])>> ELSE <<>>
      BY <2>4, <3>2 DEF InHand, OldFrame
    <3>9. InHand(wire, mEsFrames', q) = IF Full THEN <<>> ELSE <<ToldBy(wire[NewData[1]])>>
      <4>1. q \in DOMAIN mEsFrames'
            /\ mEsFrames'[q] = IF Full THEN D!EsFrame(OldFrame.type) ELSE NewFrame
        BY <2>4, <3>1, <3>2
      <4>2. D!EsFrame(OldFrame.type).data = <<>> /\ NewFrame.data = NewData
        BY DEF D!EsFrame, NewFrame, Filling
      <4>3. CASE Full  BY <4>1, <4>2, <4>3 DEF InHand
      <4>4. CASE ~Full
        <5>1. mEsFrames'[q].data = NewData  BY <4>1, <4>2, <4>4
        <5> QED  BY <3>3, <4>1, <4>4, <5>1 DEF InHand
      <4> QED  BY <4>3, <4>4
    <3>10. StartsAt(wire, q, n) <=> Taken.pusi
      <4>1. \E j \in 1 .. n : wire[j].load.kind = "pmt"  BY <1>1, <2>4
      <4> QED  BY <1>2, <2>4, <4>1 DEF StartsAt, IsStart, IsPes
    <3> HIDE DEF d, x, y
    <3>11. CASE Taken.pusi
      <4>1. cut = S0
        <5>1. CutOff <=> d # <<>>  BY <3>11 DEF CutOff, d
        <5>2. CASE CutOff
          <6>1. S0 = t0 \o <<x>>  BY <2>1, <3>6, <3>8, <5>1, <5>2
          <6> QED  BY <5>2, <6>1 DEF Then
        <5>3. CASE ~CutOff
          <6>1. S0 = t0 \o <<>>  BY <2>1, <3>8, <5>1, <5>3
          <6> QED  BY <2>1, <5>3, <6>1
        <5> QED  BY <5>2, <5>3
      <4> HIDE DEF cut
      <4>2. SentIn(wire, q, n) = Then(S0, ToldBy(Taken))  BY <1>5, <3>10, <3>11 DEF Then
      <4>3. wire[NewData[1]] = Taken  BY <1>2, <3>3, <3>11
      <4>4. Then(S0, ToldBy(Taken)) \o <<>> = Then(S0, ToldBy(Taken))
        <5>1. IsFiniteSet(StartsIn(wire, q, n))  BY <1>1, StartsAreNumbers
        <5>2. PICK X : SentIn(wire, q, n) \in Seq(X)  BY <5>1, PicksSeq DEF SentIn
        <5> QED  BY <4>2, <5>2, ConcatEmptySeq
      <4>5. CASE Full  BY <3>5, <3>7, <3>9, <4>1, <4>2, <4>3, <4>4, <4>5
      <4>6. CASE ~Full
        <5>1. Tell(events', q, b) = S0 /\ InHand(wire, mEsFrames', q) = <<ToldBy(Taken)>>
          BY <3>5, <3>9, <4>1, <4>3, <4>6
        <5> QED  BY <4>2, <5>1 DEF Then
      <4> QED  BY <4>5, <4>6
    <3>12. CASE ~Taken.pusi
      <4>1. cut = t0 /\ d # <<>> /\ wire[NewData[1]] = wire[d[1]]
        BY <3>3, <3>12 DEF CutOff, d
      <4>2. SentIn(wire, q, n) = Then(t0, ToldBy(wire[d[1]]))
        <5>1. SentIn(wire, q, n) = S0  BY <1>5, <3>10, <3>12
        <5>2. InHand(wire, mEsFrames, q) = <<ToldBy(wire[d[1]])>>  BY <3>8, <4>1
        <5> QED  BY <2>1, <5>1, <5>2 DEF Then
      <4>3. CASE Full
        <5>1. Tell(events', q, b) = SentIn(wire, q, n)  BY <3>5, <3>7, <4>1, <4>2, <4>3
        <5>2. SentIn(wire, q, n) \o <<>> = SentIn(wire, q, n)
          <6>1. IsFiniteSet(StartsIn(wire, q, n))  BY <1>1, StartsAreNumbers
          <6>2. PICK X : SentIn(wire, q, n) \in Seq(X)  BY <6>1, PicksSeq DEF SentIn
          <6> QED  BY <6>2, ConcatEmptySeq
        <5> QED  BY <3>9, <4>3, <5>1, <5>2
      <4>4. CASE ~Full
        <5>1. Tell(events', q, b) = t0 /\ InHand(wire, mEsFrames', q) = <<ToldBy(wire[d[1]])>>
          BY <3>5, <3>9, <4>1, <4>4
        <5> QED  BY <4>2, <5>1 DEF Then
      <4> QED  BY <4>3, <4>4
    <3> QED  BY <3>11, <3>12
  <2> QED  BY <2>2, <2>3, <2>4
<1> QED  BY <1>1, <1>6 DEF InStep

LEMMA ReceiveKeeps == LinkInv /\ Receive => LinkInv'
PROOF
<1> SUFFICES ASSUME LinkInv, Receive PROVE LinkInv'  OBVIOUS
<1> DEFINE n == nTaken + 1
<1>1. /\ wire' = wire /\ nTaken' = n /\ nFaults' = nFaults /\ [Next]_vars
      /\ arrived' = Append(arrived, Taken) /\ n \in 1 .. Len(wire) /\ Taken \in Packet
      /\ nTaken \in Nat /\ Len(wire) \in Nat
  BY ReceiveTaken, LinkTypes
<1>2. MuxInv'  BY <1>1, MuxNext DEF LinkInv
<1>3. ArrivedInv'
  <2>1. nFaults = 0 /\ arrived \in Seq(Packet) /\ Len(arrived) = nTaken
        /\ \A i \in 1 .. nTaken : arrived[i] = wire[i]
    BY DEF LinkInv, ArrivedInv
  <2>2. /\ arrived' \in Seq(Packet) /\ Len(arrived') = n
        /\ \A i \in 1 .. nTaken : arrived'[i] = arrived[i]
        /\ arrived'[n] = wire[n]
    BY <1>1, <2>1, AppendProperties DEF Taken
  <2>3. n \in 0 .. Len(wire) /\ 1 .. n = (1 .. nTaken) \cup {n}  BY <1>1
  <2>4. \A i \in 1 .. n : arrived'[i] = wire[i]  BY <2>1, <2>2, <2>3
  <2> QED  BY <1>1, <2>1, <2>2, <2>3, <2>4 DEF ArrivedInv
<1>4. TablesInv'  BY Arrival
<1> QED  BY <1>2, <1>3, <1>4, FramesNext, EventsNext, InStepNext DEF LinkInv

LEMMA NothingPicked == \A g : Picks({}, g) = <<>>
PROOF
<1>1. Cardinality({}) = 0  BY FS_EmptySet
<1>2. \A i \in 1 .. 0 : FALSE  OBVIOUS
<1> QED  BY <1>1, <1>2 DEF Picks

LEMMA LinkStart == LinkInit => LinkInv
PROOF
<1> SUFFICES ASSUME LinkInit PROVE LinkInv  OBVIOUS
<1>1. /\ Init /\ nTaken = 0 /\ nFaults = 0 /\ mPmtId = 0 /\ mInfos = <<>> /\ mEsFrames = <<>>
      /\ arrived = <<>> /\ events = <<>>
  BY DEF LinkInit, D!Init
<1>2. wire = <<>>  BY <1>1 DEF Init
<1>3. MuxInv  BY <1>1, MuxInit
<1>4. \A i \in 1 .. 0 : FALSE  OBVIOUS
<1>5. ArrivedInv  BY <1>1, <1>2, <1>4 DEF ArrivedInv
<1>6. \A kind : ~Heard(kind, 0)  BY <1>4 DEF Heard
<1>7. TablesInv  BY <1>1, <1>6 DEF TablesInv
<1>8. FramesInv  BY <1>1 DEF FramesInv
<1>9. EventsInv  BY <1>1 DEF EventsInv
<1>10. InStep
  <2>1. ASSUME NEW q \in EncodedPids
        PROVE  SentIn(wire, q, 0) = <<>> /\ Tell(events, q, arrived) = <<>>
    <3>1. StartsIn(wire, q, 0) = {}  BY <1>4 DEF StartsIn
    <3>2. EsOf(events, q) = {}  BY <1>1 DEF EsOf
    <3> QED  BY <3>1, <3>2, NothingPicked DEF SentIn, Tell
  <2>2. \A q : InHand(wire, mEsFrames, q) = <<>>  BY <1>1 DEF InHand
  <2>3. <<>> = <<>> \o <<>>  OBVIOUS
  <2>4. \A q \in EncodedPids :
          SentIn(wire, q, nTaken) = Tell(events, q, arrived) \o InHand(wire, mEsFrames, q)
    BY <1>1, <2>1, <2>2, <2>3
  <2> QED  BY <2>4 DEF InStep
<1> QED  BY <1>3, <1>5, <1>7, <1>8, <1>9, <1>10 DEF LinkInv

(* Without faults, a step of the link is one of the two.                   *)
LEMMA Faultless ==
    ASSUME MaxFaults = 0, LinkInv, [LinkNext]_linkVars
    PROVE  MuxOrNone \/ Receive
PROOF
<1>1. nFaults = 0  BY DEF LinkInv, ArrivedInv
<1>2. ~Lose /\ ~Repeat  BY <1>1 DEF Lose, Repeat
<1> QED  BY <1>2 DEF LinkNext, Mux, MuxOrNone, linkVars

LEMMA LinkKeeps ==
    ASSUME MaxFaults = 0, LinkInv, [LinkNext]_linkVars
    PROVE  LinkInv'
BY Faultless, MuxKeeps, ReceiveKeeps

LEMMA LinkAlways == MaxFaults = 0 => (LinkSpec => []LinkInv)
PROOF
<1> SUFFICES ASSUME MaxFaults = 0 PROVE LinkSpec => []LinkInv  OBVIOUS
<1>1. LinkInv /\ [LinkNext]_linkVars => LinkInv'  BY LinkKeeps
<1> QED  BY <1>1, LinkStart, PTL DEF LinkSpec
-----------------------------------------------------------------------------
(***************************************************************************)
(* Sent and Delivered in the terms of the invariant.                       *)
(***************************************************************************)
SentAs(w, q, n) == LET starts == InOrder(StartsIn(w, q, n))
                   IN  [i \in DOMAIN starts |-> ToldBy(w[starts[i]])]
TellAs(ev, q, a) == LET es == InOrder(EsOf(ev, q))
                    IN  [i \in DOMAIN es |-> ToldOf(a, ev[es[i]])]

LEMMA SentTold ==
    /\ \A q : Sent(q) = SentAs(wire, q, Len(wire)) /\ Delivered(q) = TellAs(events, q, arrived)
    /\ \A q : (Sent(q))' = SentAs(wire', q, Len(wire'))
              /\ (Delivered(q))' = TellAs(events', q, arrived')
PROOF
<1>1. \A q : Sent(q) = SentAs(wire, q, Len(wire)) /\ (Sent(q))' = SentAs(wire', q, Len(wire'))
  BY DEF Sent, SentBy, StartsOn, SentAs, StartsIn
<1>2. \A q : /\ Delivered(q) = TellAs(events, q, arrived)
             /\ (Delivered(q))' = TellAs(events', q, arrived')
  BY DEF Delivered, D!EsOn, ToldIn, Genuine, Runs, TellAs, EsOf, ToldOf, GenuineIn, RunsIn
<1> QED  BY <1>1, <1>2

LEMMA SentAsPicks ==
    ASSUME NEW w, NEW n \in Nat, NEW q
    PROVE  SentAs(w, q, n) = SentIn(w, q, n)
PROOF
<1> DEFINE S == StartsIn(w, q, n)
           g == [i \in 1 .. n |-> ToldBy(w[i])]
<1>1. S \subseteq Nat /\ IsFiniteSet(S)  BY StartsAreNumbers
<1>2. S \subseteq 1 .. n  BY DEF StartsIn
<1>3. \A i \in 1 .. Cardinality(S) : InOrder(S)[i] \in S
  <2> HIDE DEF S
  <2> QED  BY <1>1, InOrderIn
<1>4. \A i \in 1 .. Cardinality(S) : g[InOrder(S)[i]] = ToldBy(w[InOrder(S)[i]])
  BY <1>2, <1>3
<1>5. DOMAIN InOrder(S) = 1 .. Cardinality(S)  BY DEF InOrder
<1> HIDE DEF S, g
<1>6. [i \in DOMAIN InOrder(S) |-> ToldBy(w[InOrder(S)[i]])] = Picks(S, g)
  BY <1>4, <1>5 DEF Picks
<1> QED  BY <1>6 DEF SentAs, SentIn, S, g

LEMMA TellAsPicks ==
    ASSUME NEW S, NEW ev \in Seq(S), NEW q, NEW a
    PROVE  TellAs(ev, q, a) = Tell(ev, q, a)
PROOF
<1> DEFINE T == EsOf(ev, q)
           g == [k \in DOMAIN ev |-> ToldOf(a, ev[k])]
<1>1. T \subseteq Nat /\ IsFiniteSet(T) /\ T \subseteq DOMAIN ev  BY EsAreNumbers DEF EsOf
<1>2. \A i \in 1 .. Cardinality(T) : InOrder(T)[i] \in T
  <2> HIDE DEF T
  <2> QED  BY <1>1, InOrderIn
<1>3. \A i \in 1 .. Cardinality(T) : g[InOrder(T)[i]] = ToldOf(a, ev[InOrder(T)[i]])
  BY <1>1, <1>2
<1>4. DOMAIN InOrder(T) = 1 .. Cardinality(T)  BY DEF InOrder
<1> HIDE DEF T, g
<1>5. [i \in DOMAIN InOrder(T) |-> ToldOf(a, ev[InOrder(T)[i]])] = Picks(T, g)
  BY <1>3, <1>4 DEF Picks
<1> QED  BY <1>5 DEF TellAs, Tell, T, g

(* What was sent first is a beginning of what is sent later.               *)
LEMMA SentFirst ==
    ASSUME NEW w, NEW n \in Nat, NEW m \in Nat, n <= m, NEW q
    PROVE  /\ Len(SentIn(w, q, n)) \in Nat /\ Len(SentIn(w, q, m)) \in Nat
           /\ Len(SentIn(w, q, n)) <= Len(SentIn(w, q, m))
           /\ SentIn(w, q, n) = SubSeq(SentIn(w, q, m), 1, Len(SentIn(w, q, n)))
           /\ \E X : SentIn(w, q, n) \in Seq(X) /\ SentIn(w, q, m) \in Seq(X)
PROOF
<1> DEFINE T == StartsIn(w, q, n)
           S == StartsIn(w, q, m)
           g == [i \in 1 .. m |-> ToldBy(w[i])]
           h == [i \in 1 .. n |-> ToldBy(w[i])]
<1>1. S \subseteq Nat /\ IsFiniteSet(S) /\ T \subseteq Nat /\ IsFiniteSet(T)  BY StartsAreNumbers
<1>2. \A i \in 1 .. n : i \in 1 .. m  OBVIOUS
<1>3. T \subseteq S  BY <1>2 DEF StartsIn
<1>4. \A x \in T : g[x] = h[x]
  <2>1. T \subseteq 1 .. n  BY DEF StartsIn
  <2> QED  BY <1>2, <2>1
<1>5. \A x \in T, y \in S \ T : x < y
  <2>1. \A x \in T : x \in 1 .. n  BY DEF StartsIn
  <2>2. \A y \in S \ T : y \in 1 .. m /\ y \notin 1 .. n  BY DEF StartsIn
  <2> QED  BY <2>1, <2>2
<1>6. SentIn(w, q, m) = Picks(S, g) /\ SentIn(w, q, n) = Picks(T, h)  BY DEF SentIn
<1> HIDE DEF S, T, g, h
<1>7. SentIn(w, q, n) = Picks(T, g)  BY <1>1, <1>4, <1>6, PicksSame
<1>8. /\ Cardinality(T) \in Nat /\ Cardinality(S) \in Nat /\ Cardinality(T) <= Cardinality(S)
  BY <1>1, <1>3, <1>5, InOrderFirst
<1>9. Picks(T, g) = SubSeq(Picks(S, g), 1, Cardinality(T))
  BY <1>1, <1>3, <1>5, PicksFirst
<1>10. /\ Len(Picks(T, g)) = Cardinality(T) /\ Len(Picks(S, g)) = Cardinality(S)
       /\ \E X : Picks(T, g) \in Seq(X)
       /\ \E X : Picks(S, g) \in Seq(X)
  BY <1>1, PicksSeq
<1>11. PICK X : Picks(S, g) \in Seq(X)  BY <1>10
<1>12. Picks(T, g) \in Seq(X)  BY <1>8, <1>9, <1>10, <1>11
<1> QED  BY <1>6, <1>7, <1>8, <1>9, <1>10, <1>11, <1>12

OneAtMost(h)    == h = <<>> \/ \E e : h = <<e>>
Together(s, t, h) == s = t \o h
Beginning(t, u) == /\ Len(t) \in Nat /\ Len(u) \in Nat /\ Len(t) <= Len(u)
                   /\ t = SubSeq(u, 1, Len(t))

LEMMA ToldFirst ==
    ASSUME NEW w, NEW n \in Nat, NEW m \in Nat, n <= m, NEW q, NEW X, NEW t \in Seq(X),
           NEW h, OneAtMost(h), Together(SentIn(w, q, n), t, h)
    PROVE  Beginning(t, SentIn(w, q, m))
PROOF
<1> USE DEF OneAtMost, Together, Beginning
<1> DEFINE s == SentIn(w, q, n)
           u == SentIn(w, q, m)
<1>1. /\ Len(s) \in Nat /\ Len(u) \in Nat /\ Len(s) <= Len(u)
      /\ s = SubSeq(u, 1, Len(s)) /\ \E Y : s \in Seq(Y) /\ u \in Seq(Y)
  BY SentFirst
<1>2. s = t \o h  OBVIOUS
<1> HIDE DEF s, u
<1>3. Len(t) \in Nat /\ Len(t) <= Len(s) /\ \A i \in 1 .. Len(t) : s[i] = t[i]
  <2>1. CASE h = <<>>
    <3>1. s = t  BY <1>2, <2>1, ConcatEmptySeq
    <3> QED  BY <3>1
  <2>2. CASE h # <<>>
    <3>1. PICK e : h = <<e>>  BY <2>2
    <3>2. t \in Seq(X \cup {e}) /\ <<e>> \in Seq(X \cup {e})
      <4>1. Seq(X) \subseteq Seq(X \cup {e})  BY SeqMonotonic
      <4> QED  BY <4>1
    <3> QED  BY <1>2, <3>1, <3>2
  <2> QED  BY <2>1, <2>2
<1>4. PICK Y : s \in Seq(Y) /\ u \in Seq(Y)  BY <1>1
<1>5. \A i \in 1 .. Len(t) : u[i] = t[i]
  <2>1. \A i \in 1 .. Len(t) : i \in 1 .. Len(s)  BY <1>1, <1>3
  <2>2. \A i \in 1 .. Len(s) : SubSeq(u, 1, Len(s))[i] = u[i]  BY <1>1, <1>4
  <2> QED  BY <1>1, <1>3, <2>1, <2>2
<1>6. t = SubSeq(u, 1, Len(t))
  <2>1. Len(t) <= Len(u)  BY <1>1, <1>3
  <2>2. SubSeq(u, 1, Len(t)) = [i \in 1 .. Len(t) |-> u[i]]  BY <1>1, <1>3, <1>4, <2>1
  <2>3. t = [i \in 1 .. Len(t) |-> t[i]]  OBVIOUS
  <2> QED  BY <1>5, <2>2, <2>3
<1> QED  BY <1>1, <1>3, <1>6 DEF s, u
-----------------------------------------------------------------------------
(***************************************************************************)
(* A step of the link is a step of the channel, or nothing to it.          *)
(***************************************************************************)
SentOf(q) == SentIn(wire, q, Len(wire))
ToldTo(q) == Tell(events, q, arrived)

LEMMA SentIsPicked ==
    /\ LinkInv => \A q : Sent(q) = SentOf(q) /\ Delivered(q) = ToldTo(q)
    /\ LinkInv' => \A q : (Sent(q))' = (SentOf(q))' /\ (Delivered(q))' = (ToldTo(q))'
PROOF
<1>1. LinkInv => /\ Len(wire) \in Nat /\ \E S : events \in Seq(S)
  BY LinkTypes DEF LinkInv, EventsInv
<1>2. LinkInv' => /\ Len(wire') \in Nat /\ \E S : events' \in Seq(S)
  BY LenProperties DEF LinkInv, EventsInv, MuxInv, TypeInv, TypeOK
<1>3. LinkInv => \A q : Sent(q) = SentOf(q) /\ Delivered(q) = ToldTo(q)
  BY <1>1, SentTold, SentAsPicks, TellAsPicks DEF SentOf, ToldTo
<1>4. LinkInv' => \A q : (Sent(q))' = (SentOf(q))' /\ (Delivered(q))' = (ToldTo(q))'
  BY <1>2, SentTold, SentAsPicks, TellAsPicks DEF SentOf, ToldTo
<1> QED  BY <1>3, <1>4

(* A callback of the multiplexer sends one frame at most.                  *)
LEMMA SendsOne ==
    ASSUME LinkInv, LinkInv', MuxOrNone
    PROVE  \/ \A q \in EncodedPids : (SentOf(q))' = SentOf(q)
           \/ \E p \in EncodedPids, f \in Frames :
                 \A q \in EncodedPids :
                    (SentOf(q))' = IF q = p THEN Append(SentOf(q), f) ELSE SentOf(q)
PROOF
<1> DEFINE w == wire'
           n == Len(wire)
           m == Len(wire')
<1>1. /\ m \in Nat /\ n \in Nat /\ n <= m
      /\ \A i \in 1 .. n : w[i] = wire[i]
      /\ \A i, k \in n + 1 .. m : IsStart(w[i]) /\ IsStart(w[k]) => i = k
  BY WireGrows, LinkTypes DEF MuxOrNone, LinkInv
<1>2. \A i \in 1 .. m : w[i] \in Packet /\ Made(w[i])
  <2>1. w \in Seq(Packet) /\ Rows(w, {}) /\ DOMAIN w = 1 .. m
    BY LenProperties DEF LinkInv, MuxInv, TypeInv, TypeOK, RowInv
  <2> QED  BY <2>1, ElementOfSeq DEF Rows
<1>3. Agree(wire, w, n)  BY <1>1 DEF Agree
<1>4. ASSUME NEW q PROVE SentOf(q) = SentIn(w, q, n) /\ (SentOf(q))' = SentIn(w, q, m)
  BY <1>1, <1>3, SentSame DEF SentOf
<1> DEFINE T(q) == StartsIn(w, q, n)
           U(q) == StartsIn(w, q, m)
           g == [i \in 1 .. n |-> ToldBy(w[i])]
           h == [i \in 1 .. m |-> ToldBy(w[i])]
           New(k) == k \in n + 1 .. m /\ IsStart(w[k])
<1>5. ASSUME NEW q
      PROVE  /\ SentOf(q) = Picks(T(q), g) /\ (SentOf(q))' = Picks(U(q), h)
             /\ Numbers(T(q)) /\ Alike(T(q), g, h)
             /\ \A k \in n + 1 .. m : Above(T(q), k)
             /\ T(q) \subseteq U(q)
             /\ \A k \in U(q) \ T(q) : New(k) /\ w[k].pid = q
  <2>1. SentOf(q) = Picks(T(q), g) /\ (SentOf(q))' = Picks(U(q), h)  BY <1>4 DEF SentIn
  <2>2. Numbers(T(q))  BY <1>1, StartsAreNumbers DEF Numbers
  <2>3. T(q) \subseteq 1 .. n  BY DEF StartsIn
  <2>4. \A i \in 1 .. n : i \in 1 .. m  BY <1>1
  <2>5. Alike(T(q), g, h)  BY <2>3, <2>4 DEF Alike
  <2>6. \A k \in n + 1 .. m : Above(T(q), k)
    <3>1. \A k \in n + 1 .. m : k \in Nat /\ \A x \in 1 .. n : x < k  BY <1>1
    <3> QED  BY <2>3, <3>1 DEF Above
  <2>7. T(q) \subseteq U(q)  BY <2>4 DEF StartsIn
  <2>8. ASSUME NEW k \in U(q) \ T(q) PROVE New(k) /\ w[k].pid = q
    <3>1. k \in 1 .. m /\ w[k].pid = q /\ IsStart(w[k]) /\ k \notin 1 .. n
      BY <2>8 DEF StartsIn
    <3>2. k \in n + 1 .. m  BY <1>1, <3>1
    <3> QED  BY <3>1, <3>2
  <2> HIDE DEF T, U, g, h, New, n, m, w
  <2> QED  BY <2>1, <2>2, <2>5, <2>6, <2>7, <2>8
<1>6. \A i, k : New(i) /\ New(k) => i = k  BY <1>1
<1>7. ASSUME NEW k, New(k)
      PROVE  w[k].pid \in EncodedPids /\ h[k] \in Frames /\ k \in n + 1 .. m
  <2>1. k \in n + 1 .. m /\ k \in 1 .. m  BY <1>1, <1>7
  <2>2. w[k] \in Packet /\ Made(w[k]) /\ IsPes(w[k]) /\ w[k].pusi
    BY <1>2, <1>7, <2>1 DEF IsStart, IsPes
  <2>3. w[k].pid \in EncodedPids /\ ToldBy(w[k]) \in Frames  BY <2>2, PesFields
  <2> QED  BY <2>1, <2>3
<1> HIDE DEF T, U, g, h, New, n, m, w
<1>8. ASSUME NEW q, U(q) = T(q) PROVE (SentOf(q))' = SentOf(q)
  BY <1>5, <1>8, PicksSame DEF Numbers, Alike
<1>9. CASE \A q \in EncodedPids : U(q) = T(q)  BY <1>8, <1>9
<1>10. CASE ~(\A q \in EncodedPids : U(q) = T(q))
  <2>1. PICK p \in EncodedPids : U(p) # T(p)  BY <1>10
  <2>2. PICK k : k \in U(p) \ T(p)  BY <1>5, <2>1
  <2>3. New(k) /\ w[k].pid = p /\ h[k] \in Frames /\ k \in n + 1 .. m  BY <1>5, <1>7, <2>2
  <2>4. U(p) = With(T(p), k)
    <3>1. \A x \in U(p) \ T(p) : x = k  BY <1>5, <1>6, <2>3
    <3> QED  BY <1>5, <2>2, <3>1 DEF With
  <2>5. ASSUME NEW q \in EncodedPids, q # p PROVE U(q) = T(q)
    <3>1. \A x \in U(q) \ T(q) : x = k /\ w[x].pid = q  BY <1>5, <1>6, <2>3
    <3> QED  BY <1>5, <2>3, <2>5, <3>1
  <2>6. (SentOf(p))' = Then(SentOf(p), h[k])
    <3>1. Numbers(T(p)) /\ Alike(T(p), g, h) /\ Above(T(p), k)  BY <1>5, <2>3
    <3>2. Picks(With(T(p), k), h) = Then(Picks(T(p), g), h[k])  BY <3>1, PicksMore
    <3> QED  BY <1>5, <2>4, <3>2
  <2>7. Then(SentOf(p), h[k]) = Append(SentOf(p), h[k])
    <3>1. \E X : Picks(T(p), g) \in Seq(X)  BY <1>5, PicksSeq DEF Numbers
    <3>2. PICK X : SentOf(p) \in Seq(X)  BY <1>5, <3>1
    <3>3. SentOf(p) \in Seq(X \cup {h[k]})
      <4>1. Seq(X) \subseteq Seq(X \cup {h[k]})  BY SeqMonotonic
      <4> QED  BY <3>2, <4>1
    <3> QED  BY <3>3, AppendIsConcat DEF Then
  <2> QED  BY <1>8, <2>3, <2>5, <2>6, <2>7
<1> QED  BY <1>9, <1>10

(* A packet makes frames of its PID come out, and only what has gone in.   *)
LEMMA DeliversOne ==
    ASSUME LinkInv, LinkInv', Receive, NEW q \in EncodedPids
    PROVE  /\ (SentOf(q))' = SentOf(q)
           /\ q # Taken.pid => (ToldTo(q))' = ToldTo(q)
           /\ \/ (ToldTo(q))' = ToldTo(q)
              \/ \E k \in Len(ToldTo(q)) + 1 .. Len(SentOf(q)) :
                    (ToldTo(q))' = SubSeq(SentOf(q), 1, k)
PROOF
<1> DEFINE t == ToldTo(q)
           u == Tell(events', q, arrived')
<1>1. /\ wire' = wire /\ nTaken' = nTaken + 1 /\ nTaken + 1 \in 1 .. Len(wire)
      /\ arrived' = Append(arrived, Taken) /\ Taken \in Packet
      /\ nTaken \in Nat /\ nTaken <= Len(wire) /\ Len(wire) \in Nat
      /\ nTaken + 1 \in Nat /\ nTaken + 1 <= Len(wire)
  BY ReceiveTaken, LinkTypes
<1>2. (SentOf(q))' = SentOf(q) /\ (ToldTo(q))' = u  BY <1>1 DEF SentOf, ToldTo
<1>3. PICK S : events \in Seq(S)  BY DEF LinkInv, EventsInv
<1>4. PICK S1 : events' \in Seq(S1)  BY DEF LinkInv, EventsInv
<1>5. Tell(events, q, arrived') = t
  <2>1. Agree(arrived, arrived', nTaken)
    <3>1. arrived \in Seq(Packet) /\ Len(arrived) = nTaken  BY DEF LinkInv, ArrivedInv
    <3> QED  BY <1>1, <3>1, AppendProperties DEF Agree
  <2>2. \A k \in DOMAIN events : events[k].kind = "es" => events[k].frame.data \in Seq(1 .. nTaken)
    BY DEF LinkInv, EventsInv
  <2> QED  BY <1>3, <2>1, <2>2, TellSame DEF ToldTo
<1>6. /\ \E X : t \in Seq(X)
      /\ \E X : u \in Seq(X)
  BY <1>3, <1>4, EsAreNumbers, PicksSeq DEF Tell, ToldTo
<1>7. PICK X : t \in Seq(X)  BY <1>6
<1>8. PICK Y : u \in Seq(Y)  BY <1>6
<1>9. /\ q # Taken.pid => u = t
      /\ Len(t) <= Len(u)
  <2> DEFINE x == ToldOf(arrived', Completed(Taken.pid, OldFrame, nTaken))
             y == ToldOf(arrived', Completed(Taken.pid, NewFrame, nTaken + 1))
  <2>1. ASSUME NEW s, NEW e, \E Z : s \in Seq(Z)
        PROVE  (\E Z : Then(s, e) \in Seq(Z)) /\ Len(s) \in Nat /\ Len(s) <= Len(Then(s, e))
    <3>1. PICK Z : s \in Seq(Z)  BY <2>1
    <3>2. s \in Seq(Z \cup {e})
      <4>1. Seq(Z) \subseteq Seq(Z \cup {e})  BY SeqMonotonic
      <4> QED  BY <3>1, <4>1
    <3>3. s \o <<e>> \in Seq(Z \cup {e}) /\ Len(s \o <<e>>) = Len(s) + 1 /\ Len(s) \in Nat
      BY <3>2
    <3> QED  BY <3>3 DEF Then
  <2>2. Len(t) \in Nat /\ Len(t) <= Len(t)  BY <1>7
  <2> HIDE DEF x, y, t, u
  <2>3. CASE IsPes(Taken) /\ Heard("pmt", nTaken)
    <3>1. Brings(PesEvents)  BY <2>3, Arrival
    <3> DEFINE cut == IF CutOff /\ q = Taken.pid THEN Then(t, x) ELSE t
    <3>2. u = IF Full /\ q = Taken.pid THEN Then(cut, y) ELSE cut
      BY <1>5, <3>1, ToldFrames DEF u, x, y
    <3>3. (\E Z : cut \in Seq(Z)) /\ Len(t) <= Len(cut) /\ Len(cut) \in Nat
      <4>1. \E Z : Then(t, x) \in Seq(Z)  BY <1>7, <2>1
      <4>2. Len(t) <= Len(Then(t, x))  BY <1>7, <2>1
      <4>3. PICK Z : Then(t, x) \in Seq(Z)  BY <4>1
      <4>4. Len(Then(t, x)) \in Nat  BY <4>3
      <4> QED  BY <1>7, <2>2, <4>1, <4>2, <4>4
    <3>4. Len(cut) <= Len(Then(cut, y)) /\ \E Z : Then(cut, y) \in Seq(Z)
      <4> HIDE DEF cut
      <4> QED  BY <3>3, <2>1
    <3>5. PICK Z : Then(cut, y) \in Seq(Z)  BY <3>4
    <3>6. Len(Then(cut, y)) \in Nat
      <4> HIDE DEF cut
      <4> QED  BY <3>5
    <3>7. Len(t) <= Len(u)
      <4> HIDE DEF cut
      <4> QED  BY <2>2, <3>2, <3>3, <3>4, <3>6
    <3> QED  BY <3>2, <3>7
  <2>4. CASE ~(IsPes(Taken) /\ Heard("pmt", nTaken))
    <3>1. Brings(<<>>)  BY <2>4, Arrival
    <3>2. u = t  BY <1>5, <3>1, ToldNothing DEF u
    <3> QED  BY <2>2, <3>2
  <2> QED  BY <2>3, <2>4
<1>10. Beginning(t, SentOf(q))
  <2> DEFINE h == InHand(wire, mEsFrames, q)
             m == Len(wire)
  <2>1. Together(SentIn(wire, q, nTaken), t, h)  BY DEF LinkInv, InStep, ToldTo, Together
  <2>2. OneAtMost(h)  BY DEF InHand, OneAtMost
  <2>3. m \in Nat /\ nTaken <= m  BY <1>1
  <2>4. SentOf(q) = SentIn(wire, q, m)  BY DEF SentOf
  <2> HIDE DEF h, t, m
  <2> QED  BY <1>1, <1>7, <2>1, <2>2, <2>3, <2>4, ToldFirst
<1>11. Beginning(u, SentOf(q))
  <2> DEFINE h == InHand(wire', mEsFrames', q)
             m == Len(wire)
             n == nTaken + 1
  <2>1. Together(SentIn(wire', q, nTaken'), u, h)  BY DEF LinkInv, InStep, Together
  <2>2. OneAtMost(h)  BY DEF InHand, OneAtMost
  <2>3. Together(SentIn(wire, q, n), u, h)  BY <1>1, <2>1
  <2>4. m \in Nat /\ n \in Nat /\ n <= m  BY <1>1
  <2>5. SentOf(q) = SentIn(wire, q, m)  BY DEF SentOf
  <2> HIDE DEF h, u, m, n
  <2> QED  BY <1>8, <2>2, <2>3, <2>4, <2>5, ToldFirst
<1>12. u = t \/ \E k \in Len(t) + 1 .. Len(SentOf(q)) : u = SubSeq(SentOf(q), 1, k)
  <2> DEFINE s == SentOf(q)
             i == Len(u)
             j == Len(t)
             l == Len(s)
  <2>1. j \in Nat /\ i \in Nat /\ l \in Nat /\ i <= l /\ j <= i
    BY <1>9, <1>10, <1>11 DEF Beginning
  <2>2. u = SubSeq(s, 1, i) /\ t = SubSeq(s, 1, j)  BY <1>10, <1>11 DEF Beginning
  <2> HIDE DEF i, j, l, s, t, u
  <2>3. CASE i = j
    <3>1. SubSeq(s, 1, i) = SubSeq(s, 1, j)  BY <2>3
    <3>2. u = t  BY <2>2, <3>1, Zenon
    <3> QED  BY <3>2, Zenon
  <2>4. CASE i # j
    <3>1. i \in j + 1 .. l  BY <2>1, <2>4
    <3>2. \E k \in j + 1 .. l : u = SubSeq(s, 1, k)  BY <2>2, <3>1, Zenon
    <3> QED  BY <3>2, Zenon DEF j, l, s
  <2> QED  BY <2>3, <2>4
<1> QED  BY <1>2, <1>9, <1>12 DEF t
-----------------------------------------------------------------------------
(***************************************************************************)
(* The channel.                                                            *)
(***************************************************************************)
AllSent == [q \in EncodedPids |-> Sent(q)]
AllTold == [q \in EncodedPids |-> Delivered(q)]

LEMMA ChannelStart == LinkInit => Channel!Init
PROOF
<1> SUFFICES ASSUME LinkInit PROVE Channel!Init  OBVIOUS
<1>1. LinkInv  BY LinkStart
<1>2. wire = <<>> /\ events = <<>>  BY DEF LinkInit, Init, D!Init
<1>3. \A i \in 1 .. 0 : FALSE  OBVIOUS
<1>4. ASSUME NEW q PROVE SentOf(q) = <<>> /\ ToldTo(q) = <<>>
  <2>1. StartsIn(wire, q, 0) = {}  BY <1>3 DEF StartsIn
  <2>2. EsOf(events, q) = {}  BY <1>2 DEF EsOf
  <2>3. Len(wire) = 0  BY <1>2
  <2> QED  BY <2>1, <2>2, <2>3, NothingPicked DEF SentOf, SentIn, ToldTo, Tell
<1>5. \A q : Sent(q) = <<>> /\ Delivered(q) = <<>>  BY <1>1, <1>4, SentIsPicked
<1> QED  BY <1>5 DEF Channel!Init

LEMMA ChannelStep ==
    ASSUME MaxFaults = 0, LinkInv, LinkInv', [LinkNext]_linkVars
    PROVE  [Channel!Next]_<<AllSent, AllTold>>
PROOF
<1>1. /\ AllSent = [q \in EncodedPids |-> SentOf(q)]
      /\ AllTold = [q \in EncodedPids |-> ToldTo(q)]
      /\ AllSent' = [q \in EncodedPids |-> (SentOf(q))']
      /\ AllTold' = [q \in EncodedPids |-> (ToldTo(q))']
  BY SentIsPicked DEF AllSent, AllTold
<1>2. CASE MuxOrNone
  <2>1. \A q : (ToldTo(q))' = ToldTo(q)  BY <1>2 DEF MuxOrNone, demuxVars, ToldTo
  <2>2. AllTold' = AllTold  BY <1>1, <2>1
  <2>3. CASE \A q \in EncodedPids : (SentOf(q))' = SentOf(q)
    <3>1. AllSent' = AllSent  BY <1>1, <2>3
    <3> QED  BY <2>2, <3>1
  <2>4. CASE ~(\A q \in EncodedPids : (SentOf(q))' = SentOf(q))
    <3>1. PICK p \in EncodedPids, f \in Frames :
            \A q \in EncodedPids :
               (SentOf(q))' = IF q = p THEN Append(SentOf(q), f) ELSE SentOf(q)
      BY <1>2, <2>4, SendsOne
    <3>2. AllSent' = [AllSent EXCEPT ![p] = Append(@, f)]  BY <1>1, <3>1
    <3>3. Channel!Send(p)  BY <2>2, <3>2 DEF Channel!Send, AllSent, AllTold
    <3> QED  BY <3>3 DEF Channel!Next
  <2> QED  BY <2>3, <2>4
<1>3. CASE Receive
  <2>1. AllSent' = AllSent  BY <1>1, <1>3, DeliversOne
  <2>2. CASE AllTold' = AllTold  BY <2>1, <2>2
  <2>3. CASE AllTold' # AllTold
    <3>1. PICK p \in EncodedPids : (ToldTo(p))' # ToldTo(p)  BY <1>1, <2>3
    <3>2. \A q \in EncodedPids : q # p => (ToldTo(q))' = ToldTo(q)
      BY <1>3, <3>1, DeliversOne
    <3>3. PICK k \in Len(ToldTo(p)) + 1 .. Len(SentOf(p)) :
            (ToldTo(p))' = SubSeq(SentOf(p), 1, k)
      BY <1>3, <3>1, DeliversOne
    <3>4. AllTold' = [AllTold EXCEPT ![p] = SubSeq(SentOf(p), 1, k)]  BY <1>1, <3>2, <3>3
    <3>5. AllSent[p] = SentOf(p) /\ AllTold[p] = ToldTo(p)  BY <1>1
    <3>6. AllTold' = [AllTold EXCEPT ![p] = SubSeq(AllSent[p], 1, k)]
          /\ k \in Len(AllTold[p]) + 1 .. Len(AllSent[p])
      BY <3>4, <3>5
    <3>7. Channel!Deliver(p)  BY <2>1, <3>6 DEF Channel!Deliver, AllSent, AllTold
    <3> QED  BY <3>7 DEF Channel!Next
  <2> QED  BY <2>2, <2>3
<1> QED  BY <1>2, <1>3, Faultless

(***************************************************************************)
(* Over a network that loses and repeats nothing, multiplexer and          *)
(* demultiplexer implement the channel of frames: on each PID every frame  *)
(* encoded after the first PMT comes out of esOutCallback once, with all   *)
(* its bytes, timestamps and flag, and in the order encode() took it,      *)
(* whatever threads encode on other PIDs meanwhile.                        *)
(***************************************************************************)
THEOREM ChannelImplemented == MaxFaults = 0 => (LinkSpec => ChannelSpec)
PROOF
<1> SUFFICES ASSUME MaxFaults = 0 PROVE LinkSpec => ChannelSpec  OBVIOUS
<1>1. LinkInv /\ LinkInv' /\ [LinkNext]_linkVars
        => [Channel!Next]_<<[q \in EncodedPids |-> Sent(q)], [q \in EncodedPids |-> Delivered(q)]>>
  BY ChannelStep DEF AllSent, AllTold
<1>2. LinkSpec => []LinkInv  BY LinkAlways
<1> QED  BY <1>1, <1>2, ChannelStart, PTL DEF ChannelSpec, Channel!Spec, LinkSpec

(* A frame whose length its PES header does not give is too long for it.   *)
LEMMA NoLengthGiven ==
    ASSUME NEW p \in Packet, Made(p), IsPes(p), p.pusi, p.load.pes.len = 0
    PROVE  UnknownSize(ToldBy(p))
PROOF
<1>1. PICK f \in FrameShapes : PartOf(f, p)  BY MadeKinds DEF IsPes
<1>2. p.load.pes = PesOf(f) /\ p.load.run.frame.size = f.size  BY <1>1 DEF PartOf
<1>3. f.size \in Nat /\ MaxPesLength \in Nat
  <2>1. f.size \in Nat /\ MaxPesLength \in PesLengths  BY MuxerAssumption DEF Shape
  <2> QED  BY <2>1, PesLengthsBelow
<1> DEFINE hdl == IF f.pts # f.dts THEN 10 ELSE 5
           m   == ToldBy(p)
<1>4. hdl + f.size + 3 > MaxPesLength
  <2>1. PesOf(f).len = 0  BY <1>2
  <2>2. PesOf(f).len = IF hdl + f.size + 3 > MaxPesLength THEN 0 ELSE hdl + f.size + 3
    BY DEF PesOf, TimestampBytes
  <2> QED  BY <1>3, <2>1, <2>2
<1>5. m.pts = f.pts /\ m.dts = f.dts /\ m.frame = p.load.run.frame
  <2>1. PesOf(f).pts = f.pts /\ (PesOf(f).flags = 3 => PesOf(f).dts = f.dts)
        /\ (PesOf(f).flags # 3 => f.pts = f.dts)
    BY DEF PesOf
  <2> QED  BY <1>2, <2>1 DEF ToldBy, Told
<1>6. hdl = IF m.pts = m.dts THEN 5 ELSE 10  BY <1>5
<1> QED  BY <1>2, <1>4, <1>5, <1>6 DEF UnknownSize, TimestampBytes

LEMMA InHandAtEnd ==
    ASSUME LinkInv, nTaken = Len(wire), NEW q \in EncodedPids, InHand(wire, mEsFrames, q) # <<>>
    PROVE  \E m : InHand(wire, mEsFrames, q) = <<m>> /\ UnknownSize(m)
PROOF
<1> DEFINE d == mEsFrames[q].data
           p == wire[d[1]]
<1>1. q \in DOMAIN mEsFrames /\ d # <<>> /\ InHand(wire, mEsFrames, q) = <<ToldBy(p)>>
  BY DEF InHand
<1>2. /\ Held(wire, nTaken, q, d) /\ mEsFrames[q] = Filling(wire, mEsFrames[q].type, d)
      /\ IF Mid(wire[d[Len(d)]]) THEN d[Len(d)] = nTaken ELSE mEsFrames[q].expPes = 0
  BY <1>1 DEF LinkInv, FramesInv, InFrame
<1>3. d[1] \in 1 .. nTaken /\ d[Len(d)] \in 1 .. nTaken  BY <1>1, StartOfFrame
<1>4. ~Mid(wire[d[Len(d)]])
  <2>1. Rows(wire, {}) /\ DOMAIN wire = 1 .. Len(wire)
    BY LinkTypes DEF LinkInv, MuxInv, RowInv
  <2>2. nTaken \in DOMAIN wire => ~Mid(wire[nTaken])  BY <2>1 DEF Rows
  <2> QED  BY <1>2, <1>3, <2>1, <2>2
<1>5. p.load.pes.len = 0
  <2>1. mEsFrames[q].expPes = p.load.pes.len
    <3>1. p = wire[d[1]]  BY DEF p
    <3>2. mEsFrames[q] = Filling(wire, mEsFrames[q].type, d)  BY <1>2
    <3> HIDE DEF d, p
    <3> QED  BY <3>1, <3>2 DEF Filling
  <2> QED  BY <1>2, <1>4, <2>1
<1>6. p \in Packet /\ Made(p)  BY <1>3, LinkTypes
<1>7. IsPes(p) /\ p.pusi
  <2>1. d[1] \in StartsIn(wire, q, nTaken)
    <3>1. Held(wire, nTaken, q, d)  BY <1>2
    <3> HIDE DEF d
    <3> QED  BY <3>1 DEF Held
  <2>2. IsStart(p)  BY <2>1 DEF StartsIn
  <2> QED  BY <2>2 DEF IsStart, IsPes
<1> QED  BY <1>1, <1>5, <1>6, <1>7, NoLengthGiven

(***************************************************************************)
(* And the demultiplexer holds back little: once it has every packet, a    *)
(* frame still inside is the last one of its PID, and too long for         *)
(* mPesPacketLength to tell where it ends.                                 *)
(***************************************************************************)
THEOREM LittleAlwaysHeldBack == MaxFaults = 0 => (LinkSpec => []LittleHeldBack)
PROOF
<1> SUFFICES ASSUME MaxFaults = 0 PROVE LinkSpec => []LittleHeldBack  OBVIOUS
<1>1. LinkInv => LittleHeldBack
  <2> SUFFICES ASSUME LinkInv, nTaken = Len(wire), NEW q \in EncodedPids
               PROVE  LET nSent == Len(Sent(q))
                          nOut  == Len(Delivered(q))
                      IN  \/ nOut = nSent
                          \/ nOut = nSent - 1 /\ UnknownSize(Sent(q)[nSent])
    BY DEF LittleHeldBack
  <2> DEFINE s == SentOf(q)
             t == ToldTo(q)
             h == InHand(wire, mEsFrames, q)
  <2>1. Sent(q) = s /\ Delivered(q) = t  BY SentIsPicked
  <2>2. s = t \o h  BY DEF LinkInv, InStep, SentOf, ToldTo
  <2>3. PICK X : t \in Seq(X)  BY TellsSeq DEF ToldTo
  <2>4. h # <<>> => \E m : h = <<m>> /\ UnknownSize(m)  BY InHandAtEnd
  <2> HIDE DEF s, t, h
  <2>5. CASE h = <<>>
    <3>1. s = t  BY <2>2, <2>3, <2>5, ConcatEmptySeq
    <3> QED  BY <2>1, <3>1
  <2>6. CASE h # <<>>
    <3>1. PICK m : h = <<m>> /\ UnknownSize(m)  BY <2>4, <2>6
    <3>2. t \in Seq(X \cup {m})
      <4>1. Seq(X) \subseteq Seq(X \cup {m})  BY SeqMonotonic
      <4> QED  BY <2>3, <4>1
    <3>3. Len(t) \in Nat /\ Len(s) = Len(t) + 1 /\ s[Len(t) + 1] = m
      <4>1. s = t \o <<m>>  BY <2>2, <3>1
      <4> QED  BY <3>2, <4>1
    <3>4. Len(t) = Len(s) - 1 /\ s[Len(s)] = m  BY <3>3
    <3> QED  BY <2>1, <3>1, <3>4
  <2> QED  BY <2>5, <2>6
<1>2. LinkSpec => []LinkInv  BY LinkAlways
<1> QED  BY <1>1, <1>2, PTL
-----------------------------------------------------------------------------
(***************************************************************************)
(* No false alarm. The demultiplexer remembers the counter of the last     *)
(* packet of each PID, also across the packets it drops: those have no     *)
(* payload, and so the same counter.                                       *)
(***************************************************************************)
LastOn(w, q, i, n) == w[i].pid = q /\ \A j \in i + 1 .. n : w[j].pid # q
CountersInv ==
    \A q \in DOMAIN mCCs :
        \E i \in 1 .. nTaken : LastOn(wire, q, i, nTaken) /\ mCCs[q] = wire[i].cc

Calm(s) == /\ \E S : s \in Seq(S)
           /\ \A k \in DOMAIN s : s[k].kind # "cc"

LEMMA CalmMore ==
    ASSUME NEW s, NEW t, Calm(s), Calm(t)
    PROVE  Calm(s \o t)
PROOF
<1> DEFINE u == s \o t
<1>1. PICK S1 : s \in Seq(S1)  BY DEF Calm
<1>2. PICK S2 : t \in Seq(S2)  BY DEF Calm
<1> DEFINE S == S1 \cup S2
<1>3. s \in Seq(S) /\ t \in Seq(S)  BY <1>1, <1>2, SeqMonotonic
<1> HIDE DEF S
<1>4. /\ Len(s) \in Nat /\ DOMAIN s = 1 .. Len(s) /\ Len(t) \in Nat /\ DOMAIN t = 1 .. Len(t)
  BY <1>3, LenProperties
<1>5. /\ u \in Seq(S) /\ Len(u) = Len(s) + Len(t)
      /\ \A k \in 1 .. Len(u) : u[k] = IF k <= Len(s) THEN s[k] ELSE t[k - Len(s)]
  BY <1>3, ConcatProperties
<1>6. DOMAIN u = 1 .. Len(s) + Len(t)  BY <1>5, LenProperties
<1> HIDE DEF u
<1>7. ASSUME NEW k \in 1 .. Len(s) + Len(t) PROVE u[k].kind # "cc"
  <2>1. CASE k <= Len(s)
    <3>1. k \in 1 .. Len(s) /\ u[k] = s[k]  BY <1>4, <1>5, <2>1
    <3> QED  BY <1>4, <3>1 DEF Calm
  <2>2. CASE ~(k <= Len(s))
    <3>1. k - Len(s) \in 1 .. Len(t) /\ u[k] = t[k - Len(s)]  BY <1>4, <1>5, <2>2
    <3> QED  BY <1>4, <3>1 DEF Calm
  <2> QED  BY <2>1, <2>2
<1> QED  BY <1>5, <1>6, <1>7 DEF Calm, u

LEMMA CalmOne == Calm(<<>>) /\ \A e : e.kind # "cc" => Calm(<<e>>)
PROOF
<1>1. Calm(<<>>)  BY DEF Calm
<1>2. ASSUME NEW e, e.kind # "cc" PROVE Calm(<<e>>)
  <2>1. <<e>> \in Seq({e})  OBVIOUS
  <2>2. \A k \in DOMAIN <<e>> : <<e>>[k].kind # "cc"  BY <1>2
  <2> QED  BY <2>1, <2>2 DEF Calm
<1> QED  BY <1>1, <1>2

(* What parsing a packet does besides checking its counter.                *)
LEMMA ParsedPacket ==
    ASSUME NEW pkt, D!parseTsPacket(pkt), ~D!Ignored(pkt)
    PROVE  \E es : Calm(es) /\ D!parseAdaptationField(pkt, es)
PROOF
<1>1. CASE D!ParsePat(pkt) \/ D!ParsePmt(pkt) \/ D!Skip(pkt)
  <2>1. D!ParsePat(pkt) => D!parseAdaptationField(pkt, <<>>)  BY DEF D!ParsePat
  <2>2. D!ParsePmt(pkt) => D!parseAdaptationField(pkt, <<>>)  BY DEF D!ParsePmt
  <2>3. D!Skip(pkt) => D!parseAdaptationField(pkt, <<>>)  BY DEF D!Skip
  <2> QED  BY <1>1, <2>1, <2>2, <2>3, CalmOne
<1>2. CASE D!ParsePes(pkt)
  <2>1. \E frame, grown, full :
           D!parseAdaptationField(pkt, D!Flush(pkt, frame)
               \o IF full THEN <<D!Deliver(pkt.pid, grown, TRUE, D!ThisPacket)>> ELSE <<>>)
    BY <1>2 DEF D!ParsePes
  <2>2. PICK frame, grown, full :
           D!parseAdaptationField(pkt, D!Flush(pkt, frame)
               \o IF full THEN <<D!Deliver(pkt.pid, grown, TRUE, D!ThisPacket)>> ELSE <<>>)
    BY <2>1
  <2>3. \A f, c, n : D!Deliver(pkt.pid, f, c, n).kind # "cc"  BY DEF D!Deliver
  <2>4. Calm(D!Flush(pkt, frame))  BY <2>3, CalmOne DEF D!Flush
  <2>5. Calm(IF full THEN <<D!Deliver(pkt.pid, grown, TRUE, D!ThisPacket)>> ELSE <<>>)
    BY <2>3, CalmOne
  <2> QED  BY <2>2, <2>4, <2>5, CalmMore
<1> QED  BY <1>1, <1>2 DEF D!parseTsPacket, D!Ignore

LEMMA MadeDropped ==
    ASSUME NEW p \in Packet, Made(p)
    PROVE  /\ p.pid # MPEGTS_NULL_PACKET_PID
           /\ D!Ignored(p) => ~hasPayload(p.afc)
PROOF
<1>1. /\ p.load.kind \in {"pat", "pmt", "none", "pes"}
      /\ p.load.kind = "pat" => \E cc \in Cc : p = createPat(cc)
      /\ p.load.kind = "pmt" => \E cc \in Cc : p = createPmt(cc)
      /\ p.load.kind = "none" => p = PcrPacket(p.af.pcr)
      /\ p.load.kind = "pes" => IsPes(p)
  BY MadeKinds
<1>2. MPEGTS_NULL_PACKET_PID = 8191 /\ PcrPid \in EsPids /\ PmtPid \in EsPids
  BY MuxerAssumption DEF MPEGTS_NULL_PACKET_PID
<1>3. CASE p.load.kind \in {"pat", "pmt"}
  <2>1. \A cc : /\ createPat(cc).pid = 0 /\ createPmt(cc).pid = PmtPid
                /\ createPat(cc).afc = mPayloadOnly /\ createPmt(cc).afc = mPayloadOnly
    BY DEF createPat, createPmt, TablePacket, MPEGTS_PAT_PID
  <2>2. p.pid \in {0, PmtPid} /\ p.afc = mPayloadOnly  BY <1>1, <1>3, <2>1
  <2>3. p.pid # 8191  BY <2>2, Announced
  <2>4. ~hasAdaptationField(p.afc)
    BY <2>2 DEF hasAdaptationField, mPayloadOnly, mAdaptionOnly, mPayloadAdaptionBoth
  <2> QED  BY <1>2, <2>3, <2>4, DemuxNumbers DEF D!Ignored
<1>4. CASE p.load.kind = "none"
  <2>1. p.pid = PcrPid /\ p.afc = mAdaptionOnly  BY <1>1, <1>4 DEF PcrPacket
  <2>2. ~hasPayload(p.afc)
    BY <2>1 DEF hasPayload, mPayloadOnly, mAdaptionOnly, mPayloadAdaptionBoth
  <2> QED  BY <1>2, <2>1, <2>2 DEF EsPids
<1>5. CASE p.load.kind = "pes"
  <2>1. p.pid \in AnnouncedPids /\ ~D!Ignored(p)  BY <1>1, <1>5, PesFields
  <2> QED  BY <1>2, <2>1, Announced
<1> QED  BY <1>1, <1>3, <1>4, <1>5

LEMMA AlarmNext ==
    ASSUME LinkInv, Receive, CcContinuity, Calm(events), CountersInv
    PROVE  Calm(events') /\ CountersInv'
PROOF
<1> DEFINE n == nTaken + 1
           q == Taken.pid
<1>1. /\ wire' = wire /\ nTaken' = n /\ n \in 1 .. Len(wire) /\ D!parseTsPacket(Taken)
      /\ Taken \in Packet /\ Made(Taken) /\ DOMAIN wire = 1 .. Len(wire)
      /\ nTaken \in Nat /\ Len(wire) \in Nat
  BY ReceiveTaken, LinkTypes
<1>2. wire[n] = Taken  BY DEF Taken
<1>3. q # MPEGTS_NULL_PACKET_PID /\ (D!Ignored(Taken) => ~hasPayload(Taken.afc))
  BY <1>1, MadeDropped
<1>4. ASSUME q \in DOMAIN mCCs
      PROVE  Taken.cc = IF hasPayload(Taken.afc) THEN NextCc(mCCs[q]) ELSE mCCs[q]
  <2>1. PICK i \in 1 .. nTaken : LastOn(wire, q, i, nTaken) /\ mCCs[q] = wire[i].cc
    BY <1>4 DEF CountersInv
  <2>2. i \in DOMAIN wire /\ n \in DOMAIN wire /\ i < n /\ i + 1 .. n - 1 = i + 1 .. nTaken
    BY <1>1
  <2>3. Precedes(wire, i, n)  BY <1>2, <2>1, <2>2 DEF Precedes, LastOn
  <2>4. CcFollows(wire[i], Taken)  BY <1>2, <1>3, <2>2, <2>3 DEF CcContinuity
  <2> QED  BY <2>1, <2>4 DEF CcFollows
<1>5. ASSUME NEW p, NEW i \in 1 .. nTaken, LastOn(wire, p, i, nTaken), p # q
      PROVE  i \in 1 .. n /\ LastOn(wire, p, i, n)
  <2>1. \A j \in i + 1 .. n : j \in i + 1 .. nTaken \/ j = n  BY <1>1
  <2>2. i \in 1 .. n  BY <1>1
  <2> QED  BY <1>2, <1>5, <2>1, <2>2 DEF LastOn
<1>6. n \in 1 .. n /\ LastOn(wire, q, n, n)
  <2>1. n \in 1 .. n /\ \A j \in n + 1 .. n : FALSE  BY <1>1
  <2> QED  BY <1>2, <2>1 DEF LastOn
<1>7. CASE D!Ignored(Taken)
  <2>1. mCCs' = mCCs /\ events' = events
    BY <1>1, <1>7 DEF D!parseTsPacket, D!Ignore
  <2>2. ASSUME NEW p \in DOMAIN mCCs
        PROVE  \E i \in 1 .. n : LastOn(wire, p, i, n) /\ mCCs[p] = wire[i].cc
    <3>1. CASE p = q
      <4>1. mCCs[p] = wire[n].cc  BY <1>2, <1>3, <1>4, <1>7, <3>1
      <4> QED  BY <1>6, <3>1, <4>1
    <3>2. CASE p # q
      <4>1. PICK i \in 1 .. nTaken : LastOn(wire, p, i, nTaken) /\ mCCs[p] = wire[i].cc
        BY DEF CountersInv
      <4> QED  BY <1>5, <3>2, <4>1
    <3> QED  BY <3>1, <3>2
  <2> QED  BY <1>1, <2>1, <2>2 DEF CountersInv
<1>8. CASE ~D!Ignored(Taken)
  <2>1. PICK es : Calm(es) /\ D!parseAdaptationField(Taken, es)
    BY <1>1, <1>8, ParsedPacket
  <2>2. D!CcEvents(Taken) = <<>>
    <3>1. q \in DOMAIN mCCs => Taken.cc = D!expectedCC(Taken)
      <4>1. \A c : D!NextCc(c) = NextCc(c)  BY DEF D!NextCc, NextCc, D!CcModulus, CcModulus
      <4> QED  BY <1>4, <4>1, DemuxNumbers DEF D!expectedCC
    <3> QED  BY <3>1 DEF D!CcEvents
  <2>3. Calm(D!PcrEvents(Taken))
    <3>1. [kind |-> "pcr", pid |-> q, pcr |-> Taken.af.pcr, at |-> D!ThisPacket].kind # "cc"
      OBVIOUS
    <3> QED  BY <3>1, CalmOne DEF D!PcrEvents
  <2>4. Calm(events')
    <3>1. events' = ((events \o D!PcrEvents(Taken)) \o <<>>) \o es
      BY <2>1, <2>2 DEF D!parseAdaptationField
    <3>2. Calm((events \o D!PcrEvents(Taken)) \o <<>>)  BY <2>3, CalmOne, CalmMore
    <3> QED  BY <2>1, <3>1, <3>2, CalmMore
  <2>5. DOMAIN mCCs' = DOMAIN mCCs \cup {q}
        /\ \A p \in DOMAIN mCCs \cup {q} : mCCs'[p] = IF p = q THEN Taken.cc ELSE mCCs[p]
    BY <2>1 DEF D!parseAdaptationField, D!MapTo
  <2>6. ASSUME NEW p \in DOMAIN mCCs \cup {q}
        PROVE  \E i \in 1 .. n : LastOn(wire, p, i, n) /\ mCCs'[p] = wire[i].cc
    <3>1. CASE p = q  BY <1>2, <1>6, <2>5, <3>1
    <3>2. CASE p # q
      <4>1. PICK i \in 1 .. nTaken : LastOn(wire, p, i, nTaken) /\ mCCs[p] = wire[i].cc
        BY <3>2 DEF CountersInv
      <4>2. mCCs'[p] = mCCs[p]  BY <2>5, <3>2
      <4> QED  BY <1>5, <3>2, <4>1, <4>2
    <3> QED  BY <3>1, <3>2
  <2> QED  BY <1>1, <2>4, <2>5, <2>6 DEF CountersInv
<1> QED  BY <1>7, <1>8

(***************************************************************************)
(* Where nothing is lost no loss is reported: the counters in the packets  *)
(* of every PID are the ones the demultiplexer expects - provided, as for  *)
(* CcAlwaysContinuous, that createPcr is used only for a PCR PID of its    *)
(* own.                                                                    *)
(***************************************************************************)
THEOREM NoAlarmIsFalse == MaxFaults = 0 /\ PcrOutOfBand => (LinkSpec => []NoFalseAlarm)
PROOF
<1> SUFFICES ASSUME MaxFaults = 0, PcrOutOfBand PROVE LinkSpec => []NoFalseAlarm  OBVIOUS
<1> DEFINE Inv == Calm(events) /\ CountersInv
<1>1. LinkInit => Inv
  <2> SUFFICES ASSUME LinkInit PROVE Inv  OBVIOUS
  <2>1. events = <<>> /\ DOMAIN mCCs = {}  BY DEF LinkInit, D!Init
  <2> QED  BY <2>1, CalmOne DEF CountersInv
<1>2. LinkInv /\ CcContinuity /\ Inv /\ [LinkNext]_linkVars => Inv'
  <2> SUFFICES ASSUME LinkInv, CcContinuity, Inv, [LinkNext]_linkVars PROVE Inv'  OBVIOUS
  <2>1. CASE Receive  BY <2>1, AlarmNext
  <2>2. CASE MuxOrNone
    <3>1. events' = events /\ mCCs' = mCCs /\ nTaken' = nTaken  BY <2>2 DEF MuxOrNone, demuxVars
    <3>2. \A i \in 1 .. nTaken : wire'[i] = wire[i]
      <4>1. /\ Len(wire) <= Len(wire') /\ \A i \in 1 .. Len(wire) : wire'[i] = wire[i]
        BY <2>2, WireGrows DEF MuxOrNone, LinkInv
      <4>2. \A i \in 1 .. nTaken : i \in 1 .. Len(wire)  BY LinkTypes
      <4> QED  BY <4>1, <4>2
    <3>3. ASSUME NEW q, NEW i \in 1 .. nTaken, LastOn(wire, q, i, nTaken)
          PROVE  LastOn(wire', q, i, nTaken)
      <4>1. nTaken \in Nat  BY LinkTypes
      <4>2. \A j \in i + 1 .. nTaken : j \in 1 .. nTaken  BY <4>1
      <4> QED  BY <3>2, <3>3, <4>2 DEF LastOn
    <3>4. CountersInv'  BY <3>1, <3>2, <3>3 DEF CountersInv
    <3> QED  BY <3>1, <3>4
  <2> QED  BY <2>1, <2>2, Faultless
<1>3. Inv => NoFalseAlarm  BY DEF Calm, NoFalseAlarm
<1>4. LinkSpec => []LinkInv  BY LinkAlways
<1>5. LinkSpec => []CcContinuity
  <2>1. LinkSpec => Spec
    <3>1. LinkInit => Init  BY DEF LinkInit
    <3>2. [LinkNext]_linkVars => [Next]_vars
      BY DEF LinkNext, linkVars, Mux, Receive, Lose, Repeat
    <3> QED  BY <3>1, <3>2, PTL DEF LinkSpec, Spec
  <2>2. Spec => []CcContinuity  BY CcAlwaysContinuous
  <2> QED  BY <2>1, <2>2, PTL
<1> HIDE DEF Inv
<1> QED  BY <1>1, <1>2, <1>3, <1>4, <1>5, PTL DEF LinkSpec
=============================================================================
