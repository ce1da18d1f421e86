--------------------------- MODULE LinkLossProofs ---------------------------
(***************************************************************************)
(* What holds of multiplexer and demultiplexer together when the network   *)
(* loses and repeats packets, for every set of threads, streams and frames *)
(* and for calls without bound: no frame is delivered with silent damage   *)
(* while few packets are lost in a row, frames come in order, and a frame  *)
(* is flagged broken only if a packet was lost.                            *)
(***************************************************************************)
EXTENDS LinkProofs

(***************************************************************************)
(* Numbers: induction, and the last number of a kind.                      *)
(***************************************************************************)
LEMMA LeastNumber ==
    ASSUME NEW T, T \subseteq Nat, T # {}
    PROVE  \E x \in T : \A y \in T : x <= y
PROOF
<1> DEFINE R == OpToRel(<, Nat)
<1>1. IsWellFoundedOn(R, Nat)  BY NatLessThanWellFounded, Zenon
<1>2. \A x, y \in Nat : <<x, y>> \in R <=> x < y  BY DEF OpToRel
<1> HIDE DEF R
<1>3. PICK x \in T : \A y \in T : ~(<<y, x>> \in R)  BY <1>1, WFMin
<1>4. \A y \in T : x \in Nat /\ y \in Nat  OBVIOUS
<1>5. \A y \in T : ~(y < x)  BY <1>2, <1>3, <1>4
<1>6. \A y \in T : x <= y  BY <1>4, <1>5
<1> QED  BY <1>6

LEMMA CountUp ==
    ASSUME NEW S, NEW m \in Nat, m \in S, \A n \in Nat : m <= n /\ n \in S => n + 1 \in S
    PROVE  \A n \in Nat : m <= n => n \in S
PROOF
<1> DEFINE T == {n \in Nat : m <= n /\ n \notin S}
<1> SUFFICES ASSUME T # {} PROVE FALSE  OBVIOUS
<1>1. T \subseteq Nat  OBVIOUS
<1>2. PICK x \in T : \A y \in T : x <= y
  <2> HIDE DEF T
  <2> QED  BY <1>1, LeastNumber
<1>3. x \in Nat /\ m <= x /\ x \notin S  OBVIOUS
<1>4. x # m  BY <1>3
<1>5. x - 1 \in Nat /\ m <= x - 1 /\ (x - 1) + 1 = x /\ x - 1 < x  BY <1>3, <1>4
<1>6. x - 1 \in S
  <2>1. x - 1 \notin T  BY <1>2, <1>3, <1>5
  <2> QED  BY <1>5, <2>1
<1> QED  BY <1>3, <1>5, <1>6

LEMMA LastNumber ==
    ASSUME NEW n \in Nat, NEW I, I \subseteq 1 .. n, I # {}
    PROVE  \E x \in I : \A y \in I : y <= x
PROOF
<1> DEFINE T == {n - i : i \in I}
<1>1. T \subseteq Nat /\ T # {}
  <2>1. \A i \in I : i \in 1 .. n /\ n - i \in Nat  OBVIOUS
  <2>2. PICK i \in I : TRUE  OBVIOUS
  <2>3. n - i \in T  OBVIOUS
  <2> QED  BY <2>1, <2>3
<1>2. PICK z \in T : \A y \in T : z <= y
  <2> HIDE DEF T
  <2> QED  BY <1>1, LeastNumber
<1>3. PICK x \in I : z = n - x  OBVIOUS
<1>4. ASSUME NEW y \in I PROVE y <= x
  <2>1. n - y \in T  OBVIOUS
  <2>2. n - x <= n - y  BY <1>2, <1>3, <2>1
  <2>3. x \in 1 .. n /\ y \in 1 .. n  OBVIOUS
  <2> QED  BY <2>2, <2>3
<1> QED  BY <1>4

(* The last start packet on PID q among the first n of a, 0 if none.       *)
StartAt(a, q, i) == a[i].pid = q /\ a[i].pusi /\ D!Heard(a[i])
LastStart(a, q, n, s) ==
    /\ s \in 0 .. n
    /\ s # 0 => StartAt(a, q, s)
    /\ \A i \in s + 1 .. n : ~StartAt(a, q, i)

LEMMA LastStartOnly ==
    ASSUME NEW a, NEW q, NEW n \in Nat, NEW s, NEW t,
           LastStart(a, q, n, s), LastStart(a, q, n, t)
    PROVE  s = t
PROOF
<1>1. s \in 0 .. n /\ t \in 0 .. n  BY DEF LastStart
<1>2. ~(s < t)
  <2>1. s < t => t # 0 /\ t \in s + 1 .. n  BY <1>1
  <2> QED  BY <2>1 DEF LastStart
<1>3. ~(t < s)
  <2>1. t < s => s # 0 /\ s \in t + 1 .. n  BY <1>1
  <2> QED  BY <2>1 DEF LastStart
<1> QED  BY <1>1, <1>2, <1>3

LEMMA StartOfIs ==
    ASSUME NEW q, NEW n \in Nat
    PROVE  LastStart(arrived, q, n, D!StartOf(q, n))
PROOF
<1> DEFINE I == {i \in 1 .. n : StartAt(arrived, q, i)}
<1>1. D!StartOf(q, n) = IF I # {} THEN D!Max(I) ELSE 0
  BY DEF D!StartOf, D!SelectLastInSubSeq, StartAt
<1>2. CASE I = {}
  <2>1. D!StartOf(q, n) = 0  BY <1>1, <1>2
  <2>2. \A i \in 0 + 1 .. n : ~StartAt(arrived, q, i)  BY <1>2
  <2>3. 0 \in 0 .. n  OBVIOUS
  <2> QED  BY <2>1, <2>2, <2>3 DEF LastStart
<1>3. CASE I # {}
  <2>1. I \subseteq 1 .. n  OBVIOUS
  <2>2. \E x \in I : \A y \in I : y <= x
    <3> HIDE DEF I
    <3> QED  BY <1>3, <2>1, LastNumber
  <2>3. \A x, y \in I : x >= y <=> y <= x  OBVIOUS
  <2> DEFINE m == D!Max(I)
  <2>4. m \in I /\ \A y \in I : y <= m
    <3>1. \E x \in I : \A y \in I : x >= y  BY <2>2, <2>3
    <3>2. m = CHOOSE x \in I : \A y \in I : x >= y  BY DEF D!Max
    <3>3. m \in I /\ \A y \in I : m >= y
      <4> HIDE DEF I, m
      <4> QED  BY <3>1, <3>2
    <3> HIDE DEF m, I
    <3> QED  BY <2>3, <3>3
  <2>5. D!StartOf(q, n) = m  BY <1>1, <1>3
  <2> HIDE DEF m
  <2>6. m \in 1 .. n /\ StartAt(arrived, q, m)  BY <2>4
  <2>7. \A i \in m + 1 .. n : ~StartAt(arrived, q, i)
    <3> SUFFICES ASSUME NEW i \in m + 1 .. n, StartAt(arrived, q, i) PROVE FALSE  OBVIOUS
    <3>1. i \in 1 .. n /\ ~(i <= m)  BY <2>6
    <3> QED  BY <2>4, <3>1
  <2> QED  BY <2>5, <2>6, <2>7 DEF LastStart
<1> QED  BY <1>2, <1>3

LEMMA StartOfIsNext ==
    ASSUME NEW q, NEW n \in Nat
    PROVE  LastStart(arrived', q, n, D!StartOf(q, n)')
PROOF
<1>1. (LastStart(arrived, q, n, D!StartOf(q, n)))'  BY StartOfIs, PTL
<1> QED  BY <1>1 DEF LastStart, StartAt

(* With one more packet, earlier answers stand.                            *)
LEMMA StartOfKept ==
    ASSUME NEW q, NEW n \in Nat, \A i \in 1 .. n : arrived'[i] = arrived[i]
    PROVE  D!StartOf(q, n)' = D!StartOf(q, n)
PROOF
<1> DEFINE s == D!StartOf(q, n)
<1>1. LastStart(arrived, q, n, s)  BY StartOfIs
<1>2. LastStart(arrived', q, n, s')  BY StartOfIsNext
<1>3. LastStart(arrived', q, n, s)
  <2> HIDE DEF s
  <2>1. s \in 0 .. n /\ (s # 0 => s \in 1 .. n)  BY <1>1 DEF LastStart
  <2>2. \A i \in s + 1 .. n : i \in 1 .. n  BY <2>1
  <2> QED  BY <1>1, <2>1, <2>2 DEF LastStart, StartAt
<1> HIDE DEF s
<1>4. s' = s  BY <1>2, <1>3, LastStartOnly
<1> QED  BY <1>4 DEF s

-----------------------------------------------------------------------------
(***************************************************************************)
(* Callers number their frames, and nobody's frames overtake each other.   *)
(***************************************************************************)
FrameOf(p) == p.load.run.frame
InTurn(s) ==
    \A i, j \in DOMAIN s :
        i < j /\ IsPes(s[i]) /\ IsPes(s[j]) /\ FrameOf(s[i]).src = FrameOf(s[j]).src =>
            /\ FrameOf(s[i]).no <= FrameOf(s[j]).no
            /\ s[j].pusi => FrameOf(s[i]).no < FrameOf(s[j]).no
UpTo(s, t, n) == \A i \in DOMAIN s : IsPes(s[i]) /\ FrameOf(s[i]).src = t => FrameOf(s[i]).no <= n
PcrsAllowed(s) == \A i \in DOMAIN s : s[i].load.kind = "none" => "pcr" \in Ops

Fresh(t) == pc[t] \in {"wait", "encode"} \/ (pc[t] = "pes" /\ lFirst[t])
Begun(t) == IF Fresh(t) THEN nCalls[t] - 1 ELSE nCalls[t]
TurnInv ==
    /\ InTurn(Stream) /\ PcrsAllowed(Stream)
    /\ \A t \in Threads : UpTo(Stream, t, Begun(t))
    /\ \A t \in Threads : job[t].op = "encode" =>
          job[t].frame.src = t /\ job[t].frame.no = nCalls[t]

LEMMA TurnOther ==
    ASSUME NEW s \in Seq(Packet), NEW p \in Packet, ~IsPes(p), InTurn(s)
    PROVE  InTurn(s \o <<p>>) /\ \A t, n : UpTo(s, t, n) => UpTo(s \o <<p>>, t, n)
PROOF
<1> DEFINE u == s \o <<p>>
<1>1. \A i \in DOMAIN u : IsPes(u[i]) => i \in DOMAIN s /\ u[i] = s[i]
  <2>1. /\ DOMAIN u = 1 .. Len(s) + 1 /\ Len(s) \in Nat /\ u[Len(s) + 1] = p
        /\ \A i \in 1 .. Len(s) : u[i] = s[i]
    BY ConcatOne, LenProperties
  <2>2. DOMAIN s = 1 .. Len(s)  BY LenProperties
  <2> HIDE DEF u
  <2> QED  BY <2>1, <2>2
<1> HIDE DEF u
<1>2. InTurn(u)  BY <1>1 DEF InTurn
<1>3. \A t, n : UpTo(s, t, n) => UpTo(u, t, n)  BY <1>1 DEF UpTo
<1> QED  BY <1>2, <1>3 DEF u

LEMMA TurnPes ==
    ASSUME NEW s \in Seq(Packet), NEW p \in Packet, IsPes(p), InTurn(s),
           \A i \in DOMAIN s : IsPes(s[i]) => FrameOf(s[i]).no \in Nat,
           FrameOf(p).no \in Nat,
           UpTo(s, FrameOf(p).src, IF p.pusi THEN FrameOf(p).no - 1 ELSE FrameOf(p).no)
    PROVE  /\ InTurn(s \o <<p>>) /\ UpTo(s \o <<p>>, FrameOf(p).src, FrameOf(p).no)
           /\ \A t, n : t # FrameOf(p).src /\ UpTo(s, t, n) => UpTo(s \o <<p>>, t, n)
PROOF
<1> DEFINE u == s \o <<p>>
           m == Len(s) + 1
<1>1. /\ DOMAIN u = DOMAIN s \cup {m} /\ u[m] = p
      /\ \A i \in DOMAIN s : u[i] = s[i] /\ i < m /\ ~(m < i) /\ i \in Nat
      /\ m \in Nat /\ ~(m < m)
  <2>1. /\ DOMAIN u = 1 .. Len(s) + 1 /\ Len(s) \in Nat /\ u[Len(s) + 1] = p
        /\ \A i \in 1 .. Len(s) : u[i] = s[i]
    BY ConcatOne, LenProperties
  <2>2. DOMAIN s = 1 .. Len(s)  BY LenProperties
  <2> HIDE DEF u
  <2> QED  BY <2>1, <2>2
<1> HIDE DEF u, m
<1>2. \A i \in DOMAIN s : IsPes(s[i]) /\ FrameOf(s[i]).src = FrameOf(p).src =>
         /\ FrameOf(s[i]).no <= FrameOf(p).no
         /\ p.pusi => FrameOf(s[i]).no < FrameOf(p).no
  BY DEF UpTo
<1>3. InTurn(u)
  <2> SUFFICES ASSUME NEW i \in DOMAIN u, NEW j \in DOMAIN u, i < j, IsPes(u[i]), IsPes(u[j]),
                      FrameOf(u[i]).src = FrameOf(u[j]).src
               PROVE  /\ FrameOf(u[i]).no <= FrameOf(u[j]).no
                      /\ u[j].pusi => FrameOf(u[i]).no < FrameOf(u[j]).no
    BY DEF InTurn
  <2>1. i \in DOMAIN s /\ u[i] = s[i]  BY <1>1
  <2>2. CASE j = m  BY <1>1, <1>2, <2>1, <2>2
  <2>3. CASE j # m
    <3>1. j \in DOMAIN s /\ u[j] = s[j]  BY <1>1, <2>3
    <3> QED  BY <2>1, <3>1 DEF InTurn
  <2> QED  BY <2>2, <2>3
<1>4. UpTo(u, FrameOf(p).src, FrameOf(p).no)  BY <1>1, <1>2 DEF UpTo
<1>5. \A t, n : t # FrameOf(p).src /\ UpTo(s, t, n) => UpTo(u, t, n)  BY <1>1 DEF UpTo
<1> QED  BY <1>3, <1>4, <1>5 DEF u

LEMMA TurnNext ==
    /\ TypeInv /\ Holder /\ EmptyOutside /\ Position /\ RowInv /\ TurnInv
    /\ TypeInv' /\ Holder' /\ [Next]_vars
    => TurnInv'
PROOF
<1> SUFFICES ASSUME TypeInv, Holder, EmptyOutside, Position, RowInv, TurnInv,
                    TypeInv', Holder', [Next]_vars
             PROVE  TurnInv'
  OBVIOUS
<1> DEFINE Own(u) == job[u].op = "encode" => job[u].frame.src = u /\ job[u].frame.no = nCalls[u]
<1>s. Stream \in Seq(Packet) /\ Stream' \in Seq(Packet)
  <2>1. TypeOK /\ TypeOK'  BY DEF TypeInv
  <2>2. Stream \in Seq(Packet)  BY <2>1, StreamType
  <2>3. (Stream \in Seq(Packet))'  BY <2>1, StreamType, PTL
  <2> QED  BY <2>2, <2>3
<1>o. /\ InTurn(Stream) /\ PcrsAllowed(Stream)
      /\ \A u \in Threads : UpTo(Stream, u, Begun(u)) /\ Own(u)
  BY DEF TurnInv
<1>n. \A u \in Threads : nCalls[u] \in Nat /\ nCalls'[u] \in Nat  BY DEF TypeInv, TypeOK
<1>f. \A i \in DOMAIN Stream : IsPes(Stream[i]) => FrameOf(Stream[i]).no \in Nat
  <2> SUFFICES ASSUME NEW i \in DOMAIN Stream, IsPes(Stream[i]) PROVE FrameOf(Stream[i]).no \in Nat
    OBVIOUS
  <2>1. Made(Stream[i])  BY DEF RowInv, Rows
  <2>2. PICK f \in FrameShapes : PartOf(f, Stream[i])  BY <2>1, MadeKinds DEF IsPes
  <2>3. Stream[i].load.run.frame \in Frame  BY <2>2 DEF PartOf
  <2> QED  BY <2>3 DEF Frame, FrameOf
<1>a. ASSUME Stream' = Stream, job' = job, nCalls' = nCalls, \A u \in Threads : Fresh(u)' => Fresh(u)
      PROVE  TurnInv'
  <2>1. ASSUME NEW u \in Threads PROVE UpTo(Stream, u, Begun(u)')
    <3>1. UpTo(Stream, u, Begun(u))  BY <1>o
    <3>2. Begun(u) \in Int /\ Begun(u)' \in Int /\ Begun(u) <= Begun(u)'
      <4> HIDE DEF Fresh
      <4> QED  BY <1>a, <1>n DEF Begun
    <3> QED  BY <1>f, <3>1, <3>2 DEF UpTo
  <2> QED  BY <1>a, <1>o, <2>1 DEF TurnInv
<1>1. CASE UNCHANGED vars
  <2>1. Stream' = Stream /\ job' = job /\ nCalls' = nCalls /\ pc' = pc /\ lFirst' = lFirst
    BY <1>1 DEF vars, locals, Stream
  <2> QED  BY <2>1, <1>a DEF Fresh
<1> SUFFICES ASSUME NEW t \in Threads, Call(t) \/ Lock(t) \/ Inside(t) PROVE TurnInv'
  BY <1>1 DEF Next
<1>2. CASE Call(t)
  <2>1. Stream' = Stream  BY <1>2, StreamStays
  <2>2. /\ nCalls'[t] = nCalls[t] + 1 /\ pc'[t] = "wait" /\ pc[t] = "idle"
        /\ \A u \in Threads \ {t} : /\ nCalls'[u] = nCalls[u] /\ pc'[u] = pc[u]
                                    /\ lFirst'[u] = lFirst[u] /\ job'[u] = job[u]
    BY <1>2 DEF Call, Goto, TypeInv, TypeOK
  <2>3. job'[t].op = "encode" => job'[t].frame.src = t /\ job'[t].frame.no = nCalls[t] + 1
    BY <1>2 DEF Call, TypeInv, TypeOK
  <2>4. Begun(t)' = nCalls[t] /\ Begun(t) = nCalls[t]  BY <1>n, <2>2 DEF Begun, Fresh
  <2>5. ASSUME NEW u \in Threads PROVE UpTo(Stream, u, Begun(u)') /\ Own(u)'
    <3>1. CASE u = t  BY <1>o, <2>2, <2>3, <2>4, <3>1
    <3>2. CASE u # t
      <4>1. Begun(u)' = Begun(u)  BY <2>2, <3>2 DEF Begun, Fresh
      <4> QED  BY <1>o, <2>2, <3>2, <4>1
    <3> QED  BY <3>1, <3>2
  <2> QED  BY <1>o, <2>1, <2>5 DEF TurnInv
<1>3. CASE Lock(t) \/ PesDone(t) \/ Callback(t) \/ Unlock(t)
  <2>1. Stream' = Stream  BY <1>3, StreamStays
  <2>2. job' = job /\ nCalls' = nCalls /\ lFirst' = lFirst
    BY <1>3 DEF Lock, PesDone, Callback, Unlock, locals
  <2>3. \A u \in Threads : Fresh(u)' => Fresh(u)
    <3>1. \A u \in Threads \ {t} : pc'[u] = pc[u]
      BY <1>3 DEF Lock, PesDone, Callback, Unlock, Goto, TypeInv, TypeOK
    <3>2. Fresh(t)' => Fresh(t)
      BY <1>3 DEF Lock, PesDone, Callback, Unlock, Goto, TypeInv, TypeOK, Fresh
    <3> QED  BY <2>2, <3>1, <3>2 DEF Fresh
  <2> QED  BY <1>a, <2>1, <2>2, <2>3
<1>4. CASE Encode(t)
  <2>1. /\ job' = job /\ nCalls' = nCalls /\ lFirst' = lFirst /\ pc[t] = "encode"
        /\ \A u \in Threads \ {t} : pc'[u] = pc[u]
    BY <1>4 DEF Encode, Goto, TypeInv, TypeOK
  <2>2. \A u \in Threads : Fresh(u)' => Fresh(u)  BY <2>1 DEF Fresh
  <2>3. CASE ~TablesDue(t)  BY <1>4, <1>a, <2>1, <2>2, <2>3, StreamStays
  <2>4. CASE TablesDue(t)
    <3> DEFINE cc  == getCc(TableKey)
               pat == createPat(cc)
               pmt == createPmt(cc)
               v   == Stream \o <<pat>>
               w   == v \o <<pmt>>
    <3>1. pat \in Packet /\ pmt \in Packet /\ Stream' = w  BY <1>4, <2>4, EncodeEmits
    <3>2. pat.load.kind = "pat" /\ pmt.load.kind = "pmt"
      BY DEF createPat, createPmt, TablePacket, PatLoad, PmtLoad
    <3> HIDE DEF pat, pmt
    <3>3. v \in Seq(Packet)  BY <1>s, <3>1, ConcatOne
    <3>4. InTurn(v) /\ \A u, n : UpTo(Stream, u, n) => UpTo(v, u, n)
      BY <1>s, <1>o, <3>1, <3>2, TurnOther DEF IsPes
    <3>5. PcrsAllowed(v)
      <4>1. /\ DOMAIN v = 1 .. Len(Stream) + 1 /\ v[Len(Stream) + 1] = pat
            /\ \A i \in 1 .. Len(Stream) : v[i] = Stream[i]
        BY <1>s, <3>1, ConcatOne
      <4>2. DOMAIN Stream = 1 .. Len(Stream) /\ Len(Stream) \in Nat  BY <1>s, LenProperties
      <4> HIDE DEF v
      <4>3. \A i \in DOMAIN v : v[i].load.kind = "none" => i \in DOMAIN Stream /\ v[i] = Stream[i]
        BY <3>2, <4>1, <4>2
      <4> QED  BY <1>o, <4>3 DEF PcrsAllowed
    <3> HIDE DEF v
    <3>6. InTurn(w) /\ \A u, n : UpTo(v, u, n) => UpTo(w, u, n)
      BY <3>1, <3>2, <3>3, <3>4, TurnOther DEF IsPes
    <3>7. PcrsAllowed(w)
      <4>1. /\ DOMAIN w = 1 .. Len(v) + 1 /\ w[Len(v) + 1] = pmt
            /\ \A i \in 1 .. Len(v) : w[i] = v[i]
        BY <3>1, <3>3, ConcatOne
      <4>2. DOMAIN v = 1 .. Len(v) /\ Len(v) \in Nat  BY <3>3, LenProperties
      <4> HIDE DEF w
      <4>3. \A i \in DOMAIN w : w[i].load.kind = "none" => i \in DOMAIN v /\ w[i] = v[i]
        BY <3>2, <4>1, <4>2
      <4> QED  BY <3>5, <4>3 DEF PcrsAllowed
    <3> HIDE DEF w
    <3>8. ASSUME NEW u \in Threads PROVE UpTo(w, u, Begun(u)')
      <4>1. UpTo(w, u, Begun(u))  BY <1>o, <3>4, <3>6
      <4>2. \A i \in DOMAIN w : IsPes(w[i]) => FrameOf(w[i]).no \in Nat
        <5> SUFFICES ASSUME NEW i \in DOMAIN w, IsPes(w[i]) PROVE FrameOf(w[i]).no \in Nat  OBVIOUS
        <5>1. w \in Seq(Packet)  BY <1>s, <3>1
        <5>2. w[i] \in Packet  BY <5>1
        <5>3. w[i].load \in PesData  BY <5>2 DEF Packet, Load, PesData, IsPes
        <5>4. w[i].load.run.frame \in Frame  BY <5>3 DEF PesData
        <5> QED  BY <5>4 DEF Frame, FrameOf
      <4>3. Begun(u) \in Int /\ Begun(u)' \in Int /\ Begun(u) <= Begun(u)'
        <5> HIDE DEF Fresh
        <5> QED  BY <1>n, <2>1, <2>2 DEF Begun
      <4> QED  BY <4>1, <4>2, <4>3 DEF UpTo
    <3> QED  BY <1>o, <2>1, <3>1, <3>6, <3>7, <3>8 DEF TurnInv
  <2> QED  BY <2>3, <2>4
<1>5. CASE CreatePes(t)
  <2> DEFINE f   == job[t].shape
             pkt == PesPacket(f, job[t].frame, lFirst[t], mDataPos[t], getCc(f.type))
  <2>1. /\ mMuxMtx = t /\ f \in FrameShapes /\ job[t].frame \in Frame /\ job[t].op = "encode"
        /\ getCc(f.type) \in Cc /\ pkt \in Packet /\ Stream' = Stream \o <<pkt>>
    BY <1>5, CreatePesEmits
  <2>2. /\ pc[t] = "pes" /\ mDataPos[t] < f.size /\ mDataPos[t] \in Nat /\ lFirst[t] \in BOOLEAN
        /\ lFirst'[t] = FALSE /\ \A u \in Threads \ {t} : lFirst'[u] = lFirst[u]
        /\ pc' = pc /\ job' = job /\ nCalls' = nCalls
    BY <1>5 DEF CreatePes, TypeInv, TypeOK
  <2>3. IsPes(pkt) /\ pkt.pusi = lFirst[t] /\ FrameOf(pkt) = job[t].frame
    BY <2>1, <2>2, PesPacketRun DEF FrameOf
  <2> HIDE DEF pkt
  <2>4. FrameOf(pkt).src = t /\ FrameOf(pkt).no = nCalls[t] /\ FrameOf(pkt).no \in Nat
    BY <1>o, <1>n, <2>1, <2>3
  <2>5. UpTo(Stream, t, IF pkt.pusi THEN FrameOf(pkt).no - 1 ELSE FrameOf(pkt).no)
    BY <1>o, <2>2, <2>3, <2>4 DEF Begun, Fresh
  <2>6. /\ InTurn(Stream \o <<pkt>>) /\ UpTo(Stream \o <<pkt>>, t, nCalls[t])
        /\ \A u, n : u # t /\ UpTo(Stream, u, n) => UpTo(Stream \o <<pkt>>, u, n)
    BY <1>s, <1>o, <1>f, <2>1, <2>3, <2>4, <2>5, TurnPes
  <2>7. PcrsAllowed(Stream \o <<pkt>>)
    <3> DEFINE v == Stream \o <<pkt>>
    <3>1. /\ DOMAIN v = 1 .. Len(Stream) + 1 /\ v[Len(Stream) + 1] = pkt
          /\ \A i \in 1 .. Len(Stream) : v[i] = Stream[i]
      BY <1>s, <2>1, ConcatOne
    <3>2. DOMAIN Stream = 1 .. Len(Stream) /\ Len(Stream) \in Nat  BY <1>s, LenProperties
    <3> HIDE DEF v
    <3>3. \A i \in DOMAIN v : v[i].load.kind = "none" => i \in DOMAIN Stream /\ v[i] = Stream[i]
      BY <2>3, <3>1, <3>2 DEF IsPes
    <3>4. PcrsAllowed(v)  BY <1>o, <3>3 DEF PcrsAllowed
    <3> QED  BY <3>4 DEF v
  <2>8. ASSUME NEW u \in Threads PROVE UpTo(Stream \o <<pkt>>, u, Begun(u)')
    <3>1. CASE u = t
      <4>1. Begun(t)' = nCalls[t]  BY <2>2 DEF Begun, Fresh
      <4> QED  BY <2>6, <3>1, <4>1
    <3>2. CASE u # t
      <4>1. Begun(u)' = Begun(u)  BY <2>2, <3>2 DEF Begun, Fresh
      <4> QED  BY <1>o, <2>6, <3>2, <4>1
    <3> QED  BY <3>1, <3>2
  <2> QED  BY <1>o, <2>1, <2>2, <2>6, <2>7, <2>8 DEF TurnInv
<1>6. CASE CreatePcr(t)
  <2> DEFINE pkt == PcrPacket(nCalls[t])
             v   == Stream \o <<pkt>>
  <2>1. pkt \in Packet /\ Stream' = v /\ "pcr" \in Ops  BY <1>6, PcrEmits
  <2>2. /\ job' = job /\ nCalls' = nCalls /\ lFirst' = lFirst
        /\ pc[t] = "pcr" /\ pc'[t] = "out" /\ \A u \in Threads \ {t} : pc'[u] = pc[u]
    BY <1>6 DEF CreatePcr, Goto, TypeInv, TypeOK
  <2>3. ~IsPes(pkt)  BY DEF PcrPacket, NoLoad, IsPes
  <2> HIDE DEF pkt
  <2>4. InTurn(v) /\ \A u, n : UpTo(Stream, u, n) => UpTo(v, u, n)
    BY <1>s, <1>o, <2>1, <2>3, TurnOther
  <2>5. PcrsAllowed(v)  BY <2>1 DEF PcrsAllowed
  <2> HIDE DEF v
  <2>6. \A u \in Threads : Begun(u)' = Begun(u)  BY <2>2 DEF Begun, Fresh
  <2> QED  BY <1>o, <2>1, <2>2, <2>4, <2>5, <2>6 DEF TurnInv
<1>7. CASE CreateNull(t)
  BY <1>7, LinkAssumption DEF CreateNull, Goto, TypeInv, OpOfCall
<1> QED  BY <1>2, <1>3, <1>4, <1>5, <1>6, <1>7 DEF Inside

-----------------------------------------------------------------------------
(***************************************************************************)
(* The receiver of a network with losses, first without its frames: what   *)
(* arrives was sent, and nothing arrives before what was sent before it,   *)
(* except that packets are repeated.                                       *)
(***************************************************************************)
ReceivedInv ==
    /\ nTaken \in 0 .. Len(wire)
    /\ arrived \in Seq(Packet) /\ received \in Seq(Nat) /\ Len(received) = Len(arrived)
    /\ \A i \in 1 .. Len(arrived) : received[i] \in 1 .. nTaken /\ arrived[i] = wire[received[i]]
    /\ \A i, j \in 1 .. Len(arrived) : i <= j => received[i] <= received[j]
CarriedInv == MuxInv /\ TurnInv /\ ReceivedInv

NoneTaken == [Next]_vars /\ UNCHANGED <<demuxVars, received>>
Reception(w) ==
    /\ w \in 1 .. Len(wire) /\ \A i \in 1 .. Len(arrived) : received[i] <= w
    /\ wire' = wire /\ received' = Append(received, w)
    /\ arrived' = Append(arrived, wire[w])
    /\ D!parseTsPacket(wire[w])

LEMMA CarriedTypes ==
    ASSUME CarriedInv
    PROVE  /\ wire \in Seq(Packet) /\ Len(wire) \in Nat /\ DOMAIN wire = 1 .. Len(wire)
           /\ Len(arrived) \in Nat /\ DOMAIN arrived = 1 .. Len(arrived)
           /\ DOMAIN received = 1 .. Len(arrived) /\ nTaken \in Nat
           /\ \A i \in 1 .. Len(wire) : wire[i] \in Packet /\ Made(wire[i])
           /\ \A i \in 1 .. Len(arrived) : /\ received[i] \in 1 .. Len(wire)
                                           /\ arrived[i] \in Packet /\ Made(arrived[i])
PROOF
<1>1. wire \in Seq(Packet)  BY DEF CarriedInv, MuxInv, TypeInv, TypeOK
<1>2. Len(wire) \in Nat /\ DOMAIN wire = 1 .. Len(wire)  BY <1>1, LenProperties
<1>3. /\ Len(arrived) \in Nat /\ DOMAIN arrived = 1 .. Len(arrived)
      /\ DOMAIN received = 1 .. Len(arrived)
  BY LenProperties DEF CarriedInv, ReceivedInv
<1>4. \A i \in 1 .. Len(wire) : wire[i] \in Packet /\ Made(wire[i])
  BY <1>1, <1>2 DEF CarriedInv, MuxInv, RowInv, Rows
<1>5. nTaken \in Nat /\ nTaken <= Len(wire)  BY <1>2 DEF CarriedInv, ReceivedInv
<1>6. ASSUME NEW i \in 1 .. Len(arrived) PROVE received[i] \in 1 .. Len(wire)
  <2>1. received[i] \in 1 .. nTaken  BY DEF CarriedInv, ReceivedInv
  <2> QED  BY <1>2, <1>5, <2>1
<1>7. \A i \in 1 .. Len(arrived) : arrived[i] = wire[received[i]]
  BY DEF CarriedInv, ReceivedInv
<1>8. \A i \in 1 .. Len(arrived) : /\ received[i] \in 1 .. Len(wire)
                                   /\ arrived[i] \in Packet /\ Made(arrived[i])
  BY <1>4, <1>6, <1>7
<1> QED  BY <1>1, <1>2, <1>3, <1>4, <1>5, <1>8

LEMMA StepKinds ==
    ASSUME CarriedInv, [LinkNext]_linkVars
    PROVE  [Next]_vars /\ (NoneTaken \/ \E w \in Nat : Reception(w))
PROOF
<1> USE CarriedTypes
<1>1. CASE UNCHANGED linkVars  BY <1>1 DEF linkVars, vars, NoneTaken
<1>2. CASE Mux  BY <1>2 DEF Mux, NoneTaken
<1>3. CASE Lose  BY <1>3 DEF Lose, NoneTaken
<1>t. nTaken \in Nat /\ nTaken <= Len(wire) /\ \A i \in 1 .. Len(arrived) : received[i] \in 1 .. nTaken
  BY DEF CarriedInv, ReceivedInv
<1>4. CASE Receive
  <2>1. nTaken + 1 \in 1 .. Len(wire) /\ \A i \in 1 .. Len(arrived) : received[i] <= nTaken + 1
    BY <1>4, <1>t DEF Receive
  <2>2. Reception(nTaken + 1) /\ UNCHANGED vars
    BY <1>4, <2>1 DEF Receive, Reception, D!Arrive, vars
  <2> QED  BY <1>t, <2>2
<1>5. CASE Repeat
  <2>1. nTaken \in 1 .. Len(wire) /\ \A i \in 1 .. Len(arrived) : received[i] <= nTaken
    <3>1. nTaken > 0  BY <1>5 DEF Repeat
    <3>2. nTaken \in 1 .. Len(wire)  BY <1>t, <3>1
    <3> QED  BY <1>t, <3>2
  <2>2. Reception(nTaken) /\ UNCHANGED vars
    BY <1>5, <2>1 DEF Repeat, Reception, D!Arrive, vars
  <2> QED  BY <1>t, <2>2
<1> QED  BY <1>1, <1>2, <1>3, <1>4, <1>5 DEF LinkNext

LEMMA Grows ==
    ASSUME CarriedInv, NEW w, Reception(w)
    PROVE  LET n == Len(arrived)
           IN  /\ n \in Nat /\ Len(arrived') = n + 1 /\ Len(received') = n + 1
               /\ arrived'[n + 1] = wire[w] /\ received'[n + 1] = w
               /\ \A i \in 1 .. n : arrived'[i] = arrived[i] /\ received'[i] = received[i]
               /\ \A i, j \in 1 .. n + 1 : i <= j => received'[i] <= received'[j]
               /\ wire[w] \in Packet /\ Made(wire[w]) /\ w \in 1 .. Len(wire)
               /\ arrived' \in Seq(Packet) /\ received' \in Seq(Nat)
PROOF
<1> DEFINE n == Len(arrived)
<1>1. /\ arrived \in Seq(Packet) /\ received \in Seq(Nat) /\ Len(received) = n /\ n \in Nat
      /\ \A i, j \in 1 .. n : i <= j => received[i] <= received[j]
  BY CarriedTypes DEF CarriedInv, ReceivedInv
<1>2. /\ w \in 1 .. Len(wire) /\ \A i \in 1 .. n : received[i] <= w
      /\ received' = Append(received, w) /\ arrived' = Append(arrived, wire[w])
  BY DEF Reception
<1>3. w \in Nat /\ wire[w] \in Packet /\ Made(wire[w])  BY <1>2, CarriedTypes
<1>4. /\ Len(arrived') = n + 1 /\ arrived'[n + 1] = wire[w] /\ arrived' \in Seq(Packet)
      /\ \A i \in 1 .. n : arrived'[i] = arrived[i]
  BY <1>1, <1>2, <1>3, AppendProperties
<1>5. /\ Len(received') = n + 1 /\ received'[n + 1] = w /\ received' \in Seq(Nat)
      /\ \A i \in 1 .. n : received'[i] = received[i]
  BY <1>1, <1>2, <1>3, AppendProperties
<1>6. ASSUME NEW i \in 1 .. n + 1, NEW j \in 1 .. n + 1, i <= j PROVE received'[i] <= received'[j]
  <2>1. CASE j \in 1 .. n
    <3>1. i \in 1 .. n  BY <1>1, <1>6, <2>1
    <3> QED  BY <1>1, <1>5, <1>6, <2>1, <3>1
  <2>2. CASE j = n + 1 /\ i \in 1 .. n  BY <1>2, <1>5, <2>2
  <2>3. CASE j = n + 1 /\ i = n + 1  BY <1>3, <1>5, <2>3
  <2>4. \A x \in 1 .. n + 1 : x \in 1 .. n \/ x = n + 1  BY <1>1
  <2> QED  BY <2>1, <2>2, <2>3, <2>4
<1> HIDE DEF n
<1>7. n = Len(arrived)  BY DEF n
<1> QED  BY <1>1, <1>2, <1>3, <1>4, <1>5, <1>6, <1>7

LEMMA CarriedNext == CarriedInv /\ [LinkNext]_linkVars => CarriedInv'
PROOF
<1> SUFFICES ASSUME CarriedInv, [LinkNext]_linkVars PROVE CarriedInv'  OBVIOUS
<1>1. MuxInv' /\ TurnInv'
  <2>1. MuxInv'  BY StepKinds, MuxNext DEF CarriedInv
  <2> QED  BY <2>1, StepKinds, TurnNext DEF CarriedInv, MuxInv
<1>t. nTaken \in Nat /\ nTaken <= Len(wire) /\ Len(wire) \in Nat
  BY CarriedTypes DEF CarriedInv, ReceivedInv
<1>w. /\ Len(wire) <= Len(wire') /\ Len(wire') \in Nat
      /\ \A i \in 1 .. Len(wire) : wire'[i] = wire[i]
  BY StepKinds, WireGrows DEF CarriedInv
<1>2. nTaken' \in Nat /\ nTaken <= nTaken' /\ nTaken' <= Len(wire')
  <2>1. CASE UNCHANGED linkVars \/ Mux  BY <1>t, <1>w, <2>1 DEF linkVars, Mux
  <2>2. CASE Lose
    <3>1. PICK k \in LossSizes : nTaken + k <= Len(wire) /\ nTaken' = nTaken + k  BY <2>2 DEF Lose
    <3>2. k \in Nat /\ wire' = wire  BY <2>2, LinkAssumption DEF Lose, vars
    <3> QED  BY <1>t, <3>1, <3>2
  <2>3. CASE Receive  BY <1>t, <2>3 DEF Receive, vars
  <2>4. CASE Repeat  BY <1>t, <2>4 DEF Repeat, vars
  <2> QED  BY <2>1, <2>2, <2>3, <2>4 DEF LinkNext
<1>3. CASE NoneTaken
  <2>1. arrived' = arrived /\ received' = received  BY <1>3 DEF NoneTaken, demuxVars
  <2>2. \A i \in 1 .. Len(arrived) : received[i] \in 1 .. nTaken' /\ wire'[received[i]] = wire[received[i]]
    BY <1>t, <1>w, <1>2 DEF CarriedInv, ReceivedInv
  <2>3. ReceivedInv'  BY <1>2, <2>1, <2>2 DEF CarriedInv, ReceivedInv
  <2> QED  BY <1>1, <2>3 DEF CarriedInv
<1>4. ASSUME NEW w, Reception(w), w <= nTaken' PROVE CarriedInv'
  <2> DEFINE n == Len(arrived)
  <2>1. /\ n \in Nat /\ Len(arrived') = n + 1 /\ Len(received') = n + 1
        /\ arrived'[n + 1] = wire[w] /\ received'[n + 1] = w
        /\ \A i \in 1 .. n : arrived'[i] = arrived[i] /\ received'[i] = received[i]
        /\ \A i, j \in 1 .. n + 1 : i <= j => received'[i] <= received'[j]
        /\ w \in 1 .. Len(wire) /\ arrived' \in Seq(Packet) /\ received' \in Seq(Nat)
    BY <1>4, Grows
  <2>2. wire' = wire  BY <1>4 DEF Reception
  <2>3. ASSUME NEW i \in 1 .. n + 1
        PROVE  received'[i] \in 1 .. nTaken' /\ arrived'[i] = wire[received'[i]]
    <3>1. CASE i = n + 1  BY <1>2, <1>4, <2>1, <3>1
    <3>2. CASE i # n + 1
      <4>1. i \in 1 .. n  BY <2>1, <3>2
      <4>2. received[i] \in 1 .. nTaken /\ arrived[i] = wire[received[i]]
        BY <4>1 DEF CarriedInv, ReceivedInv
      <4> QED  BY <1>2, <1>t, <2>1, <4>1, <4>2
    <3> QED  BY <3>1, <3>2
  <2>4. ReceivedInv'
    <3> HIDE DEF n
    <3> QED  BY <1>2, <2>1, <2>2, <2>3 DEF ReceivedInv
  <2> QED  BY <1>1, <2>4 DEF CarriedInv
<1>5. NoneTaken \/ \E w \in Nat : Reception(w) /\ w <= nTaken'
  <2>1. CASE UNCHANGED linkVars \/ Mux \/ Lose
    BY <2>1 DEF linkVars, vars, Mux, Lose, NoneTaken
  <2>2. ASSUME NEW w \in Nat, Reception(w), Receive \/ Repeat PROVE w <= nTaken'
    <3>1. received' = Append(received, w) /\ received \in Seq(Nat)
      BY <2>2 DEF Reception, CarriedInv, ReceivedInv
    <3>2. received'[Len(received) + 1] = w  BY <3>1
    <3>3. CASE Receive
      <4>1. received'[Len(received) + 1] = nTaken + 1 /\ nTaken' = nTaken + 1
        BY <3>1, <3>3, <1>t DEF Receive
      <4> QED  BY <3>2, <4>1, <1>t
    <3>4. CASE Repeat
      <4>1. received'[Len(received) + 1] = nTaken /\ nTaken' = nTaken
        BY <3>1, <3>4, <1>t DEF Repeat
      <4> QED  BY <3>2, <4>1, <1>t
    <3> QED  BY <2>2, <3>3, <3>4
  <2>3. CASE Receive \/ Repeat
    <3>1. NoneTaken \/ \E w \in Nat : Reception(w)  BY StepKinds
    <3> QED  BY <2>2, <2>3, <3>1
  <2> QED  BY <2>1, <2>3 DEF LinkNext
<1> QED  BY <1>3, <1>4, <1>5

LEMMA CarriedStart == LinkInit => CarriedInv
PROOF
<1> SUFFICES ASSUME LinkInit PROVE CarriedInv  OBVIOUS
<1>1. MuxInv  BY MuxInit DEF LinkInit
<1>2. Stream = <<>> /\ wire = <<>> /\ Init  BY DEF LinkInit, Init, Stream
<1>3. TurnInv
  <2>1. InTurn(Stream) /\ PcrsAllowed(Stream) /\ \A t, n : UpTo(Stream, t, n)
    BY <1>2 DEF InTurn, PcrsAllowed, UpTo
  <2> QED  BY <1>2, <2>1 DEF TurnInv, Init, NoJob
<1>4. nTaken = 0 /\ arrived = <<>> /\ received = <<>>  BY DEF LinkInit, D!Init
<1>5. ReceivedInv  BY <1>2, <1>4 DEF ReceivedInv
<1> QED  BY <1>1, <1>3, <1>5 DEF CarriedInv

LEMMA CarriedAlways == LinkSpec => []CarriedInv
BY CarriedStart, CarriedNext, PTL DEF LinkSpec

(* The order and the neighbours of packets, as far as they are on the wire.*)
LEMMA WireInTurn ==
    ASSUME MuxInv, TurnInv, NEW i \in 1 .. Len(wire), NEW j \in 1 .. Len(wire), i < j,
           IsPes(wire[i]), IsPes(wire[j]), FrameOf(wire[i]).src = FrameOf(wire[j]).src
    PROVE  wire[j].pusi => FrameOf(wire[i]).no < FrameOf(wire[j]).no
PROOF
<1>1. /\ DOMAIN wire = 1 .. Len(wire)
      /\ \A k \in 1 .. Len(wire) : k \in DOMAIN Stream /\ Stream[k] = wire[k]
  BY WireBegins DEF MuxInv, TypeInv
<1> QED  BY <1>1 DEF TurnInv, InTurn

LEMMA OnlyPes ==
    ASSUME PcrOutOfBand, MuxInv, TurnInv, NEW i \in 1 .. Len(wire), wire[i].pid \in EncodedPids
    PROVE  IsPes(wire[i])
PROOF
<1>1. /\ DOMAIN wire = 1 .. Len(wire)
      /\ \A k \in 1 .. Len(wire) : k \in DOMAIN Stream /\ Stream[k] = wire[k]
  BY WireBegins DEF MuxInv, TypeInv
<1>2. Made(wire[i]) /\ (wire[i].load.kind = "none" => "pcr" \in Ops)
  BY <1>1 DEF MuxInv, RowInv, Rows, TurnInv, PcrsAllowed
<1>3. wire[i].pid \notin {0, PmtPid}  BY Announced
<1>4. wire[i].load.kind # "pat" /\ wire[i].load.kind # "pmt"
  <2>1. \A cc : createPat(cc).pid = 0 /\ createPmt(cc).pid = PmtPid
    BY DEF createPat, createPmt, TablePacket, MPEGTS_PAT_PID
  <2>2. wire[i].load.kind = "pat" => wire[i].pid = 0  BY <1>2, <2>1, MadeKinds
  <2>3. wire[i].load.kind = "pmt" => wire[i].pid = PmtPid  BY <1>2, <2>1, MadeKinds
  <2> QED  BY <1>3, <2>2, <2>3
<1>5. wire[i].load.kind # "none"
  <2> SUFFICES ASSUME wire[i].load.kind = "none" PROVE FALSE  OBVIOUS
  <2>1. wire[i].pid = PcrPid  BY <1>2, MadeKinds DEF PcrPacket
  <2> QED  BY <1>2, <2>1 DEF PcrOutOfBand, EncodedPids
<1> QED  BY <1>2, <1>4, <1>5, MadeKinds DEF IsPes

-----------------------------------------------------------------------------
(***************************************************************************)
(* What a reception does to tables, counters and events.                   *)
(***************************************************************************)
Tuned ==
    /\ mInfos = Streams /\ DOMAIN mEsFrames = AnnouncedPids
    /\ \E i \in 1 .. Len(arrived) : arrived[i].load.kind = "pmt"
TunedInv ==
    /\ mPmtId \in {0, PmtPid}
    /\ Tuned \/ (mInfos = <<>> /\ DOMAIN mEsFrames = {})
CountedInv ==
    \A q \in EncodedPids : \A l \in 1 .. Len(arrived) :
        LastOn(arrived, q, l, Len(arrived)) /\ IsPes(arrived[l]) =>
            q \in DOMAIN mCCs /\ mCCs[q] = arrived[l].cc
ListInv == \E S : events \in Seq(S)

(* The counter of a PES packet is not the one after the last on its PID.   *)
Alarm(p) == IsPes(p) /\ p.pid \in DOMAIN mCCs /\ p.cc # NextCc(mCCs[p.pid])
CcEvent(e, q, at) == e.kind = "cc" /\ e.pid = q /\ e.at = at

Follow(p, at, m, es) ==
    /\ DOMAIN events' = 1 .. Len(events) + m + Len(es)
    /\ \A k \in 1 .. Len(events) : events'[k] = events[k]
    /\ \A k \in Len(events) + 1 .. Len(events) + m : events'[k].kind # "es"
    /\ \A k \in 1 .. Len(es) : events'[Len(events) + m + k] = es[k]
    /\ Alarm(p) => \E k \in Len(events) + 1 .. Len(events) + m : CcEvent(events'[k], p.pid, at)
Lands(p, es) ==
    /\ ListInv' /\ \E m \in Nat : Follow(p, Len(arrived) + 1, m, es)
    /\ \A q \in DOMAIN mCCs : q # p.pid => q \in DOMAIN mCCs' /\ mCCs'[q] = mCCs[q]
    /\ IsPes(p) => p.pid \in DOMAIN mCCs' /\ mCCs'[p.pid] = p.cc

LEMMA ParsedLands ==
    ASSUME NEW p \in Packet, Made(p), NEW es, D!parseAdaptationField(p, es),
           ListInv, \E S : es \in Seq(S)
    PROVE  Lands(p, es)
PROOF
<1> DEFINE pcr == D!PcrEvents(p)
           cc  == D!CcEvents(p)
           n   == Len(arrived) + 1
<1>1. mCCs' = D!MapTo(mCCs, p.pid, p.cc) /\ events' = events \o pcr \o cc \o es
  BY DEF D!parseAdaptationField
<1>2. /\ \A q \in DOMAIN mCCs : q # p.pid => q \in DOMAIN mCCs' /\ mCCs'[q] = mCCs[q]
      /\ p.pid \in DOMAIN mCCs' /\ mCCs'[p.pid] = p.cc
  <2> HIDE DEF pcr, cc
  <2> QED  BY <1>1 DEF D!MapTo
<1>3. pcr = <<>> \/ \E e : pcr = <<e>> /\ e.kind # "es"  BY DEF D!PcrEvents
<1>4. cc = <<>> \/ \E e : cc = <<e>> /\ e.kind # "es"  BY DEF D!CcEvents
<1>5. Alarm(p) => \E e : cc = <<e>> /\ CcEvent(e, p.pid, n)
  <2> SUFFICES ASSUME Alarm(p) PROVE \E e : cc = <<e>> /\ CcEvent(e, p.pid, n)  OBVIOUS
  <2>1. hasPayload(p.afc) /\ ~p.af.disc  BY PesFields DEF Alarm
  <2>2. D!expectedCC(p) = NextCc(mCCs[p.pid])
    BY <2>1, DemuxNumbers DEF D!expectedCC, D!NextCc, NextCc, D!CcModulus, CcModulus
  <2> DEFINE e == [kind |-> "cc", pid |-> p.pid, at |-> n]
  <2>3. cc = <<e>>  BY <2>1, <2>2 DEF Alarm, D!CcEvents, D!ThisPacket
  <2>4. CcEvent(e, p.pid, n)  BY DEF CcEvent
  <2> QED  BY <2>3, <2>4
<1> HIDE DEF pcr, cc
<1> DEFINE quiet == pcr \o cc
           m     == Len(quiet)
<1>q. /\ \E S : pcr \in Seq(S) /\ cc \in Seq(S) /\ quiet \in Seq(S)
      /\ m \in Nat /\ \A k \in 1 .. m : quiet[k].kind # "es"
      /\ Alarm(p) => \E k \in 1 .. m : CcEvent(quiet[k], p.pid, n)
  <2> HIDE DEF n
  <2>1. CASE pcr = <<>> /\ cc = <<>>
    <3>1. quiet = <<>>  BY <2>1
    <3>2. m = 0 /\ ~Alarm(p)
      <4>1. \A e : <<>> # <<e>>  OBVIOUS
      <4> QED  BY <1>5, <2>1, <3>1, <4>1
    <3> QED  BY <2>1, <3>1, <3>2
  <2>2. ASSUME NEW e, pcr = <<>>, cc = <<e>>, e.kind # "es" PROVE <1>q!:
    <3>1. pcr \in Seq({e}) /\ cc \in Seq({e}) /\ quiet = <<e>> /\ quiet \in Seq({e})  BY <2>2
    <3>2. m = 1 /\ quiet[1] = e  BY <3>1
    <3>3. Alarm(p) => CcEvent(e, p.pid, n)
      <4>1. \A f : <<f>> = <<e>> => f = e  OBVIOUS
      <4> QED  BY <1>5, <2>2, <4>1
    <3> HIDE DEF quiet, m
    <3>4. 1 .. m = {1}  BY <3>2
    <3> QED  BY <2>2, <3>1, <3>2, <3>3, <3>4
  <2>3. ASSUME NEW d, pcr = <<d>>, cc = <<>>, d.kind # "es" PROVE <1>q!:
    <3>1. pcr \in Seq({d}) /\ cc \in Seq({d}) /\ quiet = <<d>> /\ quiet \in Seq({d})  BY <2>3
    <3>2. m = 1 /\ quiet[1] = d  BY <3>1
    <3>3. ~Alarm(p)
      <4>1. \A e : <<>> # <<e>>  OBVIOUS
      <4> QED  BY <1>5, <2>3, <4>1
    <3> HIDE DEF quiet, m
    <3>4. 1 .. m = {1}  BY <3>2
    <3> QED  BY <2>3, <3>1, <3>2, <3>3, <3>4
  <2>4. ASSUME NEW d, NEW e, pcr = <<d>>, cc = <<e>>, d.kind # "es", e.kind # "es" PROVE <1>q!:
    <3>1. /\ pcr \in Seq({d, e}) /\ cc \in Seq({d, e})
          /\ Len(pcr) = 1 /\ Len(cc) = 1 /\ pcr[1] = d /\ cc[1] = e
      BY <2>4
    <3>2. quiet \in Seq({d, e}) /\ m = 2 /\ quiet[1] = d /\ quiet[2] = e
      <4>1. /\ quiet \in Seq({d, e}) /\ m = Len(pcr) + Len(cc)
            /\ \A i \in 1 .. Len(pcr) + Len(cc) :
                  quiet[i] = IF i <= Len(pcr) THEN pcr[i] ELSE cc[i - Len(pcr)]
        BY <3>1, ConcatProperties
      <4> HIDE DEF quiet, m
      <4> QED  BY <3>1, <4>1
    <3>3. Alarm(p) => CcEvent(e, p.pid, n)
      <4>1. \A f : <<f>> = <<e>> => f = e  OBVIOUS
      <4> QED  BY <1>5, <2>4, <4>1
    <3> HIDE DEF quiet, m
    <3>4. 1 .. m = {1, 2}  BY <3>2
    <3> QED  BY <2>4, <3>1, <3>2, <3>3, <3>4
  <2> QED  BY <1>3, <1>4, <2>1, <2>2, <2>3, <2>4
<1>6. PICK S : events \in Seq(S)  BY DEF ListInv
<1>7. PICK T : pcr \in Seq(T) /\ cc \in Seq(T) /\ quiet \in Seq(T)  BY <1>q
<1>8. PICK U : es \in Seq(U)  OBVIOUS
<1> DEFINE X == S \cup T \cup U
<1>9. events \in Seq(X) /\ pcr \in Seq(X) /\ cc \in Seq(X) /\ quiet \in Seq(X) /\ es \in Seq(X)
  <2>1. S \subseteq X /\ T \subseteq X /\ U \subseteq X  OBVIOUS
  <2> HIDE DEF X, quiet, m
  <2> QED  BY <1>6, <1>7, <1>8, <2>1
<1> HIDE DEF X
<1>10. events' = (events \o quiet) \o es
  <2>1. events \o pcr \o cc = events \o (pcr \o cc)  BY <1>9
  <2> QED  BY <1>1, <2>1
<1>11. /\ Len(events \o quiet) = Len(events) + m /\ events \o quiet \in Seq(X)
       /\ \A k \in 1 .. Len(events) : (events \o quiet)[k] = events[k]
       /\ \A k \in 1 .. m : (events \o quiet)[Len(events) + k] = quiet[k]
       /\ Len(events) \in Nat /\ Len(es) \in Nat
  <2> HIDE DEF quiet
  <2>1. Len(events) \in Nat /\ Len(es) \in Nat  BY <1>9
  <2> QED  BY <1>9, <2>1
<1> DEFINE eq == events \o quiet
<1> HIDE DEF eq, quiet, m, n
<1>12. /\ DOMAIN events' = 1 .. Len(events) + m + Len(es) /\ events' \in Seq(X)
       /\ \A k \in 1 .. Len(events) + m : events'[k] = eq[k]
       /\ \A k \in 1 .. Len(es) : events'[Len(events) + m + k] = es[k]
  <2>1. events' = eq \o es /\ eq \in Seq(X) /\ Len(eq) = Len(events) + m  BY <1>10, <1>11 DEF eq
  <2>2. m \in Nat /\ Len(events) \in Nat /\ Len(es) \in Nat  BY <1>q, <1>11
  <2> DEFINE a == Len(events) + m
             b == Len(es)
  <2>3. /\ events' \in Seq(X) /\ Len(events') = a + b
        /\ \A k \in 1 .. a + b : events'[k] = IF k <= a THEN eq[k] ELSE es[k - a]
    <3>1. Len(eq) = a /\ Len(es) = b  BY <2>1
    <3> HIDE DEF a, b
    <3> QED  BY <1>9, <2>1, <3>1, ConcatProperties
  <2>4. a \in Nat /\ b \in Nat /\ DOMAIN events' = 1 .. a + b  BY <2>2, <2>3
  <2> HIDE DEF a, b
  <2>5. \A k \in 1 .. a : k \in 1 .. a + b /\ k <= a  BY <2>4
  <2>6. \A k \in 1 .. b : a + k \in 1 .. a + b /\ ~(a + k <= a) /\ (a + k) - a = k  BY <2>4
  <2>7. (\A k \in 1 .. a : events'[k] = eq[k]) /\ \A k \in 1 .. b : events'[a + k] = es[k]
    BY <2>3, <2>5, <2>6
  <2> QED  BY <2>3, <2>4, <2>7 DEF a, b
<1>13. \A k \in 1 .. Len(events) : events'[k] = events[k]
  <2>1. \A k \in 1 .. Len(events) : k \in 1 .. Len(events) + m  BY <1>q, <1>11
  <2> QED  BY <1>11, <1>12, <2>1 DEF eq
<1>14. ASSUME NEW k \in Len(events) + 1 .. Len(events) + m
       PROVE  k - Len(events) \in 1 .. m /\ events'[k] = quiet[k - Len(events)]
  <2>1. k - Len(events) \in 1 .. m /\ k \in 1 .. Len(events) + m /\ Len(events) + (k - Len(events)) = k
    BY <1>q, <1>11
  <2>2. eq[Len(events) + (k - Len(events))] = quiet[k - Len(events)]  BY <1>11, <2>1 DEF eq
  <2> QED  BY <1>12, <2>1, <2>2
<1>15. \A k \in Len(events) + 1 .. Len(events) + m : events'[k].kind # "es"  BY <1>q, <1>14
<1>16. Alarm(p) => \E k \in Len(events) + 1 .. Len(events) + m : CcEvent(events'[k], p.pid, n)
  <2> SUFFICES ASSUME Alarm(p)
               PROVE  \E k \in Len(events) + 1 .. Len(events) + m : CcEvent(events'[k], p.pid, n)
    OBVIOUS
  <2>1. PICK i \in 1 .. m : CcEvent(quiet[i], p.pid, n)  BY <1>q
  <2>2. Len(events) + i \in Len(events) + 1 .. Len(events) + m /\ (Len(events) + i) - Len(events) = i
    BY <1>q, <1>11
  <2>3. events'[Len(events) + i] = quiet[i]  BY <1>14, <2>2
  <2> QED  BY <2>1, <2>2, <2>3
<1>17. ListInv'  BY <1>12 DEF ListInv
<1>18. Follow(p, n, m, es)  BY <1>12, <1>13, <1>15, <1>16 DEF Follow
<1> QED  BY <1>2, <1>q, <1>17, <1>18 DEF Lands, n

LEMMA IgnoredLands ==
    ASSUME NEW p \in Packet, Made(p), D!Ignored(p), UNCHANGED <<events, mCCs>>, ListInv
    PROVE  Lands(p, <<>>)
PROOF
<1>1. ~IsPes(p)  BY PesFields
<1>2. Len(events) \in Nat /\ DOMAIN events = 1 .. Len(events)  BY DEF ListInv
<1>3. Len(events) + 0 + Len(<<>>) = Len(events) /\ Len(events) + 1 .. Len(events) + 0 = {}
      /\ 1 .. Len(<<>>) = {}
  BY <1>2
<1>4. Follow(p, Len(arrived) + 1, 0, <<>>)  BY <1>1, <1>2, <1>3 DEF Follow, Alarm
<1>5. ListInv'  BY DEF ListInv
<1> QED  BY <1>1, <1>4, <1>5 DEF Lands

LEMMA QuietLands ==
    ASSUME NEW p \in Packet, Made(p), D!parseTsPacket(p), ListInv,
           ~IsPes(p) \/ DOMAIN mEsFrames = {}, DOMAIN mEsFrames \subseteq AnnouncedPids
    PROVE  Lands(p, <<>>)
PROOF
<1>1. ~D!ToPes(p)
  <2>1. CASE DOMAIN mEsFrames = {}  BY <2>1 DEF D!ToPes
  <2>2. CASE p.load.kind \in {"pat", "pmt"}
    <3>1. \A cc : createPat(cc).pid = 0 /\ createPmt(cc).pid = PmtPid
      BY DEF createPat, createPmt, TablePacket, MPEGTS_PAT_PID
    <3>2. p.pid \in {0, PmtPid}  BY <2>2, <3>1, MadeKinds
    <3> QED  BY <3>2, Announced DEF D!ToPes
  <2>3. CASE p.load.kind = "none"
    <3>1. p.afc = mAdaptionOnly  BY <2>3, MadeKinds DEF PcrPacket
    <3>2. ~hasPayload(p.afc)
      BY <3>1 DEF hasPayload, mPayloadOnly, mAdaptionOnly, mPayloadAdaptionBoth
    <3> QED  BY <3>2, DemuxNumbers DEF D!ToPes
  <2> QED  BY <2>1, <2>2, <2>3, MadeKinds DEF IsPes
<1>2. CASE D!Ignore(p)  BY <1>2, IgnoredLands DEF D!Ignore
<1>3. CASE D!ParsePat(p) \/ D!ParsePmt(p) \/ D!Skip(p)
  <2>1. D!parseAdaptationField(p, <<>>)  BY <1>3 DEF D!ParsePat, D!ParsePmt, D!Skip
  <2>2. \E S : <<>> \in Seq(S)  OBVIOUS
  <2> QED  BY <2>1, <2>2, ParsedLands
<1>4. ~D!ParsePes(p)  BY <1>1 DEF D!ParsePes
<1> QED  BY <1>2, <1>3, <1>4 DEF D!parseTsPacket

(* What a PES packet does to the frame of its PID.                         *)
OldOf(p)  == mEsFrames[p.pid]
GrownBy(p) == Grown(IF p.pusi THEN D!Started(p, OldOf(p)) ELSE OldOf(p),
                    Len(arrived) + 1, p.load.run.len)
Fills(p)  == GrownBy(p).expPayload = GrownBy(p).size
Cuts(p)   == p.pusi /\ OldOf(p).data # <<>>
CutEvent(p)  == D!Deliver(p.pid, OldOf(p), OldOf(p).expPes = 0, Len(arrived))
FullEvent(p) == Completed(p.pid, GrownBy(p), Len(arrived) + 1)
Outcome(p) == (IF Cuts(p) THEN <<CutEvent(p)>> ELSE <<>>)
                \o (IF Fills(p) THEN <<FullEvent(p)>> ELSE <<>>)
Stored(p) ==
    /\ mEsFrames' = [mEsFrames EXCEPT ![p.pid] =
                        IF Fills(p) THEN D!EsFrame(GrownBy(p).type) ELSE GrownBy(p)]
    /\ Lands(p, Outcome(p))
Untouched(p) ==
    /\ Lands(p, <<>>)
    /\ IsPes(p) => DOMAIN mEsFrames = {}
    /\ \/ mEsFrames' = mEsFrames
       \/ /\ DOMAIN mEsFrames = {} /\ p.load.kind = "pmt"
          /\ \A q \in DOMAIN mEsFrames' : \E type : mEsFrames'[q] = D!EsFrame(type)

LEMMA PesStored ==
    ASSUME NEW p \in Packet, Made(p), IsPes(p), D!parseTsPacket(p), ListInv,
           p.pid \in DOMAIN mEsFrames
    PROVE  Stored(p) /\ UNCHANGED D!tables
PROOF
<1> DEFINE g   == GrownBy(p)
           cut == IF Cuts(p) THEN <<CutEvent(p)>> ELSE <<>>
           out == IF Fills(p) THEN <<FullEvent(p)>> ELSE <<>>
<1>1. g = Grown(IF p.pusi THEN D!Started(p, mEsFrames[p.pid]) ELSE mEsFrames[p.pid],
                D!ThisPacket, p.load.run.len)
  BY DEF GrownBy, OldOf, D!ThisPacket
<1>2. /\ UNCHANGED D!tables
      /\ mEsFrames' = [mEsFrames EXCEPT ![p.pid] = IF g.expPayload = g.size THEN D!reset(g) ELSE g]
      /\ D!parseAdaptationField(p,
           D!Flush(p, mEsFrames[p.pid])
             \o IF g.expPayload = g.size THEN <<Completed(p.pid, g, D!ThisPacket)>> ELSE <<>>)
  <2> HIDE DEF g
  <2> QED  BY <1>1, PesParsed
<1>3. D!reset(g) = D!EsFrame(g.type)  BY DEF D!reset
<1>6. D!Flush(p, mEsFrames[p.pid]) = cut
  BY DEF D!Flush, D!Flushes, Cuts, OldOf, CutEvent, D!ThisPacket
<1>7. out = IF g.expPayload = g.size THEN <<Completed(p.pid, g, D!ThisPacket)>> ELSE <<>>
  <2>1. D!ThisPacket = Len(arrived) + 1  BY DEF D!ThisPacket
  <2> QED  BY <2>1, Zenon DEF Fills, FullEvent
<1>8. D!parseAdaptationField(p, Outcome(p))
  <2>1. Outcome(p) = cut \o out  BY DEF Outcome
  <2> HIDE DEF cut, out, g
  <2> QED  BY <1>2, <1>6, <1>7, <2>1
<1>9. \E S : Outcome(p) \in Seq(S)
  <2> DEFINE S == {CutEvent(p), FullEvent(p)}
  <2>1. cut \in Seq(S) /\ out \in Seq(S)
    <3>1. \A e \in S : <<e>> \in Seq(S)  OBVIOUS
    <3>2. <<>> \in Seq(S) /\ CutEvent(p) \in S /\ FullEvent(p) \in S  OBVIOUS
    <3> HIDE DEF S
    <3> QED  BY <3>1, <3>2
  <2> HIDE DEF S, cut, out
  <2>2. cut \o out \in Seq(S)  BY <2>1
  <2> QED  BY <2>2 DEF Outcome, cut, out
<1>10. Lands(p, Outcome(p))  BY <1>8, <1>9, ParsedLands
<1> QED  BY <1>2, <1>3, <1>10 DEF Stored, Fills

LEMMA Receives ==
    ASSUME CarriedInv, TunedInv, ListInv, NEW w, Reception(w)
    PROVE  /\ TunedInv'
           /\ \/ Untouched(wire[w])
              \/ /\ IsPes(wire[w]) /\ wire[w].pid \in DOMAIN mEsFrames
                 /\ Tuned /\ Stored(wire[w])
PROOF
<1> DEFINE p == wire[w]
           n == Len(arrived)
<1>1. /\ n \in Nat /\ Len(arrived') = n + 1 /\ arrived'[n + 1] = p
      /\ \A i \in 1 .. n : arrived'[i] = arrived[i]
      /\ p \in Packet /\ Made(p) /\ D!parseTsPacket(p)
  BY Grows DEF Reception
<1> HIDE DEF p
<1>2. /\ mPmtId \in {0, PmtPid}
      /\ Tuned \/ (mInfos = <<>> /\ DOMAIN mEsFrames = {})
      /\ DOMAIN mEsFrames \subseteq AnnouncedPids
  BY DEF TunedInv, Tuned
<1>3. (\E i \in 1 .. n : arrived[i].load.kind = "pmt") => \E i \in 1 .. n + 1 : arrived'[i].load.kind = "pmt"
  <2>1. \A i \in 1 .. n : i \in 1 .. n + 1  BY <1>1
  <2> QED  BY <1>1, <2>1
<1>4. ASSUME mPmtId' \in {0, PmtPid}, mInfos' = mInfos, DOMAIN mEsFrames' = DOMAIN mEsFrames
      PROVE  TunedInv'
  BY <1>1, <1>2, <1>3, <1>4 DEF TunedInv, Tuned
<1>5. CASE IsPes(p) /\ p.pid \in DOMAIN mEsFrames
  <2>1. Stored(p) /\ UNCHANGED D!tables  BY <1>1, <1>5, PesStored
  <2>2. TunedInv'
    <3>1. mPmtId' = mPmtId /\ mInfos' = mInfos  BY <2>1 DEF D!tables
    <3>2. DOMAIN mEsFrames' = DOMAIN mEsFrames  BY <2>1 DEF Stored
    <3> QED  BY <1>2, <1>4, <3>1, <3>2
  <2>3. Tuned  BY <1>2, <1>5
  <2> QED  BY <1>5, <2>1, <2>2, <2>3 DEF p
<1>6. CASE IsPes(p) /\ p.pid \notin DOMAIN mEsFrames
  <2>1. p.pid \in AnnouncedPids  BY <1>1, <1>6, PesFields
  <2>2. DOMAIN mEsFrames = {}  BY <1>2, <1>6, <2>1 DEF Tuned
  <2>3. UNCHANGED <<mPmtId, mInfos, mEsFrames>>  BY <1>1, <1>2, <1>6, <2>2, PesSkipped
  <2>4. Lands(p, <<>>)  BY <1>1, <1>2, <2>2, QuietLands
  <2>5. TunedInv'  BY <1>2, <1>4, <2>3
  <2> QED  BY <2>2, <2>3, <2>4, <2>5 DEF Untouched, p
<1>7. ASSUME ~IsPes(p), TunedInv',
             \/ mEsFrames' = mEsFrames
             \/ /\ DOMAIN mEsFrames = {} /\ p.load.kind = "pmt"
                /\ \A q \in DOMAIN mEsFrames' : \E type : mEsFrames'[q] = D!EsFrame(type)
      PROVE  TunedInv' /\ Untouched(wire[w])
  <2>1. Lands(p, <<>>)  BY <1>1, <1>2, <1>7, QuietLands
  <2> QED  BY <1>7, <2>1 DEF Untouched, p
<1>8. CASE p.load.kind = "pat"
  <2>1. PICK cc \in Cc : p = createPat(cc)  BY <1>1, <1>8, MadeKinds
  <2>2. mPmtId' = PmtPid /\ mInfos' = mInfos /\ mEsFrames' = mEsFrames
    BY <1>1, <1>2, <2>1, PatArrives DEF ListInv
  <2> QED  BY <1>4, <1>7, <1>8, <2>2 DEF IsPes
<1>9. CASE p.load.kind = "pmt" /\ mPmtId = PmtPid
  <2>1. PICK cc \in Cc : p = createPmt(cc)  BY <1>1, <1>9, MadeKinds
  <2>2. /\ mPmtId' = PmtPid /\ mInfos' = Streams /\ DOMAIN mEsFrames' = AnnouncedPids
        /\ \/ mEsFrames' = mEsFrames
           \/ /\ DOMAIN mEsFrames = {}
              /\ \A q \in DOMAIN mEsFrames' : \E type : mEsFrames'[q] = D!EsFrame(type)
    BY <1>1, <1>2, <1>9, <2>1, PmtArrives DEF ListInv, Tuned
  <2>3. n + 1 \in 1 .. n + 1  BY <1>1
  <2>4. TunedInv'  BY <1>1, <1>9, <2>2, <2>3 DEF TunedInv, Tuned
  <2> QED  BY <1>7, <1>9, <2>2, <2>4 DEF IsPes
<1>10. CASE p.load.kind = "pmt" /\ mPmtId # PmtPid
  <2>1. PICK cc \in Cc : p = createPmt(cc)  BY <1>1, <1>10, MadeKinds
  <2>2. p.pid = PmtPid /\ hasPayload(p.afc) /\ ~hasAdaptationField(p.afc)
    BY <2>1 DEF createPmt, TablePacket, hasPayload, hasAdaptationField,
       mPayloadOnly, mAdaptionOnly, mPayloadAdaptionBoth
  <2>3. mPmtId = 0  BY <1>2, <1>10
  <2>4. PmtPid # 0 /\ PmtPid # 8191 /\ PmtPid \notin AnnouncedPids  BY Announced
  <2>5. ~D!Ignored(p)  BY <2>2, <2>4, DemuxNumbers DEF D!Ignored
  <2>6. ~D!ToPat(p) /\ ~D!ToPmt(p) /\ ~D!ToPes(p)
    BY <1>2, <2>2, <2>3, <2>4, DemuxNumbers DEF D!ToPat, D!ToPmt, D!ToPes
  <2>7. UNCHANGED <<mPmtId, mInfos, mEsFrames>>
    <3>1. ~D!Ignore(p)  BY <2>5 DEF D!Ignore
    <3>2. ~D!ParsePat(p) /\ ~D!ParsePmt(p)  BY <2>6 DEF D!ParsePat, D!ParsePmt
    <3>3. ~D!ParsePes(p)  BY <2>6 DEF D!ParsePes
    <3>4. D!Skip(p)  BY <1>1, <3>1, <3>2, <3>3 DEF D!parseTsPacket
    <3> QED  BY <3>4 DEF D!Skip, D!tables
  <2> QED  BY <1>2, <1>4, <1>7, <1>10, <2>7 DEF IsPes
<1>11. CASE p.load.kind = "none"
  <2>1. p = PcrPacket(p.af.pcr)  BY <1>1, <1>11, MadeKinds
  <2>2. UNCHANGED <<mPmtId, mInfos, mEsFrames>>  BY <1>1, <2>1, PcrArrives DEF ListInv
  <2> QED  BY <1>2, <1>4, <1>7, <1>11, <2>2 DEF IsPes
<1> QED  BY <1>1, <1>5, <1>6, <1>8, <1>9, <1>10, <1>11, MadeKinds DEF IsPes

LEMMA CountedNext ==
    ASSUME CarriedInv, CountedInv, NEW w, Reception(w), NEW es, Lands(wire[w], es)
    PROVE  CountedInv'
PROOF
<1> DEFINE p == wire[w]
           n == Len(arrived)
<1>1. /\ n \in Nat /\ Len(arrived') = n + 1 /\ arrived'[n + 1] = p
      /\ \A i \in 1 .. n : arrived'[i] = arrived[i]
  BY Grows
<1> HIDE DEF p
<1>2. /\ \A q \in DOMAIN mCCs : q # p.pid => q \in DOMAIN mCCs' /\ mCCs'[q] = mCCs[q]
      /\ IsPes(p) => p.pid \in DOMAIN mCCs' /\ mCCs'[p.pid] = p.cc
  BY DEF Lands, p
<1> SUFFICES ASSUME NEW q \in EncodedPids, NEW l \in 1 .. n + 1,
                    LastOn(arrived', q, l, n + 1), IsPes(arrived'[l])
             PROVE  q \in DOMAIN mCCs' /\ mCCs'[q] = arrived'[l].cc
  <2>1. EncodedPids' = EncodedPids  OBVIOUS
  <2> QED  BY <1>1 DEF CountedInv
<1>3. CASE l = n + 1
  <2>1. arrived'[l] = p /\ p.pid = q  BY <1>1, <1>3 DEF LastOn
  <2> QED  BY <1>2, <2>1
<1>4. CASE l # n + 1
  <2>1. l \in 1 .. n /\ n + 1 \in l + 1 .. n + 1 /\ \A j \in l + 1 .. n : j \in l + 1 .. n + 1 /\ j \in 1 .. n
    BY <1>1, <1>4
  <2>2. p.pid # q /\ arrived'[l] = arrived[l] /\ LastOn(arrived, q, l, n)
    BY <1>1, <2>1 DEF LastOn
  <2>3. q \in DOMAIN mCCs /\ mCCs[q] = arrived[l].cc  BY <2>1, <2>2 DEF CountedInv
  <2> QED  BY <1>2, <2>2, <2>3
<1> QED  BY <1>3, <1>4

-----------------------------------------------------------------------------
(***************************************************************************)
(* Frames over a network with losses: packets of one PID, each frame with  *)
(* later ones than the frame before, and none beginning with a packet      *)
(* received again without a continuity error.                              *)
(***************************************************************************)
IsFrame(f) ==
    f = [type |-> f.type, data |-> f.data, size |-> f.size, pts |-> f.pts, dts |-> f.dts,
         ra |-> f.ra, expPes |-> f.expPes, expPayload |-> f.expPayload]
DataOn(a, q, d) ==
    d \in Seq(1 .. Len(a)) /\ \A i \in 1 .. Len(d) : IsPes(a[d[i]]) /\ a[d[i]].pid = q
Again(r, b)      == b - 1 \in DOMAIN r /\ r[b - 1] = r[b]
Cried(ev, m, b)  == \E c \in 1 .. m : ev[c].kind = "cc" /\ ev[c].at = b
NoStart(a, q, n) == \A i \in 1 .. n : ~StartAt(a, q, i)

FrameOk(a, r, ev, q, f) ==
    /\ IsFrame(f) /\ f.size \in Nat /\ DataOn(a, q, f.data)
    /\ f.data = <<>> => f = D!EsFrame(f.type)
    /\ f.data # <<>> /\ Again(r, f.data[1]) => Cried(ev, Len(ev), f.data[1])
    /\ NoStart(a, q, Len(a)) => f.expPes = 0 /\ f.expPayload = 0
EventOk(a, r, ev, k) ==
    LET d == ev[k].frame.data
    IN  /\ DataOn(a, ev[k].pid, d) /\ d # <<>>
        /\ Again(r, d[1]) => Cried(ev, k - 1, d[1])
        /\ ev[k].upto \in 0 .. Len(a)
Since(ev, q, f) ==
    f.data # <<>> => \A k \in EsOf(ev, q) : ev[k].frame.data[1] < f.data[1]
InSequence(ev) ==
    \A q : \A k, l \in EsOf(ev, q) : k < l => ev[k].frame.data[1] < ev[l].frame.data[1]

OrderInv ==
    /\ ListInv
    /\ \A q \in DOMAIN mEsFrames :
          FrameOk(arrived, received, events, q, mEsFrames[q]) /\ Since(events, q, mEsFrames[q])
    /\ \A k \in DOMAIN events : events[k].kind = "es" => EventOk(arrived, received, events, k)
    /\ InSequence(events)

LEMMA FirstOf ==
    ASSUME NEW n \in Nat, NEW d \in Seq(1 .. n), d # <<>>
    PROVE  Len(d) \in Nat \ {0} /\ 1 \in 1 .. Len(d) /\ d[1] \in 1 .. n
PROOF
<1>1. Len(d) \in Nat /\ Len(d) # 0  OBVIOUS
<1>2. 1 \in 1 .. Len(d)  BY <1>1
<1> QED  BY <1>1, <1>2

LEMMA FreshFrame ==
    \A type : LET f == D!EsFrame(type)
              IN  IsFrame(f) /\ f.type = type /\ f.data = <<>> /\ f.size = 0
                  /\ f.expPes = 0 /\ f.expPayload = 0
BY DEF D!EsFrame, IsFrame

LEMMA FreshFrameOk ==
    ASSUME NEW a, NEW r, NEW ev, NEW q, NEW type
    PROVE  FrameOk(a, r, ev, q, D!EsFrame(type)) /\ Since(ev, q, D!EsFrame(type))
PROOF
<1> DEFINE f == D!EsFrame(type)
<1>1. IsFrame(f) /\ f.type = type /\ f.data = <<>> /\ f.size = 0 /\ f.expPes = 0 /\ f.expPayload = 0
  BY FreshFrame
<1>2. f = D!EsFrame(f.type)  BY <1>1
<1> HIDE DEF f
<1>3. DataOn(a, q, <<>>)
  <2>1. <<>> \in Seq(1 .. Len(a)) /\ 1 .. Len(<<>>) = {}  OBVIOUS
  <2> QED  BY <2>1 DEF DataOn
<1> QED  BY <1>1, <1>2, <1>3 DEF FrameOk, Since, f

(* How a frame grows by a packet.                                          *)
LEMMA GrownFields ==
    ASSUME NEW p \in Packet, Made(p), IsPes(p), IsFrame(OldOf(p)),
           OldOf(p).data = <<>> => OldOf(p) = D!EsFrame(OldOf(p).type)
    PROVE  LET g == GrownBy(p)
               n == Len(arrived)
           IN  /\ IsFrame(g) /\ g.type = OldOf(p).type
               /\ g.data = IF p.pusi THEN <<n + 1>> ELSE Append(OldOf(p).data, n + 1)
               /\ g.size = (IF p.pusi THEN 0 ELSE OldOf(p).size) + p.load.run.len
               /\ ~p.pusi => g.expPes = OldOf(p).expPes /\ g.expPayload = OldOf(p).expPayload
PROOF
<1> DEFINE old  == OldOf(p)
           base == IF p.pusi THEN D!Started(p, old) ELSE old
           n    == Len(arrived)
           data == Append(base.data, n + 1)
           total == base.size + p.load.run.len
<1>1. /\ IsFrame(base) /\ base.type = old.type
      /\ p.pusi => base.data = <<>> /\ base.size = 0
  <2>1. CASE ~p.pusi  BY <2>1
  <2>2. CASE p.pusi
    <3> DEFINE pes == p.load.pes
    <3>1. D!Started(p, old) =
            [type |-> old.type, data |-> <<>>, size |-> 0, pts |-> pes.pts,
             dts |-> IF pes.flags = 3 THEN pes.dts ELSE pes.pts, ra |-> p.af.ra,
             expPes |-> pes.len,
             expPayload |-> IF pes.len = 0 THEN 0 ELSE p.load.run.frame.size]
      BY <2>2, StartedFrame
    <3> HIDE DEF old, pes
    <3>2. base = D!Started(p, old)  BY <2>2
    <3> HIDE DEF base
    <3> QED  BY <2>2, <3>1, <3>2 DEF IsFrame
  <2> QED  BY <2>1, <2>2
<1>2. GrownBy(p) = [[base EXCEPT !.data = data] EXCEPT !.size = total]
  BY DEF GrownBy, Grown
<1>3. p.pusi => data = <<n + 1>>
  <2> HIDE DEF base, n
  <2>1. Append(<<>>, n + 1) = <<n + 1>>  OBVIOUS
  <2> QED  BY <1>1, <2>1
<1>4. ~p.pusi => base = old  OBVIOUS
<1>5. data = Append(base.data, n + 1) /\ total = base.size + p.load.run.len  OBVIOUS
<1> HIDE DEF base, data, total, old
<1>6. [[base EXCEPT !.data = data] EXCEPT !.size = total] =
        [type |-> base.type, data |-> data, size |-> total, pts |-> base.pts, dts |-> base.dts,
         ra |-> base.ra, expPes |-> base.expPes, expPayload |-> base.expPayload]
  <2> DEFINE next == [base EXCEPT !.data = data]
  <2>1. next =
          [type |-> base.type, data |-> data, size |-> base.size, pts |-> base.pts, dts |-> base.dts,
           ra |-> base.ra, expPes |-> base.expPes, expPayload |-> base.expPayload]
    BY <1>1 DEF IsFrame
  <2> HIDE DEF next
  <2>2. [next EXCEPT !.size = total] =
          [type |-> base.type, data |-> data, size |-> total, pts |-> base.pts, dts |-> base.dts,
           ra |-> base.ra, expPes |-> base.expPes, expPayload |-> base.expPayload]
    BY <2>1
  <2> QED  BY <2>2 DEF next
<1> DEFINE g == GrownBy(p)
<1>7. g = [type |-> base.type, data |-> data, size |-> total, pts |-> base.pts, dts |-> base.dts,
           ra |-> base.ra, expPes |-> base.expPes, expPayload |-> base.expPayload]
  BY <1>2, <1>6
<1> HIDE DEF g
<1>8. /\ IsFrame(g) /\ g.type = base.type /\ g.data = data /\ g.size = total
      /\ g.expPes = base.expPes /\ g.expPayload = base.expPayload
  BY <1>7 DEF IsFrame
<1>9. g.data = IF p.pusi THEN <<n + 1>> ELSE Append(old.data, n + 1)  BY <1>3, <1>4, <1>5, <1>8
<1>10. g.size = (IF p.pusi THEN 0 ELSE old.size) + p.load.run.len  BY <1>1, <1>4, <1>5, <1>8
<1>11. ~p.pusi => g.expPes = old.expPes /\ g.expPayload = old.expPayload  BY <1>4, <1>8
<1> QED  BY <1>1, <1>8, <1>9, <1>10, <1>11 DEF g, old

(* What holds of a list holds of the list with more at its end.            *)
Longer(s, t) ==
    /\ Len(s) \in Nat /\ DOMAIN s = 1 .. Len(s)
    /\ Len(t) \in Nat /\ DOMAIN t = 1 .. Len(t)
    /\ Len(s) <= Len(t) /\ \A k \in 1 .. Len(s) : t[k] = s[k]

LEMMA CriedKept ==
    ASSUME NEW ev, NEW ew, Longer(ev, ew), NEW k \in Nat, k <= Len(ev), NEW l \in Nat, k <= l,
           NEW b, Cried(ev, k, b)
    PROVE  Cried(ew, l, b)
PROOF
<1>1. PICK c \in 1 .. k : ev[c].kind = "cc" /\ ev[c].at = b  BY DEF Cried
<1>2. c \in 1 .. l /\ c \in 1 .. Len(ev)  BY DEF Longer
<1>3. ew[c] = ev[c]  BY <1>2 DEF Longer
<1> QED  BY <1>1, <1>2, <1>3 DEF Cried

LEMMA DataKept ==
    ASSUME NEW a, NEW b, Longer(a, b), NEW q, NEW d, DataOn(a, q, d)
    PROVE  DataOn(b, q, d)
PROOF
<1>1. d \in Seq(1 .. Len(a)) /\ \A i \in 1 .. Len(d) : IsPes(a[d[i]]) /\ a[d[i]].pid = q
  BY DEF DataOn
<1>2. 1 .. Len(a) \subseteq 1 .. Len(b)  BY DEF Longer
<1>3. d \in Seq(1 .. Len(b))  BY <1>1, <1>2, SeqMonotonic
<1>4. \A i \in 1 .. Len(d) : d[i] \in 1 .. Len(a)
  <2>1. DOMAIN d = 1 .. Len(d)  BY <1>1, LenProperties
  <2> QED  BY <1>1, <2>1
<1>5. \A i \in 1 .. Len(d) : b[d[i]] = a[d[i]]  BY <1>4 DEF Longer
<1> QED  BY <1>1, <1>3, <1>5 DEF DataOn

LEMMA AgainKept ==
    ASSUME NEW r, NEW s, Longer(r, s), NEW b \in 1 .. Len(r), Again(s, b)
    PROVE  Again(r, b)
PROOF
<1>1. b - 1 \in 1 .. Len(r)  BY DEF Longer, Again
<1> QED  BY <1>1 DEF Longer, Again

LEMMA EventOkKept ==
    ASSUME NEW a, NEW b, Longer(a, b), NEW r, NEW s, Longer(r, s), Len(r) = Len(a),
           NEW ev, NEW ew, Longer(ev, ew), NEW k \in 1 .. Len(ev), EventOk(a, r, ev, k)
    PROVE  EventOk(b, s, ew, k)
PROOF
<1> DEFINE d == ev[k].frame.data
<1>1. /\ DataOn(a, ev[k].pid, d) /\ d # <<>> /\ ev[k].upto \in 0 .. Len(a)
      /\ Again(r, d[1]) => Cried(ev, k - 1, d[1])
  BY DEF EventOk
<1>2. ew[k] = ev[k] /\ Len(a) \in Nat /\ Len(b) \in Nat /\ Len(a) <= Len(b)
      /\ k - 1 \in Nat /\ k - 1 <= Len(ev)
  BY DEF Longer
<1> HIDE DEF d
<1>3. DataOn(b, ev[k].pid, d)  BY <1>1, DataKept
<1>4. d[1] \in 1 .. Len(r)
  <2>1. d \in Seq(1 .. Len(a))  BY <1>1 DEF DataOn
  <2> QED  BY <1>1, <1>2, <2>1, FirstOf
<1>5. Again(s, d[1]) => Cried(ew, k - 1, d[1])
  <2>1. Again(s, d[1]) => Again(r, d[1])  BY <1>4, AgainKept
  <2> QED  BY <1>1, <1>2, <2>1, CriedKept
<1>6. ev[k].upto \in 0 .. Len(b)  BY <1>1, <1>2
<1> QED  BY <1>1, <1>2, <1>3, <1>5, <1>6 DEF EventOk, d

LEMMA FrameOkKept ==
    ASSUME NEW a, NEW b, Longer(a, b), NEW r, NEW s, Longer(r, s), Len(r) = Len(a),
           NEW ev, NEW ew, Longer(ev, ew), NEW q, NEW f, FrameOk(a, r, ev, q, f)
    PROVE  FrameOk(b, s, ew, q, f)
PROOF
<1>1. /\ IsFrame(f) /\ f.size \in Nat /\ DataOn(a, q, f.data)
      /\ f.data = <<>> => f = D!EsFrame(f.type)
      /\ f.data # <<>> /\ Again(r, f.data[1]) => Cried(ev, Len(ev), f.data[1])
      /\ NoStart(a, q, Len(a)) => f.expPes = 0 /\ f.expPayload = 0
  BY DEF FrameOk
<1>2. DataOn(b, q, f.data)  BY <1>1, DataKept
<1>3. f.data # <<>> /\ Again(s, f.data[1]) => Cried(ew, Len(ew), f.data[1])
  <2> SUFFICES ASSUME f.data # <<>>, Again(s, f.data[1]) PROVE Cried(ew, Len(ew), f.data[1])
    OBVIOUS
  <2>1. Len(a) \in Nat /\ f.data \in Seq(1 .. Len(a))  BY <1>1 DEF DataOn, Longer
  <2>2. f.data[1] \in 1 .. Len(r)  BY <2>1, FirstOf
  <2>3. Again(r, f.data[1])  BY <2>2, AgainKept
  <2>4. Len(ev) \in Nat /\ Len(ew) \in Nat /\ Len(ev) <= Len(ev) /\ Len(ev) <= Len(ew)  BY DEF Longer
  <2>5. Cried(ev, Len(ev), f.data[1])  BY <1>1, <2>3
  <2> QED  BY <2>4, <2>5, CriedKept
<1>4. NoStart(b, q, Len(b)) => NoStart(a, q, Len(a))
  <2>1. \A i \in 1 .. Len(a) : i \in 1 .. Len(b) /\ b[i] = a[i]  BY DEF Longer
  <2> QED  BY <2>1 DEF NoStart, StartAt
<1> QED  BY <1>1, <1>2, <1>3, <1>4 DEF FrameOk

(* The new events of a step: those of frames are at the end.               *)
LEMMA OutcomeIs ==
    ASSUME NEW p
    PROVE  LET es == Outcome(p)
           IN  /\ Len(es) \in Nat
               /\ \A i \in 1 .. Len(es) : \/ Cuts(p) /\ es[i] = CutEvent(p)
                                          \/ Fills(p) /\ es[i] = FullEvent(p)
               /\ \A i, j \in 1 .. Len(es) : i < j =>
                     Cuts(p) /\ es[i] = CutEvent(p) /\ Fills(p) /\ es[j] = FullEvent(p)
PROOF
<1> DEFINE es == Outcome(p)
           c  == CutEvent(p)
           f  == FullEvent(p)
           S  == {c, f}
           E  == /\ Len(es) \in Nat
                 /\ \A i \in 1 .. Len(es) : (Cuts(p) /\ es[i] = c) \/ (Fills(p) /\ es[i] = f)
                 /\ \A i, j \in 1 .. Len(es) : i < j => Cuts(p) /\ es[i] = c /\ Fills(p) /\ es[j] = f
<1>0. c \in S /\ f \in S  OBVIOUS
<1>1. es = (IF Cuts(p) THEN <<c>> ELSE <<>>) \o (IF Fills(p) THEN <<f>> ELSE <<>>)  BY DEF Outcome
<1> HIDE DEF es, c, f, S
<1>2. <<c>> \in Seq(S) /\ <<f>> \in Seq(S) /\ <<>> \in Seq(S)  BY <1>0
<1>3. CASE Cuts(p) /\ Fills(p)
  <2>1. es = <<c>> \o <<f>>  BY <1>1, <1>3
  <2>2. Len(<<c>>) = 1 /\ Len(<<f>>) = 1 /\ <<c>>[1] = c /\ <<f>>[1] = f  OBVIOUS
  <2>3. /\ Len(es) = 1 + 1
        /\ \A i \in 1 .. 1 + 1 : es[i] = IF i <= 1 THEN <<c>>[i] ELSE <<f>>[i - 1]
    BY <1>2, <2>1, <2>2, ConcatProperties
  <2>4. Len(es) = 2 /\ 1 .. 2 = {1, 2} /\ es[1] = c /\ es[2] = f  BY <2>2, <2>3
  <2>5. E  BY <1>3, <2>4
  <2> QED  BY <2>5 DEF es, c, f
<1>4. CASE Cuts(p) /\ ~Fills(p)
  <2>1. es = <<c>>  BY <1>1, <1>2, <1>4, ConcatEmptySeq
  <2>2. Len(es) = 1 /\ 1 .. 1 = {1} /\ es[1] = c  BY <2>1
  <2>3. E  BY <1>4, <2>2
  <2> QED  BY <2>3 DEF es, c, f
<1>5. CASE ~Cuts(p) /\ Fills(p)
  <2>1. es = <<f>>  BY <1>1, <1>2, <1>5, ConcatEmptySeq
  <2>2. Len(es) = 1 /\ 1 .. 1 = {1} /\ es[1] = f  BY <2>1
  <2>3. E  BY <1>5, <2>2
  <2> QED  BY <2>3 DEF es, c, f
<1>6. CASE ~Cuts(p) /\ ~Fills(p)
  <2>1. es = <<>>  BY <1>1, <1>2, <1>6, ConcatEmptySeq
  <2>2. Len(es) = 0 /\ 1 .. 0 = {}  BY <2>1
  <2>3. E  BY <2>2
  <2> QED  BY <2>3 DEF es, c, f
<1> QED  BY <1>3, <1>4, <1>5, <1>6

(* Where the events of a step come, and what may be among them.            *)
Fresher(p, k) == \/ Cuts(p) /\ events'[k] = CutEvent(p)
                 \/ Fills(p) /\ events'[k] = FullEvent(p)
LEMMA NewEvents ==
    ASSUME ListInv, NEW p, NEW es, Lands(p, es), es = Outcome(p) \/ es = <<>>
    PROVE  /\ Longer(events, events')
           /\ \E m \in Nat :
                /\ Len(events) + m <= Len(events')
                /\ Alarm(p) => \E c \in Len(events) + 1 .. Len(events) + m :
                                  CcEvent(events'[c], p.pid, Len(arrived) + 1)
                /\ \A k \in DOMAIN events' : k \notin 1 .. Len(events) /\ events'[k].kind = "es" =>
                      es = Outcome(p) /\ Fresher(p, k) /\ Len(events) + m < k
           /\ \A k, l \in DOMAIN events' :
                 /\ k \notin 1 .. Len(events) /\ events'[k].kind = "es"
                 /\ l \notin 1 .. Len(events) /\ events'[l].kind = "es"
                 /\ k < l
                 => Cuts(p) /\ events'[k] = CutEvent(p) /\ Fills(p) /\ events'[l] = FullEvent(p)
PROOF
<1> DEFINE N == Len(events)
           L == Len(es)
           at == Len(arrived) + 1
<1>1. N \in Nat /\ DOMAIN events = 1 .. N /\ (ListInv)'
  BY LenProperties DEF ListInv, Lands
<1>2. Len(events') \in Nat /\ DOMAIN events' = 1 .. Len(events')
  BY <1>1, LenProperties DEF ListInv
<1>3. L \in Nat /\ (es = <<>> => L = 0)
  <2>1. CASE es = Outcome(p)  BY <2>1, OutcomeIs
  <2>2. CASE es = <<>>  BY <2>2
  <2> QED  BY <2>1, <2>2
<1>4. PICK m \in Nat : Follow(p, at, m, es)  BY DEF Lands
<1>5. /\ DOMAIN events' = 1 .. N + m + L
      /\ \A k \in 1 .. N : events'[k] = events[k]
      /\ \A k \in N + 1 .. N + m : events'[k].kind # "es"
      /\ \A k \in 1 .. L : events'[N + m + k] = es[k]
      /\ Alarm(p) => \E k \in N + 1 .. N + m : CcEvent(events'[k], p.pid, at)
  BY <1>4 DEF Follow
<1> DEFINE M == Len(events')
<1> HIDE DEF N, L, at, M
<1>6. M = N + m + L
  <2>1. M \in Nat /\ 1 .. M = 1 .. N + m + L  BY <1>2, <1>5 DEF M
  <2> DEFINE K == N + m + L
  <2>2. K \in Nat  BY <1>1, <1>3
  <2> HIDE DEF K
  <2>3. 1 .. M = 1 .. K  BY <2>1 DEF K
  <2>4. M # 0 => M <= K
    <3>1. M # 0 => M \in 1 .. M  BY <2>1
    <3>2. M # 0 => M \in 1 .. K  BY <2>3, <3>1
    <3> QED  BY <2>1, <2>2, <3>2
  <2>5. K # 0 => K <= M
    <3>1. K # 0 => K \in 1 .. K  BY <2>2
    <3>2. K # 0 => K \in 1 .. M  BY <2>3, <3>1
    <3> QED  BY <2>1, <2>2, <3>2
  <2>6. M = K  BY <2>1, <2>2, <2>4, <2>5
  <2> QED  BY <2>6 DEF K
<1>7. Longer(events, events')
  <2>1. N <= M  BY <1>1, <1>3, <1>6
  <2> QED  BY <1>1, <1>2, <1>5, <2>1 DEF Longer, N, M
<1>8. ASSUME NEW k \in DOMAIN events', k \notin 1 .. N, events'[k].kind = "es"
      PROVE  /\ k - (N + m) \in 1 .. L /\ events'[k] = es[k - (N + m)] /\ es = Outcome(p)
             /\ N + m < k
  <2>1. k \in 1 .. N + m + L /\ k \notin N + 1 .. N + m  BY <1>5, <1>8
  <2>2. k - (N + m) \in 1 .. L /\ N + m + (k - (N + m)) = k /\ N + m < k
    BY <1>1, <1>3, <1>8, <2>1
  <2>3. L # 0  BY <1>3, <2>2
  <2>4. events'[k] = es[k - (N + m)]  BY <1>5, <2>2
  <2> QED  BY <1>3, <2>2, <2>3, <2>4
<1>9. ASSUME NEW k \in DOMAIN events', k \notin 1 .. N, events'[k].kind = "es"
      PROVE  es = Outcome(p) /\ Fresher(p, k) /\ N + m < k
  <2>1. k - (N + m) \in 1 .. L /\ events'[k] = es[k - (N + m)] /\ es = Outcome(p) /\ N + m < k
    BY <1>8, <1>9
  <2> QED  BY <2>1, OutcomeIs DEF Fresher, L
<1>10. ASSUME NEW k \in DOMAIN events', NEW l \in DOMAIN events',
              k \notin 1 .. N, events'[k].kind = "es", l \notin 1 .. N, events'[l].kind = "es", k < l
       PROVE  Cuts(p) /\ events'[k] = CutEvent(p) /\ Fills(p) /\ events'[l] = FullEvent(p)
  <2>1. k - (N + m) \in 1 .. L /\ events'[k] = es[k - (N + m)] /\ es = Outcome(p)
    BY <1>8, <1>10
  <2>2. l - (N + m) \in 1 .. L /\ events'[l] = es[l - (N + m)]  BY <1>8, <1>10
  <2>3. k - (N + m) < l - (N + m)
    <3>1. k \in Nat /\ l \in Nat  BY <1>2
    <3> QED  BY <1>1, <1>10, <3>1
  <2> QED  BY <2>1, <2>2, <2>3, OutcomeIs DEF L
<1>11. N + m <= M  BY <1>1, <1>3, <1>6
<1> QED  BY <1>5, <1>7, <1>9, <1>10, <1>11 DEF N, at, M

(* A packet received again does not have the counter that is expected.     *)
LEMMA AgainAlarm ==
    ASSUME CarriedInv, CountedInv, NEW w, Reception(w), IsPes(wire[w]),
           Again(received', Len(arrived) + 1)
    PROVE  Alarm(wire[w])
PROOF
<1> DEFINE n == Len(arrived)
           p == wire[w]
<1>1. /\ n \in Nat /\ Len(received') = n + 1 /\ received'[n + 1] = w
      /\ \A i \in 1 .. n : received'[i] = received[i]
      /\ p \in Packet /\ Made(p) /\ received' \in Seq(Nat)
  BY Grows
<1>2. n \in 1 .. n
  <2>1. DOMAIN received' = 1 .. n + 1  BY <1>1, LenProperties
  <2>2. (n + 1) - 1 \in 1 .. n + 1  BY <2>1 DEF Again
  <2> QED  BY <1>1, <2>2
<1>3. received[n] = w
  <2>1. (n + 1) - 1 = n  BY <1>1
  <2>2. received'[n] = received'[n + 1]  BY <2>1 DEF Again
  <2> QED  BY <1>1, <1>2, <2>2
<1>4. arrived[n] = p  BY <1>2, <1>3 DEF CarriedInv, ReceivedInv
<1>5. p.pid \in EncodedPids  BY <1>1, PesFields
<1>6. LastOn(arrived, p.pid, n, n)
  <2>1. n + 1 .. n = {}  BY <1>1
  <2> QED  BY <1>4, <2>1 DEF LastOn
<1>7. p.pid \in DOMAIN mCCs /\ mCCs[p.pid] = p.cc  BY <1>2, <1>4, <1>5, <1>6 DEF CountedInv
<1>8. p.cc # NextCc(p.cc)
  <2>1. p.cc \in Cc  BY <1>1 DEF Packet
  <2> QED  BY <2>1 DEF Cc, NextCc, CcModulus
<1> QED  BY <1>7, <1>8 DEF Alarm

LEMMA SinceKept ==
    ASSUME NEW ev, NEW ew, Longer(ev, ew), NEW q, NEW f, Since(ev, q, f),
           \A k \in DOMAIN ew : k \notin 1 .. Len(ev) /\ ew[k].kind = "es" => ew[k].pid # q
    PROVE  Since(ew, q, f)
PROOF
<1> SUFFICES ASSUME f.data # <<>>, NEW k \in EsOf(ew, q) PROVE ew[k].frame.data[1] < f.data[1]
  BY DEF Since
<1>1. k \in DOMAIN ew /\ ew[k].kind = "es" /\ ew[k].pid = q  BY DEF EsOf
<1>2. k \in 1 .. Len(ev)  BY <1>1
<1>3. ew[k] = ev[k] /\ k \in EsOf(ev, q)  BY <1>1, <1>2 DEF Longer, EsOf
<1> QED  BY <1>3 DEF Since

LEMMA ArrivedLonger ==
    ASSUME CarriedInv, NEW w, Reception(w)
    PROVE  Longer(arrived, arrived') /\ Longer(received, received') /\ Len(received) = Len(arrived)
PROOF
<1> DEFINE n == Len(arrived)
<1>1. /\ n \in Nat /\ Len(arrived') = n + 1 /\ Len(received') = n + 1
      /\ \A i \in 1 .. n : arrived'[i] = arrived[i] /\ received'[i] = received[i]
      /\ arrived' \in Seq(Packet) /\ received' \in Seq(Nat)
  BY Grows
<1>2. DOMAIN arrived' = 1 .. n + 1 /\ DOMAIN received' = 1 .. n + 1  BY <1>1, LenProperties
<1>3. DOMAIN arrived = 1 .. n /\ DOMAIN received = 1 .. n /\ Len(received) = n
  BY CarriedTypes DEF CarriedInv, ReceivedInv
<1>4. n <= n + 1  BY <1>1
<1> QED  BY <1>1, <1>2, <1>3, <1>4 DEF Longer

(* A step that stores no packet of a frame.                                *)
LEMMA OrderUntouched ==
    ASSUME CarriedInv, OrderInv, NEW w, Reception(w), Untouched(wire[w])
    PROVE  OrderInv'
PROOF
<1>1. Longer(arrived, arrived') /\ Longer(received, received') /\ Len(received) = Len(arrived)
  BY ArrivedLonger
<1>2. /\ Lands(wire[w], <<>>) /\ ListInv /\ ListInv'
  BY DEF Untouched, OrderInv, Lands
<1>3. /\ Longer(events, events')
      /\ \A k \in DOMAIN events' : events'[k].kind = "es" => k \in 1 .. Len(events)
  <2>1. Len(events) \in Nat  BY <1>2 DEF ListInv
  <2>2. PICK m \in Nat : Follow(wire[w], Len(arrived) + 1, m, <<>>)  BY <1>2 DEF Lands
  <2>3. /\ DOMAIN events' = 1 .. Len(events) + m
        /\ \A k \in Len(events) + 1 .. Len(events) + m : events'[k].kind # "es"
    BY <2>1, <2>2 DEF Follow
  <2>4. \A k \in 1 .. Len(events) + m : k \in 1 .. Len(events) \/ k \in Len(events) + 1 .. Len(events) + m
    BY <2>1
  <2>5. Longer(events, events')  BY <1>2, NewEvents
  <2> QED  BY <2>3, <2>4, <2>5
<1>4. ASSUME NEW q \in DOMAIN mEsFrames'
      PROVE  /\ FrameOk(arrived', received', events', q, mEsFrames'[q])
             /\ Since(events', q, mEsFrames'[q])
  <2>1. CASE mEsFrames' = mEsFrames
    <3>1. FrameOk(arrived, received, events, q, mEsFrames[q]) /\ Since(events, q, mEsFrames[q])
      BY <2>1 DEF OrderInv
    <3>2. FrameOk(arrived', received', events', q, mEsFrames[q])
      BY <1>1, <1>3, <3>1, FrameOkKept
    <3>3. Since(events', q, mEsFrames[q])  BY <1>3, <3>1, SinceKept
    <3> QED  BY <2>1, <3>2, <3>3
  <2>2. CASE \E type : mEsFrames'[q] = D!EsFrame(type)
    BY <2>2, FreshFrameOk
  <2> QED  BY <2>1, <2>2 DEF Untouched
<1>5. ASSUME NEW k \in DOMAIN events', events'[k].kind = "es"
      PROVE  k \in 1 .. Len(events) /\ events'[k] = events[k] /\ k \in DOMAIN events
             /\ EventOk(arrived', received', events', k)
  <2>1. k \in 1 .. Len(events) /\ events'[k] = events[k] /\ k \in DOMAIN events
    BY <1>3, <1>5 DEF Longer
  <2>2. EventOk(arrived, received, events, k)  BY <1>5, <2>1 DEF OrderInv
  <2>3. EventOk(arrived', received', events', k)  BY <1>1, <1>3, <2>1, <2>2, EventOkKept
  <2> QED  BY <2>1, <2>3
<1>6. InSequence(events')
  <2>1. \A q : \A k \in EsOf(events', q) : k \in EsOf(events, q) /\ events'[k] = events[k]
    BY <1>5 DEF EsOf
  <2> QED  BY <2>1 DEF InSequence, OrderInv
<1> QED  BY <1>2, <1>4, <1>5, <1>6 DEF OrderInv
(* The data of a frame that grows.                                         *)
LEMMA GrownData ==
    ASSUME CarriedInv, CountedInv, OrderInv, NEW w, Reception(w),
           IsPes(wire[w]), wire[w].pid \in DOMAIN mEsFrames
    PROVE  LET p   == wire[w]
               g   == GrownBy(p)
               old == OldOf(p)
               n   == Len(arrived)
           IN  /\ IsFrame(g) /\ g.size \in Nat /\ g.data # <<>>
               /\ DataOn(arrived', p.pid, g.data)
               /\ g.data[1] = IF p.pusi \/ old.data = <<>> THEN n + 1 ELSE old.data[1]
               /\ ~p.pusi => g.expPes = old.expPes /\ g.expPayload = old.expPayload
               /\ old.data # <<>> => old.data[1] \in 1 .. n
PROOF
<1> DEFINE p   == wire[w]
           q   == p.pid
           g   == GrownBy(p)
           old == OldOf(p)
           n   == Len(arrived)
<1>1. /\ n \in Nat /\ Len(arrived') = n + 1 /\ arrived'[n + 1] = p
      /\ \A i \in 1 .. n : arrived'[i] = arrived[i]
      /\ p \in Packet /\ Made(p)
  BY Grows
<1>2. FrameOk(arrived, received, events, q, old)  BY DEF OrderInv, OldOf
<1>3. /\ IsFrame(old) /\ old.size \in Nat /\ DataOn(arrived, q, old.data)
      /\ old.data = <<>> => old = D!EsFrame(old.type)
  BY <1>2 DEF FrameOk
<1>4. /\ IsFrame(g)
      /\ g.data = IF p.pusi THEN <<n + 1>> ELSE Append(old.data, n + 1)
      /\ g.size = (IF p.pusi THEN 0 ELSE old.size) + p.load.run.len
      /\ ~p.pusi => g.expPes = old.expPes /\ g.expPayload = old.expPayload
  BY <1>1, <1>3, GrownFields
<1>5. p.load.run.len \in Nat  BY <1>1, PesFields
<1> DEFINE d == old.data
           e == g.data
<1>6. DataOn(arrived', q, d) /\ d \in Seq(1 .. n)
  <2>1. Longer(arrived, arrived')  BY ArrivedLonger
  <2>2. DataOn(arrived', q, d)  BY <1>3, <2>1, DataKept
  <2>3. d \in Seq(1 .. n)  BY <1>3 DEF DataOn
  <2> QED  BY <2>2, <2>3
<1>7. IsPes(p) /\ p.pid = q  OBVIOUS
<1> HIDE DEF p, g, old, d, e, q
<1>8. g.size \in Nat  BY <1>3, <1>4, <1>5
<1>9. CASE p.pusi
  <2>1. e = <<n + 1>> /\ n + 1 \in 1 .. n + 1  BY <1>1, <1>4, <1>9 DEF e
  <2>2. e \in Seq(1 .. n + 1) /\ Len(e) = 1 /\ e[1] = n + 1 /\ e # <<>>  BY <2>1
  <2>3. \A i \in 1 .. Len(e) : i = 1  BY <2>2
  <2>4. DataOn(arrived', q, e)  BY <1>1, <1>7, <2>2, <2>3 DEF DataOn
  <2> QED  BY <1>4, <1>8, <1>9, <2>2, <2>4, <1>6, FirstOf, <1>1 DEF p, g, old, q, n, e, d
<1>10. CASE ~p.pusi
  <2>1. e = Append(d, n + 1)  BY <1>4, <1>10 DEF e, d
  <2>2. d \in Seq(1 .. n + 1)  BY <1>1, <1>6 DEF DataOn
  <2>3. n + 1 \in 1 .. n + 1  BY <1>1
  <2>4. /\ e \in Seq(1 .. n + 1) /\ Len(e) = Len(d) + 1 /\ e[Len(d) + 1] = n + 1
        /\ \A i \in 1 .. Len(d) : e[i] = d[i]
    BY <2>1, <2>2, <2>3, AppendProperties
  <2>5. Len(d) \in Nat /\ (d = <<>> <=> Len(d) = 0)  BY <2>2
  <2>6. e # <<>> /\ e[1] = IF d = <<>> THEN n + 1 ELSE d[1]
    <3>1. e # <<>>  BY <2>4, <2>5
    <3>2. CASE d = <<>>  BY <2>4, <2>5, <3>1, <3>2
    <3>3. CASE d # <<>>
      <4>1. 1 \in 1 .. Len(d)  BY <2>5, <3>3
      <4> QED  BY <2>4, <3>1, <3>3, <4>1
    <3> QED  BY <3>2, <3>3
  <2>7. DataOn(arrived', q, e)
    <3>1. ASSUME NEW i \in 1 .. Len(e) PROVE IsPes(arrived'[e[i]]) /\ arrived'[e[i]].pid = q
      <4>1. i \in 1 .. Len(d) \/ i = Len(d) + 1  BY <2>4, <2>5
      <4>2. CASE i \in 1 .. Len(d)
        <5>1. e[i] = d[i]  BY <2>4, <4>2
        <5>2. IsPes(arrived'[d[i]]) /\ arrived'[d[i]].pid = q  BY <1>6, <4>2 DEF DataOn
        <5> QED  BY <5>1, <5>2
      <4>3. CASE i = Len(d) + 1  BY <1>1, <1>7, <2>4, <4>3
      <4> QED  BY <4>1, <4>2, <4>3
    <3> QED  BY <1>1, <2>4, <3>1 DEF DataOn
  <2>8. d # <<>> => d[1] \in 1 .. n  BY <1>1, <1>6, FirstOf
  <2> QED  BY <1>4, <1>8, <1>10, <2>6, <2>7, <2>8 DEF p, g, old, q, n, e, d
<1> QED  BY <1>9, <1>10

LEMMA OrderStored ==
    ASSUME CarriedInv, CountedInv, OrderInv, NEW w, Reception(w),
           IsPes(wire[w]), wire[w].pid \in DOMAIN mEsFrames, Stored(wire[w])
    PROVE  OrderInv'
PROOF
<1> DEFINE p   == wire[w]
           q   == p.pid
           g   == GrownBy(p)
           old == OldOf(p)
           n   == Len(arrived)
           N   == Len(events)
<1>1. Longer(arrived, arrived') /\ Longer(received, received') /\ Len(received) = Len(arrived)
  BY ArrivedLonger
<1>2. /\ Lands(p, Outcome(p)) /\ ListInv /\ ListInv'
      /\ N \in Nat /\ DOMAIN events = 1 .. N
      /\ n \in Nat /\ Len(arrived') = n + 1 /\ arrived'[n + 1] = p
      /\ p \in Packet /\ Made(p)
  <2>1. Lands(p, Outcome(p)) /\ ListInv /\ ListInv'  BY DEF Stored, OrderInv, Lands
  <2>2. N \in Nat /\ DOMAIN events = 1 .. N  BY <2>1 DEF ListInv
  <2> QED  BY <2>1, <2>2, Grows
<1>3. /\ Longer(events, events')
      /\ \A k, l \in DOMAIN events' :
            /\ k \notin 1 .. N /\ events'[k].kind = "es"
            /\ l \notin 1 .. N /\ events'[l].kind = "es"
            /\ k < l
            => Cuts(p) /\ events'[k] = CutEvent(p) /\ Fills(p) /\ events'[l] = FullEvent(p)
  BY <1>2, NewEvents
<1>4. PICK m \in Nat :
        /\ N + m <= Len(events')
        /\ Alarm(p) => \E c \in N + 1 .. N + m : CcEvent(events'[c], p.pid, n + 1)
        /\ \A k \in DOMAIN events' : k \notin 1 .. N /\ events'[k].kind = "es" =>
              Fresher(p, k) /\ N + m < k
  BY <1>2, NewEvents
<1>5. /\ FrameOk(arrived, received, events, q, old) /\ Since(events, q, old)
      /\ q \in DOMAIN mEsFrames
  BY DEF OrderInv, OldOf
<1>6. /\ IsFrame(g) /\ g.size \in Nat /\ g.data # <<>> /\ DataOn(arrived', q, g.data)
      /\ g.data[1] = IF p.pusi \/ old.data = <<>> THEN n + 1 ELSE old.data[1]
      /\ ~p.pusi => g.expPes = old.expPes /\ g.expPayload = old.expPayload
      /\ old.data # <<>> => old.data[1] \in 1 .. n
  BY GrownData
<1>7. Again(received', n + 1) => Alarm(p)  BY AgainAlarm
<1>8. /\ CutEvent(p).kind = "es" /\ CutEvent(p).pid = q /\ CutEvent(p).frame = old
      /\ CutEvent(p).upto = n
      /\ FullEvent(p).kind = "es" /\ FullEvent(p).pid = q /\ FullEvent(p).frame = g
      /\ FullEvent(p).upto = n + 1
      /\ Cuts(p) => p.pusi /\ old.data # <<>>
  BY DEF CutEvent, FullEvent, Completed, D!Deliver, Cuts
<1>9. mEsFrames' = [mEsFrames EXCEPT ![q] = IF Fills(p) THEN D!EsFrame(g.type) ELSE g]
  BY DEF Stored
<1>10. p.pusi => StartAt(arrived', q, n + 1)
  <2>1. hasPayload(p.afc) /\ ~D!Ignored(p)  BY <1>2, PesFields
  <2>2. D!Heard(p)  BY <2>1, DemuxNumbers DEF D!Heard
  <2> QED  BY <1>2, <2>2 DEF StartAt
<1> HIDE DEF p, g, old, n, N, q
<1>11. ASSUME NEW k \in EsOf(events, q)
       PROVE  /\ events[k].frame.data[1] \in 1 .. n /\ events[k].frame.data[1] < g.data[1]
              /\ old.data # <<>> => events[k].frame.data[1] < old.data[1]
  <2>1. k \in DOMAIN events /\ events[k].kind = "es" /\ events[k].pid = q  BY DEF EsOf
  <2>2. EventOk(arrived, received, events, k)  BY <2>1 DEF OrderInv
  <2>3. events[k].frame.data \in Seq(1 .. n) /\ events[k].frame.data # <<>>
    BY <2>2 DEF EventOk, DataOn, n
  <2>4. events[k].frame.data[1] \in 1 .. n  BY <1>2, <2>3, FirstOf
  <2>5. old.data # <<>> => events[k].frame.data[1] < old.data[1]  BY <1>5 DEF Since
  <2> QED  BY <1>2, <1>6, <2>4, <2>5
<1>12. ASSUME old.data # <<>>, Again(received', old.data[1]), NEW l \in Nat, N <= l
       PROVE  Cried(events', l, old.data[1])
  <2>1. old.data[1] \in 1 .. Len(received)  BY <1>1, <1>6, <1>12 DEF n
  <2>2. Again(received, old.data[1])  BY <1>1, <1>12, <2>1, AgainKept
  <2>3. Cried(events, N, old.data[1])  BY <1>5, <1>12, <2>2 DEF FrameOk, N
  <2>4. N <= Len(events)  BY <1>2 DEF N
  <2> QED  BY <1>2, <1>3, <1>12, <2>3, <2>4, CriedKept
<1>13. ASSUME Again(received', g.data[1]), NEW l \in Nat, N + m <= l
       PROVE  Cried(events', l, g.data[1])
  <2>1. CASE p.pusi \/ old.data = <<>>
    <3>1. g.data[1] = n + 1  BY <1>6, <2>1
    <3>2. PICK c \in N + 1 .. N + m : CcEvent(events'[c], p.pid, n + 1)
      BY <1>4, <1>7, <1>13, <3>1
    <3>3. c \in 1 .. l  BY <1>2, <1>13
    <3> QED  BY <3>1, <3>2, <3>3 DEF Cried, CcEvent
  <2>2. CASE ~(p.pusi \/ old.data = <<>>)
    <3>1. g.data[1] = old.data[1] /\ old.data # <<>>  BY <1>6, <2>2
    <3>2. N <= l  BY <1>2, <1>13
    <3> QED  BY <1>12, <1>13, <3>1, <3>2
  <2> QED  BY <2>1, <2>2
<1>14. ASSUME NEW k \in DOMAIN events', k \notin 1 .. N, events'[k].kind = "es"
       PROVE  /\ events'[k].pid = q /\ k \in Nat /\ N + m < k /\ N + m <= k - 1 /\ k - 1 \in Nat
              /\ \/ Cuts(p) /\ events'[k] = CutEvent(p)
                 \/ Fills(p) /\ events'[k] = FullEvent(p)
  <2>1. Fresher(p, k) /\ N + m < k  BY <1>4, <1>14
  <2>2. k \in Nat  BY <1>3 DEF Longer
  <2>3. N + m <= k - 1 /\ k - 1 \in Nat  BY <1>2, <2>1, <2>2
  <2> QED  BY <1>8, <2>1, <2>2, <2>3 DEF Fresher
<1>15. ASSUME NEW k \in DOMAIN events', events'[k].kind = "es"
       PROVE  EventOk(arrived', received', events', k)
  <2>1. CASE k \in 1 .. N
    <3>1. events'[k] = events[k] /\ k \in 1 .. Len(events) /\ k \in DOMAIN events
      BY <1>3, <2>1 DEF Longer, N
    <3>2. EventOk(arrived, received, events, k)  BY <1>15, <3>1 DEF OrderInv
    <3> QED  BY <1>1, <1>3, <3>1, <3>2, EventOkKept
  <2>2. CASE k \notin 1 .. N /\ Cuts(p) /\ events'[k] = CutEvent(p)
    <3>1. N + m <= k - 1 /\ k - 1 \in Nat  BY <1>14, <1>15, <2>2
    <3>2. /\ events'[k].frame.data = old.data /\ events'[k].pid = q /\ events'[k].upto = n
          /\ old.data # <<>>
      BY <1>8, <2>2
    <3>3. DataOn(arrived', q, old.data)  BY <1>1, <1>5, DataKept DEF FrameOk
    <3>4. N <= k - 1  BY <1>2, <3>1
    <3>5. Again(received', old.data[1]) => Cried(events', k - 1, old.data[1])
      BY <1>12, <3>1, <3>2, <3>4
    <3>6. n \in 0 .. Len(arrived')  BY <1>2
    <3> QED  BY <3>2, <3>3, <3>5, <3>6 DEF EventOk
  <2>3. CASE k \notin 1 .. N /\ Fills(p) /\ events'[k] = FullEvent(p)
    <3>1. N + m <= k - 1 /\ k - 1 \in Nat  BY <1>14, <1>15, <2>3
    <3>2. events'[k].frame.data = g.data /\ events'[k].pid = q /\ events'[k].upto = n + 1
      BY <1>8, <2>3
    <3>5. Again(received', g.data[1]) => Cried(events', k - 1, g.data[1])  BY <1>13, <3>1
    <3>6. n + 1 \in 0 .. Len(arrived')  BY <1>2
    <3> QED  BY <1>6, <3>2, <3>5, <3>6 DEF EventOk
  <2> QED  BY <1>14, <1>15, <2>1, <2>2, <2>3
<1>16. InSequence(events')
  <2> SUFFICES ASSUME NEW x, NEW k \in EsOf(events', x), NEW l \in EsOf(events', x), k < l
               PROVE  events'[k].frame.data[1] < events'[l].frame.data[1]
    BY DEF InSequence
  <2>1. /\ k \in DOMAIN events' /\ events'[k].kind = "es" /\ events'[k].pid = x
        /\ l \in DOMAIN events' /\ events'[l].kind = "es" /\ events'[l].pid = x
    BY DEF EsOf
  <2>2. \A i \in 1 .. N : events'[i] = events[i] /\ i \in DOMAIN events
    BY <1>2, <1>3 DEF Longer, N
  <2>3. CASE k \in 1 .. N /\ l \in 1 .. N
    <3>1. k \in EsOf(events, x) /\ l \in EsOf(events, x)  BY <2>1, <2>2, <2>3 DEF EsOf
    <3>2. events[k].frame.data[1] < events[l].frame.data[1]  BY <3>1 DEF OrderInv, InSequence
    <3> QED  BY <2>2, <2>3, <3>2
  <2>4. CASE k \in 1 .. N /\ l \notin 1 .. N
    <3>1. x = q  BY <1>14, <2>1, <2>4
    <3>2. k \in EsOf(events, q) /\ events'[k] = events[k]  BY <2>1, <2>2, <2>4, <3>1 DEF EsOf
    <3>3. /\ events[k].frame.data[1] < g.data[1]
          /\ old.data # <<>> => events[k].frame.data[1] < old.data[1]
      BY <1>11, <3>2
    <3>4. \/ old.data # <<>> /\ events'[l].frame = old
          \/ events'[l].frame = g
      BY <1>8, <1>14, <2>1, <2>4
    <3> QED  BY <3>2, <3>3, <3>4
  <2>5. CASE k \notin 1 .. N /\ l \notin 1 .. N
    <3>1. Cuts(p) /\ events'[k] = CutEvent(p) /\ Fills(p) /\ events'[l] = FullEvent(p)
      BY <1>3, <2>1, <2>5
    <3>2. p.pusi /\ old.data # <<>> /\ events'[k].frame = old /\ events'[l].frame = g
      BY <1>8, <3>1
    <3>3. old.data[1] \in 1 .. n /\ g.data[1] = n + 1  BY <1>6, <3>2
    <3> QED  BY <1>2, <3>2, <3>3
  <2>6. ~(k \notin 1 .. N /\ l \in 1 .. N)
    <3> SUFFICES ASSUME k \notin 1 .. N, l \in 1 .. N PROVE FALSE  OBVIOUS
    <3>1. N + m < k /\ k \in Nat  BY <1>14, <2>1
    <3> QED  BY <1>2, <3>1
  <2> QED  BY <2>3, <2>4, <2>5, <2>6
<1>17. ASSUME NEW x \in DOMAIN mEsFrames'
       PROVE  /\ FrameOk(arrived', received', events', x, mEsFrames'[x])
              /\ Since(events', x, mEsFrames'[x])
  <2>1. CASE x # q
    <3>1. x \in DOMAIN mEsFrames /\ mEsFrames'[x] = mEsFrames[x]  BY <1>9, <2>1
    <3>2. FrameOk(arrived, received, events, x, mEsFrames[x]) /\ Since(events, x, mEsFrames[x])
      BY <3>1 DEF OrderInv
    <3>3. FrameOk(arrived', received', events', x, mEsFrames[x])
      BY <1>1, <1>3, <3>2, FrameOkKept
    <3>4. \A k \in DOMAIN events' : k \notin 1 .. Len(events) /\ events'[k].kind = "es" =>
             events'[k].pid # x
      BY <1>14, <2>1 DEF N
    <3>5. Since(events', x, mEsFrames[x])  BY <1>3, <3>2, <3>4, SinceKept
    <3> QED  BY <3>1, <3>3, <3>5
  <2>2. CASE x = q /\ Fills(p)
    <3>1. mEsFrames'[x] = D!EsFrame(g.type)  BY <1>5, <1>9, <2>2
    <3> QED  BY <3>1, FreshFrameOk
  <2>3. CASE x = q /\ ~Fills(p)
    <3>1. mEsFrames'[x] = g  BY <1>5, <1>9, <2>3
    <3>2. Since(events', q, g)
      <4> SUFFICES ASSUME NEW k \in EsOf(events', q) PROVE events'[k].frame.data[1] < g.data[1]
        BY DEF Since
      <4>1. k \in DOMAIN events' /\ events'[k].kind = "es" /\ events'[k].pid = q  BY DEF EsOf
      <4>2. CASE k \in 1 .. N
        <5>1. events'[k] = events[k] /\ k \in EsOf(events, q)
          BY <1>2, <1>3, <4>1, <4>2 DEF Longer, N, EsOf
        <5> QED  BY <1>11, <5>1
      <4>3. CASE k \notin 1 .. N
        <5>1. Cuts(p) /\ events'[k] = CutEvent(p)  BY <1>14, <2>3, <4>1, <4>3
        <5>2. p.pusi /\ old.data # <<>> /\ events'[k].frame = old  BY <1>8, <5>1
        <5>3. old.data[1] \in 1 .. n /\ g.data[1] = n + 1  BY <1>6, <5>2
        <5> QED  BY <1>2, <5>2, <5>3
      <4> QED  BY <4>2, <4>3
    <3>3. Again(received', g.data[1]) => Cried(events', Len(events'), g.data[1])
      <4>1. CASE Again(received', g.data[1])
        <5>1. Len(events') \in Nat  BY <1>3 DEF Longer
        <5> QED  BY <1>4, <1>13, <4>1, <5>1
      <4> QED  BY <4>1
    <3>4. NoStart(arrived', q, Len(arrived')) => g.expPes = 0 /\ g.expPayload = 0
      <4> SUFFICES ASSUME NoStart(arrived', q, n + 1) PROVE g.expPes = 0 /\ g.expPayload = 0
        BY <1>2
      <4>1. n + 1 \in 1 .. n + 1  BY <1>2
      <4>2. ~p.pusi  BY <1>10, <4>1 DEF NoStart
      <4>3. NoStart(arrived, q, n)
        <5>1. \A i \in 1 .. n : i \in 1 .. n + 1 /\ arrived'[i] = arrived[i]
          BY <1>1, <1>2 DEF Longer, n
        <5> QED  BY <5>1 DEF NoStart, StartAt
      <4>4. old.expPes = 0 /\ old.expPayload = 0  BY <1>5, <4>3 DEF FrameOk, n
      <4> QED  BY <1>6, <4>2, <4>4
    <3> QED  BY <1>6, <2>3, <3>1, <3>2, <3>3, <3>4 DEF FrameOk
  <2> QED  BY <2>1, <2>2, <2>3
<1> QED  BY <1>2, <1>15, <1>16, <1>17 DEF OrderInv
LossInv == CarriedInv /\ TunedInv /\ CountedInv /\ OrderInv

LEMMA LossStart == LinkInit => LossInv
PROOF
<1> SUFFICES ASSUME LinkInit PROVE LossInv  OBVIOUS
<1>1. CarriedInv  BY CarriedStart
<1>2. /\ mPmtId = 0 /\ mInfos = <<>> /\ DOMAIN mEsFrames = {}
      /\ arrived = <<>> /\ events = <<>>
  BY DEF LinkInit, D!Init
<1>3. TunedInv  BY <1>2 DEF TunedInv
<1>4. CountedInv  BY <1>2 DEF CountedInv
<1>5. OrderInv  BY <1>2 DEF OrderInv, ListInv, InSequence, EsOf
<1> QED  BY <1>1, <1>3, <1>4, <1>5 DEF LossInv

LEMMA LossNext == LossInv /\ [LinkNext]_linkVars => LossInv'
PROOF
<1> SUFFICES ASSUME LossInv, [LinkNext]_linkVars PROVE LossInv'  OBVIOUS
<1>1. CarriedInv /\ TunedInv /\ CountedInv /\ OrderInv /\ CarriedInv' /\ ListInv
  BY CarriedNext DEF LossInv, OrderInv
<1>2. CASE NoneTaken
  <2>1. /\ mPmtId' = mPmtId /\ mInfos' = mInfos /\ mEsFrames' = mEsFrames /\ mCCs' = mCCs
        /\ arrived' = arrived /\ events' = events /\ received' = received
    BY <1>2 DEF NoneTaken, demuxVars
  <2>2. TunedInv'  BY <1>1, <2>1 DEF TunedInv, Tuned
  <2>3. CountedInv'  BY <1>1, <2>1 DEF CountedInv
  <2>4. OrderInv'
    <3>1. ListInv'  BY <1>1, <2>1 DEF ListInv
    <3> QED  BY <1>1, <2>1, <3>1 DEF OrderInv
  <2> QED  BY <1>1, <2>2, <2>3, <2>4 DEF LossInv
<1>3. ASSUME NEW w \in Nat, Reception(w) PROVE LossInv'
  <2>1. /\ TunedInv'
        /\ \/ Untouched(wire[w])
           \/ /\ IsPes(wire[w]) /\ wire[w].pid \in DOMAIN mEsFrames
              /\ Tuned /\ Stored(wire[w])
    BY <1>1, <1>3, Receives
  <2>2. \E es : Lands(wire[w], es)  BY <2>1 DEF Untouched, Stored
  <2>3. CountedInv'  BY <1>1, <1>3, <2>2, CountedNext
  <2>4. OrderInv'  BY <1>1, <1>3, <2>1, OrderUntouched, OrderStored
  <2> QED  BY <1>1, <2>1, <2>3, <2>4 DEF LossInv
<1> QED  BY <1>1, <1>2, <1>3, StepKinds

LEMMA LossAlways == LinkSpec => []LossInv
BY LossStart, LossNext, PTL DEF LinkSpec

(***************************************************************************)
(* Whatever the network loses or repeats, whole frames of one caller come  *)
(* out in the order they went in; one that comes out again does so with a  *)
(* continuity error at its start.                                          *)
(***************************************************************************)
THEOREM GenuineAlwaysInOrder == LinkSpec => []GenuineInOrder
PROOF
<1>1. LossInv => GenuineInOrder
  <2> SUFFICES ASSUME LossInv, NEW q \in EncodedPids, NEW i \in D!EsOn(q), NEW j \in D!EsOn(q),
                      i < j, Genuine(events[i]), Genuine(events[j]),
                      Runs(events[i])[1].frame.src = Runs(events[j])[1].frame.src
               PROVE  LET before == Runs(events[i])[1].frame
                          after  == Runs(events[j])[1].frame
                      IN  \/ before.no < after.no
                          \/ /\ before = after
                             /\ \E c \in 1 .. j - 1 : /\ events[c].kind = "cc"
                                                      /\ events[c].at = events[j].frame.data[1]
    BY DEF GenuineInOrder
  <2> DEFINE n == Len(arrived)
             x == events[i].frame.data[1]
             y == events[j].frame.data[1]
  <2>1. CarriedInv /\ OrderInv  BY DEF LossInv
  <2>2. \A k \in D!EsOn(q) : k \in DOMAIN events /\ events[k].kind = "es" /\ events[k].pid = q
    BY DEF D!EsOn
  <2>3. ASSUME NEW k \in D!EsOn(q)
        PROVE  LET d == events[k].frame.data
               IN  /\ d[1] \in 1 .. n /\ IsPes(arrived[d[1]]) /\ arrived[d[1]].pid = q
                   /\ Runs(events[k])[1] = arrived[d[1]].load.run
                   /\ Again(received, d[1]) => Cried(events, k - 1, d[1])
    <3> DEFINE d == events[k].frame.data
    <3>1. EventOk(arrived, received, events, k)  BY <2>1, <2>2 DEF OrderInv
    <3>2. /\ d \in Seq(1 .. n) /\ d # <<>>
          /\ \A z \in 1 .. Len(d) : IsPes(arrived[d[z]]) /\ arrived[d[z]].pid = q
          /\ Again(received, d[1]) => Cried(events, k - 1, d[1])
      BY <2>2, <3>1 DEF EventOk, DataOn
    <3>3. Runs(events[k]) = [z \in DOMAIN d |-> arrived[d[z]].load.run]  BY DEF Runs
    <3> HIDE DEF d, n
    <3>4. n \in Nat  BY <2>1, CarriedTypes DEF n
    <3>5. 1 \in 1 .. Len(d) /\ d[1] \in 1 .. n  BY <3>2, <3>4, FirstOf
    <3>6. 1 \in DOMAIN d  BY <3>2, <3>5
    <3> QED  BY <3>2, <3>3, <3>5, <3>6 DEF d
  <2>4. /\ x \in 1 .. n /\ IsPes(arrived[x]) /\ Runs(events[i])[1] = arrived[x].load.run
        /\ y \in 1 .. n /\ IsPes(arrived[y]) /\ Runs(events[j])[1] = arrived[y].load.run
        /\ Again(received, y) => Cried(events, j - 1, y)
    BY <2>3
  <2>5. x < y
    <3>1. i \in EsOf(events, q) /\ j \in EsOf(events, q)  BY <2>2 DEF EsOf
    <3> QED  BY <2>1, <3>1 DEF OrderInv, InSequence
  <2> HIDE DEF x, y
  <2>6. /\ arrived[x] = wire[received[x]] /\ arrived[y] = wire[received[y]]
        /\ received[x] \in 1 .. Len(wire) /\ received[y] \in 1 .. Len(wire)
        /\ arrived[y] \in Packet /\ Made(arrived[y]) /\ Len(wire) \in Nat
        /\ DOMAIN received = 1 .. n /\ n \in Nat
    BY <2>1, <2>4, CarriedTypes DEF CarriedInv, ReceivedInv
  <2>7. arrived[y].pusi
    <3>1. Runs(events[j])[1].from = 0  BY DEF Genuine, WholeFrame
    <3> QED  BY <2>4, <2>6, <3>1, PesFields
  <2>8. received[x] <= received[y - 1] /\ received[y - 1] <= received[y] /\ y - 1 \in 1 .. n
    <3>1. y - 1 \in 1 .. n /\ x <= y - 1 /\ y - 1 <= y  BY <2>4, <2>5, <2>6
    <3> QED  BY <2>1, <2>4, <3>1 DEF CarriedInv, ReceivedInv
  <2>9. received[y - 1] \in 1 .. Len(wire)  BY <2>1, <2>8, CarriedTypes
  <2>10. CASE received[x] < received[y]
    <3>1. FrameOf(wire[received[x]]).no < FrameOf(wire[received[y]]).no
      <4>1. /\ MuxInv /\ TurnInv /\ IsPes(wire[received[x]]) /\ IsPes(wire[received[y]])
            /\ wire[received[y]].pusi
            /\ FrameOf(wire[received[x]]).src = FrameOf(wire[received[y]]).src
        BY <2>1, <2>4, <2>6, <2>7 DEF CarriedInv, FrameOf
      <4> QED  BY <2>6, <2>10, <4>1, WireInTurn
    <3> QED  BY <2>4, <2>6, <3>1 DEF FrameOf
  <2>11. CASE received[x] = received[y]
    <3>1. received[y - 1] = received[y]  BY <2>6, <2>8, <2>9, <2>11
    <3>2. Again(received, y)  BY <2>6, <2>8, <3>1 DEF Again
    <3>3. \E c \in 1 .. j - 1 : events[c].kind = "cc" /\ events[c].at = y
      BY <2>4, <3>2 DEF Cried
    <3>4. Runs(events[i])[1].frame = Runs(events[j])[1].frame  BY <2>4, <2>6, <2>11
    <3> QED  BY <3>3, <3>4 DEF y
  <2>12. received[x] < received[y] \/ received[x] = received[y]  BY <2>6, <2>8, <2>9
  <2> QED  BY <2>10, <2>11, <2>12
<1> QED  BY <1>1, LossAlways, PTL
-----------------------------------------------------------------------------
(***************************************************************************)
(* Loss is noticed. The counters on a PID that carries only frames count   *)
(* its packets, so when the next packet has the next counter, fewer than   *)
(* 16 lost means none lost.                                                *)
(***************************************************************************)
OnPid(q, i, j) == {m \in i .. j : wire[m].pid = q}

LEMMA OnPidMore ==
    ASSUME NEW q, NEW i \in Nat, NEW x \in Nat, i <= x
    PROVE  /\ IsFiniteSet(OnPid(q, i + 1, x)) /\ Cardinality(OnPid(q, i + 1, x)) \in Nat
           /\ wire[x + 1].pid # q => OnPid(q, i + 1, x + 1) = OnPid(q, i + 1, x)
           /\ wire[x + 1].pid = q =>
                 Cardinality(OnPid(q, i + 1, x + 1)) = Cardinality(OnPid(q, i + 1, x)) + 1
PROOF
<1> DEFINE O == OnPid(q, i + 1, x)
<1>1. IsFiniteSet(O) /\ Cardinality(O) \in Nat
  <2>1. IsFiniteSet(i + 1 .. x)  BY FS_Interval
  <2>2. O \subseteq i + 1 .. x  BY DEF OnPid
  <2> QED  BY <2>1, <2>2, FS_Subset, FS_CardinalityType
<1>2. i + 1 .. x + 1 = (i + 1 .. x) \cup {x + 1}  OBVIOUS
<1>3. wire[x + 1].pid # q => OnPid(q, i + 1, x + 1) = O  BY <1>2 DEF OnPid
<1>4. ASSUME wire[x + 1].pid = q PROVE Cardinality(OnPid(q, i + 1, x + 1)) = Cardinality(O) + 1
  <2>1. OnPid(q, i + 1, x + 1) = O \cup {x + 1}  BY <1>2, <1>4 DEF OnPid
  <2>2. x + 1 \notin O  BY DEF OnPid
  <2> QED  BY <1>1, <2>1, <2>2, FS_AddElement
<1> QED  BY <1>1, <1>3, <1>4

LEMMA NextOfSum == \A c, k \in Nat : NextCc((c + k) % 16) = (c + (k + 1)) % 16
PROOF
<1>1. \A m \in Nat : ((m % 16) + 1) % 16 = (m + 1) % 16  OBVIOUS
<1>2. \A c, k \in Nat : c + k \in Nat /\ (c + k) + 1 = c + (k + 1)  OBVIOUS
<1> QED  BY <1>1, <1>2 DEF NextCc, CcModulus

LEMMA CcCounts ==
    ASSUME PcrOutOfBand, CarriedInv, CcContinuity, NEW q \in EncodedPids,
           NEW i \in 1 .. Len(wire), wire[i].pid = q
    PROVE  \A x \in Nat : i <= x /\ x <= Len(wire) =>
              \E l \in i .. x : /\ LastOn(wire, q, l, x)
                                /\ wire[l].cc = (wire[i].cc + Cardinality(OnPid(q, i + 1, x))) % 16
PROOF
<1> DEFINE P(x) == x <= Len(wire) =>
                     \E l \in i .. x :
                        /\ LastOn(wire, q, l, x)
                        /\ wire[l].cc = (wire[i].cc + Cardinality(OnPid(q, i + 1, x))) % 16
           S == {x \in Nat : P(x)}
<1>1. /\ Len(wire) \in Nat /\ DOMAIN wire = 1 .. Len(wire)
      /\ \A j \in 1 .. Len(wire) : wire[j] \in Packet /\ Made(wire[j])
      /\ i \in Nat
  BY CarriedTypes
<1>2. \A j \in 1 .. Len(wire) : wire[j].cc \in 0 .. 15
  BY <1>1 DEF Packet, Cc, CcModulus
<1>3. P(i)
  <2>1. OnPid(q, i + 1, i) = {} /\ i + 1 .. i = {}  BY <1>1 DEF OnPid
  <2>2. Cardinality(OnPid(q, i + 1, i)) = 0  BY <2>1, FS_EmptySet
  <2>3. wire[i].cc = (wire[i].cc + 0) % 16
    <3>1. \A c \in 0 .. 15 : c = (c + 0) % 16  OBVIOUS
    <3> QED  BY <1>2, <3>1
  <2>4. i \in i .. i /\ LastOn(wire, q, i, i)  BY <1>1, <2>1 DEF LastOn
  <2> QED  BY <2>2, <2>3, <2>4
<1>4. ASSUME NEW x \in Nat, i <= x, P(x), x + 1 <= Len(wire) PROVE P(x + 1)
  <2> DEFINE k == Cardinality(OnPid(q, i + 1, x))
  <2>1. PICK l \in i .. x : /\ LastOn(wire, q, l, x)
                            /\ wire[l].cc = (wire[i].cc + k) % 16
    BY <1>1, <1>4
  <2>2. /\ k \in Nat
        /\ wire[x + 1].pid # q => OnPid(q, i + 1, x + 1) = OnPid(q, i + 1, x)
        /\ wire[x + 1].pid = q => Cardinality(OnPid(q, i + 1, x + 1)) = k + 1
    BY <1>1, <1>4, OnPidMore
  <2>3. CASE wire[x + 1].pid # q
    <3>1. l \in i .. x + 1  BY <1>1
    <3>2. \A j \in l + 1 .. x + 1 : j \in l + 1 .. x \/ j = x + 1  BY <1>1
    <3>3. LastOn(wire, q, l, x + 1)  BY <2>1, <2>3, <3>2 DEF LastOn
    <3> QED  BY <2>1, <2>2, <2>3, <3>1, <3>3
  <2>4. CASE wire[x + 1].pid = q
    <3>1. x + 1 \in i .. x + 1 /\ (x + 1) + 1 .. x + 1 = {} /\ x + 1 \in 1 .. Len(wire)
      BY <1>1, <1>4
    <3>2. LastOn(wire, q, x + 1, x + 1)  BY <2>4, <3>1 DEF LastOn
    <3>3. wire[x + 1].cc = NextCc(wire[l].cc)
      <4>1. l < x + 1 /\ l \in DOMAIN wire /\ x + 1 \in DOMAIN wire /\ l + 1 .. (x + 1) - 1 = l + 1 .. x
        BY <1>1, <1>4
      <4>2. Precedes(wire, l, x + 1)  BY <2>1, <2>4, <4>1 DEF Precedes, LastOn
      <4>3. q # MPEGTS_NULL_PACKET_PID
        BY Announced DEF MPEGTS_NULL_PACKET_PID
      <4>4. CcFollows(wire[l], wire[x + 1])  BY <2>4, <4>1, <4>2, <4>3 DEF CcContinuity
      <4>5. IsPes(wire[x + 1])  BY <2>4, <3>1, OnlyPes DEF CarriedInv
      <4>6. hasPayload(wire[x + 1].afc)  BY <1>1, <3>1, <4>5, PesFields
      <4> QED  BY <4>4, <4>6 DEF CcFollows
    <3>4. wire[x + 1].cc = (wire[i].cc + (k + 1)) % 16
      <4>1. wire[i].cc \in Nat  BY <1>2
      <4> HIDE DEF k
      <4> QED  BY <2>1, <2>2, <3>3, <4>1, NextOfSum
    <3> QED  BY <2>2, <2>4, <3>1, <3>2, <3>4
  <2> QED  BY <2>3, <2>4
<1>5. \A x \in Nat : i <= x /\ x \in S => x + 1 \in S
  <2> SUFFICES ASSUME NEW x \in Nat, i <= x, P(x), x + 1 <= Len(wire) PROVE P(x + 1)
    OBVIOUS
  <2> HIDE DEF P
  <2> QED  BY <1>4
<1>6. i \in S  BY <1>1, <1>3
<1>7. \A x \in Nat : i <= x => x \in S
  <2> HIDE DEF S
  <2> QED  BY <1>1, <1>5, <1>6, CountUp
<1> QED  BY <1>7

LEMMA NoneCounted == \A c \in 0 .. 15, k \in 0 .. 15 : (c + (k + 1)) % 16 = (c + 1) % 16 => k = 0
OBVIOUS

(* A packet of a frame without alarm is the next one on its PID.           *)
LEMMA Uninterrupted ==
    ASSUME PcrOutOfBand, CarriedInv, CountedInv, CcContinuity, FewLost',
           NEW w, Reception(w), IsPes(wire[w]), ~Alarm(wire[w]),
           NEW l \in 1 .. Len(arrived), LastOn(arrived, wire[w].pid, l, Len(arrived))
    PROVE  /\ received[l] < w
           /\ \A m \in received[l] + 1 .. w - 1 : wire[m].pid # wire[w].pid
PROOF
<1> DEFINE n == Len(arrived)
           p == wire[w]
           q == p.pid
           r == received[l]
<1>1. /\ n \in Nat /\ Len(arrived') = n + 1 /\ Len(received') = n + 1
      /\ arrived'[n + 1] = wire[w] /\ received'[n + 1] = w
      /\ \A i \in 1 .. n : arrived'[i] = arrived[i] /\ received'[i] = received[i]
      /\ wire[w] \in Packet /\ Made(wire[w]) /\ w \in 1 .. Len(wire)
      /\ arrived' \in Seq(Packet)
  BY Grows
<1>2. /\ r \in 1 .. Len(wire) /\ arrived[l] = wire[r] /\ r <= w /\ Len(wire) \in Nat
  BY CarriedTypes DEF CarriedInv, ReceivedInv, Reception
<1>3. q \in EncodedPids  BY <1>1, PesFields
<1>4. wire[r].pid = q  BY <1>2 DEF LastOn
<1>5. p.cc = NextCc(wire[r].cc)
  <2>1. IsPes(wire[r])  BY <1>2, <1>3, <1>4, OnlyPes DEF CarriedInv
  <2>2. q \in DOMAIN mCCs /\ mCCs[q] = wire[r].cc  BY <1>2, <1>3, <2>1 DEF CountedInv
  <2> QED  BY <2>2 DEF Alarm
<1>6. wire[r].cc \in 0 .. 15
  <2>1. wire[r] \in Packet  BY <1>2, CarriedTypes
  <2> QED  BY <2>1 DEF Packet, Cc, CcModulus
<1>7. r # w
  <2>1. \A c \in 0 .. 15 : c # (c + 1) % 16  OBVIOUS
  <2> QED  BY <1>5, <1>6, <2>1 DEF NextCc, CcModulus
<1>8. r < w  BY <1>1, <1>2, <1>7
<1> DEFINE lost == OnPid(q, r + 1, w - 1)
<1>9. IsFiniteSet(lost) /\ Cardinality(lost) \in Nat /\ Cardinality(lost) < 16
  <2>1. IsFiniteSet(lost) /\ Cardinality(lost) \in Nat
    <3>1. r \in Nat /\ w - 1 \in Nat /\ r <= w - 1  BY <1>1, <1>2, <1>8
    <3> QED  BY <3>1, OnPidMore
  <2>2. Precedes(arrived', l, n + 1)
    <3>1. l < n + 1 /\ (n + 1) - 1 = n /\ \A k \in l + 1 .. n : k \in 1 .. n  BY <1>1
    <3>2. \A k \in l + 1 .. n : arrived[k].pid # q  BY DEF LastOn
    <3>3. arrived'[l].pid = q  BY <1>1, <1>2, <1>4
    <3> QED  BY <1>1, <3>1, <3>2, <3>3 DEF Precedes
  <2>3. DOMAIN arrived' = 1 .. n + 1 /\ l \in 1 .. n + 1 /\ n + 1 \in 1 .. n + 1
    BY <1>1, LenProperties
  <2>4. wire' = wire  BY DEF Reception
  <2>5. Cardinality({m \in received'[l] + 1 .. received'[n + 1] - 1 :
                        wire'[m].pid = arrived'[n + 1].pid}) < CcModulus
    BY <2>2, <2>3 DEF FewLost
  <2>6. {m \in received'[l] + 1 .. received'[n + 1] - 1 : wire'[m].pid = arrived'[n + 1].pid} = lost
    BY <1>1, <2>4 DEF OnPid
  <2> QED  BY <2>1, <2>5, <2>6 DEF CcModulus
<1>10. Cardinality(lost) = 0
  <2>1. w \in Nat /\ r <= w /\ w <= Len(wire)  BY <1>1, <1>2
  <2>2. PICK x \in r .. w : /\ LastOn(wire, q, x, w)
                            /\ wire[x].cc = (wire[r].cc + Cardinality(OnPid(q, r + 1, w))) % 16
    BY <1>2, <1>3, <1>4, <2>1, CcCounts
  <2>3. x = w
    <3>1. x < w => w \in x + 1 .. w  BY <1>1, <1>2
    <3>2. ~(x < w)  BY <2>2, <3>1 DEF LastOn
    <3> QED  BY <1>1, <1>2, <3>2
  <2>4. Cardinality(OnPid(q, r + 1, w)) = Cardinality(lost) + 1
    <3>1. r \in Nat /\ w - 1 \in Nat /\ r <= w - 1 /\ (w - 1) + 1 = w  BY <1>1, <1>2, <1>8
    <3>2. wire[w].pid = q => Cardinality(OnPid(q, r + 1, (w - 1) + 1)) = Cardinality(lost) + 1
      <4> HIDE DEF q
      <4>1. wire[(w - 1) + 1] = wire[w]  BY <3>1
      <4> QED  BY <3>1, <4>1, OnPidMore
    <3> QED  BY <3>1, <3>2
  <2>5. (wire[r].cc + (Cardinality(lost) + 1)) % 16 = (wire[r].cc + 1) % 16
    BY <1>5, <2>2, <2>3, <2>4 DEF NextCc, CcModulus
  <2>6. Cardinality(lost) \in 0 .. 15  BY <1>9
  <2> HIDE DEF lost, r
  <2> QED  BY <1>6, <2>5, <2>6, NoneCounted
<1>11. lost = {}  BY <1>9, <1>10, FS_EmptySet
<1> QED  BY <1>8, <1>11 DEF OnPid
-----------------------------------------------------------------------------
(***************************************************************************)
(* What is known of a frame under construction as long as no continuity    *)
(* error was reported on its PID since its start packet: that it holds all *)
(* packets of one frame so far, or none at all and is at the end of one    *)
(* or has missed the rest. And what that means for frames that come out.   *)
(***************************************************************************)
CcSince(ev, m, q, s) == \E c \in 1 .. m : ev[c].kind = "cc" /\ ev[c].pid = q /\ ev[c].at > s
Known(a, r, q, f, l) ==
    IF f.data = <<>> THEN ~Mid(a[l]) \/ r[l] + 1 < r[Len(a)]
    ELSE /\ Held(a, Len(a), q, f.data) /\ f = Filling(a, f.type, f.data)
         /\ f.data[Len(f.data)] = l /\ (Mid(a[l]) \/ f.expPes = 0)
Knows(a, r, ev, q, f) ==
    \A s, l \in 1 .. Len(a) :
        /\ LastStart(a, q, Len(a), s) /\ LastOn(a, q, l, Len(a))
        /\ ~CcSince(ev, Len(ev), q, s)
        => Known(a, r, q, f, l)
Verdict(a, ev, k) ==
    \A s : LastStart(a, ev[k].pid, ev[k].upto, s) =>
        \/ GenuineIn(a, ev[k])
        \/ CcSince(ev, k - 1, ev[k].pid, s)
        \/ s = 0 /\ ev[k].completed

KnownInv ==
    \A q \in EncodedPids : q \in DOMAIN mEsFrames =>
        Knows(arrived, received, events, q, mEsFrames[q])
VerdictInv ==
    \A k \in DOMAIN events : events[k].kind = "es" => Verdict(arrived, events, k)
SoundInv == FewLost => KnownInv /\ VerdictInv

LEMMA CcSinceKept ==
    ASSUME NEW ev, NEW ew, Longer(ev, ew), NEW k \in Nat, k <= Len(ev), NEW l \in Nat, k <= l,
           NEW q, NEW s, CcSince(ev, k, q, s)
    PROVE  CcSince(ew, l, q, s)
PROOF
<1>1. PICK c \in 1 .. k : ev[c].kind = "cc" /\ ev[c].pid = q /\ ev[c].at > s  BY DEF CcSince
<1>2. c \in 1 .. l /\ c \in 1 .. Len(ev)  BY DEF Longer
<1>3. ew[c] = ev[c]  BY <1>2 DEF Longer
<1> QED  BY <1>1, <1>2, <1>3 DEF CcSince

LEMMA LastStartKept ==
    ASSUME NEW a, NEW b, Longer(a, b), NEW q, NEW n \in 0 .. Len(a), NEW s
    PROVE  LastStart(b, q, n, s) <=> LastStart(a, q, n, s)
PROOF
<1>1. ASSUME s \in 0 .. n
      PROVE  /\ s # 0 => b[s] = a[s]
             /\ \A i \in s + 1 .. n : b[i] = a[i]
  <2>1. n \in Nat /\ Len(a) \in Nat /\ n <= Len(a)  BY DEF Longer
  <2>2. s # 0 => s \in 1 .. Len(a)  BY <1>1, <2>1
  <2>3. \A i \in s + 1 .. n : i \in 1 .. Len(a)  BY <1>1, <2>1
  <2> QED  BY <2>2, <2>3 DEF Longer
<1> QED  BY <1>1 DEF LastStart, StartAt

LEMMA GenuineKept ==
    ASSUME NEW a, NEW b, Longer(a, b), NEW e, e.frame.data \in Seq(1 .. Len(a)), GenuineIn(a, e)
    PROVE  GenuineIn(b, e)
PROOF
<1> DEFINE d == e.frame.data
<1>1. \A i \in DOMAIN d : d[i] \in 1 .. Len(a)
  <2> HIDE DEF d
  <2>1. d \in Seq(1 .. Len(a))  BY DEF d
  <2> QED  BY <2>1
<1>2. \A i \in DOMAIN d : b[d[i]] = a[d[i]]  BY <1>1 DEF Longer
<1>3. RunsIn(b, e) = RunsIn(a, e)  BY <1>2 DEF RunsIn
<1> QED  BY <1>3 DEF GenuineIn

LEMMA VerdictKept ==
    ASSUME NEW a, NEW b, Longer(a, b), NEW ev, NEW ew, Longer(ev, ew),
           NEW k \in 1 .. Len(ev), Verdict(a, ev, k),
           ev[k].frame.data \in Seq(1 .. Len(a)), ev[k].upto \in 0 .. Len(a)
    PROVE  Verdict(b, ew, k)
PROOF
<1>1. ew[k] = ev[k] /\ k - 1 \in Nat /\ k - 1 <= Len(ev) /\ k - 1 <= k - 1  BY DEF Longer
<1> SUFFICES ASSUME NEW s, LastStart(b, ev[k].pid, ev[k].upto, s)
             PROVE  \/ GenuineIn(b, ev[k])
                    \/ CcSince(ew, k - 1, ev[k].pid, s)
                    \/ s = 0 /\ ev[k].completed
  BY <1>1 DEF Verdict
<1>2. LastStart(a, ev[k].pid, ev[k].upto, s)  BY LastStartKept
<1>3. CASE GenuineIn(a, ev[k])  BY <1>3, GenuineKept
<1>4. CASE CcSince(ev, k - 1, ev[k].pid, s)  BY <1>1, <1>4, CcSinceKept
<1>5. CASE s = 0 /\ ev[k].completed  BY <1>5
<1> QED  BY <1>2, <1>3, <1>4, <1>5 DEF Verdict

LEMMA FewLostBefore ==
    ASSUME CarriedInv, [LinkNext]_linkVars, FewLost'
    PROVE  FewLost
PROOF
<1>t. /\ Len(wire) \in Nat /\ Len(arrived) \in Nat /\ DOMAIN arrived = 1 .. Len(arrived)
      /\ \A i \in 1 .. Len(arrived) : received[i] \in 1 .. Len(wire)
  BY CarriedTypes
<1>w. \A m \in 1 .. Len(wire) : wire'[m] = wire[m]  BY StepKinds, WireGrows DEF CarriedInv
<1>a. DOMAIN arrived \subseteq DOMAIN arrived'
      /\ \A i \in DOMAIN arrived : arrived'[i] = arrived[i] /\ received'[i] = received[i]
  <2>1. CASE NoneTaken  BY <2>1 DEF NoneTaken, demuxVars
  <2>2. ASSUME NEW w \in Nat, Reception(w) PROVE <1>a!:
    <3>1. DOMAIN arrived' = 1 .. Len(arrived) + 1
      <4>1. Len(arrived') = Len(arrived) + 1 /\ arrived' \in Seq(Packet)  BY <2>2, Grows
      <4> QED  BY <4>1, LenProperties
    <3>2. \A i \in 1 .. Len(arrived) : arrived'[i] = arrived[i] /\ received'[i] = received[i]
      BY <2>2, Grows
    <3> QED  BY <1>t, <3>1, <3>2
  <2> QED  BY <2>1, <2>2, StepKinds
<1> SUFFICES ASSUME NEW i \in DOMAIN arrived, NEW j \in DOMAIN arrived, Precedes(arrived, i, j)
             PROVE  Cardinality({n \in received[i] + 1 .. received[j] - 1 :
                                    wire[n].pid = arrived[j].pid}) < CcModulus
  BY DEF FewLost
<1>1. Precedes(arrived', i, j)
  <2>1. \A k \in i + 1 .. j - 1 : k \in DOMAIN arrived  BY <1>t
  <2> QED  BY <1>a, <2>1 DEF Precedes
<1>2. Cardinality({n \in received'[i] + 1 .. received'[j] - 1 : wire'[n].pid = arrived'[j].pid})
         < CcModulus
  BY <1>1, <1>a DEF FewLost
<1>3. \A n \in received[i] + 1 .. received[j] - 1 : wire'[n] = wire[n]
  <2>1. received[i] \in 1 .. Len(wire) /\ received[j] \in 1 .. Len(wire)  BY <1>t
  <2>2. \A n \in received[i] + 1 .. received[j] - 1 : n \in 1 .. Len(wire)  BY <1>t, <2>1
  <2> QED  BY <1>w, <2>2
<1>4. {n \in received'[i] + 1 .. received'[j] - 1 : wire'[n].pid = arrived'[j].pid}
        = {n \in received[i] + 1 .. received[j] - 1 : wire[n].pid = arrived[j].pid}
  BY <1>3, <1>a
<1> QED  BY <1>2, <1>4

(* A frame that goes on is carried on by the next packet on the wire.      *)
LEMMA MidGoesOn ==
    ASSUME CarriedInv, NEW r \in 1 .. Len(wire), Mid(wire[r])
    PROVE  /\ r + 1 \in 1 .. Len(wire) /\ IsPes(wire[r + 1]) /\ ~wire[r + 1].pusi
           /\ wire[r + 1].pid = wire[r].pid
PROOF
<1>1. Len(wire) \in Nat /\ DOMAIN wire = 1 .. Len(wire)  BY CarriedTypes
<1>2. Rows(wire, {}) /\ MuxInv  BY DEF CarriedInv, MuxInv, RowInv
<1>3. IF r = Len(wire) THEN Cursor(wire[r]) \in {} ELSE IsPes(wire[r + 1]) /\ ~wire[r + 1].pusi
  BY <1>1, <1>2 DEF Rows
<1>4. r # Len(wire) /\ IsPes(wire[r + 1]) /\ ~wire[r + 1].pusi  BY <1>3
<1>5. r + 1 \in 1 .. Len(wire) /\ r \in Nat /\ r + 1 <= Len(wire)
  <2>1. \A a \in Nat : \A b \in 1 .. a : b # a => b + 1 \in 1 .. a /\ b \in Nat /\ b + 1 <= a
    OBVIOUS
  <2>2. Len(wire) \in Nat /\ r \in 1 .. Len(wire) /\ r # Len(wire)  BY <1>1, <1>4
  <2> QED  BY <2>1, <2>2
<1> QED  BY <1>2, <1>4, <1>5, CarriesOn

(* Packets on other PIDs change nothing of that.                           *)
LEMMA KnowsKept ==
    ASSUME CarriedInv, NEW w, Reception(w), NEW q, q # wire[w].pid, Longer(events, events'),
           NEW f, Knows(arrived, received, events, q, f)
    PROVE  Knows(arrived', received', events', q, f)
PROOF
<1> DEFINE n == Len(arrived)
<1>1. /\ n \in Nat /\ Len(arrived') = n + 1 /\ arrived'[n + 1] = wire[w] /\ received'[n + 1] = w
      /\ \A i \in 1 .. n : arrived'[i] = arrived[i] /\ received'[i] = received[i]
      /\ \A i \in 1 .. n : received[i] <= w /\ received[i] \in Nat
      /\ w \in Nat
  <2>1. \A i \in 1 .. n : received[i] <= w /\ received[i] \in Nat
    BY CarriedTypes DEF Reception
  <2> QED  BY <2>1, Grows
<1>2. Longer(arrived, arrived')  BY ArrivedLonger
<1> SUFFICES ASSUME NEW s \in 1 .. n + 1, NEW l \in 1 .. n + 1,
                    LastStart(arrived', q, n + 1, s), LastOn(arrived', q, l, n + 1),
                    ~CcSince(events', Len(events'), q, s)
             PROVE  Known(arrived', received', q, f, l)
  BY <1>1 DEF Knows
<1> HIDE DEF n
<1>3. s # n + 1 /\ l # n + 1  BY <1>1 DEF LastStart, LastOn, StartAt
<1>4. s \in 1 .. n /\ l \in 1 .. n /\ n \in 0 .. n  BY <1>1, <1>3
<1>5. LastStart(arrived, q, n, s)
  <2>1. LastStart(arrived', q, n, s)
    <3>1. \A i \in s + 1 .. n : i \in s + 1 .. n + 1  BY <1>1
    <3>2. s \in 0 .. n  BY <1>4
    <3> QED  BY <3>1, <3>2 DEF LastStart
  <2> QED  BY <1>2, <1>4, <2>1, LastStartKept DEF n
<1>6. LastOn(arrived, q, l, n)
  <2>1. \A i \in l + 1 .. n : i \in l + 1 .. n + 1 /\ i \in 1 .. n  BY <1>1, <1>4
  <2> QED  BY <1>1, <1>4, <2>1 DEF LastOn
<1>7. ~CcSince(events, Len(events), q, s)
  <2>1. /\ Len(events) \in Nat /\ Len(events') \in Nat
        /\ Len(events) <= Len(events) /\ Len(events) <= Len(events')
    BY DEF Longer
  <2> QED  BY <2>1, CcSinceKept
<1>8. Known(arrived, received, q, f, l)  BY <1>4, <1>5, <1>6, <1>7 DEF Knows, n
<1>9. arrived'[l] = arrived[l] /\ received'[l] = received[l]  BY <1>1, <1>4
<1>10. CASE f.data = <<>>
  <2>1. ~Mid(arrived[l]) \/ received[l] + 1 < received[n]  BY <1>8, <1>10 DEF Known, n
  <2>2. received[l] + 1 < received[n] => received[l] + 1 < w
    <3>1. n \in 1 .. n  BY <1>1, <1>4
    <3>2. received[n] <= w /\ received[n] \in Nat /\ received[l] \in Nat  BY <1>1, <1>4, <3>1
    <3> QED  BY <1>1, <3>2
  <2> QED  BY <1>1, <1>9, <1>10, <2>1, <2>2 DEF Known
<1>11. CASE f.data # <<>>
  <2>1. /\ Held(arrived, n, q, f.data) /\ f = Filling(arrived, f.type, f.data)
        /\ f.data[Len(f.data)] = l /\ (Mid(arrived[l]) \/ f.expPes = 0)
    BY <1>8, <1>11 DEF Known, n
  <2>2. Agree(arrived, arrived', n) /\ n <= n + 1 /\ n + 1 \in Nat  BY <1>1 DEF Agree
  <2>3. Held(arrived', n + 1, q, f.data) /\ \A type : Filling(arrived', type, f.data) = Filling(arrived, type, f.data)
    BY <1>1, <2>1, <2>2, HeldKept
  <2> QED  BY <1>1, <1>9, <1>11, <2>1, <2>3 DEF Known
<1> QED  BY <1>10, <1>11
(* There is a last packet on a PID that has a start packet.                *)
LEMMA LastOnIs ==
    ASSUME NEW a, NEW q, NEW n \in Nat, NEW s \in 1 .. n, LastStart(a, q, n, s)
    PROVE  \E l \in 1 .. n : LastOn(a, q, l, n)
PROOF
<1> DEFINE I == {i \in 1 .. n : a[i].pid = q}
<1>1. s \in I  BY DEF LastStart, StartAt
<1>2. I \subseteq 1 .. n /\ I # {}  BY <1>1
<1>3. PICK l \in I : \A y \in I : y <= l
  <2> HIDE DEF I
  <2> QED  BY <1>2, LastNumber
<1>4. l \in 1 .. n /\ a[l].pid = q  BY <1>3
<1>5. \A j \in l + 1 .. n : a[j].pid # q
  <2> SUFFICES ASSUME NEW j \in l + 1 .. n, a[j].pid = q PROVE FALSE  OBVIOUS
  <2>1. j \in I /\ ~(j <= l)  BY <1>4
  <2> QED  BY <1>3, <2>1
<1> QED  BY <1>4, <1>5 DEF LastOn

(* The packet of a frame that arrives extends what is known.               *)
LEMMA KnownExtends ==
    ASSUME PcrOutOfBand, CcContinuity, LossInv, KnownInv, FewLost', NEW w, Reception(w),
           IsPes(wire[w]), wire[w].pid \in DOMAIN mEsFrames,
           NEW s \in 1 .. Len(arrived) + 1,
           LastStart(arrived', wire[w].pid, Len(arrived) + 1, s),
           ~CcSince(events, Len(events), wire[w].pid, s),
           Alarm(wire[w]) => wire[w].pusi
    PROVE  Extends(arrived', Len(arrived), OldOf(wire[w]), GrownBy(wire[w]).data)
PROOF
<1> DEFINE n   == Len(arrived)
           p   == wire[w]
           q   == p.pid
           old == OldOf(p)
           g   == GrownBy(p)
<1>1. /\ n \in Nat /\ Len(arrived') = n + 1 /\ arrived'[n + 1] = p
      /\ \A i \in 1 .. n : arrived'[i] = arrived[i]
      /\ p \in Packet /\ Made(p) /\ w \in 1 .. Len(wire)
      /\ CarriedInv /\ CountedInv /\ OrderInv
  BY Grows DEF LossInv
<1>2. /\ IsFrame(old) /\ (old.data = <<>> => old = D!EsFrame(old.type))
  BY <1>1 DEF OrderInv, FrameOk, OldOf
<1>3. g.data = IF p.pusi THEN <<n + 1>> ELSE Append(old.data, n + 1)
  BY <1>1, <1>2, GrownFields
<1>4. CASE p.pusi
  <2>1. arrived'[n + 1].pusi /\ g.data = <<n + 1>>  BY <1>1, <1>3, <1>4
  <2> QED  BY <1>2, <2>1 DEF Extends
<1>5. CASE ~p.pusi
  <2>1. s # n + 1  BY <1>1, <1>5 DEF LastStart, StartAt
  <2>2. s \in 1 .. n /\ n \in 0 .. n  BY <1>1, <2>1
  <2>3. LastStart(arrived, q, n, s)
    <3>1. LastStart(arrived', q, n, s)
      <4>1. \A i \in s + 1 .. n : i \in s + 1 .. n + 1  BY <1>1
      <4>2. s \in 0 .. n  BY <2>2
      <4> QED  BY <4>1, <4>2 DEF LastStart
    <3>2. Longer(arrived, arrived')  BY <1>1, ArrivedLonger
    <3> QED  BY <2>2, <3>1, <3>2, LastStartKept
  <2>4. PICK l \in 1 .. n : LastOn(arrived, q, l, n)  BY <1>1, <2>2, <2>3, LastOnIs
  <2>5. q \in EncodedPids  BY <1>1, PesFields
  <2>6. Known(arrived, received, q, old, l)
    BY <2>2, <2>3, <2>4, <2>5 DEF KnownInv, Knows, OldOf
  <2>7. /\ received[l] < w /\ \A m \in received[l] + 1 .. w - 1 : wire[m].pid # q
    BY <1>1, <1>5, <2>4, Uninterrupted
  <2>8. /\ w - 1 \in 1 .. Len(wire) /\ Mid(wire[w - 1]) /\ wire[w - 1].pid = q
        /\ RunOf(w - 1).frame = RunOf(w).frame /\ EndOf(RunOf(w - 1)) = RunOf(w).from
    <3>1. w - 1 \in Nat /\ (w - 1) + 1 = w /\ w <= Len(wire) /\ MuxInv
      BY <1>1, CarriedTypes DEF CarriedInv
    <3> QED  BY <1>5, <3>1, CarriesOn
  <2>9. /\ received[l] \in Nat /\ arrived[l] = wire[received[l]] /\ w \in Nat
        /\ \A i \in 1 .. n : received[i] <= w /\ received[i] \in Nat
    BY <1>1, CarriedTypes DEF CarriedInv, ReceivedInv, Reception
  <2>10. received[l] = w - 1
    <3>1. ~(w - 1 \in received[l] + 1 .. w - 1)  BY <2>7, <2>8
    <3> QED  BY <2>7, <2>9, <3>1
  <2>11. Mid(arrived[l])  BY <2>8, <2>9, <2>10
  <2>12. old.data # <<>>
    <3> SUFFICES ASSUME old.data = <<>> PROVE FALSE  OBVIOUS
    <3>1. received[l] + 1 < received[n]  BY <2>6, <2>11 DEF Known
    <3>2. n \in 1 .. n  BY <1>1, <2>2
    <3> QED  BY <2>9, <2>10, <3>1, <3>2
  <2>13. /\ Held(arrived, n, q, old.data) /\ old = Filling(arrived, old.type, old.data)
         /\ old.data[Len(old.data)] = l
    BY <2>6, <2>12 DEF Known
  <2>14. /\ Held(arrived', n, q, old.data) /\ old = Filling(arrived', old.type, old.data)
    <3>1. Agree(arrived, arrived', n) /\ n <= n  BY <1>1 DEF Agree
    <3>2. Held(arrived', n, q, old.data)
          /\ \A type : Filling(arrived', type, old.data) = Filling(arrived, type, old.data)
      BY <1>1, <2>13, <3>1, HeldKept
    <3> QED  BY <2>13, <3>2
  <2>15. arrived'[l] = wire[w - 1]  BY <1>1, <2>9, <2>10
  <2>16. /\ arrived'[old.data[Len(old.data)]].load.run.frame = p.load.run.frame
         /\ EndOf(arrived'[old.data[Len(old.data)]].load.run) = p.load.run.from
    BY <2>8, <2>13, <2>15 DEF RunOf
  <2>17. ~arrived'[n + 1].pusi /\ g.data = Append(old.data, n + 1)  BY <1>1, <1>3, <1>5
  <2> HIDE DEF old, g, n
  <2>18. Extends(arrived', n, old, g.data)
    <3> DEFINE r == arrived'[n + 1]
    <3>1. r = p  BY <1>1
    <3>2. /\ ~r.pusi /\ Held(arrived', n, r.pid, old.data)
          /\ arrived'[old.data[Len(old.data)]].load.run.frame = r.load.run.frame
          /\ EndOf(arrived'[old.data[Len(old.data)]].load.run) = r.load.run.from
      BY <2>14, <2>16, <2>17, <3>1
    <3> QED  BY <2>14, <2>17, <3>2 DEF Extends
  <2> QED  BY <2>18 DEF old, g, n
<1> QED  BY <1>4, <1>5

LEMMA GrowsKnown ==
    ASSUME LossInv, LossInv', NEW w, Reception(w), Tuned,
           IsPes(wire[w]), wire[w].pid \in DOMAIN mEsFrames,
           Extends(arrived', Len(arrived), OldOf(wire[w]), GrownBy(wire[w]).data)
    PROVE  LET p == wire[w]
               g == GrownBy(p)
               n == Len(arrived)
           IN  /\ g.data # <<>> /\ g.data[Len(g.data)] = n + 1
               /\ Held(arrived', n + 1, p.pid, g.data) /\ g = Filling(arrived', g.type, g.data)
               /\ Fills(p) <=> ~Mid(p) /\ g.expPes # 0
               /\ Fills(p) => GenuineIn(arrived', FullEvent(p))
PROOF
<1> DEFINE n   == Len(arrived)
           p   == wire[w]
           q   == p.pid
           old == OldOf(p)
           g   == GrownBy(p)
           d   == g.data
           new == Filling(arrived', old.type, d)
<1>1. /\ n \in Nat /\ Len(arrived') = n + 1 /\ arrived'[n + 1] = p
      /\ \A i \in 1 .. n : arrived'[i] = arrived[i]
      /\ p \in Packet /\ Made(p)
      /\ CarriedInv /\ CarriedInv'
  BY Grows DEF LossInv
<1>2. PICK j \in 1 .. n : arrived[j].load.kind = "pmt"  BY DEF Tuned
<1>3. \E i \in 1 .. n : arrived'[i].load.kind = "pmt"  BY <1>1, <1>2
<1>4. Extends(arrived', n, old, d)  OBVIOUS
<1>5. g = Grown(IF p.pusi THEN D!Started(p, old) ELSE old, n + 1, p.load.run.len)
  BY DEF GrownBy
<1> HIDE DEF n, p, old, g, d
<1>6. /\ Grown(IF p.pusi THEN D!Started(p, old) ELSE old, n + 1, p.load.run.len) = new
      /\ new.expPayload = new.size <=> ~Mid(p) /\ new.expPes # 0
  <2> HIDE DEF new
  <2>1. IsPes(p)  BY DEF p
  <2>2. /\ arrived'[n + 1] \in Packet /\ Made(arrived'[n + 1]) /\ IsPes(arrived'[n + 1])
    BY <1>1, <2>1
  <2> QED  BY <1>1, <1>4, <2>2, FrameGrows DEF new
<1>7. /\ Held(arrived', n + 1, q, d) /\ d # <<>> /\ d[Len(d)] = n + 1
  <2>1. IsPes(arrived'[n + 1])  BY <1>1 DEF p
  <2> QED  BY <1>1, <1>3, <1>4, <2>1, HeldGrows
<1>8. g = new  BY <1>5, <1>6
<1>9. new.type = old.type  BY DEF Filling
<1>10. g = Filling(arrived', g.type, d)  BY <1>8, <1>9
<1>11. Fills(p) <=> ~Mid(p) /\ g.expPes # 0  BY <1>6, <1>8 DEF Fills, g
<1>12. ASSUME Fills(p) PROVE GenuineIn(arrived', FullEvent(p))
  <2>1. ~Mid(arrived'[d[Len(d)]])  BY <1>1, <1>7, <1>11, <1>12
  <2>2. AllMade(arrived', n + 1)
    <3>1. \A i \in 1 .. n : arrived[i] \in Packet /\ Made(arrived[i])
      BY <1>1, CarriedTypes DEF n
    <3>2. \A i \in 1 .. n + 1 : i \in 1 .. n \/ i = n + 1  BY <1>1
    <3> QED  BY <1>1, <3>1, <3>2 DEF AllMade
  <2>3. Agree(arrived', arrived', n + 1)  BY DEF Agree
  <2>4. GenuineIn(arrived', Completed(q, Filling(arrived', g.type, d), n + 1))
    <3>1. n + 1 \in Nat  BY <1>1
    <3> HIDE DEF q
    <3> QED  BY <1>7, <2>1, <2>2, <2>3, <3>1, HeldGenuine
  <2>5. FullEvent(p) = Completed(q, g, n + 1)  BY DEF FullEvent, g, n
  <2> QED  BY <1>10, <2>4, <2>5
<1> QED  BY <1>7, <1>10, <1>11, <1>12 DEF n, p, old, g, d
(* A frame that a start packet finds is at its end.                        *)
LEMMA CutKnown ==
    ASSUME PcrOutOfBand, CcContinuity, LossInv, KnownInv, FewLost', NEW w, Reception(w),
           IsPes(wire[w]), wire[w].pid \in DOMAIN mEsFrames, Cuts(wire[w]), ~Alarm(wire[w]),
           NEW s \in 1 .. Len(arrived), LastStart(arrived, wire[w].pid, Len(arrived), s),
           ~CcSince(events, Len(events), wire[w].pid, s)
    PROVE  GenuineIn(arrived', CutEvent(wire[w]))
PROOF
<1> DEFINE n   == Len(arrived)
           p   == wire[w]
           q   == p.pid
           old == OldOf(p)
           d   == old.data
<1>1. /\ n \in Nat /\ \A i \in 1 .. n : arrived'[i] = arrived[i]
      /\ p \in Packet /\ Made(p) /\ w \in 1 .. Len(wire)
      /\ CarriedInv /\ CountedInv /\ OrderInv
  BY Grows DEF LossInv
<1>2. p.pusi /\ d # <<>>  BY DEF Cuts
<1>3. PICK l \in 1 .. n : LastOn(arrived, q, l, n)  BY <1>1, LastOnIs
<1>4. q \in EncodedPids  BY <1>1, PesFields
<1>5. Known(arrived, received, q, old, l)
  BY <1>3, <1>4 DEF KnownInv, Knows, OldOf
<1>6. /\ received[l] < w /\ \A m \in received[l] + 1 .. w - 1 : wire[m].pid # q
  BY <1>1, <1>3, Uninterrupted
<1>7. /\ received[l] \in 1 .. Len(wire) /\ arrived[l] = wire[received[l]]
      /\ arrived[l].pid = q
  BY <1>1, <1>3, CarriedTypes DEF CarriedInv, ReceivedInv, LastOn
<1>8. ~Mid(arrived[l])
  <2> SUFFICES ASSUME Mid(arrived[l]) PROVE FALSE  OBVIOUS
  <2>1. /\ received[l] + 1 \in 1 .. Len(wire) /\ ~wire[received[l] + 1].pusi
        /\ wire[received[l] + 1].pid = q
    BY <1>1, <1>7, MidGoesOn
  <2>2. received[l] + 1 # w  BY <1>2, <2>1
  <2>3. received[l] \in Nat /\ w \in Nat  BY <1>1, <1>7
  <2>4. received[l] + 1 \in received[l] + 1 .. w - 1  BY <1>6, <2>2, <2>3
  <2> QED  BY <1>6, <2>1, <2>4
<1>9. /\ Held(arrived, n, q, d) /\ old = Filling(arrived, old.type, d)
      /\ d[Len(d)] = l /\ old.expPes = 0
  BY <1>2, <1>5, <1>8 DEF Known
<1>10. GenuineIn(arrived', Completed(q, Filling(arrived, old.type, d), n))
  <2>1. AllMade(arrived, n)  BY <1>1, CarriedTypes DEF AllMade
  <2>2. Agree(arrived, arrived', n)  BY <1>1 DEF Agree
  <2>3. ~Mid(arrived[d[Len(d)]])  BY <1>8, <1>9
  <2> HIDE DEF d, n, q, old
  <2> QED  BY <1>1, <1>9, <2>1, <2>2, <2>3, HeldGenuine
<1>11. CutEvent(p) = Completed(q, old, n)  BY <1>9 DEF CutEvent, Completed
<1> QED  BY <1>9, <1>10, <1>11

(* A frame without a start packet ends with the next, without a length.    *)
LEMMA NoStartNoLength ==
    ASSUME LossInv, NEW w, Reception(w), IsPes(wire[w]), wire[w].pid \in DOMAIN mEsFrames
    PROVE  /\ LastStart(arrived, wire[w].pid, Len(arrived), 0) => OldOf(wire[w]).expPes = 0
           /\ LastStart(arrived', wire[w].pid, Len(arrived) + 1, 0) => ~Fills(wire[w])
PROOF
<1> DEFINE n   == Len(arrived)
           p   == wire[w]
           q   == p.pid
           old == OldOf(p)
           g   == GrownBy(p)
<1>1. /\ n \in Nat /\ Len(arrived') = n + 1 /\ arrived'[n + 1] = p
      /\ \A i \in 1 .. n : arrived'[i] = arrived[i]
      /\ p \in Packet /\ Made(p) /\ CarriedInv /\ OrderInv
  BY Grows DEF LossInv
<1>2. FrameOk(arrived, received, events, q, old)  BY <1>1 DEF OrderInv, OldOf
<1>3. LastStart(arrived, q, n, 0) => old.expPes = 0 /\ old.expPayload = 0
  <2>1. 0 + 1 = 1  OBVIOUS
  <2>2. LastStart(arrived, q, n, 0) => NoStart(arrived, q, n)  BY <2>1 DEF LastStart, NoStart
  <2> QED  BY <1>2, <2>2 DEF FrameOk
<1>4. ASSUME LastStart(arrived', q, n + 1, 0) PROVE ~Fills(p)
  <2>1. \A i \in 1 .. n + 1 : ~StartAt(arrived', q, i)
    <3>1. 0 + 1 .. n + 1 = 1 .. n + 1  OBVIOUS
    <3> QED  BY <1>4, <3>1 DEF LastStart
  <2>2. ~p.pusi
    <3>1. hasPayload(p.afc) /\ ~D!Ignored(p)  BY <1>1, PesFields
    <3>2. D!Heard(p)  BY <3>1, DemuxNumbers DEF D!Heard
    <3>3. n + 1 \in 1 .. n + 1  BY <1>1
    <3> QED  BY <1>1, <2>1, <3>2, <3>3 DEF StartAt
  <2>3. LastStart(arrived, q, n, 0)
    <3>1. \A i \in 0 + 1 .. n : i \in 1 .. n + 1 /\ arrived'[i] = arrived[i]  BY <1>1
    <3>2. 0 \in 0 .. n  BY <1>1
    <3> QED  BY <2>1, <3>1, <3>2 DEF LastStart, StartAt
  <2>4. g.expPayload = 0 /\ g.size = old.size + p.load.run.len
    <3>1. IsFrame(old) /\ (old.data = <<>> => old = D!EsFrame(old.type))  BY <1>2 DEF FrameOk
    <3> QED  BY <1>1, <1>3, <2>2, <2>3, <3>1, GrownFields
  <2>5. old.size \in Nat /\ p.load.run.len \in Nat \ {0}
    <3>1. old.size \in Nat  BY <1>2 DEF FrameOk
    <3>2. p.load.run.len \in Nat \ {0}  BY <1>1, PesFields
    <3> QED  BY <3>1, <3>2
  <2> QED  BY <2>4, <2>5 DEF Fills
<1> QED  BY <1>3, <1>4
LEMMA KnownNext ==
    ASSUME PcrOutOfBand, CcContinuity, LossInv, LossInv', KnownInv, FewLost', NEW w, Reception(w),
           \/ Untouched(wire[w])
           \/ /\ IsPes(wire[w]) /\ wire[w].pid \in DOMAIN mEsFrames
              /\ Tuned /\ Stored(wire[w])
    PROVE  KnownInv'
PROOF
<1> DEFINE n == Len(arrived)
           p == wire[w]
<1>1. /\ n \in Nat /\ Len(arrived') = n + 1 /\ arrived'[n + 1] = p /\ received'[n + 1] = w
      /\ \A i \in 1 .. n : arrived'[i] = arrived[i] /\ received'[i] = received[i]
      /\ p \in Packet /\ Made(p) /\ w \in 1 .. Len(wire)
      /\ CarriedInv /\ OrderInv /\ ListInv
  BY Grows DEF LossInv, OrderInv
<1>2. Longer(events, events')
  <2>1. CASE Untouched(p)  BY <1>1, <2>1, NewEvents DEF Untouched
  <2>2. CASE Stored(p)  BY <1>1, <2>2, NewEvents DEF Stored
  <2> QED  BY <2>1, <2>2
<1> SUFFICES ASSUME NEW q \in EncodedPids, q \in DOMAIN mEsFrames'
             PROVE  Knows(arrived', received', events', q, mEsFrames'[q])
  <2>1. EncodedPids' = EncodedPids  OBVIOUS
  <2> QED  BY DEF KnownInv
<1>3. q = p.pid => IsPes(p)  BY <1>1, OnlyPes DEF CarriedInv
<1>4. ASSUME q # p.pid, q \in DOMAIN mEsFrames, mEsFrames'[q] = mEsFrames[q]
      PROVE  Knows(arrived', received', events', q, mEsFrames'[q])
  <2>1. Knows(arrived, received, events, q, mEsFrames[q])  BY <1>4 DEF KnownInv
  <2> QED  BY <1>1, <1>2, <1>4, <2>1, KnowsKept
<1>5. CASE Untouched(p)
  <2>1. CASE mEsFrames' = mEsFrames
    <3>1. q # p.pid  BY <1>3, <1>5, <2>1 DEF Untouched
    <3> QED  BY <1>4, <2>1, <3>1
  <2>2. ASSUME p.load.kind = "pmt", NEW type, mEsFrames'[q] = D!EsFrame(type)
        PROVE  Knows(arrived', received', events', q, mEsFrames'[q])
    <3> SUFFICES ASSUME NEW l \in 1 .. n + 1, LastOn(arrived', q, l, n + 1)
                 PROVE  Known(arrived', received', q, mEsFrames'[q], l)
      BY <1>1 DEF Knows
    <3>1. mEsFrames'[q].data = <<>>  BY <2>2, FreshFrame
    <3>2. q # p.pid  BY <1>3, <2>2 DEF IsPes
    <3>3. l # n + 1  BY <1>1, <3>2 DEF LastOn
    <3>4. l \in 1 .. n  BY <1>1, <3>3
    <3>5. /\ received[l] \in 1 .. Len(wire) /\ arrived[l] = wire[received[l]]
          /\ received[l] <= w /\ arrived'[l] = arrived[l] /\ received'[l] = received[l]
      BY <1>1, <3>4, CarriedTypes DEF CarriedInv, ReceivedInv, Reception
    <3>6. ASSUME Mid(arrived[l]) PROVE received[l] + 1 < w
      <4>1. IsPes(wire[received[l] + 1])  BY <1>1, <3>5, <3>6, MidGoesOn
      <4>2. received[l] + 1 # w  BY <2>2, <4>1 DEF IsPes
      <4>3. received[l] # w  BY <2>2, <3>5, <3>6 DEF Mid, IsPes
      <4>4. received[l] \in Nat /\ w \in Nat  BY <1>1, <3>5
      <4> QED  BY <3>5, <4>2, <4>3, <4>4
    <3> QED  BY <1>1, <3>1, <3>5, <3>6 DEF Known
  <2>3. \/ mEsFrames' = mEsFrames
        \/ p.load.kind = "pmt" /\ \E type : mEsFrames'[q] = D!EsFrame(type)
    BY <1>5 DEF Untouched
  <2> QED  BY <2>1, <2>2, <2>3
<1>6. CASE IsPes(p) /\ p.pid \in DOMAIN mEsFrames /\ Tuned /\ Stored(p)
  <2> DEFINE g == GrownBy(p)
  <2>1. mEsFrames' = [mEsFrames EXCEPT ![p.pid] = IF Fills(p) THEN D!EsFrame(g.type) ELSE g]
    BY <1>6 DEF Stored
  <2>2. CASE q # p.pid  BY <1>4, <2>1, <2>2
  <2>3. CASE q = p.pid
    <3> SUFFICES ASSUME NEW s \in 1 .. n + 1, NEW l \in 1 .. n + 1,
                        LastStart(arrived', q, n + 1, s), LastOn(arrived', q, l, n + 1),
                        ~CcSince(events', Len(events'), q, s)
                 PROVE  Known(arrived', received', q, mEsFrames'[q], l)
      BY <1>1 DEF Knows
    <3>1. l = n + 1
      <4>1. l # n + 1 => n + 1 \in l + 1 .. n + 1  BY <1>1
      <4> QED  BY <1>1, <2>3, <4>1 DEF LastOn
    <3>2. ~CcSince(events, Len(events), q, s)
      <4>1. /\ Len(events) \in Nat /\ Len(events') \in Nat
            /\ Len(events) <= Len(events) /\ Len(events) <= Len(events')
        BY <1>2 DEF Longer
      <4> QED  BY <1>2, <4>1, CcSinceKept
    <3>3. ASSUME Alarm(p), ~p.pusi PROVE FALSE
      <4>1. PICK m \in Nat :
              /\ Len(events) + m <= Len(events')
              /\ \E c \in Len(events) + 1 .. Len(events) + m : CcEvent(events'[c], p.pid, n + 1)
        BY <1>1, <1>6, <3>3, NewEvents DEF Stored
      <4>2. PICK c \in Len(events) + 1 .. Len(events) + m : CcEvent(events'[c], p.pid, n + 1)
        BY <4>1
      <4>3. c \in 1 .. Len(events')
        <5>1. Len(events) \in Nat /\ Len(events') \in Nat  BY <1>2 DEF Longer
        <5> QED  BY <4>1, <5>1
      <4>4. s # n + 1  BY <1>1, <3>3 DEF LastStart, StartAt
      <4>5. n + 1 > s  BY <1>1, <4>4
      <4> QED  BY <2>3, <4>2, <4>3, <4>5 DEF CcSince, CcEvent
    <3>4. Extends(arrived', n, OldOf(p), g.data)
      BY <1>6, <2>3, <3>2, <3>3, KnownExtends
    <3>5. /\ g.data # <<>> /\ g.data[Len(g.data)] = n + 1
          /\ Held(arrived', n + 1, p.pid, g.data) /\ g = Filling(arrived', g.type, g.data)
          /\ Fills(p) <=> ~Mid(p) /\ g.expPes # 0
      BY <1>6, <3>4, GrowsKnown
    <3>6. CASE Fills(p)
      <4>1. mEsFrames'[q].data = <<>>
        <5>1. mEsFrames'[q] = D!EsFrame(g.type)  BY <1>6, <2>1, <2>3, <3>6
        <5> QED  BY <5>1, FreshFrame
      <4>2. ~Mid(arrived'[l])  BY <1>1, <3>1, <3>5, <3>6
      <4> QED  BY <4>1, <4>2 DEF Known
    <3>7. CASE ~Fills(p)
      <4>1. mEsFrames'[q] = g  BY <1>6, <2>1, <2>3, <3>7
      <4>2. Mid(arrived'[l]) \/ g.expPes = 0  BY <1>1, <3>1, <3>5, <3>7
      <4> HIDE DEF g, n, p
      <4> QED  BY <1>1, <2>3, <3>1, <3>5, <4>1, <4>2 DEF Known
    <3> QED  BY <3>6, <3>7
  <2> QED  BY <2>2, <2>3
<1> QED  BY <1>5, <1>6

LEMMA VerdictNext ==
    ASSUME PcrOutOfBand, CcContinuity, LossInv, LossInv', KnownInv, VerdictInv, FewLost',
           NEW w, Reception(w),
           \/ Untouched(wire[w])
           \/ /\ IsPes(wire[w]) /\ wire[w].pid \in DOMAIN mEsFrames
              /\ Tuned /\ Stored(wire[w])
    PROVE  VerdictInv'
PROOF
<1> DEFINE n == Len(arrived)
           N == Len(events)
           p == wire[w]
           q == p.pid
<1>1. /\ n \in Nat /\ Len(arrived') = n + 1 /\ arrived'[n + 1] = p
      /\ \A i \in 1 .. n : arrived'[i] = arrived[i]
      /\ p \in Packet /\ Made(p)
      /\ CarriedInv /\ OrderInv /\ ListInv
  BY Grows DEF LossInv, OrderInv
<1>2. Longer(events, events')
  <2>1. CASE Untouched(p)  BY <1>1, <2>1, NewEvents DEF Untouched
  <2>2. CASE Stored(p)  BY <1>1, <2>2, NewEvents DEF Stored
  <2> QED  BY <2>1, <2>2
<1>3. Longer(arrived, arrived')  BY <1>1, ArrivedLonger
<1>4. N \in Nat /\ DOMAIN events = 1 .. N  BY <1>2 DEF Longer
<1> SUFFICES ASSUME NEW k \in DOMAIN events', events'[k].kind = "es"
             PROVE  Verdict(arrived', events', k)
  BY DEF VerdictInv
<1>5. CASE k \in 1 .. N
  <2>1. k \in DOMAIN events /\ events'[k] = events[k]  BY <1>2, <1>4, <1>5 DEF Longer
  <2>2. Verdict(arrived, events, k)  BY <2>1 DEF VerdictInv
  <2>3. events[k].frame.data \in Seq(1 .. Len(arrived)) /\ events[k].upto \in 0 .. Len(arrived)
    <3>1. EventOk(arrived, received, events, k)  BY <1>1, <2>1 DEF OrderInv
    <3> QED  BY <3>1 DEF EventOk, DataOn
  <2> QED  BY <1>2, <1>3, <1>5, <2>2, <2>3, VerdictKept
<1>6. CASE k \notin 1 .. N
  <2>1. IsPes(p) /\ q \in DOMAIN mEsFrames /\ Tuned /\ Stored(p)
    <3>1. ~Untouched(p)
      <4> SUFFICES ASSUME Untouched(p) PROVE FALSE  OBVIOUS
      <4>1. PICK m \in Nat : Follow(p, n + 1, m, <<>>)  BY DEF Untouched, Lands
      <4>2. k \in 1 .. N + m + 0 /\ \A i \in N + 1 .. N + m : events'[i].kind # "es"
        BY <4>1 DEF Follow
      <4>3. k \in N + 1 .. N + m  BY <1>4, <1>6, <4>2
      <4> QED  BY <4>2, <4>3
    <3> QED  BY <3>1
  <2>2. PICK m \in Nat :
          /\ Alarm(p) => \E c \in N + 1 .. N + m : CcEvent(events'[c], q, n + 1)
          /\ Fresher(p, k) /\ N + m < k
    BY <1>1, <1>6, <2>1, NewEvents DEF Stored
  <2>3. k \in Nat /\ k - 1 \in Nat /\ N <= k - 1 /\ N + m <= k - 1
    <3>1. k \in Nat  BY <1>2 DEF Longer
    <3> QED  BY <1>4, <2>2, <3>1
  <2>4. ASSUME Alarm(p), NEW s \in 0 .. n PROVE CcSince(events', k - 1, q, s)
    <3>1. PICK c \in N + 1 .. N + m : CcEvent(events'[c], q, n + 1)  BY <2>2, <2>4
    <3>2. c \in 1 .. k - 1 /\ n + 1 > s  BY <1>1, <1>4, <2>3
    <3> QED  BY <3>1, <3>2 DEF CcSince, CcEvent
  <2>5. ASSUME NEW s, CcSince(events, N, q, s) PROVE CcSince(events', k - 1, q, s)
    BY <1>2, <1>4, <2>3, <2>5, CcSinceKept
  <2>6. CASE Cuts(p) /\ events'[k] = CutEvent(p)
    <3>1. events'[k].pid = q /\ events'[k].upto = n /\ events'[k].completed = (OldOf(p).expPes = 0)
      BY <2>6 DEF CutEvent, D!Deliver
    <3> SUFFICES ASSUME NEW s, LastStart(arrived', q, n, s), ~CcSince(events', k - 1, q, s)
                 PROVE  GenuineIn(arrived', events'[k]) \/ (s = 0 /\ events'[k].completed)
      BY <3>1 DEF Verdict
    <3>2. s \in 0 .. n /\ LastStart(arrived, q, n, s)
      <4>1. n \in 0 .. Len(arrived)  BY <1>1
      <4> QED  BY <1>3, <4>1, LastStartKept DEF LastStart
    <3>3. ~Alarm(p) /\ ~CcSince(events, N, q, s)  BY <2>4, <2>5, <3>2
    <3>4. CASE s = 0
      <4>1. OldOf(p).expPes = 0  BY <2>1, <3>2, <3>4, NoStartNoLength
      <4> QED  BY <3>1, <3>4, <4>1
    <3>5. CASE s # 0
      <4>1. s \in 1 .. n  BY <1>1, <3>2, <3>5
      <4>2. GenuineIn(arrived', CutEvent(p))  BY <2>1, <2>6, <3>2, <3>3, <4>1, CutKnown
      <4> QED  BY <2>6, <4>2
    <3> QED  BY <3>4, <3>5
  <2>7. CASE Fills(p) /\ events'[k] = FullEvent(p)
    <3>1. events'[k].pid = q /\ events'[k].upto = n + 1
      BY <2>7 DEF FullEvent, Completed, D!Deliver
    <3> SUFFICES ASSUME NEW s, LastStart(arrived', q, n + 1, s), ~CcSince(events', k - 1, q, s)
                 PROVE  GenuineIn(arrived', events'[k])
      BY <3>1 DEF Verdict
    <3>2. s # 0  BY <2>1, <2>7, NoStartNoLength
    <3>3. s \in 1 .. n + 1  BY <1>1, <3>2 DEF LastStart
    <3>4. ASSUME Alarm(p) PROVE p.pusi
      <4>1. s \notin 0 .. n  BY <2>4, <3>4
      <4>2. s = n + 1  BY <1>1, <3>3, <4>1
      <4> QED  BY <1>1, <3>2, <4>2 DEF LastStart, StartAt
    <3>5. ~CcSince(events, N, q, s)  BY <2>5
    <3>6. Extends(arrived', n, OldOf(p), GrownBy(p).data)
      BY <2>1, <3>3, <3>4, <3>5, KnownExtends
    <3>7. GenuineIn(arrived', FullEvent(p))  BY <2>1, <2>7, <3>6, GrowsKnown
    <3> QED  BY <2>7, <3>7
  <2> QED  BY <2>2, <2>6, <2>7 DEF Fresher
<1> QED  BY <1>5, <1>6
LEMMA SoundNext ==
    ASSUME PcrOutOfBand, CcContinuity, LossInv, SoundInv, [LinkNext]_linkVars
    PROVE  SoundInv'
PROOF
<1> SUFFICES ASSUME FewLost' PROVE KnownInv' /\ VerdictInv'  BY DEF SoundInv
<1>1. CarriedInv /\ TunedInv /\ OrderInv /\ ListInv /\ LossInv'
  BY LossNext DEF LossInv, OrderInv
<1>2. KnownInv /\ VerdictInv  BY <1>1, FewLostBefore DEF SoundInv
<1>3. CASE NoneTaken
  <2>1. /\ mEsFrames' = mEsFrames /\ arrived' = arrived /\ events' = events
        /\ received' = received
    BY <1>3 DEF NoneTaken, demuxVars
  <2> QED  BY <1>2, <2>1 DEF KnownInv, VerdictInv
<1>4. ASSUME NEW w \in Nat, Reception(w) PROVE KnownInv' /\ VerdictInv'
  <2>1. \/ Untouched(wire[w])
        \/ /\ IsPes(wire[w]) /\ wire[w].pid \in DOMAIN mEsFrames
           /\ Tuned /\ Stored(wire[w])
    BY <1>1, <1>4, Receives
  <2> QED  BY <1>1, <1>2, <1>4, <2>1, KnownNext, VerdictNext
<1> QED  BY <1>1, <1>3, <1>4, StepKinds

LEMMA SoundAlways == PcrOutOfBand => (LinkSpec => [](LossInv /\ SoundInv))
PROOF
<1> SUFFICES ASSUME PcrOutOfBand PROVE LinkSpec => [](LossInv /\ SoundInv)  OBVIOUS
<1>1. LinkInit => SoundInv
  <2> SUFFICES ASSUME LinkInit PROVE SoundInv  OBVIOUS
  <2>1. DOMAIN mEsFrames = {} /\ events = <<>>  BY DEF LinkInit, D!Init
  <2> QED  BY <2>1 DEF SoundInv, KnownInv, VerdictInv
<1>2. LossInv /\ CcContinuity /\ SoundInv /\ [LinkNext]_linkVars => SoundInv'  BY SoundNext
<1>3. LinkSpec => []LossInv  BY LossAlways
<1>4. LinkSpec => []CcContinuity
  <2>1. LinkSpec => Spec
    <3>1. LinkInit => Init  BY DEF LinkInit
    <3>2. [LinkNext]_linkVars => [Next]_vars
      BY DEF LinkNext, linkVars, Mux, Receive, Lose, Repeat
    <3> QED  BY <3>1, <3>2, PTL DEF LinkSpec, Spec
  <2>2. Spec => []CcContinuity  BY CcAlwaysContinuous
  <2> QED  BY <2>1, <2>2, PTL
<1> QED  BY <1>1, <1>2, <1>3, <1>4, PTL DEF LinkSpec

(* The verdict on a frame that came out.                                   *)
LEMMA VerdictIs ==
    ASSUME LossInv, VerdictInv, NEW k \in DOMAIN events, events[k].kind = "es"
    PROVE  Genuine(events[k]) \/ Warned(k) \/ (StartFor(k) = 0 /\ events[k].completed)
PROOF
<1> DEFINE s == StartFor(k)
<1>1. Verdict(arrived, events, k)  BY DEF VerdictInv
<1>2. events[k].upto \in Nat
  <2>1. EventOk(arrived, received, events, k)  BY DEF LossInv, OrderInv
  <2> QED  BY <2>1 DEF EventOk
<1>3. LastStart(arrived, events[k].pid, events[k].upto, s)  BY <1>2, StartOfIs DEF StartFor
<1>4. GenuineIn(arrived, events[k]) => Genuine(events[k])
  BY DEF GenuineIn, Genuine, RunsIn, Runs
<1>5. CcSince(events, k - 1, events[k].pid, s) => Warned(k)  BY DEF CcSince, Warned
<1> HIDE DEF s
<1>6. \/ GenuineIn(arrived, events[k])
      \/ CcSince(events, k - 1, events[k].pid, s)
      \/ s = 0 /\ events[k].completed
  BY <1>1, <1>3 DEF Verdict
<1> QED  BY <1>4, <1>5, <1>6 DEF s

(***************************************************************************)
(* A network that loses fewer packets of any PID in a row than a counter   *)
(* has values never corrupts a frame silently: what comes out as completed *)
(* and is not exactly what was encoded, on a PID of which a start packet   *)
(* was received, comes out after a continuity error on its PID - provided, *)
(* again, that createPcr is used only for a PCR PID of its own.            *)
(***************************************************************************)
THEOREM NeverSilentlyCorrupted == PcrOutOfBand => (LinkSpec => []NoSilentCorruption)
PROOF
<1> SUFFICES ASSUME PcrOutOfBand PROVE LinkSpec => []NoSilentCorruption  OBVIOUS
<1>1. LossInv /\ SoundInv => NoSilentCorruption
  BY VerdictIs DEF NoSilentCorruption, SoundInv
<1>2. LinkSpec => [](LossInv /\ SoundInv)  BY SoundAlways
<1> QED  BY <1>1, <1>2, PTL

(***************************************************************************)
(* And under the same conditions a frame marked broken has lost packets,   *)
(* and a continuity error on its PID told so.                              *)
(***************************************************************************)
THEOREM BrokenOnlyByLoss == PcrOutOfBand => (LinkSpec => []BrokenMeansLoss)
PROOF
<1> SUFFICES ASSUME PcrOutOfBand PROVE LinkSpec => []BrokenMeansLoss  OBVIOUS
<1>1. LossInv /\ SoundInv => BrokenMeansLoss
  BY VerdictIs DEF BrokenMeansLoss, SoundInv, Genuine
<1>2. LinkSpec => [](LossInv /\ SoundInv)  BY SoundAlways
<1> QED  BY <1>1, <1>2, PTL
=============================================================================
