---------------------------- MODULE CodecProofs ----------------------------
(***************************************************************************)
(* Proofs that what encode writes decode reads, for every value of every   *)
(* field and wherever in a buffer the structure lies. The fields of a word *)
(* are sets of bits that do not overlap: a field put in comes back, and    *)
(* the others leave no trace in it.                                        *)
(***************************************************************************)
EXTENDS Codecs, FiniteSetTheorems, WellFoundedInduction, TLAPS

(* The bytes d hold from offset p on what is in e.                         *)
Holds(d, p, e) == \A i \in DOMAIN e : d[p + i] = e[i]
-----------------------------------------------------------------------------
(* The bits of a field, taken out and put in.                              *)
LEMMA InGet ==
    ASSUME NEW w \in SUBSET Int, NEW at \in Nat, NEW n \in Nat, NEW x
    PROVE  x \in Get(w, at, n) <=> x \in 0 .. n - 1 /\ x + at \in w
<1>1. x \in 0 .. n - 1 /\ x + at \in w => x \in Get(w, at, n)
  <2> SUFFICES ASSUME x \in 0 .. n - 1, x + at \in w PROVE x \in Get(w, at, n)
    OBVIOUS
  <2>1. x + at \in {c \in w : c >= at} /\ x = (x + at) - at
    OBVIOUS
  <2> QED BY <2>1 DEF Get, Shr, Low
<1>2. x \in Get(w, at, n) => x \in 0 .. n - 1 /\ x + at \in w
  <2> SUFFICES ASSUME x \in Get(w, at, n) PROVE x \in 0 .. n - 1 /\ x + at \in w
    OBVIOUS
  <2>1. x \in 0 .. n - 1 /\ x \in {b - at : b \in {c \in w : c >= at}}
    BY DEF Get, Shr, Low
  <2>2. PICK b \in w : x = b - at
    BY <2>1
  <2> QED BY <2>1, <2>2
<1> QED BY <1>1, <1>2

LEMMA InShl ==
    ASSUME NEW w \in SUBSET Int, NEW s \in Int, NEW x \in Int
    PROVE  x \in Shl(w, s) <=> x - s \in w
<1>1. x - s \in w => x \in Shl(w, s)
  <2> SUFFICES ASSUME x - s \in w PROVE x \in Shl(w, s)
    OBVIOUS
  <2>1. x = (x - s) + s
    OBVIOUS
  <2> QED BY <2>1 DEF Shl
<1>2. x \in Shl(w, s) => x - s \in w
  <2> SUFFICES ASSUME x \in Shl(w, s) PROVE x - s \in w
    OBVIOUS
  <2>1. PICK b \in w : x = b + s
    BY DEF Shl
  <2> QED BY <2>1
<1> QED BY <1>1, <1>2

LEMMA ShlInts ==
    ASSUME NEW w \in SUBSET Int, NEW s \in Int
    PROVE  Shl(w, s) \in SUBSET Int
BY DEF Shl

LEMMA InPut ==
    ASSUME NEW w \in SUBSET Int, NEW at \in Nat, NEW n \in Nat, NEW x
    PROVE  x \in Put(w, at, n) <=> x \in at .. at + n - 1 /\ x - at \in w
BY InShl DEF Put

LEMMA PutInts ==
    ASSUME NEW w, NEW at \in Nat, NEW n \in Nat
    PROVE  Put(w, at, n) \in SUBSET Int
BY DEF Put

(* A field put in comes back.                                              *)
LEMMA GetOwn ==
    ASSUME NEW at \in Nat, NEW n \in Nat, NEW w \in Word(n)
    PROVE  Get(Put(w, at, n), at, n) = w
<1>1. w \in SUBSET Int /\ w \subseteq 0 .. n - 1
  BY DEF Word, Low
<1>2. ASSUME NEW x PROVE x \in Get(Put(w, at, n), at, n) <=> x \in w
  <2>1. x \in Get(Put(w, at, n), at, n) <=> x \in 0 .. n - 1 /\ x + at \in Put(w, at, n)
    BY InGet, PutInts
  <2>2. x \in 0 .. n - 1 => (x + at \in Put(w, at, n) <=> x \in w)
    <3> SUFFICES ASSUME x \in 0 .. n - 1 PROVE x + at \in Put(w, at, n) <=> x \in w
      OBVIOUS
    <3>1. x + at \in at .. at + n - 1 /\ (x + at) - at = x
      OBVIOUS
    <3> QED BY <3>1, <1>1, InPut
  <2> QED BY <1>1, <2>1, <2>2
<1> QED BY <1>2

(* The two bytes of a word hold it.                                        *)
LEMMA GetWord ==
    ASSUME NEW w \in SUBSET Int, NEW at \in Nat, NEW n \in Nat
    PROVE  Get(w, at, n) \in Word(n)
BY InGet DEF Word, Low

LEMMA PutWord ==
    ASSUME NEW w, NEW at \in Nat, NEW n \in Nat, NEW m \in Nat, at + n <= m
    PROVE  Put(w, at, n) \in Word(m)
BY DEF Put, Word, Low

LEMMA Word2OfBytes2 ==
    ASSUME NEW w \in Word(16), NEW d, NEW p \in Int, Holds(d, p, Bytes2(w))
    PROVE  Word2(d, p) = w
<1>1. w \in SUBSET Int /\ w \subseteq 0 .. 15
  BY DEF Word, Low
<1>2. d[p + 1] = Get(w, 8, 8) /\ d[p + 2] = Get(w, 0, 8)
  <2>1. DOMAIN Bytes2(w) = 1 .. 2 /\ Bytes2(w)[1] = Get(w, 8, 8) /\ Bytes2(w)[2] = Get(w, 0, 8)
    BY DEF Bytes2
  <2> QED BY <2>1 DEF Holds
<1>3. Get(w, 8, 8) \in SUBSET Int /\ Get(w, 0, 8) \in SUBSET Int
  BY <1>1, GetWord DEF Word, Low
<1>4. ASSUME NEW x \in Int PROVE x \in Word2(d, p) <=> x \in w
  <2>1. x \in Shl(Get(w, 8, 8), 8) <=> x - 8 \in 0 .. 7 /\ x \in w
    <3>1. x \in Shl(Get(w, 8, 8), 8) <=> x - 8 \in Get(w, 8, 8)
      BY <1>3, InShl
    <3>2. (x - 8) + 8 = x
      OBVIOUS
    <3> QED BY <3>1, <3>2, <1>1, InGet
  <2>2. x \in Get(w, 0, 8) <=> x \in 0 .. 7 /\ x \in w
    <3>1. x + 0 = x
      OBVIOUS
    <3> QED BY <3>1, <1>1, InGet
  <2> QED BY <2>1, <2>2, <1>1, <1>2 DEF Word2
<1>5. Word2(d, p) \in SUBSET Int
  BY <1>2, <1>3, ShlInts DEF Word2
<1> QED BY <1>1, <1>4, <1>5
-----------------------------------------------------------------------------
(* A field of a word made of several: elsewhere the word may have any bits.*)
LEMMA Field ==
    ASSUME NEW at \in Nat, NEW n \in Nat, NEW w \in Word(n), NEW word \in SUBSET Int,
           \A b \in at .. at + n - 1 : b \in word <=> b \in Put(w, at, n)
    PROVE  Get(word, at, n) = w
<1>1. ASSUME NEW x PROVE x \in Get(word, at, n) <=> x \in Get(Put(w, at, n), at, n)
  <2>1. x \in 0 .. n - 1 => x + at \in at .. at + n - 1
    OBVIOUS
  <2> QED BY <2>1, InGet, PutInts
<1> QED BY <1>1, GetOwn

(* The words of the structures. Every one of their fields comes back but  *)
(* for the priority, which decode does not take from its bit.              *)
(* The packet header.                                                      *)
LEMMA TsHeaderWord ==
    ASSUME NEW pid \in Word(13), NEW priority \in Word(1), NEW pusi \in Word(1),
           NEW tei \in Word(1),
           NEW w, w = Put(pid, 0, 13) \cup Put(priority, 13, 1) \cup Put(pusi, 14, 1)
                      \cup Put(tei, 15, 1)
    PROVE  /\ w \in Word(16)
           /\ Get(w, 0, 13) = pid
           /\ Get(w, 14, 1) = pusi
           /\ Get(w, 15, 1) = tei
<1>1. w \in Word(16) /\ w \in SUBSET Int
  BY DEF Put, Word, Low
<1>2. Get(w, 0, 13) = pid
  BY <1>1, Field DEF Put
<1>3. Get(w, 14, 1) = pusi
  BY <1>1, Field DEF Put
<1>4. Get(w, 15, 1) = tei
  BY <1>1, Field DEF Put
<1> QED BY <1>1, <1>2, <1>3, <1>4

(* Its last byte.                                                          *)
LEMMA TsHeaderByte ==
    ASSUME NEW cc \in Word(4), NEW afc \in Word(2), NEW scrambling \in Word(2),
           NEW w, w = Put(cc, 0, 4) \cup Put(afc, 4, 2) \cup Put(scrambling, 6, 2)
    PROVE  /\ w \in Word(8)
           /\ Get(w, 0, 4) = cc
           /\ Get(w, 4, 2) = afc
           /\ Get(w, 6, 2) = scrambling
<1>1. w \in Word(8) /\ w \in SUBSET Int
  BY DEF Put, Word, Low
<1>2. Get(w, 0, 4) = cc
  BY <1>1, Field DEF Put
<1>3. Get(w, 4, 2) = afc
  BY <1>1, Field DEF Put
<1>4. Get(w, 6, 2) = scrambling
  BY <1>1, Field DEF Put
<1> QED BY <1>1, <1>2, <1>3, <1>4

(* The head of a section.                                                  *)
LEMMA SectionWord ==
    ASSUME NEW length \in Word(12), NEW reserved \in Word(2), NEW b0 \in Word(1),
           NEW syntax \in Word(1),
           NEW w, w = Put(length, 0, 12) \cup Put(reserved, 12, 2) \cup Put(b0, 14, 1)
                      \cup Put(syntax, 15, 1)
    PROVE  /\ w \in Word(16)
           /\ Get(w, 0, 12) = length
           /\ Get(w, 12, 2) = reserved
           /\ Get(w, 14, 1) = b0
           /\ Get(w, 15, 1) = syntax
<1>1. w \in Word(16) /\ w \in SUBSET Int
  BY DEF Put, Word, Low
<1>2. Get(w, 0, 12) = length
  BY <1>1, Field DEF Put
<1>3. Get(w, 12, 2) = reserved
  BY <1>1, Field DEF Put
<1>4. Get(w, 14, 1) = b0
  BY <1>1, Field DEF Put
<1>5. Get(w, 15, 1) = syntax
  BY <1>1, Field DEF Put
<1> QED BY <1>1, <1>2, <1>3, <1>4, <1>5

(* Its sixth byte.                                                         *)
LEMMA SectionByte ==
    ASSUME NEW current \in Word(1), NEW version \in Word(5), NEW reserved \in Word(2),
           NEW w, w = Put(current, 0, 1) \cup Put(version, 1, 5)
                      \cup Put(reserved, 6, 2)
    PROVE  /\ w \in Word(8)
           /\ Get(w, 0, 1) = current
           /\ Get(w, 1, 5) = version
           /\ Get(w, 6, 2) = reserved
<1>1. w \in Word(8) /\ w \in SUBSET Int
  BY DEF Put, Word, Low
<1>2. Get(w, 0, 1) = current
  BY <1>1, Field DEF Put
<1>3. Get(w, 1, 5) = version
  BY <1>1, Field DEF Put
<1>4. Get(w, 6, 2) = reserved
  BY <1>1, Field DEF Put
<1> QED BY <1>1, <1>2, <1>3, <1>4

(* A PID and its reserved bits.                                            *)
LEMMA PidWord ==
    ASSUME NEW pid \in Word(13), NEW reserved \in Word(3),
           NEW w, w = Put(pid, 0, 13) \cup Put(reserved, 13, 3)
    PROVE  /\ w \in Word(16)
           /\ Get(w, 0, 13) = pid
           /\ Get(w, 13, 3) = reserved
<1>1. w \in Word(16) /\ w \in SUBSET Int
  BY DEF Put, Word, Low
<1>2. Get(w, 0, 13) = pid
  BY <1>1, Field DEF Put
<1>3. Get(w, 13, 3) = reserved
  BY <1>1, Field DEF Put
<1> QED BY <1>1, <1>2, <1>3

(* A length and its reserved bits.                                         *)
LEMMA LengthWord ==
    ASSUME NEW length \in Word(12), NEW reserved \in Word(4),
           NEW w, w = Put(length, 0, 12) \cup Put(reserved, 12, 4)
    PROVE  /\ w \in Word(16)
           /\ Get(w, 0, 12) = length
           /\ Get(w, 12, 4) = reserved
<1>1. w \in Word(16) /\ w \in SUBSET Int
  BY DEF Put, Word, Low
<1>2. Get(w, 0, 12) = length
  BY <1>1, Field DEF Put
<1>3. Get(w, 12, 4) = reserved
  BY <1>1, Field DEF Put
<1> QED BY <1>1, <1>2, <1>3

(* The flags of an adaptation field.                                       *)
LEMMA FlagsByte ==
    ASSUME NEW a \in AdaptationFieldHeader, NEW w, w = AdaptationFieldFlags(a)
    PROVE  /\ w \in Word(8)
           /\ Get(w, 0, 1) = a.mAdaptationFieldExtensionFlag
           /\ Get(w, 1, 1) = a.mTransportPrivateDataFlag
           /\ Get(w, 2, 1) = a.mSplicingPointFlag
           /\ Get(w, 3, 1) = a.mOpcrFlag
           /\ Get(w, 4, 1) = a.mPcrFlag
           /\ Get(w, 5, 1) = a.mElementaryStreamPriorityIndicator
           /\ Get(w, 6, 1) = a.mRandomAccessIndicator
           /\ Get(w, 7, 1) = a.mDiscontinuityIndicator
<1>0. /\ a.mAdaptationFieldExtensionFlag \in Word(1)
      /\ a.mTransportPrivateDataFlag \in Word(1)
      /\ a.mSplicingPointFlag \in Word(1)
      /\ a.mOpcrFlag \in Word(1)
      /\ a.mPcrFlag \in Word(1)
      /\ a.mElementaryStreamPriorityIndicator \in Word(1)
      /\ a.mRandomAccessIndicator \in Word(1)
      /\ a.mDiscontinuityIndicator \in Word(1)
  BY DEF AdaptationFieldHeader
<1>1. w \in Word(8) /\ w \in SUBSET Int
  BY <1>0 DEF AdaptationFieldFlags, Put, Word, Low
<1>2. Get(w, 0, 1) = a.mAdaptationFieldExtensionFlag
  BY <1>0, <1>1, Field DEF AdaptationFieldFlags, Put
<1>3. Get(w, 1, 1) = a.mTransportPrivateDataFlag
  BY <1>0, <1>1, Field DEF AdaptationFieldFlags, Put
<1>4. Get(w, 2, 1) = a.mSplicingPointFlag
  BY <1>0, <1>1, Field DEF AdaptationFieldFlags, Put
<1>5. Get(w, 3, 1) = a.mOpcrFlag
  BY <1>0, <1>1, Field DEF AdaptationFieldFlags, Put
<1>6. Get(w, 4, 1) = a.mPcrFlag
  BY <1>0, <1>1, Field DEF AdaptationFieldFlags, Put
<1>7. Get(w, 5, 1) = a.mElementaryStreamPriorityIndicator
  BY <1>0, <1>1, Field DEF AdaptationFieldFlags, Put
<1>8. Get(w, 6, 1) = a.mRandomAccessIndicator
  BY <1>0, <1>1, Field DEF AdaptationFieldFlags, Put
<1>9. Get(w, 7, 1) = a.mDiscontinuityIndicator
  BY <1>0, <1>1, Field DEF AdaptationFieldFlags, Put
<1> QED BY <1>1, <1>2, <1>3, <1>4, <1>5, <1>6, <1>7, <1>8, <1>9

(* The first byte of flags of a PES header.                                *)
LEMMA PesFlags ==
    ASSUME NEW h \in PESHeader,
           NEW w, w = Put(h.mOriginalOrCopy, 0, 1) \cup Put(h.mCopyright, 1, 1)
                  \cup Put(h.mDataAlignmentIndicator, 2, 1) \cup Put(h.mPesPriority, 3, 1)
                  \cup Put(h.mPesScramblingControl, 4, 2) \cup Put(h.mMarkerBits, 6, 2)
    PROVE  /\ w \in Word(8)
           /\ Get(w, 0, 1) = h.mOriginalOrCopy
           /\ Get(w, 1, 1) = h.mCopyright
           /\ Get(w, 2, 1) = h.mDataAlignmentIndicator
           /\ Get(w, 3, 1) = h.mPesPriority
           /\ Get(w, 4, 2) = h.mPesScramblingControl
           /\ Get(w, 6, 2) = h.mMarkerBits
<1>0. /\ h.mOriginalOrCopy \in Word(1)
      /\ h.mCopyright \in Word(1)
      /\ h.mDataAlignmentIndicator \in Word(1)
      /\ h.mPesPriority \in Word(1)
      /\ h.mPesScramblingControl \in Word(2)
      /\ h.mMarkerBits \in Word(2)
  BY DEF PESHeader
<1>1. w \in Word(8) /\ w \in SUBSET Int
  BY <1>0 DEF Put, Word, Low
<1>2. Get(w, 0, 1) = h.mOriginalOrCopy
  BY <1>0, <1>1, Field DEF Put
<1>3. Get(w, 1, 1) = h.mCopyright
  BY <1>0, <1>1, Field DEF Put
<1>4. Get(w, 2, 1) = h.mDataAlignmentIndicator
  BY <1>0, <1>1, Field DEF Put
<1>5. Get(w, 3, 1) = h.mPesPriority
  BY <1>0, <1>1, Field DEF Put
<1>6. Get(w, 4, 2) = h.mPesScramblingControl
  BY <1>0, <1>1, Field DEF Put
<1>7. Get(w, 6, 2) = h.mMarkerBits
  BY <1>0, <1>1, Field DEF Put
<1> QED BY <1>1, <1>2, <1>3, <1>4, <1>5, <1>6, <1>7

(* The second.                                                             *)
LEMMA PesMoreFlags ==
    ASSUME NEW h \in PESHeader,
           NEW w, w = Put(h.mPesExtFlag, 0, 1) \cup Put(h.mPesCrcFlag, 1, 1)
                  \cup Put(h.mAddCopyInfoFlag, 2, 1) \cup Put(h.mDsmTrickModeFlag, 3, 1)
                  \cup Put(h.mEsRateFlag, 4, 1) \cup Put(h.mEscrFlag, 5, 1)
                  \cup Put(h.mPtsDtsFlags, 6, 2)
    PROVE  /\ w \in Word(8)
           /\ Get(w, 0, 1) = h.mPesExtFlag
           /\ Get(w, 1, 1) = h.mPesCrcFlag
           /\ Get(w, 2, 1) = h.mAddCopyInfoFlag
           /\ Get(w, 3, 1) = h.mDsmTrickModeFlag
           /\ Get(w, 4, 1) = h.mEsRateFlag
           /\ Get(w, 5, 1) = h.mEscrFlag
           /\ Get(w, 6, 2) = h.mPtsDtsFlags
<1>0. /\ h.mPesExtFlag \in Word(1)
      /\ h.mPesCrcFlag \in Word(1)
      /\ h.mAddCopyInfoFlag \in Word(1)
      /\ h.mDsmTrickModeFlag \in Word(1)
      /\ h.mEsRateFlag \in Word(1)
      /\ h.mEscrFlag \in Word(1)
      /\ h.mPtsDtsFlags \in Word(2)
  BY DEF PESHeader
<1>1. w \in Word(8) /\ w \in SUBSET Int
  BY <1>0 DEF Put, Word, Low
<1>2. Get(w, 0, 1) = h.mPesExtFlag
  BY <1>0, <1>1, Field DEF Put
<1>3. Get(w, 1, 1) = h.mPesCrcFlag
  BY <1>0, <1>1, Field DEF Put
<1>4. Get(w, 2, 1) = h.mAddCopyInfoFlag
  BY <1>0, <1>1, Field DEF Put
<1>5. Get(w, 3, 1) = h.mDsmTrickModeFlag
  BY <1>0, <1>1, Field DEF Put
<1>6. Get(w, 4, 1) = h.mEsRateFlag
  BY <1>0, <1>1, Field DEF Put
<1>7. Get(w, 5, 1) = h.mEscrFlag
  BY <1>0, <1>1, Field DEF Put
<1>8. Get(w, 6, 2) = h.mPtsDtsFlags
  BY <1>0, <1>1, Field DEF Put
<1> QED BY <1>1, <1>2, <1>3, <1>4, <1>5, <1>6, <1>7, <1>8
-----------------------------------------------------------------------------
(* What is encoded piece by piece is held piece by piece.                  *)
Are(s, n) == s \in Seq(SUBSET Int) /\ Len(s) = n
LEMMA HoldsConcat ==
    ASSUME NEW m \in Nat, NEW n \in Nat, NEW s, NEW t, Are(s, m), Are(t, n),
           NEW d, NEW p \in Int, Holds(d, p, s \o t)
    PROVE  Holds(d, p, s) /\ Holds(d, p + m, t)
<1>1. Holds(d, p, s)
  BY DEF Holds, Are
<1>2. ASSUME NEW i \in DOMAIN t PROVE d[p + m + i] = t[i]
  <2>1. m + i \in DOMAIN (s \o t) /\ (s \o t)[m + i] = t[i]
    BY DEF Are
  <2>2. p + (m + i) = p + m + i
    BY DEF Are
  <2> QED BY <2>1, <2>2 DEF Holds
<1> QED BY <1>1, <1>2 DEF Holds

LEMMA Concat ==
    ASSUME NEW m \in Nat, NEW n \in Nat, NEW s, NEW t, Are(s, m), Are(t, n)
    PROVE  Are(s \o t, m + n)
<1>1. s \o t \in Seq(SUBSET Int)
  BY DEF Are
<1>2. Len(s \o t) = Len(s) + Len(t)
  BY DEF Are
<1>3. Len(s \o t) = m + n
  BY <1>2, Zenon DEF Are
<1> QED BY <1>1, <1>3 DEF Are
LEMMA OneByte ==
    ASSUME NEW b \in SUBSET Int
    PROVE  Are(<<b>>, 1)
BY DEF Are
LEMMA ByteAt ==
    ASSUME NEW b, NEW d, NEW p, Holds(d, p, <<b>>)
    PROVE  d[p + 1] = b
BY DEF Holds
LEMMA TwoBytes ==
    ASSUME NEW w \in SUBSET Int
    PROVE  Are(Bytes2(w), 2)
<1>1. Get(w, 8, 8) \in SUBSET Int /\ Get(w, 0, 8) \in SUBSET Int
  BY GetWord DEF Word, Low
<1> QED BY <1>1 DEF Bytes2, Are
LEMMA WordInts ==
    ASSUME NEW n \in Nat, NEW w \in Word(n)
    PROVE  w \in SUBSET Int
BY DEF Word, Low

LEMMA ThreeBytes ==
    ASSUME NEW a \in SUBSET Int, NEW b \in SUBSET Int, NEW c \in SUBSET Int
    PROVE  /\ Are(<<a, b, c>>, 3)
           /\ \A d, p : Holds(d, p, <<a, b, c>>) => d[p + 1] = a /\ d[p + 2] = b /\ d[p + 3] = c
<1>1. Are(<<a, b, c>>, 3)
  BY DEF Are
<1>2. ASSUME NEW d, NEW p, Holds(d, p, <<a, b, c>>)
      PROVE  d[p + 1] = a /\ d[p + 2] = b /\ d[p + 3] = c
  BY <1>2 DEF Holds
<1> QED BY <1>1, <1>2

(* Four bytes are two words of two.                                        *)
LEMMA FourBytes ==
    ASSUME NEW w \in SUBSET Int
    PROVE  Are(Bytes4(w), 4)
<1>1. /\ Get(w, 24, 8) \in SUBSET Int /\ Get(w, 16, 8) \in SUBSET Int
      /\ Get(w, 8, 8) \in SUBSET Int /\ Get(w, 0, 8) \in SUBSET Int
  BY GetWord DEF Word, Low
<1> QED BY <1>1 DEF Bytes4, Are
LEMMA GetGet ==
    ASSUME NEW w \in SUBSET Int, NEW at \in Nat, NEW n \in Nat, NEW a \in Nat, NEW m \in Nat, a + m <= n
    PROVE  Get(Get(w, at, n), a, m) = Get(w, at + a, m)
<1>1. Get(w, at, n) \in SUBSET Int
  BY GetWord DEF Word, Low
<1>2. ASSUME NEW x PROVE x \in Get(Get(w, at, n), a, m) <=> x \in Get(w, at + a, m)
  <2>1. x \in Get(Get(w, at, n), a, m) <=> x \in 0 .. m - 1 /\ x + a \in Get(w, at, n)
    BY <1>1, InGet
  <2>2. x \in Get(w, at + a, m) <=> x \in 0 .. m - 1 /\ x + (at + a) \in w
    BY InGet
  <2>3. x \in 0 .. m - 1 => /\ x + a \in 0 .. n - 1
                            /\ (x + a) + at = x + (at + a)
    OBVIOUS
  <2>4. x + a \in Get(w, at, n) <=> x + a \in 0 .. n - 1 /\ (x + a) + at \in w
    BY InGet
  <2> QED BY <2>1, <2>2, <2>3, <2>4
<1> QED BY <1>2
LEMMA Word4OfBytes4 ==
    ASSUME NEW w \in Word(32), NEW d, NEW p \in Int, Holds(d, p, Bytes4(w))
    PROVE  Word4(d, p) = w
<1> DEFINE hi == Get(w, 16, 16)
           lo == Get(w, 0, 16)
<1>1. w \in SUBSET Int /\ w \subseteq 0 .. 31
  BY DEF Word, Low
<1>2. hi \in Word(16) /\ lo \in Word(16) /\ hi \in SUBSET Int /\ lo \in SUBSET Int
  <2>1. hi \in Word(16) /\ lo \in Word(16)
    BY <1>1, GetWord
  <2> HIDE DEF hi, lo
  <2> QED BY <2>1, WordInts
<1>3. /\ Get(hi, 8, 8) = Get(w, 24, 8) /\ Get(hi, 0, 8) = Get(w, 16, 8)
      /\ Get(lo, 8, 8) = Get(w, 8, 8) /\ Get(lo, 0, 8) = Get(w, 0, 8)
  BY <1>1, GetGet
<1>4. /\ d[p + 1] = Get(w, 24, 8) /\ d[p + 2] = Get(w, 16, 8)
      /\ d[p + 3] = Get(w, 8, 8) /\ d[p + 4] = Get(w, 0, 8)
  BY DEF Holds, Bytes4
<1>5. Holds(d, p, Bytes2(hi)) /\ Holds(d, p + 2, Bytes2(lo))
  <2> HIDE DEF hi, lo
  <2> QED BY <1>3, <1>4 DEF Holds, Bytes2
<1>6. Word2(d, p) = hi /\ Word2(d, p + 2) = lo
  BY <1>2, <1>5, Word2OfBytes2
<1>7. ASSUME NEW x \in Int PROVE x \in Shl(hi, 16) \cup lo <=> x \in w
  <2>1. x \in Shl(hi, 16) <=> x - 16 \in hi
    BY <1>2, InShl
  <2>2. x - 16 \in hi <=> x - 16 \in 0 .. 15 /\ (x - 16) + 16 \in w
    BY <1>1, InGet
  <2>3. x \in lo <=> x \in 0 .. 15 /\ x + 0 \in w
    BY <1>1, InGet
  <2> HIDE DEF hi, lo
  <2> QED BY <1>1, <2>1, <2>2, <2>3
<1>8. Shl(hi, 16) \cup lo \in SUBSET Int
  BY <1>2, ShlInts
<1> QED BY <1>1, <1>6, <1>7, <1>8 DEF Word4

(***************************************************************************)
(* TsHeader::encode and decode agree on every header but for the transport *)
(* priority, which is lost (ts_packet.cpp:47).                             *)
(***************************************************************************)
THEOREM TsHeaderRoundTrip ==
    ASSUME NEW h \in TsHeader, NEW d, NEW p \in Int, Holds(d, p, TsHeader_encode(h))
    PROVE  TsHeader_decode(d, p) = [h EXCEPT !.mTransportPriority = {}]
<1> DEFINE w == Put(h.mPid, 0, 13) \cup Put(h.mTransportPriority, 13, 1)
                  \cup Put(h.mPayloadUnitStartIndicator, 14, 1)
                  \cup Put(h.mTransportErrorIndicator, 15, 1)
           b == Put(h.mContinuityCounter, 0, 4) \cup Put(h.mAdaptationFieldControl, 4, 2)
                  \cup Put(h.mTransportScramblingControl, 6, 2)
<1>1. /\ w \in Word(16)
      /\ Get(w, 0, 13) = h.mPid
      /\ Get(w, 14, 1) = h.mPayloadUnitStartIndicator
      /\ Get(w, 15, 1) = h.mTransportErrorIndicator
  BY TsHeaderWord DEF TsHeader
<1>2. /\ b \in Word(8)
      /\ Get(b, 0, 4) = h.mContinuityCounter
      /\ Get(b, 4, 2) = h.mAdaptationFieldControl
      /\ Get(b, 6, 2) = h.mTransportScramblingControl
  BY TsHeaderByte DEF TsHeader
<1>3. TsHeader_encode(h) = <<h.mSyncByte>> \o Bytes2(w) \o <<b>>
  BY DEF TsHeader_encode
<1>4. h.mSyncByte \in SUBSET Int
  BY WordInts DEF TsHeader, Byte
<1> HIDE DEF w, b
<1>5. w \in SUBSET Int /\ b \in SUBSET Int
  BY <1>1, <1>2, WordInts
<1>6. /\ Are(<<h.mSyncByte>>, 1) /\ Are(Bytes2(w), 2) /\ Are(<<b>>, 1)
      /\ Are(<<h.mSyncByte>> \o Bytes2(w), 3)
  BY <1>4, <1>5, OneByte, TwoBytes, Concat
<1>7. Holds(d, p, <<h.mSyncByte>>) /\ Holds(d, p + 1, Bytes2(w)) /\ Holds(d, p + 3, <<b>>)
  BY <1>3, <1>6, HoldsConcat
<1>8. d[p + 1] = h.mSyncByte /\ d[p + 4] = b
  BY <1>7, ByteAt
<1>9. Word2(d, p + 1) = w
  BY <1>1, <1>7, Word2OfBytes2
<1>10. TsHeader_decode(d, p) =
         [mSyncByte |-> h.mSyncByte, mPid |-> h.mPid, mTransportPriority |-> {},
          mPayloadUnitStartIndicator |-> h.mPayloadUnitStartIndicator,
          mTransportErrorIndicator |-> h.mTransportErrorIndicator,
          mContinuityCounter |-> h.mContinuityCounter,
          mAdaptationFieldControl |-> h.mAdaptationFieldControl,
          mTransportScramblingControl |-> h.mTransportScramblingControl]
  BY <1>1, <1>2, <1>8, <1>9 DEF TsHeader_decode
<1> QED BY <1>10 DEF TsHeader

(***************************************************************************)
(* The adaptation field header comes back whole, but an empty one loses    *)
(* its flags: it is a length byte of 0 and nothing else.                   *)
(***************************************************************************)
THEOREM AdaptationFieldRoundTrip ==
    ASSUME NEW a \in AdaptationFieldHeader, NEW d, NEW p \in Int,
           Holds(d, p, AdaptationFieldHeader_encode(a))
    PROVE  AdaptationFieldHeader_decode(d, p) =
               IF a.mAdaptationFieldLength = {} THEN NoAdaptationField ELSE a
<1> DEFINE w == AdaptationFieldFlags(a)
<1>1. CASE a.mAdaptationFieldLength = {}
  <2>1. d[p + 1] = {}
    BY <1>1 DEF AdaptationFieldHeader_encode, Holds
  <2> QED BY <1>1, <2>1 DEF AdaptationFieldHeader_decode
<1>2. CASE a.mAdaptationFieldLength # {}
  <2>1. d[p + 1] = a.mAdaptationFieldLength /\ d[p + 2] = w
    <3> HIDE DEF w
    <3>1. AdaptationFieldHeader_encode(a) = <<a.mAdaptationFieldLength, w>>
      BY <1>2 DEF AdaptationFieldHeader_encode, w
    <3> QED BY <3>1 DEF Holds
  <2>2. /\ Get(w, 0, 1) = a.mAdaptationFieldExtensionFlag
        /\ Get(w, 1, 1) = a.mTransportPrivateDataFlag
        /\ Get(w, 2, 1) = a.mSplicingPointFlag
        /\ Get(w, 3, 1) = a.mOpcrFlag
        /\ Get(w, 4, 1) = a.mPcrFlag
        /\ Get(w, 5, 1) = a.mElementaryStreamPriorityIndicator
        /\ Get(w, 6, 1) = a.mRandomAccessIndicator
        /\ Get(w, 7, 1) = a.mDiscontinuityIndicator
    BY FlagsByte
  <2> HIDE DEF w
  <2>3. AdaptationFieldHeader_decode(d, p) =
          [mAdaptationFieldLength |-> a.mAdaptationFieldLength,
           mAdaptationFieldExtensionFlag |-> a.mAdaptationFieldExtensionFlag,
           mTransportPrivateDataFlag |-> a.mTransportPrivateDataFlag,
           mSplicingPointFlag |-> a.mSplicingPointFlag, mOpcrFlag |-> a.mOpcrFlag,
           mPcrFlag |-> a.mPcrFlag,
           mElementaryStreamPriorityIndicator |-> a.mElementaryStreamPriorityIndicator,
           mRandomAccessIndicator |-> a.mRandomAccessIndicator,
           mDiscontinuityIndicator |-> a.mDiscontinuityIndicator]
    BY <1>2, <2>1, <2>2 DEF AdaptationFieldHeader_decode
  <2> QED BY <1>2, <2>3 DEF AdaptationFieldHeader
<1> QED BY <1>1, <1>2

(***************************************************************************)
(* The head of a PAT or PMT section comes back whole, the length under     *)
(* either mask.                                                            *)
(***************************************************************************)
THEOREM SectionHeadRoundTrip ==
    ASSUME NEW h \in SectionHead, NEW lengthBits \in {12, 16}, NEW d, NEW p \in Int,
           Holds(d, p, SectionHead_encode(h, lengthBits))
    PROVE  SectionHead_decode(d, p) = h
<1> DEFINE w == Put(h.mSectionLength, 0, lengthBits) \cup Put(h.mReserved0, 12, 2)
                  \cup Put(h.mB0, 14, 1) \cup Put(h.mSectionSyntaxIndicator, 15, 1)
           b == Put(h.mCurrentNextIndicator, 0, 1) \cup Put(h.mVersionNumber, 1, 5)
                  \cup Put(h.mReserved1, 6, 2)
<1>1. Put(h.mSectionLength, 0, lengthBits) = Put(h.mSectionLength, 0, 12)
  <2>1. h.mSectionLength \in SUBSET Int /\ h.mSectionLength \subseteq 0 .. 11
    BY DEF SectionHead, Word, Low
  <2>2. ASSUME NEW x
        PROVE  x \in Put(h.mSectionLength, 0, lengthBits) <=> x \in Put(h.mSectionLength, 0, 12)
    <3>1. x \in Put(h.mSectionLength, 0, lengthBits)
            <=> x \in 0 .. 0 + lengthBits - 1 /\ x - 0 \in h.mSectionLength
      BY <2>1, InPut
    <3>2. x \in Put(h.mSectionLength, 0, 12) <=> x \in 0 .. 0 + 12 - 1 /\ x - 0 \in h.mSectionLength
      BY <2>1, InPut
    <3> QED BY <2>1, <3>1, <3>2
  <2> QED BY <2>2
<1>2. /\ w \in Word(16)
      /\ Get(w, 0, 12) = h.mSectionLength
      /\ Get(w, 12, 2) = h.mReserved0
      /\ Get(w, 14, 1) = h.mB0
      /\ Get(w, 15, 1) = h.mSectionSyntaxIndicator
  BY <1>1, SectionWord DEF SectionHead
<1>3. /\ b \in Word(8)
      /\ Get(b, 0, 1) = h.mCurrentNextIndicator
      /\ Get(b, 1, 5) = h.mVersionNumber
      /\ Get(b, 6, 2) = h.mReserved1
  BY SectionByte DEF SectionHead
<1> DEFINE last == <<b, h.mSectionNumber, h.mLastSectionNumber>>
<1>4. SectionHead_encode(h, lengthBits) = <<h.mTableId>> \o Bytes2(w) \o Bytes2(h.number) \o last
  BY DEF SectionHead_encode
<1> HIDE DEF w, b
<1>5. /\ w \in SUBSET Int /\ b \in SUBSET Int /\ h.mTableId \in SUBSET Int
      /\ h.number \in Word(16) /\ h.number \in SUBSET Int
      /\ h.mSectionNumber \in SUBSET Int /\ h.mLastSectionNumber \in SUBSET Int
  BY <1>2, <1>3, WordInts DEF SectionHead, Byte
<1>6. /\ Are(<<h.mTableId>>, 1) /\ Are(Bytes2(w), 2) /\ Are(Bytes2(h.number), 2) /\ Are(last, 3)
      /\ \A e, q : Holds(e, q, last) =>
            e[q + 1] = b /\ e[q + 2] = h.mSectionNumber /\ e[q + 3] = h.mLastSectionNumber
  BY <1>5, OneByte, TwoBytes, ThreeBytes
<1> HIDE DEF last
<1>7. /\ Are(<<h.mTableId>> \o Bytes2(w), 3)
      /\ Are(<<h.mTableId>> \o Bytes2(w) \o Bytes2(h.number), 5)
  BY <1>6, Concat
<1>8. /\ Holds(d, p, <<h.mTableId>> \o Bytes2(w) \o Bytes2(h.number))
      /\ Holds(d, p + 5, last)
  BY <1>4, <1>6, <1>7, HoldsConcat
<1>9. Holds(d, p, <<h.mTableId>>) /\ Holds(d, p + 1, Bytes2(w)) /\ Holds(d, p + 3, Bytes2(h.number))
  BY <1>6, <1>7, <1>8, HoldsConcat
<1>10. d[p + 1] = h.mTableId /\ Word2(d, p + 1) = w /\ Word2(d, p + 3) = h.number
  BY <1>2, <1>5, <1>9, ByteAt, Word2OfBytes2
<1>11. d[p + 6] = b /\ d[p + 7] = h.mSectionNumber /\ d[p + 8] = h.mLastSectionNumber
  BY <1>6, <1>8
<1>12. SectionHead_decode(d, p) =
         [mTableId |-> h.mTableId, mSectionSyntaxIndicator |-> h.mSectionSyntaxIndicator,
          mB0 |-> h.mB0, mReserved0 |-> h.mReserved0, mSectionLength |-> h.mSectionLength,
          number |-> h.number, mReserved1 |-> h.mReserved1, mVersionNumber |-> h.mVersionNumber,
          mCurrentNextIndicator |-> h.mCurrentNextIndicator,
          mSectionNumber |-> h.mSectionNumber, mLastSectionNumber |-> h.mLastSectionNumber]
  BY <1>2, <1>3, <1>10, <1>11 DEF SectionHead_decode
<1> QED BY <1>12 DEF SectionHead

(***************************************************************************)
(* A PMT entry comes back whole.                                           *)
(***************************************************************************)
THEOREM ElementInfoRoundTrip ==
    ASSUME NEW e \in ElementInfo, NEW d, NEW p \in Int, Holds(d, p, PMTElementInfo_encode(e))
    PROVE  PMTElementInfo_decode(d, p) = e
<1> DEFINE v == Put(e.mElementaryPid, 0, 13) \cup Put(e.mReserved0, 13, 3)
           w == Put(e.mEsInfoLength, 0, 12) \cup Put(e.mReserved1, 12, 4)
<1>1. v \in Word(16) /\ Get(v, 0, 13) = e.mElementaryPid /\ Get(v, 13, 3) = e.mReserved0
  BY PidWord DEF ElementInfo
<1>2. w \in Word(16) /\ Get(w, 0, 12) = e.mEsInfoLength /\ Get(w, 12, 4) = e.mReserved1
  BY LengthWord DEF ElementInfo
<1>3. PMTElementInfo_encode(e) = <<e.mStreamType>> \o Bytes2(v) \o Bytes2(w)
  BY DEF PMTElementInfo_encode
<1> HIDE DEF v, w
<1>4. v \in SUBSET Int /\ w \in SUBSET Int /\ e.mStreamType \in SUBSET Int
  BY <1>1, <1>2, WordInts DEF ElementInfo, Byte
<1>5. /\ Are(<<e.mStreamType>>, 1) /\ Are(Bytes2(v), 2) /\ Are(Bytes2(w), 2)
      /\ Are(<<e.mStreamType>> \o Bytes2(v), 3)
  BY <1>4, OneByte, TwoBytes, Concat
<1>6. Holds(d, p, <<e.mStreamType>>) /\ Holds(d, p + 1, Bytes2(v)) /\ Holds(d, p + 3, Bytes2(w))
  BY <1>3, <1>5, HoldsConcat
<1>7. d[p + 1] = e.mStreamType /\ Word2(d, p + 1) = v /\ Word2(d, p + 3) = w
  BY <1>1, <1>2, <1>6, ByteAt, Word2OfBytes2
<1>8. PMTElementInfo_decode(d, p) =
        [mStreamType |-> e.mStreamType, mElementaryPid |-> e.mElementaryPid,
         mReserved0 |-> e.mReserved0, mEsInfoLength |-> e.mEsInfoLength,
         mReserved1 |-> e.mReserved1]
  BY <1>1, <1>2, <1>7 DEF PMTElementInfo_decode
<1> QED BY <1>8 DEF ElementInfo

(***************************************************************************)
(* A PES header comes back whole.                                          *)
(***************************************************************************)
THEOREM PesHeaderRoundTrip ==
    ASSUME NEW h \in PESHeader, NEW d, NEW p \in Int, Holds(d, p, PESHeader_encode(h))
    PROVE  PESHeader_decode(d, p) = h
<1> DEFINE w == Put(h.mPacketStartCode, 8, 24) \cup h.mStreamId
           b == Put(h.mOriginalOrCopy, 0, 1) \cup Put(h.mCopyright, 1, 1)
                  \cup Put(h.mDataAlignmentIndicator, 2, 1) \cup Put(h.mPesPriority, 3, 1)
                  \cup Put(h.mPesScramblingControl, 4, 2) \cup Put(h.mMarkerBits, 6, 2)
           c == Put(h.mPesExtFlag, 0, 1) \cup Put(h.mPesCrcFlag, 1, 1)
                  \cup Put(h.mAddCopyInfoFlag, 2, 1) \cup Put(h.mDsmTrickModeFlag, 3, 1)
                  \cup Put(h.mEsRateFlag, 4, 1) \cup Put(h.mEscrFlag, 5, 1)
                  \cup Put(h.mPtsDtsFlags, 6, 2)
           last == <<b, c, h.mHeaderDataLength>>
<1>1. w \in Word(32) /\ Get(w, 8, 24) = h.mPacketStartCode /\ Get(w, 0, 8) = h.mStreamId
  <2>1. h.mPacketStartCode \in Word(24) /\ h.mStreamId \in Word(8)
    BY DEF PESHeader, Byte
  <2>2. w \in Word(32) /\ w \in SUBSET Int
    BY <2>1 DEF Put, Word, Low
  <2>3. Get(w, 8, 24) = h.mPacketStartCode
    <3>1. \A x \in 8 .. 8 + 24 - 1 : x \in w <=> x \in Put(h.mPacketStartCode, 8, 24)
      BY <2>1 DEF Word, Low
    <3> QED BY <2>1, <2>2, <3>1, Field
  <2>4. Get(w, 0, 8) = h.mStreamId
    <3>1. ASSUME NEW x \in 0 .. 0 + 8 - 1 PROVE x \in w <=> x \in Put(h.mStreamId, 0, 8)
      <4>1. x \in Put(h.mStreamId, 0, 8) <=> x \in 0 .. 0 + 8 - 1 /\ x - 0 \in h.mStreamId
        BY <2>1, WordInts, InPut
      <4>2. x \notin Put(h.mPacketStartCode, 8, 24)
        BY DEF Put
      <4> QED BY <4>1, <4>2
    <3> QED BY <2>1, <2>2, <3>1, Field
  <2> QED BY <2>2, <2>3, <2>4
<1>2. /\ b \in Word(8)
      /\ Get(b, 0, 1) = h.mOriginalOrCopy /\ Get(b, 1, 1) = h.mCopyright
      /\ Get(b, 2, 1) = h.mDataAlignmentIndicator /\ Get(b, 3, 1) = h.mPesPriority
      /\ Get(b, 4, 2) = h.mPesScramblingControl /\ Get(b, 6, 2) = h.mMarkerBits
  BY PesFlags
<1>3. /\ c \in Word(8)
      /\ Get(c, 0, 1) = h.mPesExtFlag /\ Get(c, 1, 1) = h.mPesCrcFlag
      /\ Get(c, 2, 1) = h.mAddCopyInfoFlag /\ Get(c, 3, 1) = h.mDsmTrickModeFlag
      /\ Get(c, 4, 1) = h.mEsRateFlag /\ Get(c, 5, 1) = h.mEscrFlag
      /\ Get(c, 6, 2) = h.mPtsDtsFlags
  BY PesMoreFlags
<1>4. PESHeader_encode(h) = Bytes4(w) \o Bytes2(h.mPesPacketLength) \o last
  BY DEF PESHeader_encode
<1> HIDE DEF w, b, c
<1>5. /\ w \in SUBSET Int /\ b \in SUBSET Int /\ c \in SUBSET Int
      /\ h.mPesPacketLength \in Word(16) /\ h.mPesPacketLength \in SUBSET Int
      /\ h.mHeaderDataLength \in SUBSET Int
  BY <1>1, <1>2, <1>3, WordInts DEF PESHeader, Byte
<1>6. /\ Are(Bytes4(w), 4) /\ Are(Bytes2(h.mPesPacketLength), 2) /\ Are(last, 3)
      /\ \A e, q : Holds(e, q, last) =>
            e[q + 1] = b /\ e[q + 2] = c /\ e[q + 3] = h.mHeaderDataLength
  BY <1>5, TwoBytes, FourBytes, ThreeBytes
<1> HIDE DEF last
<1>7. Are(Bytes4(w) \o Bytes2(h.mPesPacketLength), 6)
  BY <1>6, Concat
<1>8. Holds(d, p, Bytes4(w)) /\ Holds(d, p + 4, Bytes2(h.mPesPacketLength)) /\ Holds(d, p + 6, last)
  BY <1>4, <1>6, <1>7, HoldsConcat
<1>9. Word4(d, p) = w /\ Word2(d, p + 4) = h.mPesPacketLength
  BY <1>1, <1>5, <1>8, Word4OfBytes4, Word2OfBytes2
<1>10. d[p + 7] = b /\ d[p + 8] = c /\ d[p + 9] = h.mHeaderDataLength
  BY <1>6, <1>8
<1>11. PESHeader_decode(d, p) =
         [mPacketStartCode |-> h.mPacketStartCode, mStreamId |-> h.mStreamId,
          mPesPacketLength |-> h.mPesPacketLength, mOriginalOrCopy |-> h.mOriginalOrCopy,
          mCopyright |-> h.mCopyright, mDataAlignmentIndicator |-> h.mDataAlignmentIndicator,
          mPesPriority |-> h.mPesPriority, mPesScramblingControl |-> h.mPesScramblingControl,
          mMarkerBits |-> h.mMarkerBits, mPesExtFlag |-> h.mPesExtFlag,
          mPesCrcFlag |-> h.mPesCrcFlag, mAddCopyInfoFlag |-> h.mAddCopyInfoFlag,
          mDsmTrickModeFlag |-> h.mDsmTrickModeFlag, mEsRateFlag |-> h.mEsRateFlag,
          mEscrFlag |-> h.mEscrFlag, mPtsDtsFlags |-> h.mPtsDtsFlags,
          mHeaderDataLength |-> h.mHeaderDataLength]
  BY <1>1, <1>2, <1>3, <1>9, <1>10 DEF PESHeader_decode
<1> QED BY <1>11 DEF PESHeader
-----------------------------------------------------------------------------
(* A part of a timestamp, shifted up by the marker bit.                    *)
LEMMA Marked ==
    ASSUME NEW w \in SUBSET Int, NEW at \in Nat, NEW n \in Nat, NEW v \in SUBSET Int,
           \A b \in 1 .. n : b \in v <=> b \in Shl(Get(w, at, n), 1) \cup {0}
    PROVE  Get(v, 1, n) = Get(w, at, n)
<1>1. Get(w, at, n) \in Word(n) /\ Get(w, at, n) \in SUBSET Int
  BY GetWord DEF Word, Low
<1>2. ASSUME NEW b \in 1 .. 1 + n - 1 PROVE b \in v <=> b \in Put(Get(w, at, n), 1, n)
  <2>1. b \in v <=> b \in Shl(Get(w, at, n), 1)
    OBVIOUS
  <2>2. b \in Shl(Get(w, at, n), 1) <=> b - 1 \in Get(w, at, n)
    BY <1>1, InShl
  <2>3. b \in Put(Get(w, at, n), 1, n) <=> b - 1 \in Get(w, at, n)
    BY <1>1, InPut
  <2> QED BY <2>1, <2>2, <2>3
<1> QED BY <1>1, <1>2, Field

(***************************************************************************)
(* The 33 bits of a timestamp come back, and no more than they, whatever   *)
(* the four bits before it.                                                *)
(***************************************************************************)
THEOREM TimestampRoundTrip ==
    ASSUME NEW lFb \in Word(4), NEW lPts \in SUBSET Int, NEW d, NEW p \in Int,
           Holds(d, p, writePts(lFb, lPts))
    PROVE  readPts(d, p) = lPts \cap Low(33)
<1> DEFINE a == (Shl(lFb, 4) \cup Shl(Get(lPts, 30, 3), 1) \cup {0}) \cap Low(8)
           b == Shl(Get(lPts, 15, 15), 1) \cup {0}
           c == Shl(Get(lPts, 0, 15), 1) \cup {0}
<1>1. /\ Get(lPts, 30, 3) \in Word(3) /\ Get(lPts, 30, 3) \in SUBSET Int
      /\ Get(lPts, 15, 15) \in Word(15) /\ Get(lPts, 15, 15) \in SUBSET Int
      /\ Get(lPts, 0, 15) \in Word(15) /\ Get(lPts, 0, 15) \in SUBSET Int
  BY GetWord DEF Word, Low
<1>2. b \in Word(16) /\ c \in Word(16) /\ a \in SUBSET Int
  BY <1>1 DEF Shl, Word, Low
<1>3. Get(a, 1, 3) = Get(lPts, 30, 3)
  <2>1. ASSUME NEW x \in 1 .. 3 PROVE x \in a <=> x \in Shl(Get(lPts, 30, 3), 1) \cup {0}
    <3>1. x \notin Shl(lFb, 4)
      BY InShl, WordInts DEF Word, Low
    <3> QED BY <3>1 DEF Low
  <2> HIDE DEF a
  <2> QED BY <1>2, <2>1, Marked
<1>4. Get(b, 1, 15) = Get(lPts, 15, 15) /\ Get(c, 1, 15) = Get(lPts, 0, 15)
  <2>1. b \in SUBSET Int /\ c \in SUBSET Int
    BY <1>2, WordInts
  <2>2. Get(b, 1, 15) = Get(lPts, 15, 15)
    BY <2>1, Marked
  <2>3. Get(c, 1, 15) = Get(lPts, 0, 15)
    BY <2>1, Marked
  <2> QED BY <2>2, <2>3
<1>5. writePts(lFb, lPts) = <<a>> \o Bytes2(b) \o Bytes2(c)
  BY DEF writePts
<1> HIDE DEF a, b, c
<1>6. b \in SUBSET Int /\ c \in SUBSET Int
  BY <1>2, WordInts
<1>7. Are(<<a>>, 1) /\ Are(Bytes2(b), 2) /\ Are(Bytes2(c), 2) /\ Are(<<a>> \o Bytes2(b), 3)
  BY <1>2, <1>6, OneByte, TwoBytes, Concat
<1>8. Holds(d, p, <<a>>) /\ Holds(d, p + 1, Bytes2(b)) /\ Holds(d, p + 3, Bytes2(c))
  BY <1>5, <1>7, HoldsConcat
<1>9. d[p + 1] = a /\ Word2(d, p + 1) = b /\ Word2(d, p + 3) = c
  BY <1>2, <1>8, ByteAt, Word2OfBytes2
<1>10. readPts(d, p) =
         Shl(Get(lPts, 30, 3), 30) \cup Shl(Get(lPts, 15, 15), 15) \cup Get(lPts, 0, 15)
  BY <1>3, <1>4, <1>9 DEF readPts
<1>11. ASSUME NEW x \in Int PROVE x \in readPts(d, p) <=> x \in lPts \cap Low(33)
  <2>1. x \in Shl(Get(lPts, 30, 3), 30) <=> x - 30 \in 0 .. 2 /\ (x - 30) + 30 \in lPts
    BY <1>1, InShl, InGet
  <2>2. x \in Shl(Get(lPts, 15, 15), 15) <=> x - 15 \in 0 .. 14 /\ (x - 15) + 15 \in lPts
    BY <1>1, InShl, InGet
  <2>3. x \in Get(lPts, 0, 15) <=> x \in 0 .. 14 /\ x + 0 \in lPts
    BY InGet
  <2>4. x \in lPts \cap Low(33) <=> x \in 0 .. 32 /\ x \in lPts
    BY DEF Low
  <2> QED BY <1>10, <2>1, <2>2, <2>3, <2>4
<1>12. readPts(d, p) \in SUBSET Int
  BY <1>1, <1>10, ShlInts
<1> QED BY <1>11, <1>12 DEF Low

(***************************************************************************)
(* The 33 bits of a PCR come back, the extension of 9 bits being 0.        *)
(***************************************************************************)
THEOREM PcrRoundTrip ==
    ASSUME NEW lPcr \in SUBSET Int, NEW d, NEW p \in Int, Holds(d, p, writePcr(lPcr))
    PROVE  readPcr(d, p) = lPcr \cap Low(33)
<1> DEFINE low == Put(lPcr, 7, 1) \cup 1 .. 6
<1>1. /\ d[p + 1] = Get(lPcr, 25, 8) /\ d[p + 2] = Get(lPcr, 17, 8) /\ d[p + 3] = Get(lPcr, 9, 8)
      /\ d[p + 4] = Get(lPcr, 1, 8) /\ d[p + 5] = low
  <2>1. writePcr(lPcr) = <<Get(lPcr, 25, 8), Get(lPcr, 17, 8), Get(lPcr, 9, 8), Get(lPcr, 1, 8), low, {}>>
    BY DEF writePcr
  <2> HIDE DEF low
  <2> QED BY <2>1 DEF Holds
<1>2. ASSUME NEW at \in Nat, NEW x \in Int
      PROVE  x \in Put(Get(lPcr, at, 8), at, 8) <=> x \in at .. at + 7 /\ x \in lPcr
  <2>1. Get(lPcr, at, 8) \in SUBSET Int
    BY GetWord DEF Word, Low
  <2>2. x \in Put(Get(lPcr, at, 8), at, 8) <=> x \in at .. at + 8 - 1 /\ x - at \in Get(lPcr, at, 8)
    BY <2>1, InPut
  <2>3. x - at \in Get(lPcr, at, 8) <=> x - at \in 0 .. 8 - 1 /\ (x - at) + at \in lPcr
    BY InGet
  <2> QED BY <2>2, <2>3
<1>3. ASSUME NEW x \in Int PROVE x \in Get(low, 7, 1) <=> x = 0 /\ x \in lPcr
  <2>1. low \in SUBSET Int
    BY PutInts
  <2>2. x \in Get(low, 7, 1) <=> x \in 0 .. 1 - 1 /\ x + 7 \in low
    BY <2>1, InGet
  <2>3. x + 7 \in Put(lPcr, 7, 1) <=> x + 7 \in 7 .. 7 + 1 - 1 /\ (x + 7) - 7 \in lPcr
    BY InPut
  <2> QED BY <2>2, <2>3
<1>4. Get(low, 7, 1) \in SUBSET Int
  BY PutInts, GetWord DEF Word, Low
<1> HIDE DEF low
<1>5. readPcr(d, p) = Put(Get(lPcr, 25, 8), 25, 8) \cup Put(Get(lPcr, 17, 8), 17, 8)
                        \cup Put(Get(lPcr, 9, 8), 9, 8) \cup Put(Get(lPcr, 1, 8), 1, 8)
                        \cup Get(low, 7, 1)
  BY <1>1 DEF readPcr
<1>6. ASSUME NEW x \in Int PROVE x \in readPcr(d, p) <=> x \in lPcr \cap Low(33)
  BY <1>2, <1>3, <1>5 DEF Low
<1>7. readPcr(d, p) \in SUBSET Int
  BY <1>4, <1>5, PutInts
<1> QED BY <1>6, <1>7 DEF Low

(***************************************************************************)
(* write1Byte to write8Bytes and their readers agree, for every number of  *)
(* bytes and every word that fits.                                         *)
(***************************************************************************)
THEOREM IntegerRoundTrip ==
    ASSUME NEW n \in Nat, NEW w \in Word(8 * n), NEW d, NEW p \in Int, Holds(d, p, BytesOf(w, n))
    PROVE  WordAt(d, p, n) = w
<1>1. w \in SUBSET Int /\ w \subseteq 0 .. 8 * n - 1
  BY DEF Word, Low
<1>2. ASSUME NEW i \in 1 .. n PROVE d[p + i] = Get(w, 8 * (n - i), 8)
  BY DEF Holds, BytesOf
<1>3. ASSUME NEW i \in 1 .. n, NEW x \in Int
      PROVE  x \in Shl(d[p + i], 8 * (n - i)) <=> x - 8 * (n - i) \in 0 .. 7 /\ x \in w
  <2>1. 8 * (n - i) \in Nat
    OBVIOUS
  <2>2. PICK s \in Nat : s = 8 * (n - i)
    BY <2>1
  <2>3. Get(w, s, 8) \in SUBSET Int
    BY <1>1, GetWord DEF Word, Low
  <2>4. x \in Shl(Get(w, s, 8), s) <=> x - s \in Get(w, s, 8)
    BY <2>3, InShl
  <2>5. x - s \in Get(w, s, 8) <=> x - s \in 0 .. 8 - 1 /\ (x - s) + s \in w
    BY <1>1, InGet
  <2>6. (x - s) + s = x
    OBVIOUS
  <2> QED BY <1>2, <2>2, <2>4, <2>5, <2>6
<1>4. ASSUME NEW x \in w PROVE x \in WordAt(d, p, n)
  <2>1. x \in 0 .. 8 * n - 1
    BY <1>1
  <2>2. PICK q \in Int : q = x \div 8
    BY <2>1
  <2>3. x - 8 * q \in 0 .. 7 /\ q \in 0 .. n - 1
    BY <2>1, <2>2
  <2>4. PICK i \in 1 .. n : i = n - q
    BY <2>3
  <2>5. x - 8 * (n - i) \in 0 .. 7
    BY <2>3, <2>4
  <2> QED BY <1>3, <2>1, <2>5 DEF WordAt
<1>5. ASSUME NEW x \in WordAt(d, p, n) PROVE x \in w
  <2>1. PICK i \in 1 .. n : x \in Shl(d[p + i], 8 * (n - i))
    BY <1>5 DEF WordAt
  <2>2. x \in Int
    <3>1. Get(w, 8 * (n - i), 8) \in SUBSET Int
      <4>1. 8 * (n - i) \in Nat
        OBVIOUS
      <4> QED BY <1>1, <4>1, GetWord DEF Word, Low
    <3> QED BY <1>2, <2>1, <3>1, ShlInts
  <2> QED BY <1>3, <2>1, <2>2
<1> QED BY <1>4, <1>5
-----------------------------------------------------------------------------
(* Induction over the natural numbers, for a set of them.                  *)
LEMMA AllNaturals ==
    ASSUME NEW S, 0 \in S, \A n \in Nat : n \in S => n + 1 \in S
    PROVE  \A n \in Nat : n \in S
<1> SUFFICES ASSUME NEW m \in Nat, m \notin S PROVE FALSE
  OBVIOUS
<1> DEFINE T == Nat \ S
<1>1. T \subseteq Nat /\ T # {}
  OBVIOUS
<1>2. PICK k \in T : \A y \in T : ~(<<y, k>> \in OpToRel(<, Nat))
  <2> HIDE DEF T
  <2> QED BY <1>1, WFMin, NatLessThanWellFounded
<1>3. k # 0 /\ k \in Nat
  OBVIOUS
<1>4. k - 1 \in Nat /\ k = (k - 1) + 1 /\ k - 1 < k
  BY <1>3
<1>5. k - 1 \in S
  BY <1>2, <1>4 DEF OpToRel
<1> QED BY <1>4, <1>5
-----------------------------------------------------------------------------
(* The concatenation of sequences of bytes, as FlattenSeq builds it.       *)
Bytes == Seq(SUBSET Int)
Builds(f, ss) ==
    f = [i \in 1 .. Len(ss) |-> IF i = 1 THEN ss[1] ELSE f[i - 1] \o ss[i]]

LEMMA BuildsInts ==
    ASSUME NEW ss \in Seq(Bytes), NEW f, Builds(f, ss)
    PROVE  \A i \in 1 .. Len(ss) : f[i] \in Bytes
<1> DEFINE S == {n \in Nat : n + 1 \in 1 .. Len(ss) => f[n + 1] \in Bytes}
<1>a. \A i \in 1 .. Len(ss) : ss[i] \in Bytes
  OBVIOUS
<1>b. \A i \in 1 .. Len(ss) : f[i] = IF i = 1 THEN ss[1] ELSE f[i - 1] \o ss[i]
  BY Zenon DEF Builds
<1>0. \A i \in 1 .. Len(ss) : /\ ss[i] \in Bytes
                              /\ f[i] = IF i = 1 THEN ss[1] ELSE f[i - 1] \o ss[i]
  BY <1>a, <1>b
<1>1. 0 \in S
  BY <1>0
<1>2. ASSUME NEW n \in Nat, n \in S PROVE n + 1 \in S
  <2> SUFFICES ASSUME n + 2 \in 1 .. Len(ss) PROVE f[n + 2] \in Bytes
    OBVIOUS
  <2>1. f[n + 1] \in Bytes
    BY <1>2
  <2>2. f[n + 2] = f[n + 1] \o ss[n + 2]
    <3>1. n + 2 # 1 /\ (n + 2) - 1 = n + 1
      OBVIOUS
    <3>2. f[n + 2] = IF n + 2 = 1 THEN ss[1] ELSE f[(n + 2) - 1] \o ss[n + 2]
      BY <1>b
    <3> QED BY <3>1, <3>2
  <2>3. ss[n + 2] \in Bytes
    BY <1>0
  <2> QED BY <2>1, <2>2, <2>3 DEF Bytes
<1>3. \A n \in Nat : n \in S
  <2> HIDE DEF S
  <2> QED BY <1>1, <1>2, AllNaturals
<1>4. ASSUME NEW i \in 1 .. Len(ss) PROVE f[i] \in Bytes
  <2>1. i - 1 \in Nat /\ (i - 1) + 1 = i
    OBVIOUS
  <2> QED BY <1>3, <2>1
<1> QED BY <1>4

LEMMA BuildsOnce ==
    ASSUME NEW ss, NEW f, NEW g, Builds(f, ss), Builds(g, ss), Len(ss) \in Nat
    PROVE  \A i \in 1 .. Len(ss) : f[i] = g[i]
<1> DEFINE S == {n \in Nat : n + 1 \in 1 .. Len(ss) => f[n + 1] = g[n + 1]}
<1>0. \A i \in 1 .. Len(ss) : /\ f[i] = IF i = 1 THEN ss[1] ELSE f[i - 1] \o ss[i]
                              /\ g[i] = IF i = 1 THEN ss[1] ELSE g[i - 1] \o ss[i]
  BY DEF Builds
<1>1. 0 \in S
  BY <1>0
<1>2. ASSUME NEW n \in Nat, n \in S PROVE n + 1 \in S
  <2> SUFFICES ASSUME n + 2 \in 1 .. Len(ss) PROVE f[n + 2] = g[n + 2]
    OBVIOUS
  <2>1. f[n + 1] = g[n + 1]
    BY <1>2
  <2>2. f[n + 2] = f[n + 1] \o ss[n + 2] /\ g[n + 2] = g[n + 1] \o ss[n + 2]
    <3>1. n + 2 # 1 /\ (n + 2) - 1 = n + 1
      OBVIOUS
    <3>2. /\ f[n + 2] = IF n + 2 = 1 THEN ss[1] ELSE f[(n + 2) - 1] \o ss[n + 2]
          /\ g[n + 2] = IF n + 2 = 1 THEN ss[1] ELSE g[(n + 2) - 1] \o ss[n + 2]
      BY <1>0
    <3> QED BY <3>1, <3>2
  <2> QED BY <2>1, <2>2
<1>3. \A n \in Nat : n \in S
  <2> HIDE DEF S
  <2> QED BY <1>1, <1>2, AllNaturals
<1>4. ASSUME NEW i \in 1 .. Len(ss) PROVE f[i] = g[i]
  <2>1. i - 1 \in Nat /\ (i - 1) + 1 = i
    OBVIOUS
  <2> QED BY <1>3, <2>1
<1> QED BY <1>4

LEMMA FlattenIs ==
    ASSUME NEW ss, NEW f, Builds(f, ss), Len(ss) \in Nat \ {0}
    PROVE  FlattenSeq(ss) = f[Len(ss)]
<1> DEFINE g == CHOOSE h : h = [i \in 1 .. Len(ss) |-> IF i = 1 THEN ss[i] ELSE h[i - 1] \o ss[i]]
<1>1. f = [i \in 1 .. Len(ss) |-> IF i = 1 THEN ss[i] ELSE f[i - 1] \o ss[i]]
  BY DEF Builds
<1>2. g = [i \in 1 .. Len(ss) |-> IF i = 1 THEN ss[i] ELSE g[i - 1] \o ss[i]]
  BY <1>1, Zenon
<1>3. FlattenSeq(ss) = g[Len(ss)]
  BY Zenon DEF FlattenSeq
<1> HIDE DEF g
<1>4. Builds(g, ss)
  BY <1>2 DEF Builds
<1>5. g[Len(ss)] = f[Len(ss)]
  BY <1>4, BuildsOnce
<1> QED BY <1>3, <1>5

LEMMA BuildsAppend ==
    ASSUME NEW ss \in Seq(Bytes), NEW x \in Bytes, NEW f, Builds(f, ss)
    PROVE  Builds([i \in 1 .. Len(ss) + 1 |->
                     IF i <= Len(ss) THEN f[i] ELSE IF i = 1 THEN x ELSE f[i - 1] \o x],
                  Append(ss, x))
<1> DEFINE n == Len(ss)
           g == [i \in 1 .. n + 1 |-> IF i <= n THEN f[i] ELSE IF i = 1 THEN x ELSE f[i - 1] \o x]
           tt == Append(ss, x)
<1>1. n \in Nat /\ Len(tt) = n + 1
  OBVIOUS
<1>2. (\A i \in 1 .. n : tt[i] = ss[i]) /\ tt[n + 1] = x
  OBVIOUS
<1>3. \A i \in 1 .. n : f[i] = IF i = 1 THEN ss[1] ELSE f[i - 1] \o ss[i]
  BY Zenon DEF Builds
<1> HIDE DEF tt, n
<1>4. ASSUME NEW i \in 1 .. n + 1
      PROVE  g[i] = IF i = 1 THEN tt[1] ELSE g[i - 1] \o tt[i]
  <2>1. CASE i <= n
    <3>1. i \in 1 .. n /\ g[i] = f[i] /\ tt[i] = ss[i]
      BY <1>1, <1>2, <2>1
    <3>2. i # 1 => g[i - 1] = f[i - 1]
      BY <1>1, <2>1
    <3> HIDE DEF g
    <3> QED BY <3>1, <3>2, <1>3
  <2>2. CASE i = n + 1
    <3>1. tt[i] = x
      BY <1>2, <2>2
    <3>2. CASE i = 1
      <4>1. g[i] = x
        BY <1>1, <2>2, <3>2
      <4> HIDE DEF g
      <4> QED BY <3>1, <3>2, <4>1
    <3>3. CASE i # 1
      <4>1. g[i] = f[i - 1] \o x
        BY <1>1, <2>2, <3>3
      <4>2. g[i - 1] = f[i - 1]
        BY <1>1, <2>2, <3>3
      <4> HIDE DEF g
      <4> QED BY <3>1, <3>3, <4>1, <4>2
    <3> QED BY <3>2, <3>3
  <2> QED BY <1>1, <2>1, <2>2
<1>5. g = [i \in 1 .. n + 1 |-> g[i]]
  OBVIOUS
<1> HIDE DEF g
<1>6. g = [i \in 1 .. n + 1 |-> IF i = 1 THEN tt[1] ELSE g[i - 1] \o tt[i]]
  BY <1>4, <1>5
<1>7. Builds(g, tt)
  BY <1>1, <1>6 DEF Builds
<1> QED BY <1>7 DEF g, tt, n

LEMMA BuildsExists ==
    \A ss \in Seq(Bytes) : \E f : Builds(f, ss)
<1> DEFINE S == {n \in Nat : \A ss \in Seq(Bytes) : Len(ss) = n => \E f : Builds(f, ss)}
<1>1. 0 \in S
  <2> SUFFICES ASSUME NEW ss \in Seq(Bytes), Len(ss) = 0 PROVE \E f : Builds(f, ss)
    OBVIOUS
  <2> DEFINE f == [i \in 1 .. Len(ss) |-> ss]
  <2>1. 1 .. Len(ss) = {}
    OBVIOUS
  <2>2. Builds(f, ss)
    BY <2>1 DEF Builds
  <2> QED BY <2>2
<1>2. ASSUME NEW n \in Nat, n \in S PROVE n + 1 \in S
  <2> SUFFICES ASSUME NEW tt \in Seq(Bytes), Len(tt) = n + 1 PROVE \E f : Builds(f, tt)
    OBVIOUS
  <2> DEFINE ss == SubSeq(tt, 1, n)
             x  == tt[n + 1]
  <2>1. ss \in Seq(Bytes) /\ Len(ss) = n /\ x \in Bytes
    OBVIOUS
  <2>2. Append(ss, x) = tt
    OBVIOUS
  <2>3. PICK f : Builds(f, ss)
    BY <1>2, <2>1
  <2> HIDE DEF ss, x
  <2> QED BY <2>1, <2>2, <2>3, BuildsAppend
<1>3. \A n \in Nat : n \in S
  <2> HIDE DEF S
  <2> QED BY <1>1, <1>2, AllNaturals
<1> QED BY <1>3

LEMMA FlattenBytes ==
    ASSUME NEW ss \in Seq(Bytes)
    PROVE  FlattenSeq(ss) \in Bytes
<1>1. CASE Len(ss) = 0
  <2>1. FlattenSeq(ss) = ss
    BY <1>1, Zenon DEF FlattenSeq
  <2>2. ss = <<>>
    BY <1>1
  <2> QED BY <2>1, <2>2 DEF Bytes
<1>2. CASE Len(ss) # 0
  <2>1. PICK f : Builds(f, ss)
    BY BuildsExists
  <2>2. Len(ss) \in Nat \ {0}
    BY <1>2
  <2>3. FlattenSeq(ss) = f[Len(ss)]
    BY <2>1, <2>2, FlattenIs
  <2>4. f[Len(ss)] \in Bytes
    BY <2>1, <2>2, BuildsInts
  <2> QED BY <2>3, <2>4
<1> QED BY <1>1, <1>2

LEMMA FlattenAppend ==
    ASSUME NEW ss \in Seq(Bytes), NEW x \in Bytes
    PROVE  FlattenSeq(Append(ss, x)) = FlattenSeq(ss) \o x
<1> DEFINE n == Len(ss)
           tt == Append(ss, x)
<1>1. PICK f : Builds(f, ss)
  BY BuildsExists
<1> DEFINE g == [i \in 1 .. n + 1 |-> IF i <= n THEN f[i] ELSE IF i = 1 THEN x ELSE f[i - 1] \o x]
<1>2. Builds(g, tt)
  BY <1>1, BuildsAppend, Zenon
<1>3. Len(tt) = n + 1 /\ n \in Nat
  OBVIOUS
<1>4. g[n + 1] = IF n = 0 THEN x ELSE f[n] \o x
  BY <1>3
<1> HIDE DEF g, tt
<1>5. FlattenSeq(tt) = g[n + 1]
  BY <1>2, <1>3, FlattenIs
<1>6. CASE n = 0
  <2>1. FlattenSeq(ss) = ss
    BY <1>6, Zenon DEF FlattenSeq
  <2>2. ss \o x = x
    BY <1>6 DEF Bytes
  <2> QED BY <1>4, <1>5, <1>6, <2>1, <2>2 DEF tt
<1>7. CASE n # 0
  <2>1. FlattenSeq(ss) = f[n]
    BY <1>1, <1>3, <1>7, FlattenIs
  <2> QED BY <1>4, <1>5, <1>7, <2>1 DEF tt
<1> QED BY <1>6, <1>7

LEMMA ConcatTwice ==
    ASSUME NEW a \in Bytes, NEW b \in Bytes, NEW c \in Bytes
    PROVE  (a \o b) \o c = a \o (b \o c)
BY DEF Bytes

LEMMA FlattenCons ==
    ASSUME NEW ss \in Seq(Bytes), NEW x \in Bytes
    PROVE  FlattenSeq(<<x>> \o ss) = x \o FlattenSeq(ss)
<1> DEFINE n == Len(ss)
           tt == <<x>> \o ss
<1>1. PICK f : Builds(f, ss)
  BY BuildsExists
<1> DEFINE g == [i \in 1 .. n + 1 |-> IF i = 1 THEN x ELSE x \o f[i - 1]]
<1>2. /\ tt \in Seq(Bytes) /\ Len(tt) = n + 1 /\ n \in Nat
      /\ tt[1] = x /\ \A i \in 1 .. n : tt[i + 1] = ss[i]
  OBVIOUS
<1>3. \A i \in 1 .. n : f[i] = IF i = 1 THEN ss[1] ELSE f[i - 1] \o ss[i]
  BY <1>1, Zenon DEF Builds
<1>4. \A i \in 1 .. n : f[i] \in Bytes
  BY <1>1, BuildsInts
<1>a. \A i \in 1 .. n + 1 : g[i] = IF i = 1 THEN x ELSE x \o f[i - 1]
  BY Zenon
<1>b. g = [i \in 1 .. n + 1 |-> g[i]]
  OBVIOUS
<1> HIDE DEF tt, g
<1>5. ASSUME NEW i \in 1 .. n + 1
      PROVE  g[i] = IF i = 1 THEN tt[1] ELSE g[i - 1] \o tt[i]
  <2>1. CASE i = 1
    BY <1>2, <1>a, <2>1
  <2>0. i # 1 => g[i] = x \o f[i - 1]
    BY <1>a
  <2>2. CASE i = 2
    <3>0. 1 \in 1 .. n + 1 /\ 2 \in 1 .. n + 1 /\ 1 \in 1 .. n /\ i - 1 = 1 /\ 1 + 1 = 2
      BY <1>2, <2>2
    <3>1. g[1] = x
      BY <1>a, <3>0
    <3>2. i # 1 /\ i - 1 = 1
      BY <2>2
    <3>3. f[1] = ss[1]
      BY <1>3, <3>0
    <3>4. tt[i] = ss[1]
      BY <1>2, <2>2, <3>0
    <3>5. g[i] = x \o f[i - 1] /\ f[i - 1] = tt[i] /\ g[i - 1] = x
      BY <2>0, <3>1, <3>2, <3>3, <3>4, Zenon
    <3> QED BY <3>2, <3>5, Zenon
  <2>3. CASE i > 2
    <3> DEFINE j == i - 1
    <3>0. j \in 1 .. n /\ j - 1 \in 1 .. n /\ j # 1 /\ i = j + 1 /\ i # 1
      BY <1>2, <2>3
    <3>1. g[i] = x \o f[j] /\ g[j] = x \o f[j - 1]
      <4>1. j \in 1 .. n + 1
        BY <3>0
      <4> QED BY <1>a, <3>0, <4>1
    <3> HIDE DEF j
    <3>2. f[j] = f[j - 1] \o ss[j]
      BY <3>0, <1>3
    <3>3. f[j - 1] \in Bytes /\ ss[j] \in Bytes
      BY <3>0, <1>4
    <3>7. x \o (f[j - 1] \o ss[j]) = (x \o f[j - 1]) \o ss[j]
      BY <3>3, ConcatTwice, Zenon
    <3>4. x \o f[j] = (x \o f[j - 1]) \o ss[j]
      BY <3>2, <3>7
    <3>5. tt[i] = ss[j]
      BY <1>2, <3>0
    <3>6. i - 1 = j
      BY DEF j
    <3> QED BY <3>0, <3>1, <3>4, <3>5, <3>6
  <2> QED BY <1>2, <2>1, <2>2, <2>3
<1>6. g[n + 1] = IF n = 0 THEN x ELSE x \o f[n]
  <2>1. n + 1 \in 1 .. n + 1 /\ (n + 1) - 1 = n /\ (n + 1 = 1 <=> n = 0)
    BY <1>2
  <2> QED BY <1>a, <2>1
<1>7. g = [i \in 1 .. n + 1 |-> IF i = 1 THEN tt[1] ELSE g[i - 1] \o tt[i]]
  BY <1>5, <1>b
<1>8. Builds(g, tt)
  BY <1>2, <1>7 DEF Builds
<1>9. FlattenSeq(tt) = g[n + 1]
  BY <1>2, <1>8, FlattenIs
<1>10. CASE n = 0
  <2>1. FlattenSeq(ss) = ss
    BY <1>10, Zenon DEF FlattenSeq
  <2>2. x \o ss = x
    BY <1>10 DEF Bytes
  <2> QED BY <1>6, <1>9, <1>10, <2>1, <2>2 DEF tt
<1>11. CASE n # 0
  <2>1. FlattenSeq(ss) = f[n]
    BY <1>1, <1>2, <1>11, FlattenIs
  <2> QED BY <1>6, <1>9, <1>11, <2>1 DEF tt
<1> QED BY <1>10, <1>11
-----------------------------------------------------------------------------
(* Sums over a finite set, as the folds of the library take them: one      *)
(* element after another, as CHOOSE picks them.                            *)
Pick(s) == CHOOSE x \in s : TRUE
Sums(f, v, S) == f = [s \in SUBSET S |-> IF s = {} THEN 0 ELSE v[Pick(s)] + f[s \ {Pick(s)}]]

LEMMA Picked ==
    ASSUME NEW S, IsFiniteSet(S), NEW s \in SUBSET S, s # {}
    PROVE  /\ Pick(s) \in s
           /\ s \ {Pick(s)} \in SUBSET S
           /\ IsFiniteSet(s) /\ Cardinality(s) \in Nat \ {0}
           /\ Cardinality(s \ {Pick(s)}) = Cardinality(s) - 1
<1>1. Pick(s) \in s
  BY Zenon DEF Pick
<1>2. IsFiniteSet(s)
  BY FS_Subset
<1>3. Cardinality(s) \in Nat /\ Cardinality(s) # 0
  BY <1>2, FS_CardinalityType, FS_EmptySet
<1>4. Cardinality(s \ {Pick(s)}) = Cardinality(s) - 1
  BY <1>1, <1>2, FS_RemoveElement
<1> HIDE DEF Pick
<1> QED BY <1>1, <1>2, <1>3, <1>4

LEMMA SumsExist ==
    ASSUME NEW S, IsFiniteSet(S), NEW v, \A x \in S : v[x] \in Nat
    PROVE  \E f : Sums(f, v, S)
<1> DEFINE K(n) == {s \in SUBSET S : Cardinality(s) <= n}
           Fits(f, n) == \A s \in K(n) : f[s] = IF s = {} THEN 0 ELSE v[Pick(s)] + f[s \ {Pick(s)}]
           N == {n \in Nat : \E f : Fits(f, n)}
<1>1. 0 \in N
  <2> DEFINE f == [s \in SUBSET S |-> 0]
  <2>1. ASSUME NEW s \in K(0) PROVE s = {}
    <3>1. s # {} => Cardinality(s) \in Nat \ {0}
      BY Picked
    <3> QED BY <3>1
  <2>2. Fits(f, 0)
    BY <2>1
  <2> QED BY <2>2
<1>2. ASSUME NEW n \in Nat, n \in N PROVE n + 1 \in N
  <2>1. PICK f : Fits(f, n)
    BY <1>2
  <2> DEFINE g == [s \in SUBSET S |-> IF s = {} THEN 0 ELSE v[Pick(s)] + f[s \ {Pick(s)}]]
  <2>2. ASSUME NEW s \in K(n) PROVE g[s] = f[s]
    BY <2>1
  <2>3. ASSUME NEW s \in K(n + 1), s # {} PROVE s \ {Pick(s)} \in K(n)
    <3>1. /\ s \ {Pick(s)} \in SUBSET S
          /\ Cardinality(s) \in Nat
          /\ Cardinality(s \ {Pick(s)}) = Cardinality(s) - 1
      BY <2>3, Picked
    <3> QED BY <3>1
  <2>4. ASSUME NEW s \in K(n + 1)
        PROVE  g[s] = IF s = {} THEN 0 ELSE v[Pick(s)] + f[s \ {Pick(s)}]
    OBVIOUS
  <2>5. Fits(g, n + 1)
    <3> SUFFICES ASSUME NEW s \in K(n + 1)
                 PROVE  g[s] = IF s = {} THEN 0 ELSE v[Pick(s)] + g[s \ {Pick(s)}]
      OBVIOUS
    <3>1. s # {} => g[s \ {Pick(s)}] = f[s \ {Pick(s)}]
      BY <2>2, <2>3
    <3>2. g[s] = IF s = {} THEN 0 ELSE v[Pick(s)] + f[s \ {Pick(s)}]
      BY <2>4
    <3> HIDE DEF g
    <3> QED BY <3>1, <3>2
  <2> HIDE DEF g, Fits
  <2>6. \E h : Fits(h, n + 1)
    BY <2>5
  <2> QED BY <2>6
<1>3. \A n \in Nat : n \in N
  <2> HIDE DEF N
  <2> QED BY <1>1, <1>2, AllNaturals
<1>4. Cardinality(S) \in Nat /\ \A s \in SUBSET S : s \in K(Cardinality(S))
  BY FS_CardinalityType, FS_Subset
<1>5. PICK f : Fits(f, Cardinality(S))
  BY <1>3, <1>4
<1> DEFINE g == [s \in SUBSET S |-> f[s]]
<1>6. Sums(g, v, S)
  <2>1. ASSUME NEW s \in SUBSET S
        PROVE  g[s] = IF s = {} THEN 0 ELSE v[Pick(s)] + g[s \ {Pick(s)}]
    <3>1. f[s] = IF s = {} THEN 0 ELSE v[Pick(s)] + f[s \ {Pick(s)}]
      BY <1>4, <1>5
    <3> QED BY <3>1
  <2>2. g = [s \in SUBSET S |-> g[s]]
    OBVIOUS
  <2> HIDE DEF g
  <2> QED BY <2>1, <2>2 DEF Sums
<1> QED BY <1>6

(* The sum of naturals is one; the sum of c for each element is their      *)
(* number times c.                                                         *)
LEMMA SumsOf ==
    ASSUME NEW S, IsFiniteSet(S), NEW v, \A x \in S : v[x] \in Nat, NEW f, Sums(f, v, S)
    PROVE  /\ f[{}] = 0
           /\ f[S] \in Nat
           /\ (\A x \in S : v[x] = 5) => f[S] = 5 * Cardinality(S)
<1> DEFINE Right(s) == f[s] \in Nat /\ ((\A x \in S : v[x] = 5) => f[s] = 5 * Cardinality(s))
           N == {n \in Nat : \A s \in SUBSET S : Cardinality(s) = n => Right(s)}
<1>0. \A s \in SUBSET S : f[s] = IF s = {} THEN 0 ELSE v[Pick(s)] + f[s \ {Pick(s)}]
  BY Zenon DEF Sums
<1>a. f[{}] = 0
  BY <1>0
<1>1. 0 \in N
  <2> SUFFICES ASSUME NEW s \in SUBSET S, Cardinality(s) = 0 PROVE Right(s)
    OBVIOUS
  <2>1. s = {}
    BY Picked
  <2> QED BY <2>1, <1>a
<1>2. ASSUME NEW n \in Nat, n \in N PROVE n + 1 \in N
  <2> SUFFICES ASSUME NEW s \in SUBSET S, Cardinality(s) = n + 1 PROVE Right(s)
    OBVIOUS
  <2>1. s # {}
    BY FS_EmptySet
  <2> DEFINE r == s \ {Pick(s)}
  <2>2. Pick(s) \in S /\ r \in SUBSET S /\ Cardinality(r) = n
    BY <2>1, Picked
  <2>3. Right(r)
    BY <1>2, <2>2
  <2>4. f[s] = v[Pick(s)] + f[r]
    BY <1>0, <2>1
  <2> HIDE DEF r
  <2>5. v[Pick(s)] \in Nat
    BY <2>2
  <2>6. f[s] \in Nat
    BY <2>3, <2>4, <2>5
  <2>7. ASSUME \A x \in S : v[x] = 5 PROVE f[s] = 5 * Cardinality(s)
    <3>1. v[Pick(s)] = 5 /\ f[r] = 5 * n
      BY <2>2, <2>3, <2>7
    <3> QED BY <2>4, <3>1
  <2> QED BY <2>6, <2>7
<1>3. \A n \in Nat : n \in N
  <2> HIDE DEF N
  <2> QED BY <1>1, <1>2, AllNaturals
<1>4. Cardinality(S) \in Nat
  BY FS_CardinalityType
<1>5. Right(S)
  BY <1>3, <1>4
<1> QED BY <1>a, <1>5

(***************************************************************************)
(* The number of a word of sixteen bits is the sum of its bits' values.    *)
(***************************************************************************)
BitValue(w, b, value) == IF b \in w THEN value ELSE 0
Nibble(w, b, value) ==
    BitValue(w, b, value) + BitValue(w, b + 1, 2 * value)
      + BitValue(w, b + 2, 4 * value) + BitValue(w, b + 3, 8 * value)
Value(w) == Nibble(w, 0, 1) + Nibble(w, 4, 16) + Nibble(w, 8, 256) + Nibble(w, 12, 4096)

LEMMA ValueNat ==
    ASSUME NEW w
    PROVE  Value(w) \in Nat /\ (w = {} => Value(w) = 0)
<1> DEFINE IsNibble(b, value) ==
               Nibble(w, b, value) \in Nat /\ (w = {} => Nibble(w, b, value) = 0)
<1>1. IsNibble(0, 1)
  BY SMT DEF Nibble, BitValue
<1>2. IsNibble(4, 16)
  BY SMT DEF Nibble, BitValue
<1>3. IsNibble(8, 256)
  BY SMT DEF Nibble, BitValue
<1>4. IsNibble(12, 4096)
  BY SMT DEF Nibble, BitValue
<1> QED BY <1>1, <1>2, <1>3, <1>4, SMT DEF Value

LEMMA ValueWithout ==
    ASSUME NEW w \in SUBSET (0 .. 15), NEW x \in w
    PROVE  Value(w) = 2^x + Value(w \ {x})
<1> DEFINE v == w \ {x}
<1>1. \A b \in Nat : \A value \in Nat :
          /\ BitValue(w, b, value) = BitValue(v, b, value) + BitValue({x}, b, value)
          /\ BitValue(v, b, value) \in Nat
          /\ BitValue({x}, b, value) = IF b = x THEN value ELSE 0
  BY DEF BitValue
<1>21. /\ Nibble(w, 0, 1) = Nibble(v, 0, 1) + Nibble({x}, 0, 1)
      /\ Nibble(v, 0, 1) \in Nat /\ Nibble({x}, 0, 1) \in Nat
  BY SMT DEF Nibble, BitValue
<1>22. /\ Nibble(w, 4, 16) = Nibble(v, 4, 16) + Nibble({x}, 4, 16)
      /\ Nibble(v, 4, 16) \in Nat /\ Nibble({x}, 4, 16) \in Nat
  BY SMT DEF Nibble, BitValue
<1>23. /\ Nibble(w, 8, 256) = Nibble(v, 8, 256) + Nibble({x}, 8, 256)
      /\ Nibble(v, 8, 256) \in Nat /\ Nibble({x}, 8, 256) \in Nat
  BY SMT DEF Nibble, BitValue
<1>24. /\ Nibble(w, 12, 4096) = Nibble(v, 12, 4096) + Nibble({x}, 12, 4096)
      /\ Nibble(v, 12, 4096) \in Nat /\ Nibble({x}, 12, 4096) \in Nat
  BY SMT DEF Nibble, BitValue
<1>20. Value(w) = Value(v) + Value({x}) /\ Value(v) \in Nat
  <2> HIDE DEF v
  <2>1. PICK a \in Nat, b \in Nat, c \in Nat, d \in Nat :
            a = Nibble(v, 0, 1) /\ b = Nibble(v, 4, 16) /\ c = Nibble(v, 8, 256) /\ d = Nibble(v, 12, 4096)
    BY <1>21, <1>22, <1>23, <1>24, SMT
  <2>2. PICK p \in Nat, q \in Nat, r \in Nat, s \in Nat :
            p = Nibble({x}, 0, 1) /\ q = Nibble({x}, 4, 16) /\ r = Nibble({x}, 8, 256) /\ s = Nibble({x}, 12, 4096)
    BY <1>21, <1>22, <1>23, <1>24, SMT
  <2>3. /\ Nibble(w, 0, 1) = a + p /\ Nibble(w, 4, 16) = b + q
        /\ Nibble(w, 8, 256) = c + r /\ Nibble(w, 12, 4096) = d + s
    BY <1>21, <1>22, <1>23, <1>24, <2>1, <2>2, SMT
  <2>4. Value(w) = (a + p) + (b + q) + (c + r) + (d + s) /\ Value(v) = a + b + c + d /\ Value({x}) = p + q + r + s
    BY <2>1, <2>2, <2>3, SMT DEF Value
  <2> QED BY <2>4, SMT
<1>3. \/ x = 0 \/ x = 1 \/ x = 2 \/ x = 3 \/ x = 4 \/ x = 5 \/ x = 6 \/ x = 7
      \/ x = 8 \/ x = 9 \/ x = 10 \/ x = 11 \/ x = 12 \/ x = 13 \/ x = 14 \/ x = 15
  OBVIOUS
<1>4. 2^x = Value({x})
  <2>1. CASE x = 0
    BY <2>1, SMT DEF Value, Nibble, BitValue
  <2>2. CASE x = 1
    BY <2>2, SMT DEF Value, Nibble, BitValue
  <2>3. CASE x = 2
    BY <2>3, SMT DEF Value, Nibble, BitValue
  <2>4. CASE x = 3
    BY <2>4, SMT DEF Value, Nibble, BitValue
  <2>5. CASE x = 4
    BY <2>5, SMT DEF Value, Nibble, BitValue
  <2>6. CASE x = 5
    BY <2>6, SMT DEF Value, Nibble, BitValue
  <2>7. CASE x = 6
    BY <2>7, SMT DEF Value, Nibble, BitValue
  <2>8. CASE x = 7
    BY <2>8, SMT DEF Value, Nibble, BitValue
  <2>9. CASE x = 8
    BY <2>9, SMT DEF Value, Nibble, BitValue
  <2>10. CASE x = 9
    BY <2>10, SMT DEF Value, Nibble, BitValue
  <2>11. CASE x = 10
    BY <2>11, SMT DEF Value, Nibble, BitValue
  <2>12. CASE x = 11
    BY <2>12, SMT DEF Value, Nibble, BitValue
  <2>13. CASE x = 12
    BY <2>13, SMT DEF Value, Nibble, BitValue
  <2>14. CASE x = 13
    BY <2>14, SMT DEF Value, Nibble, BitValue
  <2>15. CASE x = 14
    BY <2>15, SMT DEF Value, Nibble, BitValue
  <2>16. CASE x = 15
    BY <2>16, SMT DEF Value, Nibble, BitValue
  <2> QED BY <1>3, <2>1, <2>2, <2>3, <2>4, <2>5, <2>6, <2>7, <2>8, <2>9, <2>10, <2>11, <2>12, <2>13, <2>14, <2>15, <2>16
<1> HIDE DEF v
<1>5. Value({x}) \in Nat
  BY SMT DEF Value, Nibble, BitValue
<1> QED BY <1>4, <1>5, <1>20, SMT DEF v

Additive(F, v, S) ==
    F[{}] = 0 /\ \A s \in SUBSET S : \A x \in s : F[s] = v[x] + F[s \ {x}]

LEMMA SumsAre ==
    ASSUME NEW S, IsFiniteSet(S), NEW v, NEW f, Sums(f, v, S), NEW F, Additive(F, v, S)
    PROVE  f[S] = F[S]
<1>a. F[{}] = 0 /\ \A s \in SUBSET S : \A x \in s : F[s] = v[x] + F[s \ {x}]
  BY DEF Additive
<1> DEFINE N == {n \in Nat : \A s \in SUBSET S : Cardinality(s) = n => f[s] = F[s]}
<1>0. \A s \in SUBSET S : f[s] = IF s = {} THEN 0 ELSE v[Pick(s)] + f[s \ {Pick(s)}]
  BY Zenon DEF Sums
<1>1. 0 \in N
  <2> SUFFICES ASSUME NEW s \in SUBSET S, Cardinality(s) = 0 PROVE f[s] = F[s]
    OBVIOUS
  <2>1. s = {}
    BY Picked
  <2> QED BY <2>1, <1>0, <1>a
<1>2. ASSUME NEW n \in Nat, n \in N PROVE n + 1 \in N
  <2> SUFFICES ASSUME NEW s \in SUBSET S, Cardinality(s) = n + 1 PROVE f[s] = F[s]
    OBVIOUS
  <2>1. s # {}
    BY FS_EmptySet
  <2> DEFINE x == Pick(s)
             r == s \ {x}
  <2>2. x \in s /\ r \in SUBSET S /\ Cardinality(r) = n
    BY <2>1, Picked
  <2>3. f[r] = F[r]
    BY <1>2, <2>2
  <2>4. f[s] = v[x] + f[r]
    BY <1>0, <2>1
  <2>5. F[s] = v[x] + F[r]
    BY <1>a, <2>2
  <2> QED BY <2>3, <2>4, <2>5, Zenon
<1>3. \A n \in Nat : n \in N
  <2> HIDE DEF N
  <2> QED BY <1>1, <1>2, AllNaturals
<1>4. Cardinality(S) \in Nat
  BY FS_CardinalityType
<1> QED BY <1>3, <1>4

LEMMA NumIs ==
    ASSUME NEW w \in Word(16)
    PROVE  Num(w) = Value(w)
<1> DEFINE v == [b \in 0 .. 15 |-> 2^b]
           F == [s \in SUBSET w |-> Value(s)]
           iter == CHOOSE iter : iter = [s \in SUBSET w |->
                       IF s = {} THEN 0
                       ELSE LET x == CHOOSE x \in s : TRUE IN 2^x + iter[s \ {x}]]
<1>0. w \in SUBSET (0 .. 15)
  BY DEF Word, Low
<1>1. \A b \in w : v[b] = 2^b /\ v[b] \in Nat
  <2>1. ASSUME NEW b \in 0 .. 15 PROVE 2^b \in Nat
    <3>1. \/ b = 0 \/ b = 1 \/ b = 2 \/ b = 3 \/ b = 4 \/ b = 5 \/ b = 6 \/ b = 7
          \/ b = 8 \/ b = 9 \/ b = 10 \/ b = 11 \/ b = 12 \/ b = 13 \/ b = 14 \/ b = 15
      OBVIOUS
    <3>2. /\ 2^0 \in Nat /\ 2^1 \in Nat /\ 2^2 \in Nat /\ 2^3 \in Nat
          /\ 2^4 \in Nat /\ 2^5 \in Nat /\ 2^6 \in Nat /\ 2^7 \in Nat
          /\ 2^8 \in Nat /\ 2^9 \in Nat /\ 2^10 \in Nat /\ 2^11 \in Nat
          /\ 2^12 \in Nat /\ 2^13 \in Nat /\ 2^14 \in Nat /\ 2^15 \in Nat
      OBVIOUS
    <3> QED BY <3>1, <3>2, Zenon
  <2> QED BY <1>0, <2>1, Zenon
<1>2. IsFiniteSet(w)
  <2>0. 0 \in Int /\ 15 \in Int
    OBVIOUS
  <2>1. IsFiniteSet(0 .. 15)
    BY <2>0, FS_Interval, Zenon
  <2> QED BY <1>0, <2>1, FS_Subset
<1> HIDE DEF v
<1>3. PICK f : Sums(f, v, w)
  BY <1>1, <1>2, SumsExist
<1>4. f = [s \in SUBSET w |-> IF s = {} THEN 0
                              ELSE LET x == CHOOSE x \in s : TRUE IN 2^x + f[s \ {x}]]
  <2>1. ASSUME NEW s \in SUBSET w
        PROVE  f[s] = IF s = {} THEN 0
                      ELSE LET x == CHOOSE x \in s : TRUE IN 2^x + f[s \ {x}]
    <3>1. f[s] = IF s = {} THEN 0 ELSE v[Pick(s)] + f[s \ {Pick(s)}]
      BY <1>3, Zenon DEF Sums
    <3>2. s # {} => v[Pick(s)] = 2^Pick(s)
      BY <1>1, <1>2, Picked
    <3> QED BY <3>1, <3>2, Zenon DEF Pick
  <2>2. f = [s \in SUBSET w |-> f[s]]
    BY <1>3, Zenon DEF Sums
  <2> QED BY <2>1, <2>2, Zenon
<1>5. iter = [s \in SUBSET w |-> IF s = {} THEN 0
                              ELSE LET x == CHOOSE x \in s : TRUE IN 2^x + iter[s \ {x}]]
  BY <1>4, Zenon
<1>6. Num(w) = iter[w]
  BY Zenon DEF Num, MapThenSumSet, MapThenFoldSet
<1> HIDE DEF iter
<1>7. Sums(iter, v, w)
  <2>1. ASSUME NEW s \in SUBSET w
        PROVE  iter[s] = IF s = {} THEN 0 ELSE v[Pick(s)] + iter[s \ {Pick(s)}]
    <3>1. iter[s] = IF s = {} THEN 0
                    ELSE LET x == CHOOSE x \in s : TRUE IN 2^x + iter[s \ {x}]
      BY <1>5, Zenon
    <3>2. s # {} => v[Pick(s)] = 2^Pick(s)
      BY <1>1, <1>2, Picked
    <3> QED BY <3>1, <3>2, Zenon DEF Pick
  <2>2. iter = [s \in SUBSET w |-> iter[s]]
    BY <1>5, Zenon
  <2> QED BY <2>1, <2>2, Zenon DEF Sums
<1>8. F[{}] = 0
  BY ValueNat
<1>9. ASSUME NEW s \in SUBSET w, NEW x \in s PROVE F[s] = v[x] + F[s \ {x}]
  <2>1. s \in SUBSET (0 .. 15) /\ s \ {x} \in SUBSET w /\ v[x] = 2^x
    BY <1>0, <1>1
  <2>2. F[s] = Value(s) /\ F[s \ {x}] = Value(s \ {x})
    BY <2>1
  <2>3. Value(s) = 2^x + Value(s \ {x})
    BY <2>1, ValueWithout
  <2> HIDE DEF F
  <2> QED BY <2>1, <2>2, <2>3
<1>10. F[w] = Value(w)
  OBVIOUS
<1> HIDE DEF F
<1>12. Additive(F, v, w)
  BY <1>8, <1>9 DEF Additive
<1>11. iter[w] = F[w]
  BY <1>2, <1>7, <1>12, SumsAre, Zenon
<1> QED BY <1>6, <1>10, <1>11

(* In particular the value of a field of twelve bits.                      *)
LEMMA NumOf ==
    ASSUME NEW w \in Word(12)
    PROVE  Num(w) \in Nat /\ (w = {} => Num(w) = 0)
<1>1. w \in Word(16)
  BY DEF Word, Low
<1>2. Num(w) = Value(w)
  BY <1>1, NumIs
<1>3. Value(w) \in Nat /\ (w = {} => Value(w) = 0)
  BY ValueNat, SMT
<1> QED BY <1>2, <1>3

(* The bits of a number of sixteen bits, and of a smaller one.             *)
Halved(k, b) == k \div 2^b
Odd(q)       == q % 2 = 1

LEMMA BinHalved ==
    ASSUME NEW k \in Nat
    PROVE  Bin(k) = {b \in Low(30) : Odd(Halved(k, b))}
                      \cup {b \in 30 .. 32 : Odd(Halved(Halved(k, 30), b - 30))}
BY Zenon DEF Bin, Halved, Odd

LEMMA BinBits ==
    ASSUME NEW k \in Nat, k < 65536
    PROVE  /\ Bin(k) \in SUBSET (0 .. 15)
           /\ \A b \in 0 .. 15 : b \in Bin(k) <=> Odd(Halved(k, b))
<1>1. Halved(k, 30) = 0
  BY SMT DEF Halved
<1>2. ASSUME NEW b \in 30 .. 32 PROVE ~Odd(Halved(Halved(k, 30), b - 30))
  <2>1. b - 30 = 0 \/ b - 30 = 1 \/ b - 30 = 2
    OBVIOUS
  <2>2. Halved(0, 0) = 0 /\ Halved(0, 1) = 0 /\ Halved(0, 2) = 0
    BY SMT DEF Halved
  <2>3. ~Odd(0)
    BY DEF Odd
  <2> QED BY <1>1, <2>1, <2>2, <2>3
<1>3. ASSUME NEW b \in 16 .. 29 PROVE ~Odd(Halved(k, b))
  <2>1. \/ b = 16 \/ b = 17 \/ b = 18 \/ b = 19 \/ b = 20 \/ b = 21 \/ b = 22
        \/ b = 23 \/ b = 24 \/ b = 25 \/ b = 26 \/ b = 27 \/ b = 28 \/ b = 29
    OBVIOUS
  <2>2. Halved(k, 16) = 0 /\ Halved(k, 17) = 0 /\ Halved(k, 18) = 0 /\ Halved(k, 19) = 0 /\ Halved(k, 20) = 0 /\ Halved(k, 21) = 0 /\ Halved(k, 22) = 0
    BY SMT DEF Halved
  <2>3. Halved(k, 23) = 0 /\ Halved(k, 24) = 0 /\ Halved(k, 25) = 0 /\ Halved(k, 26) = 0 /\ Halved(k, 27) = 0 /\ Halved(k, 28) = 0 /\ Halved(k, 29) = 0
    BY SMT DEF Halved
  <2>4. Halved(k, b) = 0
    BY <2>1, <2>2, <2>3, SMT
  <2> QED BY <2>4 DEF Odd
<1>4. \A b : b \in Bin(k) <=> \/ b \in 0 .. 29 /\ Odd(Halved(k, b))
                              \/ b \in 30 .. 32 /\ Odd(Halved(Halved(k, 30), b - 30))
  BY BinHalved DEF Low
<1> QED BY <1>2, <1>3, <1>4

LEMMA NumBin ==
    ASSUME NEW k \in Nat, k < 65536
    PROVE  Num(Bin(k)) = k
<1> DEFINE w == Bin(k)
<1>1. w \in Word(16)
  BY BinBits DEF Word, Low

<1>2. Nibble(w, 0, 1) = 1 * (k \div 1) - 16 * (k \div 16)
  <2>1. /\ 0 \in w <=> Odd(Halved(k, 0))
        /\ 1 \in w <=> Odd(Halved(k, 1))
        /\ 2 \in w <=> Odd(Halved(k, 2))
        /\ 3 \in w <=> Odd(Halved(k, 3))
    BY BinBits
  <2>3. /\ Odd(Halved(k, 0)) <=> (k \div 1) % 2 = 1
        /\ Odd(Halved(k, 1)) <=> (k \div 2) % 2 = 1
        /\ Odd(Halved(k, 2)) <=> (k \div 4) % 2 = 1
        /\ Odd(Halved(k, 3)) <=> (k \div 8) % 2 = 1
    BY SMT DEF Odd, Halved
  <2>2. /\ 1 * (k \div 1) - 2 * (k \div 2) = IF (k \div 1) % 2 = 1 THEN 1 ELSE 0
        /\ 2 * (k \div 2) - 4 * (k \div 4) = IF (k \div 2) % 2 = 1 THEN 2 ELSE 0
        /\ 4 * (k \div 4) - 8 * (k \div 8) = IF (k \div 4) % 2 = 1 THEN 4 ELSE 0
        /\ 8 * (k \div 8) - 16 * (k \div 16) = IF (k \div 8) % 2 = 1 THEN 8 ELSE 0
    BY SMT
  <2> HIDE DEF w
  <2> QED BY <2>1, <2>2, <2>3, SMT DEF Nibble, BitValue
<1>3. Nibble(w, 4, 16) = 16 * (k \div 16) - 256 * (k \div 256)
  <2>1. /\ 4 \in w <=> Odd(Halved(k, 4))
        /\ 5 \in w <=> Odd(Halved(k, 5))
        /\ 6 \in w <=> Odd(Halved(k, 6))
        /\ 7 \in w <=> Odd(Halved(k, 7))
    BY BinBits
  <2>3. /\ Odd(Halved(k, 4)) <=> (k \div 16) % 2 = 1
        /\ Odd(Halved(k, 5)) <=> (k \div 32) % 2 = 1
        /\ Odd(Halved(k, 6)) <=> (k \div 64) % 2 = 1
        /\ Odd(Halved(k, 7)) <=> (k \div 128) % 2 = 1
    BY SMT DEF Odd, Halved
  <2>2. /\ 16 * (k \div 16) - 32 * (k \div 32) = IF (k \div 16) % 2 = 1 THEN 16 ELSE 0
        /\ 32 * (k \div 32) - 64 * (k \div 64) = IF (k \div 32) % 2 = 1 THEN 32 ELSE 0
        /\ 64 * (k \div 64) - 128 * (k \div 128) = IF (k \div 64) % 2 = 1 THEN 64 ELSE 0
        /\ 128 * (k \div 128) - 256 * (k \div 256) = IF (k \div 128) % 2 = 1 THEN 128 ELSE 0
    BY SMT
  <2> HIDE DEF w
  <2> QED BY <2>1, <2>2, <2>3, SMT DEF Nibble, BitValue
<1>4. Nibble(w, 8, 256) = 256 * (k \div 256) - 4096 * (k \div 4096)
  <2>1. /\ 8 \in w <=> Odd(Halved(k, 8))
        /\ 9 \in w <=> Odd(Halved(k, 9))
        /\ 10 \in w <=> Odd(Halved(k, 10))
        /\ 11 \in w <=> Odd(Halved(k, 11))
    BY BinBits
  <2>3. /\ Odd(Halved(k, 8)) <=> (k \div 256) % 2 = 1
        /\ Odd(Halved(k, 9)) <=> (k \div 512) % 2 = 1
        /\ Odd(Halved(k, 10)) <=> (k \div 1024) % 2 = 1
        /\ Odd(Halved(k, 11)) <=> (k \div 2048) % 2 = 1
    BY SMT DEF Odd, Halved
  <2>2. /\ 256 * (k \div 256) - 512 * (k \div 512) = IF (k \div 256) % 2 = 1 THEN 256 ELSE 0
        /\ 512 * (k \div 512) - 1024 * (k \div 1024) = IF (k \div 512) % 2 = 1 THEN 512 ELSE 0
        /\ 1024 * (k \div 1024) - 2048 * (k \div 2048) = IF (k \div 1024) % 2 = 1 THEN 1024 ELSE 0
        /\ 2048 * (k \div 2048) - 4096 * (k \div 4096) = IF (k \div 2048) % 2 = 1 THEN 2048 ELSE 0
    BY SMT
  <2> HIDE DEF w
  <2> QED BY <2>1, <2>2, <2>3, SMT DEF Nibble, BitValue
<1>5. Nibble(w, 12, 4096) = 4096 * (k \div 4096) - 65536 * (k \div 65536)
  <2>1. /\ 12 \in w <=> Odd(Halved(k, 12))
        /\ 13 \in w <=> Odd(Halved(k, 13))
        /\ 14 \in w <=> Odd(Halved(k, 14))
        /\ 15 \in w <=> Odd(Halved(k, 15))
    BY BinBits
  <2>3. /\ Odd(Halved(k, 12)) <=> (k \div 4096) % 2 = 1
        /\ Odd(Halved(k, 13)) <=> (k \div 8192) % 2 = 1
        /\ Odd(Halved(k, 14)) <=> (k \div 16384) % 2 = 1
        /\ Odd(Halved(k, 15)) <=> (k \div 32768) % 2 = 1
    BY SMT DEF Odd, Halved
  <2>2. /\ 4096 * (k \div 4096) - 8192 * (k \div 8192) = IF (k \div 4096) % 2 = 1 THEN 4096 ELSE 0
        /\ 8192 * (k \div 8192) - 16384 * (k \div 16384) = IF (k \div 8192) % 2 = 1 THEN 8192 ELSE 0
        /\ 16384 * (k \div 16384) - 32768 * (k \div 32768) = IF (k \div 16384) % 2 = 1 THEN 16384 ELSE 0
        /\ 32768 * (k \div 32768) - 65536 * (k \div 65536) = IF (k \div 32768) % 2 = 1 THEN 32768 ELSE 0
    BY SMT
  <2> HIDE DEF w
  <2> QED BY <2>1, <2>2, <2>3, SMT DEF Nibble, BitValue
<1> HIDE DEF w
<1>6. Value(w) = k
  BY <1>2, <1>3, <1>4, <1>5, SMT DEF Value
<1> QED BY <1>1, <1>6, NumIs, SMT DEF w


LEMMA BinIs ==
    /\ Bin(0) = {} /\ Bin(1) = {0} /\ Bin(2) = {1} /\ Bin(3) = {0, 1}
<1>1. \A k \in 0 .. 3 : \A b \in 2 .. 15 : ~Odd(Halved(k, b))
  <2> SUFFICES ASSUME NEW k \in 0 .. 3, NEW b \in 2 .. 15 PROVE ~Odd(Halved(k, b))
    OBVIOUS
  <2>1. /\ Halved(k, 2) = 0 /\ Halved(k, 3) = 0 /\ Halved(k, 4) = 0 /\ Halved(k, 5) = 0
        /\ Halved(k, 6) = 0 /\ Halved(k, 7) = 0 /\ Halved(k, 8) = 0 /\ Halved(k, 9) = 0
    BY SMT DEF Halved
  <2>2. /\ Halved(k, 10) = 0 /\ Halved(k, 11) = 0 /\ Halved(k, 12) = 0
        /\ Halved(k, 13) = 0 /\ Halved(k, 14) = 0 /\ Halved(k, 15) = 0
    BY SMT DEF Halved
  <2>3. \/ b = 2 \/ b = 3 \/ b = 4 \/ b = 5 \/ b = 6 \/ b = 7 \/ b = 8 \/ b = 9
        \/ b = 10 \/ b = 11 \/ b = 12 \/ b = 13 \/ b = 14 \/ b = 15
    OBVIOUS
  <2>4. Halved(k, b) = 0
    BY <2>1, <2>2, <2>3
  <2> QED BY <2>4 DEF Odd
<1>2. /\ ~Odd(Halved(0, 0)) /\ ~Odd(Halved(0, 1)) /\ Odd(Halved(1, 0)) /\ ~Odd(Halved(1, 1))
      /\ ~Odd(Halved(2, 0)) /\ Odd(Halved(2, 1)) /\ Odd(Halved(3, 0)) /\ Odd(Halved(3, 1))
  BY SMT DEF Odd, Halved
<1>3. ASSUME NEW k \in 0 .. 3
      PROVE  \A b : b \in Bin(k) <=> b \in {0, 1} /\ Odd(Halved(k, b))
  <2>1. Bin(k) \in SUBSET (0 .. 15) /\ \A b \in 0 .. 15 : b \in Bin(k) <=> Odd(Halved(k, b))
    BY BinBits
  <2> QED BY <1>1, <2>1
<1>4. /\ \A b : b \in Bin(0) <=> b \in {0, 1} /\ Odd(Halved(0, b))
      /\ \A b : b \in Bin(1) <=> b \in {0, 1} /\ Odd(Halved(1, b))
      /\ \A b : b \in Bin(2) <=> b \in {0, 1} /\ Odd(Halved(2, b))
      /\ \A b : b \in Bin(3) <=> b \in {0, 1} /\ Odd(Halved(3, b))
  BY <1>3
<1> QED BY <1>2, <1>4

LEMMA BinFits ==
    ASSUME NEW k \in Nat, k < 65536
    PROVE  /\ Bin(k) \in Word(16)
           /\ k < 8192 => Bin(k) \in Word(13)
           /\ k < 4096 => Bin(k) \in Word(12)
           /\ k < 256 => Bin(k) \in Word(8)
           /\ k < 16 => Bin(k) \in Word(4)
           /\ k < 4 => Bin(k) \in Word(2)
<1> DEFINE Zero(b) == Halved(k, b) = 0
<1>1. Bin(k) \in SUBSET (0 .. 15) /\ \A b \in Bin(k) : ~Zero(b)
  BY BinBits DEF Odd
<1>2. /\ k < 8192 => Zero(13) /\ Zero(14) /\ Zero(15)
      /\ k < 4096 => Zero(12)
  BY SMT DEF Halved
<1>3. k < 256 => Zero(8) /\ Zero(9) /\ Zero(10) /\ Zero(11)
  BY SMT DEF Halved
<1>4. k < 16 => Zero(4) /\ Zero(5) /\ Zero(6) /\ Zero(7)
  BY SMT DEF Halved
<1>5. k < 4 => Zero(2) /\ Zero(3)
  BY SMT DEF Halved
<1> HIDE DEF Zero
<1>6. \A b \in 0 .. 15 : b = 0 \/ b = 1 \/ b = 2 \/ b = 3 \/ b = 4 \/ b = 5 \/ b = 6 \/ b = 7
          \/ b = 8 \/ b = 9 \/ b = 10 \/ b = 11 \/ b = 12 \/ b = 13 \/ b = 14 \/ b = 15
  OBVIOUS
<1>7. Bin(k) \in Word(16)
  BY <1>1 DEF Word, Low
<1>8. k < 8192 => Bin(k) \in Word(13)
  BY <1>1, <1>2, SMT DEF Word, Low
<1>9. k < 4096 => Bin(k) \in Word(12)
  BY <1>1, <1>2, SMT DEF Word, Low
<1>10. k < 256 => Bin(k) \in Word(8)
  BY <1>1, <1>2, <1>3, SMT DEF Word, Low
<1>11. k < 16 => Bin(k) \in Word(4)
  BY <1>1, <1>2, <1>3, <1>4, SMT DEF Word, Low
<1>12. k < 4 => Bin(k) \in Word(2)
  BY <1>1, <1>2, <1>3, <1>4, <1>5, SMT DEF Word, Low
<1> QED BY <1>7, <1>8, <1>9, <1>10, <1>11, <1>12, SMT

LEMMA BinTime ==
    ASSUME NEW k \in Nat
    PROVE  Bin(k) \in SUBSET Int /\ Bin(k) \cap Low(33) = Bin(k)
BY DEF Bin, Low
-----------------------------------------------------------------------------
(* How many bytes each structure is encoded in.                            *)
LEMMA TsHeaderAre ==
    ASSUME NEW h \in TsHeader
    PROVE  Are(TsHeader_encode(h), 4)
<1> DEFINE w == Put(h.mPid, 0, 13) \cup Put(h.mTransportPriority, 13, 1)
                  \cup Put(h.mPayloadUnitStartIndicator, 14, 1)
                  \cup Put(h.mTransportErrorIndicator, 15, 1)
           b == Put(h.mContinuityCounter, 0, 4) \cup Put(h.mAdaptationFieldControl, 4, 2)
                  \cup Put(h.mTransportScramblingControl, 6, 2)
<1>1. w \in SUBSET Int /\ b \in SUBSET Int
  BY DEF Put
<1>2. h.mSyncByte \in SUBSET Int
  BY DEF TsHeader, Byte, Word, Low
<1>3. TsHeader_encode(h) = <<h.mSyncByte>> \o Bytes2(w) \o <<b>>
  BY DEF TsHeader_encode
<1> HIDE DEF w, b
<1>4. Are(<<h.mSyncByte>>, 1) /\ Are(Bytes2(w), 2) /\ Are(<<b>>, 1)
  BY <1>1, <1>2, OneByte, TwoBytes
<1>5. Are(<<h.mSyncByte>> \o Bytes2(w), 3)
  BY <1>4, Concat
<1> QED BY <1>3, <1>4, <1>5, Concat

LEMMA SectionHeadAre ==
    ASSUME NEW h \in SectionHead, NEW lengthBits \in Nat
    PROVE  Are(SectionHead_encode(h, lengthBits), 8)
<1> DEFINE w == Put(h.mSectionLength, 0, lengthBits) \cup Put(h.mReserved0, 12, 2)
                  \cup Put(h.mB0, 14, 1) \cup Put(h.mSectionSyntaxIndicator, 15, 1)
           b == Put(h.mCurrentNextIndicator, 0, 1) \cup Put(h.mVersionNumber, 1, 5)
                  \cup Put(h.mReserved1, 6, 2)
           last == <<b, h.mSectionNumber, h.mLastSectionNumber>>
<1>1. w \in SUBSET Int /\ b \in SUBSET Int
  BY DEF Put
<1>2. /\ h.mTableId \in SUBSET Int /\ h.number \in SUBSET Int
      /\ h.mSectionNumber \in SUBSET Int /\ h.mLastSectionNumber \in SUBSET Int
  BY DEF SectionHead, Byte, Word, Low
<1>3. SectionHead_encode(h, lengthBits) = <<h.mTableId>> \o Bytes2(w) \o Bytes2(h.number) \o last
  BY DEF SectionHead_encode
<1> HIDE DEF w, b
<1>4. /\ Are(<<h.mTableId>>, 1) /\ Are(Bytes2(w), 2) /\ Are(Bytes2(h.number), 2) /\ Are(last, 3)
  BY <1>1, <1>2, OneByte, TwoBytes, ThreeBytes
<1> HIDE DEF last
<1>5. Are(<<h.mTableId>> \o Bytes2(w), 3)
  BY <1>4, Concat
<1>6. Are(<<h.mTableId>> \o Bytes2(w) \o Bytes2(h.number), 5)
  BY <1>4, <1>5, Concat
<1> QED BY <1>3, <1>4, <1>6, Concat

LEMMA ElementInfoAre ==
    ASSUME NEW e \in ElementInfo
    PROVE  Are(PMTElementInfo_encode(e), 5)
<1> DEFINE v == Put(e.mElementaryPid, 0, 13) \cup Put(e.mReserved0, 13, 3)
           w == Put(e.mEsInfoLength, 0, 12) \cup Put(e.mReserved1, 12, 4)
<1>1. v \in SUBSET Int /\ w \in SUBSET Int
  BY DEF Put
<1>2. e.mStreamType \in SUBSET Int
  BY DEF ElementInfo, Byte, Word, Low
<1>3. PMTElementInfo_encode(e) = <<e.mStreamType>> \o Bytes2(v) \o Bytes2(w)
  BY DEF PMTElementInfo_encode
<1> HIDE DEF v, w
<1>4. Are(<<e.mStreamType>>, 1) /\ Are(Bytes2(v), 2) /\ Are(Bytes2(w), 2)
  BY <1>1, <1>2, OneByte, TwoBytes
<1>5. Are(<<e.mStreamType>> \o Bytes2(v), 3)
  BY <1>4, Concat
<1> QED BY <1>3, <1>4, <1>5, Concat

LEMMA AdaptationFieldAre ==
    ASSUME NEW a \in AdaptationFieldHeader
    PROVE  Are(AdaptationFieldHeader_encode(a), IF a.mAdaptationFieldLength = {} THEN 1 ELSE 2)
<1>1. AdaptationFieldFlags(a) \in SUBSET Int
  BY DEF AdaptationFieldFlags, Put
<1>2. a.mAdaptationFieldLength \in SUBSET Int
  BY DEF AdaptationFieldHeader, Byte, Word, Low
<1>3. CASE a.mAdaptationFieldLength = {}
  <2>1. AdaptationFieldHeader_encode(a) = <<{}>>
    BY <1>3 DEF AdaptationFieldHeader_encode
  <2>2. Are(<<{}>>, 1)
    BY OneByte
  <2> QED BY <1>3, <2>1, <2>2
<1>4. CASE a.mAdaptationFieldLength # {}
  <2>1. AdaptationFieldHeader_encode(a) = <<a.mAdaptationFieldLength, AdaptationFieldFlags(a)>>
    BY <1>4 DEF AdaptationFieldHeader_encode
  <2>2. Are(<<a.mAdaptationFieldLength, AdaptationFieldFlags(a)>>, 2)
    BY <1>1, <1>2 DEF Are
  <2> QED BY <1>4, <2>1, <2>2
<1> QED BY <1>3, <1>4

LEMMA PesHeaderAre ==
    ASSUME NEW h \in PESHeader
    PROVE  Are(PESHeader_encode(h), 9)
<1> DEFINE w == Put(h.mPacketStartCode, 8, 24) \cup h.mStreamId
           b == Put(h.mOriginalOrCopy, 0, 1) \cup Put(h.mCopyright, 1, 1)
                  \cup Put(h.mDataAlignmentIndicator, 2, 1) \cup Put(h.mPesPriority, 3, 1)
                  \cup Put(h.mPesScramblingControl, 4, 2) \cup Put(h.mMarkerBits, 6, 2)
           c == Put(h.mPesExtFlag, 0, 1) \cup Put(h.mPesCrcFlag, 1, 1)
                  \cup Put(h.mAddCopyInfoFlag, 2, 1) \cup Put(h.mDsmTrickModeFlag, 3, 1)
                  \cup Put(h.mEsRateFlag, 4, 1) \cup Put(h.mEscrFlag, 5, 1)
                  \cup Put(h.mPtsDtsFlags, 6, 2)
           last == <<b, c, h.mHeaderDataLength>>
<1>1. /\ h.mStreamId \in SUBSET Int /\ h.mPesPacketLength \in SUBSET Int
      /\ h.mHeaderDataLength \in SUBSET Int
  BY DEF PESHeader, Byte, Word, Low
<1>2. w \in SUBSET Int /\ b \in SUBSET Int /\ c \in SUBSET Int
  BY <1>1 DEF Put
<1>3. PESHeader_encode(h) = Bytes4(w) \o Bytes2(h.mPesPacketLength) \o last
  BY DEF PESHeader_encode
<1> HIDE DEF w, b, c
<1>4. Are(Bytes4(w), 4) /\ Are(Bytes2(h.mPesPacketLength), 2) /\ Are(last, 3)
  BY <1>1, <1>2, FourBytes, TwoBytes, ThreeBytes
<1> HIDE DEF last
<1>5. Are(Bytes4(w) \o Bytes2(h.mPesPacketLength), 6)
  BY <1>4, Concat
<1> QED BY <1>3, <1>4, <1>5, Concat

LEMMA TimestampAre ==
    ASSUME NEW lFb, NEW lPts
    PROVE  Are(writePts(lFb, lPts), 5)
<1> DEFINE a == (Shl(lFb, 4) \cup Shl(Get(lPts, 30, 3), 1) \cup {0}) \cap Low(8)
           b == Shl(Get(lPts, 15, 15), 1) \cup {0}
           c == Shl(Get(lPts, 0, 15), 1) \cup {0}
<1>1. a \in SUBSET Int /\ b \in SUBSET Int /\ c \in SUBSET Int
  BY DEF Shl, Get, Low
<1>2. writePts(lFb, lPts) = <<a>> \o Bytes2(b) \o Bytes2(c)
  BY DEF writePts
<1> HIDE DEF a, b, c
<1>3. Are(<<a>>, 1) /\ Are(Bytes2(b), 2) /\ Are(Bytes2(c), 2)
  BY <1>1, OneByte, TwoBytes
<1>4. Are(<<a>> \o Bytes2(b), 3)
  BY <1>3, Concat
<1> QED BY <1>2, <1>3, <1>4, Concat

LEMMA PcrAre ==
    ASSUME NEW lPcr
    PROVE  Are(writePcr(lPcr), 6)
<1>1. \A at : Get(lPcr, at, 8) \in SUBSET Int
  BY DEF Get, Low
<1>2. Put(lPcr, 7, 1) \cup 1 .. 6 \in SUBSET Int
  BY DEF Put
<1> QED BY <1>1, <1>2 DEF writePcr, Are

LEMMA IntegerAre ==
    ASSUME NEW w, NEW n \in Nat
    PROVE  Are(BytesOf(w, n), n)
<1>1. \A i \in 1 .. n : Get(w, 8 * (n - i), 8) \in SUBSET Int
  BY DEF Get, Low
<1> QED BY <1>1 DEF BytesOf, Are
-----------------------------------------------------------------------------
(* A PMT: the entries the decoder reads are those that were written.       *)
LEMMA EntrySize ==
    ASSUME NEW d, NEW q \in Nat
    PROVE  PMTElementInfo_size(PMTElementInfo_decode(d, q)) \in Nat \ {0}
<1>1. PMTElementInfo_decode(d, q).mEsInfoLength \in Word(12)
  BY DEF PMTElementInfo_decode, Get, Word
<1>2. Num(PMTElementInfo_decode(d, q).mEsInfoLength) \in Nat
  BY <1>1, NumOf
<1> QED BY <1>2 DEF PMTElementInfo_size

Entries(f, d, end) ==
    f = [q \in Nat |-> IF q >= end THEN <<>>
                       ELSE <<PMTElementInfo_decode(d, q)>>
                              \o f[q + PMTElementInfo_size(PMTElementInfo_decode(d, q))]]

LEMMA EntriesExist ==
    ASSUME NEW d, NEW end \in Int
    PROVE  \E f : Entries(f, d, end)
<1> DEFINE Entry(q) == PMTElementInfo_decode(d, q)
           After(q) == q + PMTElementInfo_size(Entry(q))
           K(n) == {q \in Nat : q + n >= end}
           Fits(f, n) == \A q \in K(n) : f[q] = IF q >= end THEN <<>> ELSE <<Entry(q)>> \o f[After(q)]
           N == {n \in Nat : \E f : Fits(f, n)}
<1>0. \A q \in Nat : After(q) \in Nat /\ After(q) > q
  BY EntrySize
<1> HIDE DEF Entry, After
<1>1. 0 \in N
  <2> DEFINE f == [q \in Nat |-> <<>>]
  <2>1. Fits(f, 0)
    OBVIOUS
  <2> QED BY <2>1
<1>2. ASSUME NEW n \in Nat, n \in N PROVE n + 1 \in N
  <2>1. PICK f : Fits(f, n)
    BY <1>2
  <2> DEFINE g == [q \in Nat |-> IF q >= end THEN <<>> ELSE <<Entry(q)>> \o f[After(q)]]
  <2>2. ASSUME NEW q \in K(n) PROVE g[q] = f[q]
    BY <2>1
  <2>3. ASSUME NEW q \in K(n + 1), ~(q >= end) PROVE After(q) \in K(n)
    BY <1>0, <2>3
  <2>4. ASSUME NEW q \in K(n + 1)
        PROVE  g[q] = IF q >= end THEN <<>> ELSE <<Entry(q)>> \o g[After(q)]
    <3>1. ~(q >= end) => g[After(q)] = f[After(q)]
      BY <2>2, <2>3
    <3>2. g[q] = IF q >= end THEN <<>> ELSE <<Entry(q)>> \o f[After(q)]
      OBVIOUS
    <3> HIDE DEF g
    <3> QED BY <3>1, <3>2
  <2> HIDE DEF g
  <2>5. Fits(g, n + 1)
    BY <2>4
  <2> HIDE DEF Fits
  <2>6. \E h : Fits(h, n + 1)
    BY <2>5
  <2> QED BY <2>6
<1>3. \A n \in Nat : n \in N
  <2> HIDE DEF N
  <2> QED BY <1>1, <1>2, AllNaturals
<1> DEFINE m == IF end >= 0 THEN end ELSE 0
<1>4. m \in Nat /\ \A q \in Nat : q \in K(m)
  OBVIOUS
<1>5. PICK f : Fits(f, m)
  BY <1>3, <1>4
<1> DEFINE g == [q \in Nat |-> f[q]]
<1>6. ASSUME NEW q \in Nat
      PROVE  g[q] = IF q >= end THEN <<>> ELSE <<Entry(q)>> \o g[After(q)]
  <2>1. f[q] = IF q >= end THEN <<>> ELSE <<Entry(q)>> \o f[After(q)]
    BY <1>4, <1>5
  <2> QED BY <1>0, <2>1
<1>7. g = [q \in Nat |-> g[q]]
  OBVIOUS
<1> HIDE DEF g
<1>8. g = [q \in Nat |-> IF q >= end THEN <<>> ELSE <<Entry(q)>> \o g[After(q)]]
  BY <1>6, <1>7
<1> QED BY <1>8 DEF Entries, Entry, After

(* Pieces of five bytes, one after another.                                *)
LEMMA FlattenFives ==
    ASSUME NEW ss \in Seq(Bytes), \A i \in 1 .. Len(ss) : Len(ss[i]) = 5
    PROVE  /\ Len(FlattenSeq(ss)) = 5 * Len(ss)
           /\ \A d : \A p \in Int : Holds(d, p, FlattenSeq(ss)) =>
                 \A i \in 1 .. Len(ss) : Holds(d, p + 5 * (i - 1), ss[i])
<1> DEFINE Right(tt) ==
             /\ Len(FlattenSeq(tt)) = 5 * Len(tt)
             /\ \A d : \A p \in Int : Holds(d, p, FlattenSeq(tt)) =>
                   \A i \in 1 .. Len(tt) : Holds(d, p + 5 * (i - 1), tt[i])
           Fives(tt) == tt \in Seq(Bytes) /\ \A i \in 1 .. Len(tt) : Len(tt[i]) = 5
           N == {n \in Nat : \A tt : Fives(tt) /\ Len(tt) = n => Right(tt)}
<1>1. 0 \in N
  <2> SUFFICES ASSUME NEW tt, Fives(tt), Len(tt) = 0 PROVE Right(tt)
    OBVIOUS
  <2>1. FlattenSeq(tt) = tt
    BY Zenon DEF FlattenSeq
  <2> QED BY <2>1
<1>2. ASSUME NEW n \in Nat, n \in N PROVE n + 1 \in N
  <2> SUFFICES ASSUME NEW tt, Fives(tt), Len(tt) = n + 1 PROVE Right(tt)
    OBVIOUS
  <2> DEFINE rr == SubSeq(tt, 1, n)
             x  == tt[n + 1]
  <2>1. /\ rr \in Seq(Bytes) /\ Len(rr) = n /\ x \in Bytes /\ Len(x) = 5
        /\ \A i \in 1 .. n : rr[i] = tt[i] /\ Len(rr[i]) = 5
        /\ Append(rr, x) = tt
    OBVIOUS
  <2>2. Right(rr)
    BY <1>2, <2>1
  <2> HIDE DEF rr
  <2>3. FlattenSeq(tt) = FlattenSeq(rr) \o x
    BY <2>1, FlattenAppend
  <2>4. Are(FlattenSeq(rr), 5 * n) /\ Are(x, 5)
    BY <2>1, <2>2, FlattenBytes DEF Are, Bytes
  <2>5. Len(FlattenSeq(tt)) = 5 * Len(tt)
    <3>1. Are(FlattenSeq(rr) \o x, 5 * n + 5)
      BY <2>4, Concat
    <3> QED BY <2>3, <3>1 DEF Are
  <2>6. ASSUME NEW d, NEW p \in Int, Holds(d, p, FlattenSeq(tt)), NEW i \in 1 .. Len(tt)
        PROVE  Holds(d, p + 5 * (i - 1), tt[i])
    <3>1. Holds(d, p, FlattenSeq(rr)) /\ Holds(d, p + 5 * n, x)
      BY <2>3, <2>4, <2>6, HoldsConcat
    <3>2. CASE i = n + 1
      <4>1. i - 1 = n
        BY <3>2
      <4> QED BY <3>1, <3>2, <4>1
    <3>3. CASE i # n + 1
      <4>1. i \in 1 .. Len(rr) /\ rr[i] = tt[i]
        BY <2>1, <3>3
      <4>2. Holds(d, p + 5 * (i - 1), rr[i])
        BY <2>2, <3>1, <4>1
      <4> QED BY <4>1, <4>2, Zenon
    <3> QED BY <3>2, <3>3
  <2> HIDE DEF x, Fives
  <2> QED BY <2>5, <2>6
<1>3. \A n \in Nat : n \in N
  <2> HIDE DEF N
  <2> QED BY <1>1, <1>2, AllNaturals
<1>4. Fives(ss) /\ Len(ss) \in Nat
  OBVIOUS
<1>5. Right(ss)
  <2> HIDE DEF Right, Fives
  <2> QED BY <1>3, <1>4
<1> QED BY <1>5

LEMMA EncodedEntries ==
    ASSUME NEW infos \in Seq(ElementInfo),
           NEW ss, ss = [i \in DOMAIN infos |-> PMTElementInfo_encode(infos[i])]
    PROVE  /\ ss \in Seq(Bytes) /\ Len(ss) = Len(infos)
           /\ \A i \in 1 .. Len(ss) : Len(ss[i]) = 5
<1>1. DOMAIN infos = 1 .. Len(infos) /\ Len(infos) \in Nat
  OBVIOUS
<1>2. \A i \in 1 .. Len(infos) : /\ ss[i] = PMTElementInfo_encode(infos[i])
                                 /\ infos[i] \in ElementInfo
  BY <1>1
<1>3. \A i \in 1 .. Len(infos) : ss[i] \in Bytes /\ Len(ss[i]) = 5
  BY <1>2, ElementInfoAre DEF Are, Bytes
<1>4. ss = [i \in 1 .. Len(infos) |-> ss[i]]
  BY <1>1
<1>5. ss \in Seq(Bytes) /\ Len(ss) = Len(infos)
  BY <1>1, <1>3, <1>4
<1> QED BY <1>3, <1>5

(* The parts of an encoded PMT.                                            *)
LEMMA PmtAre ==
    ASSUME NEW h \in PMTHeader,
           NEW a, a = Bytes2(Put(h.mPcrPid, 0, 13) \cup Put(h.mReserved2, 13, 3)),
           NEW b, b = Bytes2(Put(h.mProgramInfoLength, 0, 12) \cup Put(h.mReserved3, 12, 4)),
           NEW ss, ss = [i \in DOMAIN h.mInfos |-> PMTElementInfo_encode(h.mInfos[i])]
    PROVE  /\ PMTHeader_encode(h) = SectionHead_encode(h.head, 16) \o a \o b \o FlattenSeq(ss)
           /\ Are(SectionHead_encode(h.head, 16), 8) /\ Are(a, 2) /\ Are(b, 2)
           /\ Are(FlattenSeq(ss), 5 * Len(h.mInfos))
           /\ Are(PMTHeader_encode(h), 12 + 5 * Len(h.mInfos))
<1>1. h.head \in SectionHead /\ h.mInfos \in Seq(ElementInfo)
  BY DEF PMTHeader
<1>2. PMTHeader_encode(h) = SectionHead_encode(h.head, 16) \o a \o b \o FlattenSeq(ss)
  BY DEF PMTHeader_encode
<1>3. Are(SectionHead_encode(h.head, 16), 8)
  BY <1>1, SectionHeadAre
<1>4. Are(a, 2) /\ Are(b, 2)
  <2>1. /\ Put(h.mPcrPid, 0, 13) \cup Put(h.mReserved2, 13, 3) \in SUBSET Int
        /\ Put(h.mProgramInfoLength, 0, 12) \cup Put(h.mReserved3, 12, 4) \in SUBSET Int
    BY DEF Put
  <2> QED BY <2>1, TwoBytes
<1>5. /\ ss \in Seq(Bytes) /\ Len(ss) = Len(h.mInfos)
      /\ \A i \in 1 .. Len(ss) : Len(ss[i]) = 5
  BY <1>1, EncodedEntries
<1>6. Are(FlattenSeq(ss), 5 * Len(h.mInfos))
  BY <1>5, FlattenFives, FlattenBytes DEF Are, Bytes
<1>7. Len(h.mInfos) \in Nat
  BY <1>1
<1> DEFINE head == SectionHead_encode(h.head, 16)
           n == Len(h.mInfos)
<1>a. Are(head, 8)
  BY <1>3
<1> HIDE DEF head, n
<1>8. Are(head \o a, 10)
  BY <1>a, <1>4, Concat
<1>9. Are(head \o a \o b, 12)
  BY <1>4, <1>8, Concat
<1>10. Are(head \o a \o b \o FlattenSeq(ss), 12 + 5 * n)
  <2>1. 5 * n \in Nat
    BY <1>7 DEF n
  <2>2. Are(FlattenSeq(ss), 5 * n)
    BY <1>6 DEF n
  <2> QED BY <1>9, <2>1, <2>2, Concat
<1> QED BY <1>2, <1>3, <1>4, <1>6, <1>10 DEF head, n

LEMMA PmtSize ==
    ASSUME NEW h, WellFormedPmt(h)
    PROVE  PMTHeader_size(h) = 12 + 5 * Len(h.mInfos)
<1> DEFINE infos == h.mInfos
           S == DOMAIN infos
           v == [i \in S |-> PMTElementInfo_size(infos[i])]
           iter == CHOOSE iter : iter = [s \in SUBSET S |->
                       IF s = {} THEN 0
                       ELSE LET x == CHOOSE x \in s : TRUE
                            IN  PMTElementInfo_size(infos[x]) + iter[s \ {x}]]
<1>1. infos \in Seq(ElementInfo) /\ S = 1 .. Len(infos) /\ Len(infos) \in Nat
  BY DEF WellFormedPmt, PMTHeader
<1>2. \A i \in S : v[i] = PMTElementInfo_size(infos[i]) /\ v[i] = 5
  <2>1. Num({}) = 0
    BY NumOf DEF Word
  <2>2. \A i \in S : infos[i].mEsInfoLength = {}
    BY DEF WellFormedPmt
  <2>3. ASSUME NEW i \in S PROVE PMTElementInfo_size(infos[i]) = 5
    <3>1. Num(infos[i].mEsInfoLength) = 0
      BY <2>1, <2>2, Zenon
    <3> QED BY <3>1 DEF PMTElementInfo_size
  <2> QED BY <2>3
<1>3. IsFiniteSet(S) /\ Cardinality(S) = Len(infos)
  <2>1. 1 \in Int /\ Len(infos) \in Int
    BY <1>1
  <2>2. IsFiniteSet(1 .. Len(infos)) /\ Cardinality(1 .. Len(infos)) = IF 1 > Len(infos) THEN 0 ELSE Len(infos) - 1 + 1
    BY <2>1, FS_Interval, Zenon
  <2> QED BY <1>1, <2>2
<1>4. PMTHeader_size(h) = 12 + iter[S]
  BY Zenon DEF PMTHeader_size, FoldSeq, FoldFunction, FoldFunctionOnSet, MapThenFoldSet
<1> HIDE DEF v, S, infos
<1>5. PICK f : Sums(f, v, S)
  BY <1>2, <1>3, SumsExist
<1>6. f = [s \in SUBSET S |-> IF s = {} THEN 0
                              ELSE LET x == CHOOSE x \in s : TRUE
                                   IN  PMTElementInfo_size(infos[x]) + f[s \ {x}]]
  <2>1. ASSUME NEW s \in SUBSET S
        PROVE  f[s] = IF s = {} THEN 0
                      ELSE LET x == CHOOSE x \in s : TRUE
                           IN  PMTElementInfo_size(infos[x]) + f[s \ {x}]
    <3>1. f[s] = IF s = {} THEN 0 ELSE v[Pick(s)] + f[s \ {Pick(s)}]
      BY <1>5, Zenon DEF Sums
    <3>2. s # {} => v[Pick(s)] = PMTElementInfo_size(infos[Pick(s)])
      BY <1>2, <1>3, Picked
    <3> QED BY <3>1, <3>2, Zenon DEF Pick
  <2>2. f = [s \in SUBSET S |-> f[s]]
    BY <1>5, Zenon DEF Sums
  <2> QED BY <2>1, <2>2, Zenon
<1>7. iter = [s \in SUBSET S |-> IF s = {} THEN 0
                              ELSE LET x == CHOOSE x \in s : TRUE
                                   IN  PMTElementInfo_size(infos[x]) + iter[s \ {x}]]
  BY <1>6, Zenon
<1> HIDE DEF iter
<1>8. Sums(iter, v, S)
  <2>1. ASSUME NEW s \in SUBSET S
        PROVE  iter[s] = IF s = {} THEN 0 ELSE v[Pick(s)] + iter[s \ {Pick(s)}]
    <3>1. iter[s] = IF s = {} THEN 0
                    ELSE LET x == CHOOSE x \in s : TRUE
                         IN  PMTElementInfo_size(infos[x]) + iter[s \ {x}]
      BY <1>7, Zenon
    <3>2. s # {} => v[Pick(s)] = PMTElementInfo_size(infos[Pick(s)])
      BY <1>2, <1>3, Picked
    <3> QED BY <3>1, <3>2, Zenon DEF Pick
  <2>2. iter = [s \in SUBSET S |-> iter[s]]
    BY <1>7, Zenon
  <2> QED BY <2>1, <2>2, Zenon DEF Sums
<1>9. iter[S] = 5 * Cardinality(S)
  BY <1>2, <1>3, <1>8, SumsOf
<1> QED BY <1>3, <1>4, <1>9 DEF infos

LEMMA FromOn ==
    ASSUME NEW T, NEW s \in Seq(T), NEW j \in 1 .. Len(s)
    PROVE  <<s[j]>> \o SubSeq(s, j + 1, Len(s)) = SubSeq(s, j, Len(s))
<1> DEFINE a == <<s[j]>> \o SubSeq(s, j + 1, Len(s))
           b == SubSeq(s, j, Len(s))
<1>1. a \in Seq(T) /\ b \in Seq(T)
  OBVIOUS
<1>2. Len(a) = Len(s) - j + 1 /\ Len(b) = Len(s) - j + 1
  OBVIOUS
<1>3. ASSUME NEW i \in 1 .. Len(s) - j + 1 PROVE a[i] = b[i]
  <2>1. CASE i = 1
    BY <2>1
  <2>2. CASE i # 1
    <3>1. a[i] = SubSeq(s, j + 1, Len(s))[i - 1]
      BY <2>2
    <3>2. SubSeq(s, j + 1, Len(s))[i - 1] = s[j + i - 1]
      BY <2>2
    <3>3. b[i] = s[j + i - 1]
      OBVIOUS
    <3> QED BY <3>1, <3>2, <3>3
  <2> QED BY <2>1, <2>2
<1> HIDE DEF a, b
<1>4. a = b
  BY <1>1, <1>2, <1>3
<1> QED BY <1>4 DEF a, b

LEMMA EntriesRead ==
    ASSUME NEW infos \in Seq(ElementInfo), NEW d, NEW p \in Nat, NEW f,
           \A i \in DOMAIN infos : infos[i].mEsInfoLength = {},
           Entries(f, d, p + 5 * Len(infos)),
           \A i \in 1 .. Len(infos) : Holds(d, p + 5 * (i - 1), PMTElementInfo_encode(infos[i]))
    PROVE  f[p] = infos
<1> DEFINE n == Len(infos)
           Tails(k) == f[p + 5 * (n - k)] = SubSeq(infos, n - k + 1, n)
           N == {k \in Nat : k <= n => Tails(k)}
<1>0. n \in Nat /\ DOMAIN infos = 1 .. n /\ p + 5 * n \in Nat
  OBVIOUS
<1>a. \A q \in Nat : f[q] = IF q >= p + 5 * n THEN <<>>
                            ELSE <<PMTElementInfo_decode(d, q)>>
                                   \o f[q + PMTElementInfo_size(PMTElementInfo_decode(d, q))]
  BY Zenon DEF Entries
<1>1. 0 \in N
  <2>0. \A q \in Nat : q >= p + 5 * n => f[q] = <<>>
    BY <1>a
  <2>1. f[p + 5 * n] = <<>>
    <3>1. p + 5 * n >= p + 5 * n
      BY <1>0
    <3> QED BY <1>0, <2>0, <3>1, Zenon
  <2>2. SubSeq(infos, n + 1, n) = <<>>
    BY <1>0
  <2>3. n - 0 = n
    BY <1>0
  <2> QED BY <2>1, <2>2, <2>3
<1>2. ASSUME NEW k \in Nat, k \in N PROVE k + 1 \in N
  <2> SUFFICES ASSUME k + 1 <= n PROVE Tails(k + 1)
    OBVIOUS
  <2> DEFINE j == n - k
             q == p + 5 * (j - 1)
  <2>1. j \in 1 .. n /\ n - (k + 1) = j - 1 /\ j - 1 + 1 = j
    BY <1>0
  <2>2. q \in Nat /\ q + 5 = p + 5 * j /\ ~(q >= p + 5 * n)
    BY <1>0, <2>1
  <2>3. f[p + 5 * j] = SubSeq(infos, j + 1, n)
    BY <1>0, <1>2
  <2>4. infos[j] \in ElementInfo /\ infos[j].mEsInfoLength = {}
    BY <1>0, <2>1
  <2>5. Holds(d, q, PMTElementInfo_encode(infos[j]))
    BY <2>1
  <2> HIDE DEF j, q
  <2>6. PMTElementInfo_decode(d, q) = infos[j]
    BY <2>2, <2>4, <2>5, ElementInfoRoundTrip
  <2>7. PMTElementInfo_size(infos[j]) = 5
    <3>1. Num({}) = 0
      BY NumOf DEF Word
    <3> QED BY <2>4, <3>1 DEF PMTElementInfo_size
  <2>8. f[q] = <<infos[j]>> \o SubSeq(infos, j + 1, n)
    <3>1. f[q] = <<infos[j]>> \o f[q + 5]
      BY <1>a, <2>2, <2>6, <2>7
    <3> QED BY <2>2, <2>3, <3>1
  <2>9. <<infos[j]>> \o SubSeq(infos, j + 1, n) = SubSeq(infos, j, n)
    BY <1>0, <2>1, FromOn DEF j
  <2>10. f[p + 5 * (j - 1)] = SubSeq(infos, j, n)
    BY <2>8, <2>9 DEF q
  <2> QED BY <2>1, <2>10
<1>3. \A k \in Nat : k \in N
  <2> HIDE DEF N
  <2> QED BY <1>1, <1>2, AllNaturals
<1>4. Tails(n)
  <2>1. n \in Nat /\ n <= n
    BY <1>0
  <2>2. n \in N
    BY <1>3, <2>1
  <2> HIDE DEF Tails, n
  <2> QED BY <2>1, <2>2
<1>5. n - n = 0 /\ p + 5 * 0 = p /\ SubSeq(infos, 0 + 1, n) = infos
  BY <1>0
<1> QED BY <1>4, <1>5

(***************************************************************************)
(* A PMT comes back whole, all of its entries included, when it announces  *)
(* the section length that createPmt gives it. Its size is what it was     *)
(* encoded in.                                                             *)
(***************************************************************************)
THEOREM PmtRoundTrip ==
    ASSUME NEW h, WellFormedPmt(h), NEW d, NEW p \in Nat, Holds(d, p, PMTHeader_encode(h))
    PROVE  /\ PMTHeader_decode(d, p) = h
           /\ PMTHeader_size(h) = Len(PMTHeader_encode(h))
<1> DEFINE head == SectionHead_encode(h.head, 16)
           v == Put(h.mPcrPid, 0, 13) \cup Put(h.mReserved2, 13, 3)
           w == Put(h.mProgramInfoLength, 0, 12) \cup Put(h.mReserved3, 12, 4)
           a == Bytes2(v)
           b == Bytes2(w)
           ss == [i \in DOMAIN h.mInfos |-> PMTElementInfo_encode(h.mInfos[i])]
           n == Len(h.mInfos)
<1>0. /\ h \in PMTHeader /\ h.head \in SectionHead /\ h.mInfos \in Seq(ElementInfo)
      /\ h.mPcrPid \in Word(13) /\ h.mReserved2 \in Word(3)
      /\ h.mProgramInfoLength \in Word(12) /\ h.mReserved3 \in Word(4)
      /\ h.mProgramInfoLength = {}
      /\ \A i \in DOMAIN h.mInfos : h.mInfos[i].mEsInfoLength = {}
      /\ Num(h.head.mSectionLength) = 12 + 5 * n - 3 + 4
      /\ n \in Nat
  <2>1. /\ h \in PMTHeader /\ h.mProgramInfoLength = {}
        /\ \A i \in DOMAIN h.mInfos : h.mInfos[i].mEsInfoLength = {}
        /\ Num(h.head.mSectionLength) = 12 + 5 * n - 3 + 4
    BY DEF WellFormedPmt
  <2>2. h.head \in SectionHead /\ h.mInfos \in Seq(ElementInfo)
    BY <2>1 DEF PMTHeader
  <2>3. /\ h.mPcrPid \in Word(13) /\ h.mReserved2 \in Word(3)
        /\ h.mProgramInfoLength \in Word(12) /\ h.mReserved3 \in Word(4)
    BY <2>1 DEF PMTHeader
  <2> QED BY <2>1, <2>2, <2>3
<1>1. /\ PMTHeader_encode(h) = head \o a \o b \o FlattenSeq(ss)
      /\ Are(head, 8) /\ Are(a, 2) /\ Are(b, 2)
      /\ Are(FlattenSeq(ss), 5 * n)
      /\ Are(PMTHeader_encode(h), 12 + 5 * n)
  BY <1>0, PmtAre
<1>2. v \in Word(16) /\ Get(v, 0, 13) = h.mPcrPid /\ Get(v, 13, 3) = h.mReserved2
  BY <1>0, PidWord
<1>3. w \in Word(16) /\ Get(w, 0, 12) = h.mProgramInfoLength /\ Get(w, 12, 4) = h.mReserved3
  BY <1>0, LengthWord
<1>4. /\ ss \in Seq(Bytes) /\ Len(ss) = n
      /\ \A i \in 1 .. Len(ss) : Len(ss[i]) = 5
      /\ \A i \in 1 .. n : ss[i] = PMTElementInfo_encode(h.mInfos[i])
  <2>1. /\ ss \in Seq(Bytes) /\ Len(ss) = n
        /\ \A i \in 1 .. Len(ss) : Len(ss[i]) = 5
    <3>1. ss = [i \in DOMAIN h.mInfos |-> PMTElementInfo_encode(h.mInfos[i])]
      OBVIOUS
    <3> HIDE DEF ss
    <3> QED BY <1>0, <3>1, EncodedEntries
  <2>2. DOMAIN h.mInfos = 1 .. n
    BY <1>0
  <2> QED BY <2>1, <2>2
<1> HIDE DEF ss, v, w, head, n
<1>5. Are(head \o a, 10) /\ Are(head \o a \o b, 12)
  <2>1. Are(head \o a, 10)
    BY <1>1, Concat
  <2> QED BY <1>1, <2>1, Concat
<1>6. /\ Holds(d, p, head \o a \o b) /\ Holds(d, p + 12, FlattenSeq(ss))
  <2>1. 5 * n \in Nat
    BY <1>0
  <2> QED BY <1>1, <1>5, <2>1, HoldsConcat
<1>7. Holds(d, p, head \o a) /\ Holds(d, p + 10, b)
  BY <1>1, <1>5, <1>6, HoldsConcat
<1>8. Holds(d, p, head) /\ Holds(d, p + 8, a)
  BY <1>1, <1>7, HoldsConcat
<1>9. SectionHead_decode(d, p) = h.head
  BY <1>0, <1>8, SectionHeadRoundTrip DEF head
<1>10. Word2(d, p + 8) = v /\ Word2(d, p + 10) = w
  BY <1>2, <1>3, <1>7, <1>8, Word2OfBytes2
<1>11. \A i \in 1 .. n : Holds(d, p + 12 + 5 * (i - 1), PMTElementInfo_encode(h.mInfos[i]))
  <2>1. \A i \in 1 .. Len(ss) : Holds(d, p + 12 + 5 * (i - 1), ss[i])
    <3>1. p + 12 \in Int
      OBVIOUS
    <3> QED BY <1>4, <1>6, <3>1, FlattenFives
  <2> QED BY <1>4, <2>1
<1> DEFINE end == EntriesEnd(p, Num(h.head.mSectionLength))
           f == CHOOSE f : f = [q \in Nat |->
                  IF q >= end THEN <<>>
                  ELSE LET e == PMTElementInfo_decode(d, q)
                       IN  <<e>> \o f[q + PMTElementInfo_size(e)]]
<1>12. end = p + 12 + 5 * n
  BY <1>0 DEF EntriesEnd
<1> HIDE DEF end
<1>13. Entries(f, d, end)
  <2>1. end \in Int
    BY <1>0, <1>12
  <2>2. \E g : Entries(g, d, end)
    BY <2>1, EntriesExist
  <2>3. \E g : g = [q \in Nat |-> IF q >= end THEN <<>>
                  ELSE LET e == PMTElementInfo_decode(d, q)
                       IN  <<e>> \o g[q + PMTElementInfo_size(e)]]
    BY <2>2, Zenon DEF Entries
  <2> QED BY <2>3, Zenon DEF Entries
<1> HIDE DEF f
<1>14. f[p + 12] = h.mInfos
  <2> DEFINE q == p + 12
  <2>1. q \in Nat /\ Entries(f, d, q + 5 * Len(h.mInfos))
    <3>1. q \in Nat /\ end = q + 5 * Len(h.mInfos)
      BY <1>12 DEF n
    <3> QED BY <1>13, <3>1
  <2>2. \A i \in 1 .. Len(h.mInfos) :
           Holds(d, q + 5 * (i - 1), PMTElementInfo_encode(h.mInfos[i]))
    BY <1>11 DEF n
  <2> HIDE DEF q
  <2>3. f[q] = h.mInfos
    BY <1>0, <2>1, <2>2, EntriesRead
  <2> QED BY <2>3 DEF q
<1>15. Num(h.mProgramInfoLength) = 0
  BY <1>0, NumOf
<1>16. PMTHeader_decode(d, p) =
         [head |-> h.head, mReserved2 |-> h.mReserved2, mPcrPid |-> h.mPcrPid,
          mReserved3 |-> h.mReserved3, mProgramInfoLength |-> h.mProgramInfoLength,
          mInfos |-> h.mInfos]
  <2>1. PMTHeader_decode(d, p) =
          [head |-> SectionHead_decode(d, p), mReserved2 |-> Get(Word2(d, p + 8), 13, 3),
           mPcrPid |-> Get(Word2(d, p + 8), 0, 13), mReserved3 |-> Get(Word2(d, p + 10), 12, 4),
           mProgramInfoLength |-> Get(Word2(d, p + 10), 0, 12),
           mInfos |-> f[p + 12 + Num(Get(Word2(d, p + 10), 0, 12))]]
    BY <1>9, Zenon DEF PMTHeader_decode, f, end
  <2>2. p + 12 + 0 = p + 12
    OBVIOUS
  <2> QED BY <1>2, <1>3, <1>9, <1>10, <1>14, <1>15, <2>1, <2>2
<1>17. PMTHeader_decode(d, p) = h
  BY <1>0, <1>16 DEF PMTHeader
<1>18. PMTHeader_size(h) = Len(PMTHeader_encode(h))
  BY <1>1, PmtSize DEF Are, n
<1> QED BY <1>17, <1>18
-----------------------------------------------------------------------------
(* A function of the naturals up to n, from one value to the next.         *)
StepsIn(G, X, n) == \A k \in 1 .. n : \A x \in X : G[k][x] \in X
IsRun(c, x0, G, X, n) ==
    c \in [0 .. n -> X] /\ c[0] = x0 /\ \A k \in 1 .. n : c[k] = G[k][c[k - 1]]

LEMMA Iterated ==
    ASSUME NEW X, NEW x0 \in X, NEW n \in Nat, NEW G, StepsIn(G, X, n)
    PROVE  \E c : IsRun(c, x0, G, X, n)
<1> DEFINE Fits(c, m) == /\ c \in [0 .. m -> X] /\ c[0] = x0
                         /\ \A k \in 1 .. m : c[k] = G[k][c[k - 1]]
           N == {m \in Nat : m <= n => \E c : Fits(c, m)}
<1>1. 0 \in N
  <2> DEFINE c == [k \in 0 .. 0 |-> x0]
  <2>1. Fits(c, 0)
    OBVIOUS
  <2> HIDE DEF Fits, c
  <2> QED BY <2>1
<1>2. ASSUME NEW m \in Nat, m \in N PROVE m + 1 \in N
  <2> SUFFICES ASSUME m + 1 <= n PROVE \E c : Fits(c, m + 1)
    OBVIOUS
  <2>1. PICK c : Fits(c, m)
    BY <1>2
  <2> DEFINE e == [k \in 0 .. m + 1 |-> IF k <= m THEN c[k] ELSE G[m + 1][c[m]]]
  <2>2. c[m] \in X /\ G[m + 1][c[m]] \in X
    BY <2>1 DEF StepsIn
  <2>3. e \in [0 .. m + 1 -> X]
    BY <2>1, <2>2
  <2>4. e[0] = x0 /\ e[m + 1] = G[m + 1][c[m]] /\ \A k \in 0 .. m : e[k] = c[k]
    BY <2>1
  <2> HIDE DEF e
  <2>5. ASSUME NEW k \in 1 .. m + 1 PROVE e[k] = G[k][e[k - 1]]
    <3>1. CASE k = m + 1
      BY <3>1, <2>4
    <3>2. CASE k # m + 1
      <4>1. k \in 1 .. m /\ k \in 0 .. m /\ k - 1 \in 0 .. m
        BY <3>2
      <4> QED BY <4>1, <2>1, <2>4
    <3> QED BY <3>1, <3>2
  <2>6. Fits(e, m + 1)
    BY <2>3, <2>4, <2>5
  <2> HIDE DEF Fits
  <2> QED BY <2>6
<1>3. \A m \in Nat : m \in N
  <2> HIDE DEF N
  <2> QED BY <1>1, <1>2, AllNaturals
<1> QED BY <1>3 DEF IsRun

(* The words of the checksum.                                              *)
LEMMA DividedWord ==
    ASSUME NEW w \in Word(32)
    PROVE  Divided(w) \in Word(32) /\ Divided({}) = {}
<1>1. w \in SUBSET (0 .. 31)
  BY DEF Word, Low
<1>2. Divided({}) = {}
  BY DEF Divided, Shl
<1>3. CASE 31 \in w
  <2>1. Shl(w \ {31}, 1) \in SUBSET (0 .. 31)
    BY <1>1 DEF Shl
  <2>2. CrcPolynomial \in SUBSET (0 .. 31)
    BY DEF CrcPolynomial
  <2>3. Divided(w) = Xor(Shl(w \ {31}, 1), CrcPolynomial)
    BY <1>3 DEF Divided
  <2>4. Divided(w) \in SUBSET (0 .. 31)
    BY <2>1, <2>2, <2>3 DEF Xor
  <2> QED BY <1>2, <2>4 DEF Word, Low
<1>4. CASE 31 \notin w
  <2>1. Shl(w, 1) \in SUBSET (0 .. 31)
    BY <1>1, <1>4 DEF Shl
  <2> QED BY <1>2, <1>4, <2>1 DEF Divided, Word, Low
<1> QED BY <1>3, <1>4

LEMMA CrcTable ==
    /\ crcTable \in [Byte -> Word(32)]
    /\ crcTable[{}] = {}
<1> DEFINE W == Word(32)
           id == [w \in W |-> w]
           X == [W -> W]
           G == [k \in 1 .. 8 |-> [h \in X |-> [w \in W |-> h[Divided(w)]]]]
           divided == CHOOSE divided : divided =
                          [n \in 0 .. 8 |-> IF n = 0 THEN [w \in W |-> w]
                                            ELSE [w \in W |-> divided[n - 1][Divided(w)]]]
<1>1. \A w \in W : Divided(w) \in W
  BY DividedWord
<1>2. Divided({}) = {} /\ {} \in W
  BY DividedWord DEF Word
<1>3. crcTable = [b \in Byte |-> divided[8][Shl(b, 24)]]
  BY Zenon DEF crcTable
<1>w. \A b \in Byte : Shl(b, 24) \in W
  BY DEF Byte, Word, Low, Shl
<1> HIDE DEF W
<1>4. id \in X /\ \A k \in 1 .. 8 : \A h \in X : G[k][h] \in X
  BY <1>1
<1>5. \E c \in [0 .. 8 -> X] : c[0] = id /\ \A k \in 1 .. 8 : c[k] = G[k][c[k - 1]]
  <2> HIDE DEF X, G, id
  <2>1. PICK m \in Nat : m = 8
    OBVIOUS
  <2>2. StepsIn(G, X, m)
    BY <1>4, <2>1, Zenon DEF StepsIn
  <2>3. \E c : IsRun(c, id, G, X, m)
    <3>1. id \in X
      BY <1>4
    <3> QED BY <3>1, <2>2, Iterated, Zenon
  <2> QED BY <2>1, <2>3, Zenon DEF IsRun
<1>6. PICK c \in [0 .. 8 -> X] : c[0] = id /\ \A k \in 1 .. 8 : c[k] = G[k][c[k - 1]]
  BY <1>5
<1>7. \A n \in 0 .. 8 : c[n] = IF n = 0 THEN [w \in W |-> w] ELSE [w \in W |-> c[n - 1][Divided(w)]]
  <2> SUFFICES ASSUME NEW n \in 0 .. 8
               PROVE  c[n] = IF n = 0 THEN [w \in W |-> w] ELSE [w \in W |-> c[n - 1][Divided(w)]]
    OBVIOUS
  <2>1. CASE n = 0
    BY <2>1, <1>6
  <2>2. CASE n # 0
    <3>1. n \in 1 .. 8 /\ c[n - 1] \in X
      BY <2>2, <1>6
    <3>2. c[n] = G[n][c[n - 1]]
      BY <3>1, <1>6
    <3>3. G[n][c[n - 1]] = [w \in W |-> c[n - 1][Divided(w)]]
      BY <3>1
    <3> QED BY <2>2, <3>2, <3>3, Zenon
  <2> QED BY <2>1, <2>2
<1>8. c = [n \in 0 .. 8 |-> IF n = 0 THEN [w \in W |-> w] ELSE [w \in W |-> c[n - 1][Divided(w)]]]
  BY <1>6, <1>7, Zenon
<1>9. divided = [n \in 0 .. 8 |-> IF n = 0 THEN [w \in W |-> w]
                                  ELSE [w \in W |-> divided[n - 1][Divided(w)]]]
  BY <1>8, Zenon
<1> HIDE DEF divided
<1>10. \A n \in 0 .. 8 : divided[n] = IF n = 0 THEN [w \in W |-> w]
                                       ELSE [w \in W |-> divided[n - 1][Divided(w)]]
  BY <1>9, Zenon
<1> DEFINE N == {n \in Nat : n <= 8 => divided[n] \in X /\ divided[n][{}] = {}}
<1>11. 0 \in N
  BY <1>2, <1>10
<1>12. ASSUME NEW n \in Nat, n \in N PROVE n + 1 \in N
  <2> SUFFICES ASSUME n + 1 <= 8 PROVE divided[n + 1] \in X /\ divided[n + 1][{}] = {}
    OBVIOUS
  <2>1. divided[n] \in X /\ divided[n][{}] = {}
    BY <1>12
  <2>2. divided[n + 1] = [w \in W |-> divided[n][Divided(w)]]
    <3>1. n + 1 \in 0 .. 8 /\ n + 1 # 0 /\ (n + 1) - 1 = n
      OBVIOUS
    <3> QED BY <3>1, <1>10
  <2> QED BY <2>1, <2>2, <1>1, <1>2
<1>13. \A n \in Nat : n \in N
  <2> HIDE DEF N
  <2> QED BY <1>11, <1>12, AllNaturals
<1>14. divided[8] \in [W -> W] /\ divided[8][{}] = {}
  BY <1>13
<1>15. Shl({}, 24) = {} /\ {} \in Byte
  BY DEF Shl, Byte, Word
<1> QED BY <1>3, <1>14, <1>15, <1>w DEF W

CrcStep(lCrc, b) == Xor(Shl(lCrc, 8) \cap Low(32), crcTable[Xor(Get(lCrc, 24, 8), b)])

LEMMA CrcStepType ==
    ASSUME NEW lCrc \in Word(32), NEW b \in Byte
    PROVE  CrcStep(lCrc, b) \in Word(32)
<1>1. Get(lCrc, 24, 8) \in Byte
  <2>1. lCrc \in SUBSET Int
    BY DEF Word, Low
  <2> QED BY <2>1, GetWord DEF Byte
<1>2. Xor(Get(lCrc, 24, 8), b) \in Byte
  BY <1>1 DEF Xor, Byte, Word
<1> DEFINE t == crcTable[Xor(Get(lCrc, 24, 8), b)]
<1>3. t \in Word(32)
  BY <1>2, CrcTable
<1> HIDE DEF t
<1>4. Xor(Shl(lCrc, 8) \cap Low(32), t) \in Word(32)
  BY <1>3 DEF Xor, Word
<1> QED BY <1>4 DEF CrcStep, t

(* The last of a set of positions, as the fold takes them.                 *)
LEMMA MaxIs ==
    ASSUME NEW m \in Nat, NEW t \in SUBSET (1 .. m + 1), m + 1 \in t
    PROVE  Max(t) = m + 1
<1>1. \A y \in t : m + 1 >= y
  OBVIOUS
<1>2. ASSUME NEW x \in t, \A y \in t : x >= y PROVE x = m + 1
  BY <1>2
<1>3. \E x \in t : \A y \in t : x >= y
  BY <1>1
<1>4. Max(t) \in t /\ \A y \in t : Max(t) >= y
  BY <1>3, Zenon DEF Max
<1> QED BY <1>2, <1>4

Folds(f, s, S) ==
    f = [t \in SUBSET S |-> IF t = {} THEN Low(32) ELSE CrcStep(f[t \ {Max(t)}], s[Max(t)])]

LEMMA FoldsExist ==
    ASSUME NEW s, NEW n \in Nat
    PROVE  \E f : Folds(f, s, 1 .. n)
<1> DEFINE Fits(f, m) == \A t \in SUBSET (1 .. m) :
                            f[t] = IF t = {} THEN Low(32) ELSE CrcStep(f[t \ {Max(t)}], s[Max(t)])
           N == {m \in Nat : \E f : Fits(f, m)}
<1>1. 0 \in N
  <2> DEFINE f == [t \in {{}} |-> Low(32)]
  <2>1. \A t \in SUBSET (1 .. 0) : t = {}
    OBVIOUS
  <2>2. Fits(f, 0)
    BY <2>1
  <2> QED BY <2>2
<1>2. ASSUME NEW m \in Nat, m \in N PROVE m + 1 \in N
  <2>1. PICK f : Fits(f, m)
    BY <1>2
  <2> DEFINE g == [t \in SUBSET (1 .. m + 1) |->
                     IF m + 1 \in t THEN CrcStep(f[t \ {m + 1}], s[m + 1]) ELSE f[t]]
  <2>2. ASSUME NEW t \in SUBSET (1 .. m + 1)
        PROVE  g[t] = IF m + 1 \in t THEN CrcStep(f[t \ {m + 1}], s[m + 1]) ELSE f[t]
    OBVIOUS
  <2> HIDE DEF g
  <2>3. ASSUME NEW t \in SUBSET (1 .. m + 1)
        PROVE  g[t] = IF t = {} THEN Low(32) ELSE CrcStep(g[t \ {Max(t)}], s[Max(t)])
    <3>1. CASE m + 1 \in t
      <4>1. Max(t) = m + 1
        BY <3>1, MaxIs
      <4>2. t \ {m + 1} \in SUBSET (1 .. m + 1) /\ m + 1 \notin t \ {m + 1}
        OBVIOUS
      <4>3. g[t \ {m + 1}] = f[t \ {m + 1}]
        BY <4>2, <2>2, Zenon
      <4> QED BY <3>1, <4>1, <4>3, <2>2, Zenon
    <3>2. CASE m + 1 \notin t
      <4>1. t \in SUBSET (1 .. m)
        BY <3>2
      <4>2. t \ {Max(t)} \in SUBSET (1 .. m + 1) /\ m + 1 \notin t \ {Max(t)}
        BY <3>2, Zenon
      <4>3. g[t] = f[t] /\ g[t \ {Max(t)}] = f[t \ {Max(t)}]
        BY <3>2, <4>2, <2>2, Zenon
      <4>4. f[t] = IF t = {} THEN Low(32) ELSE CrcStep(f[t \ {Max(t)}], s[Max(t)])
        BY <4>1, <2>1, Zenon
      <4> QED BY <4>3, <4>4, Zenon
    <3> QED BY <3>1, <3>2
  <2>4. Fits(g, m + 1)
    BY <2>3
  <2> HIDE DEF Fits
  <2> QED BY <2>4
<1>3. \A m \in Nat : m \in N
  <2> HIDE DEF N
  <2> QED BY <1>1, <1>2, AllNaturals
<1>4. PICK f : Fits(f, n)
  BY <1>3
<1> DEFINE g == [t \in SUBSET (1 .. n) |-> f[t]]
<1>5. ASSUME NEW t \in SUBSET (1 .. n)
      PROVE  g[t] = IF t = {} THEN Low(32) ELSE CrcStep(g[t \ {Max(t)}], s[Max(t)])
  <2>1. t \ {Max(t)} \in SUBSET (1 .. n)
    BY Zenon
  <2>2. g[t] = f[t] /\ g[t \ {Max(t)}] = f[t \ {Max(t)}]
    BY <2>1, Zenon
  <2> QED BY <1>4, <2>2, Zenon
<1>6. g = [t \in SUBSET (1 .. n) |-> g[t]]
  OBVIOUS
<1> HIDE DEF g
<1>7. Folds(g, s, 1 .. n)
  BY <1>5, <1>6, Zenon DEF Folds
<1> QED BY <1>7

(* The checksum as the loop has it after each byte.                        *)
Crcs(c, s) ==
    /\ c \in [0 .. Len(s) -> Word(32)]
    /\ c[0] = Low(32)
    /\ \A k \in 1 .. Len(s) : c[k] = CrcStep(c[k - 1], s[k])

LEMMA CrcRuns ==
    ASSUME NEW s \in Seq(Byte)
    PROVE  \E c : Crcs(c, s) /\ crc32(s) = c[Len(s)]
<1> DEFINE n == Len(s)
           iter == CHOOSE iter : iter = [t \in SUBSET (DOMAIN s) |->
                       IF t = {} THEN Low(32)
                       ELSE LET x == Max(t) IN CrcStep(iter[t \ {x}], s[x])]
<1>1. n \in Nat /\ DOMAIN s = 1 .. n /\ \A k \in 1 .. n : s[k] \in Byte
  OBVIOUS
<1>2. PICK f : Folds(f, s, 1 .. n)
  <2> HIDE DEF n
  <2> QED BY <1>1, FoldsExist
<1>3. iter = [t \in SUBSET (DOMAIN s) |->
                 IF t = {} THEN Low(32) ELSE LET x == Max(t) IN CrcStep(iter[t \ {x}], s[x])]
  <2> HIDE DEF n
  <2> QED BY <1>1, <1>2, Zenon DEF Folds
<1>4. crc32(s) = iter[DOMAIN s]
  BY Zenon DEF crc32, FoldLeft, MapThenFoldSet, CrcStep
<1> HIDE DEF iter, n
<1>5. \A t \in SUBSET (1 .. n) :
         iter[t] = IF t = {} THEN Low(32) ELSE CrcStep(iter[t \ {Max(t)}], s[Max(t)])
  BY <1>1, <1>3, Zenon
<1> DEFINE c == [k \in 0 .. n |-> iter[1 .. k]]
           N == {k \in Nat : k <= n => iter[1 .. k] \in Word(32)}
<1>6. iter[1 .. 0] = Low(32)
  <2>1. 1 .. 0 = {} /\ 1 .. 0 \in SUBSET (1 .. n)
    OBVIOUS
  <2> QED BY <1>5, <2>1, Zenon
<1>7. ASSUME NEW k \in 1 .. n PROVE iter[1 .. k] = CrcStep(iter[1 .. k - 1], s[k])
  <2>1. k - 1 \in Nat /\ (k - 1) + 1 = k /\ 1 .. k # {} /\ 1 .. k \in SUBSET (1 .. n) /\ k \in 1 .. k
        /\ (1 .. k) \ {k} = 1 .. k - 1
    BY <1>1
  <2>2. Max(1 .. k) = k
    <3>1. PICK m \in Nat : m + 1 = k
      BY <2>1
    <3>2. 1 .. m + 1 \in SUBSET (1 .. m + 1) /\ m + 1 \in 1 .. m + 1
      OBVIOUS
    <3>3. Max(1 .. m + 1) = m + 1
      BY <3>2, MaxIs
    <3> QED BY <3>1, <3>3
  <2> QED BY <1>5, <2>1, <2>2, Zenon
<1>8. 0 \in N
  BY <1>6 DEF Word
<1>9. ASSUME NEW k \in Nat, k \in N PROVE k + 1 \in N
  <2> SUFFICES ASSUME k + 1 <= n PROVE iter[1 .. k + 1] \in Word(32)
    OBVIOUS
  <2>1. k + 1 \in 1 .. n /\ (k + 1) - 1 = k /\ iter[1 .. k] \in Word(32) /\ s[k + 1] \in Byte
    BY <1>1, <1>9
  <2>2. iter[1 .. k + 1] = CrcStep(iter[1 .. k], s[k + 1])
    BY <1>7, <2>1
  <2> QED BY <2>1, <2>2, CrcStepType
<1>10. \A k \in Nat : k \in N
  <2> HIDE DEF N
  <2> QED BY <1>8, <1>9, AllNaturals
<1>11. Crcs(c, s)
  <2>1. c \in [0 .. Len(s) -> Word(32)]
    BY <1>1, <1>10 DEF n
  <2>2. c[0] = Low(32)
    BY <1>1, <1>6
  <2>3. ASSUME NEW k \in 1 .. Len(s) PROVE c[k] = CrcStep(c[k - 1], s[k])
    <3>1. k \in 1 .. n /\ k \in 0 .. n /\ k - 1 \in 0 .. n
      BY <1>1 DEF n
    <3>2. c[k] = iter[1 .. k] /\ c[k - 1] = iter[1 .. k - 1]
      BY <3>1, Zenon
    <3> QED BY <1>7, <3>1, <3>2, Zenon
  <2> HIDE DEF c
  <2> QED BY <2>1, <2>2, <2>3 DEF Crcs
<1>12. c[Len(s)] = crc32(s)
  BY <1>1, <1>4 DEF n
<1> QED BY <1>11, <1>12, Zenon

(* A word moved up by one byte.                                            *)
Up(w) == Shl(w, 8) \cap Low(32)

LEMMA InUp ==
    ASSUME NEW w \in Word(32)
    PROVE  /\ Up(w) \in Word(32)
           /\ \A x \in Int : x \in Up(w) <=> x \in 8 .. 31 /\ x - 8 \in w
<1>1. w \in SUBSET Int /\ w \subseteq 0 .. 31
  BY DEF Word, Low
<1>2. ASSUME NEW x \in Int PROVE x \in Up(w) <=> x \in 8 .. 31 /\ x - 8 \in w
  <2>1. x \in Shl(w, 8) <=> x - 8 \in w
    BY <1>1, InShl
  <2>2. x - 8 \in w => x >= 8
    BY <1>1
  <2> QED BY <2>1, <2>2 DEF Up, Low
<1>3. Up(w) \in Word(32)
  BY DEF Up, Word
<1> QED BY <1>2, <1>3

LEMMA UpGet ==
    ASSUME NEW w \in Word(32)
    PROVE  /\ Get(Up(w), 24, 8) = Get(w, 16, 8)
           /\ Get(Up(w), 16, 8) = Get(w, 8, 8)
           /\ Get(Up(w), 8, 8) = Get(w, 0, 8)
<1>1. w \in SUBSET Int /\ Up(w) \in SUBSET Int
  BY InUp DEF Word, Low
<1>2. ASSUME NEW at \in {8, 16, 24} PROVE Get(Up(w), at, 8) = Get(w, at - 8, 8)
  <2>1. ASSUME NEW x PROVE x \in Get(Up(w), at, 8) <=> x \in Get(w, at - 8, 8)
    <3>1. at \in Nat /\ at - 8 \in Nat
      OBVIOUS
    <3>2. x \in Get(Up(w), at, 8) <=> x \in 0 .. 7 /\ x + at \in Up(w)
      BY <1>1, <3>1, InGet
    <3>3. x \in Get(w, at - 8, 8) <=> x \in 0 .. 7 /\ x + (at - 8) \in w
      BY <1>1, <3>1, InGet
    <3>4. x \in 0 .. 7 => x + at \in Int /\ x + at \in 8 .. 31 /\ (x + at) - 8 = x + (at - 8)
      OBVIOUS
    <3> QED BY <3>2, <3>3, <3>4, InUp
  <2> QED BY <2>1
<1> QED BY <1>2

LEMMA UpOut ==
    ASSUME NEW w \in Word(32)
    PROVE  Up(Up(Up(Up(w)))) = {}
<1>1. Up(w) \in Word(32) /\ \A x \in Up(w) : x >= 8
  BY InUp DEF Word, Low
<1>2. Up(Up(w)) \in Word(32) /\ \A x \in Up(Up(w)) : x >= 16
  <2> DEFINE v == Up(w)
  <2> HIDE DEF v
  <2>1. v \in Word(32) /\ \A x \in v : x >= 8
    BY <1>1 DEF v
  <2>2. Up(v) \in Word(32) /\ \A x \in Up(v) : x >= 16
    BY <2>1, InUp DEF Word, Low
  <2> QED BY <2>2 DEF v
<1>3. Up(Up(Up(w))) \in Word(32) /\ \A x \in Up(Up(Up(w))) : x >= 24
  <2> DEFINE v == Up(Up(w))
  <2> HIDE DEF v
  <2>1. v \in Word(32) /\ \A x \in v : x >= 16
    BY <1>2 DEF v
  <2>2. Up(v) \in Word(32) /\ \A x \in Up(v) : x >= 24
    BY <2>1, InUp DEF Word, Low
  <2> QED BY <2>2 DEF v
<1>4. Up(Up(Up(Up(w)))) \in Word(32) /\ \A x \in Up(Up(Up(Up(w)))) : x >= 32
  <2> DEFINE v == Up(Up(Up(w)))
  <2> HIDE DEF v
  <2>1. v \in Word(32) /\ \A x \in v : x >= 24
    BY <1>3 DEF v
  <2>2. Up(v) \in Word(32) /\ \A x \in Up(v) : x >= 32
    BY <2>1, InUp DEF Word, Low
  <2> QED BY <2>2 DEF v
<1> DEFINE u == Up(Up(Up(Up(w))))
<1> HIDE DEF u
<1>5. u \in Word(32) /\ \A x \in u : x >= 32
  BY <1>4 DEF u
<1>6. u = {}
  BY <1>5 DEF Word, Low
<1> QED BY <1>6 DEF u

(* A checksum's own high byte only moves it up.                            *)
LEMMA CrcOwnByte ==
    ASSUME NEW w \in Word(32)
    PROVE  CrcStep(w, Get(w, 24, 8)) = Up(w)
<1>1. Xor(Get(w, 24, 8), Get(w, 24, 8)) = {}
  BY DEF Xor
<1>2. Xor(Up(w), {}) = Up(w)
  BY DEF Xor
<1> QED BY <1>1, <1>2, CrcTable, Zenon DEF CrcStep, Up

LEMMA CrcsAgree ==
    ASSUME NEW s \in Seq(Byte), NEW t \in Seq(Byte), NEW c, Crcs(c, s), NEW e, Crcs(e, s \o t)
    PROVE  \A k \in 0 .. Len(s) : c[k] = e[k]
<1> DEFINE N == {k \in Nat : k <= Len(s) => c[k] = e[k]}
<1>0. Len(s) \in Nat /\ Len(t) \in Nat /\ Len(s \o t) = Len(s) + Len(t)
  OBVIOUS
<1>1. 0 \in N
  BY DEF Crcs
<1>2. ASSUME NEW k \in Nat, k \in N PROVE k + 1 \in N
  <2> SUFFICES ASSUME k + 1 <= Len(s) PROVE c[k + 1] = e[k + 1]
    OBVIOUS
  <2>1. k + 1 \in 1 .. Len(s) /\ k + 1 \in 1 .. Len(s \o t) /\ (k + 1) - 1 = k
    BY <1>0
  <2>2. (s \o t)[k + 1] = s[k + 1]
    BY <2>1
  <2>3. c[k] = e[k]
    BY <1>2, <2>1
  <2>4. c[k + 1] = CrcStep(c[k], s[k + 1])
    BY <2>1 DEF Crcs
  <2>5. e[k + 1] = CrcStep(e[k], (s \o t)[k + 1])
    BY <2>1 DEF Crcs
  <2> QED BY <2>2, <2>3, <2>4, <2>5
<1>3. \A k \in Nat : k \in N
  <2> HIDE DEF N
  <2> QED BY <1>1, <1>2, AllNaturals
<1> QED BY <1>0, <1>3

LEMMA Appended ==
    ASSUME NEW S, NEW s \in Seq(S), NEW q \in Seq(S)
    PROVE  /\ s \o q \in Seq(S) /\ Len(s) \in Nat
           /\ Len(s \o q) = Len(s) + Len(q)
           /\ \A k \in 1 .. Len(q) : (s \o q)[Len(s) + k] = q[k]
<1>1. s \o q \in Seq(S)
  OBVIOUS
<1>2. Len(s) \in Nat /\ Len(q) \in Nat /\ Len(s \o q) = Len(s) + Len(q)
  OBVIOUS
<1>3. \A k \in 1 .. Len(q) : (s \o q)[Len(s) + k] = q[k]
  BY <1>2
<1> QED BY <1>1, <1>2, <1>3

LEMMA FourMore ==
    ASSUME NEW S, NEW s \in Seq(S), NEW q \in Seq(S)
    PROVE  Len(q) = 4 =>
               /\ s \o q \in Seq(S)
               /\ Len(s \o q) = Len(s) + 4
               /\ (s \o q)[Len(s) + 1] = q[1] /\ (s \o q)[Len(s) + 2] = q[2]
               /\ (s \o q)[Len(s) + 3] = q[3] /\ (s \o q)[Len(s) + 4] = q[4]
<1> DEFINE u == s \o q
<1>1. /\ u \in Seq(S) /\ Len(s) \in Nat
      /\ Len(u) = Len(s) + Len(q)
      /\ \A k \in 1 .. Len(q) : u[Len(s) + k] = q[k]
  BY Appended, Zenon
<1> HIDE DEF u
<1>2. Len(q) = 4 =>
               /\ u \in Seq(S)
               /\ Len(u) = Len(s) + 4
               /\ u[Len(s) + 1] = q[1] /\ u[Len(s) + 2] = q[2]
               /\ u[Len(s) + 3] = q[3] /\ u[Len(s) + 4] = q[4]
  BY <1>1, SMT
<1> QED BY <1>2 DEF u

(* What follows a run of bytes by its checksum is accepted: the checksum   *)
(* of both is 0.                                                           *)
THEOREM CrcChecks ==
    ASSUME NEW s \in Seq(Byte)
    PROVE  /\ crc32(s) \in Word(32)
           /\ crc32(s \o Bytes4(crc32(s))) = {}
<1>1. PICK c : Crcs(c, s) /\ crc32(s) = c[Len(s)]
  BY CrcRuns
<1> DEFINE n == Len(s)
           w == crc32(s)
           t == Bytes4(w)
           u == s \o t
<1>2. n \in Nat /\ w \in Word(32)
  BY <1>1 DEF Crcs
<1>3. /\ t \in Seq(Byte) /\ Len(t) = 4
      /\ t[1] = Get(w, 24, 8) /\ t[2] = Get(w, 16, 8) /\ t[3] = Get(w, 8, 8) /\ t[4] = Get(w, 0, 8)
  <2> HIDE DEF w
  <2>1. w \in SUBSET Int
    BY <1>2 DEF Word, Low
  <2>2. /\ Get(w, 24, 8) \in Byte /\ Get(w, 16, 8) \in Byte /\ Get(w, 8, 8) \in Byte
        /\ Get(w, 0, 8) \in Byte
    BY <2>1, GetWord DEF Byte
  <2> QED BY <2>2 DEF Bytes4
<1> HIDE DEF w, t
<1>4. u \in Seq(Byte) /\ Len(u) = n + 4
  BY <1>3, FourMore, Zenon
<1>5. u[n + 1] = t[1] /\ u[n + 2] = t[2] /\ u[n + 3] = t[3] /\ u[n + 4] = t[4]
  BY <1>3, FourMore, Zenon
<1> HIDE DEF u
<1>6. PICK e : Crcs(e, u) /\ crc32(u) = e[Len(u)]
  BY <1>4, CrcRuns
<1>7. e[n] = w
  <2>1. n \in 0 .. Len(s)
    BY <1>2
  <2> QED BY <1>1, <1>3, <1>6, <2>1, CrcsAgree DEF u, w
<1>8. ASSUME NEW k \in {n, n + 1, n + 2, n + 3} PROVE e[k + 1] = CrcStep(e[k], u[k + 1])
  <2>1. k + 1 \in 1 .. Len(u) /\ (k + 1) - 1 = k
    BY <1>2, <1>4, <1>8
  <2> QED BY <1>6, <2>1 DEF Crcs
<1>9. e[n + 1] = Up(w)
  BY <1>2, <1>3, <1>5, <1>7, <1>8, CrcOwnByte
<1>10. Up(w) \in Word(32) /\ Up(Up(w)) \in Word(32) /\ Up(Up(Up(w))) \in Word(32)
  BY <1>2, InUp
<1>11. e[n + 2] = Up(Up(w))
  <2>1. t[2] = Get(Up(w), 24, 8)
    BY <1>2, <1>3, UpGet
  <2>2. e[n + 2] = CrcStep(e[n + 1], u[n + 2])
    BY <1>2, <1>8
  <2> QED BY <1>5, <1>9, <1>10, <2>1, <2>2, CrcOwnByte
<1>12. e[n + 3] = Up(Up(Up(w)))
  <2>1. t[3] = Get(Up(w), 16, 8) /\ Get(Up(w), 16, 8) = Get(Up(Up(w)), 24, 8)
    BY <1>2, <1>3, <1>10, UpGet
  <2>2. e[n + 3] = CrcStep(e[n + 2], u[n + 3])
    BY <1>2, <1>8
  <2> QED BY <1>5, <1>11, <1>10, <2>1, <2>2, CrcOwnByte
<1>13. e[n + 4] = Up(Up(Up(Up(w))))
  <2>1. /\ t[4] = Get(Up(w), 8, 8) /\ Get(Up(w), 8, 8) = Get(Up(Up(w)), 16, 8)
        /\ Get(Up(Up(w)), 16, 8) = Get(Up(Up(Up(w))), 24, 8)
    BY <1>2, <1>3, <1>10, UpGet
  <2>2. e[n + 4] = CrcStep(e[n + 3], u[n + 4])
    BY <1>2, <1>8
  <2> QED BY <1>5, <1>12, <1>10, <2>1, <2>2, CrcOwnByte
<1>14. crc32(u) = {}
  BY <1>2, <1>4, <1>6, <1>13, UpOut
<1> QED BY <1>2, <1>14 DEF u, t, w
-----------------------------------------------------------------------------
(* Sections are bytes.                                                     *)
LEMMA TwoInBytes ==
    ASSUME NEW w \in SUBSET Int
    PROVE  Bytes2(w) \in Seq(Byte)
<1>1. Get(w, 8, 8) \in Byte /\ Get(w, 0, 8) \in Byte
  BY GetWord DEF Byte
<1> QED BY <1>1 DEF Bytes2

LEMMA SectionHeadBytes ==
    ASSUME NEW h \in SectionHead, NEW lengthBits \in Nat
    PROVE  SectionHead_encode(h, lengthBits) \in Seq(Byte)
<1> DEFINE w == Put(h.mSectionLength, 0, lengthBits) \cup Put(h.mReserved0, 12, 2)
                  \cup Put(h.mB0, 14, 1) \cup Put(h.mSectionSyntaxIndicator, 15, 1)
           b == Put(h.mCurrentNextIndicator, 0, 1) \cup Put(h.mVersionNumber, 1, 5)
                  \cup Put(h.mReserved1, 6, 2)
           last == <<b, h.mSectionNumber, h.mLastSectionNumber>>
<1>1. w \in SUBSET Int
  BY DEF Put
<1>2. b \in Byte
  BY PutWord DEF Byte, Word
<1>3. h.mTableId \in Byte /\ h.number \in SUBSET Int
      /\ h.mSectionNumber \in Byte /\ h.mLastSectionNumber \in Byte
  BY DEF SectionHead, Word, Low
<1>4. SectionHead_encode(h, lengthBits) = <<h.mTableId>> \o Bytes2(w) \o Bytes2(h.number) \o last
  BY DEF SectionHead_encode
<1> HIDE DEF w, b
<1>5. <<h.mTableId>> \in Seq(Byte) /\ last \in Seq(Byte)
  BY <1>2, <1>3
<1>6. Bytes2(w) \in Seq(Byte) /\ Bytes2(h.number) \in Seq(Byte)
  BY <1>1, <1>3, TwoInBytes
<1>7. <<h.mTableId>> \o Bytes2(w) \in Seq(Byte)
  BY <1>5, <1>6, Appended, Zenon
<1>8. <<h.mTableId>> \o Bytes2(w) \o Bytes2(h.number) \in Seq(Byte)
  BY <1>6, <1>7, Appended, Zenon
<1> QED BY <1>4, <1>5, <1>8, Appended, Zenon

LEMMA ElementInfoBytes ==
    ASSUME NEW e \in ElementInfo
    PROVE  PMTElementInfo_encode(e) \in Seq(Byte)
<1> DEFINE v == Put(e.mElementaryPid, 0, 13) \cup Put(e.mReserved0, 13, 3)
           w == Put(e.mEsInfoLength, 0, 12) \cup Put(e.mReserved1, 12, 4)
<1>1. v \in SUBSET Int /\ w \in SUBSET Int
  BY DEF Put
<1>2. <<e.mStreamType>> \in Seq(Byte)
  BY DEF ElementInfo
<1>3. PMTElementInfo_encode(e) = <<e.mStreamType>> \o Bytes2(v) \o Bytes2(w)
  BY DEF PMTElementInfo_encode
<1> HIDE DEF v, w
<1>4. Bytes2(v) \in Seq(Byte) /\ Bytes2(w) \in Seq(Byte)
  BY <1>1, TwoInBytes
<1>5. <<e.mStreamType>> \o Bytes2(v) \in Seq(Byte)
  BY <1>2, <1>4, Appended, Zenon
<1> QED BY <1>3, <1>4, <1>5, Appended, Zenon

LEMMA PmtInBytes ==
    ASSUME NEW h \in PMTHeader
    PROVE  PMTHeader_encode(h) \in Seq(Byte)
<1> DEFINE head == SectionHead_encode(h.head, 16)
           v == Put(h.mPcrPid, 0, 13) \cup Put(h.mReserved2, 13, 3)
           w == Put(h.mProgramInfoLength, 0, 12) \cup Put(h.mReserved3, 12, 4)
           ss == [i \in DOMAIN h.mInfos |-> PMTElementInfo_encode(h.mInfos[i])]
           f == FlattenSeq(ss)
<1>1. h.head \in SectionHead /\ h.mInfos \in Seq(ElementInfo) /\ v \in SUBSET Int /\ w \in SUBSET Int
  BY DEF PMTHeader, Put
<1>2. PMTHeader_encode(h) = head \o Bytes2(v) \o Bytes2(w) \o f
  BY DEF PMTHeader_encode
<1>3. head \in Seq(Byte)
  BY <1>1, SectionHeadBytes
<1>4. /\ ss \in Seq(Bytes) /\ Len(ss) = Len(h.mInfos)
      /\ \A i \in 1 .. Len(ss) : Len(ss[i]) = 5
  <2>1. ss = [i \in DOMAIN h.mInfos |-> PMTElementInfo_encode(h.mInfos[i])]
    OBVIOUS
  <2> HIDE DEF ss
  <2> QED BY <1>1, <2>1, EncodedEntries
<1>5. \A i \in 1 .. Len(ss) : ss[i] \in Seq(Byte)
  <2>1. \A i \in 1 .. Len(ss) : ss[i] = PMTElementInfo_encode(h.mInfos[i]) /\ h.mInfos[i] \in ElementInfo
    BY <1>1, <1>4
  <2> QED BY <2>1, ElementInfoBytes
<1> HIDE DEF head, v, w, ss
<1>6. f \in Bytes /\ Len(f) = 5 * Len(ss)
  BY <1>4, FlattenFives, FlattenBytes
<1>7. \A i \in 1 .. Len(ss) : Holds(f, 0 + 5 * (i - 1), ss[i])
  <2>1. Holds(f, 0, f)
    BY <1>6 DEF Holds, Bytes
  <2>2. 0 \in Int
    OBVIOUS
  <2> QED BY <1>4, <2>1, <2>2, FlattenFives
<1> HIDE DEF f
<1>8. ASSUME NEW k \in 1 .. 5 * Len(ss) PROVE f[k] \in Byte
  <2>0. Len(ss) \in Nat
    BY <1>4
  <2>1. PICK i \in 1 .. Len(ss), j \in 1 .. 5 : k = 5 * (i - 1) + j
    <3>1. ((k - 1) \div 5) + 1 \in 1 .. Len(ss) /\ ((k - 1) % 5) + 1 \in 1 .. 5
          /\ k = 5 * ((((k - 1) \div 5) + 1) - 1) + (((k - 1) % 5) + 1)
      BY <2>0
    <3> QED BY <3>1, Zenon
  <2>2. j \in DOMAIN ss[i] /\ ss[i][j] \in Byte
    <3>1. PICK e \in Seq(Byte) : e = ss[i]
      BY <1>5, Zenon
    <3>2. Len(e) = 5
      BY <1>4, <3>1, Zenon
    <3>a. j \in 1 .. Len(e)
      BY <3>2
    <3>3. j \in DOMAIN e /\ e[j] \in Byte
      BY <3>a
    <3> QED BY <3>1, <3>3, Zenon
  <2>3. f[0 + 5 * (i - 1) + j] = ss[i][j]
    BY <1>7, <2>1, <2>2 DEF Holds
  <2>4. 0 + 5 * (i - 1) + j = k
    BY <2>0, <2>1
  <2> QED BY <2>2, <2>3, <2>4
<1>9. f \in Seq(Byte)
  BY <1>6, <1>8 DEF Bytes
<1>10. Bytes2(v) \in Seq(Byte) /\ Bytes2(w) \in Seq(Byte)
  BY <1>1, TwoInBytes
<1>11. head \o Bytes2(v) \in Seq(Byte)
  BY <1>3, <1>10, Appended, Zenon
<1>12. head \o Bytes2(v) \o Bytes2(w) \in Seq(Byte)
  BY <1>10, <1>11, Appended, Zenon
<1> QED BY <1>2, <1>9, <1>12, Appended, Zenon
=============================================================================
