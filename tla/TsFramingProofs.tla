-------------------------- MODULE TsFramingProofs --------------------------
(***************************************************************************)
(* Proofs about TsFraming, for every packet size, every stream and every   *)
(* way of cutting it into chunks.                                          *)
(*                                                                         *)
(* The inductive invariant says what the buffers hold: rIn during a call,  *)
(* mRestData between calls, are the last bytes fed, in order; and packets, *)
(* dropped bytes and unread bytes add up to the bytes fed. Everything else *)
(* follows from where the next unread byte, the cursor, stands.            *)
(***************************************************************************)
EXTENDS TsFraming, SequenceTheorems, TLAPS

Left   == IF decoding THEN dataLeft ELSE Len(mRestData)
Cursor == fed - Left + 1

InOrder(s) == \A i \in 1 .. Len(s) : s[i] = fed - Len(s) + i

Accounted == Taken + mBytesDroppedToRecoverSync + Left = fed + 1

IInv == TypeOK /\ InOrder(rIn) /\ InOrder(mRestData) /\ Accounted

LEMMA ConsumedBounds ==
    \A class : \A n \in Consumed(class) : n \in Nat /\ 1 <= n /\ n <= PacketSize
PROOF
<1> SUFFICES ASSUME NEW class, NEW n \in Consumed(class)
             PROVE  n \in Nat /\ 1 <= n /\ n <= PacketSize
  OBVIOUS
<1>1. n \in {PacketSize, BrokenBytes}  BY DEF Consumed
<1>2. PacketSize \in Nat /\ BrokenBytes \in 1 .. PacketSize  BY FramingAssumption
<1> QED  BY <1>1, <1>2

LEMMA OffsetsSeq ==
    ASSUME NEW from \in Int, NEW to \in Int, from <= to + 1
    PROVE  /\ Len(Offsets(from, to)) = to - from + 1
           /\ DOMAIN Offsets(from, to) = 1 .. to - from + 1
           /\ \A i \in 1 .. to - from + 1 : Offsets(from, to)[i] = from + i - 1
           /\ \A S : from .. to \subseteq S => Offsets(from, to) \in Seq(S)
PROOF
<1>1. to - from + 1 \in Nat  OBVIOUS
<1>2. \A i \in 1 .. to - from + 1 : from + i - 1 \in from .. to  OBVIOUS
<1>3. ASSUME NEW S, from .. to \subseteq S PROVE Offsets(from, to) \in Seq(S)
  <2>1. Offsets(from, to) \in [1 .. to - from + 1 -> S]  BY <1>2, <1>3 DEF Offsets
  <2> QED  BY <1>1, <2>1
<1>4. Offsets(from, to) \in Seq(from .. to)  BY <1>3
<1>5. DOMAIN Offsets(from, to) = 1 .. to - from + 1  BY DEF Offsets
<1>6. Len(Offsets(from, to)) = to - from + 1
  BY <1>1, <1>4, <1>5, LenProperties
<1> QED  BY <1>3, <1>5, <1>6 DEF Offsets

LEMMA TypeFacts ==
    ASSUME TypeOK
    PROVE  /\ fed \in Nat /\ pos \in Nat /\ Len(rIn) \in Nat /\ Len(mRestData) \in Nat
           /\ Len(stream) \in Nat /\ fed <= Len(stream) /\ pos <= Len(rIn)
           /\ DOMAIN stream = Byte /\ DOMAIN rIn = 1 .. Len(rIn)
           /\ dataLeft = Len(rIn) - pos /\ dataLeft \in Nat /\ Left \in Nat
           /\ PacketSize \in Nat /\ BrokenBytes \in 1 .. PacketSize
           /\ mBytesDroppedToRecoverSync \in Nat
BY FramingAssumption, LenProperties DEF TypeOK, Byte, dataLeft, Left

(* What decode looks at is the byte under the cursor and the one a packet  *)
(* further.                                                                *)
LEMMA CursorByte ==
    ASSUME IInv, decoding, dataLeft >= PacketSize
    PROVE  /\ Cursor \in Byte /\ rIn[pos + 1] = Cursor
           /\ Cursor + PacketSize <= fed + 1
           /\ dataLeft > PacketSize => /\ Cursor + PacketSize \in Byte
                                       /\ rIn[pos + 1 + PacketSize] = Cursor + PacketSize
PROOF
<1>1. TypeOK /\ InOrder(rIn)  BY DEF IInv
<1>2. /\ pos + 1 \in 1 .. Len(rIn)
      /\ dataLeft > PacketSize => pos + 1 + PacketSize \in 1 .. Len(rIn)
  BY <1>1, TypeFacts
<1>3. Cursor = fed - Len(rIn) + pos + 1  BY <1>1, TypeFacts DEF Cursor, Left
<1>4. rIn[pos + 1] = Cursor
  BY <1>1, <1>2, <1>3, TypeFacts DEF InOrder
<1>5. ASSUME dataLeft > PacketSize
      PROVE  rIn[pos + 1 + PacketSize] = Cursor + PacketSize
  <2>1. rIn[pos + 1 + PacketSize] = fed - Len(rIn) + (pos + 1 + PacketSize)
    BY <1>1, <1>2, <1>5 DEF InOrder
  <2> QED  BY <1>1, <1>3, <2>1, TypeFacts
<1>6. \A i \in 1 .. Len(rIn) : rIn[i] \in Byte
  BY <1>1, ElementOfSeq DEF TypeOK
<1>7. Cursor + PacketSize <= fed + 1  BY <1>1, <1>3, TypeFacts
<1> QED  BY <1>2, <1>4, <1>5, <1>6, <1>7

LEMMA InitInv == Init => IInv
PROOF
<1> SUFFICES ASSUME Init PROVE IInv  OBVIOUS
<1> USE DEF Init
<1>1. stream \in Seq(ByteClass)  BY FramingAssumption
<1>2. Len(stream) \in Nat  BY <1>1, LenProperties
<1>3. Len(rIn) = 0 /\ Len(mRestData) = 0  OBVIOUS
<1>4. PacketSize > 0  BY FramingAssumption
<1>5. TypeOK
  <2>1. fed \in 0 .. Len(stream) /\ pos \in 0 .. Len(rIn)  BY <1>2, <1>3
  <2>2. parsed \in Seq([at : Byte, size : Nat, dropped : Nat])  OBVIOUS
  <2>3. rIn \in Seq(Byte) /\ mRestData \in Seq(Byte)  OBVIOUS
  <2>4. Len(mRestData) < PacketSize  BY <1>3, <1>4, FramingAssumption
  <2>5. mBytesDroppedToRecoverSync \in Nat /\ decoding \in BOOLEAN /\ ~decoding  OBVIOUS
  <2> QED  BY <1>1, <2>1, <2>2, <2>3, <2>4, <2>5, Zenon DEF TypeOK
<1>6. InOrder(rIn) /\ InOrder(mRestData)  BY <1>3 DEF InOrder
<1>7. Accounted  BY <1>3 DEF Accounted, Taken, Left
<1> QED  BY <1>5, <1>6, <1>7 DEF IInv

LEMMA TakenType ==
    ASSUME TypeOK
    PROVE  Taken \in Nat
PROOF
<1> DEFINE P == [at : Byte, size : Nat, dropped : Nat]
<1>1. parsed \in Seq(P)  BY DEF TypeOK
<1>2. CASE parsed = <<>>  BY <1>2 DEF Taken
<1>3. CASE parsed # <<>>
  <2>1. PICK q \in P : q = parsed[Len(parsed)]
    <3> HIDE DEF P
    <3>1. Len(parsed) \in Nat \ {0}  BY <1>1, <1>3, EmptySeq
    <3>2. Len(parsed) \in 1 .. Len(parsed)  BY <3>1
    <3>3. parsed[Len(parsed)] \in P  BY <1>1, <3>2, ElementOfSeq
    <3> QED  BY <3>3
  <2>2. q.at \in Nat /\ q.size \in Nat  BY DEF Byte
  <2> QED  BY <1>3, <2>1, <2>2 DEF Taken, EndOf
<1> QED  BY <1>2, <1>3

LEMMA CallInv ==
    ASSUME IInv, NEW n \in ChunkSizes, Call(n)
    PROVE  IInv' /\ Cursor' = Cursor /\ parsed' = parsed
PROOF
<1> USE DEF IInv
<1>1. /\ ~decoding /\ decoding' = TRUE /\ fed' = fed + n /\ fed + n <= Len(stream)
      /\ rIn' = mRestData \o Offsets(fed + 1, fed + n) /\ mRestData' = <<>>
      /\ pos' = pos /\ stream' = stream /\ parsed' = parsed
      /\ mBytesDroppedToRecoverSync' = mBytesDroppedToRecoverSync
  BY DEF Call
<1>2. n \in Nat /\ TypeOK /\ Byte' = Byte  BY <1>1, FramingAssumption DEF Byte
<1>3. /\ Len(Offsets(fed + 1, fed + n)) = n
      /\ Offsets(fed + 1, fed + n) \in Seq(Byte)
      /\ \A i \in 1 .. n : Offsets(fed + 1, fed + n)[i] = fed + i
  <2>1. PICK a \in Nat : a = fed  BY <1>2, TypeFacts
  <2>2. PICK m \in Nat : m = Len(stream)  BY <1>2, TypeFacts
  <2>3. a + n <= m  BY <1>1, <2>1, <2>2
  <2>4. a + 1 \in Int /\ a + n \in Int /\ a + 1 <= a + n + 1 /\ a + n - (a + 1) + 1 = n
    BY <1>2
  <2>5. a + 1 .. a + n \subseteq 1 .. m
    <3> SUFFICES ASSUME NEW i \in a + 1 .. a + n PROVE i \in 1 .. m  OBVIOUS
    <3> QED  BY <1>2, <2>3
  <2>6. \A i \in 1 .. n : a + 1 + i - 1 = a + i  BY <1>2
  <2> DEFINE from == a + 1
             to   == a + n
  <2>7. from \in Int /\ to \in Int /\ from <= to + 1 /\ to - from + 1 = n  BY <1>2
  <2>9. from .. to \subseteq 1 .. m  BY <2>5
  <2>10. \A i \in 1 .. n : from + i - 1 = a + i  BY <2>6
  <2> HIDE DEF from, to
  <2>11. /\ Len(Offsets(from, to)) = n
         /\ Offsets(from, to) \in Seq(1 .. m)
         /\ \A i \in 1 .. n : Offsets(from, to)[i] = a + i
    BY <2>7, <2>9, <2>10, OffsetsSeq
  <2> QED  BY <2>1, <2>2, <2>11 DEF from, to, Byte
<1> DEFINE old == mRestData
           new == Offsets(fed + 1, fed + n)
<1>4. old \in Seq(Byte) /\ new \in Seq(Byte) /\ Len(old) \in Nat  BY <1>2, <1>3, TypeFacts DEF TypeOK
<1> HIDE DEF old, new
<1>5. /\ old \o new \in Seq(Byte) /\ Len(old \o new) = Len(old) + n
      /\ \A i \in 1 .. Len(old) + n : (old \o new)[i] = IF i <= Len(old) THEN old[i]
                                                        ELSE new[i - Len(old)]
  <2>1. Len(new) = n  BY <1>3 DEF new
  <2>2. /\ old \o new \in Seq(Byte) /\ Len(old \o new) = Len(old) + Len(new)
        /\ \A i \in 1 .. Len(old) + Len(new) :
              (old \o new)[i] = IF i <= Len(old) THEN old[i] ELSE new[i - Len(old)]
    BY <1>4, ConcatProperties
  <2> QED  BY <2>1, <2>2
<1>6. /\ rIn' \in Seq(Byte) /\ Len(rIn') = Len(mRestData) + n
      /\ \A i \in 1 .. Len(rIn') : rIn'[i] = IF i <= Len(mRestData) THEN mRestData[i]
                                             ELSE fed + (i - Len(mRestData))
  BY <1>1, <1>2, <1>3, <1>4, <1>5 DEF old, new
<1>7. rIn = <<>> /\ pos = 0 /\ Len(rIn) = 0
  <2>1. rIn = <<>> /\ Len(rIn) = 0  BY <1>1, <1>2 DEF TypeOK
  <2> QED  BY <1>2, <2>1, TypeFacts
<1>8. TypeOK'
  BY <1>1, <1>2, <1>6, <1>7, TypeFacts DEF TypeOK
<1>9. InOrder(rIn)'
  <2>1. fed \in Nat /\ Len(mRestData) \in Nat /\ n \in Nat  BY <1>2, TypeFacts
  <2>2. \A i \in 1 .. Len(mRestData) : mRestData[i] = fed - Len(mRestData) + i
    BY DEF InOrder
  <2>3. ASSUME NEW i \in 1 .. Len(rIn') PROVE rIn'[i] = fed' - Len(rIn') + i
    <3>1. i \in Int /\ i <= Len(mRestData) + n /\ 1 <= i  BY <1>6, <2>1
    <3>2. CASE i <= Len(mRestData)  BY <1>1, <1>6, <2>1, <2>2, <3>1, <3>2
    <3>3. CASE ~(i <= Len(mRestData))  BY <1>1, <1>6, <2>1, <3>1, <3>3
    <3> QED  BY <3>2, <3>3
  <2> QED  BY <2>3 DEF InOrder
<1>10. InOrder(mRestData)'  BY <1>1 DEF InOrder
<1>11. Left = Len(mRestData) /\ Left' = Len(mRestData) + n
  BY <1>1, <1>2, <1>6, <1>7, TypeFacts DEF Left, dataLeft
<1>12. Cursor' = Cursor  BY <1>1, <1>2, <1>11, TypeFacts DEF Cursor
<1>13. Taken' = Taken  BY <1>1 DEF Taken
<1>14. Accounted'
  <2>1. fed \in Nat /\ Len(mRestData) \in Nat /\ Taken \in Nat /\ mBytesDroppedToRecoverSync \in Nat
    BY <1>2, TypeFacts, TakenType
  <2> QED  BY <1>1, <1>2, <1>11, <1>13, <2>1 DEF Accounted
<1> QED  BY <1>1, <1>8, <1>9, <1>10, <1>12, <1>14

LEMMA SkipInv ==
    ASSUME IInv, SkipByte
    PROVE  IInv' /\ Cursor' = Cursor + 1 /\ parsed' = parsed
PROOF
<1> USE DEF IInv
<1>1. /\ decoding /\ dataLeft >= PacketSize /\ pos' = pos + 1
      /\ mBytesDroppedToRecoverSync' = mBytesDroppedToRecoverSync + 1
      /\ stream' = stream /\ fed' = fed /\ decoding' = decoding /\ rIn' = rIn
      /\ mRestData' = mRestData /\ parsed' = parsed
  BY DEF SkipByte
<1>2. TypeOK  OBVIOUS
<1>3. Left = Len(rIn) - pos /\ Left' = Left - 1 /\ pos' \in 0 .. Len(rIn)
  BY <1>1, <1>2, TypeFacts, FramingAssumption DEF Left, dataLeft
<1>4. TypeOK'  BY <1>1, <1>2, <1>3, TypeFacts DEF TypeOK, Byte
<1>5. InOrder(rIn)' /\ InOrder(mRestData)'  BY <1>1 DEF InOrder
<1>6. Taken' = Taken /\ Taken \in Nat  BY <1>1, <1>2, TakenType DEF Taken
<1>t. fed \in Nat /\ Left \in Nat /\ mBytesDroppedToRecoverSync \in Nat  BY <1>2, TypeFacts
<1>7. Accounted'  BY <1>1, <1>3, <1>6, <1>t DEF Accounted
<1>8. Cursor' = Cursor + 1  BY <1>1, <1>3, <1>t DEF Cursor
<1> QED  BY <1>1, <1>4, <1>5, <1>7, <1>8

LEMMA ReturnInv ==
    ASSUME IInv, Return
    PROVE  IInv' /\ Cursor' = Cursor /\ parsed' = parsed
PROOF
<1> USE DEF IInv
<1>1. /\ decoding /\ dataLeft < PacketSize /\ mRestData' = mRestData \o Unread
      /\ rIn' = <<>> /\ pos' = 0 /\ decoding' = FALSE
      /\ stream' = stream /\ fed' = fed /\ parsed' = parsed
      /\ mBytesDroppedToRecoverSync' = mBytesDroppedToRecoverSync
  BY DEF Return
<1>2. TypeOK /\ mRestData = <<>> /\ rIn \in Seq(Byte)  BY <1>1 DEF TypeOK
<1>3. /\ Unread \in Seq(Byte) /\ Len(Unread) = dataLeft
      /\ \A i \in 1 .. dataLeft : Unread[i] = rIn[pos + i]
  <2>1. /\ pos + 1 \in 1 .. Len(rIn) + 1 /\ Len(rIn) \in pos .. Len(rIn)
        /\ pos \in Nat /\ Len(rIn) \in Nat /\ dataLeft = Len(rIn) - pos
    BY <1>2, TypeFacts
  <2>2. /\ Unread \in Seq(Byte)
        /\ Len(Unread) = IF pos + 1 <= Len(rIn) THEN Len(rIn) - (pos + 1) + 1 ELSE 0
        /\ \A i \in 1 .. Len(rIn) - (pos + 1) + 1 : Unread[i] = rIn[pos + 1 + i - 1]
    BY <1>2, <2>1, SubSeqProperties DEF Unread
  <2>3. Len(Unread) = dataLeft  BY <2>1, <2>2
  <2>4. \A i \in 1 .. dataLeft : Unread[i] = rIn[pos + i]
    <3> SUFFICES ASSUME NEW i \in 1 .. dataLeft PROVE Unread[i] = rIn[pos + i]  OBVIOUS
    <3>1. pos + 1 + i - 1 = pos + i /\ i \in 1 .. Len(rIn) - (pos + 1) + 1  BY <2>1
    <3> QED  BY <2>2, <3>1
  <2> QED  BY <2>2, <2>3, <2>4
<1>4. mRestData' = Unread
  <2>1. <<>> \o Unread = Unread  BY <1>3, ConcatEmptySeq
  <2> QED  BY <1>1, <1>2, <2>1
<1>5. TypeOK'
  <2>1. pos' \in 0 .. Len(rIn') /\ rIn' \in Seq(Byte') /\ mRestData' \in Seq(Byte')
    BY <1>1, <1>3, <1>4 DEF Byte
  <2>2. Len(mRestData') < PacketSize  BY <1>1, <1>3, <1>4
  <2> QED  BY <1>1, <1>2, <2>1, <2>2 DEF TypeOK, Byte
<1>6. InOrder(mRestData)'
  <2>1. \A i \in 1 .. dataLeft : Unread[i] = fed - dataLeft + i
    <3> SUFFICES ASSUME NEW i \in 1 .. dataLeft PROVE Unread[i] = fed - dataLeft + i  OBVIOUS
    <3>1. pos + i \in 1 .. Len(rIn)  BY <1>2, TypeFacts
    <3>2. Unread[i] = fed - Len(rIn) + (pos + i)  BY <1>3, <3>1 DEF InOrder
    <3> QED  BY <1>2, <3>2, TypeFacts
  <2> QED  BY <1>1, <1>3, <1>4, <2>1 DEF InOrder
<1>7. InOrder(rIn)'  BY <1>1 DEF InOrder
<1>8. Left = dataLeft /\ Left' = dataLeft  BY <1>1, <1>3, <1>4 DEF Left
<1>9. Taken' = Taken  BY <1>1 DEF Taken
<1>10. Accounted' /\ Cursor' = Cursor  BY <1>1, <1>8, <1>9 DEF Accounted, Cursor
<1> QED  BY <1>1, <1>5, <1>6, <1>7, <1>10

(* A parsed packet starts at the cursor, directly after the bytes dropped. *)
LEMMA ParseInv ==
    ASSUME IInv, ParsePacket
    PROVE  /\ IInv'
           /\ \E n \in Consumed(stream[Cursor]) :
                 /\ Cursor' = Cursor + n
                 /\ parsed' = Append(parsed, [at |-> Cursor, size |-> n,
                                              dropped |-> mBytesDroppedToRecoverSync])
                 /\ mBytesDroppedToRecoverSync' = 0
           /\ Cursor = Taken + mBytesDroppedToRecoverSync
PROOF
<1> USE DEF IInv
<1>1. /\ decoding /\ dataLeft >= PacketSize /\ mBytesDroppedToRecoverSync' = 0
      /\ stream' = stream /\ fed' = fed /\ decoding' = decoding /\ rIn' = rIn
      /\ mRestData' = mRestData
  BY DEF ParsePacket
<1>2. TypeOK  OBVIOUS
<1>3. rIn[pos + 1] = Cursor /\ Cursor \in Byte  BY <1>1, CursorByte
<1>4. PICK n \in Consumed(stream[Cursor]) :
          /\ pos' = pos + n
          /\ parsed' = Append(parsed, [at |-> Cursor, size |-> n,
                                       dropped |-> mBytesDroppedToRecoverSync])
  BY <1>3 DEF ParsePacket
<1>5. n \in Nat /\ 1 <= n /\ n <= PacketSize  BY ConsumedBounds
<1>6. Left = Len(rIn) - pos /\ Left' = Left - n /\ pos' \in 0 .. Len(rIn)
  BY <1>1, <1>2, <1>4, <1>5, TypeFacts DEF Left, dataLeft
<1> DEFINE p == [at |-> Cursor, size |-> n, dropped |-> mBytesDroppedToRecoverSync]
           P == [at : Byte, size : Nat, dropped : Nat]
<1>7. p \in P /\ parsed \in Seq(P)  BY <1>2, <1>3, <1>5 DEF TypeOK
<1>8. /\ parsed' \in Seq(P) /\ parsed' # <<>> /\ Len(parsed') = Len(parsed) + 1
      /\ parsed'[Len(parsed')] = p
  BY <1>4, <1>7, AppendProperties
<1>9. TypeOK'
  <2>1. parsed' \in Seq([at : Byte', size : Nat, dropped : Nat])  BY <1>1, <1>8 DEF Byte
  <2> QED  BY <1>1, <1>2, <1>6, <2>1 DEF TypeOK, Byte
<1>10. InOrder(rIn)' /\ InOrder(mRestData)'  BY <1>1 DEF InOrder
<1>t. /\ fed \in Nat /\ Left \in Nat /\ mBytesDroppedToRecoverSync \in Nat /\ Taken \in Nat
  BY <1>2, TypeFacts, TakenType
<1>11. Cursor' = Cursor + n  BY <1>1, <1>5, <1>6, <1>t DEF Cursor
<1>12. Cursor = Taken + mBytesDroppedToRecoverSync  BY <1>t DEF Accounted, Cursor
<1>13. Taken' = Cursor + n  BY <1>8 DEF Taken, EndOf
<1>14. Accounted'
  <2>1. Left' = Left - n /\ fed' = fed /\ Cursor = fed - Left + 1  BY <1>1, <1>6 DEF Cursor
  <2>2. Cursor + n + 0 + (Left - n) = fed + 1  BY <1>5, <1>t, <2>1
  <2> QED  BY <1>1, <1>13, <2>1, <2>2 DEF Accounted
<1> QED  BY <1>1, <1>4, <1>9, <1>10, <1>11, <1>12, <1>14
-----------------------------------------------------------------------------
(* The whole next-state relation, as seen from the cursor: it stays, moves *)
(* over a dropped byte, or moves over a parsed packet.                     *)
LEMMA NextInv ==
    ASSUME IInv, [Next]_vars
    PROVE  IInv'
PROOF
<1>1. CASE UNCHANGED vars
  BY <1>1 DEF vars, IInv, TypeOK, InOrder, Accounted, Left, dataLeft, Taken, Byte
<1>2. CASE \E n \in ChunkSizes : Call(n)  BY <1>2, CallInv
<1>3. CASE SkipByte  BY <1>3, SkipInv
<1>4. CASE ParsePacket  BY <1>4, ParseInv
<1>5. CASE Return  BY <1>5, ReturnInv
<1> QED  BY <1>1, <1>2, <1>3, <1>4, <1>5 DEF Next, Step

THEOREM FramingInductive == Spec => []IInv
BY InitInv, NextInv, PTL DEF Spec

(***************************************************************************)
(* Buffers hold bytes of the stream, read positions stay inside them and   *)
(* decode never keeps a whole packet back.                                 *)
(***************************************************************************)
THEOREM FramingTypeCorrect == Spec => []TypeOK
PROOF
<1>1. IInv => TypeOK  BY DEF IInv
<1> QED  BY <1>1, FramingInductive, PTL

(***************************************************************************)
(* Bytes are neither lost nor duplicated nor reordered between the calls   *)
(* of decode.                                                              *)
(***************************************************************************)
LEMMA ConservedInIInv == IInv => BytesConserved
PROOF
<1> SUFFICES ASSUME IInv PROVE BytesConserved  OBVIOUS
<1>1. TypeOK /\ InOrder(rIn) /\ InOrder(mRestData) /\ Accounted  BY DEF IInv
<1>2. Len(Pending) = Left /\ Pending = [i \in 1 .. Left |-> fed - Left + i]
  <2>1. CASE decoding
    <3>1. /\ pos + 1 \in Int /\ Len(rIn) \in Int /\ \A i \in pos + 1 .. Len(rIn) : rIn[i] \in Byte
          /\ pos \in Nat /\ pos <= Len(rIn) /\ Left = Len(rIn) - pos /\ Left \in Nat /\ fed \in Nat
      <4>1. /\ pos \in Nat /\ Len(rIn) \in Nat /\ pos <= Len(rIn)
            /\ Left = Len(rIn) - pos /\ Left \in Nat /\ fed \in Nat
        BY <1>1, <2>1, TypeFacts DEF Left
      <4>2. \A i \in 1 .. Len(rIn) : rIn[i] \in Byte  BY <1>1, ElementOfSeq DEF TypeOK
      <4> QED  BY <4>1, <4>2
    <3>2. /\ Unread \in Seq(Byte)
          /\ Len(Unread) = IF pos + 1 <= Len(rIn) THEN Len(rIn) - (pos + 1) + 1 ELSE 0
          /\ \A i \in 1 .. Len(rIn) - (pos + 1) + 1 : Unread[i] = rIn[pos + 1 + i - 1]
      BY <3>1, SubSeqProperties DEF Unread
    <3>3. Len(Unread) = Left  BY <3>1, <3>2
    <3>4. ASSUME NEW i \in 1 .. Left PROVE Unread[i] = fed - Left + i
      <4>1. i \in 1 .. Len(rIn) - (pos + 1) + 1 /\ pos + 1 + i - 1 = pos + i
            /\ pos + i \in 1 .. Len(rIn)
        BY <3>1
      <4>2. Unread[i] = fed - Len(rIn) + (pos + i)  BY <1>1, <3>2, <4>1 DEF InOrder
      <4> QED  BY <3>1, <4>2
    <3>5. DOMAIN Unread = 1 .. Left /\ Unread \in [1 .. Left -> Byte]
      BY <3>2, <3>3, LenProperties
    <3>6. Unread = [i \in 1 .. Left |-> fed - Left + i]  BY <3>4, <3>5
    <3> QED  BY <2>1, <3>3, <3>6 DEF Pending
  <2>2. CASE ~decoding
    <3>1. Left = Len(mRestData) /\ mRestData \in [1 .. Left -> Byte]
      BY <1>1, <2>2, LenProperties DEF Left, TypeOK
    <3>2. \A i \in 1 .. Left : mRestData[i] = fed - Left + i
      BY <1>1, <3>1 DEF InOrder
    <3>3. mRestData = [i \in 1 .. Left |-> fed - Left + i]  BY <3>1, <3>2
    <3> QED  BY <2>2, <3>1, <3>3 DEF Pending
  <2> QED  BY <2>1, <2>2
<1>3. Offsets(fed - Left + 1, fed) = [i \in 1 .. Left |-> fed - Left + i]
  <2>1. fed \in Nat /\ Left \in Nat  BY <1>1, TypeFacts
  <2>2. fed - (fed - Left + 1) + 1 = Left  BY <2>1
  <2>3. \A i \in 1 .. Left : fed - Left + 1 + i - 1 = fed - Left + i  BY <2>1
  <2> QED  BY <2>2, <2>3 DEF Offsets
<1> QED  BY <1>1, <1>2, <1>3 DEF BytesConserved, Accounted

LEMMA PendingLength ==
    ASSUME IInv
    PROVE  Len(Pending) \in Nat
PROOF
<1>1. rIn \in Seq(Byte) /\ mRestData \in Seq(Byte) /\ pos \in Nat  BY TypeFacts DEF IInv, TypeOK
<1>2. Unread \in Seq(Byte)
  <2>1. \A i \in pos + 1 .. Len(rIn) : rIn[i] \in Byte
    <3>1. \A i \in 1 .. Len(rIn) : rIn[i] \in Byte  BY <1>1, ElementOfSeq
    <3>2. Len(rIn) \in Nat  BY <1>1, LenProperties
    <3> QED  BY <1>1, <3>1, <3>2
  <2>2. pos + 1 \in Int /\ Len(rIn) \in Int  BY <1>1, LenProperties
  <2> QED  BY <2>1, <2>2, SubSeqProperties DEF Unread
<1> QED  BY <1>1, <1>2, LenProperties DEF Pending

THEOREM BytesAlwaysConserved == Spec => []BytesConserved
BY ConservedInIInv, FramingInductive, PTL

(* What parsing adds to the history.                                       *)
LEMMA ParsedGrows ==
    ASSUME IInv, ParsePacket
    PROVE  LET l == Len(parsed)
           IN  /\ l \in Nat /\ DOMAIN parsed = 1 .. l
               /\ DOMAIN parsed' = 1 .. l + 1 /\ Len(parsed') = l + 1
               /\ \A i \in 1 .. l : parsed'[i] = parsed[i]
               /\ parsed'[l + 1].at = Cursor
               /\ parsed'[l + 1].dropped = mBytesDroppedToRecoverSync
               /\ parsed'[l + 1].size \in Consumed(stream[Cursor])
               /\ Cursor' = EndOf(parsed'[l + 1])
               /\ Taken = IF l = 0 THEN 1 ELSE EndOf(parsed[l])
PROOF
<1> DEFINE P == [at : Byte, size : Nat, dropped : Nat]
           l == Len(parsed)
<1>1. PICK n \in Consumed(stream[Cursor]) :
          /\ parsed' = Append(parsed, [at |-> Cursor, size |-> n,
                                       dropped |-> mBytesDroppedToRecoverSync])
          /\ Cursor' = Cursor + n
  BY ParseInv
<1> DEFINE p == [at |-> Cursor, size |-> n, dropped |-> mBytesDroppedToRecoverSync]
<1>2. parsed \in Seq(P) /\ parsed' \in Seq(P)
  <2>1. IInv'  BY NextInv DEF Next, Step
  <2>2. Byte' = Byte  BY DEF ParsePacket, Byte
  <2> QED  BY <2>1, <2>2 DEF IInv, TypeOK
<1>3. p \in P
  <2>1. decoding /\ dataLeft >= PacketSize  BY DEF ParsePacket
  <2>2. Cursor \in Byte  BY <2>1, CursorByte
  <2> QED  BY <2>2, ConsumedBounds DEF IInv, TypeOK
<1>4. /\ p.at = Cursor /\ p.dropped = mBytesDroppedToRecoverSync
      /\ p.size \in Consumed(stream[Cursor]) /\ Cursor' = EndOf(p)
  BY <1>1 DEF EndOf
<1> HIDE DEF P, p
<1>5. Len(parsed') = l + 1  BY <1>1, <1>2, <1>3, AppendProperties DEF p
<1>6. /\ l \in Nat /\ DOMAIN parsed = 1 .. l /\ DOMAIN parsed' = 1 .. l + 1
      /\ \A i \in 1 .. l : parsed'[i] = parsed[i]
      /\ parsed'[l + 1] = p
  BY <1>1, <1>2, <1>3, <1>5, AppendProperties, LenProperties DEF p
<1>7. Taken = IF l = 0 THEN 1 ELSE EndOf(parsed[l])
  <2>1. l = 0 <=> parsed = <<>>  BY <1>2, EmptySeq
  <2> QED  BY <2>1 DEF Taken
<1> QED  BY <1>4, <1>5, <1>6, <1>7

(***************************************************************************)
(* The number of bytes reported lost before a packet is exactly the gap to *)
(* the packet before it, however many calls the gap spans.                 *)
(***************************************************************************)
LEMMA LossNext == IInv /\ LossReported /\ [Next]_vars => LossReported'
PROOF
<1> SUFFICES ASSUME IInv, LossReported, [Next]_vars PROVE LossReported'  OBVIOUS
<1>1. ASSUME parsed' = parsed PROVE LossReported'  BY <1>1 DEF LossReported
<1>2. CASE ParsePacket
  <2> DEFINE l == Len(parsed)
  <2>1. /\ l \in Nat /\ DOMAIN parsed = 1 .. l /\ DOMAIN parsed' = 1 .. l + 1
        /\ \A i \in 1 .. l : parsed'[i] = parsed[i]
        /\ parsed'[l + 1].at = Cursor
        /\ parsed'[l + 1].dropped = mBytesDroppedToRecoverSync
        /\ Taken = IF l = 0 THEN 1 ELSE EndOf(parsed[l])
    BY <1>2, ParsedGrows
  <2>2. Cursor = mBytesDroppedToRecoverSync + Taken
    <3>1. Taken \in Nat /\ mBytesDroppedToRecoverSync \in Nat
      BY TakenType, TypeFacts DEF IInv
    <3> QED  BY <1>2, <3>1, ParseInv
  <2>3. ASSUME NEW i \in DOMAIN parsed'
        PROVE  parsed'[i].at = parsed'[i].dropped + (IF i = 1 THEN 1 ELSE EndOf(parsed'[i - 1]))
    <3>1. CASE i = l + 1
      <4>1. CASE l = 0  BY <2>1, <2>2, <3>1, <4>1
      <4>2. CASE l # 0
        <5>1. i # 1 /\ i - 1 = l /\ l \in 1 .. l  BY <2>1, <3>1, <4>2
        <5> QED  BY <2>1, <2>2, <3>1, <4>2, <5>1 DEF EndOf
      <4> QED  BY <4>1, <4>2
    <3>2. CASE i # l + 1
      <4>1. i \in 1 .. l /\ (i # 1 => i - 1 \in 1 .. l)  BY <2>1, <2>3, <3>2
      <4>2. parsed[i].at = parsed[i].dropped + (IF i = 1 THEN 1 ELSE EndOf(parsed[i - 1]))
        BY <2>1, <4>1 DEF LossReported
      <4> QED  BY <2>1, <4>1, <4>2 DEF EndOf
    <3> QED  BY <3>1, <3>2
  <2> QED  BY <2>3 DEF LossReported, EndOf
<1>3. CASE UNCHANGED vars  BY <1>1, <1>3 DEF vars
<1>4. CASE \E n \in ChunkSizes : Call(n)  BY <1>1, <1>4, CallInv
<1>5. CASE SkipByte  BY <1>1, <1>5, SkipInv
<1>6. CASE Return  BY <1>1, <1>6, ReturnInv
<1> QED  BY <1>2, <1>3, <1>4, <1>5, <1>6 DEF Next, Step

THEOREM LossAlwaysReported == Spec => []LossReported
PROOF
<1>1. Init => LossReported  BY DEF Init, LossReported
<1> QED  BY <1>1, InitInv, NextInv, LossNext, PTL DEF Spec

(***************************************************************************)
(* Framing of a clean stream does not depend on its chunks or on sync      *)
(* bytes in payloads: every packet is parsed, from its first byte.         *)
(***************************************************************************)
Boundary == Len(parsed) * PacketSize + 1

CleanInv == Aligned => /\ \A i \in DOMAIN parsed : parsed[i].at = (i - 1) * PacketSize + 1
                       /\ mBytesDroppedToRecoverSync = 0
                       /\ Cursor = Boundary

LEMMA AtBoundary ==
    ASSUME IInv, CleanInv, Aligned, decoding, dataLeft >= PacketSize
    PROVE  checkSync /\ stream[Cursor] = "start"
PROOF
<1>1. /\ Cursor \in Byte /\ rIn[pos + 1] = Cursor
      /\ dataLeft > PacketSize => /\ Cursor + PacketSize \in Byte
                                  /\ rIn[pos + 1 + PacketSize] = Cursor + PacketSize
  BY CursorByte
<1>2. DOMAIN stream = Byte /\ PacketSize \in Nat /\ PacketSize >= 1
  BY TypeFacts, FramingAssumption DEF IInv
<1>3. Len(parsed) \in Nat  BY LenProperties DEF IInv, TypeOK
<1> DEFINE n == Len(parsed)
<1>4. n * PacketSize >= n /\ n * PacketSize \in Nat /\ (n + 1) * PacketSize = n * PacketSize + PacketSize
  BY <1>2, <1>3
<1>5. Cursor = n * PacketSize + 1  BY DEF CleanInv, Boundary
<1>6. PacketAt(Cursor)
  <2>1. n \in 0 .. Cursor  BY <1>3, <1>4, <1>5
  <2> QED  BY <1>5, <2>1 DEF PacketAt
<1>7. stream[Cursor] = "start"  BY <1>1, <1>2, <1>6 DEF Aligned
<1>8. ASSUME dataLeft > PacketSize PROVE stream[Cursor + PacketSize] = "start"
  <2>1. Cursor + PacketSize = (n + 1) * PacketSize + 1  BY <1>2, <1>4, <1>5
  <2>2. n + 1 \in 0 .. Cursor + PacketSize  BY <1>2, <1>3, <1>4, <1>5
  <2>3. PacketAt(Cursor + PacketSize)  BY <2>1, <2>2 DEF PacketAt
  <2> QED  BY <1>1, <1>2, <1>8, <2>3 DEF Aligned
<1> QED  BY <1>1, <1>7, <1>8 DEF checkSync, Sync

LEMMA CleanNext == IInv /\ CleanInv /\ [Next]_vars => CleanInv'
PROOF
<1> SUFFICES ASSUME IInv, CleanInv, [Next]_vars, Aligned' PROVE CleanInv'  BY DEF CleanInv
<1>0. stream' = stream /\ Aligned
  <2>1. stream' = stream
    BY DEF Next, Step, vars, Call, SkipByte, ParsePacket, Return
  <2> QED  BY <2>1 DEF Aligned, PacketAt
<1>1. ASSUME Cursor' = Cursor, parsed' = parsed,
             mBytesDroppedToRecoverSync' = mBytesDroppedToRecoverSync
      PROVE  CleanInv'
  BY <1>0, <1>1 DEF CleanInv, Boundary
<1>2. CASE ParsePacket
  <2> DEFINE l == Len(parsed)
  <2>1. /\ l \in Nat /\ DOMAIN parsed = 1 .. l /\ DOMAIN parsed' = 1 .. l + 1
        /\ Len(parsed') = l + 1
        /\ \A i \in 1 .. l : parsed'[i] = parsed[i]
        /\ parsed'[l + 1].at = Cursor
        /\ parsed'[l + 1].size \in Consumed(stream[Cursor])
        /\ Cursor' = EndOf(parsed'[l + 1])
    BY <1>2, ParsedGrows
  <2>2. Cursor = l * PacketSize + 1  BY <1>0 DEF CleanInv, Boundary
  <2>3. stream[Cursor] = "start"  BY <1>0, <1>2, AtBoundary DEF ParsePacket
  <2>4. parsed'[l + 1].size = PacketSize  BY <2>1, <2>3 DEF Consumed
  <2>5. (l + 1) * PacketSize = l * PacketSize + PacketSize /\ l * PacketSize \in Nat
        /\ PacketSize \in Nat
    BY <2>1, FramingAssumption
  <2>6. Cursor' = (l + 1) * PacketSize + 1
    BY <2>1, <2>2, <2>4, <2>5 DEF EndOf
  <2>7. ASSUME NEW i \in DOMAIN parsed' PROVE parsed'[i].at = (i - 1) * PacketSize + 1
    <3>1. CASE i = l + 1
      <4>1. i - 1 = l  BY <2>1, <3>1
      <4> QED  BY <2>1, <2>2, <3>1, <4>1
    <3>2. CASE i # l + 1
      <4>1. i \in 1 .. l  BY <2>1, <3>2
      <4> QED  BY <1>0, <2>1, <4>1 DEF CleanInv
    <3> QED  BY <3>1, <3>2
  <2>8. mBytesDroppedToRecoverSync' = 0  BY <1>2 DEF ParsePacket
  <2> QED  BY <2>1, <2>6, <2>7, <2>8 DEF CleanInv, Boundary
<1>3. CASE UNCHANGED vars
  BY <1>1, <1>3 DEF vars, Cursor, Left, dataLeft
<1>4. CASE \E n \in ChunkSizes : Call(n)  BY <1>1, <1>4, CallInv DEF Call
<1>5. CASE SkipByte  BY <1>0, <1>5, AtBoundary DEF SkipByte
<1>6. CASE Return  BY <1>1, <1>6, ReturnInv DEF Return
<1> QED  BY <1>2, <1>3, <1>4, <1>5, <1>6 DEF Next, Step

THEOREM CleanStreamAlwaysExact == Spec => []CleanStreamExact
PROOF
<1>1. Init => CleanInv
  <2> SUFFICES ASSUME Init PROVE CleanInv  OBVIOUS
  <2>1. parsed = <<>> /\ Len(parsed) = 0 /\ fed = 0 /\ Left = 0 /\ mBytesDroppedToRecoverSync = 0
    BY DEF Init, Left
  <2>2. Cursor = 1 /\ Boundary = 1  BY <2>1, FramingAssumption DEF Cursor, Boundary
  <2> QED  BY <2>1, <2>2 DEF CleanInv
<1>2. CleanInv => CleanStreamExact  BY DEF CleanInv, CleanStreamExact
<1> QED  BY <1>1, <1>2, InitInv, NextInv, CleanNext, PTL DEF Spec

(***************************************************************************)
(* An intact packet that no fragment can overlap is never skipped, for any *)
(* stream around it and any chunks.                                        *)
(***************************************************************************)
Safe(i) == Intact(i) /\ NoSyncBefore(i) /\ SyncOrEnd(i + PacketSize)

RecoveredInv ==
    \A i \in Byte : Safe(i) /\ i < Cursor => \E k \in DOMAIN parsed : parsed[k].at = i

LEMMA RecoveredNext == IInv /\ RecoveredInv /\ [Next]_vars => RecoveredInv'
PROOF
<1> SUFFICES ASSUME IInv, RecoveredInv, [Next]_vars PROVE RecoveredInv'  OBVIOUS
<1>0. stream' = stream /\ Byte' = Byte /\ \A i : Safe(i)' <=> Safe(i)
  <2>1. stream' = stream
    BY DEF Next, Step, vars, Call, SkipByte, ParsePacket, Return
  <2> QED  BY <2>1 DEF Byte, Safe, Intact, NoSyncBefore, SyncOrEnd
<1>1. ASSUME Cursor' = Cursor, parsed' = parsed PROVE RecoveredInv'
  BY <1>0, <1>1 DEF RecoveredInv
<1>t. Cursor \in Int /\ Byte \subseteq Int /\ PacketSize \in Nat
  BY TypeFacts DEF IInv, Cursor, Byte
<1>2. CASE ParsePacket
  <2> DEFINE l == Len(parsed)
             n == parsed'[l + 1].size
  <2>1. /\ l \in Nat /\ DOMAIN parsed = 1 .. l /\ DOMAIN parsed' = 1 .. l + 1
        /\ \A i \in 1 .. l : parsed'[i] = parsed[i]
        /\ parsed'[l + 1].at = Cursor
        /\ n \in Consumed(stream[Cursor])
        /\ Cursor' = Cursor + n
    BY <1>2, ParsedGrows DEF EndOf
  <2>2. n \in Nat /\ n <= PacketSize  BY <2>1, ConsumedBounds
  <2>3. Cursor \in Byte /\ stream[Cursor] # "data"
    BY <1>2, CursorByte DEF ParsePacket, checkSync, Sync
  <2>4. ASSUME NEW i \in Byte, Safe(i), i < Cursor'
        PROVE  \E k \in DOMAIN parsed' : parsed'[k].at = i
    <3>1. CASE i < Cursor
      <4>1. PICK k \in 1 .. l : parsed[k].at = i  BY <2>1, <2>4, <3>1 DEF RecoveredInv
      <4>2. k \in 1 .. l + 1 /\ parsed'[k].at = i  BY <2>1, <4>1
      <4> QED  BY <2>1, <4>2
    <3>2. CASE i = Cursor
      <4>1. l + 1 \in DOMAIN parsed'  BY <2>1
      <4> QED  BY <2>1, <3>2, <4>1
    <3>3. CASE i > Cursor
      <4>1. i - PacketSize < Cursor /\ Cursor < i  BY <1>t, <2>1, <2>2, <2>4, <3>3
      <4>2. stream[Cursor] = "data"  BY <2>3, <2>4, <4>1 DEF Safe, NoSyncBefore
      <4> QED  BY <2>3, <4>2
    <3> QED  BY <1>t, <3>1, <3>2, <3>3
  <2> QED  BY <1>0, <2>4 DEF RecoveredInv
<1>3. CASE UNCHANGED vars  BY <1>1, <1>3 DEF vars, Cursor, Left, dataLeft
<1>4. CASE \E n \in ChunkSizes : Call(n)  BY <1>1, <1>4, CallInv
<1>5. CASE SkipByte
  <2>1. /\ ~checkSync /\ rIn[pos + 1] = Cursor
        /\ dataLeft > PacketSize => /\ Cursor + PacketSize \in Byte
                                    /\ rIn[pos + 1 + PacketSize] = Cursor + PacketSize
    BY <1>5, CursorByte DEF SkipByte
  <2>2. ~Safe(Cursor)
    BY <2>1 DEF checkSync, Sync, Safe, Intact, SyncOrEnd
  <2>3. Cursor' = Cursor + 1 /\ parsed' = parsed  BY <1>5, SkipInv
  <2>4. \A i \in Byte : Safe(i) /\ i < Cursor' => i < Cursor
    BY <1>t, <2>2, <2>3
  <2> QED  BY <1>0, <2>3, <2>4 DEF RecoveredInv
<1>6. CASE Return  BY <1>1, <1>6, ReturnInv
<1> QED  BY <1>2, <1>3, <1>4, <1>5, <1>6 DEF Next, Step

THEOREM PacketsAlwaysRecovered == Spec => []PacketsRecovered
PROOF
<1>1. Init => RecoveredInv
  <2> SUFFICES ASSUME Init PROVE RecoveredInv  OBVIOUS
  <2>1. fed = 0 /\ Left = 0  BY DEF Init, Left
  <2>2. Cursor = 1 /\ \A i \in Byte : ~(i < 1)  BY <2>1 DEF Cursor, Byte
  <2> QED  BY <2>2 DEF RecoveredInv
<1>2. IInv /\ RecoveredInv => PacketsRecovered
  <2> SUFFICES ASSUME IInv, RecoveredInv PROVE PacketsRecovered  OBVIOUS
  <2>1. Taken + mBytesDroppedToRecoverSync + Len(Pending) = fed + 1
    BY ConservedInIInv DEF BytesConserved
  <2>2. fed \in Nat /\ Left \in Nat /\ Taken \in Nat /\ mBytesDroppedToRecoverSync \in Nat
        /\ Byte \subseteq Int
    BY TypeFacts, TakenType DEF IInv, Byte
  <2>3. Pending = Offsets(fed - Len(Pending) + 1, fed)  BY ConservedInIInv DEF BytesConserved
  <2>4. Len(Pending) \in Nat  BY PendingLength
  <2>5. Len(Pending) = Left
    BY <2>1, <2>2, <2>4 DEF IInv, Accounted
  <2>6. \A i \in Byte : i <= fed - Len(Pending) => i < Cursor
    BY <2>2, <2>5 DEF Cursor
  <2> QED  BY <2>6 DEF RecoveredInv, PacketsRecovered, Safe
<1> QED  BY <1>1, <1>2, InitInv, NextInv, RecoveredNext, PTL DEF Spec
=============================================================================
