---------------------------- MODULE SimpleBuffer ----------------------------
(***************************************************************************)
(* SimpleBuffer (simple_buffer.cpp): bytes and a read position, one        *)
(* operator per operation. An operation that changes the buffer gives the  *)
(* new one; the readers give the value, and the position moves with skip.  *)
(* data() is the field data. at() throws outside the buffer: the readers   *)
(* are used after require.                                                 *)
(***************************************************************************)
EXTENDS Bits, Sequences

(* size_t arithmetic wraps. Sizes here stay far below this, so that it     *)
(* does as well as 2^64.                                                   *)
SizeModulus == 2^30

NoBytes == [data |-> <<>>, pos |-> 0]
FilledWith(n, value) == [data |-> [i \in 1 .. n |-> value], pos |-> 0]

size(sb)     == Len(sb.data)
empty(sb)    == sb.pos >= size(sb)
dataLeft(sb) == (size(sb) - sb.pos) % SizeModulus
currentData(sb) == SubSeq(sb.data, sb.pos + 1, size(sb))     \* nothing past the end
require(sb, n)  == n <= dataLeft(sb)

append(sb, bytes)  == [sb EXCEPT !.data = @ \o bytes]
Mutprepend(sb, bytes) == [data |-> bytes \o sb.data, pos |-> sb.pos + Len(bytes)]  \* keeps its place
prepend(sb, bytes) == [sb EXCEPT !.data = bytes \o @]
skip(sb, n)        == [sb EXCEPT !.pos = @ + n]
clear(sb)          == NoBytes

(* Bytes at an offset replaced: memcpy and memset on data().               *)
Overwritten(d, at, bytes) ==
    [i \in DOMAIN d |-> IF i - at \in DOMAIN bytes THEN bytes[i - at] ELSE d[i]]
(* setData checks the offset it is given and writes at the position.       *)
setData(sb, pos, bytes) ==
    IF pos + Len(bytes) > size(sb) THEN sb
    ELSE [sb EXCEPT !.data = Overwritten(@, sb.pos, bytes)]

(* Words are stored most significant byte first.                           *)
BytesOf(w, n) == [i \in 1 .. n |-> Get(w, 8 * (n - i), 8)]
WordAt(d, at, n) == UNION {Shl(d[at + i], 8 * (n - i)) : i \in 1 .. n}

write1Byte(sb, val)  == append(sb, BytesOf(val, 1))
write2Bytes(sb, val) == append(sb, BytesOf(val, 2))
write3Bytes(sb, val) == append(sb, BytesOf(val, 3))
write4Bytes(sb, val) == append(sb, BytesOf(val, 4))
write8Bytes(sb, val) == append(sb, BytesOf(val, 8))

read1Byte(sb)  == WordAt(sb.data, sb.pos, 1)
read2Bytes(sb) == WordAt(sb.data, sb.pos, 2)
read3Bytes(sb) == WordAt(sb.data, sb.pos, 3)
read4Bytes(sb) == WordAt(sb.data, sb.pos, 4)
read8Bytes(sb) == WordAt(sb.data, sb.pos, 8)
readString(sb, len) == SubSeq(sb.data, sb.pos + 1, sb.pos + len)
=============================================================================
