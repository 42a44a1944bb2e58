------------------------------ MODULE ProtoWire ------------------------------
(***************************************************************************)
(* The protobuf wire primitives that gogoproto generates into every        *)
(* *.pb.go file of the repository, translated from the copies in          *)
(* src/types/web3.pb.go (the copies in src/x/feemarket/types/query.pb.go   *)
(* are the same code under other names): the varint read loop of          *)
(* Unmarshal, the length-delimited field read, skipping an unknown field, *)
(* sov, encodeVarint, and the back-to-front writes of MarshalToSizedBuffer.*)
(*                                                                         *)
(* A uint64 (and a 64-bit int) is the set of its bit positions, a subset   *)
(* of 0..63, so that the 64-bit width is kept exactly: a shifted-out bit   *)
(* is dropped, bit 63 is the sign of int(x).  Byte strings are sequences   *)
(* of 0..255.  Indices into a buffer are exact below Cap and Cap above:    *)
(* every buffer is far shorter than Cap, so comparisons with a length are  *)
(* exact; a sum that wraps past 2^63 is the index -1.                      *)
(*                                                                         *)
(* A write state is [b, i, err]: the buffer, the index i of               *)
(* MarshalToSizedBuffer, and "panic" once a write left the buffer.         *)
(***************************************************************************)
EXTENDS Naturals, Integers, Sequences, SequencesExt

Cap == 2^20
U64 == SUBSET (0..63)

Bits7(b) == {k \in 0..6 : (b \div 2^k) % 2 = 1}
BitsOf(n) == {k \in 0..29 : (n \div 2^k) % 2 = 1}
\* The value of a bit set, or Cap when it is Cap or more.
Val(S) == IF S \subseteq 0..19 THEN MapThenSumSet(LAMBDA k : 2^k, S) ELSE Cap
IsNeg(S) == 63 \in S

Err(e) == [err |-> e, bits |-> {}, i |-> 0]

(* The varint loop of Unmarshal and of skipping a field: reads a byte     *)
(* only after the end-of-buffer check, fails after ten continuation bytes, *)
(* and drops the bits shifted past 63.                                     *)
RECURSIVE UvarintLoop(_, _, _, _)
UvarintLoop(buf, i, shift, acc) ==
  IF shift >= 64 THEN Err("ErrIntOverflow")
  ELSE IF i >= Len(buf) THEN Err("ErrUnexpectedEOF")
  ELSE LET b == buf[i + 1]
           acc2 == acc \cup ({shift + k : k \in Bits7(b)} \cap 0..63)
       IN IF b < 128 THEN [err |-> "none", bits |-> acc2, i |-> i + 1]
          ELSE UvarintLoop(buf, i + 1, shift + 7, acc2)

ReadUvarint(buf, i) == UvarintLoop(buf, i, 0, {})

(* iNdEx + int(v) for a small iNdEx and v >= 0: -1 when it passes 2^63.    *)
AddLen(i, S) == IF Val((0..62) \ S) < i THEN -1 ELSE i + Val(S)

(* dAtA[from:to]: a Go slice panics unless 0 <= from <= to <= len.         *)
SliceOf(buf, from, to) ==
  IF 0 <= from /\ from <= to /\ to <= Len(buf)
  THEN [err |-> "none", val |-> SubSeq(buf, from + 1, to), i |-> to]
  ELSE [err |-> "panic", val |-> <<>>, i |-> 0]

ReadLenDelimNoWrapCheck(buf, i) ==
  LET v == ReadUvarint(buf, i)
      post == AddLen(v.i, v.bits)
  IN CASE v.err # "none" -> [err |-> v.err, val |-> <<>>, i |-> 0]
       [] IsNeg(v.bits) -> [err |-> "ErrInvalidLength", val |-> <<>>, i |-> 0]
       [] post > Len(buf) -> [err |-> "ErrUnexpectedEOF", val |-> <<>>, i |-> 0]
       [] OTHER -> SliceOf(buf, v.i, post)

(* A length-delimited field: its length varint, the negative, wrapping    *)
(* and past-the-end checks, then the slice dAtA[iNdEx:postIndex].         *)
ReadLenDelim(buf, i) ==
  LET v == ReadUvarint(buf, i)
      post == AddLen(v.i, v.bits)
  IN CASE v.err # "none" -> [err |-> v.err, val |-> <<>>, i |-> 0]
       [] IsNeg(v.bits) -> [err |-> "ErrInvalidLength", val |-> <<>>, i |-> 0]
       [] post < 0 -> [err |-> "ErrInvalidLength", val |-> <<>>, i |-> 0]
       [] post > Len(buf) -> [err |-> "ErrUnexpectedEOF", val |-> <<>>, i |-> 0]
       [] OTHER -> SliceOf(buf, v.i, post)

WireType(S) == Val(S \cap {0, 1, 2})

(* One field of skipWeb3 / skipQuery: the index after it and the new      *)
(* group depth.                                                            *)
SkipField(d, t, depth) ==
  LET wt == WireType(t.bits)
      v == ReadUvarint(d, t.i)
  IN CASE wt = 0 -> [err |-> v.err, i |-> v.i, depth |-> depth]
       [] wt = 1 -> [err |-> "none", i |-> t.i + 8, depth |-> depth]
       [] wt = 2 /\ v.err # "none" -> [err |-> v.err, i |-> 0, depth |-> depth]
       [] wt = 2 /\ IsNeg(v.bits) ->
            [err |-> "ErrInvalidLength", i |-> 0, depth |-> depth]
       [] wt = 2 -> [err |-> "none", i |-> AddLen(v.i, v.bits), depth |-> depth]
       [] wt = 3 -> [err |-> "none", i |-> t.i, depth |-> depth + 1]
       [] wt = 4 /\ depth = 0 ->
            [err |-> "ErrUnexpectedEndOfGroup", i |-> 0, depth |-> 0]
       [] wt = 4 -> [err |-> "none", i |-> t.i, depth |-> depth - 1]
       [] wt = 5 -> [err |-> "none", i |-> t.i + 4, depth |-> depth]
       [] OTHER -> [err |-> "illegal wireType", i |-> 0, depth |-> depth]

RECURSIVE SkipLoop(_, _, _)
SkipLoop(d, i, depth) ==
  IF ~(i < Len(d)) THEN [err |-> "ErrUnexpectedEOF", n |-> 0]
  ELSE LET t == ReadUvarint(d, i)
           f == SkipField(d, t, depth)
       IN CASE t.err # "none" -> [err |-> t.err, n |-> 0]
            [] f.err # "none" -> [err |-> f.err, n |-> 0]
            [] f.i < 0 -> [err |-> "ErrInvalidLength", n |-> 0]
            [] f.depth = 0 -> [err |-> "none", n |-> f.i]
            [] OTHER -> SkipLoop(d, f.i, f.depth)

(* int32(wire >> 3): bits 3..34 of the tag, bit 34 its sign.               *)
FieldNum(S) ==
  LET f == {k - 3 : k \in S \ {0, 1, 2}} \cap 0..31
  IN IF 31 \in f \/ f = {} THEN 0 ELSE Val(f)

BitLen(S) == IF S = {} THEN 0 ELSE Max(S) + 1

sovWeb3OffByOne(x) == (BitLen(x) + 7) \div 7

sovWeb3(x) == (BitLen(x \cup {0}) + 6) \div 7

RECURSIVE VarintBytesWideMask(_)
VarintBytesWideMask(v) ==
  IF \E k \in v : k >= 7
  THEN <<Val(v \cap 0..7) + 128>> \o VarintBytesWideMask({k - 7 : k \in v \ 0..6})
  ELSE <<Val(v)>>

RECURSIVE VarintBytes(_)
VarintBytes(v) ==
  IF \E k \in v : k >= 7
  THEN <<Val(v \cap 0..6) + 128>> \o VarintBytes({k - 7 : k \in v \ 0..6})
  ELSE <<Val(v)>>

Put(st, pos, s) ==
  CASE st.err # "none" -> st
    [] pos < 0 \/ pos + Len(s) > Len(st.b) -> [st EXCEPT !.err = "panic"]
    [] OTHER -> [st EXCEPT !.b = [k \in DOMAIN st.b |->
                   IF pos < k /\ k <= pos + Len(s) THEN s[k - pos] ELSE st.b[k]]]

encodeVarintWeb3(st, offset, v) ==
  LET base == offset - sovWeb3(v)
  IN [Put(st, base, VarintBytes(v)) EXCEPT !.i = base]

PutTag(st, tag) == [Put(st, st.i - 1, <<tag>>) EXCEPT !.i = st.i - 1]

=============================================================================
