---------------------------- MODULE MCQueryCodec ----------------------------
(***************************************************************************)
(* Bounds for QueryCodec: every message kind; empty and non-empty Params   *)
(* and Int bodies; gas values on both sides of the one-byte varint edge,   *)
(* negative ones and the two int64 extremes; short crafted strings and    *)
(* the long inputs of MCWeb3Codec.                                         *)
(***************************************************************************)
EXTENDS QueryCodec

\* Two's complement of an int64 as the bit set of uint64(n).
Int64Bits(n) == IF n >= 0 THEN BitsOf(n) ELSE (0..63) \ BitsOf(-n - 1)

MCParams == {<<>>, <<8, 1>>}
MCInts == {<<48>>, <<49, 50, 56>>}     \* "0" and "128"

MCMsgs ==
  {[kind |-> k, body |-> <<>>] : k \in Requests}
  \cup {[kind |-> "QueryParamsResponse", body |-> b] : b \in MCParams}
  \cup {[kind |-> "QueryBaseFeeResponse", body |-> b] : b \in MCInts}
  \cup {[kind |-> "QueryBlockGasResponse", body |-> g] :
          g \in {Int64Bits(n) : n \in {0, 1, 127, 128, -1, -128}}
                \cup {{63}, 0..62}}   \* MinInt64 and MaxInt64

MCAlphabet == {0, 1, 8, 10, 12, 16, 18, 32, 34, 35, 36, 37, 48, 127, 128, 255}

Rep(b, n) == [k \in 1..n |-> b]

MCLong ==
  { <<10>> \o Rep(255, 8) \o <<127, 8>>,      \* length 2^63-1: iNdEx + len wraps
    <<10>> \o Rep(128, 9) \o <<1, 8>>,        \* length 2^63: int(len) < 0
    <<8>> \o Rep(128, 10) \o <<0>>,           \* eleven varint bytes: overflow
    <<8>> \o Rep(255, 9) \o <<127>>,          \* bits past 63 dropped: gas -1
    <<34>> \o Rep(255, 8) \o <<127>>,         \* unknown field, length 2^63-1
    <<35, 32, 1, 36, 8, 1>> }                 \* a group of an unknown field

MCCrafted == BoundedSeq(MCAlphabet, 3) \cup MCLong
=============================================================================
