----------------------------- MODULE QueryCodec -----------------------------
(***************************************************************************)
(* The generated codec of the fee-market query messages                    *)
(* (src/x/feemarket/types/query.pb.go): Marshal, MarshalToSizedBuffer,     *)
(* Size and Unmarshal of the three requests, which have no fields, and of  *)
(* the three responses: QueryParamsResponse (field 1, the embedded Params),*)
(* QueryBaseFeeResponse (field 1, a cosmos-sdk Int in its text form) and   *)
(* QueryBlockGasResponse (field 1, an int64 varint).  The two responses    *)
(* with a non-nullable field always write it, even when it is empty.       *)
(*                                                                         *)
(* Params and Int are other packages' types: a body of theirs is the byte  *)
(* string their Marshal produces, and their Unmarshal accepts exactly the  *)
(* strings in ParamsEncodings and IntEncodings.  An int64 is a bit set as  *)
(* in ProtoWire, bit 63 its sign.  The channel is the one of Web3Codec.    *)
(***************************************************************************)
EXTENDS ProtoWire

CONSTANTS Msgs,             \* messages the sender may marshal
          Crafted,          \* byte strings a peer may send instead
          Alphabet,         \* byte values a tamperer may write or append
          ParamsEncodings,  \* the strings Params.Unmarshal accepts
          IntEncodings      \* the strings Int.Unmarshal accepts

VARIABLES msg, wire, stage, tampered, result
vars == <<msg, wire, stage, tampered, result>>

Requests == {"QueryParamsRequest", "QueryBaseFeeRequest", "QueryBlockGasRequest"}
Embedded == {"QueryParamsResponse", "QueryBaseFeeResponse"}

(* m.Params.Unmarshal / m.BaseFee.Unmarshal on the field's bytes.          *)
BodyAccepted(kind, b) ==
  IF kind = "QueryParamsResponse" THEN b \in ParamsEncodings ELSE b \in IntEncodings

(* The empty body of a freshly allocated message of each kind.             *)
ZeroBody(kind) == IF kind = "QueryBlockGasResponse" THEN {} ELSE <<>>

ReadEmbeddedNoWrapCheck(buf, i) == ReadLenDelimNoWrapCheck(buf, i)

(* Field 1 of QueryParamsResponse and QueryBaseFeeResponse.                *)
ReadEmbedded(buf, i) == ReadLenDelim(buf, i)

skipQuery(d) == SkipLoop(d, 0, 0)

(* The Unmarshal loop of the six messages: the requests have only the      *)
(* default case; each response has a case 1 of its own.                   *)
RECURSIVE UnmarshalQueryLoop(_, _, _, _)
UnmarshalQueryLoop(kind, buf, i, body) ==
  IF ~(i < Len(buf))
  THEN IF i > Len(buf) THEN [err |-> "ErrUnexpectedEOF", body |-> body]
       ELSE [err |-> "none", body |-> body]
  ELSE LET t == ReadUvarint(buf, i)
           fn == FieldNum(t.bits)
           wt == WireType(t.bits)
           v == ReadUvarint(buf, t.i)
           s == ReadEmbedded(buf, t.i)
           sk == skipQuery(SubSeq(buf, i + 1, Len(buf)))
           fail(e) == [err |-> e, body |-> body]
           known == fn = 1 /\ kind \notin Requests
       IN CASE t.err # "none" -> fail(t.err)
            [] wt = 4 -> fail("wiretype end group for non-group")
            [] fn <= 0 -> fail("illegal tag")
            [] known /\ kind \in Embedded /\ wt # 2 -> fail("wrong wireType")
            [] known /\ kind \in Embedded /\ s.err # "none" -> fail(s.err)
            [] known /\ kind \in Embedded /\ ~BodyAccepted(kind, s.val) ->
                 fail("field Unmarshal")
            [] known /\ kind \in Embedded ->
                 UnmarshalQueryLoop(kind, buf, s.i, s.val)
            [] known /\ wt # 0 -> fail("wrong wireType")
            [] known /\ v.err # "none" -> fail(v.err)
            [] known -> UnmarshalQueryLoop(kind, buf, v.i, v.bits)
            [] sk.err # "none" -> fail(sk.err)
            [] sk.n < 0 \/ i + sk.n < 0 -> fail("ErrInvalidLength")
            [] i + sk.n > Len(buf) -> fail("ErrUnexpectedEOF")
            [] OTHER -> UnmarshalQueryLoop(kind, buf, i + sk.n, body)

UnmarshalQuery(kind, buf) == UnmarshalQueryLoop(kind, buf, 0, ZeroBody(kind))

(***************************************************************************)
(* Sending side.                                                           *)
(***************************************************************************)
(* Identical to sovWeb3 and sozWeb3.                                       *)
sovQuery(x) == sovWeb3(x)
sozQuery(x) ==
  sovQuery(SymDiff({k + 1 : k \in x \ {63}}, IF 63 \in x THEN 0..63 ELSE {}))

encodeVarintQueryWideMask(st, offset, v) ==
  LET base == offset - sovQuery(v)
  IN [Put(st, base, VarintBytesWideMask(v)) EXCEPT !.i = base]

encodeVarintQuery(st, offset, v) ==
  LET base == offset - sovQuery(v)
  IN [Put(st, base, VarintBytes(v)) EXCEPT !.i = base]

SizeQueryZigZag(m) ==
  CASE m.kind \in Requests -> 0
    [] m.kind \in Embedded -> 1 + Len(m.body) + sovQuery(BitsOf(Len(m.body)))
    [] OTHER -> IF m.body # {} THEN 1 + sozQuery(m.body) ELSE 0

SizeQuery(m) ==
  CASE m.kind \in Requests -> 0
    [] m.kind \in Embedded -> 1 + Len(m.body) + sovQuery(BitsOf(Len(m.body)))
    [] OTHER -> IF m.body # {} THEN 1 + sovQuery(m.body) ELSE 0

MarshalToSizedBufferQuery(m, st) ==
  LET st1 == [Put(st, st.i - Len(m.body), m.body) EXCEPT !.i = st.i - Len(m.body)]
  IN CASE m.kind \in Requests -> st
       [] m.kind \in Embedded ->
            PutTag(encodeVarintQuery(st1, st1.i, BitsOf(Len(m.body))), 10)
       [] m.body # {} -> PutTag(encodeVarintQuery(st, st.i, m.body), 8)
       [] OTHER -> st

MarshalQuery(m) ==
  LET size == SizeQuery(m)
      st == MarshalToSizedBufferQuery(m, [b |-> [k \in 1..size |-> 0], i |-> size,
                                          err |-> "none"])
  IN IF st.err # "none" THEN [err |-> st.err, val |-> <<>>]
     ELSE [err |-> "none", val |-> SubSeq(st.b, 1, size - st.i)]

(***************************************************************************)
(* The channel.                                                            *)
(***************************************************************************)
Pending == [err |-> "pending", body |-> <<>>]

Init ==
  /\ msg \in Msgs
  /\ wire = <<>>
  /\ stage = "idle"
  /\ tampered = FALSE
  /\ result = Pending

Send ==
  LET r == MarshalQuery(msg)
  IN /\ stage = "idle"
     /\ wire' = r.val
     /\ stage' = IF r.err = "none" THEN "sent" ELSE "done"
     /\ result' = IF r.err = "none" THEN Pending ELSE [err |-> r.err, body |-> <<>>]
     /\ UNCHANGED <<msg, tampered>>

Craft ==
  /\ stage = "idle"
  /\ wire' \in Crafted
  /\ stage' = "sent"
  /\ tampered' = TRUE
  /\ UNCHANGED <<msg, result>>

Tamperings(w) ==
  {SubSeq(w, 1, k) : k \in 0..Len(w) - 1}
  \cup {[w EXCEPT ![k] = b] : k \in DOMAIN w, b \in Alphabet}
  \cup {Append(w, b) : b \in Alphabet}

Tamper ==
  /\ stage = "sent"
  /\ ~tampered
  /\ wire' \in Tamperings(wire)
  /\ tampered' = TRUE
  /\ UNCHANGED <<msg, stage, result>>

(* The receiver knows which message type it expects.                      *)
Receive ==
  /\ stage = "sent"
  /\ result' = UnmarshalQuery(msg.kind, wire)
  /\ stage' = "done"
  /\ UNCHANGED <<msg, wire, tampered>>

Next == Send \/ Craft \/ Tamper \/ Receive

Spec == Init /\ [][Next]_vars

(***************************************************************************)
(* Properties.                                                             *)
(***************************************************************************)
TypeOK ==
  /\ msg \in Msgs
  /\ \A k \in DOMAIN wire : wire[k] \in 0..255
  /\ stage \in {"idle", "sent", "done"}
  /\ tampered \in BOOLEAN
  /\ result.err \in STRING

(* Every query message survives Marshal then Unmarshal: an empty Params or *)
(* Int is still written and read back, and a negative int64 gas value is  *)
(* written as the ten-byte varint of uint64(m.Gas) that Size counted.      *)
RoundTrip ==
  (stage = "done" /\ ~tampered) => result.err = "none" /\ result.body = msg.body

(* No byte string makes a query Unmarshal index or slice outside it.       *)
NoPanic == result.err # "panic"
=============================================================================
