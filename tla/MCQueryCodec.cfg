CONSTANTS
  Msgs <- MCMsgs
  Crafted <- MCCrafted
  Alphabet <- MCAlphabet
  ParamsEncodings <- MCParams
  IntEncodings <- MCInts

SPECIFICATION Spec

\* The exchange ends once the receiver has unmarshalled.
CHECK_DEADLOCK FALSE

INVARIANT TypeOK
INVARIANT RoundTrip
INVARIANT NoPanic
