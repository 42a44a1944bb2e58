CONSTANTS
  Msgs <- MCMsgs
  Crafted <- MCCrafted
  Alphabet <- MCAlphabet

SPECIFICATION Spec

\* The exchange ends once the receiver has unmarshalled.
CHECK_DEADLOCK FALSE

INVARIANT TypeOK
INVARIANT RoundTrip
INVARIANT NoPanic
