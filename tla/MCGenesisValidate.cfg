\* Lists of up to three accounts over two valid addresses and one invalid.
CONSTANTS
  Addresses = {a1, a2, bad}
  ValidAddresses = {a1, a2}
  MaxAccounts = 3

SPECIFICATION Spec

\* Validate returns once: the verdict is final.
CHECK_DEADLOCK FALSE

INVARIANT ValidateMatchesReference
