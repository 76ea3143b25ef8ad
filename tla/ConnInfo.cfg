SPECIFICATION Spec
CONSTANTS
  Letter = Letter
  Space = Space
  Quote = Quote
  Backslash = Backslash
  Equals = Equals
  Characters <- MCCharacters
  Keys <- MCKeys
  Values <- MCValues
INVARIANTS
  UnderstandsQuoting
  ReadsOwnLine
CHECK_DEADLOCK FALSE
