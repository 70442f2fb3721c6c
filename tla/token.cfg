\* Longs of five bits and seconds of four milliseconds.
SPECIFICATION Spec
CONSTANTS
  LongMax = 15
  Second = 4
  Null = Null
INVARIANTS
  WebTokenTypeOK
  LivesAsLongAsAsked
