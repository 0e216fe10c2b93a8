SPECIFICATION Spec
CONSTANTS
  Structs <- Several
  Values <- SmallValues
  Texts <- SmallTexts
  Char <- SmallChars
  MaxElements = 2
  Depth = 3
INVARIANTS
  TypeOK
  AgreedRoundTrip
  LengthIsTrue
