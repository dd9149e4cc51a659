SPECIFICATION Spec
CONSTANTS
  Lines <- WholeLines
  CutLines <- TornLines
  MaxParts = 2
INVARIANTS
  CodecTypeOK
  DecodedIffOneLine
  WritesOneObject
  LooksUpInsideTable
