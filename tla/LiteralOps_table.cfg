\* Both instances of MC_LiteralWidths: the narrow tables and the wide bit
\* builtins and packed dot products.
SPECIFICATION Spec
INVARIANTS
  TypeOK
  BinaryMatchesReference
  MathMatchesReference
  CastMatchesConversionRules
  VectorOpsMatchReference
  UnaryMatchesReference
  PackedDotMatchesReference
