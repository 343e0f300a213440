SPECIFICATION Spec
CONSTANTS
  Main = main
  Workers = {w1, w2}
  PrimCount = 3
  MaxTokens = 3
INVARIANTS WrittenOnMainThread ProcessedOnce EditsComplete
PROPERTIES Ends
