SPECIFICATION SweptSpec
CONSTANTS
  old = old
  new = new
  Reconcilers = {old, new}
  SpecOf <- TwoRevisions
  GenOf <- TwoRevisions
  MaxIncarnation = 1
  MaxTokens = 1
INVARIANTS TypeOK RowConsistent
PROPERTIES SpecOnlyForward RetiredComputeGone
