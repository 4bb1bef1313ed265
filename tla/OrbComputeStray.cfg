SPECIFICATION BackstopSpec
CONSTANTS
  old = old
  new = new
  Reconcilers = {old, new}
  SpecOf <- SameRevision
  GenOf <- SameRevision
  MaxIncarnation = 0
  MaxTokens = 1
PROPERTIES StrayHostStops
