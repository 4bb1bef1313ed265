SPECIFICATION FairSpec
CONSTANTS
  old = old
  new = new
  Reconcilers = {new}
  SpecOf <- OneRevision
  GenOf <- OneRevision
  MaxIncarnation = 1
  MaxTokens = 2
PROPERTIES DiscardCompletes StartResolves
