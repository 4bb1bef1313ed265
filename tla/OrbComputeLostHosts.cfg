SPECIFICATION Spec
CONSTANTS
  old = old
  new = new
  Reconcilers = {old, new}
  SpecOf <- SameRevision
  GenOf <- SameRevision
  MaxIncarnation = 1
  MaxTokens = 2
SYMMETRY Peers
INVARIANTS ReadyIsAuthorised
PROPERTIES OnlyLiveIncarnationBoots ImplementsFence
