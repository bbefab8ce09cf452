CONSTANTS
  h1 = h1
  h2 = h2
  c1 = c1
  r1 = r1
  r2 = r2
  Hot <- HotTwo
  Cold <- ColdOne
  Requests <- TwoClients
  Permits = 1
  UseSnapshots = FALSE
  MaxPanics = 0
  Main = Main
  None = None
SPECIFICATION Spec
SYMMETRY Symmetry
INVARIANT RequestInOnePlace
PROPERTY ImplementsService
