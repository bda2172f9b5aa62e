SPECIFICATION Spec
CONSTANTS
  Res = {"CPU", "GPU"}
  Nodes = {"small", "first", "second"}
  Tasks = {1, 2, 3}
  Need <- MCNeed
  Total <- MCTotal
  Home <- MCHome
  NoNode = NoNode
INVARIANT PlacementBacked
PROPERTY BestNode
