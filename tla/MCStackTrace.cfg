SPECIFICATION Spec
CONSTANTS
  main = main
  f = f
  g = g
  Functions = {main, f, g}
  Main = main
  FrameSize <- Sizes
  Programs <- AnyDirect
  MaxDepth = 4
INVARIANTS TypeOK TreeMirrorsStack PruningIsSafe LiveObjectsHaveTheirType
