SPECIFICATION Spec
CONSTANTS
  main = main
  f = f
  g = g
  Functions = {main, f, g}
  Main = main
  FrameSize <- Sizes
  Programs <- SomeIndirect
  MaxDepth = 3
INVARIANTS CastsSeeLiveObjects
