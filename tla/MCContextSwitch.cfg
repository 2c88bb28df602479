CONSTANTS
  Regular = 2
  Micro = 1
  KernelSize = 1
  RegularSize = 6
  MicroSize = 5
  Slack = 1
  Depth <- MCDepth
  Blocking = {1, 2}
  Mortal = {2}
  Creating = {0}
  Floats = {1}
  Long = {0, 2}
SPECIFICATION Spec
INVARIANTS TaskUndisturbed KernelUndisturbed ParametersRead OverflowKilled
