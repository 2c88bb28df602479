CONSTANTS
  Regular = 2
  Micro = 0
  KernelSize = 1
  RegularSize = 7
  MicroSize = 5
  Slack = 1
  Depth <- MCOneEach
  Blocking = {1}
  Mortal = {}
  Creating = {0}
  Floats = {0, 1}
  Long = {}
SPECIFICATION Spec
INVARIANT FloatsKept
