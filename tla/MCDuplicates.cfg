SPECIFICATION TreeSpec
CONSTANTS
  Records = {r1, r2, r3}
  Root = root
  Names = {"a", "~", "along"}
  Stored <- MCStored
  Functions = {f}
  Null = null
  Prefix = ""
  Garbage = garbage
SYMMETRY Alike
PROPERTIES KeepsDirectory
