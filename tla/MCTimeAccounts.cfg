\* Two tasks; the low word wraps after three interrupts, and again after two more.
SPECIFICATION Spec
CONSTANTS
  Tasks = {t1, t2}
  Null = null
  WordSize = 5
  Tick = 2
  MaxTicks = 6
SYMMETRY Alike
INVARIANTS MicrosCharged
PROPERTIES ReadsRight
