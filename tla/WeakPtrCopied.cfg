CONSTANTS
  Ptrs = {p1, p2}
  Objs = {a, b}
  Handles = {h1, h2}
  Nil = Nil
SPECIFICATION CopyingSpec
PROPERTY ImplementsWeakRef
