CONSTANTS
  Ptrs = {p1, p2, p3}
  Objs = {a, b}
  Handles = {h1, h2, h3}
  Nil = Nil
SPECIFICATION Spec
INVARIANT TypeOK
INVARIANT NoDanglingHandle
INVARIANT NoLeak
INVARIANT WeakCountExact
PROPERTY ImplementsWeakRef
