SPECIFICATION Spec
CONSTANTS
  o1 = o1
  o2 = o2
  o3 = o3
  o4 = o4
  o5 = o5
  Root = Root
  None = None
  Obj <- MCObj3
  Letters = {10}
  MaxClears = 1
  MaxHandles = 1
SYMMETRY MCSymmetry
INVARIANTS
  TreeIsSound
  KeptLast
