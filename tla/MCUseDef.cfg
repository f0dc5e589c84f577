SPECIFICATION Spec
CONSTANTS
  i1 = i1
  i2 = i2
  p1 = p1
  b1 = b1
  b2 = b2
  c1 = c1
  u1 = u1
  u2 = u2
  u3 = u3
  u4 = u4
  Instrs <- MCInstrs
  Phis <- MCPhis
  Blocks <- MCBlocks
  Consts <- MCConsts
  Uses <- MCUses
  Name <- MCName
  None = None
  MaxOperands = 4
  MaxArgs = 2
SYMMETRY Symmetry
INVARIANTS UseListExact NoDanglingOperand PhiAlternates
PROPERTY DestructionIsLocal
