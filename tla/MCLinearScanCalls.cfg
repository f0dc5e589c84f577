SPECIFICATION ScanSpec
CONSTANTS
  v1 = v1
  v2 = v2
  v3 = v3
  v4 = v4
  r10 = r10
  rcx = rcx
  rbx = rbx
  xmm0 = xmm0
  Unvisited = Unvisited
  Vregs <- FewVregs
  Caller <- FewCaller
  R10 = r10
  Callee <- MCCallee
  Xmm <- MCXmm
  Calls <- MCCalls
  MaxPos = 4
  MaxWeight = 1
  Widths <- MCWidths
SYMMETRY FewSymmetry
CHECK_DEADLOCK FALSE
INVARIANT CrossCallSurvives
