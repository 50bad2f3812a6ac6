SPECIFICATION Spec
CONSTANTS
  Key = {a, shift, caps}
  ShiftKey = {shift}
  CapsKey = caps
  NoKey = noKey
  c1 = c1
  c2 = c2
  Contact <- MCContact
  CanFail = TRUE
  MaxControl = 1
SYMMETRY Symmetry
INVARIANTS StateFollowsPushed ShiftFollowsKeys ModifiersAgree
