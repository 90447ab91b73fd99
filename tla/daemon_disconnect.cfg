CONSTANTS
  Clients = {c1, c2}
  Keys = {k1}
  Insts = {i1, i2, i3}
  Methods = {"replace", "disconnect"}
  IdleTicks = 2
  None = None
SYMMETRY Symmetry
SPECIFICATION Spec
PROPERTY DisconnectDropsItsOwn
