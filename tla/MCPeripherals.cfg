SPECIFICATION Spec
CONSTANTS
  can = can
  i2c = i2c
  tx = tx
  shutdown = shutdown
  scl = scl
  portA = portA
  portB = portB
  Null = Null
  Handles = {h1, h2, h3}
  Devices <- BoardDevices
  Needs <- BoardNeeds
INVARIANTS CountsHolders NeedsAreOn OnIffUsed
