\* Names that stay with their pins; each program alone.  A driver that is dead
\* takes no step, a program whose pins are left alone neither.
SPECIFICATION AllSpec
CONSTANTS
  led = led  button = button  p1 = p1  p2 = p2  c1 = c1  c2 = c2  i1 = i1
  sw0 = sw0  sw1 = sw1  rgb0 = rgb0  on = on  off = off
  None = None
  Names = {led, button}
  Pins = {p1, p2}
  StateClients = {}
  ControlClients = {c1, c2}
  IrqClients = {i1}
  Configs <- Settled
  Counts = 4
INVARIANTS RefsExact DirectionRight DefaultDrives
PROPERTIES UpdateKeepsLevel LedsFollow ButtonHeld
CHECK_DEADLOCK FALSE
