SPECIFICATION DemoSpec
CONSTANTS
  sw0 = sw0  rgb0 = rgb0  on = on  off = off
  Pins = {sw0, rgb0, on, off}
  Bank <- MCBank
  Trigger <- MCTrigger
  PinsOf <- MCPinsOf
  Started = {{"sw", "rgb"}}
PROPERTIES EdgeReported
CHECK_DEADLOCK FALSE
