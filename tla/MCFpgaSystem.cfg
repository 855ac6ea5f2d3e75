\* Two bitstreams, two versions of one of them, and files that cannot be loaded.
SPECIFICATION SystemSpec
CONSTANTS
  a = a  b = b  v1 = v1  v2 = v2  odd = odd  bad = bad  drv = drv  dev = dev
  None = None
  Names = {a, b}
  Contents <- MCContents
  Invalid = {bad}
  Odd = {odd}
  Types = {dev}
  DeviceOf <- MCDeviceOf
INVARIANTS ReportTruthful CaughtUp
PROPERTIES Converges
