\* Three segments and two sessions; two reset domains of PL devices.
SPECIFICATION PlatformSpec
CONSTANTS
  d1 = d1  d2 = d2  s1 = s1  s2 = s2  f0 = f0  f1 = f1
  NumSegments = 3
  Domains = {d1, d2}
  Ranges <- MCRanges
  PsClk = 33333333
  Fdiv <- MCFdiv
  Sources = {0, 3}
  Rates <- MCRates
  Div0 = 10
  Div1 = 1
  Sessions = {s1, s2}
  Fpga = {f0, f1}
INVARIANTS TypeOK ValidPrefix GrantedCovered NoOvershoot CloseToTarget RunsConnected DevicesRun
