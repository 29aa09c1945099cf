SPECIFICATION Spec
CONSTANTS
  TLE_LEN = 16
  OTDR_SAMPLE = 12
  OTDR_EVENT_MAX = 4
  Managers <- MCManagers
  Origin <- MCOrigin
  Messages <- MCMessages
  Locs <- MCLocs
  Elsewhere <- MCElsewhere
  DevTypes = {3, 8}
INVARIANT WithinFrame
