SPECIFICATION Spec
CONSTANTS
  sensors = sensors
  interfaces = interfaces
  os = os
  usb = usb
  Entries = {sensors, interfaces, os, usb}
  None = None
  Summary = Summary
  Fields <- FieldsOf
  Reloads = {interfaces, usb}
  Rescans = {sensors}
  Slow = {os, usb}
  MaxShows = 3
  MaxDepth = 3
INVARIANTS NoDanglingUpdate NothingStray SelectedIsShown TimersKeepOn
PROPERTY TimersEnd
CHECK_DEADLOCK FALSE
