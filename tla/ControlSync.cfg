SPECIFICATION SSpec
CONSTANTS
  Content = {a, b}
  Expiring = {a}
  Barrable = {b}
  Empty = Empty
  Remains = Remains
  MaxVersion = 2
  MaxCrash = 2
  Faults = {"reboot", "lost_file", "torn"}
INVARIANTS ReportedWasActive AppliedIsTrue EnforcedIsActive
PROPERTIES ConvergesFromSecond
