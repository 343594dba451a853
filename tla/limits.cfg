SPECIFICATION LimitsSpec
CONSTANTS
  a = a
  b = b
  a1 = a1
  a2 = a2
  a3 = a3
  b1 = b1
  Jobs <- Emails
  Scopes = {a, b}
  Scope <- SenderOf
  Limit <- OneAnHour
  Delay = 2
  Second = 1
  Hour = 5
  Pauses <- UpToHour
INVARIANTS
  LimitsTypeOK
  WastedOnce
PROPERTIES
  GapKept
  NoIdleRefusal
  EventuallyThrough
