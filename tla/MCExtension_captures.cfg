SPECIFICATION Spec
CONSTANTS
  Responses = {1, 2}
  Urls = {u1}
  Tabs = {t1}
  Kinds <- Mixed
  Browsers = {"chrome", "firefox"}
  MaxDeliveries = 1
  MaxKills = 1
  MaxRetries = 1
  MaxDisturbances = 2
  MaxSwitches = 1
  MaxUpdates = 1
INVARIANTS CapturesSound DiscardedIsHeld
CHECK_DEADLOCK FALSE
PROPERTIES ClaimsEnd
