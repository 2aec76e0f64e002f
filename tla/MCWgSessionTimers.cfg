CONSTANTS
  alice = alice
  bob = bob
  home = home
  away = away
  NoAddress = NoAddress
  Device = {alice, bob}
  Address = {home}
  connect_ip <- BothConfigured
  keepalive <- BothKeepAlive
  REKEY_AFTER_TIME = 1
  REJECT_AFTER_TIME = 2
  REKEY_TIMEOUT = 1
  COOKIE_SECRET_MAX_AGE = 2
  INITIATION_INTERVAL = 1
  REKEY_AFTER_MESSAGES = 1
  REJECT_AFTER_MESSAGES = 1
  ReplayWindowSize = 2
  MaxEphemeral = 3
  MaxTime = 7
  MaxRestart = 0
  SendResults = {TRUE, FALSE}
  UnderLoad = FALSE
SYMMETRY Symmetry
SPECIFICATION Spec
PROPERTY KeysUsedInTheirLifetime
CHECK_DEADLOCK FALSE
