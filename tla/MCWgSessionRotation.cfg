CONSTANTS
  alice = alice
  bob = bob
  home = home
  away = away
  NoAddress = NoAddress
  Device = {alice, bob}
  Address = {home}
  connect_ip <- BothConfigured
  keepalive <- NoKeepalive
  REKEY_AFTER_TIME = 2
  REJECT_AFTER_TIME = 3
  REKEY_TIMEOUT = 1
  COOKIE_SECRET_MAX_AGE = 2
  INITIATION_INTERVAL = 1
  REKEY_AFTER_MESSAGES = 1
  REJECT_AFTER_MESSAGES = 1
  ReplayWindowSize = 2
  MaxEphemeral = 6
  MaxTime = 2
  MaxRestart = 0
  SendResults = {TRUE}
  UnderLoad = FALSE
SYMMETRY Symmetry
SPECIFICATION Spec
INVARIANT TypeOK
INVARIANT SlotDiscipline
INVARIANT SlotsDistinct
INVARIANT SessionsAgree
PROPERTY ImplementsKeyLifecycle
CHECK_DEADLOCK FALSE
