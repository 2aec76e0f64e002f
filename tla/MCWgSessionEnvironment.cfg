CONSTANTS
  alice = alice
  bob = bob
  home = home
  away = away
  NoAddress = NoAddress
  Device = {alice, bob}
  Address = {home, away}
  connect_ip <- OnlyAliceConfigured
  keepalive <- NoKeepalive
  REKEY_AFTER_TIME = 2
  REJECT_AFTER_TIME = 3
  REKEY_TIMEOUT = 1
  COOKIE_SECRET_MAX_AGE = 2
  INITIATION_INTERVAL = 1
  REKEY_AFTER_MESSAGES = 1
  REJECT_AFTER_MESSAGES = 2
  ReplayWindowSize = 2
  MaxEphemeral = 3
  MaxTime = 2
  MaxRestart = 1
  SendResults = {TRUE}
  UnderLoad = TRUE
SPECIFICATION Spec
INVARIANT InitiationUsedOnce
INVARIANT NonceNeverReused
INVARIANT DeliveredOnce
INVARIANT ResponderWaitsForInitiator
PROPERTY EndpointMovesOnFresh
PROPERTY CookieAnswersLastInitiation
CHECK_DEADLOCK FALSE
