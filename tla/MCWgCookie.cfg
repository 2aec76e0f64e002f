CONSTANTS
  bob = bob
  home = home
  away = away
  NoSource = NoSource
  Peer = {bob}
  Source = {home, away}
  LOAD_THRESHOLD = 1
  LoadWindow = 2
  COOKIE_SECRET_MAX_AGE = 2
  REKEY_TIMEOUT = 2
  ClockMod = 16
  BootTimes = {14}
  MaxElapsed = 4
  MaxBurst = 3
  MaxInitiations = 3
  MaxSecrets = 2
SYMMETRY Symmetry
SPECIFICATION Spec
INVARIANT TypeOK
INVARIANT WorkBounded
INVARIANT NoCookieEcho
PROPERTY WorkNeedsCookie
PROPERTY RetryCarriesCookie
PROPERTY InitiationsPaced
CHECK_DEADLOCK FALSE
