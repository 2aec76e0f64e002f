CONSTANTS
  staticKey = staticKey
  k1 = k1
  k2 = k2
  built_in = built_in
  e1 = e1
  Malformed = Malformed
  Unset = Unset
  Refused = {k2}
  Hosts = {0, 1, 2, 3}
  MaxPeers = 2
  PrivateKeys = {staticKey}
  PublicKeys = {k1, k2, built_in}
  Endpoints = {e1}
  AllowedIPs <- TwoPrefixes
  Keepalives = {0}
  KconfigPrivateKey = Unset
  KconfigPublicKey = built_in
  KconfigEndpoint = e1
  KconfigAllowed <- a1
  KconfigKeepalive = 25
  Files <- AllFiles
SPECIFICATION Spec
INVARIANT TypeOK
INVARIANT ActiveIsStaged
INVARIANT RoundTrip
INVARIANT LoadFaithful
INVARIANT CutFileLoads
INVARIANT RoutesByLongestPrefix
CONSTRAINT LoadOnce
