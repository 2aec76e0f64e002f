CONSTANTS
  i1 = i1
  i2 = i2
  i3 = i3
  i4 = i4
  i5 = i5
  MaxPeers = 2
  Index = {i1, i2, i3, i4, i5}
SYMMETRY Symmetry
SPECIFICATION Spec
INVARIANT LastPeerDistinct
