SPECIFICATION FairSpec
CONSTANTS
  Putters = {p}
  Getters = {}
  Listers = {l}
  Digests = {d1}
  Inodes = {i1, i2}
  Foreign = {d1}
  HasAlien = TRUE
  Faults = {"io"}
  TempTries = 2
  ListBound = 3
  NoInode = NoInode
  Torn = Torn
  Alien = Alien
  p = p
  l = l
  d1 = d1
  i1 = i1
  i2 = i2
INVARIANT NoStrayTemp
PROPERTY CallsReturn
