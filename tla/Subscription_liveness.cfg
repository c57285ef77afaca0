SPECIFICATION FairSpec
CONSTANTS
  a1 = a1
  a2 = a2
  s1 = s1
  s2 = s2
  s3 = s3
  k1 = k1
  k2 = k2
  k3 = k3
  o1 = o1
  o2 = o2
  r1 = r1
  r2 = r2
  NoKey = NoKey
  NoRequest = NoRequest
  Keys = {k1, k2}
  Sessions <- MCSessions
  Accounts = {a1, a2}
  Requests <- Competing
  PoolSize = 2
  Restrictions = {r1}
  Officers = {o1}
PROPERTIES EverySessionEnds
