SPECIFICATION Spec
CONSTANTS
  p = p
  r = r
  v = v
  s = s
  m = m
  NoVref = NoVref
  Presences = {p}
  Remotables = {r}
  Virtuals = {v}
  WeakStores = {s}
  WeakMaps = {m}
  Contents <- MCContents
  Sendable = {v, r}
  OrganicGC = {p}
  MaxCallbacks = 1
INVARIANTS
  WhatIsUsedIsKept
  SyscallsAreLegal
  NothingIsForgotten
