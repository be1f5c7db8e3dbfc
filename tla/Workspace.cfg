SPECIFICATION FairSpec
CONSTANTS
  h1 = h1
  h2 = h2
  r1 = r1
  v1 = v1
  First = First
  Foreign = Foreign
  None = None
  Handler = {h1, h2}
  Request = {r1}
  Validation = {v1}
  MaxSequence = 2
  Events = {"webd", "mgrd", "giveup", "drift", "expire"}
  MaxEvents = 1
INVARIANTS TypeOK ResolutionIsFinal FrozenWhileOpen NeverSplit
PROPERTIES DraftKept Released
