CONSTANTS
  s1 = s1
  s2 = s2
  m1 = m1
  None = None
  NoCR = NoCR
  Secrets = {s1, s2}
  ConfigMaps = {m1}
  Slots <- MCSlots
  Specs <- MCSpecs
  Present = {{s1, m1}}
  MaxVersion = 2
  MaxEvents = 2
SPECIFICATION FairSpec
INVARIANTS NoLostWakeup
PROPERTIES EventuallyAccurate 
