SPECIFICATION FairSpec
CONSTANTS
  Instances = {i1, i2}
  Users = {u}
  Breakers = {b}
  Booter = boot
  NoInstance = NoInstance
  ResumeMayFail = FALSE
  MaxCrashes = 1
INVARIANT AckedIntentKept
PROPERTY ComesBack
