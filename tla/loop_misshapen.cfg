SPECIFICATION FairSpec
CONSTANTS
  Key = {"clock", "module"}
  Line = {"on", "bad"}
  Noisy = {}
  Source = {"branch", "lib", "typo", "nopanel"}
  Broken = {"typo"}
  Misshapen = {"nopanel"}
  Imports = {"lib"}
  Lib = {"l1", "l2"}
  BrokenLib = {"l2"}
  Wants <- WantsOf
  MaxEvents = 2
  None = None
INVARIANTS
  KeepsWhatIsShown
