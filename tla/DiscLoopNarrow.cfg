SPECIFICATION Spec
CONSTANTS
  a2 = a2
  ad = ad
  f3 = f3
  fd = fd
  b = b
  p = p
  am = am
  Things = {a2, ad, f3, fd, b, p, am}
  TechOf <- MCTechOf
  KindOf <- MCKindOf
  Nothing = Nothing
  MaxInField = 2
  MaxCmd = 1
INVARIANT
  UserConfigurationRestored
