CONSTANTS
  MaxClicks = 3
  Saved = {1}
  Direct = {2}
  Form = {3}
  Account = {a, b}
  Label = {l1, l2}
  MaxSaves = 2
SPECIFICATION Spec
CHECK_DEADLOCK FALSE
INVARIANTS
  CancelAtHand
  TunnelIsNoticed
  ProfileOfOneAccount
  PasswordOfItsServer
PROPERTIES
  ButtonComesBack
  LoginSettles
