CONSTANTS
  ann = ann  bob = bob  a1 = a1  a2 = a2  a3 = a3  m1 = m1  m2 = m2
  pw1 = pw1  pw2 = pw2  noPw = noPw  gone = gone  p1 = p1  p2 = p2
  Names = {ann, bob}  Addrs = {a1, a2}  StaticAddrs = {}  Masks = {}
  Passwords = {pw1}  NoPassword = noPw  Gone = gone  Procs = {p1, p2}
  Ops = {"create", "put"}
  Flags = {FALSE}  PutPasswords = {pw1}  MaxMasks = 1  Quiesced = FALSE
  MaxLives = 1  MaxFaults = 1  MaxCrashes = 0
SPECIFICATION Spec
INVARIANTS
  AddressesUnique
CHECK_DEADLOCK FALSE
