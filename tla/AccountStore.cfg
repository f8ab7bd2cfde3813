CONSTANTS
  ann = ann  bob = bob  a1 = a1  a2 = a2  a3 = a3  m1 = m1  m2 = m2
  pw1 = pw1  pw2 = pw2  noPw = noPw  gone = gone  p1 = p1  p2 = p2
  Names = {ann}  Addrs = {a1, a2}  StaticAddrs = {a2}  Masks = {m1, m2}
  Passwords = {pw1}  NoPassword = noPw  Gone = gone  Procs = {p1}
  Ops = {"create", "remove", "password", "disable", "totp", "put", "mask", "refresh", "deliver", "cli", "submit", "bounce"}
  Flags = {FALSE, TRUE}  PutPasswords = {}  MaxMasks = 1  Quiesced = TRUE
  MaxLives = 2  MaxFaults = 0  MaxCrashes = 1
SPECIFICATION Spec
INVARIANTS
  TypeOK   NoGhost
CHECK_DEADLOCK FALSE
