CONSTANTS
  u1 = u1
  u2 = u2
  m1 = m1
  m2 = m2
  m3 = m3
  p1 = p1
  Ids = {u1, u2}
  Mails = {m1, m2, m3}
  Phones = {p1}
  Calls = {c1, c2}
  Tokens = {1, 2, 3}
  Secrets = {1, 2, 3}
  Keys <- AllKeys
  VersionCap = 2
  CountCap = 3
  MaxAttempts = 2
  MaxPer60s = 1
  MaxPerHour = 1
  AutoVerify = FALSE
  Scenarios <- OnlyMemory
  SeedMail = m3
  SeedPhone = p1
  None = None
SPECIFICATION FairSpec
PROPERTIES WaitingHelps
CHECK_DEADLOCK FALSE
