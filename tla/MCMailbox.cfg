SPECIFICATION FairSpec
CONSTANTS
  m1 = m1
  m2 = m2
  m3 = m3
  k1 = k1
  k2 = k2
  Nil = Nil
  Mail <- MCMail
  ExitMail <- MCExitMail
  MailId <- MCMailId
INVARIANTS
  ListShape
  NothingBehindTheDrain
  RemainIntact
PROPERTIES
  EveryMailLeaves
  QueueSpec
CHECK_DEADLOCK FALSE
