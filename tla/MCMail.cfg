SPECIFICATION MFairSpec
CONSTANTS
  Thread = {s1, s2, w, r1, r2}
  Sender = {s1, s2}
  Worker = w
  Receiver = {r1, r2}
  List = {b1}
  Sem <- MCSem
  NoSem = NoSem
  InitialValues = {0}
  NoPacket = NoPacket
  Reliable = FALSE
  MaxSends = 2
INVARIANTS
  MonitorKept
  MailKept
PROPERTIES
  SenderReturns
  MailDelivered
CHECK_DEADLOCK FALSE
