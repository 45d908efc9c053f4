SPECIFICATION FairSpec
CONSTANTS
  Sender = {s1, s2, s3}
  First = s1
  Rx = rx
  MaxSends = 4
INVARIANTS
  InOrder
  CountExact
  ReceiverWoken
  NoneIsLast
PROPERTY
  AllReceived
CHECK_DEADLOCK FALSE
