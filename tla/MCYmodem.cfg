SPECIFICATION FairSpec
CONSTANTS
  FileLen = 9
  BufLens = {7, 12}
  BlockMod = 4
  MAX_IDLE = 4
  Damage = {"lost", "bad", "junk", "CAN", "EOT"}
  MaxFaults = 3
  MaxRetries = 3
  MaxReplies = 4
INVARIANT TypeOK
INVARIANT StoredIsPrefix
INVARIANT AckedIsStored
INVARIANT CompleteIfOk
PROPERTY Ends
CHECK_DEADLOCK FALSE
