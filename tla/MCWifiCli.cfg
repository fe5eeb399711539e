\* Two queued messages and two indications: a scan's end and the join's answer, or
\* an answer that comes after its command's timeout and meets the next command.
SPECIFICATION FairSpec
CONSTANTS
  QueueMax = 2
  RetryMax = 1
  SemCtrMax = 1
  NoEvent = NoEvent
  AllocMayFail = FALSE
  MaxInds = 2
INVARIANT TypeOK
PROPERTIES
  UsesSemaphore
  CommandsEnd
