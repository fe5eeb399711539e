SPECIFICATION FairSpec
CONSTANTS
  events_task = events_task
  tcpip_thread = tcpip_thread
  disconnect = disconnect
  iperf_done = iperf_done
  Events = {disconnect, iperf_done}
  Posters = {events_task, tcpip_thread}
  Posts <- MCPosts
  NoEvent = NoEvent
  SemCtrMax = 1
  MaxGrants = 3
INVARIANTS
  TypeOK
  WaitNotRefused
PROPERTIES
  ImplementsCredit
  WaitReturns
