CONSTANTS
  p1 = p1
  p2 = p2
  p3 = p3
  p4 = p4
  c1 = c1
  c2 = c2
  PollList <- MCPollList
  Clients <- MCClients
  ClientInterval <- MCClientInterval
  MaxWrites <- MCMaxWrites

SPECIFICATION Spec


INVARIANT PollListRaceFree

CHECK_DEADLOCK FALSE
