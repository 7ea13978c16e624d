\* One host variable: the host starts, stops, clears and restarts through it.
CONSTANTS
  h1 = h1
  h2 = h2
  a1 = a1
  a2 = a2
  a3 = a3
  null = null
  Handles <- MCTwoHandles
  Addresses <- MCAddresses
  Ports <- MCPorts
  Null <- null

SPECIFICATION Spec

INVARIANT SingleLiveDevice
