SPECIFICATION ClientFairSpec
CONSTANTS
  MaxTries = 1
  MaxEvents = 2
PROPERTY ConnectEnablesRequests
