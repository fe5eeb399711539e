\* A chain of two: the light, whose confirmation sends the next, and the last, whose
\* confirmation ends the chain.  Clients subscribe; what they subscribed to ends with the
\* connection.  Any number of connections, changes and events.
SPECIFICATION FairSpec
CONSTANTS
  Links = 2
  Configs = {TRUE}
INVARIANTS
  TypeOK
  OngoingIsWatched
PROPERTY DisplayCatchesUp
