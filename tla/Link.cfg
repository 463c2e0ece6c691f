SPECIFICATION LinkSpec
CONSTANTS
  LinkFaults = 2
  Events = 4
  Outgoing = 3
  Controls = {2}
  Incoming = 2
  WireFaults = 2
  Naps = 1
INVARIANTS LinkMatches SentAsAsked HandedOnce
PROPERTIES RedriverFirst
CHECK_DEADLOCK FALSE
