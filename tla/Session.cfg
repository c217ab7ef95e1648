\* Channels of two slots, six clicks.
SPECIFICATION FairSpec
CONSTANTS
  CommandSlots = 2
  EventSlots = 2
  BatchSize = 2
  MaxClicks = 6
INVARIANTS
  TypeOK
  ExecutorIsOwned
  QuietWindowIsRight
PROPERTIES
  DisconnectIsAnswered
