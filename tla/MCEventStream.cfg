\* Three events, of which a page of the replay holds two and a subscription one doorbell,
\* so that replays take several reads and doorbells are dropped; one fault at any moment.
\* Stories of two, three and five steps; two requests of the detail on their way.
SPECIFICATION LiveSpec
CONSTANTS
  supervisor = supervisor
  Writers = {supervisor}
  MaxSeq = 3
  Batch = 2
  QueueSize = 1
  MaxFaults = 1
  Stories <- MCStories
  MaxInFlight = 2
  MaxVisits = 1
  MaxFailures = 1
INVARIANTS NothingLost
PROPERTIES FeedsInOrder EveryEventArrives PageSafe
CHECK_DEADLOCK FALSE
