SPECIFICATION Spec
CONSTANTS
    Proc = {0, 1, 2, 3}
    HD = 2
    Calls <- ServiceCalls
INVARIANTS TypeOK QueueIsSenders NoMissedRendezvous ReceiverIsWakeable
PROPERTIES WokenWithAnswer
