CONSTANTS
    stored = stored
    parsed = parsed
    Topics = {stored, parsed}
    NoTopic = NoTopic
    Buffer = 1
    MaxSubs = 2
    MaxInputs = 4
SPECIFICATION Spec
INVARIANTS TypeOK NeverFromEarlier LoneCallGetsAll OrderedByTopic AtMostOneLate
PROPERTIES WindsDown EveryChannelCloses CloseEnds
ACTION_CONSTRAINT FirstAsksForStored
CHECK_DEADLOCK FALSE
