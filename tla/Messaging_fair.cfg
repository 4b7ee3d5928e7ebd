SPECIFICATION FairSpec
CONSTANTS
    Events <- MCEvents
    MaxCloses = 2
INVARIANTS TypeOK NeverStranded NothingVanishes OrderKept
PROPERTIES ImplementsOutbox BufferedIsPublished
CHECK_DEADLOCK FALSE
