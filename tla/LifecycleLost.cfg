SPECIFICATION FairSpec
CONSTANTS
    MaxInit = 1
    Readers = {}
    Builds <- PlainBuild
PROPERTIES
    AbortingSequenceEnds
