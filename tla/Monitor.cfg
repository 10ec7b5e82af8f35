SPECIFICATION FairSpec
CONSTANTS
    Channels = {c1, c2}
    Readers = {c1}
    Buffer = 1
    Interval = 1
    MaxRound = 3
    MaxCount = 1
    None = None
INVARIANTS Inv NoPanic AlarmMeansLate
PROPERTIES StopCloses ReaderLearns
