SPECIFICATION FairSpec
CONSTANTS
    Callers = {g1, g2, r1}
    Deadline = 2
    AuthWait = 2
    Passes = 1
    WebGrace = 1
INVARIANTS TypeOK AnswerInTime OneClient ExitReleasesAll
PROPERTIES StopEnds
