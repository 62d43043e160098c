SPECIFICATION Spec
CONSTANTS
    ThreadCount = 3
    UserThreads = {2, 3}
    Vectors = {6, 14, 200}
INVARIANTS
    FrameHoldsThread
    ThreadsResume
    GsFollowsMode
