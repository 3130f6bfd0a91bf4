\* Two tasks of two image pages each; memory for both, and two frames more.
SPECIFICATION Spec
CONSTANTS
    NFrames = 16
    Usable <- MCUsable
    HeapPages = 2
    t1 = t1
    t2 = t2
    Task <- MCTask
    ImagePages = 2
    ExecPages = {1}
    NPages = 5
    PtSpan = 1
    MaxPages = 2
    MaxInFlight = 2
PROPERTY StealTransactional
