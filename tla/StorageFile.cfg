CONSTANTS
    CHUNK = 2
    SEGMENT = 4
    Sizes = {0, 1, 2, 3, 4, 5, 6, 7, 8, 9, 10, 11, 12, 13, 14, 15, 16, 17, 18, 19, 31, 32, 33, 34, 35, 37, 40, 47, 55, 63, 64, 65, 66, 67, 72, 76, 80, 95, 96, 127, 128, 129, 145}
SPECIFICATION FileSpec
INVARIANTS
    FileTypeOK
    SubmissionHasFileRoot
    SegmentsHoldFile
    ProofsLocateSegments
    FragmentsHoldFile
CHECK_DEADLOCK FALSE
