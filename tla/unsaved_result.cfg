SPECIFICATION FairSpec
CONSTANT ReturnCode = {0, 1, 2}
CHECK_DEADLOCK FALSE
INVARIANT ResultRecorded
