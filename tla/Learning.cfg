SPECIFICATION LearningSpec
CONSTANTS
    loop1 = loop1  cmd1 = cmd1  s1 = s1  s2 = s2
    Ask = Ask
    None = None
    Loops = {loop1}
    Commands = {cmd1}
    Signatures = {s1, s2}
    Earlier <- MCEarlier
    Raws = {7200, 8000}
    Floor = 8500
    MaxPatterns = 1
    StoreFaults = {"load", "save"}
    MaxRecordings = 3
SYMMETRY EitherWay
CHECK_DEADLOCK FALSE
INVARIANTS LibraryHonest LiftIsEarned
PROPERTIES LibraryKept
