CONSTANTS
    Req = {r1, r2, r3, r4}
SPECIFICATION FairSpec
INVARIANTS
    AnswerOnce
    TimedWhilePending
PROPERTIES
    AnsweredOrStuck
CHECK_DEADLOCK FALSE
