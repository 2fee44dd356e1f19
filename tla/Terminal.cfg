CONSTANTS
    Keep = 1
    MaxPrompts = 1
    MaxMessages = 2
    MaxBreaks = 1
    MaxActs = 1
SPECIFICATION FairSpec
INVARIANTS ScreenTrue DialogCurrent ConsentIsOwn
PROPERTIES AnswersShown
CHECK_DEADLOCK FALSE
