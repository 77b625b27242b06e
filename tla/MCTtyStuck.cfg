SPECIFICATION FairSpec
CONSTANTS
    Users = {1, 2}
    IBUFLEN = 3
    OBUFLEN = 5
    OBMINSP = 2
    EBUFLEN = 4
    MaxChars = 3
    Prompt = TRUE
    MaxTyped = 7
    Roomy = TRUE
    Loads <- OnlyLongText
PROPERTIES
    WritersFinish
CHECK_DEADLOCK FALSE
