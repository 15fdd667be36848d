SPECIFICATION Spec
CONSTANTS
    Size = 112
    LABEL_LEN_MAX = 3
    DOMAIN_LEN_MAX = 16
    Ihls = {3, 5, 6}
    HeaderEnds = {41, 42, 43, 46, 47}
    Ends = {4, 5, 8, 9, 14}
    Bytes = {7, 255}
    Garbage = {0, 255}
    CHAR_MAX = 4
    COPY_LEN = 24
    Frames <- MCFrames
    Answers <- MCAnswers
INVARIANTS
    TypeOK
    UdpVerifies
    ReplyGoesBack
    AskedAsWritten
    AnswersTheQuestion
CHECK_DEADLOCK FALSE
