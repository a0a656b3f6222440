\* a ping, a ripple that counts, a ripple that waits for its timer, a signal, with
\* replies to spare; the timed ripple's channel is the bottleneck
SPECIFICATION FairSpec
CONSTANTS
    ping = ping
    ripple = ripple
    survey = survey
    signal = signal
    r1 = r1
    r2 = r2
    r3 = r3
    r4 = r4
    r5 = r5
    r6 = r6
    r7 = r7
    r8 = r8
    Timeout = Timeout
    None = None
    Waves <- MCWaves
    BounceBacks <- MCKinds
    Count <- MCCount
    Reflections <- MCReplies
    Of <- MCOf
    Sessions <- MCSessions
    TimerCap = 1
INVARIANTS AnswerOwed RefusedOnlyLate RepliesKept OrphanedOnlyByLateReply
PROPERTY EventuallyAnswered
CHECK_DEADLOCK FALSE
