SPECIFICATION SdkSpec
CONSTANTS
    c1 = c1
    c2 = c2
    c3 = c3
    h1 = h1
    h2 = h2
    Calls = {c1, c2, c3}
    Hashes = {h1, h2}
    HashOf <- MCHashOf
    NoCall = NoCall
    MaxAnswers = 2
    Tasks = {t1, t2, t3}
    NoTask = NoTask
    MaxNonce = 2
    MaxRecords = 4
    QueueSize = 3
    BatchSize = 2
    MaxOffers = 5
    MaxCancels = 2
CHECK_DEADLOCK FALSE
INVARIANTS
    NoReplay
    AnswerIsOwn
    NoncesAreTrue
    EvidenceIsTrue
PROPERTIES
    WhatBeginsEnds
