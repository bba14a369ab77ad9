SPECIFICATION LiveSpec
CONSTANTS
    Pfns = {p1}
    Sqs = {s1, s2}
    Queues = {q1, q2, q3}
    Ios = {i1, i2, i3}
    Reqs = {r1, r2}
    PipeLen = 1
    Vflr = FALSE
    NoQueue = NoQueue
    NoReq = NoReq
    NoPfn = NoPfn
    NoSq = NoSq
    p1 = p1
    s1 = s1
    s2 = s2
    q1 = q1
    q2 = q2
    q3 = q3
    i1 = i1
    i2 = i2
    i3 = i3
    r1 = r1
    r2 = r2
INVARIANTS TableExact NothingLost
PROPERTIES NotifiedAtLast QuietWhenComplete NotificationArrives
CHECK_DEADLOCK FALSE
