SPECIFICATION Spec
CONSTANTS
    QueueSize = 3
    TimerThreads = {t1, t2, t3}
    NoTimer = NoTimer
    Durations <- MCDurations
    Posted <- MCPosted
PROPERTY NoEarlyRelock
