\* Two captures that may overlap, hours of two minutes, days of two hours; the first three
\* minutes of a day, so that a second hour begins.
SPECIFICATION Spec
CONSTANTS
    t1 = t1
    c1 = c1
    c2 = c2
    Torrents = {t1}
    Captures = {c1, c2}
    Minute = 1
    Hour = 2
    Day = 4
    MinuteKeep = 3
    HourKeep = 5
    MaxTime = 6
    MaxRuns = 3
    MaxUpdates = 2
SYMMETRY Symmetric
INVARIANTS
    UpdatesExact
    RowsOnce
