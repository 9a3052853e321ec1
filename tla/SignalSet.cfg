\* Two contexts with a set each, two signals, and a fork while only one context is left.
CONSTANTS
    s1 = s1  s2 = s2  a = a  b = b  none = none
    Services = {s1, s2}
    Sets = {a, b}
    SetOwner <- OneEach
    NoService = none
    Signals = {1, 2}
    Wanted <- ShareOne
    MaxWaits = 2
    MaxRaises = 2
    MaxPipe = 1
    MaxForks = 1
    SignalUses = {}
SPECIFICATION SignalSpec
INVARIANTS SignalsAccounted PipeWatched NoCircularWait
CHECK_DEADLOCK FALSE
