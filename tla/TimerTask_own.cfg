SPECIFICATION TaskSpec
CONSTANTS
    ta = ta
    tb = tb
    NoTimer = NoTimer
    Timer = {ta, tb}
    Shared = {}
    Wrap = 16
    Delay = {0, 1, 3, 5}
    MaxLate = 2
INVARIANTS ListedOnce NoOversleep
PROPERTIES FiresInOrder
