CONSTANTS
    client = client  app = app  stream = stream
    timer_cb = timer_cb  step_cb = step_cb  stream_cb = stream_cb  prop_cb = prop_cb
    NoTask = NoTask  NoCb = NoCb
    Task = {client, app, stream}
    Client = client
    TimerCb = timer_cb
    Callback <- SafeCallbacks
    LockedPend = {timer_cb, step_cb}
    FreePenders <- SafePenders
    Timer = {tm1, tm2}
    Deadline <- TwoDeadlines
    QueueLen = 3
SPECIFICATION FairSpec
INVARIANTS TypeOK LockAsserts DispatchAssert NoCallbackLost NoOversleep
PROPERTIES ImplementsFifo EventuallyRun
