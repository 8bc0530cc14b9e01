--------------------------- MODULE MC_ClientTask ---------------------------
EXTENDS ClientTask
CONSTANTS client, app, stream, timer_cb, step_cb, stream_cb, prop_cb

\* client_timer_callback and next_step_cb are pended under client_lock by
\* anybody; a stream's callback by the stream task only.
SafeCallbacks == {timer_cb, step_cb, stream_cb}
SafePenders == [c \in SafeCallbacks |-> IF c = stream_cb THEN {stream} ELSE {}]

\* prop_mgr_send_callback is pended from any task, without the lock.
RacyCallbacks == {timer_cb, prop_cb}
RacyPenders == [c \in RacyCallbacks |->
                    IF c = prop_cb THEN {client, app, stream} ELSE {}]

TwoDeadlines == {2, 4}
OneDeadline == {1}
=============================================================================
