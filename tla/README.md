# A verification development for the RTL8710BX smart plug

The repository is the firmware of a Wi-Fi smart plug: Realtek's SDK for the
RTL8710BX (FreeRTOS, lwIP, the Wi-Fi driver, mbedTLS) with Ayla's device agent
in `src/component/common/application/ayla/` and the plug's own application on
top of it. The TLA+ here models the part that is the program's own logic: how
tasks hand work to the client task, how timers are run, how a change of the
plug's state reaches the cloud and the phones on the local network, how the
device learns of commands and fetches them, how schedules are run, how new
firmware is put in place, and how the
configuration survives restarts. Below, paths are
relative to `src/component/common/application/ayla/`, and `libada/` stands for
`libayla/libada/`.

## The system

Every activity is a FreeRTOS task. The Ayla tasks have one priority, are
time-sliced at 1 kHz and preempt each other anywhere.

| part | code | state it keeps | operations |
|---|---|---|---|
| client task | `libada/al/ameba/client_task.c` | `client_mutex` with its stamps, `client_task_queue`, `client_timers` | lock, unlock, pend, timer set and cancel, idle loop |
| net callbacks, net timer task | `libayla/libnet/ameba/net_realtek.c` | `pending` of each callback, the queues, `net_timers` | enqueue, wait, timer set and cancel, loop |
| timer lists | `libayla/libayla/timer.c` | an ordered list, `time_ms` of each timer | set, cancel, advance, run, delta |
| property manager | `libada/prop_mgr.c` | send queue, `prop_mgr_sending`, `prop_mgr_dest_mask`, readiness | send, send next, send callback, connect status |
| simple properties | `libada/sprop.c` | `send_req` of each property, `ada_sprop_echos_pending`, destination mask | send, echo, send done, connect status, ready |
| client | `libada/client.c`, `client_prop.c` | `conn_state`, current request, destination masks, listen flag | next step, request ends, retry, up, down |
| LAN mode | `libada/lan.c` | sessions, each a destination | register, poll, post, remove |
| notifications | `libada/notify.c` | registration with the ANS server over UDP, two timers, period and its search | register, keep-alive, probe, search for a period, retry |
| schedules | `libada/sched.c`, `schedeval.c` | schedule table, run time, timer, what is not yet saved | evaluate, run, receive, set clock and timer |
| HTTP and TLS | `libada/al/ameba/http_client.c`, `libayla/libnet/ameba/ssl.c` | request, stream, buffers | start, send, receive, abort, retry |
| agent OTA, plug OTA | `libada/client_ota.c`, `ayla_demo/src/Ayla_demo_ota.c` | download offset, flags, image | notify, save, done, report |
| configuration store | `libayla/libayla/conf.c`, `arch/ameba/conf_flash.c` | two flash slots with generation ids | load, save, compress, reset |
| Wi-Fi manager | `libayla/libadw/` | profiles, join state, AP mode | scan, join, drop, timers |
| plug application | `ayla_demo/src/Ayla_demo_ledevb.c` | relay, LED, key state, work-mode flags | key click and hold, set from the cloud, produce mode |

How they interact:

* Anything that must happen on the client task is a `struct net_callback`
  pended on `client_task_queue`. `client_idle()` dequeues, takes `client_lock`,
  clears `pending` and calls the handler with the lock held.
* Client timers are set with `client_lock` held and run by `client_idle()`; a
  set also pends an empty callback so that the wait is computed again. Wi-Fi
  timers are on a second list with its own task and lock.
* A property update goes `ada_sprop_send()` -> `prop_mgr_send_queue` ->
  `prop_mgr_send_next()` on the client task -> `client_send_callback_set()` ->
  one POST per destination -> `client_prop_send_done()` for each destination
  that ends -> `prop_mgr_send_cb()` -> `ada_sprop_mgr_send_done()`.
* Connectivity changes are told to the property managers by one callback in the
  client's high-priority queue, which drops the lock meanwhile.
* The notifier (ANS) tells the client by events of which only the last counts:
  one callback is pended, and reads the notifier's state when it runs. The
  client starts and stops the notifier, fetches commands when told, and polls
  while it is not counting on it.
* Commands carry property sets, schedules and updates. The agent's download
  hands each packet to the plug's handlers, which find the image of the other
  partition in it, write it and sign it; the agent reports and the plug resets.
* A property set from outside is echoed back. Until the echoes that were missed
  while ADS was away have gone out, the client does not listen for new commands.

* Configuration variables are saved by `conf_persist()` and `conf_save()`, which
  call the component's export function; that puts one item at a time into the
  current flash slot. A factory reset copies the factory items to the other slot.

What is hard: shared state used without its lock (`pending`, the echo count,
timers being run); state read before the lock is dropped and used after;
events that collapse into one pending flag; ends of requests that come in any
order, for destinations that come and go; 32-bit times that wrap around; a
queue with fewer places than callbacks; a datagram that is lost, late or comes
twice; a clock that is set back and forth; and restarts between two writes to
flash. PROJECT.json lists each hazard at its
line with the properties that watch over it.

What makes each component correct:

* client task: the lock's assertions hold; a pended callback is run once, in
  order, and never lost; the task does not sleep past a timer.
* timers: an active timer is on the list once; the first is the next to expire;
  they fire in order and not early.
* property updates: each has one owner and one end; the client waits only for
  destinations that can still answer; the one being sent always ends, and so
  the others get their turn.
* echoes: they are counted exactly, a deferred one is sent once ADS is there,
  and the client then listens again.
* notifier: while the client counts on it, it is registered or on its way to be,
  and an outage is noticed; the keep-alives are frequent enough for the NAT.
* client of the service: it is told of commands or polls, is identified or asks
  to be, goes on after every error, and fetches each command in the end.
* schedules: no event is missed or run twice, the actions of a run are in order,
  and what was received is kept.
* updates: agent and plug agree on the position in the file, only a whole image
  is signed, the device resets only into it, and an update ends.
* configuration store: after a restart at any point each variable has its last
  value, or the one before if it was just being saved; the tree in RAM agrees
  with flash; only erased flash is written; a factory reset brings back the
  last factory value.

## Plan

1. `CallbackFifo`, `ClientTask` and the proofs about it. Done.
2. `TimerList`, `TimerTask` and the proofs about them. Done.
3. `PropSend`: properties, client cycle, LAN destinations, and the proofs about
   who owns an update, that its send can end, and that the client listens and
   leaves no echo when it is at rest. Done.
4. `ConfStore`: the two flash slots, with a restart between any two writes.
   Done for one caller and leaves of the tree of names; to come: an abstract
   store it implements, deletion of subtrees, two callers at once. The proofs
   about it: done.
5. `NotifySpec`, `Notify`: ANS over a network that loses messages, and what it
   promises, and the proofs about them. Done.
6. `AdsClient`: identification, ping, GET of commands, errors, polling, over
   `NotifySpec`, and the proofs about its safety. Done; to come: registration and
   the PUTs of device information and of the LAN address.
7. `SchedEval`, `Sched`: the next event of a schedule as an operator, and the
   runs of the schedules, and the proofs about both. Done for UTC; to come: local
   time with its changes in spring and autumn, `end_time_each_day`; to prove: what
   schedules with intervals `sched_evaluate()` is right about.
8. `Ota`: the agent's download and the plug's handlers, and the proofs about
   their safety. Done for the service's own server; to come: updates over the LAN
   and from a redirected URL.
9. `PlugSwitch`: key, cloud and LED tasks around the relay, with values; the
   Wi-Fi join machine.

## Modules

**`CallbackFifo`** is what a caller of `client_callback_pend()` relies on: a list
of callbacks, each once, served in order.

**`ClientTask`** is the lock, the queue and the timers of the client task. Tasks
interleave between the shared accesses of `client_lock_int()` (take, stamp),
`client_unlock_int()` (clear, give) and `net_callback_enqueue()` (test, set,
send); `pc[t]` says where a task is. `at` and `ac` are the position and the local
variable of `client_idle()`. An assertion that guards a transition in the code
is a guard here and, where it can fail, a property. `xQueueSendFromISR()` drops
what does not fit. A handler is any sequence of calls, so the model says
nothing about what handlers do. `MayPend` is the discipline of the callers: a
callback in `LockedPend` is pended with the lock (`client_wakeup()` and
`client_timer_set()` assert it), the others by the tasks in `FreePenders`.
Timer expiries are ordered values: when a wait ends is the environment's choice.

**`TimerList`** is `timer.c` with times modulo `Wrap` (2^32 in the code, 16 in the
runs). `due` is a ghost: the requested expiry relative to now, without
wrap-around. `timer_set()` is one step, which is right where its callers hold
the list's lock. `MaxLate` bounds how late the owner of the list may be.

**`TimerTask`** extends it with the two tasks that run timers; `loop` says which.
The client task (`Advance`) runs timers with `client_lock`, which whoever sets
one holds, and a set ends its wait. The net timer task (`Take`, `RunNext`,
`RunTime`) has given the lock before `timer_run()`, whose two writes are steps
of their own; `Shared` are the timers that other tasks set. `UpTo` is what
`next = NULL` does to a list the timer is on again: it ends at that timer. After such a damage the list
in the code may share or lose nodes; the model keeps it a sequence, so the run
with `Shared # {}` asks only for the first damage. `vTaskResume()` is not
modelled: it has no effect on a task that waits for a queue.

**`PropSend`** follows an update from `sprop_send_opt()` to
`ada_sprop_mgr_send_done()`. Actions are named after the code: `Send`, `Opt`,
`Enq`, `Load`, `Store` are `sprop_send_opt()` and `ada_prop_mgr_enqueue()`
(`echos_pending++` is a load and a store); `Done`, `Dec`, `SendEcho`, `Echoed`,
`FreeProp` are `ada_sprop_mgr_send_done()`; `Loop` and `CallbackSet` are
`prop_mgr_send_next()` around the point where it drops the lock; `Next...` are
`client_next_step()`; `Sts` to `StsEnd` are `prop_mgr_connect_sts()`, which runs
without the lock; `PostOk`, `ReqOk`, `Again`, `ReqError`, `AdsLost` are how a request ends in
`client_err_cb()` and the receive functions; `Lan...` are the LAN sessions. `Outcome`
selects the ways requests may end in an instance: `closed` (connection closed
while idle), `timeout`, `s4xx` and `s5xx` (HTTP status; `s5xx` also stands for a
timeout while a LAN echo is in progress, which is not an overflow), `conn` (any
error that retries), `down` (the Wi-Fi task), `lan` and `lan_clear`.

Abstractions of `PropSend`: values; GET of a property (no caller in the plug);
file datapoints; the agent's own echo of received properties to LAN clients; the
schedule's property manager, which has no `connect_status` and is always ready;
the order of pended callbacks (any order here, FIFO in `ClientTask`); the order
of the client's own requests (`NextReq`); `client_server_reset()` of `oem.c`.
Memory is the set `Prop`: `malloc()` fails when it is used up.

**`ConfStore`** is `conf.c` on its flash. A slot is a head (a generation id, or
none) and a sequence of items; an offset counts items. `ConfPut` is
`conf_put()` and `conf_delete()` up to `conf_check_fit()`; `Skip`, `PutValue` and
`PutName` are `conf_put_name_val()`, split between the write of the value and
that of the name; `Copy`, `CopyHead`, `EraseHead` and `EraseRest` are
`conf_compress()`, split between copied items, the head and the sectors of the
erase (the first sector holds the head). A write that a restart tears reads
back as a value without a name or as an item with a wrong CRC, both `Orphan`.
`Restart` forgets what is in RAM. Erasing the slot that is not current, when a
configuration is loaded, is part of `Load`: a restart within it leaves what a
restart within `EraseRest` leaves. `cached` is whether `conf_tree` exists: a slot
loaded with no item in it leaves it NULL until the next start, and the code
then searches the slot instead. `Put` lists the items that callers save. The ghosts `may` and
`factory` are the values a restart and a factory reset may leave. A name is a
leaf; deleting a subtree is not modelled, nor is what `show_conf`, the ID file
and the migration of old formats do, which are not built in or do not write.

**`NotifySpec`** is what the agent may count on of the notifier: its state, the
event, its timer, and a lookup. One action for each call of the client and for
each thing the notifier does by itself, without messages, sockets and periods.

**`Notify`** is `notify.c`. A handler runs with `client_lock` and calls others in
the middle (an error in `np_send_keep_alive()` takes the notifier down before
`np_register()` goes on), so each handler is an operator on a record and an
action is one handler with everything it calls. `np` has the fields of
`notify_state`; `np.dns` is the pending lookup and the timers are flags, because
which of them expires first is for the network to say. `np.wire` holds the messages
that the requests sent so far may still bring and that would not be dropped:
they leave it when the number they must carry changes (`NextSequence`,
`NextProbeSeq`) or their socket is closed, and may come any number of times or
never. What passes the checks but does not decrypt is `RecvGarbage`. A probe that
was asked for arrives if the period is within `NatTimeout`, and others may
arrive from before. `Env` is what memory, sockets and the clock do to a
handler. The second half of the module is the client as far as it calls the
notifier (`ClientNotifyCb` to `ClientPoll`). `Notify` implements `NotifySpec`
(`Promise`).

**`AdsClient`** is the client of the service over `NotifySpec`: it extends that
module and does its steps together with the calls (`Stop`, `SetServer`, `Start`,
`EventGet`) and by themselves (`NotifierStep`). `c` has the fields of `client_state`
that decide what happens next; its queue holds a callback at most once. `NextStep` is `client_next_step()` with all its
levels: the current request, the queue of callbacks (`dev_id`, connectivity), the
table of steps, then polling. `Recv...` are the responses, `Fail` is
`client_err_cb()` with one disjunct of `Loses` or `NextRequest` for each way a
request may end, `AnsDown` and `NotifyCb` are `client_notify_cb()`, and `Commit` is
`client_commit()`. Left out: the requests of the other modules, which share the
table of steps; the contents of responses; and `client_server_reset()`.

**`SchedEval`** is `sched_evaluate()`: when a schedule has its next event, and
which of its actions are due. Days stand for what dates, months and weekdays
say, so a schedule is a set of days, a start, a duration, an interval and its
actions; `Big`, `Carryover`, `Little` and `DetermineRange` are the functions of
those names. `Ranges` and `Events` say what a schedule means, after the comments in
the code, and `EvaluatedRightly` that `sched_evaluate()` agrees at some time. With
`DayLen = 4` and three days there are 3456 schedules whose actions are at the start,
at start and end, or within and at the end; `sched_evaluate()` is wrong about 364 of
them, in three ways that the code has:

* The end of a schedule with neither duration nor interval, at midnight, is never
  due.
* On consecutive days, a range that lasts until the next one starts, or longer,
  loses its end: `check_carryover` is not reached while the range of today is not
  over.
* A range of an interval that runs past midnight into a day that is not chosen
  loses its end if another run lands in it.

`OnOffSchedule` names schedules with a duration and no interval whose ranges do not
touch; these are proved to be evaluated rightly, for days of any length. So are, by
TLC, the schedules with intervals in the runs.

**`Sched`** is `sched.c` around it. `Timeout` is `sched_timeout()`, which persists what
was received and starts `sched_run_all()` where the last run ended (`From`).
Its loop has a step for each schedule it looks at (`Look`), which pends the
actions that are due, each once, the later one last (`Pend`), and keeps the
earliest next event; `Again` is the jump to `run_schedules` while that is not in
the future, and `Finish` sets the timer and runs the actions. Other handlers
need `client_lock` and come between runs, a restart also within one; the clock
stands still in a run. `Recv` is `sched_prop_recv()`, `ClockSet` is
`client_clock_set()` as far as schedules see it. The time is in units of which a
day has `DayLen`, and may be set at will; the run time is in RAM only, as the
plug's `adap_sched_run_time_write()` has it, so that `Restart` loses it. `since`,
which says from when on a schedule's events are to be run, and `cause`, why the
timer expires, are for the properties.

**`Picks`** is what the loops of `PropSend` and `Sched` that drop some entries of a
list leave of it.

**`Ota`** composes the agent's side of an update (`a`, from `client_ota.c` and the
states of `client.c` that it uses) with the plug's (`p`, from
`Ayla_demo_ota.c`) and the flash `f` of the partition that does not run
(`rtl8710b_ota.c`). A byte is its position in the file, so a byte in the wrong
place, twice or missing is seen. The plug's part follows a packet: the first
ones are gathered in a buffer for the header (`ReadHeader`), those before the
image are counted off, then the signature is taken out and kept (`SaveFirst`,
`SaveSig`), the body written (`SaveBody`), and, at the end, verified and signed
(`Finish`). `Files` are good, with a wrong checksum, with a header that has no
image for this partition, for a module that is not there, and a command that is
incomplete. `Fault` are failed requests, failed writes and memory, Wi-Fi going
down and power cuts, `MaxFaults` of them. What a write to flash that is not
erased leaves, and bytes the code reads from before its buffer, are `Unknown`.

## Runs

| run | instance | shows |
|---|---|---|
| `client_live` | 3 tasks, 3 callbacks, 2 timers, fairness | `TypeOK`, `LockAsserts`, `DispatchAssert`, `NoCallbackLost`, `NoOversleep`, `ImplementsFifo`, `EventuallyRun` |
| `prop_echo` | only the client task sends, no 5xx, fairness | `EchoCount`, `ListenResumes`, `EchoResent`, `SendEnds` |
| `prop_lan` | client, application and Wi-Fi task, ADS and a LAN session that is removed or cleared out | `OneOwner`, `SendKept` |
| `timers` | 2 timers, both tasks, delays up to 5 of 16 | `ListedOnce`, `NoOversleep`, `FiresInOrder` |
| `conf` | 2 names, 2 values, 4 items in a slot | `ConfTypeOK`, `Durable`, `CacheAgrees`, `WritesErased` |
| `notify` | one server, a NAT between two periods of the search, three faults, fairness | `CountsOnLive`, `KeepAliveFits`, `SearchGoesOn`, `Promise`, `OutageNoticed` |
| `ads` | six errors, commits, Wi-Fi | `ToldOrPolls`, `AsksWho`, `RetriesForever`, `OnlyCommitBlocks` |
| `ads_live` | errors of status, fairness | `CommandFetched` |
| `sched` | 2 schedules, 3 days, clock set, restarts | `SchedTypeOK`, `Armed`, `Kept`, `NoEventMissed`, `Chronological`, `OnlyNew` |
| `ota` | 2 images, packets of 1 to 5 bytes, 3 commands, 2 faults, fairness | `InStep`, `SignedIsWhole`, `ResetsIntoImage`, `OtaEnds` |
| `ota_refused` | as many faults as retries | violates `OtaEnds` |
| `sched_again` | the clock set twice after the last event | violates `NotAgain` |

The two runs that expect a violation are the findings of PROJECT.json; each
contradicts a sentence of the repository that is quoted there.

### Conditions of the passing runs

The passing runs state conditions the code does not enforce, and changing one
constant shows why they are needed:

* `client_live` with `QueueLen = 2` breaks `NoCallbackLost`: a full queue drops the
  callback and leaves its flag set.
* `prop_echo` with `App = {app}`, an echo sent by an application task, breaks
  `EchoCount` (`echos_pending++` is not atomic and comes after the send) and
  `EchoResent` (a destination mask read before the connection came up).
* `timers` with `Delay = {1, 9}` breaks `NoOversleep`: a timer of the maximum
  delay looks earlier than one that is late, and is put before it.
* `conf` with `GoesOn = TRUE`, as `key_thread()` does, breaks `Durable`: names
  dropped by the reset keep offsets of the erased slot in `conf_tree`, and a
  value can be taken to be stored already.
* `conf` with a factory item and a deletion of one name breaks `Durable`: without
  `conf_tree`, a compression keeps the factory item, drops the deletion, and the
  value is back.
* `notify` with `"alloc"` in `Faults` breaks `Promise` and `CountsOnLive`: when there is
  no memory for a keep-alive, `np_send_keep_alive()` returns without setting the
  timer, and the notifier is up and silent for ever.
* `ota` with `"incomplete"` in `Files` breaks `OtaEnds`: the update is in progress
  with no server to fetch from, and every later one is refused.

### Disagreements no run lists

Each shows in a run of its module with the constants named:

* `ClientTask` with `Callback <- RacyCallbacks`, `FreePenders <- RacyPenders` and
  `LockedPend = {timer_cb}` breaks `DispatchAssert`: `prop_mgr_send_callback` is
  pended by three tasks without the lock, and the flag is tested and set in two
  steps (net_realtek.c:180), while client_task.c:240 says "This may be called from
  any thread, and doesn't need to hold client_lock."
* `prop_echo` with `"s5xx"` in `Outcome` breaks `ListenResumes` and `EchoResent`: an echo
  that fails with a 5xx is not the last of the sequence for anyone.
* `prop_echo` with `lan` in `Dest` and `"lan"` in `Outcome` breaks both too. An echo that
  ADS refuses with a 4xx and a LAN session then takes ends as if the connection was
  lost, because the status is that of the last of the two
  (client_prop.c:230); so does one for which ADS is lost and back before the session
  answers. It is left for later while ADS is connected, and nothing comes later.
* `PropSend` with a LAN session that is cleared out breaks `SendCanEnd`
  (lan.c:1561): an update outstanding for it is never told that it ended.
* `TimerTask` with `Shared = {ta}` breaks `IdleMeansEmpty`: `timer_run()` writes to a
  timer that another task has listed again.
* `ConfStore` with `Put <- OverriddenPuts` and `Size = 3` breaks `ResetRestores`: a
  factory item under a normal one is dropped by compression.

Reading the code for the models brought these up as well; no run shows them:

* Updates. `ayla_size` and `is_get_ota_hdr` keep their values after a checksum
  failure, so every later update until a restart fails too. A first packet that
  is shorter than the header, followed by one that is longer than its buffer,
  skips the header; a stale `hdr_count` makes a negative length. A PUT of
  `/lanota.json` during an update from the cloud cleans up the state under the GET.
* Client. `client_commit()` with the client enabled reaches an assertion in
  `http_client_start()`, its callback having been cleared; disabled, in the
  middle of a GET, it leaves `get_echo_inprog` set. In `CS_ERR` the GET of the
  device ID is dropped, where client.c:3407 says "Otherwise, retry forever."
  `client_notify_if_partial()` has no caller. The branch for `CS_WAIT_CONN` in
  `client_err_cb()` cannot be taken.
* Notifier. Events read after a change report the newer state: a notification
  while it retries is reported as ANS being down. `DNS_PASS` is dropped if
  `np_started` is still set, and then nobody starts it.
* Schedules. An event between the last run and the reception of a schedule is
  run after the fact. `sched_action_pend()` copies overlapping memory with
  `memcpy()`.

### Bounds

Races in `ClientTask` need two tasks in `net_callback_enqueue()` and the
client task between dequeue and dispatch, so three tasks are enough, and its
properties are also proved for all. `PropSend` has one property and two
structs: enough for one update being sent and one queued, and for two echoes of
the same property at once. `MaxEchos` bounds the count where it can drift: 1 in
`prop_lan`, where the application does not wait for the count, 3 in `prop_echo`;
with two structs the exact count never exceeds 2, so there
the guard cuts off nothing when the count is right. `Wrap = 16` puts both the
wrap-around and zero in reach of every delay, and starts the clock anywhere.
`MaxLate = 2` lets a timer be late when another is set. In `ConfStore` four items
let a slot hold all that is live and one more, so that compression happens with
every mixture of live, overridden, deleted and torn items; `GenMod = 4` makes the
generation id wrap.

`Notify` has one server: a second one only adds a new name, which `moved` and a
lookup already cover. The search goes over 24, 30 and 36 seconds around a NAT of
28, so it has to go down as well as up; one retry (`MaxTry`) and one error
(`ErrLimit = 0`) separate the first, a middle and the last of each; a check of
reachability follows each keep-alive. A socket that cannot be opened (`"open"` in
`Faults`) stops the device at the first send through it (`np.crash`); the five
properties hold with it too, and the run leaves it out because it only takes
longer. In `AdsClient` the retries of a connection
do not count, and two failed authentications (`MaxAuth`) separate one from the
last. `Sched` has days of six units and three of them, so that durations and
intervals run past midnight into days that are chosen and not; `MaxTime`
is beyond the last event, and the timer's range of 8 makes a delay that does not
fit. The clock is set to two times, before and after events. `Ota` has two images
of four bytes, two of them the signature, at two places in a file of nine, and
packets of up to five bytes, so that each boundary (header, image, signature,
end, chunk) falls at the start, within and at the end of a packet; three
commands let a third one meet what two failures left.

`CHECK_DEADLOCK FALSE` stands in the runs of `PropSend`, `Notify`, `AdsClient`,
`Sched` and `Ota`: with nothing to send, no command and no time left the system
rests, and the properties say what must not be waiting then.

The type invariants of `PropSend`, `TimerTask`, `Notify`, `AdsClient` and `Ota`
(`TypeOK`, `TaskTypeOK`, `OtaTypeOK`) are stated for the reader and hold in these
instances too; the runs spend their time on the properties above.

### Fairness

In `ClientTask` a task inside a call goes on (weak fairness), a handler
ends (`Unlock`, `Idle`), and the client task gets the mutex (strong fairness of
`LockTake`: FreeRTOS hands a mutex to waiting tasks of a priority in order, and
every holder gives it back). In `PropSend` the
steps of a running task are weakly fair. What shares the client task with other
work is strongly fair: callbacks are queued in order, `client_cmd_step()`
alternates POST and GET with `prefer_get`, and the connectivity callback is in the
first queue that `client_next_step()` looks at. Requests end because the request
timer ends them.

In `Notify` timers expire, the client's callback is run and a lookup ends; the
network owes nothing. In `AdsClient` the same holds of the client's steps, timers
and callbacks, and of a ping; responses to the GETs are strongly fair, so that one
which is asked for again and again is given (`CommandFetched` is about what
follows once errors have stopped). The notifier's part rests on `Notify`: a
registration ends because its timer counts retries, a change is asked for
because its timer expires, and someone who is registered hears of a command or,
by `OutageNoticed`, that ANS is lost. In `Ota` the client task goes on, timers
expire, Wi-Fi comes back, and a request that does not fail is answered.

## Proofs

`ClientTask_proofs` proves, for any tasks, callbacks, timers and queue length,
with the named assumptions of `ClientTask`:

* `TypeCorrect`: `Spec => []TypeOK`
* `LockAssertsHold`: `Spec => []LockAsserts`
* `DispatchAssertHolds`: if `AllDisciplined`, `Spec => []DispatchAssert`
* `NoCallbackIsLost`: if also `RoomForAll`, `Spec => []NoCallbackLost`
* `NeverOversleeps`: same conditions, `Spec => []NoOversleep`
* `RefinesFifo`: same conditions, `Spec => Fifo!Safety`

`AllDisciplined` says that each callback is pended only with the lock or only by
one task, and `RoomForAll` that the queue has a place for every callback. The
first is what the code does not keep for `prop_mgr_send_callback` (see above), the
second what fails with a short queue: the theorems say precisely what would be enough.

The inductive invariant is `Typed /\ LockInv /\ IdleInv /\ SendInv /\ FlagInv`.
`LockInv` ties the stamps to the mutex at every point of lock and unlock, and
gives `LockAsserts`. `IdleInv` ties `at` to `pc` of the client task. `SendInv` is the
discipline carried through the call: a task that is enqueueing a locked
callback owns the lock, and between test and set the flag is still clear. It is
needed because the flag is tested and set in two steps: without it two tasks
could be past the test. `FlagInv` says a callback on its way has its flag set
and is in one place only (queue, `ac`, or one sender). From it follow
`DispatchAssert` and, by a pigeonhole argument over the queue (`MissingMember`), that a
send finds room. The proofs take the conjuncts one lemma each, since each is
preserved given the earlier ones.

`Notify_proofs` proves, for any periods, limits, faults and NAT:

* `TypeCorrect`: `Spec => []TypeOK`
* `SearchGoesOnHolds`: `Spec => []SearchGoesOn`
* `KeepAliveFitsHolds`: `Spec => []KeepAliveFits`
* `CountsOnLiveHolds`: if `"alloc" \notin Faults`, `Spec => []CountsOnLive`
* `PromiseHolds`: if `"alloc" \notin Faults`, `Spec => Promise`: each step of
  `notify.c` is a step of `NotifySpec` or a stutter

The hypothesis is what the run shows to be needed: without memory for a
keep-alive the code leaves the notifier up without its timer. The inductive
invariant is `TypeOK /\ Quiet /\ Searches /\ Tuned`. `Quiet` says that a notifier
that is down expects no message; `Searches` that a search has its timer.
`Tuned` is why the search for a period ends at one that the NAT allows: what
may still arrive for a probe was asked for after the period that is being tried,
so an answer to an earlier, shorter one is never taken for it. It speaks of
every state of registration, since a probe that is under way may meet a
registration, a retry or the server's change in any of them. The lemmas follow
the handlers: what each does to the record (`DownFact`, `SendOnFact`) first, then
that it keeps each conjunct.

`AdsClient_proofs` proves, for any errors, any commits, any poll interval and any
limit of failed authentications, with no other hypothesis:

* `TypeCorrect`: `Spec => []TypeOK`
* `ToldOrPollsHolds`: `Spec => []ToldOrPolls`
* `AsksWhoHolds`: `Spec => []AsksWho`
* `RetriesForeverHolds`: `Spec => []RetriesForever`
* `OnlyCommitBlocksHolds`: `Spec => OnlyCommitBlocks`

Its inductive invariant is `TypeOK /\ Sound(c) /\ Told(c, event)`. `Sound` says which
current request goes with which state, and that each state has what ends it: a
request timer in `CS_WAIT_RETRY`, a pended step in `CS_WAIT_EVENT` with a request
of its own. `AsksWho` needs it because `client_err_cb()` decides by the state
which request is lost. One lemma per function of `client.c` shows that it
returns a record that is `Good`, so that the proof of an action is the
composition of its calls.

`TimerTask_proofs` proves, for any timers, any even width of the clock from 4 on
and any delays, with `Near` where times matter:

* `TypeCorrect`: `TaskSpec => []TaskTypeOK`
* `ListedOnceHolds`: `TaskSpec /\ Private => []ListedOnce`
* `NoOversleepHolds`: if `Near`, `TaskSpec /\ Private => []NoOversleep`
* `FiresInOrderHolds`: if `Near`, `TaskSpec /\ Private => FiresInOrder`
* `IdleMeansEmptyHolds`: if `Near`, `TaskSpec /\ Private => []IdleMeansEmpty`

`Private` says of the initial state that the task is the client's, whose timers
are set with the lock it holds while it runs them, or that no other task sets the
timers of the net task: what the code does for Wi-Fi timers is outside it (see
above). `Near` is that every delay asked for, and the lateness of the task on top
of it, is less than half the clock, which is 24 days in the code; the run with
`Delay = {1, 9}` shows that it is needed. The invariant of the list, `Listed`, is
inductive with `TakenOff`: the timer whose `time_ms` is about to be cleared is
already off the list. That of the times has a witness: an offset for each timer,
the difference of its `time_ms` and the clock without wrap-around, which is the
delay asked for or, zero being skipped, a millisecond less. The list is sorted by
it, and `ClockGtFact` shows that `clock_gt()` compares as it does.

`ConfStore_proofs` proves, for any names, values, items, size of a slot and number
of generation ids:

* `TypeCorrect`: if `Room` and `~GoesOn`, `Spec => []ConfTypeOK`
* `WritesErasedHolds`: same conditions, `Spec => []WritesErased`
* `CacheAgreesHolds`: same conditions, `Spec => []CacheAgrees`
* `DurableHolds`: if also `NoMix`, `Spec => []Durable`

`Room` says that a slot has place for one live item of each name and kind that is
saved, and for one more: nothing in the code checks it, and without it the new
value is lost. `~GoesOn` says that a factory reset ends in a restart; `NoMix`, that
no name is both given factory items and deleted. TLC finds `Durable` broken
without the last two (see above).

The inductive invariant is `Inv`, for `Durable` with `Sound`. Between calls the
tree is that of the current slot (`Settled`), and during `conf_put_name_val()` that
of the slot with the item it writes (`Putting`). The work is in `Copying`: when
`conf_compress()` is half way, the tree has places of both slots, and it is the
tree that tells whether an item is to be copied. `Copied` says what the other slot
then has: only items that are to be kept (`Keeps`, which depends on the old slot
alone), one of each name and kind, and all that came so far; the tree has the
places in the other slot for the names it has there and those in the old slot for
the rest. So the tree tells the same as a search would (`KeptFact`), the copy fits
(`CopyFits`, an injection into the names and kinds), and at its end the other slot
has the values of the old one (`CopyValue`), or after a factory reset those of the
factory items (`CopyFacts`). `Sound` says that what a restart would read at each
point, one slot or the other, are values that the names may have.

`Ota_proofs` proves, for any file, places and lengths of the images and of the
signature, sizes of packets, numbers of retries and of faults:

* `TypeCorrect`: `Spec => []OtaTypeOK`
* `InStepHolds`: `Spec => []InStep`
* `SignedIsWholeHolds`: `Spec => []SignedIsWhole`
* `ResetsIntoImageHolds`: `Spec => ResetsIntoImage`

They assume only `OtaAssumption`: the images fit in the file and are longer than
their signature. The inductive invariant is `Inv`. Its part for the plug,
`PlugInv`, looks at an image as its `ImgLen` cells in the order of the file, the
signature in RAM and the body in flash. While the image comes, either every cell
that was written has its byte and the next packet is the one that follows or an
earlier one (`InPlace`), or the image is `Spoiled`: a cell has a byte that is not
of the image, or the byte of another cell. An update that was given up, after which
the file is sent again from its start to a plug that still counts what it wrote,
spoils the image with the first byte it appends (`Earlier`, `Repeated`), and so
does one whose first sizes are left over (`HeaderFact`); what is spoiled stays so
(`SpoiledStays`). A spoiled image does not verify: there are as many cells as
bytes, so one that comes twice leaves another out (`NotSpoiled`, by the
cardinality of a surjection). This is where the checksum is taken to tell which
bytes there are. The agent's part, `OtaInv` and `ConnInv`, says which request may
be under way in which state of the update, and `DoneFails` that an image which was
received and not signed has made the update fail, which `Keeps` carries through
every handler.

`PropSend_proofs` proves, for any tasks, properties, heap, destinations and ends of
requests:

* `TypeCorrect`: `Spec => []TypeOK`
* `OneOwnerHolds`: `Spec => []OneOwner`
* `SendKeptHolds`: `Spec => SendKept`
* `SendCanEndHolds`: if `"lan_clear"` is not in `Outcome`,
  `Spec => [](SendMatched /\ SendCanEnd)`
* `EchoCountHolds`: if `OneSender`, `Spec => []EchoCount`
* `ListenResumesHolds`: if `OneSender` and `CloudOnly`, `Spec => []ListenResumes`
* `EchoResentHolds`: if `OneSender`, `CloudOnly` and `EchoesOnly`, `Spec => []EchoResent`

Besides what is named they assume only `PropTaskAssumption` and `PropDataAssumption`. The inductive
invariant `Inv` adds four parts to the types. `JobsAgree` ties what a task has
in its hands to where it is in the code, through the echo that `send_done` sends
before it frees its own prop. `SendAgrees` ties `prop_mgr_sending` to
`prop_send_cb`: they differ only between the choice of an update and
`client_send_callback_set()`, where the lock is dropped. `LostAgrees` says that
what `prop_mgr_send_queue_check()` took off the queue is failed before it is
called again. The last part is a function `place` from props to places, of which
each prop has one. `OneOwner` counts places; the invariant names them, so that a
step is shown to move one prop (`ToNew`, `ToSend`, `ToSending`, `SentToDone`,
`LostToDone`, `ToHeap`) or a part of the queue (`ToLost`), and the counts follow
once (`TimesFact`, `HoldersFact`). `SendKept` follows from `SendAgrees` and
`Waits`, what there is to say of the destinations. `LostCheck` lists what it picks
by places (`Picked`), since the prover has no definition of `SelectSeq`; so does
`Pend` of `Sched`.

`OneSender` says that only the client task sends and no `ada_client_down()` ends a
send; without it two tasks race on the load and the store of
`ada_sprop_echos_pending`. Its invariant `CountInv` says where the client task
makes the count differ from the echoes that are queued, being sent or being
reported: one short from the queueing of an echo to the store, one too many from
the end of its send to `Dec`, which has the right value to write.

`CloudOnly` is that there is no LAN session and no server error, `EchoesOnly` that
every property is echoed and there is room for two updates. `ResumeInv` adds to
`CountInv` what is still to happen. `OnlyAds` says that every update is for ADS, and
that the one being sent waits for nothing else. `StsRuns` says that
`prop_mgr_connect_sts()` and all it calls end before the destinations change
again. `Sees` says that sprop knows the destinations unless a change is on its
way (`Told`), and that an echo only fails for the connection when ADS is gone or
such a change is on its way. Then `GoesOn` names who is to declare sprop ready
while it is not: the callback, the echoes that are counted, the one that ends,
or the change; and who goes on to listen once it is. At rest there is none of
these, since the count is zero (`QuietFact`), which is where `CountInv` is needed.
`Resends` does the same for an echo that was left: with the heap full another one
is counted (`FullHeap`). Without any one of the hypotheses TLC finds a violation:
`App = {wifi}`, `"down"`, `"lan"` or `"s5xx"` in `Outcome` for both; one struct, or a
property that is not echoed, for `EchoResent`.

`Sched_proofs` proves, for any number of schedules, days and lengths of them:

* `OnOffEvaluated`: if `OnOffSchedule(s)`, `EvaluatedRightly(s, t)` at every time `t`
* `OnOffScheds`: if that is so of all `Values`, `Evaluated`
* `SchedTypeCorrect`: `Spec => []SchedTypeOK`
* `KeptHolds`: `Spec => []Kept`
* `ArmedHolds`: if `Evaluated`, `Spec => []Armed`
* `NoEventMissedHolds`, `ChronologicalHolds`, `OnlyNewHolds`: if `Evaluated`,
  `Spec => NoEventMissed`, `Spec => Chronological` and `Spec => OnlyNew`
* `OnOffRuns`: the four for schedules that are all `OnOffSchedule`

They assume `DayAssumption` and `SchedAssumption`. `Evaluated` is that
`sched_evaluate()` is right about each schedule at each time: it separates what the
runs do with its answers from what the answers are, and TLC finds it true of
the schedules in `MC_Sched`, two of which have intervals. For on-off schedules it
is proved: `DetermineRange` finds the first range that is not over (`IsFirst`),
through the search from the day of `t` on (`NextBigFact`) and the range that
began the day before (`CarryoverFact`); a range is on one day or reaches into a
day that is not chosen (`LastsFact`), and the events are the ends of the ranges.

The inductive invariant is `Base`, which needs no assumption on the schedules, and
`RunInv`. `Base` has the types, `Kept`, and that in a run the timer is off, what
is stored is up to date, and the time evaluated is not in the future. In `RunInv`,
`Fresh` says that no run starts later than the first second that has not been
run; `Listed` that what is pending was due in this run, in order and once;
`Covered` that the events the run has come to are pending, or a later one of the
same action is; `Ahead` that those it has not come to are not before the earliest
one; and `TimerIsNew` that a timer for an event expires after the last run. Both
go through the middle of a round, where some schedules have been looked at
(`Seen`) and others have not, and from any schedule on. `NoEventMissed` is then
`Covered` and `Ahead` at the end of a run; `Chronological` needs also that the
pending time of an action is its last event (`LastEventFact`).

Only model-checked:

* All liveness (`EventuallyRun`, `SendEnds`, `OutageNoticed`, `CommandFetched`,
  `OtaEnds`, the fairness part of `ImplementsFifo`), which the prover does not reach.

## Not modelled

FreeRTOS, lwIP, mbedTLS, the Wi-Fi driver and the SDK's other applications are
vendored and appear only through how the code above uses them (a mutex, a
queue, a tick). Cryptography, XML and JSON parsing, HTTP framing and flash drivers are data
transformations or I/O. The mDNS responder and `client_lan_sync_*` are not
started or called. The rest of the table above that has no module is in the plan.
