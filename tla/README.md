# A TLA+ model of python-onvif-zeep-async

The library talks SOAP to network cameras. Its difficult part is not SOAP: it is
a renewal loop that keeps an event subscription alive on a device that reboots,
drops connections, hands out short leases and gets its own clock wrong, and a
registry of services that several coroutines rebuild at the same time without a
lock. Around the two lie smaller parts with hazards of their own: two layers of
retry over a pool of connections, caches that all cameras share, the address of a
snapshot, times beyond midnight. All of that is modelled here, checked with TLC on
small instances and, for the properties that matter most, proved with TLAPS for
every instance.

Paths are relative to `src/onvif/` unless they say otherwise.

## 1. Inventory

| Part | State it keeps | Operations | Here |
|---|---|---|---|
| Subscription managers, `managers.py` | `_subscription`, `_service`, `_shutdown`, the timer handle, the background task | `start` `pause` `resume` `stop` `shutdown`, timer callback, task body | `RenewalLoop`, `SubscriptionManager`, `RenewalTiming` |
| Service registry, `client.py` 537-769, 853-858, 963-1066 | `services`, `xaddrs`, `dt_diff`, `_capabilities` | `create_onvif_service` `update_xaddrs` `get_capabilities` `_adjust_time` `close` | `CameraServices` |
| Termination times, `client.py` 771-828 | `_has_broken_relative_timestamps` | `has_broken_relative_time` `get_next_termination_time` | `RenewalTiming` |
| `ONVIFService`, `client.py` 377-479 | address, offset, aiohttp session | construction, `setup`, `close` | `CameraServices`, `ServiceSetup`, `RequestRetry` |
| Retry, `wrappers.py`; transport, `zeep_aiohttp.py`, `client.py` 208-262 | nothing, and a pool of kept-alive connections | `retry_connection_error`, `post` `get` `post_xml` | `RequestRetry` |
| Document and sqlite caches, `client.py` 86-113, 266-297 | two module globals and a lock | `_cached_document`, `_get_shared_sqlite_cache` | `ServiceSetup` |
| Snapshots, `client.py` 303-316, 860-961 | `_snapshot_uris` | `get_snapshot_uri` `get_snapshot` | `Snapshots` |
| Times, `types.py` | none | `FastDateTime` `ForgivingTime` `_try_fix_time_overflow` | `Times` |
| Addresses, `util.py` | none | `normalize_url` `replace_host_port` `strip_user_pass_url` | `Snapshots` |
| `wsa.py`, `definition.py`, `transport.py`, `exceptions.py`, examples, WSDL files | none | | not modelled, see section 8 |

How the parts meet:

* Everything runs on one asyncio event loop. A coroutine keeps the loop between
  two suspensions, so an action of a model is what one coroutine does from one
  `await` that really suspends to the next. No operation of the library takes a
  lock, but for the construction of the sqlite cache: two operations meet
  wherever one of them awaits.
* A manager calls `ONVIFCamera` to subscribe and to build its two services. Both
  are kept in the dictionary `services`, and the manager keeps references of its
  own, which outlive the entries.
* A new subscription has a new address. `_start()` writes it into `xaddrs`, the
  table that `update_xaddrs()` empties, and `create_onvif_service()` then closes
  and replaces the service at the old one.
* The timer callback creates a task; the finally clause of the task arms the next
  timer. This chain is the whole renewal loop. If a link is missing, the
  consumer stops receiving events and nothing tells it so.
* The consumer's coroutines call the manager at any time, and `shutdown()`
  cancels the task wherever it is suspended.
* Every service has a session and a pool of its own. A request is posted up to
  twice by the transport, and Renew is attempted up to twice around it; what the
  transport raises decides whether the renewal loop goes on.
* All services of the process share the sqlite cache and the parsed documents. The
  first `setup()` builds and loads them, the others wait or do it again.

What makes each part correct:

* **managers**: one timer and one task at most, both within reach of
  `shutdown()`; the loop never dies by itself; after `shutdown()` nothing is
  armed and nothing is sent; the services held belong to one subscription and
  are open; when faults cease the subscription comes back.
* **registry**: every open session is registered, so that `close()` finds it; a
  request goes out through an open session and with the offset measured last; an
  entry removed after an `await` is still there; overlapping clock handshakes do
  not leave a `devicemgmt` that signs with an offset of an earlier one.
* **timing**: the renewal comes before the subscription runs out, with the
  retries it may need; the time without a subscription after a fault is bounded.
* **requests**: connections that died in the pool never make a call fail by
  themselves; closing the session never raises what the managers do not handle;
  however attempts nest, a call ends; a request is executed once.
* **setup**: one sqlite cache, built once, and nobody stuck in the queue for it;
  the document cache settles; every document reads the times cameras write as the
  instants meant, and refuses those it cannot read.
* **snapshots**: what is kept for a profile comes to rest; both requests go where
  they should, and an authentication error is about a url without credentials.

## 2. Modules

| Module | What it is |
|---|---|
| `RenewalLoop` | the abstract promise of a manager: a loop that lives while it is wanted |
| `SubscriptionManager` | one manager, its consumer, its two registry entries and the camera; implements `RenewalLoop` |
| `MCManager` | its symmetry for TLC |
| `SubscriptionManagerProofs` | six theorems about it |
| `SubscriptionManagerRefinement` | four more, among them that it implements `RenewalLoop` |
| `CameraServices` | the registry and the operations of one `ONVIFCamera` |
| `MCCameraServices` | its symmetry for TLC |
| `CameraServicesProofs` | seven theorems about it |
| `RenewalTiming` | the same loop as `SubscriptionManager`, with time and without interleaving |
| `MCTiming` | the cameras TLC runs it against |
| `RenewalTimingProofs` | four theorems about it |
| `RequestRetry` | the requests of one service: both layers of retry, the pool, the closed session |
| `RequestRetryProofs` | four theorems about it |
| `Times` | how the two time types read a text: pure operators |
| `ServiceSetup` | `setup()` of several services: the lock, the sqlite cache, the documents and their time types (extends `Times`) |
| `MCSetup` | the clocks TLC reads |
| `ServiceSetupProofs` | four theorems about it |
| `Snapshots` | the snapshot addresses, the one or two requests, the url helpers |
| `MCSnapshots` | the addresses TLC tries |
| `SnapshotsProofs` | four theorems about it |

Definitions under a comment that begins with *Slip* are not used by any
specification. Each is a definition as a plausible mistake would have it (a guard
dropped, an order swapped, a reset missing), kept next to the right one: replaced
by it, the model violates the property that is there to catch the mistake.

### 2.1 SubscriptionManager

| Variable | Code |
|---|---|
| `subscription`, `service`, `shutdown`, `handle`, `taskRef` | the attributes of `BaseManager` |
| `armed` | the timers the event loop holds; `handle` may name one that has fired |
| `services`, `xaddr` | `ONVIFCamera.services` at the manager's two binding keys, `xaddrs` at its namespace |
| `svc` | the `ONVIFService` objects: address, and whether the session is open |
| `camera` | the addresses at which the camera knows a subscription |
| `pc`, `target`, `want` | where a coroutine is suspended, through which service, and the address it read before |
| `turn` | the coroutine in the middle of a segment, when the segment is more than one action |
| `cancelled` | tasks that have a `CancelledError` on its way |

`_start()` is the sequence `events`, `subscribe`, `make1`, `closing1`, `make2`,
`closing2`, `check`, `fixing`: the request, the two calls of
`create_onvif_service()`, which suspend only to close an old service, the check
of the times and the Renew that repairs them. `Kind` selects the order of the
two services (`managers.py` 284-299 and 364-371). The segments end exactly where
the code awaits something that suspends; a segment of more than one action holds
`turn`, so that nobody gets in between.

The task is `TimerFires`, then one of `TaskGivesUp`, `TaskRestarts` and
`TaskRenews`, then `RenewAnswered`, `RenewRetried` with `BackoffOver`,
`RenewFails` or `RenewEscapes`. `EndTask` is its finally clause, which runs also
for `TaskCancelled`, unless the task had not begun. An exception that
`RENEW_ERRORS` lists and one that it does not differ in one place only: the
former, raised by Renew, makes the task restart, the latter (`RenewEscapes`)
leaves it through the finally clause. In a restart both end the task and arm the
timer.

A `close()` that has begun has closed the session: aiohttp marks it before it
awaits the connector, and a version that does not suspend there is the case of a
coroutine that is resumed at once.

The bounds are `Budget` (faults of camera and network, and calls of `start()` by
a consumer that built its manager itself) and the sizes of the sets. At most one
task is unfinished and at most one timer is armed (`SingleTask` and `SingleTimer`,
proved); the second identity of each is there so that a second one could show
up. Four services are enough because each of the two keys has at most a
registered one and one being replaced that is still held; TLC confirms that a
free identity is left whenever a service is built.
Two addresses tell an old subscription from a new one.

### 2.2 CameraServices

The callers run `create_onvif_service()`, `update_xaddrs()`,
`get_capabilities()` and `close()`. `Begin` and `CloseBegins` are the first
segment of an operation; the other actions are what follows an `await`:

| Point | Awaits | Continued by |
|---|---|---|
| `setup` | sqlite cache and wsdl document, `client.py` 1062 | `SetupReturns` `SetupFails` |
| `closing` | `close()` of the replaced service, 1044 | `OldClosed` |
| `clock` `clockauth` | `GetSystemDateAndTime`, 664-675 | `ClockAnswered` `ClockRefused` |
| `reclosing` | `close()` of devicemgmt, 687 | `DevClosed` |
| `getservices` `getcaps` | the two requests of discovery | `ServicesAnswered` `ServicesMissing` `CapabilitiesAnswered` `AnswerUnusable` |
| `snapshot` `closeall` | the iteration of `close()`, 853-858 | `CloseFirst` `CloseNext` `CloseEnds` `CloseRaises` |

`RequestFails` ends a request at any of the request points, `Cancelled` an
operation anywhere. `setup()` suspends only while its document is not loaded
(`warm`); the bundled WSDL directory is listed when the module is imported
(`client.py` 87), so that the existence check at 1027 does not suspend.
`rewrite_url()` and the table of definitions are left out: which of the
addresses an answer yields is `Advertised`, an arbitrary choice. An answer to
GetServices only adds to the table (`Fill`); one to GetCapabilities may also replace
an address by an empty one (`Overwrite`), which `get_definition()` takes for none.

`Rounds` bounds the operations begun and `Budget` the faults. Without fairness
and with that bound a behaviour may stop, callers being free not to call: the
runs of this module switch deadlock checking off.

### 2.3 RenewalTiming

Every clock counts down, so that no number grows with the length of a behaviour.
`Tick` is the passing of one unit for everybody; a request in flight lets at
most `Latency` of them pass. A camera is a record: the longest subscription it
grants (`cap`), the one it grants for a relative time (`relative`; a camera that
gets relative times wrong has a small one) and whether its answers carry
`CurrentTime`. `err` is the error of `dt_diff`, which shows only in absolute
times. `Handled` is the camera's side of a request, at any moment before the
answer arrives: a renewal handled late gets a later end than one handled early.

`Delay` is `_calculate_next_renewal_call_at()` with its 0.8 rounded up to a whole
tick, the later and so the less favourable instant. `ConnectionLost` is the retry
of `_call_subscription_renew()`, which only the renewal has; `TimedOut` is apart
because a `TimeoutError` is not an `aiohttp.ClientError` and is not retried.

TLC uses 40 ticks for the interval, 10 for the minimum, 7 for the rest after a
failed restart and 1 for latency and backoff. The proportions are what matters:
the minimum below the interval, the reserve (a fifth of the grant) above two
requests and a backoff, the rest longer than both.

### 2.4 RenewalLoop

What the program may rely on, without timers, tasks and retries: six variables and
ten actions. `SubscriptionManager` implements it under

| RenewalLoop | SubscriptionManager |
|---|---|
| `wanted` | `wish`, with "none" until `start()` has returned |
| `starting` | a consumer is inside `start()` |
| `alive` | a timer is armed or a task unfinished |
| `down`, `severed` | `shutdown`, `consumerClosed` |
| `served` | the manager's subscription service is open and the camera knows its address |

`Rest` carries the promise: the loop comes to rest only when it is not wanted, shut
down, or cut off. `Serve` needs a loop that is alive or starting, so a subscription
never appears by itself. `FairSpec` adds that a running loop which has lost its
subscription gets one; the run `recovery` checks that the fair manager implements
it, although there are faults: a fault is a `Lose`, and the faults come to an end.

### 2.5 RequestRetry

| Variable | Code |
|---|---|
| `conn`, `age`, `dead` | the pool of the service's `TCPConnector`; `dead` are connections the camera has closed and the event loop has not noticed |
| `closed` | `session.closed` |
| `pc`, `via`, `outcome` | where a caller is suspended, on which connection, how its last call ended |
| `inner`, `outer`, `timer` | the two loops of `retry_connection_error()` and the sleep between attempts |
| `reached` | history: how often the camera executed the request of one `post()` |

`Repeat` is the layer of the transport (two posts, `sleep(0)`, two exceptions of
aiohttp) and `RaiseClientError` the layer around Renew, which every error that is
an `aiohttp.ClientError` reaches once the transport gives up. `FoundDead` and
`Disconnected` are repeated by the transport, `Reset` and `ConnectFails` are not;
`TimedOut` and a `RuntimeError` of an open session (`Misused`) are repeated by
nobody. `post()`, `post_xml()` and `get()` differ in what they make of the answer,
which is left out. The pool is aiohttp's and is modelled by what the library
configures (`keepalive_timeout`) and by what any HTTP server may do: close an idle
connection at any time.

### 2.6 ServiceSetup and Times

`Setup` is the first segment of `setup()`: with the cache built, or for a service
with `no_cache`, it goes to the document at once, otherwise to the lock. `holder`,
`waiters` and `woken` are `asyncio.Lock`, whose release wakes the first of its
queue without handing it the lock. `Construct` is `to_thread(SqliteCache)`, and
`Woken` the second look under the lock. A document is loaded in a thread of the
executor, so its two steps (`Override`, `OriginalLoad`) interleave with all
coroutines; several threads may load one url, each a document of its own, and
`Loaded` puts the last of them into `documents`.

`Times` reads a text that is a record: the fields of its clock, the separator, a
stray dash, and the trailer, of which the code looks at the length. A reading is a
set, empty for a `ValueError`. `Clipped`, `Offset` and `Corrected` are
`_try_fix_time_overflow()` and what is done with its result. It takes two characters
for each field, at fixed places, so a longer field (`TwoDigits`) is a `ValueError`, as
the tests have it for 999:00:00 (`Correction`). `ServiceSetup` joins
the two: which readings a service has depends on whether its document was loaded
after the types were registered (`TimesRead`). `Repairable` says which texts can be
read at all, and `ReadsAll` that the others are refused.

### 2.7 Snapshots

A url is a record of what the helpers look at: userinfo, host, the number of `:`
parts after it, the keys of the query (`Bracketed` are the hosts that are IPv6
literals in brackets, at which `normalize_url()` does not count colons), and whether it is spelled as yarl spells it
(`Stripped` changes the spelling, and so makes another url even when there is
nothing to strip). `Get` is `get_snapshot()` up to its first `await`, `LookedUp`
and `LookupFails` the end of GetSnapshotUri, `Responded` the response, `Read` what
follows its body: the second request, or the result. `nat_override` is chosen once.
The lookup suspends in `create_media_service()` as well; the two suspensions are
one here, for nothing is read between them.

## 3. Runs

Every run that passes explores its whole state space.

| Run | Instance | Shows |
|---|---|---|
| `pullpoint` | pull-point manager from `create_pullpoint_manager()`, one fault, every consumer call, `update_xaddrs()` beside it | `TypeOK`; the loop lives (`LoopAlive`); shutdown is final (`ShutdownDisarms`); what is held is open (`HeldSessionsOpen`); no session is lost (`NoSessionLeak`); every step is one of `RenewalLoop` (`LoopKept`) |
| `direct` | a manager the program built itself: `start()` overlaps tasks | `SingleTimer` `SingleTask` `ShutdownQuiet` |
| `recovery` | notification manager, two faults, fairness | `HeldServicesCurrent`; the subscription comes back (`Recovers`); tasks end after shutdown (`ShutdownQuiesces`); the fair `RenewalLoop` is implemented (`LoopServes`) |
| `camera` | three coroutines, two faults, cancelled anywhere, the document of `devicemgmt` loaded, the other not | `TypeOK` `EntryToRemove`; whatever overlaps, an open `devicemgmt` has the offset measured last (`OffsetServed`); while operations come one after the other, `SendsOpen` and `Compensated` |
| `camera_warm` | three coroutines, cancelled anywhere, documents loaded, addresses stable, clock not adjusted | `NoLeak` `ClosesAll` |
| `timing` | four kinds of camera, offset off by a tick, two reboots or timeouts, three connection errors in a row | `TypeOK` `NeverLapses` `NeverResubscribes` `BrieflyDark` |
| `requests` | a Renew and another call over three connections, all of which the camera may close, one more fault, the session closed at any point, fairness | `TypeOK`; dead connections are no reason to fail (`LoneCallSurvives`, `RenewSurvives`); `NoRuntimeAfterClose`; `CallsEnd` |
| `setup` | three services over two documents, cancelled anywhere, every construction and load failing at will, fairness | `TypeOK` `BuiltOnce` `CacheKept`; nobody is stuck (`SetupEnds`); `DocumentsSettle`; `TimesRead` |
| `snapshot` | two coroutines for one profile, ten kinds of address, with and without NAT | `TypeOK` `AuthErrorEarned` `AsksTheCamera` `DoubledPortServed` `UrisSettle` |
| `stop_disarms` | `stop()` beside a renewal | `StopDisarms` does not hold |
| `twin_services` | two callers create one service | `ClosesAll` does not hold |
| `resent` | the camera executes a request and closes the connection | `PostedOnce` does not hold |

Why these instances: one fault is enough to reach every error path, two to fail a
restart after a lost renewal; one consumer coroutine suffices beside the task,
because `pause()` and `resume()` may be called by anybody at any time; the
registry needs two callers for every pair of operations to meet, and three for a
handshake or a `close()` that meets two of them. Three connections are one more
than the posts a Renew makes before its last backoff: two dead ones make its first
attempt fail, and the third is there to be met after the backoff. Three callers make the shortest queue of a lock in which
somebody waits behind somebody; with five documents each of them and both entries
of the cache can have one. The clocks of `setup` lie on either side of every limit,
that of two digits too. One profile is enough because nothing relates two.

The slips for `TypeOK` are mistakes that would be a type error in Python:
`cancel()` on a task that is None, an address stored where a service belongs.

### Fairness

`FairSpec` is weak fairness of the timers, of each task and of each coroutine
that is inside a call. The event loop runs every callback that is due and
resumes every coroutine that can go on; a request ends in any case because the
session has `ClientTimeout(total=90)`; a backoff is a sleep. Nothing is assumed
about the consumer (it may never call, `Start` has no fairness), about the
camera's faults or about `CameraForgets`. `Recovers` is conditional on a
consumer that in the end keeps the manager running; the faults end because the
budget does.

`FairSpec` of `RequestRetry`: each caller's next step, since `ClientTimeout` ends
every request and the event loop resumes a coroutine that slept, and `Tick`. Of
`ServiceSetup`: each coroutine that can go on, and each thread of the executor,
which comes to an end because it reads a local file. Neither assumes that anybody
calls, that the camera behaves or that a load succeeds. `UrisSettle` needs no
fairness: a profile is looked up until an answer is kept, and then only by callers
that were already under way.

## 4. Findings

Each is the counterexample of a run that ends with a violation.

1. **A stopped manager goes on** (`stop_disarms`; `managers.py` 91-97, 239).
   `stop()` cancels the timer, not the task. If a renewal is in flight, its
   finally clause arms the timer again; the next Renew fails because of the
   Unsubscribe, and the task subscribes anew. The docstring says "Stop the
   manager."
2. **A session nobody closes** (`twin_services`; `client.py` 1033, 1062-1064).
   The registered service is looked up before `setup()` and overwritten after it.
3. **A request executed twice** (`resent`; `client.py` 223-230). The transport posts
   again after a `ServerDisconnectedError`, which aiohttp raises also when the
   camera closes the connection after it has executed the request, say a
   CreatePullPointSubscription. The docstring says of the two exceptions: "Both mean
   the request did not reach the server, so retry is idempotency-safe".

The models show more than the runs keep; each of these is one change of a cfg away:

* `recovery` with `Rediscovery = TRUE`: `HeldServicesCurrent` fails.
  `update_xaddrs()` replaces the address table while a restart awaits the close of
  the first of its two services (`client.py` 633, 1044): the first is built at the
  new address, the second has none, and the manager pulls from the old
  subscription.
* `camera` without `orderly` in `SendsOpen`: a coroutine cancelled while it closes
  devicemgmt (`client.py` 687), by `asyncio.wait_for()` say, leaves the closed
  service registered. Its address never changes, so every later call gets it. And
  without `orderly` in `Compensated`: another `update_xaddrs()` resets `dt_diff`
  (`client.py` 619) while a handshake closes devicemgmt, and the new devicemgmt has
  no offset.
* `camera` with `Loaded = {}`: `OffsetServed` fails. Of two coroutines that create
  `devicemgmt` for the first time, one comes back from `setup()` when the other is in
  its handshake or has ended it, and registers its service, which has no offset, over
  the other's (`client.py` 1062-1064). During the handshake that is made good when it
  builds the service again; after it, not before the next handshake. This is the
  second finding with another harm.
* A discovery that fails has emptied the address table before it asked (`client.py`
  633), so a camera that was in use has no addresses until the next one succeeds. No
  doc says otherwise, and no property is about it.
* `timing` with a camera whose `cap` is 3: `NeverLapses` and `NeverResubscribes` fail. A camera that
  grants less than 48 s is renewed when its subscription is over, every time; the
  comment at `managers.py` 31-33 gives the opposite as the reason for the minimum.
* `direct` with two consumers and `ShutdownDisarms`: it fails. `start()` schedules without
  looking at `_shutdown` (`managers.py` 80); the timer then armed fires into
  `TaskGivesUp`.
* `CloseRaises` is reachable in `camera_warm`: `close()` awaits inside its iteration
  (857), and a service registered meanwhile ends it with a `RuntimeError`, the rest
  unclosed.
* `Snapshots` finishes with "valueerror" for an address with three ports, and for an
  IPv6 literal in brackets with two, which `normalize_url()` leaves alone (`util.py`
  43): a `ValueError`, raised while `handle_snapshot_errors()` words the error it
  handles (`client.py` 303-316). `DoubledPortServed` says that nothing else does that,
  in particular no doubled port after a name or an IPv4 address.
* Of the credential keys in a query, `strip_user_pass_url()` takes out every spelling
  of one that is there in lower case (`util.py` 171-176); `User=` alone stays.
  A url with `User=` alone can therefore end in an `ONVIFAuthError` with its
  credential in it. `AuthErrorEarned` says that this is the only case: none of
  `_CREDENTIAL_KEYS` as spelled there, and another spelling of one only where the
  address does not have it in lower case as well.

And `README.rst` 70 promises an attribute `mycam.devicemgmt` that `ONVIFCamera` does
not have; no model is needed for that.

## 5. Proofs

All theorems hold for every value of the constants that the named assumptions
allow. The assumptions say that identities differ from `None` and from each other,
that bounds are naturals, and that tasks, timers and services are numbered (fresh
ones are taken in order).

**SubscriptionManagerProofs.** `TypeCorrect`, by one lemma for each action;
`TypeOK` is split in three parts (control, data, pool), so that an action that
leaves a part alone leaves its lemma in a line. `OneTimer` needs no
strengthening: whatever a step does to the timers is one of four moves
(`TimersMove`), each of which keeps the armed timers among `{handle}`. `OneTask`
and `QuietAfterShutdown` rest on

    TaskInv == TypeOK /\ SingleTask /\ CancelledActive /\ NoneAtWork

`NoneAtWork` is the heart: after `shutdown()` no task is in the middle of a
segment, and every task past its entry guard has a cancellation on its way. A
task that is suspended can then only be cancelled, and one not yet begun can
only give up. `SingleTask` alone is not inductive: `shutdown()` cancels the
task it refers to, and only because that is the only one do all of them end up
cancelled. `DisarmedAfterShutdown` adds

    FactoryInv == TaskInv /\ SingleTimer /\ FirstStart /\ ShutdownDisarms

where `FirstStart` says that a manager from `create_*_manager()` is inside
`start()` only before it is handed out: that is what the theorem's hypothesis
`Factory` buys, and without it the statement is false (section 4).

`CurrentServices` says of a manager from `create_*_manager()`, with no
`update_xaddrs()` beside it, that its two services are at one address, that of the
last subscription. The address table is shared with the coroutine that makes the two
services, one after the other, and a failure may come between them:

    AddressInv == QuietBefore /\ CancelledDown /\ (~shutdown => HeldInv)

`HeldInv` says where the pair may be apart: only while a coroutine is between its two
services (`HalfPoints`), and then the first is at the address the table has and the
second will be (`Knows`). What makes it inductive is that nothing ends a coroutine
there but a cancellation, which only `shutdown()` sends (`CancelledDown`), and that
nobody else is inside `_start()` (`OneStarter`). Both hypotheses are needed:
section 4 shows what `update_xaddrs()` does to it.

**SubscriptionManagerRefinement.** For every manager, `SessionsHeldOpen`; for one from
`create_*_manager()`, `ImplementsLoop` (with `LoopStaysAlive`, which it contains) and
`SessionsReachable`. The finally clause re-arms the timer unless the session of the
subscription is closed, so the loop can only live if the library never leaves a
session closed that it holds. That is

    SessionInv: what the manager holds is what is registered under its two keys,
                which differ, and a registered session is open unless a coroutine
                is at this moment replacing it

A task that fails elsewhere than in a replacement finds its session open
(`SessionStaysOpen`), and one that fails in a replacement was cancelled, which only
`shutdown()` does (`RearmsOrRests`). The refinement then has one lemma for each group
of actions (the task's own work, `_start()`, what takes a subscription away, the
program's calls), each saying which step of the loop or which stutter an action is.
`SessionsReachable` rests on two facts more: a service is closed before its entry is
dropped (`LeakInv`), and two coroutines are never inside `_start()` at once
(`SoleStart`, from `QuietInv`: nothing is at work before `start()` has returned).

**CameraServicesProofs.** `RegistryTyped`, and `EntryStillThere` from

    PoolInv == TypeOK /\ LoadedFirst /\ \A c \in Callers : Placed(c)

`Placed(c)` ties where a caller is suspended to what it will remove, and
`LoadedFirst` says that a registered service has its document loaded.
The latter is what excludes the only step that empties an entry: `BuildCold`
removes the old service before it waits for `setup()`, but only for a key whose
document is not loaded, which then had no entry (`EntriesStay`). Nothing in the
code says so: `pop()` and `del` are safe because of the document cache.

`OffsetAlwaysServed` is about handshakes that overlap, fail or are cancelled, with the
document of `devicemgmt` loaded, so that nobody waits between building it and
registering it (`camera` with `Loaded = {}` shows what happens otherwise):

    OffsetInv == Dev \in warm /\ AtHome /\ OffsetServed /\ \A c : Serving(c)

`AtHome` says that a registered `devicemgmt` is at its fixed address, so that it is
never replaced for another. `Serving(c)` says of a coroutine that measures the clock
through an open session that its service is the registered one, and of one that has
measured it that the registered service is closed and that nobody else is there. So
only one of the coroutines that measure gets an answer; it closes the registered
service before anybody sees the new offset, and the one built in its place takes the
offset stored then.

`OrderlySends` and `OrderlyCompensates` assume that `Ops` has no `close` (`close()`
leaves the services it closes in the dictionary, so that a camera used after it gets
them back) and follow from

    OrderInv == orderly => \A c : ~Idle(c) \/ AtRest => Alone(c) /\ Good(c)

`Good(c)` says that the dictionary holds no service twice, that what it holds is open
but for the one service that the caller under way has closed and will replace, and
that `devicemgmt` was built with the offset of the camera unless it is that one.
Neither property is inductive alone: `_devicemgmt_with_time()` returns what
`create_onvif_service()` finds in the dictionary, so that an old service which is open
and signs with the offset of an earlier measurement has to be excluded.

`NothingLeaks` and `CloseIsComplete` are about callers that do anything at the same
time. Both assume that every document is loaded, so that `setup()` does not suspend
(without that they fail, `twin_services`), and that there is only one caller or the
addresses do not change; the second also, for more than one caller, that the clock is
not adjusted, and that the binding keys are finitely many. TLC finds each of these
necessary: two callers that both replace a service at a new address lose one of the
two, and a handshake that is under way when `close()` returns opens `devicemgmt` again.

    LeakInv  == /\ warm = Keys /\ OpenRegistered
                /\ \A c : Ceding(c)
                /\ OneCaller \/ InPlace
    CloseInv == /\ \A c : Closing(c) /\ (Handshaking(c) => AdjustTime)
                /\ closed => \A s : ~svc[s].open
                /\ closed /\ OneCaller => AtRest

A session is lost where an entry is overwritten while its service is open, so
`Ceding(c)` says that the service whose entry `c` is about to overwrite is closed. For
the handshake this takes an argument: several callers may be in it, but an answer
closes the registered `devicemgmt` and the others hold the same one, so only one of
them gets an answer. `Closing(c)` says that what `close()` has to visit is
still registered and what it has behind it stays closed; the iteration that ends
without "dictionary changed size" has then visited all there is, since a dictionary
that only grew and has its old size is the old one (`EndsClosed`).

**RenewalTimingProofs.** `TimingTyped`, and `LeaseKept`: if every grant of every
camera leaves the reserve (`Supported`), the subscription never runs out until
the camera reboots, a request times out, or as many connection errors come in a
row as Renew makes attempts. After a first reboot or timeout nothing is said;
connection errors beyond the retry suspend the promise only until a renewal is
scheduled again. Under the same conditions the manager does not subscribe anew
(`RenewsOnly`, an action property). The invariants:

    FrameInv == TypeOK /\ Pending /\ Judged
    LeaseInv == /\ FrameInv
                /\ spent = 0 => Held
                /\ spent = 0 /\ losses < Attempts /\ running => Outlasts

`Pending` relates a request in flight to its age and to what the camera made of
it; `Judged` says that the flag for broken times agrees with the camera; `Held`
that the subscription lasts at least as long as an answer on its way says;
`Outlasts` that what is left of it exceeds the timer, a request
and the attempts still to be absorbed (`Spare`). The arithmetic with `Spare` is in
lemmas of its own, since it is the only nonlinear term.

`DarkBrief` goes beyond the first fault: however many reboots, timeouts and connection
errors there are, the manager is not without a subscription for more than `DarkMax`
after the last reboot or timeout. `BrieflyDark` counts the time that has passed and so
says nothing of the time to come; the invariant relates the two:

    DarkInv == /\ FrameInv
               /\ running => phase # "off"
               /\ timer <= LongestDelay + Latency
               /\ ~running => dark = 0
               /\ dark <= DarkMax
               /\ running /\ left = 0 => Soon(DarkMax - dark)

`Soon(n)` says for each phase that the manager will hold a subscription within `n` ticks
unless a fault comes in between: a renewal that is scheduled will be refused and be
followed by a restart, an answer that was on its way when the camera rebooted is
believed and schedules a renewal of nothing, and each connection error still to come
(`Coming`) costs a rest and a request or two. A tick takes one from each side, and every
other step leaves enough. The further hypothesis `Paced` says that no camera grants
more than it is asked for in relative time, that the error of the offset has a greatest
value, and that a rest and a backoff are not longer than the waits they stand in for.
The code has 40 s for the rest against 48 s, 0.8 of the minimum of 60 s, for the
shortest renewal timer, and 5.5 s for the backoff.

**RequestRetryProofs.** `TypeCorrect` contains a bound that is a property: `reached` is
at most `Posts`, so the transport never posts more often than its attempts; it needs
that a request is undecided while it is under way (`Shape`). `NoRuntimeErrorAfterClose`
is a matter of cases. `RenewalSurvives` says why the backoff is as long as it is:
with at least two attempts, a Renew fails with a connection error only of a fault, or
of a connection that the camera closed, after its last backoff began. The invariant:

    PoolInv == \A c \in Renewers : Spared(c) => Safe(c)

For a caller whose last backoff has begun and that has met nothing since, every dead
connection of the pool is too old to be given out, or will be when the backoff is
over (`Stale`), which is where `KeepAlive < Backoff` is used. That
the constants of the code satisfy it is `BACKOFF_TIME = KEEPALIVE_EXPIRY + 0.5`.
`LoneSurvives` is the same for any call that runs alone on its service, with at least
two posts and whether or not it has a backoff:

    LoneInv == ~overlapped /\ ~closed => Lent /\ \A c \in Callers : Lone(c)

As long as calls do not overlap there is never more than one connection that could be
given out (`Lent`), so the post after the one that met it dead opens a fresh one
(`Lone`).

**ServiceSetupProofs.** `CacheBuiltOnce` and `CacheNeverReplaced` from

    LockInv == TypeInv /\ BuildsAlone /\ WokenAlone

`BuildsAlone`: who constructs holds the lock, and there is no cache; `WokenAlone`: at
most one waiter is woken, and only while the lock is free. A waiter that is cancelled
after it was woken hands the wake-up on, or the queue would be stuck: that half is
`SetupEnds`, which TLC checks. `EveryTimeRead` joins a pure fact, `CorrectionExact`
(what is clipped off is added back; that a field of more than two digits is
never clipped but refused is in `LoadedReadsAll`), with an invariant of the threads, `DocInv`: a cached document and one that a service uses are loaded, a
document that is being loaded belongs to one coroutine, and so is never read half
made by another.

**SnapshotsProofs.** `AuthErrorsEarned`, `RightPlaceAsked` and `DoubledPortsServed` from
one invariant, which says for each caller what its position tells of the address it
was given and of the url it asked, on lemmas about the helpers: `Stripped` leaves no
credential of `_CREDENTIAL_KEYS` and keeps the host, `Normalized` and `Rewritten` leave
a url that can be parsed unless there is no NAT and the address had more ports than
two, or more than one after an IPv6 literal in brackets.

### Only model-checked

Liveness, which is beyond the prover: `Recovers`, `ShutdownQuiesces`, `LoopServes`,
`CallsEnd`, `SetupEnds`, `DocumentsSettle`, `UrisSettle`. Every invariant and every
other action property of a passing run is stated by a theorem; where a theorem has a
hypothesis (`Factory`, `Supported`, documents loaded, that of `devicemgmt` or all, no `close`), its run is an
instance of it, and section 4 or the paragraph above shows what happens without.

## 6. What the models leave out

* `SubscriptionManager` takes from `ONVIFCamera` only what one manager touches;
  two managers of one camera share the keys of their type and the flag for
  broken times, and are not modelled together. From the code: when the second of
  two managers of one type starts, `create_onvif_service()` closes the session of
  the first, and the guards at `managers.py` 209 and 239 take that for a session
  the consumer has closed.
* `RequestRetry` has one service. Its answers are whole: an HTTP error status is an
  answer, and what zeep makes of it is an exception that no layer repeats.
* `RenewalTiming` fixes the error of the clock offset at the start. A camera clock
  set while a manager runs changes what an absolute time means.
* `ServiceSetup` has one event loop. The lock is a global of the process, and a
  waiter in a second event loop would get a `RuntimeError`; once the cache is built
  nobody comes to the lock. A construction whose coroutine was cancelled goes on in
  its thread, and its result is dropped.
* `Times` has valid dates only, and the parsers of ciso8601 and isodate are taken to
  accept a clock exactly up to 23:59:59.
* A notification's content, `process()`, and `set_synchronization_point()`, which
  sends a request and swallows its errors, change no state.

## 7. Plan

Done, in the order in which the parts matter to a program that uses the library:
`SubscriptionManager`, `CameraServices`, `RenewalTiming`, then `RenewalLoop` with the
refinement, `RequestRetry`, `ServiceSetup` with `Times`, `Snapshots`.

Next:

1. Theorems: the steps that the liveness properties rest on, as far as they are safety
   (a measure that falls when a caller of `RequestRetry` moves, the queue of the lock
   in `ServiceSetup`).
2. Two managers of one type over one registry: each as coarse as `RenewalLoop`, the
   registry as fine as `CameraServices`. The question is when one of them is alive.
3. `RenewalTiming` with a clock that is set meanwhile.

## 8. Not modelled

`wsa.py` adds headers to one envelope. `definition.py` and the WSDL files are data.
`transport.py` reads a bundled file or refuses. `exceptions.py`, the `stringify`
helpers and `obscure_user_pass_url()` are wording; which exception is caught where is
part of every module. The conversion of an aiohttp response into that of another
library (`zeep_aiohttp.py` 84-137), the construction of types and signatures
(`client.py` 481-535) and the TLS context have no state that another step could find
changed. Logging and the examples have no behaviour of their own.
