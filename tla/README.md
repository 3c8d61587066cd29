# A TLA+ model of the GCN USB Adapter driver

The repository holds a KMDF driver that sits below the Windows HID class driver and
presents one Nintendo GameCube controller adapter as four HID controllers.  This project
models it in TLA+, checks it with TLC on small instances, and proves its main invariants
with TLAPS for every number of ports, adapters, threads, clients and requests.  File names
below are relative to `src/GCN_Adapter/` unless they start with another directory.

## 1. Inventory

| component | code | state | operations | model |
|---|---|---|---|---|
| HID report path | `Interrupt.c`, `Ioctl.c` (READ_REPORT, handler, CALIBRATE), `GCN_Controller.c` (`prepare_report`, `GCN_Controller_Calibrate`), `Device.c` (flush) | `interruptMsgQueue`, `adapterData`, `calibrationData`, `controllerStatus[].lastControllerState`, the static `id` | read completion, reader failure, answering a parked request, calibration, flush | `HidReports` |
| Rumble | `GCN_Controller.c` (`GCN_Adapter_Rumble`, its completion), `Ioctl.c` (SET_RUMBLE), `Interrupt.c` | `rumbleRequest`, `rumbleMemory`, `controllerStatus[].rumble` | set, clear on power loss, transfer, completion | `Rumble` |
| Request dispatch | `Ioctl.c`, `IO.c`, `GCN_Interface.c`, `Device.c` (queues) | the queues, who owns each request | deliver, forward, park, send down, complete, cancel | `Dispatch` |
| Lifecycle | `Driver.c`, `Device.c`, `GCN_Interface.c`, `Power.c` | `DEVICE_CONTEXT`, `GCN_Adapter_deviceCount`, the raw PDOs | add, prepare hardware, D0 entry and exit, rebalance, remove | `Lifecycle`; the flush in `HidReports` |
| Sticks and deadzone | `GCN_Controller.c` (arithmetic, `handle_null_zones`, order of `prepare_report`) | the stored centre, the report | centre, apply the deadzone, calibrate | `Sticks`, `Deadzone` |
| Settings | `GCN_Controller.c` (`Update_Deadzone`), `Ioctl.c` (SET/GET_DEADZONE) | `controllerStatus[].deadzone` and its function pointers | get, store, choose handlers | `Settings` |
| Console client | `ConsoleConfiguration/` | rumble mask, a copy of the settings | synchronous IOCTLs | its read-modify-write in `Settings` |
| Descriptors | `HID.c` | none (constant tables) | - | not modelled |
| Tracing, build, INF | | none | | not modelled |

How they interact.  The HID class driver's READ_REPORT requests enter the parallel default
queue, which forwards them to a manual queue.  Each packet of the interrupt endpoint
completes a pending read of the continuous reader; the completion stores the packet, asks
rumble to be cleared if the power plug is out, and runs the report handler, which answers
the oldest parked request with a report of the next port.  User mode opens a raw PDO whose
sequential queue forwards the four private IOCTLs to the same parallel queue.  All threads
share the device context; `dataLock` protects `adapterData` in some places and nothing
else.

What is hard: the handler runs on the completion threads of up to two pending reads, on the
work item that recovers a failed reader, and on the PnP thread that flushes; calibration
copies under the lock and stores outside it; all adapters share the port counter and the
device counter; rumble commands share one request and one buffer; requests are cancelled,
parked across power transitions and completed by different functions; settings are changed
without a lock; hardware may be prepared again with the context of the first time; the stick
arithmetic divides, overflows and is converted to bytes.  `PROJECT.json` lists these hazards
with their lines and the properties that watch them.

What makes each component correct: the report path answers every request exactly once, in
order, and gives every port its turn, with a fresh calibration after a plug; rumble obeys
the last command; dispatch completes every request once; no callback of the lifecycle finds
a handle missing or deleted, and raw PDOs are told apart; a controller at rest is neutral and
a touched one is reported where it is; the handlers that run are those of the settings that
are told.

## 2. The modules

**ReportService** is the abstract specification of what an adapter owes the class driver while
one handler at a time answers: a queue of requests, answered oldest first with reports labelled 1, 2, .., N, 1, ..; requests
may be withdrawn, rejected or swept away, without a gap in the labels.  No threads, packets
or calibration.

**ConcurrentService** is what remains of it when several handlers answer at once, for any
number of adapters: requests are taken oldest first (`Take`); whoever has taken one looks up
the shared counter (`Look`) and may know every value that it has had since; he labels his
report with one of them and sets the counter to the successor of one, perhaps another
(`Count`), and answers later (`Answer`).  So answers may overtake each other, labels may
repeat and the counter may fall back, but no request is answered twice and no label is older
than the look.

**HidReports** is the detailed model.

- Variables are named after the code's: `interruptMsgQueue`, `adapterData` (the set of ports
  with a controller), `calibrationData` (the ports whose stored centre belongs to the
  controller now plugged in), `lastControllerState`, `id`.  `current` is what the packet no
  longer tells: which of its ports still have the controller that it was read from.  `hand`,
  `from`, `label`, `snap` and `todo` are locals of the handler, of `prepare_report` and of the
  calibrate functions; `from` is the ports whose input and whose centre made the report.
  `sent`, `turn`, `calSince`, `overlapped` and `outstanding` are history the properties speak
  of.
- `pc` gives each thread a control point wherever another thread may interfere.  The handler
  retrieves a request and enters `prepare_report`; there the check of the port's type
  (`checkPort`), the check and the clearing of `lastControllerState` (`checkUnplugged`,
  `clearLast`), the copy of the input with the check (`checkLast`), the two halves of a
  calibration (`checkLast`, `calibrate`), the setting of `lastControllerState` (`setLast`) and
  the advance of `id` (`advance`) are steps of their own; after it, so is the completion of
  the request (`complete`).  `snapshot` and `write` are the calibrate IOCTL's.
- The static `id` is loaded anew by every one of these, and with two threads in
  `prepare_report` that is a data race.  `seen` is the set of values that `id` has had since a
  thread entered: each load yields any of them, two loads may differ, those of a check and of
  the access after it, of the input and of the centre, of the label and of the advance.  A
  store makes the new value visible to all who are inside.
- `ReadComplete`, `ReadersFailed` and `SelfManagedIoFlush` are the handler's three callers;
  `HandlerReturns` returns to them (the flush loops while the handler succeeds).
  `RetrieveNothing` .. `CompleteReport` are the handler, `EnterPrepareReport` .. `AdvanceId`
  its call of `prepare_report`; `CompleteWithError` is its path for
  a request whose buffer is too small.  `AdapterCalibrate`, `CallerSnapshot` and
  `CallerStore` are the IOCTL.  `DeviceAdd`, `PrepareHardware` (its calibration, from the
  old packet in a rebalance; the rest is in `Lifecycle`), `D0Entry`, `D0Exit` and `Purge`
  are what PnP and power do.  `D0Exit` stops the reader and nothing else: the driver is a filter
  (`Driver.c:66`), whose queues are not power managed, so requests are parked and
  calibrations go on while the device sleeps.  `D0Entry` may find controllers exchanged while
  nobody read packets; the last packet, and a centre that a caller was about to store, are
  then outdated as well.
  `HidReadReport` and `CancelParked` are the class driver and the framework.

**Rumble** models `GCN_Adapter_Rumble` statement by statement where it touches shared state:
the power check, the unlocked copy of the bytes, the attempt to send, the transfer by USB
and the completion routine, called by IOCTL threads and by the reader's completions, none of
which waits for another.  `motor` is what the adapter was last told, `accepted` what the last
call that sent a command asked for.  `contended` remembers whether a call ever got past the
power check while another call was past it or the request was in flight.

**Dispatch** follows a request through the raw PDO's queue, the default, read and write
queues and the manual queue into its handler.  The code "control" stands for the four private
IOCTLs, which are treated alike.  `returned` holds the status with which the helper of a
private IOCTL returns to the handler, which completes the request if that status is an
error; a helper that completes it returns success.  A second completion stops the system.
Handlers are called in every power state; only `ServeParked`, the report handler as a single
action, needs packets.  Its inside is `HidReports`.

**Lifecycle** is PnP: `CreateDevice` (how far it gets), then `PrepareHardware` call by call
in the code's order, each with its failure, `D0Entry`, `D0Exit` and `Remove`.  `context` is
the set of handles that `DEVICE_CONTEXT` holds and `stale` those of them whose object was
deleted: selecting the configuration again, in a rebalance, deletes the pipes of the first
selection with the reader on one of them, while the USB device is kept and used again.
`ReadCount` and `CreateRawPdo` are the two halves of the unlocked `GCN_Adapter_deviceCount++`
around which devices that start in parallel race; a second preparation leaves the first raw
PDO where it is, and the creation's failure is ignored.  `Uses` lists the handles that each
callback uses without a test, `MayRun` the callbacks that the framework may call.

**Sticks** is the arithmetic of the linear handlers, as operators on bytes.  The code
computes in doubles; the exact quotient is bracketed (the square root is found as two digits
to the base 128) and a handler is the set of bytes that it may return, the conversion to `BYTE` included: it truncates, keeps the low byte, and
yields 0 for an infinity or a NaN, as the x86 conversion does.  `abs` on a double truncates.

**Deadzone** is the order of things in `prepare_report` for one port: the neutral report of
an empty port, the complement of axis 0's Y, the handlers under any mixture of settings that
a copy may have caught, and only then the calibration of a newly plugged controller; the
calibrate IOCTL's copy and its delayed store run beside it.  `plugged`, `session` and `early`
are history: which controller is in the port, whether it had a report, was touched, and
whether an older centre was stored over its own.

**Settings** is the life of one port's settings: a client gets them, its user edits them (the
console sets all knobs to one mode, and in LINEAR mode to one deadzone), SET_DEADZONE stores
them knob by knob and then chooses each knob's handler from what it finds stored.  Two
clients' IOCTLs overlap, since the raw PDO's sequential queue forwards them to a parallel
one.

**MCHidReports**, **MCDeadzone** and **MCLifecycle** give values to constants that a
configuration file cannot write, **MCRumble** the symmetry of its threads.  **QueueLemmas** holds facts about sequences.
**HidReportsProofs**, **DispatchProofs**, **RumbleProofs**, **LifecycleProofs**,
**DeadzoneProofs** and **SettingsProofs** hold the proofs about the module in their name,
**ServiceProofs** the proof that `HidReports` implements `ConcurrentService`.
Definitions whose comment begins with "Variant" are single plausible errors, kept beside the
operator that they would replace to see that a property notices them; no specification uses
them.

## 3. The runs

| run | instance | shows |
|---|---|---|
| `hid_core` | 3 ports, 1 adapter, 1 reader, 1 calibrating caller, 2 requests, one with a short buffer | `TypeOK`, `RequestsConserved`, `BoundedWait`, `ReportNamesItsPort`, `CalibratedSinceUnplug` hold, and the model implements `ReportService` (`ServesInOrder`) |
| `hid_live` | 2 ports, 1 adapter, 2 readers, 2 requests, fairness | `RequestsConserved` with concurrent handlers, `FlushAnswersAll` when no buffer is short, `ParkedIsAnswered`; the model implements `ConcurrentService` (`ServesConcurrently`); `SoundUntilOverlap`: labels, calibration and the bound on the rotation hold until the two have been in `prepare_report` together |
| `rumble_shared` | 2 ports, 2 readers, 2 callers, who are alike | `ObeyedUntilContended` and `StatusUntilContended`: motors and stored status follow the last command that was sent, whatever fails, until two calls, or a call and a transfer, have met |
| `dispatch` | 3 requests, all codes, fairness | `AnsweredOnce`: nothing is completed twice; `Fulfilled`: nothing is forgotten |
| `lifecycle` | 2 adapters and a device that lacks an endpoint, `MaxCount` 3 | `CallbacksFindContext`, `PdosDistinct`, and no device gets stuck |
| `deadzone` | 2 sticks, 1 shoulder button, a good and a worn controller, deadzones 0, 35 and 255, 1 caller | values stay bytes, `UntouchedIsNeutral`, `DeflectionIsRadial`, `PressNotExaggerated` |
| `settings` | 2 clients, 2 knobs, 3 modes, deadzones 0 and 60 | `HandlersFollowModes` and `KnobsAgree` once an update had the settings for itself |
| `hid_starved` | 4 ports, 2 adapters | `BoundedWait` fails: the port counter is shared |
| `hid_reconnect` | 2 ports, 1 reader | `ReconnectRecalibrates` fails: an exchange between two turns, or in suspend, is not seen |
| `rumble_lost` | 2 ports, 1 reader, 1 caller | `LastCommandApplied` fails: a refused command has overwritten the one in flight |
| `rumble_power` | 2 ports, 1 reader, 1 caller | `PowerLossStopsRumble` fails: without power nothing is cleared |
| `stick_rest` | as `deadzone`, deadzone 35 | `RestIsNeutral` fails: the main stick's Y is complemented, its centre is not |

The five failing runs are the `findings` of `PROJECT.json`, each with the comment or document
it contradicts.  Some things that the runs showed are not findings, because nothing in the
repository promises otherwise; the properties state the condition under which they hold:

- The flush stops at the first request whose buffer is too small (`Device.c:397`); the
  framework cancels the rest.  `FlushAnswersAll` is checked with buffers of the right size.
- A calibrate IOCTL that began before an exchange may store the old controller's centre over
  the new one's, where it stays until the next calibration (`session.overwritten`).
- Handlers in `prepare_report` together may mix the ports of a report, repeat a label, clear
  or calibrate another port than they report, and set `id` back; nothing in the driver keeps
  them apart.  Once they have (`overlapped`), only `ServesConcurrently` says what labels are
  possible.
- A handler that has left `prepare_report` may be overtaken before it completes its request:
  with two ports the labels may come as 2, 1, 1.  So with several pending reads a port may
  wait longer than N reports even if none overlap; `BoundedWait` allows N for each pending
  read (`LongestWait`), a bound that is reached.
- A new controller's first report is centred with the calibration of its predecessor.
- With a centre far from the middle, or a deadzone below the default, a stick pushed to its
  end leaves the byte's range and jumps to the opposite end (`CenteredStick` excludes this).
- `DeflectionIsRadial` allows the direction to be off by the rounding of the two coordinates
  and a sixteenth of that: the model knows the distance from the centre, which the code
  computes for each axis, only up to 1/`Scale`, and for each axis on its own.
- Overlapping SET_DEADZONEs may leave handlers that do not fit the modes GET_DEADZONE tells,
  until an update runs alone (`overlapped`).
- Two devices that start at the same moment may get one instance number (`raced`).
  `GCN_Adapter_deviceCount` counts preparations, failed and repeated ones too, while
  `Driver.h:15` speaks of devices added.

Bounds.  Two requests are enough to have one in a handler and one parked, in either order,
and for one to be retrieved, cancelled or rejected in front of another; a request is reused
as soon as it is completed, so runs are unbounded in time.  Three ports let a rotation skip,
repeat and wrap; the code's four are used where two adapters advance the counter together.
Two readers are the framework's default number of pending reads.  `Packets` lists what a
packet may say: ports with a controller, all of them, some or none, so that ports come and go
separately and together.  `Exchanges` lists what may be exchanged while nobody reads:
everything in `hid_reconnect`, whose property is about it, and nothing in the other three,
whose properties do not depend on the stored centres.  Two rumble bytes suffice for a mixture
of two commands; two readers and two callers meet in every combination.  In `Dispatch`, three
requests fill a sequential queue's handler, its queue and the parallel queue at once.  In `Lifecycle` two adapters race for the
count and a third device never gets past the check of its pipes; preparing stops when the
count has reached `MaxCount`, which leaves room for a rebalance of either adapter.  In
`Deadzone` the touched values are the corners, the edges of the default deadzone on both axes
and some in between; one knob of a report is followed at a time, since knobs share only the
centre; one of the two sticks is complemented and the other is not, and the two shoulder
buttons are alike, so one is modelled.  Two knobs in `Settings` are enough for a mixture of
two updates, three modes are all that the code tells apart.  No state constraint is used; the
counters `turn` stop at `LongestWait`, at which `BoundedWait` has failed already.  Deadlock is checked in
`lifecycle`, where some PnP event is always possible until the bound, and in `settings`; in
the others it is not, because with no adapter, no client and no packet the driver rests.

Fairness.  A handler that was called runs to its end (it neither waits nor loops).  In D0
packets keep coming, because the adapter answers every poll of its interrupt endpoint and the
framework restarts the reader after failures.  In `Dispatch` the framework delivers what its
queue's type allows, in every power state, and the USB stack finishes writes, with success or
an error.  No fairness is assumed of clients, cancellation, plugging, power or PnP.
`ParkedIsAnswered`, and `Fulfilled` for READ_REPORT, only promise anything while the device
stays powered; `Fulfilled` promises all other requests an answer also while it sleeps.

## 4. What is proved

`HidReportsProofs`, about `HidReports`:

- `TypeCorrect`: `Spec => []TypeOK`.  With any number of adapters and threads `id` remains
  a port, so `prepare_report` indexes its arrays in range even when it races.
- `Conservation`: `Spec => []RequestsConserved`.  The property alone is not inductive: a
  handler that retrieves a request must not already hold one.  `RequestInv` adds
  `HandlerHoldsRequest`: a hand is full exactly at the control points after retrieval.
- `SerialLabels`, `SerialCalibration`: `Spec => [](~overlapped => ReportNamesItsPort)`, and
  the same for `CalibratedSinceUnplug`, for any number of adapters, pending reads and callers.
  `overlapped` is history that the model keeps of what the driver does not prevent; the
  theorems say that nothing else, neither a second reader before or after it, the flush nor
  the recovery, does harm.  `SerialInv` ties what a reader in `prepare_report` knows to `id`
  (`LocalState`): another reader can only change `id`, or take the port's calibration back, by
  entering `prepare_report` itself.  `ControlInv` says which locals are in use where, and
  `PowerInv` that no handler runs while the device is out of service and that the flush is
  alone with it.
- `SerialRotation`: `BoundedWait` in the same circumstances, if all readers belong to one
  adapter (`OneAdapter`); with two it does not hold, since they share `id` (`hid_starved`).
  Labels are given out in the counter's order, but may be completed in any other.  The
  invariant `WaitBound` therefore counts, for each port, the reports sent since its last one,
  the labels of other ports and those of its own that handlers hold, and the labels given out
  since its last (`Since`): the first two and one more are at most the number of readers, the
  last, and N - 1 for each of its own.  For one reader this is the strict rotation.
  `OnlyOverlapsHarm` puts the three together: `Spec => []SoundUntilOverlap`.
- `FlushComplete`: `FlushAnswersAll`, if `ShortBuffer = {}`, for any number of readers: only a
  handler that found the queue empty ends the flush.

`ServiceProofs`: `ImplementsConcurrentService`, `Spec => ServesConcurrently`, has no
hypothesis: any number of adapters and of pending reads, whatever they do at once.
`RetrieveNextRequest` is `Take`, `EnterPrepareReport` is `Look`, `AdvanceId` is `Count`,
`CompleteReport` is `Answer`, `CompleteWithError` is `Reject`, `CancelParked` is `Withdraw`,
and `Purge` is `Sweep`, which sweeps nothing away while a handler still has a request; the
other steps of `prepare_report` change nothing that the service sees.  The queues, the counter
and the last reports are the same on both sides.  What is known of a taken request and its
label are functions of the handlers' hands and locals, in the refinement mapping by a
`CHOOSE` of the holder.  `IsView` says without it what these functions are: `RequestInv`, by
which no request is in two hands, makes them exactly one (`ViewNow`, `ViewNext`,
`ViewUnique`), and each step is shown to lead from one view to the next.

`DispatchProofs`, about `Dispatch`: `DispatchTypes`, and `CompletedOnce`,
`Spec => []AnsweredOnce`.  The invariant `DispatchInv` adds that queues are disjoint
sequences of distinct requests that are all `queued` (so that what a queue completes is not
free), and that a helper's error means an open request.

`RumbleProofs`, about `Rumble`: `RumbleTypes`, and `OnlyContentionHarms`,
`Spec => [](ObeyedUntilContended /\ StatusUntilContended)`, for any ports, pending reads and
callers, none of whom waits.  `Orderly` says that at most one call is past the power check and
the request then idle (`CallInv`), what the buffer holds of that call's mask (`BufferInv`),
and what buffer, motors, status and command say of each other in each state of the request
(`CommandInv`); a step breaks it only by setting `contended`.  `rumble_lost` shows that the
condition is needed.

`LifecycleProofs`, about `Lifecycle`: `LifecycleTypes`; `ContextReady`,
`Spec => []CallbacksFindContext`, from an invariant that says for each phase which handles
are set and fresh by then; `NumbersDistinct`, `Spec => []PdosDistinct`, from the bound of all
numbers by the count while no starts have raced.

`SettingsProofs`, about `Settings`: `SettingsTypes`, and `SettledSettings`, which gives
`HandlersFollowModes` and `KnobsAgree` for any clients and knobs: while a single update has
the settings for itself, the knobs that it has dealt with agree with its own copy, and every
buffer that is being written is uniform.

`DeadzoneProofs`, about `Deadzone`: `RestAndPress`, which gives `UntouchedIsNeutral` and
`PressNotExaggerated` for any controllers, inputs, deadzones and callers.  `DataInv` says
what the packet and the copies are, `CenterInv` that the centre is the plugged controller's
from its first report on, `ReportInv` that a report was made from the centre it names.  The
arithmetic is in `StretchBound`: a distance beyond the deadzone, stretched to the whole range,
does not exceed the distance.  `DeadzoneTypes`, `Spec => []TypeOK`, and `RadialDeflection`,
`Spec => []DeflectionIsRadial`, depend on the root.  `RootIsRoot` characterises `Root` by
`r * r <= n < (r + 1) * (r + 1)`, from the least-number principle for naturals (`Least`) and
the digits (`DigitExists`).  With it, the gain of a
stick, which is at most 134 away from its centre in a direction, stretches no deflection
beyond the byte or beyond itself (`GainBound`); the two brackets of the distance give gains
that hardly differ (`GainsClose`), so that the two rounded coordinates keep their ratio
(`RoundedRatio`) and their directions (`RoundedDeflection`), the conversion to a byte included
(`AxisRounded`).

Assumptions: those named in the modules (`NAssumption`, `ThreadAssumption`,
`RequestAssumption`, `ExchangesAssumption`, `RumbleAssumption`, `EndpointAssumption`, ..), which TLC evaluates too,
and those about the number of adapters and short buffers above, which are stated in the
theorems that need them.

Only model-checked: the liveness properties `ParkedIsAnswered` and `Fulfilled` (fairness and
ENABLED are beyond the prover), and `ServesInOrder`, the gapless order of labels and answers
that the driver keeps only where a single read is pending: the framework's default is more.
`BoundedWait`, `ReportNamesItsPort` and `CalibratedSinceUnplug`, which `hid_core` checks
without a condition for its single reader, are proved until handlers overlap, which a single
reader's never do.  All other invariants and safety properties of the passing runs are proved.

## 5. What is not modelled

- Kernel and framework internals: modelled as far as the driver can see them, by actions that
  `PROJECT.json` marks external.  Assumed of them: endpoints do not change while a device is
  there; selecting a configuration deletes the pipes of the one before; the system holds
  requests back during a rebalance; a device that fails or is removed takes its raw PDOs with
  it; PnP may start devices in parallel.
- The input in a packet, in `HidReports`: a packet may come between the check of the type, the
  copy of the input and the copy for the calibration, but a copy torn in itself is not told
  from one that is not.
- A failure to save the floating point state is treated as the handler that leaves the input
  alone, which is what the code then does.
- The buttons of a controller pass through unchanged; the HID descriptors are constant tables;
  tracing, packaging, installation and device discovery have no state.
- The console's menu and device discovery are input and output; its IOCTLs are those that
  `HidReports`, `Rumble` and `Settings` take from any client.
- `GCN_Controller_Rumble` has no caller.
- The mask's and the index's validity in the IOCTLs' buffers is taken for granted: a client
  names ports that exist.
- SET_RUMBLE's early success, and synchronous USB calls with no timeout at the start of the
  device (`Device.c:258`): the driver does nothing about either, so there is no behaviour to
  check; both are listed as hazards without a property.

## 6. Plan

What is worth adding next, in this order:

1. A composition of `Lifecycle` with `HidReports`, for a rebalance while requests are parked.
2. Reports that carry a packet's age, to bound how old the input of a report may be that was
   overtaken on its way to the class driver.
3. `prepare_report`'s copy of a packet torn by the copy of the next one, which needs the
   input in the model and not only the ports.
