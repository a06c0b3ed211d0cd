# libzix: a verification project

libzix is the daemon of a measurement device. It runs on the system interface
controller (SIC), talks to the device controller (DC) over a serial link, and
executes XML requests that arrive from the DC, the network, shared folders,
USB sticks and local sockets. It is one process with one Glib main loop: what is
concurrent is not threads but *callbacks*. Every longer operation is cut into
callbacks (replies of the DC, ends of child processes, asynchronous file
operations, timers), the objects in between keep state, and other operations run
in the gaps. This project models that: an action is one callback together with
everything it changes before it returns, or one step of what runs beside the main
loop (the DC, the line, a child process, the thread of a file operation).

Source references are to the files under `src/`.

## 1. Inventory

| Component | State | Operations | Works with | Module | Status |
|---|---|---|---|---|---|
| Request scheduler (`xml_processor`, `xml_request`) | three slots, three queues, arrival stamps | parse, start, finish, answer | every interface, every function | XmlProcessor | modelled |
| RS422 link (`serial_interface_handler`, `serial_message`) | sender and receiver state, message ids, counters, timers | send, frames in, confirmation, NAK, timeouts | the DC, the query client | SerialLink | modelled |
| Query client (`query_client_serial`) | `_query_map`, timeouts, error connections | execute, reply, timeout, error | link handlers, all functions | DcQueries | modelled |
| USB interface handler (`usbserial_interface_handler`) | `transmitMessages`, `_online`, IO watch | send, read, reset, reconnect | the DC, the query client | DcQueries | partly |
| Procedures (`core_function_procedure`, `procedure_step_handler`) | step file, saved request, counts, result of an update | construct, ask the user, run a step, end, resume | scheduler, DC, disk | Procedure | modelled |
| Measurement data functions (`core_function_data_sync`, `_data_out`, `_get_measurement`, `_data_free`, `disk_usage_manager`) | a directory for each measurement, queues of postprocessors | store, generate, deliver, free, flag | scheduler, child processes, disk | Measurements | partly |
| File and process requests (`process_request`, `copy_/read_/write_file_request`) | pid, timeout, output stream | start, exit, kill, copy, read, replace | the functions, watchdogs, monitors | Measurements | partly |
| Ids of measurements (`id_mapper`) | `ML.xml` | add, remove, look up, list | dataSync, dataFree, dataOut, disk alarm | MeasurementIds | modelled |
| Export (`core_function_data_out`, `post_processing_builder`, `signature_creation_request`) | queue of postprocessors, temporary files | select, generate, copy, print, pack, sign | configuration, processes, USB stick | Exports | partly |
| Boot and shutdown (`libzix`) | stage of the start, retries | ask the DC until it answers, open interfaces, mount | all | Boot | partly |
| State of the device (`state_variable`) | current, queried and pending state, pending callback | set, finished, replay | DC | StateVariables | modelled |
| Update (`core_function_update`) | stage, saved request | check, send files, wait for the restart of the DC, replay | query client, state of the device, procedures | Update | modelled |
| Samba mounter (`samba_mounter`) | `_is_mounted`, processes | mount, umount, remount | boot, configuration | Boot | modelled |
| Configuration file (`conf_handler`, `simple_crypt`) | document, file, temporary file, backup | load, save, crypt, reset, import | nearly all | ConfFile | partly |
| Changes of the configuration (`conf_handler`, `network_config`) | mask of changed handlers, reread timer, interface | set, announce, adopt, assign, reset, tell the DC | nearly all | Configuration | partly |
| Logging (`log`, `log_handler`) | ring buffer, level, file | log, flush, resize, truncate | all | SystemLog | partly |
| System monitors (`monitor*`, `disk_usage_manager`) | values, alarms, saved log level | update, alarm, remove | log, measurements | Alarms | partly |
| Watchdogs (`watchdog*`, `usb_watchdog`, `udisks_device`) | list of a folder, `_in_progress`, the stick | list, hand over, move, mount | scheduler, configuration, udisks | Watchdogs | partly |
| NTP, printer and LAN socket monitors | a process each, a state each | timer, end of the process | configuration, DC | Monitors | partly |
| Web service (`webservice`, `start_stoppable`) | pending command, `sed` process | edit, start, stop, restart | configuration, lighttpd | WebServer | modelled |
| Calls, restrictions, signatures and access | query to the DC, temporary files | check, run, answer | query client, processes | FunctionCalls | partly |
| File functions (`core_function_get_/set_/del_file`, `_get_files_list`) | position in a list of files | one step for each file | query client | FunctionCalls | modelled |
| Functions of the DC (`core_function_wrap_dc`) | one query | pass on, pass back | query client | FunctionCalls, DcQueries | partly |
| Socket and file interfaces | list of received bytes, result being written, open connections | bytes to requests, result to bytes | scheduler, watchdogs | Connections | partly |
| XML classes | none that outlives a call | parse, build | | | not modelled |
| Test programs and scripts | | | | | not modelled |
| Packaging | | | | | not modelled |

How they interact. Interfaces give a stream to `XmlProcessor::parse_stream` and get
a result back by a signal. A slot runs one function; functions send queries through
the one `QueryClient`, start `ProcessRequest`s and read and write files, and emit
`finished`. `ConfHandler` announces changes to everybody with a mask, and everybody
tells the DC of changes with a `StateVariable`. What the functions share, and what
therefore goes wrong between their callbacks, is the disk: measurement directories,
the step file, the saved request, the result of an update, `ML.xml`, the
configuration.

What is hard here:

* *Requests in parallel.* A DC request runs beside an ordinary one, a `guiIO` beside
  both: functions written for one caller share files.
* *Re-entrancy.* `execute()` may finish the request before it returns; the handler
  of `finished` starts the next one. A subscriber of the configuration changes the
  configuration.
* *Lost and late messages.* Frames are damaged, confirmations come after the
  timer, a write fails, the USB link is reset while queries wait, the DC restarts
  and forgets.
* *Restarts in the middle.* An update restarts the SIC; a procedure must go on
  where it was. Power may be lost between two writes.
* *Processes that are replaced.* A `ProcessRequest` that is assigned over is
  destroyed with its callback while its process goes on.
* *Exceptions out of callbacks.* They are not caught anywhere and end the daemon.
* *Whoever asks must be answered.* A slot without an answer blocks its queue for
  ever, and a script may wait for an answer of the daemon that waits for it.

`PROJECT.json` lists the hazards at their lines with the properties that are about
them. Two have none. The disk alarm may remove a flagged measurement between the
write of its new version and the callback that would take the flag away
(`disk_usage_manager.cc:51`), and `dataSync` is answered with 200. And a result for a
client that has gone ends the daemon (`xml_request.cc:106`). Both steps are in the
models; nothing in the code promises that the data, or the daemon, is still there.

## 2. How the project is built

| Order | Module | Extends or composes | Run | Proofs |
|---|---|---|---|---|
| 1 | XmlProcessor | | XmlProcessorSlots, XmlProcessorGui | XmlProcessorProofs |
| 2 | SerialLink | implements MessageChannel | SerialLink, SerialLinkMerge | SerialLinkProofs |
| 3 | DcQueries | implements QueryService | DcQueries, DcQueriesLag | DcQueriesProofs |
| 4 | Procedure | | Procedure, ProcedureOverlap | ProcedureProofs |
| 5 | Measurements | | Measurements | MeasurementsProofs |
| 6 | StateVariables, Boot, Update | each extends the one before | Update, BootRetry | UpdateProofs |
| 7 | ConfFile, MeasurementIds | | Services | PartsProofs |
| 8 | Configuration, SystemLog, Alarms (extends SystemLog), Watchdogs, Monitors, WebServer, FunctionCalls, Exports, Connections | MCServices | Services | ServicesProofs, PartsProofs |

`ServicesProofs` has the proofs of the parts of its row but Monitors, Exports and
Connections, each about the specification of its part (`CgSpec`, `WlSpec`, ...).
`PartsProofs` has those of the other parts and puts all of them together, in the
specification `MCSpec` that the run checks.

The modules of the last two rows share no step with each other, so that one run
checks them all: a behaviour of `MCServices` is one of the part that its variable
`part` names, and the states of the parts add up instead of being multiplied.

A property of such a part is a conjunction of named ones (`ConfigurationSurvives ==
SettingsSurvive /\ PasswordsKept /\ SomeCopyIsWhole`); section 3 gives the names of the
parts as well, since these are what the modules explain.

Every property that a run checks has a mutant in a module: an operator named after
the definition it replaces, with the plausible mistake described in its comment,
under which TLC finds the property violated. Mutants are not part of any
specification.

What is left for later: two calls at once in `FunctionCalls`, which has one because
`XmlProcessor` has the slots.

## 3. Modules, runs and what they show

### XmlProcessor: the scheduler

`current`, `queue` are the three `_current_...` and `_..._queue` members; the queues
are sets because the order in a priority queue is a function of its contents
(`Prio` and `ts`). `executing` names the slot whose `execute()` is on the stack.
`ParseAndStart`, `ParseAndQueue`, ... are the branches of `parse_stream`;
`FunctionFinished` with `ExecutePending` and `ExecuteFinishes` are the three
`on_..._finished` handlers, synchronous completion included. Clients close volatile
connections; `alive` turns false when an exception leaves a callback.

* **XmlProcessorSlots** (pass): a procedure whose script asks the user, three
  `guiIO`, a web client that may go away and three DC requests. `SlotsAreSound`: each
  request is in one place (`OnePlace`), no slot is idle with work
  (`NoIdleSlotWithWork`), the DC never waits behind others (`DcNotBehindOthers`).
  No request starts while one
  that goes before it waits for the same slot: a higher priority first, equal ones the
  oldest first (`StartsInOrder`). Everything is answered (`EveryRequestAnswered`), as long as the
  daemon runs: a result for a client that has gone ends it.
* **XmlProcessorGui** (violation): `_gui_queue` is constructed without its comparator;
  the second request pushed onto it throws.

Seen besides: the FIFO order that a comment promises (`xml_processor.cc:93`) is one
within a queue; a DC request overtakes an equal older one that waits in the other
queue.

Bounds: the requests of the MC module, each sent once. Three requests for one slot
are needed for a queue whose order matters; the mixture contains each kind of
priority, a nested request, and each kind of connection. The constraint `Apart` keeps the
third `guiIO` and the client that goes away from the second and third request of
the DC. Fairness: `execute()` returns and functions finish, since their processes and
queries have timeouts; a `guiIO` without a timeout is answered by the user. A call whose
script has sent a request waits for it (`WaitsForScript`).

### SerialLink, MessageChannel: the RS422 protocol

Both ends run the same handler, as the test program does. An end is a record of the
handler's members, its methods are operators on it, what it writes goes to `line`.
The line may damage, lose or truncate a frame, a timer may run out early, the
counters are uninitialised (`Garbage`). `MessageChannel` is what users expect: messages
complete, in order, once; after a disturbance skipped or repeated, never reordered.

* **SerialLink** (pass): who waits has a timer and nobody else (`WaitsWithTimer`),
  short messages that were confirmed were delivered (`ShortCompletedWasDelivered`), waiting
  ends (`EveryMessageSettles`), and the link implements the channel (`IsMessageChannel`).
* **SerialLinkMerge** (violation): a damaged frame of a longer message; the message is
  confirmed and never delivered. With three frames no damage is needed: `pushFrame`
  ignores the number of a frame, so that one sent again after a late confirmation counts
  twice. `ShortCompletedWasDelivered` therefore ends at two frames.

Bounds: three messages, one of two frames, both directions; one disturbance and one
early timer, `Modulus` 3 (1000 in the code) and `TimeoutMax` 3, `ErrorMax` 2. One
fault is enough for each branch of the receiver; the ids wrap in the run. Fairness: bytes are read,
confirmation timers run out; the frame timer is not needed.

### DcQueries, QueryService: queries to the DC

`map`, `timer`, `watching` are `_query_map` and the two connections of each query;
`tx` is the queue of the selected handler. The USB handler writes at once and may
fail, be reset and reconnect; the RS422 handler is seen through what `SerialLink`
promises: head of the queue received, confirmed or given up. `QueryService` is what
callers rely on.

* **DcQueries** (pass): no timer or callback outlives its query (`NoStrayCallbacks`), a query
  that is not `guiIO` has its timeout or is queued (`TimedOrQueued`), the client
  implements the service, so that no query finishes twice (`IsQueryService`), and ends
  unless a message was lost (`TimedQueryFinishesUnlessLost`).
* **DcQueriesLag** (violation): one failed write, and the last query is neither sent
  nor timed.

Bounds: two queries and a `guiIO`; one of each failure, two outages. Each failure
is independent of the number of queries but for the lag, which needs two. Fairness:
timers run out and the RS422 handler works through its queue. That the DC answers is *not*
assumed.

### Procedure

What is on disk (`stepFile`, `saveFile`, `executed`, `update`), in memory
(`current`, `queue`, `call`), and the history the properties speak of. The handlers
are those of `core_function_procedure.cc`; the writes of `shutdown_procedure` are
separate steps because a restart between them matters, and so are the two of
`get_current_proc_step` when the result of an update is found at the boot (`Boot`). The model is of the Release
build, in which assertions are compiled out. Step file and saved request are replaced
by a rename; the count of executions is written in place, and taken as written at once.

* **Procedure** (pass): steps are not skipped over restarts, and none but the last one
  and an update of the DC is repeated (`StepsInOrder`), nor tried for ever
  (`TriesBounded`), the limit on executions holds but for the moment of
  counting (`ExecLimitHolds`), "ok" means done (`OkMeansDone`), a procedure that
  was begun is answered (`AcceptedIsAnswered`).
* **ProcedureOverlap** (violation): a second procedure replaces the saved one while
  the first runs.

Seen besides: the boot notes the step after an update and then deletes the result of the
update (`procedure_step_handler.cc:77`, `:78`). A restart between the two counts the result
twice: a step is skipped, and "ok" told in the end. `recounted` says that this has
happened and excuses it in `StepsInOrder` and `OkMeansDone`. A failed update in the last
step is counted and answered as a success (`core_function_procedure.cc:388`). `exec="0"` permits one execution, and an id that
procedures without `exec` use as well is not counted by these
(`procedure_step_handler.cc:203-263`; found by the proof of `ExecLimitHolds`).

Bounds: three procedures that have each kind of step, an update in the middle and at
the end; two restarts, at any write; one retry (three in the code); one procedure accepted at a
time, two in the overlap run. The safety properties assume no failed update
(`badUpdate`), because of the above. Fairness: functions end, the user and the DC
answer, the daemon is started again.

### Measurements

One measurement directory: the measurement (`raw`, with `writes` versions), its
generated files (`cache`), the flag for deletion, and what each slot is doing (`job`). A file holds nothing, a part, or a version. Gio's
semantics are modelled, since all hinges on them: a stream creates the file in place
if there is none, and otherwise writes beside it and renames on closing. Other calls
and frees remove either under a running postprocessor.

* **Measurements** (pass): a delivered file is never older than the last `dataSync`
  acknowledged before the call (`FreshDelivery`), two postprocessors never write one
  file in place (`OneWriter`), the daemon ends only by a file taken from a running
  generator, or by the message for one that cannot be run (`TerminationHasCause`),
  `dataOut` leaves no partial file unless that message ends it (`DataOutLeavesNoOrphan`),
  all are answered (`EveryCallAnswered`).

For an entry after the first that message is a string made of two unrelated pointers
(`core_function_data_out.cc:470-472`). What this does is undefined: when it throws, it does so
before the file is removed and the call answered (`MessageFails`), and unless an entry that
was skipped in the same callback catches it, it leaves a callback of the main loop.

`FreshDelivery` allows partial files: a call that finds the file another one is
generating, or one left by a power loss, delivers it. This is the code's behaviour
(`core_function_data_out.cc:169` tests for existence only).

Bounds: two slots, which is what the scheduler offers to these functions; two files, so that a
queue has a next entry; two writes of the measurement, so that there is an old
version to confuse. Restarts are not bounded. Fairness: file operations and processes end
(they have timeouts), and their callbacks are dispatched.

Abstracted: the ids in `ML.xml` are in MeasurementIds;
`remove_directory` and the removal of the results are one step; a postprocessor that
reads a partial measurement fails; the selection of formats and the destinations are in
Exports. Not modelled: a removal in `delete_post_processing_results` that fails, as it does
for a temporary file that its generator renames meanwhile; it is caught and leaves the
further files where they are (`core_function_data_sync.cc:239`).

### StateVariables, Boot, Update: the device

`StateVariables` has the members of all variables in `sic` (what each has told,
asks, has pending), what is on the way to the DC in `wire`, and what the DC knows in
`dc`. `set_state` is called in the middle of other callbacks, so the methods of the
class are operators on `sic`. `Boot` adds the stages of `libzix.cc` and the Samba mounter,
whose signal the last stage waits for; a replaced process is one that nobody watches.
`Update` adds one update on the running device.

* **Update** (pass): the DC hears "ready" only when all interfaces were created, once,
  and all other states were told (`ReadyAfterAll`); between its queries it knows every
  state whose query did not fail, also after its own restart (`StatesAreTold`); the
  mounter is right about the share (`MountStateIsTrue`); the boot finishes
  (`BootFinishes`); every update is answered or restarts the SIC (`UpdateEnds`).
* **BootRetry** (violation): the retry that the comment promises is a no-op, because the
  failed query has left the state pending.

Seen besides: when a query crosses the restart of the DC the replay is incomplete
(`debian/changelog:186` promises all states; `crossed` excuses it in `StatesAreTold`); two processes of the
mounter may overlap (`overlapped`); an image that goes away between check and sending
ends the daemon.

Bounds: the master, the folder and one more variable, the least in which "ready"
waits for a variable other than the folder; two states for each; `MaxEvents` 2 lost
queries or changes from outside together. Assumed of the times in the code: the DC
has begun its restart before the USB device is opened again (20 s) and ended it
before the replay. Fairness: queries end (with a timeout), processes end, timers
run out, every monitor reports once, the DC reads and restarts.

### The parts of the Services run

All in **Services** (pass). `PartsTypeOK` is the type invariant of all, `StepsKeep` and
`PartsSettle` collect the action and liveness properties. Where a property has an
exception in its text, the exception is what the code does.

**ConfFile.** The document in memory, the file, the temporary file and the backup, of
which each has a version, a length, a key and how often its passwords are crypted.
`ConfigurationSurvives`: no power failure takes the settings behind the last completed save
(`SettingsSurvive`), a readable copy exists at every moment (`SomeCopyIsWhole`), passwords
that were set here can be read (`PasswordsKept`). Exceptions: the temporary file is opened
without truncating it, so that a shorter document keeps the end of an interrupted
longer one (`cfLoss`; `debian/changelog:316`); import and the backup garble
passwords. Bounds: four changes, two power failures, one full disk: a failure before and
one after the rename.

**Configuration.** `ChangesReachAll`: what the document says is in use by its
handlers, the interface with its mode and address included (`HandlersAdopt`), and when all
answers are there the DC knows the network that it was told (`DcKnowsNetwork`). It is told
by the assign and reset commands of the configuration tool and by the replay after an
update. `setConf`, a node and `resetConf` tell it nothing, so that after they have changed
the network the DC is behind until the next that does, as after a failed query. `LeaseIsWritten`: a DHCP lease reaches the configuration. Seen
besides: with DHCP the update of the network clears the mask that the later handlers get by
reference (`conf_handler.h:66-72`), and these miss the change; the assign command writes its
settings for nobody; `resetConf` and a change by a node emit no
`confChanged` (`debian/changelog:207`). `HandlersAdopt` excepts the handlers that such a change has not reached, until they
agree with the document again. Bounds: three
operations, each of which may be a `setConf`, a reset, an assign command, a lease or a
restart of the DC. Fairness: the reread timer.

**SystemLog, Alarms.** `LogIsTrue`: what `flush` would write is the newest of the
waiting entries, in order, after any changes of the buffer's size
(`RingHoldsNewest`), nothing is written twice unless a flush was broken off
(`LoggedOnce`), and the level is raised while an alarm is on and back at the
configured one when the last has gone (`LevelFollowsAlarms`). `RemovesFlaggedOnly`: an alarm
frees flagged measurements, no more than it has to, and stops early only when a removal
throws. Seen besides: a level that is configured during an alarm is in force at once
(`log_handler.cc:251-256`) and lost when the alarm goes, since `slotAlarm` puts back the one
from before (`monitor_manager.cc:143`, `:152`); a removal that throws after the file `.delete`
is gone leaves a measurement that is not flagged any more (`disk_usage_manager.cc:68`).
Not modelled: the log stays closed when truncating it fails after the file was closed.
Bounds: sizes 0, 2 and 3, five entries, so that the ring wraps;
three monitors, three measurements, three rounds or changes of the level.

**Watchdogs.** The shared folder and the stick, their lists and scripts.
`WatchdogsAgree`: a file is given on once (`TakenOnce`, `UsbOncePerPlug`), and the DC is told of
the stick that is there (`UsbStateTrue`). `MovedWasTaken`: none is moved that was not given on.
`FilesAreTaken`, `UsbListEnds`: every file is given on or moved, every list ends.
Exceptions: a missing script of an input processor stops every round; a batch file that
cannot be opened or read is only logged (`watchdog.cc:107-110`, `119-122`), and `next()`
moves it to the log folder all the same (`:191`). Bounds: three
files, two troubles (a full log folder, a file that cannot be read, a lost share, a change of
the configuration), three plugs; the files of a stick can be read. Fairness: the timer and the scripts; scripts have timeouts.

**Monitors.** `MonitorsSettle`: when the network stays as it is, states and printers
come to tell of it for good, whatever late results do. Exceptions: the time is never
told when the first query to the DC fails; and a process that does not end before the next
tick of its monitor is replaced, its result dropped. `lpstat` has no timeout
(`printer_monitor.cc:66`), those of `ping` and `ntpstat` are longer than their ticks: if from
some time on this happens at every tick, the state told last stands for ever, as the
property says. Bound: one change of the world, since
settling is about what follows the last. Fairness: timers and the query; that a process ends is not
assumed.
Seen besides: the port of a LAN socket is cut one character off
(`lan_socket_monitor.cc:76-80`).

**WebServer.** `ServerFollows`: when all has ended the server listens as
configured. Exceptions, each since the last change that came while nothing ran:
`updateConfig` or its `sed` failed (`webservice.cc:76-81`, `87-90`), the script of the
service could not be started or failed (`start_stoppable.cc:57-60`, `113-115`), a command was
dropped because another ran, or a running `sed` was replaced. None is tried again, and the
next change that meets none of them mends all. That the script of the handler fails or cannot be started
does no harm, as the service runs its own. Bound: two changes, one that fails or
overlaps and one after it; the theorem is for any number.

**FunctionCalls.** One call through access, restrictions and signature to its
function and its answer. `CallsAreChecked`: nothing is done before the checks
have passed (`NothingUnchecked`), what was done is told, 200 only when every file was handled
at its host (`AnswerTellsEffects`), what was refused is told (`RefusalIsTold`), no temporary
file stays (`NoTempLeft`). A call that is refused by its restrictions "is not fatal"
(`function_call_restricted.cc:38-43`): it is answered 200 with nothing done, which no
other call is. `CallEnds`: every call is
answered, but for a `setFile` with an unknown host, which is never answered and keeps
its slot, and `delFile` and `getFile` without a file, which end the daemon. A
restriction that is needed but not given is not refused (`xml_function.cc:217`).
The initial states are each file function with each host and up to two files, and each
function with the interfaces, restrictions and signatures that its tables tell apart.

**MeasurementIds.** `ML.xml` and its save. `MappingsHold`: it is whole and has one mapping
for each measurement (`OneMappingEach`, `MappingsSurvive`). `IdStays`: a measurement keeps its id but
for a request of its own. `IdKeepsItsMeasurement`: an id finds the same measurement, unless one that
stands before it in the file takes the id over. Seen besides: a failed save is
swallowed by `dataSync`; `getMeasurementsList` answers twice when the file is damaged
(`core_function_get_measurements_list.cc:70-84`). Bound: three requests, over two
measurements and two ids: one to store, one to confuse, one to free.

**Exports.** One `dataOut` from the selection of postprocessors to its answer.
`ExportsHold`: the queue names what the folders are to get by the configuration alone, each
file once (`QueueIsWanted`), an OK means that everything is there, once
(`OkMeansDelivered`), and a whole configuration at the destination is a signed one
(`ConfigIsSigned`). `ExportEnds`: every
call is answered, but the daemon ends when the stick is pulled while signing or the
measurement is freed under a generator. Seen besides: one folder with an
unknown format fails the whole export; an answer may leave temporary files when
`openssl` cannot be started. The combinations of type, destination and up to two
folders are initial states. Fairness: the steps of the call itself.

**Connections.** `ConnectionsHold`: requests reach the scheduler as they were sent, wherever
reads cut the stream (`RequestsAsSent`, `PiecesAreOpen`), results go out whole
(`ResultWhole`), connections of files are those that wait for an answer (`ListIsTrue`).
`FilesAreAnswered`: every file with a request is. Exceptions: a result with characters of two bytes that
does not fit the socket (`socket_interface_connection.cc:30` counts bytes and cuts
characters); the connection of an empty file stays. Bounds: five bytes, reads of up to
three, so that a terminator comes at each place of a read; three files.

Bounds of the run: each is named in the cfg and guards one kind of step; they are added
over the parts.

## 4. Proofs

The proof modules hold for every set of requests, queries, slots, files and messages
and for any bounds; the runs above check the same formulas on instances. The type
invariants of their modules are proved and therefore not in the runs, but for
those of Update and of the parts of Services.

**XmlProcessorProofs.** The invariant is `TypeOK`, `OnePlace`, `NoIdleSlotWithWork`,
`DcNotBehindOthers` and `ExecutingBusy`: without the last a nested completion could
not be told from an idle slot. `OnePlace` is preserved because a new request is in no place
(`FreshNowhere`) and a finished one leaves its slot before the next is popped.
 Assumed: `RequestAssumption`, of which the last part is the code's own ("the scripts only
call guiIO").

**SerialLinkProofs.** The invariant is `TypeOK` and `Ready` of both ends: who waits for a
confirmation has its timer, and a message and a frame to send again. Without the
latter `WaitsWithTimer` could not be kept by the timer itself, which resends. Each operator
on an end is shown to return one that is `Ready`, so that the actions, which
compose them, are short. Assumed: `LinkAssumption`, and that "none" is not a frame.

That the link implements `MessageChannel` needs what is on its way. `Wire` is what an
end has still to read, the frame that it is reading included. Two invariants relate it
to the messages submitted. `OrderInv` holds whatever happens: the queue of an end is the rest of
what it has submitted (`Queued`), and the last message delivered, the payload frames on the
wire and the message being sent are in that order (`Passed`). So a
disturbed line repeats and skips, but never goes back: resending and giving up do not change the message that is
being sent, and the pieces merged are emitted only if the last of them has the message of the
frame that was just read (`EmittedIsDigested`). `CalmInv` holds as long as nothing was lost, damaged or late: either the one
payload frame sent is on its way, and the receiver has merged all before it (`Asked`),
or the confirmation is, and it has merged that one too (`Answered`). Then
a frame that ends is whole, and no timer runs out in time
(`CalmReading`, `CalmWaiting`), so that every disturbance is counted. `ChannelStep` maps each step
to one of `MessageChannel`; `UndisturbedIsDelivered` is read off `CalmInv`. That `Msg` is
submitted once is the history's way to tell messages apart. The fairness of
`IsMessageChannel` stays with the run.

`ShortIsDelivered` speaks of a line that does misbehave. A sender takes any
acknowledgement with the mid of its frame for the one it waits for, so that what has to be
excluded is an old frame that has the mid of a new one. `FlowInv` does: on the
wire of payload frames and on that of confirmations the mids only grow (`Pipe`), what is
acknowledged was received, and their number is bounded by what has gone wrong (`Slack`,
`Extra`, `OnWay`): a timer that runs out early is worth one frame too many, a lost start
byte a burst of NAKs. As long as
that is less than `Modulus`, no frame is old enough to be taken for a new one (`Young`).
That is `FewDisturbances`: `early + (NfBurst + 4) * faults < Modulus`, and both ends
listen. The bound is what the proof needs, and some bound is needed: with as many
frames on the line as there are mids an old acknowledgement confirms a new frame. `FramedInv` adds
that a damaged frame has its fault, and `ContentInv` what an acknowledgement on its way tells its
sender (`Told`): a message of one frame was given to the user, of one of two frames
the first is held until the second arrives. That the latter is not so after a
fault is the finding of SerialLinkMerge.

**DcQueriesProofs.** `Inv` says that timers and connections belong to queries of the
map and that these have not been answered (`MapIsUnanswered`); so nothing that is removed
can be answered again (`FinishedAtMostOnce`). `BacklogBounded` carries the count of failures:
the queue of the USB handler lags by failed writes only.
`ImplementsQueryService` maps each step to `Ask`, `Refuse`, `Answer` or a stutter.
`TimeoutNeverMissing` is conditional on losses, and `NothingLostBefore` shows the
condition held before if it holds now. Assumed: `QueriesAssumption`.

**ProcedureProofs.** `StepsInOrder`, `TriesBounded`, `OkMeansDone` and `ExecLimitHolds` speak of
what happened to a procedure, and a restart forgets all that is in memory. So the
invariant `PrInv` relates the history to the two files (`FilesAgree`: a procedure
that can be resumed has succeeded in the steps before the noted one and was tried no
more often than noted), and the queue and the call to these (`QueueAgrees`,
`RunningAgrees`, `EndingAgrees`). The end of a procedure takes three writes, and
`CountsAgree` knows in which a completed procedure is not counted yet. After a result was
counted twice the order is lost (`InOrder` excuses it), and what bounds retries and
executions is carried on (`TriesHold`). Conditions:
one procedure at a time (`MaxAccepted = 1`), since ProcedureOverlap refutes it for two;
no failed update; for the order of the steps and the "ok" no result of an update that was
counted twice; and for `ExecLimitHolds` that `exec` is given for all procedures of
an id and is not 0 (`LimitsCount`), which the proof showed to be needed. Assumed:
`ProcedureAssumption`.

**MeasurementsProofs.** A callback goes through several intermediate jobs and sets of
files before it returns, so the invariant is stated over such values (`Good`,
`JobsInv`, `JobInv`). Its core is `Attached`: a generator whose file is still in
the directory has read no version older than `synced`, and if it writes in place
its file is there and unfinished. `dataSync` may raise `synced` because it detaches
every generator (`WithoutFilesInv`); a file that is finished is fresh because only
an attached generator can finish it (`ClosedInv`). That unfinished files are present makes
a second generator skip them (`OneWriter`), and makes `del_file` fail only for
a detached one; the other cause of `TerminationHasCause` is the message for a generator that
cannot be run. `NoOrphanOfDataOut` is about a step, so the
callback is followed backwards: what is a part that nobody writes after `Proceed` was one
among the other slots before (`ProceedLeaves`), because the file a generator is started
for has its writer and that of one that cannot be run is deleted, unless the message before
it ends the daemon. Assumed: `FilesAssumption`.

**ServicesProofs.** One invariant for each part, under `ASSUME`s that only say that
bounds are natural numbers.

* *WebServer.* While nothing of the last change has gone wrong, `WsOrderly` says whose
  scripts are still to run: with `sed` the one of the handler alone, after it at most the
  restart of the service, which is the one that counts (`ServerFollows`).
* *FunctionCalls.* `CallOK` says of each phase what the checks before it have found, and of
  the main phase that its place in the list counts what was done. `AnyCallIsChecked`
  is about calls with lists of files and restrictions of any length (`CaAnyInit`), of which
  the run has short ones.
* *Watchdogs.* A small file that is there and not excused was not given on, but for the
  script that runs (`LanFilesOK`), whatever could not be read; this is what `TakenOnce` and `MovedWasTaken` need over the rounds
  of the timer. The signals of udisks are read late: those about one stick alternate, end with how it
  is now, and for the stick that is mounted begin with its removal (`SignalsOK`), so that the
  state in force when all are read is that of the stick (`UsbStateTrue`, `UsbOncePerPlug`).
* *SystemLog, Alarms.* `RingHolds` places the entry of `k` steps ago `k` places before the
  index, over the beginning of the array, and a change of the size replays the
  contents (`RingContents`). The alarms keep `AlGood` in the middle of `slotAlarm` too, since one
  alarm logs, changes the level and logs again; `RemovesFlaggedOnly` follows with it.
* *Configuration.* `ChangesReachAll` speaks of the end of all queries, so that `CgIInv` has to
  say what they will do: the last query with the mode has that of the document, and unless a
  query that is followed by the address is under way, the last one with the address
  has that (`ModeKnown`, `AddressKnown`; `ModeShift`, `AddressShift` for an answer).
  `HandlersRun` says what the handlers of a mask have done when the network may have
  cleared it. That a `setConf` of the host name sets up the network at once, from the
  document, is a case of its own (`HostSet`).

**PartsProofs.** *ConfFile.* `SettingsSurvive` says nothing of the file that the next boot reads,
and `PasswordsKept` nothing of how often that file is crypted. `CfIInv` adds both:
what `save` has written has its own passwords crypted once (`Written`), the
configuration is not older than the last completed save (`Latest`), and between rename
and backup it is the document in memory (`Saving`). Assumed: a rename is atomic and
durable (`save` calls `fsync` before), and `ConfFileLimits`.

*MeasurementIds.* `MpIInv` says that the document being saved has one mapping for
each measurement and differs from the file by its own request only
(`ChangesOnlyFor`), so that the rename of the file takes the id of no other
measurement. It also says that no id finds another measurement but by that request
(`FindsOnlyFor`). `get_iid` takes the first mapping with the id, and that there is a first
one is the well-foundedness of the numbers (`LeastNumber`). Assumed of it: the rename as above.

*Connections.* `ConnectionsHold` is proved of streams of any length and reads of any size.
What counts is where the stream that was read is cut: behind one terminator all is
still in `_bytes_list`, in pieces without one, and the segments before it are the requests
(`StreamIsCut`, with `Cut`). A read moves the cut from terminator to terminator. The loop of
`received_bytes` is a recursive function, of which the library proves nothing, as its
induction theorems take a predicate. `LeastNumber` and `NumberInduction` therefore speak of
sets of numbers, and `LoopExists` and `LoopKeeps` of loops: with a measure that
gets less with each pass, here the length of the last piece, there is such a function, and
what a pass keeps holds of its result. `FlattenIs` and `FlattenAppend` do that for
`FlattenSeq`. `WritesGoOn` says what the client has of a result that is being written:
all or nothing while no write was partial, and the first `written` bytes where each
character is one byte. Results are of one or two characters, as in the module;
that is the part of this theorem which is no more general than the run. Assumed:
`ConnectionAssumption`, which gives the constants their ranges.

*Exports.* The theorem is about any call and any lists of folders and files, provided that
the folders differ in their ids and the files of the measurement in kind or tag
(`NamesOnce`). The second is what names them on the disk; the first is true of `defaults.xml`,
and two folders with one id cannot be told apart by a call that asks for one of them. Two
invariants: `ExIInv` says what has arrived at each point of the call, if its queue is one
(`Progress`: entry by entry while it copies, nothing before, and all of it once
it is answered with 200), whatever is taken away meanwhile. `ExTypeIInv` has the types, and
that a queue, once there, stays the wanted one, as nothing it was made of changes later
(`QueueStands`). That `build_queue` makes the set `Wanted`, without
repetition, is a chain of lemmas about lists: a selection has the selected entries in
their order (`ThoseAre`), lists without repetition that share no entry make one without
(`FlattenOnce`), and the entries of a folder are told from those of another by its id and from
each other by extension and tag (`EntriesAre`, `BuildQueueIs`).

*The parts together.* Every step of `MCNext` is one of the part that `part` names and leaves
the variables of the others alone (`OnePartSteps`), and each initial state is one of each part
(`PartsBegin`); so a behaviour of `MCSpec` is a behaviour of each part's own
specification (`PartsRun`). With it the theorems above, and those of
`ServicesProofs`, hold of the composition that the run checks: `PartsKeepTypes`,
`StepsAlwaysKeep`, `PartsKeepPromises`. The type invariants of Monitors and of `ML.xml`
are proved for that (`MonitorTypes`, `MappingTypes`).

**UpdateProofs.** `ReadyAfterAll` is about what the DC knows, `current` about what the
daemon believes it knows, and between them are the wire and the replies. `Sound` relates
them for the members at any point inside a callback: a variable has at most one query,
what is on the wire or replied is what it asked, "ready" is pending at the master only
when all others have submitted, and a submitted variable has a state. Each method of
the class is shown to keep it (`StartQuerySound` to `AfterCallbackSound`), so that a callback,
which calls several, needs no more than their composition. That `init_part3` ran once comes
from the places of the callback of the boot (`Calls`): it is in one of the two
slots of the master or in a timer, and nowhere after the stage it leads to. A restart of the DC
forgets "ready", and the replay can bring it back only because `current` is kept.

`StatesAreTold` needs to know of each message what it will do when the DC reads it, and of
each variable what is not on its way. `Tracks` relates them for the variables that count
(`Tracked`: no query failed, none crossed the replay): a message of `v` tells what `v` will
take for told when the answer comes, and without one the DC knows `current` already
(`Flies`); nothing is pending while no query is under way (`Even`), a variable that has not
submitted was never told (`Fresh`), so that the replay, which leaves it out, loses nothing,
and what is pending is what was set last (`Wants`). The replay is the hard case: it tells
the states of the moment it was made and is read later. `Replayed` says that all that a
variable tells meanwhile is behind it on the wire, so that it overwrites nothing newer. That
is why a query under way when the replay is sent has to be excepted: without `crossed`, the
one step that cannot be proved is `ReplayInv`. Each method of the class keeps this for the variable it is
called for, given the rest of it for the others (`OthersTold`), and the update keeps
it because it has no query of its own before it sends one (`Alone`).

`MountStateIsTrue` follows from `MountSound`: while processes have not overlapped there is
at most one, it is watched, and it is a mount exactly when nothing is mounted, since
`mount()` is called at the start of the mounter, when `_is_mounted` is false, or after an
umount.

Assumed: `StateVariablesAssumption`, `BootAssumption`
and `UpdateAssumption`, of which the first says that no state variable is called as the sender of
the update's queries and that the value of a state that is not known yet is not a
state.

Only model-checked: all liveness properties (`ExportEnds`, `MonitorsSettle`,
`AcceptedIsAnswered` and the others) and what refinements need of fairness, which is outside
the prover's scope; `ShortCompletedWasDelivered` once the line has misbehaved as often as
there are mids. `RECURSIVE` is not used. `SelectSeq` has no meaning for the provers: it is
defined by a local recursive operator of the library. So `Exports` and `MeasurementIds`
select with `FlattenSeq`, of which `FlattenIs` and `FlattenAppend` are proved.

## 5. Not modelled

* *XML classes, formatting and parsing*, the system's tables (`/proc`, `lpstat`, `ntpstat`),
  the contents of files and the key of signatures: data with no state that the
  properties depend on. What a parser returns is chosen.
* *Port settings* of the serial interfaces (the comment says seven data bits by
  default, the code sets eight) and the byte layout of frames.
* *Partial writes of a frame* over USB and a second reset before the first reconnection
  (`usbserial_interface_handler.cc:558`).
* *The timer of a process that outlives it* (`process_request.cc:75`): it is never
  disconnected, and a request that is kept kills whatever has its pid by then. Pids
  are not in the model.
* *Procedures inside procedures*, and a restart inside the boot but for the two writes of
  a procedure that is resumed.
* *Setting the clock* of either side after the NTP monitor, `main` and `exit`: nothing
  else depends on them.
* *The look-ups in the tree of parameters* (`ConfHandler`, 500 lines of it): reads.
* *Several folders and partitions* in the watchdogs: they share no state.
* *Test programs, Perl clients, postprocessors, packaging*: read for what they expect of
  the daemon, not part of it.
