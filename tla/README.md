# kanata: a TLA+ development

kanata reads key events from the input devices, turns them into other key events
as a configuration says, and writes these to the OS. This directory holds TLA+
specifications of its core, configurations that check them with TLC, and proofs
checked by TLAPS. `PROJECT.json` lists the runs, the seeded faults that each
property catches, the source lines of every definition, the hazards and the
findings. Paths below are relative to `src/`.

    tlc -workers 2 -config Kanata.cfg MCKanata.tla
    tlapm MacroProofs.tla

## 1. Inventory

### 1.1 Components

| component | state | operations | what makes it correct |
|---|---|---|---|
| Linux event loop (`src/kanata/linux.rs`) | `MAPPED_KEYS`, `PRESSED_KEYS` (globals) | read an event, write an unmapped one to the OS, `try_send` a mapped one | press and release of a key take the same way |
| processing loop (`src/kanata/mod.rs`) | the channel's receiver; the `Kanata` value | start phase, blocking and polling pass, `handle_input_event`, `tick_ms`, `is_idle` | it never sleeps through work; what goes down at the OS comes up |
| batch sort (`collect_and_sort_events`) | none | sort the events waiting in the channel | the events of one key keep their order |
| live reload (`do_live_reload`, `handle_client_command`) | `live_reload_requested`, `cur_cfg_idx`, `last_reload_ok` | request, carry out, report | happens when asked for; never under a held key; the report is true |
| TCP server (`src/tcp_server.rs`) | one thread per client, `connections` | reload (with or without wait), virtual keys, layers, mouse, queries, broadcasts | every change is followed by a wakeup |
| tick clock (`get_ms_elapsed`, `millisecond_counting.rs`) | `last_tick`, `time_remainder` | count the milliseconds of a pass | ticks keep up with time |
| layout (`keyberon/src/layout.rs`) | `queue`, `waiting`, `extra_waiting`, `states`, `oneshot`, `last_press_tracker`, `tap_dance_eager`, `action_queue`, `custom_release_queue`, `active_sequences`, `default_layer`, `rpt_action`, three histories ... | `event`, `tick`, `do_action` | nothing sticks, every decision is made, timing is physical |
| one-shot state (in `layout.rs`) | active keys, delayed releases, `timeout`, `end_config`, pauses | `tick_osh`, `handle_press`, `handle_release` | applies to one key or until released; ends |
| chords v2 (`keyberon/src/chord.rs`) | its own queue, active chords, the ticks until its state may change | queue an event, give up the events of no further use, open and end chords | every event comes out once, in order and in time; chords end |
| switch (`keyberon/src/action/switch.rs`) | none | encode an expression as opcodes, evaluate them, choose the actions | equals the expression it was encoded from |
| output pipeline (`handle_keystate_changes`) | `cur_keys`, `prev_keys`, unmodded and unshifted keys | from the layout's keys to presses and releases at the OS | the OS holds, and types, what is configured |
| key overrides (`parser/src/cfg/key_override.rs`) | the keys found and to remove | replace keys under modifiers | the same, whatever is pressed meanwhile |
| sequences (`src/kanata/sequences.rs`) | mode, keys so far in two spellings, timeout | leader, press, overlap, complete, cancel, erase | what completes was typed; what is erased was typed for it |
| caps-word (`caps_word.rs`), mouse and scrolling | a timer each | add shift; move and scroll per tick | they end |
| dynamic macros (`dynamic_macro.rs`) | recording, queue of the replay, `dynamic_macros` | record, save, replay, the two loops of `tick_ms` | replay is what was recorded, in its time; keys come up |
| zippychord (`src/kanata/output_logic/zippychord.rs`) | keys pressed, counters of characters, two timers, the follow-up chords | press, release, tick | the output takes the place of what was typed for it |
| Linux devices (`src/oskbd/linux.rs`) | `devices`, `missing_device_paths`, the inotify watch | discover, register, poll, forget, rediscover | every wanted keyboard that is there is read, and nothing else |
| Windows hook and preprocessor (`src/kanata/windows/llhook.rs`) | `PRESSED_KEYS`, `lctl_state` | take an event or hand it back, cancel the control of AltGr, clear, synchronise | Windows, hook and layout agree on what is down |
| macOS event loop (`src/kanata/macos.rs`, `src/oskbd/macos.rs`) | `grabbed`, `PRESSED_KEYS`, `output_pressed_since`, the lock flag | read, send, give the keyboards back, recover, take them again | recovers; what is typed in a locked session is not remapped; keys come up |
| macOS mouse (`src/oskbd/macos.rs`) | `driven_mouse_position` | move, move in one step, set, click | moves add up, and end on a display |
| tap-hold tracker, hardware repeat | the last activations; the keys down | notify TCP clients; repeat what the OS repeats | one notification per decision |
| parser, command and clipboard actions, GUI, the other back ends of Windows | - | I/O or pure | outside this project |

### 1.2 Interactions

The event loop, the processing loop and each TCP client are threads. They share
the `Kanata` value behind one mutex and a bounded channel whose only receiver is
the processing loop. A client changes the `Kanata` value under the mutex and
then sends a `WakeUp` on the channel. The processing loop works out under the
mutex whether it may block (`can_block_update_idle_waiting`), gives the mutex
back, and then either blocks on the channel or polls it and sleeps 1 ms.
Between the two steps anything may happen.

Inside a pass the loop hands input events to the layout (`event`, behind chords v2
where they are configured) and calls `tick_ms`: for each elapsed
millisecond a `tick_states`, which ticks the layout, reads the keys that it
now holds, takes away or adds keys (unmod, unshift, overrides, caps-word), compares the result with the
keys of the last tick, releases and presses the difference - by way of the
sequence mode and of zippychord - and performs the one custom action that the
layout may report per tick. Dynamic macros feed the events they replay back to the layout
between these ticks. The layout evaluates switch actions while it performs an action.

On Windows two threads stand in front of that channel: the hook, whose callback decides at once whether Windows may
have the event, and the preprocessor, which may hold a left control back. The processing loop changes the hook's
`PRESSED_KEYS` when it clears or synchronises its states. On macOS the event loop, a thread that polls the session and
the processing loop share the output: the processing loop drops what the virtual keyboard does not take, the event loop
recovers.

### 1.3 What is hard

* a wakeup lost between the check and the block; a client that fails half way;
* a list of timers kept by hand in `is_idle`: a forgotten one stops while the loop sleeps;
* a reload that replaces the layout while the OS holds keys that it pressed;
* press and release that are looked up separately, with a reload between them;
* a comparator that is not an order, used to sort events;
* undecided keys: events wait in a queue, and decisions must be made by the
  time at which events happened and not by the time at which they are seen;
* a shortcut that skips the chord queue until something can change in it;
* several custom actions of one tick, reported one per tick;
* a queue that overflows and then processes events out of the usual order;
* text that is typed, counted and erased again by three components independently;
* modifiers taken away from the OS around a key and given back afterwards;
* delays of a replay made up for by ticks in which another replay may begin;
* time that is kept in two places (`last_tick` and `time_remainder`);
* an expression flattened to jumps in 16-bit words;
* a hook that misses events while another program has the focus, and events that Windows invents;
* a virtual keyboard that goes away and comes back, and a screen lock that lands during a blocking read;
* devices that come and go at the same path between any two steps of the search for them;
* a cursor position that lags behind the moves.

`PROJECT.json` lists each with its line under `hazards`.

## 2. The modules

| component | operators | specification | instances | proofs |
|---|---|---|---|---|
| threads, live reload | - | `ProcessingLoop` | `MCProcessingLoop`, `MCParts` | `ProcessingLoopProofs` |
| tick clock | - | `TickClock` | `MCPlatforms` | `TickClockProofs` |
| layout | `OneShotState`, `ChordsV1`, `TapHoldClosures`, `Switch`, `Layout` | `LayoutSystem` | `MCLayout` | |
| chords v2 | `Queues`, `ChordsV2` | `ChordSystem`, implements `ChordFilter` | `MCChords` | `ChordProofs` |
| switch | `OpCode`, `Switch` | `SwitchSystem` | `MCParts` | `OpCodeProofs` |
| a tick of `Kanata` | `Layout`, `KeyFilters`, `SequenceMode`, `Kanata`, `OsKeyboard` | `KanataSystem` | `MCKanata` | |
| zippychord | `Zippychord`, `OsKeyboard` | `ZippySystem` | `MCParts` | `ZippyProofs` |
| dynamic macros | `DynamicMacro` | `MacroSystem`, implements `MacroStack` | `MCParts` | `MacroProofs` |
| Linux devices | - | `Devices` | `MCPlatforms` | `PlatformProofs` |
| Windows hook | - | `WinHook` | `MCPlatforms` | `WinHookProofs` |
| macOS event loop | - | `MacEventLoop` | `MCPlatforms` | `PlatformProofs` |
| macOS mouse | - | `MacMouse` | `MCPlatforms` | `PlatformProofs` |

An operator module translates the methods of a component: each is an operator
from the component's state to its state. The specification beside it has one action per thing
that happens to the component from outside. `MCParts` and `MCPlatforms` hold the instances of several parts that do not
interact: the variable `part` says which of them runs in a behaviour, the variables of the others keep their first values.
`OsKeyboard` is an external model: the keys down at the OS and the text in front of the cursor, with backspace,
shift and AltGr, as the user of a Linux input device sees them.

### 2.1 ProcessingLoop

`pc` is the place in `start_processing_loop`: `init` (the start phase, in which
presses are thrown away and releases forwarded), `check`, `block` and `poll`
(`rx.recv` and `rx.try_recv`), `collect` (`collect_and_sort_events`), `handle`
(the mutex is held), `tick` (the mutex is about to be taken for a pass without
events). Every other critical section is one action that needs `pc # "handle"`.
`inEvent` is the event in the hands of the event loop and how far it has got;
`chan` the channel; `alive` is false once the event loop has bailed out on a full
channel, which ends the process. `phys` is what the user holds and `osDown` what
the OS believes is held. `cpc[c]` is the place of a client's thread: `waiting`
in the polling loop of `handle_reload_with_wait`, `done` or `timedout` after
it, `wake` before the wakeup is sent, `closed` when a write to the client failed.

The layout is reduced to what this module is about: a queue of which a tick takes
one event, and the keys its states hold. A key of `LrldKeys` has the
live-reload action. How many ticks a pass performs is left open (none to any
number), as is when a client's wait times out. `DoLiveReload` has the outcomes
of the code: the file does not parse (nothing changes), `set_repeat_rate` fails
late (the layout is new, `last_reload_ok` keeps its value), success.

The sort is the stable insertion that the standard library uses for slices of at
most 20 events (`SortRun`); with the comparator of the code, which is not a total order, that
matters. A longer batch (the channel holds 100 events) comes out the same where the comparator happens to be an order on
it (`Sortable`). Otherwise the standard library promises no order and may panic, which ends kanata (`panic = "abort"` in `Cargo.toml`):
`CollectUnordered` leaves the batch in any order or ends the process. Batches in the runs have at most three events, except in `parts`, where `SortRun` is 4 and batches of
five events come out in any order. `parts` and `reload_stuck_key` are the runs in which a device vanishes with a key held (`LoseRelease`).

### 2.2 Layout, LayoutSystem and OneShotState

The fields of `struct Layout` are a record `L`; a method is an operator from `L` to
`L`. `DoAction` is `do_action`: `BeforeAction` its prologue, then one operator
per kind of action (`DoHoldTap`, `DoOneShot`, ...), which may call it again.
`TickLayout` is `tick_layout` in the order of the code: age the queue, one-shot
timeout, tap-dance timeout, macros, then either a queued action, or the waiting
state, or one event of the queue. `Event` is `event`, with its overflow branch.
`L.ret` is the `CustomEvent` that the call returns.

`ChordsV1` is `handle_chord` with `decompose_chord_into_action_queue`; the keys of a group are sets for the bit masks of the code.
`TapHoldClosures` has the closures that the parser builds for `tap-hold-release-keys`, `tap-hold-keys`, `tap-hold-except-keys`, `tap-hold-tap-keys` and the
two variants of opposite hands: verdicts of single presses, of which the first that is not `ignore` counts. A switch chooses its actions with
`Actions` of `Switch`, the meaning that the run `parts` shows the opcodes to have. The histories `hk`, `hi` and `ht` (output keys, presses, presses without those that
became a hold) are kept if a configuration reads them (`reads`), with ages up to just above `keyTiming`, the longest time asked for.

The actions of `LayoutSystem` are `PressKey`, `ReleaseKey` (at any time, also
several between two ticks) and `Tick`. `CanBlock` is the conjunction of
`is_idle` as far as it reads the layout. The observed variables are `heldFor` (for
how many ticks a key was physically held), `active` (custom presses less custom
releases), `fired` (how often a chord was performed) and `shifted` (keys output under a one-shot).

A configuration is the result of the parser, as a record of layers of
actions. The constant `Config` has the configurations of a run, the
variable `conf` the one in use, chosen at the start. Between them those of `MCLayout` use every kind
of action that is modelled.

### 2.3 TickClock

`Poll` is a pass that does not block, `Wake` one that was blocked: the loop sets
`last_tick` to 1 ms before the wakeup. `Gaps` is the time between two passes, `Lags` the
time between the two readings of the clock that `get_ms_elapsed` makes when it has to
catch up. `due` is the time that went by while the loop was not blocked, and the millisecond of each wakeup; `ticked` the time
for which ticks were performed; `skipped` the time between the two readings of the clock in passes that took so long that the second one may have been
made, which the comment at `src/kanata/mod.rs:933` gives up; `slept` whether every pass so far took a millisecond.

### 2.4 ChordsV2, ChordSystem and ChordFilter

`ChordsV2` has the queue of events in front of the layout, the active chords with
their status (`Unread`, `UnreadReleased`, `Releasable`, `Released`), and
`until`, the time for which an unchanged queue is not looked at again. `Queues` has what the queues do to all their
elements: `Retain`, and the tick that makes them older.
`TickChv2` is `tick_chv2`, with the drain of virtual keys, of releases, of inputs
that begin no chord and the choice among the candidates; `GetActionChv2` hands out one action
per tick. `ChordSystem` has the user, changes of the layer, and `Tick`, which takes from
it what `tick_layout` takes; `down` and `performing` observe what was forwarded, `row` for how many ticks in a row a chord opened.
`WithinLimits`, `Distinguished` and `LongerInTime` are the hypotheses of the theorems of section 4; every state of the run `chords_v2` satisfies them.
In particular no virtual key there has the index of a key of a chord: the code does confuse the two (section 3.1).
Ten chords may be active (`MaxActive`); the tick that would open another one panics, so there is no such step. A time of 65535 counts as none while candidates are counted down (`UntilTimeout`), so
such a chord is completed only by keys of the same tick.

`ChordFilter` says what that queue promises without saying how it decides: per key a line
of events, of which some leave in a step, in order; the presses that a chord opens for
are swallowed, everything else is forwarded; chords open on an enabled layer for presses no further apart than their own time, and end by
releases of their keys. The code keeps this for chords of which none takes in another one and has a longer time (`LongerInTime`). With a longer time,
the shorter chord opens even after its own: a press that fits no chord ends the wait for the
longer one, and the complete one opens (`OpensInTime`, finding 4; configuration `LongerLater`). The proof attempt brought this to light, and that a chord may be ended as it
opens by any release that waits (configuration `misfit`). The refinement mapping takes a key's line from the queue and the open
chords from the active ones. What the filter leaves open - when an event stops waiting - is bounded by
`BoundedDelay` and `ChordsComeToRest`.

### 2.5 OpCode, Switch and SwitchSystem

`OpCode` encodes tests and operators in words of 16 bits and reads them back; it is free of
recursion, so that the theorems of section 4 can be about it. `Switch` flattens an expression as
the parser does (`ParseCase`) and has `evaluate_boolean` as an iteration on its local variables: the position,
the stack of operators with their ends, the value so far. `SwitchSystem` runs `Switch::actions`, one
iteration per step, over the cases.

### 2.6 KeyFilters, SequenceMode, Kanata and KanataSystem

The state is a record `K`: the layout, the OS keyboard and the fields of `struct Kanata`
that a tick uses. `TickStates` is `tick_states` as a composition of stages in the order of the code: the
layout's tick; the custom actions that come before the keys; unmod and unshift; overrides; caps-word;
releases; the end of an overlap of a sequence; presses, each through the sequence mode if it is on; the other custom
actions; mouse; the timeout of a sequence; on-idle actions; the end of the tick, where `cur_keys` becomes
`prev_keys`; virtual keys held for a duration. `KeyFilters` has the parts that change the keys, `SequenceMode` what a key does in
a sequence. `MayBlock` is `can_block_update_idle_waiting`.

`KanataSystem` has a user who presses and releases keys, and a `Tick` that is performed
unless the loop may block; while it does, `Sleep` lets time pass without one, as far as a configuration tells apart (`quietCap`): `quiet` is the time
since the last key event, `idleAt` what it was at the press of each key. `clock`, the parity of the ticks, gives `FairSpec` a fairness condition that TLC evaluates cheaply. `typed` is the text that the presses should have typed according to the table `Types`
of a configuration, `before` the text when the sequence mode was entered; `K.done` and `K.mouse` show
the sequence that was completed, and whether the mouse moved, in the last tick.

### 2.7 Zippychord and ZippySystem

`ZchPressKey` and `ZchReleaseKey` replace the plain writes to the OS, `ZchTick` runs
the two timers. A dictionary is a set of chords `[keys, out, then]`, where `then` are the chords
that may follow. `ZippySystem` observes the text before the keys that are held (`hold`), before the last output
(`base`), and how long the user has waited and been quiet.

### 2.8 DynamicMacro, MacroSystem and MacroStack

`MacroSystem` has the events of the user, the calls of `tick_ms` with any number of
milliseconds, and the steps of its two loops: `TickStates`, in which the layout may perform any custom action of the
configuration (record, stop, play), and `ReplayTick`, which takes a due event from the replay. The second loop makes up for the
delays that were replayed. `macroAlive` is false after the panic described in section 3.1.

`MacroStack` is the promise: macros run like procedures, none within itself. The mapping cuts the
queue of the replay at its end marks into the frames of a stack; the outermost macro has no mark and
is the one that is active without.

### 2.9 Devices

A device is a path and the number of the plug that put it there, so that a device that was unplugged and one plugged in later
at the same path are different; `node` is what is there now. `Discover`, `WatchDevInput`, `RegisterDevice` and `AllRegistered` are `KbdIn::new`, in
which devices may come and go between any two steps. `PollEvents` takes all signalled tokens, `FetchEvents` and `DrainInotify` work
on them in any order, `RemoveStaleDevices` and `RediscoverDevices` follow after the last. The kernel's side is in `Plug`: a creation equal to the unread tail
of the queue is merged and signals nothing, as the comment at `src/oskbd/linux.rs:184` says. `unwatched` marks what arrives
between the first discovery and the watch.

### 2.10 WinHook

The way of an event: `winQueue` (Windows), `Hook` (the callback: `Keeps` is its answer), `preQueue`, `PreReceives` and `PreFindsNothing`
(`start_event_preprocessor`, whose `lctl_state` waits one empty poll to see whether a left control belongs to AltGr), `winChan`, `Processes`.
`ClearsWhilePolling` and `Blocks` are the two repairs. The user may press and release keys while the hook gets
no events (`hooked`); they then go to Windows alone. Of the time only this is kept: whether the last input is more than a minute old, and which keys were pressed less than five seconds ago (`fresh`).

The three can come to disagree. `win_synchronize_keystates` (`src/kanata/windows/llhook.rs:193`) removes a key from `PRESSED_KEYS` when the layout
has it down and Windows does not. If a new press of that key has just been recorded there and is on its way to the layout, the layout
presses the key afterwards, and the hook gives its release to Windows: the key stays down in the layout until it is pressed again or synchronised away. Five events do it: a press,
a release that the hook does not see, the next press, which the hook takes for a repeat, a release, and a press that overtakes the synchronisation. The guide says of the
mechanism that it "is not perfect" (`docs/config.adoc:5132`), so this is no finding. `overtaken` observes the keys concerned until the hook sees their next press, and
`KeysAgree` leaves them out: it says that this is the only way for the hook and the layout to disagree. Nothing is assumed of how fast keys follow each other;
only the focus moves, and the minute passes, when no event is on its way, which takes milliseconds.

### 2.11 MacEventLoop

`loc` is the place in `event_loop`: `check`, `read`, `handle` and `send` of the inner loop; `release`, `wait`, `cleanup`, `clear` and `regrab` of the recovery;
`ended` after a failure to take the keyboards again. `pipe` holds what the driver has captured while the keyboards are `seized`; `vhid` are the keys down at the virtual keyboard,
which the driver retains over a loss of the connection (`src/kanata/macos.rs:70`). An event is `foreign` if it was typed while the session was
locked, whatever the program knows of it: `screen_paused`, the flag of the poller, follows `locked` later. `owed` observes the releases that a lost connection has swallowed. The poller of the session is the one that the option for releasing the keyboards on a lock starts.

### 2.12 MacMouse

`MouseOrigin`, `MovedPosition` and the clamping are the functions of `src/oskbd/macos.rs`, on whole coordinates (the code's are floating-point numbers that
hold whole ones). The system follows the posted positions later, one by one; `isFresh` says that the recorded position is
younger than 50 ms, and may end at any time.

## 3. The runs

| run | what is checked | what it shows |
|---|---|---|
| `batch_safety` | a key, a modifier, the lrld key, the wheel, an unmapped key and a client | `NoStuckKey`, `BatchKeepsKeyOrder`, `ReloadHappens`, `ReleasesReachOS` |
| `reload_stuck_key` | a release is lost | `StuckKeyReloads` is violated |
| `layout_safety` | all configurations of `MCLayout`, three presses | `NoStuckState`, `CustomsPaired`, `TapHoldByHeldTime`, `OneShotSingleUse`, `EveryPressCounts`, `IdleMeansQuiet` |
| `chords_v2` | nested chords, a disabled layer, a key that fits no chord, a virtual key | `ImplementsFilter`, `BoundedDelay`, `ActionsPaired`, `ChordsComeToRest` |
| `chord_once` | the same | `ChordOnce` is violated |
| `chord_in_time` | a chord inside another one that has more time | `OpensInTime` is violated |
| `kanata` | twenty-one configurations, three presses, three with a queue of two events that overflows | `TypesAsConfigured`, `NothingLeftDown`, `SleepMissesNothing`, `SequenceWasTyped`, `SequenceErasesItself`, `ComesToRest`, `WaitingEnds` |
| `prior_idle` | a layer key, then a tap-hold with `require-prior-idle` | `PriorIdleByRealTime` is violated |
| `parts` | dynamic macros: recording, replay, nested replay; zippychord: nested chords, follow-ups, capitals, AltGr, smart space; switch: all nestings of two operators, those with a third around them, three cases; the processing loop: a key, a virtual key, a client whose connection may break, a device that may vanish | `ReplayKeepsTime`, `RecordKeepsTime`, `NoOvershoot`, `MacrosRelease`, `ImplementsStack`; `OutputReplacesTyped`, `DownMatchesHeld`, `ReenablesInTime`; `SwitchMeansExpression`; `NoLostWakeup`, `ReloadLeavesNoKeyDown` |
| `platforms` | the clock: passes of less than, exactly and more than a millisecond, catching up; the Windows hook with AltGr and missed events; the macOS event loop with losses of the sink and locks; devices plugged in and out; the macOS mouse on two displays | `NoTimeLost`, `TicksKeepTime`; `KeysAgree`; `RemappingResumes`; `NoUnknownToken`, `KeyboardsAreRead`, `OwnOutputNotRead`; `MovesAddUp` |
| `locked_key` | keys, one lock and one unlock | `LockedKeysNotRemapped` is violated |
| `mac_dropped_release` | a key and one loss of the sink | `DroppedReleaseRecovers` is violated |

What the properties of the passing runs say:

* `NoLostWakeup`: the loop is never blocked with a reload requested or an event
  queued unless something is in the channel or a client will still send it.
  The only exception is a client whose connection broke between its command
  and its wakeup; what it asked for waits for the next event (section 3.1).
* `ReloadLeavesNoKeyDown`: the layout is replaced only while no key of the user is held, and the loop never blocks while the
  OS holds one that the layout no longer presses. Virtual keys are exempt, see section 3.2. A reload empties
  the layout but keeps `prev_keys`, so the second part depends on the tick that follows. The price is finding 1.
* `NoStuckKey`: at rest with all keys up, nothing is down at the OS. All configurations of the run map the same keys; if they do not, a key can stay down (section 3.1).
* `BatchKeepsKeyOrder`: the sort never moves two events of one key past each other.
* `ReloadHappens`, `ReleasesReachOS`: a requested reload is carried out, a release
  reaches the OS, although the loop blocks whenever it can.
* `NoStuckState`: when all keys are up and there is nothing left to work off, the
  layout's states are empty.
* `CustomsPaired`: custom actions reach Kanata as press and release, in this order.
* `IdleMeansQuiet`: while `is_idle` lets the loop block, a tick would change no output.
* `EveryPressCounts`: when keys that are no chord together are cut into chords, each press takes part in exactly one of those
  performed, whichever keys are released or pressed meanwhile.
* `TapHoldByHeldTime`: a plain tap-hold decides by physical time, however long its
  events waited behind another undecided key.
* `OneShotSingleUse`: a one-shot with an end on press applies to one key, even if
  several were queued when it was processed.
* `NoTimeLost`, `TicksKeepTime`: but for what the resets of `last_tick` skip, ticks lag behind the time that went by by less than a millisecond, and they run
  ahead by less than one while every pass sleeps.
* `ImplementsFilter`: chords v2 are a `ChordFilter`. `BoundedDelay`: no event waits longer than the longest
  chord takes and one tick, and one more for each chord that opens, tick after tick, in front of it: so the shortcut does not oversleep. `ActionsPaired`: one release of a chord's coordinate after its
  action, also when the keys come up before the action is fetched. `ChordsComeToRest`: nothing waits for ever.
* `SwitchMeansExpression`: the opcodes and jumps mean what the expression means, and the
  actions are those of the true cases up to the first `break`. Two branches of the evaluation jump without reading a
  word; it ends all the same, within two turns per word.
* `OutputReplacesTyped`: when a chord is complete, exactly what was typed for it is gone, and a chord forms only in its time. `DownMatchesHeld`: shift and AltGr, let go for
  an output, come back; nothing else stays down.  `ReenablesInTime`: zippychord becomes ready and idle again.
* `ReplayKeepsTime`, `RecordKeepsTime`: between two events of a replay pass as many ticks of the layout as were recorded,
  whichever loop performs them; each event is recorded with the ticks until the next one, up to the 16 bits of the counter. `NoOvershoot`: the second loop meets no event (the message "overshot to next
  event ..." is never logged). `MacrosRelease`: what a macro presses it releases. `ImplementsStack`: as in 2.8.
* `TypesAsConfigured`: the text at the OS is what each press means under the modifiers held at the time, under overrides, unmod,
  unshift and output chords, whatever is pressed or released before it is processed or after.
* `NothingLeftDown`, `SleepMissesNothing`, `ComesToRest` (of `KanataSystem`): the list of timers in `is_idle` is complete for what is modelled:
  the loop blocks only when a tick would change nothing, with no key down that is not held, and it does come to block. The ages in the histories
  are the exception, see finding 3. `WaitingEnds`: every undecided tap-hold, tap-dance and chord is decided, also while all keys stay held and
  when the queue overflows.
* `SequenceWasTyped`: a completed sequence is made of the last keys typed. `SequenceErasesItself`: in `visible-backspaced` the erased
  text is that of the sequence and not a character of what was there before.

* `KeysAgree`: once nothing is on its way, the hook's `PRESSED_KEYS` and the layout have the same keys but for those of section 2.10, and Windows holds no key down that the user has
  released and the layout does not know of; through AltGr, missed events, the clearing after a minute and the synchronisation.
* `RemappingResumes`: if the sink stays connected and the session unlocked, the keyboards are taken and stay taken.
* `NoUnknownToken`: the panic on an unexpected token is never reached. `KeyboardsAreRead`: a wanted keyboard that stays plugged in is read in the end,
  also if it came back before the end of its predecessor was noticed; one that arrives between the first discovery and the watch is left out. `OwnOutputNotRead`: the
  output device, with its default name, is never registered, whatever the detection and whenever the other devices come, unless the configuration names it.
* `MovesAddUp`: a series of moves that meets no edge drives the cursor by their sum, and a click in between does not take it back.

### 3.1 Findings

1. `reload_stuck_key` (`src/kanata/mod.rs:2538`): the fallback after one second counts idle
   ticks, but a held key is not idle while a reload is pending. A stuck key is just such a
   key, so the fallback never comes.
2. `chord_once` (`keyberon/src/chord.rs:521`): when the press that completes a chord is processed in the tick in which the
   time of another candidate ends, the branch for one remaining candidate opens the chord, and the check for the end of the time, which
   follows, opens it again.
3. `prior_idle` (`src/kanata/mod.rs:2514`): `require-prior-idle` reads the ages of physical presses, which stand still while the loop blocks. The
  loop waits before it blocks until the newest *output* key is old enough (`max_key_timing_check`). After a key that outputs none - a layer key, a mouse
  button, a no-op - it blocks at once, and a tap-hold pressed any time later is resolved as its tap. After an ordinary key the two histories agree (configuration `afterKey`).
4. `chord_in_time` (`keyberon/src/chord.rs:483`): when no candidate is left, the chord that has exactly the keys so far opens without a look at their times. With a
  longer chord that allows more time its keys may be further apart than its own `pending_duration`, after which it "can no longer be completed".
5. `mac_dropped_release` (`src/oskbd/macos.rs:1184`): a release written while the virtual keyboard is away is dropped. The recovery would make up for it,
  but the event loop looks at the connection only before a read; if it is back by the time the read returns, there is no recovery and the
  key stays down.
6. `locked_key` (`src/kanata/macos.rs:155`): after a blocking read the event loop looks at a flag that the poller sets at most every 200 ms. What is typed right after the lock is
  still sent to the layout, and so is a key read in the locked session if the flag is clear again when it is looked at; the comment promises "one lost keystroke, never a remapped one".

Also seen in the models, without a run of their own; the configurations of the passing runs avoid them.

* Threads and reload. `src/tcp_server.rs:86`: completion and success of a reload are read in two critical sections and belong to no client, so a
  client may be told of another's reload; and `last_reload_ok` keeps its old value when `set_repeat_rate` fails late, so that even a
  single client may be told that it succeeded. `src/kanata/linux.rs:97`: a key pressed unmapped and released after a reload
  that maps it stays down at the OS; the Windows hook has code against this. A client that
  disconnects between its command and its wakeup leaves the request pending until the next event (the exception in `NoLostWakeup`).
  `ticks_since_idle` is not reset when a reload is carried out: see section 3.2. `src/kanata/mod.rs:24`: a batch of more than 20 events on which the comparator is no order may be left in
  any order by the standard library, or end kanata.
* Clock. `millisecond_counting.rs:20`: when less than a millisecond has passed the time is kept in `time_remainder` and, because `last_tick` stays, counted again.
* Layout. `src/kanata/mod.rs:2544`: with `rapid-event-delay 0` a one-shot's timeout is 0 while it is active; `is_idle` takes this for inactive and the
  loop blocks with the key down. Two tap-holds with different timeouts on one key, of which `is_idle` does not see the second;
  `reset-timeout-on-press` restarting the timeout each time it expires while another key stays held; the latest and not the first one-shot deciding the
  end variant; `one-shot-pause-processing` not counting down while no one-shot is active; `rpt-any` discarding the press of a
  custom action; a second custom action of a key being performed after the key's release when the queue overflows.
* Chords v2. A chord with `first-release` that opens while the release of another key waits is ended at once, since `relevant_release_found` does not say
  whose release was found (line 610). A release ends a chord by its index alone (line 297), so that of a virtual key with the index of a key does too. Coordinates are used again after
  50 chords (line 262), also if the chord that has one is still active, and the queue that drains (`SMOL_Q_LEN`, 16) drops its oldest event, or panics, when more events leave in one tick. `Distinguished` and `WithinLimits` exclude
  the last three. An eleventh active chord is a panic (line 130).
* Switch. An operator without operands is accepted by the parser and evaluates to the value of its sibling; a list of exactly 4096 words passes
  the parser's check and meets the assertion in `new_bool`.
* Zippychord. The common beginning of two outputs, which is not typed again, is not counted among the characters to delete, so a chord that
  follows erases too little (excluded by `kept`). A first-level chord with empty output adds to the counter
  of an unrelated earlier output, whose follow-up then erases too much (`docs/config.adoc:6605`). A key of the output that is held for another reason cannot be typed. Punctuation after a smart space can leave the
  counter at -1. The forced reset after 10000 ticks forgets a shift key that is held. A soft reset forgets the keys that are held, so the first of
  their releases enables zippychord again. A follow-up with several keys is begun only if these are also part of a main chord.
* Dynamic macros. `docs/config.adoc:2645` says that macros cannot recurse, but a recorded key whose action comes late (the hold of a tap-hold) can play its own macro again, and so for ever, once the replay has ended. Saving an empty recording panics in `Vec::remove`. The delays of a recording
  lose the time that the loop sleeps, because `is_idle` does not look at `dynamic_macro_record_state`. The milliseconds of a pass are cut to 16 bits (`src/kanata/mod.rs:992`).
* Devices. A keyboard plugged in between the first discovery and the watch is found only when the next device comes (`src/oskbd/linux.rs:57`, `unwatched`). kanata leaves
  out of the detection the device with the fixed name `kanata` (`src/oskbd/linux.rs:305`); with `linux-output-device-name` (`docs/config.adoc:4994`) the output device has another name, looks like
  a keyboard with a mouse and is grabbed like one, so that what kanata types is read again (`OwnOutputNotRead` with another name in `Kind`). The
  mode `any` grabs every device, also those that are neither keyboard nor mouse, where `docs/config.adoc` says "all keyboard-like and mouse-like devices".
* Windows. With `cancel-lctl-press` a left control that repeats while the hook gets no events is down in Windows afterwards, although it was
  withheld from the layout; with `add-lctl-release` the layout and the hook may differ on a left control that is really held. `KeysAgree` leaves both out.
* A tick of Kanata. Nine things that the comments of the code or the configuration guide would not lead one to expect:
  (1) `macro-release-cancel` removes the keys of a macro after `cur_keys` was computed; when its key is released during a delay of a macro
  that holds a modifier, the loop may block with the modifier down until the next event (`ReleaseCancel` in `MCKanata` shows it with `NothingLeftDown`);
  (2) `caps-word-toggle` while a capitalised key is held leaves `lsft` down in the same way;
  (3) `O-(a b)` completes although the two keys were never held together, if a third key is held throughout;
  (4) a `visible-backspaced` sequence with a ctrl chord erases earlier text;
  (5) an output chord pressed and released in consecutive ticks over the same plain key loses its character;
  (6) under caps-word, Repeat puts its key into `cur_keys`, and a real press in the next tick is lost;
  (7) the hidden sequence modes release, and repeat, keys that were never pressed at the OS;
  (8) the modifiers of the latest unmod are those of all, and releasing one removes a key shared with another;
  (9) the pause after a one-shot does not count down while the loop sleeps, so it delays the next event.

### 3.2 Bounds

* Processing loop: at most three inputs and two commands, and `MaxActivity` bounds inputs + 2 * commands. A wakeup, a reload and a key need one
  or two steps each to race; a third input makes a batch of three, the shortest in which the
  sort moves an event past another with a third between. `IdleLimit` 2 stands for 1000,
  `InitTicks` 1 for 500 iterations, `ChanCap` 2 or 3 for 100: only reaching and passing the
  limit matters, and each is reached. `ElapsedMs` {0, 1}: no progress and progress of `ticks_since_idle`; `parts` has also 3, a pass
  that is longer than the limit. Then, or after many reloads, the one second fallback may be armed when a client presses a virtual key: `ticks_since_idle`
  is reset by an event and not by a reload or a command. So a reload can happen in the very pass in which a virtual key is pressed,
  and `ReloadLeavesNoKeyDown` is about the keys of the user.
* Layout: two keys and three presses, or three keys pressed once each (`perKey` 1,
  so that a held time, or a chord, belongs to one press). Timeouts are 2 to 4 ticks, so a press can
  fall before, at and after each. `queueSize` 32, `ExtraLen` 8 and `MaxSeqs` 4 are the code's. `U16Max` is 12, so that a
  `tap-hold-except-keys`, which may wait for ever, gives finitely many states; every timeout is below it. `holdCap` is above every timeout, `keyTiming` is the longest
  time that a configuration asks of a history.
* Clock: `NsInMs` 4 and `MaxCatchUp` 2 for 1 000 000 and 10; gaps below, at and above one
  millisecond and beyond the catch-up limit; `MaxNow` ends the behaviours.
* Chords: three presses, two events between ticks, chords of two and three keys that contain each other, times of 1 to 3 ticks. `AgeCap` 6 bounds the age of a
  waiting event; no event reaches it. `NumCoords` 17 for 50 is just above the length of the queue that drains. `MaxActive` is the code's 10, which three presses do not reach.
* Switch: up to two operands per operator, three nested operators (four with the list of the case), tests of one and two words, three cases, four worlds. `MaxBoolExprDepth` is 4 for 8: the stack
  is filled to its end.
* Zippychord: four presses of up to four keys, so a chord, its follow-up and a key that must not count; a deadline of 3 ticks and a wait of 2, or neither.
* Dynamic macros: `U16Max` 20 and `MaxDelay` 5 for 65535 and unbounded delays, `Pace` 2 for the constant delay; passes of 0 to several milliseconds; two macros, which is enough for nesting, recursion and recording while playing.
* Kanata: three presses, one or two per key; timeouts of 2 to 5 ticks. The sequences have two or three items, so that one is the beginning of what is typed for another and backtracking happens. `queueSize` is 2 in three configurations, because the real queue of 32 does not overflow with three
  presses. `U16Max` is 6, above every timeout, so that a key that waits for ever would return to a state it was in. `quietCap` 4 is above the threshold of 2.

* Windows: left control and AltGr, which are the keys with a history; three events, all values of `windows-altgr` and `windows-sync-keystates`, and two changes of the focus, which is a press with,
  a release without the hook and a third event to notice it. With the default options five events of one key (`LongInputsOfOneKey`), so that the disagreement of section 2.10 is reached: without `overtaken`
  TLC finds `KeysAgree` violated. The theorem holds for any number.
* macOS: one mapped key and one that is not, three strokes, two losses of the sink and one lock, a channel of one; so each can fall between any two steps of one
  recovery, and a second recovery can follow. The runs look at every outcome of taking the keyboards again.
* Devices: two paths and the output device, two plugs while running, so that a device comes back at its path and another comes meanwhile; four configurations: by path, any, keyboards only, by name.
* Mouse: two desktops - displays of different heights side by side; one that is off beside one that is on - of a few points; three actions, four moves, one pair of moves flushed together.

No run uses symmetry. `CHECK_DEADLOCK FALSE` where the behaviour ends: the process may
terminate, and a blocked loop whose user does nothing more has no step; the clock stops at
`MaxNow`, a replay after its last pass, a switch after its last case, the event loops when they end or wait for a key.

### 3.3 Fairness

* `ProcessingLoop`: weak fairness of the processing thread and strong fairness of the event loop: they are OS threads, and the event loop waits for
  the mutex when it writes raw. Strong fairness of `Tick`: a pass that finds the channel empty sleeps a millisecond, so
  passes without a tick do not follow each other for ever. Strong fairness of the steps
  of a client that need the mutex (parking_lot's is eventually
  fair) or room in the channel (blocked senders are served in order). Nothing is assumed
  of the user or of a reload's outcome. That a client's wait times out is fair because the code compares
  with a clock.
* `ChordSystem`: weak fairness of `Tick`, written with `clock`, which only `Tick` changes: the loop ticks once per millisecond while chords v2 have anything to do.
* `KanataSystem`: weak fairness of `Tick`, which is not enabled while the loop may block: nothing is assumed that the loop does not do.
* `MacEventLoop`: weak fairness of the event loop, of the poller (a thread that looks every 200 ms) and of the two steps of the processing loop. Nothing is assumed of
  the sink, the session or the user: `RemappingResumes` has their part as its premise, and a failure to take the keyboards ends the loop.
* `Devices`: weak fairness of the thread of `KbdIn`: each of its steps returns, and the poll does once a token is signalled.

## 4. The proofs

`ProcessingLoopProofs`, for any sets of keys, configurations and clients, any
capacity and any number of inputs and commands:

* `TypeCorrect`: `Spec => []TypeOK`. `TypeOK` is inductive: one lemma per thread, and lemmas
  about the tail of a sequence and about `Insert`. The part that is not obvious
  is that a wakeup never enters the layout's queue.
* `NoWakeupIsLost`: `Spec => []NoLostWakeup`. `NoLostWakeup` is inductive relative to `TypeOK`,
  by two lemmas. Once a wakeup is in the channel or will be sent
  (`WakeComing`), it stays so until the loop leaves the block: only `RecvFirst` takes from
  the channel, and it ends the block. And a step that gives a blocked loop work is a client's, which
  leaves that client with a wakeup to send; `Check` itself blocks only when there is no work.

* `ReloadsLeaveNoKeyDown`: `Spec => ReloadLeavesNoKeyDown`, without any hypothesis. The inductive invariant `QuietInv`: between two critical sections the layout's keys and
  `prev_keys` are the same but for virtual keys, and while `ticks_since_idle` counts no key of the user is in the states or in the queue - an event of the user
  resets it - so that the one second fallback, too, finds nothing held.
* `NoKeyIsStuck`: `Spec => []NoStuckKey`. `ReleaseFollows(k)` says that behind every press of `k`, wherever it is - in the hands of the event loop, in the channel, in the sorted batch, in the
  queue of the layout, in its states - there is a release of `k` further back or the user still holds `k`. One lemma per thread. The sort is the hard step: `InsertPlace` shows that the
  new event gets a place such that it overtakes no event of its key (by the least place it may have, `LeastNatural`).
* `BatchesKeepKeyOrder`: `Spec => []BatchKeepsKeyOrder`. `InTurn` says that presses and releases of a key alternate through the batch, the channel and the
  event in hand, in this order, and continue with what the user does next.

The last two of these have hypotheses: no batch is longer than the run that the standard library sorts by insertion (`ShortBatch`, 20 events of the 100 that the channel holds); the configurations map the same keys (`SameKeysMapped`; `src/kanata/linux.rs:97` looks up press and release separately,
section 3.1) and no device vanishes with keys held (`~DropsReleases`; the kernel then sends no releases); the first of them also that the user starts with all keys
released (`HeldAtStart = {}`, as `src/main.rs:190` asks). TLC finds a stuck key without any one of the last three, so none can be dropped.

`PlatformProofs`, for any devices, keys, displays and moves:

* `TokensStayKnown`: `DevicesSpec => []NoUnknownToken`. Tokens are given out once (`TokensGivenOut`), and what is signalled or left of a poll is known or the
  watch's (`SignalsKnown`, `BatchInEvents`): `Forget` takes a token out of all of them together.
* `OwnOutputStaysUnread`: with the default name of the output device (`DefaultOutputName`) kanata does not read its own output. What is found or registered was selected (`SelectedOnly`).
* `MouseMovesAddUp`: `MouseSpec => []MovesAddUp`, as long as some display can hold the cursor (`AlwaysADisplay`). `MovesAddUp` is inductive with the types;
  the lemmas show that clamping ends on a display (there is a nearest one, by a least squared distance) and does nothing to a point that is on one.

`WinHookProofs`, for any keys, any mapped keys, any number of events and of changes of the focus:

* `HookAndLayoutStayAgreed`: `WinSpec => []KeysAgree`. It says nothing of keys in `overtaken` (section 2.10), nothing of `PRESSED_KEYS` under `add-lctl-release`, which sends releases that nobody
  typed, and nothing of a left control that `cancel-lctl-press` withholds. `KeysAgree` speaks only of moments at which nothing is on its way; the invariant `WinInv` says for every key what
  the three have in between. `Ends(k)`: what the layout will have of `k` once everything has arrived, from the last event of `k` in the two queues or kept back by the
  preprocessor. `UpAgrees(k)` and `DownAgrees(k)`: that is what `PRESSED_KEYS` has. `EndsCleared(k)` is the same of a layout that has just been
  cleared, for after a minute the keys that `clear_states_from_inactivity` leaves are those on their way. `LCtlTurns`: presses and releases of the left control come in turn while some are withheld.
  `WindowsDowns(k)`: a key down in Windows is down for the user or the layout, or its release is still to come. One lemma per step, and some about the queues.

`MacroProofs`, for any keys, macros, delays, lengths of passes and custom actions:

* `MacroTypeCorrect`: `TypeOK`, with one lemma for each operation of recording and replay.
* `NeverOvershoots`: the inductive invariant says what the second loop relies on: the time until the next event of the replay
  is at least the number of ticks left to make up for. It needs both loops, since the first one builds the sum of the delays
  of which the second performs what the first has not.
* `MacrosReleaseTheirKeys`: every macro that is saved ends with the releases of what it presses, whatever is cut off its end.
* `ReplaysKeepTime` (`ReplayKeepsTime`): `TimeInv` adds to that invariant that the layout's ticks since the last event and what is left of its delay add up
  to that delay, so that they are all spent when the next event is due. A macro played in between changes the queue but not the timer.
  The steady pace must not be 0 (`Pace`, 5 in the code): without a delay an event would still take a tick.

* `RecordingsKeepTime` (`RecordKeepsTime`): `RecordInv` adds that at most one event waits for its delay, the last one. Adding an event counts for the one
  that waited; a tick of the layout counts for the one that waits; beginning or ending a recording starts afresh.
* `ReplayImplementsStack`: `Spec => ImplementsStack`, the refinement of `MacroStack`. The code has no stack: it has one queue with marks and a set of active macros.
  The invariant `IsStack` says when these are a stack: the marks are of different macros, and the active ones are those and one more, the macro
  that was played first, which has no mark. The lemmas number the marks (`Enumerates`) and follow the frames between them through what is
  done to the queue: a macro is put in front of it (`FrontFrames`), its first item is an event (`SentFrames`) or a mark (`ReturnedFrames`).
  Then each step of the program is a step of the stack (`PlayStep`, `ReplayStep`). It relies on `NoOvershoot`: an event found by the second loop would be lost.

`ChordProofs`, for any configurations - chords, times, layers, `NumCoords` - any keys, number of presses and events between ticks:

* Lists are queues, so most of the module is about folds: `Stages` is the recursive function behind a fold, `EveryList` what holds of the empty list and is kept by
  `Append`. With them, lemmas for `Retain` (it distributes over concatenation, and follows the ages), for the wrapping queue, for the end of chords by releases, and
  for the loop over the presses (`Sound`: what is accumulated is a beginning of the presses, within the time of the chord, and every chord opened fits it exactly).
* `DelayIsBounded`: `Spec => []BoundedDelay`, without any hypothesis. The inductive invariant `DelayInv` says why the shortcut may sleep: the queue is sorted by age, and the age of each event
  and the ticks for which the queue is not looked at together do not exceed the longest time (`InTimeOf`). A tick that finds chords ignored empties the queue, so
  an event is older than the longest time only behind chords that open in tick after tick, or for the one tick before all events leave.
* `ActionsArePaired`: `Spec /\ []WithinLimits => []ActionsPaired`. `PairInv`: no two active chords share a coordinate, and an action is owed its end just when its
  chord is active and fetched (`Begun`). A tick opens chords with new coordinates (`OpenedApart`), which needs that fewer chords open in a tick than
  there are free coordinates ahead of `next_coord`, and hands the releases of those that are over to the layout, which needs room for them.
* `ChordsImplementFilter`: `Spec /\ [](WithinLimits /\ Distinguished /\ LongerInTime) => ImplementsFilter`, the refinement. The queue is one list, the filter has a line per key. `FlowLine` follows one line
  through the four ways a tick can go (nothing, everything out while chords are ignored, virtual keys and leading releases out, presses swallowed), `OpensRight` says that what opens
  was pressed in time, `ReleasesLeave` that the releases that end chords are those that leave, `GivenLine` that what is added for the layout belongs to no
  key. `FilterInv` puts both invariants together. Without `LongerInTime` a chord may open after its time (finding 4); without `Distinguished` a virtual key could end a chord (section 3.1), and
  `AgeCap` would make different times equal; without `WithinLimits` an event may be lost.

`ZippyProofs`, for any chords with any follow-ups and outputs, any deadlines and waits and any number of presses:

* `NothingDownButHeld`: `ZippySpec => []DownMatchesHeld`. An output is a fold over its keys, and so are the backspaces before it. `SendsByStages` and
  `BackspacesByStages` show that such a fold, a recursive function on sets of indices, goes through stages each of which is made of the one before; what holds of the first
  and is kept by each holds of the last (`LastStage`, by a least counterexample). With that, the keys that may be down are followed through an output: a shift or AltGr
  pressed for a character is released with it, a key of the chord that is also typed is down again, and whatever was let go `HoldAgain` presses. It needs
  that the keys zippychord counts are held and that no caps-word is active, as in `ZippySystem`.
* `ZippychordComesBack`: `ZippySpec => []ReenablesInTime`. `Timed`: while zippychord is disabled, or a deadline can disable it, a key other than a modifier is held, and its
  release has the way back open (no key counted, the last press not a chord); while it waits, the ticks left and those since all keys are up do not
  exceed the wait. A wait or a deadline of 0, which the parser accepts, is allowed.

What the text becomes (`OutputReplacesTyped`) is only model-checked.

`OpCodeProofs`, for all keys, coordinates, recencies, layers, devices and times that fit the program's types:
`OneWordReadBack`, `TwoWordsReadBack` and `OperatorReadBack`: what is encoded is read back, so no two tests share an encoding; `TicksRoundDown`:
the times of `key-timing` lose less than the resolution that the comments promise.

The assumptions are those on the constants (`KeysAssumption`, `CfgAssumption`, `BoundAssumption`,
`ClockAssumption`, `MacroConstants`, `ChordBounds`, `ChordCoords`, `ChordConfigAssumption`, `ChordSystemBounds`, `ZippyChordsAssumption`, `ZippyConfigAssumption`, `WinHookAssumption`, `MacAssumption`, `MacMouseAssumption`), which TLC evaluates in the runs, and the hypotheses named above.

Only model-checked: liveness, which is out of the prover's reach; the text that zippychord leaves; and all that uses `Layout`,
`Switch` or `SequenceMode`, whose RECURSIVE operators follow recursive methods of the code.

## 5. What is not modelled

* In the processing loop: Unicode, raw codes, delays and clipboard actions, which only write or wait.
  A key held while kanata starts is allowed for (`HeldAtStart`) but empty in the
  runs: `src/main.rs:190` asks the user to release all keys, and the start phase forwards the releases of
  those who do not.
* In the layout: the overflow of `states` (64), of the queue of actions and of the lists of 16 one-shot keys; chords v2 in front of its queue, which have a model
  of their own; the parameters of `tap-hold` that only the tracker reads.
* In a tick of Kanata: inertial scrolling, acceleration and speed of the mouse, which change distances only; on-physical-idle; hardware repeat (`key_repeat.rs`).
* The TCP commands that change nothing another thread waits for, the tap-hold tracker and the broadcasts.
* On Linux: grabbing a device, the symlink, the signals. On Windows: the Interception driver (`interception.rs`), the external hook and the mouse hook. On macOS: the mouse listener,
  caps lock, permissions and the start of the drivers; hardware repeat; `macos-continue-if-no-devices` after a recovery.
* The parser, command execution and the GUI: pure, or I/O around calls of the OS.

The map covers a small share of the repository's lines: most of them are tables of key codes for five platforms,
the parser and tests, none of which changes state while the program runs.

## 6. What could follow

1. Hardware repeat, the tap-hold tracker and the TCP broadcasts.
2. Refinement: the reduced layout of `ProcessingLoop` as an abstraction of a layout of plain keys.
3. Proofs: that `WithinLimits` follows from the pace at which a user can type; the one-shot state as a component with its own specification, for any number of keys.
