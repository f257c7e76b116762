------------------------------ MODULE Devices ------------------------------
(***************************************************************************)
(* How kanata finds the keyboards on Linux and follows them as they are    *)
(* unplugged and plugged in again: KbdIn of src/oskbd/linux.rs, with the   *)
(* selection of the devices.  A device is known by its path and by how     *)
(* often something has been plugged in before it; what it types is left    *)
(* out, but that it wakes the event loop is not.                           *)
(***************************************************************************)
EXTENDS Integers, Sequences

CONSTANTS
    Paths,        \* the paths of /dev/input
    Kind,         \* the name and the DeviceType of what is plugged in at a path
    OwnOutput,    \* the path of kanata's virtual keyboard
    DevConfigs,   \* the configurations to look at, by name
    MaxPlugs      \* bound: the devices plugged in while kanata runs

ASSUME DevicesAssumption ==
    /\ OwnOutput \in Paths /\ MaxPlugs \in Nat
    /\ \A p \in Paths : Kind[p].type \in {"Keyboard", "KeyboardMouse", "Mouse", "Other"}

VARIABLES
    devConf,        \* the configuration
    node,           \* external: what is plugged in at each path, 0 for nothing
    plugs,          \* what the bound counts
    inotify,        \* external: the paths created, as far as they are unread
    signalled,      \* external: the tokens that wake the next poll
    devices,        \* KbdIn::devices
    missing,        \* missing_device_paths; {} without linux-dev
    token_counter,
    batch,          \* the events of this poll that are still to be looked at
    do_rediscover,
    found,          \* the devices that are opened and not registered yet
    devAt,          \* where the thread is
    unwatched       \* observed: plugged in between the discovery and the watch

devEnv == <<devConf, node, plugs, unwatched>>
devVars == <<devEnv, inotify, signalled, devices, missing, token_counter, batch,
             do_rediscover, found, devAt>>

INOTIFY_TOKEN == 0

Device(p) == [path |-> p, gen |-> node[p]]
Alive(d) == d.gen = node[d.path]
Registered(d) == \E t \in DOMAIN devices : devices[t] = d
With(token, d) ==
    [t \in DOMAIN devices \cup {token} |-> IF t = token THEN d ELSE devices[t]]
Without(tokens) == [t \in DOMAIN devices \ tokens |-> devices[t]]
ByPath == devConf.paths # {}

DevicesInit ==
    /\ \E c \in DOMAIN DevConfigs : devConf = DevConfigs[c]
    /\ node \in [Paths -> {0, 1}] /\ node[OwnOutput] = 1
    /\ plugs = 1 /\ unwatched = {} /\ inotify = <<>> /\ signalled = {}
    /\ devices = <<>> /\ missing = {} /\ token_counter = INOTIFY_TOKEN + 1
    /\ batch = {} /\ do_rediscover = FALSE /\ found = {} /\ devAt = "discover"

-----------------------------------------------------------------------------
(* The devices                                                             *)

\* the kernel drops an event equal to the last one that is unread
Plug(p) ==
    /\ node[p] = 0 /\ plugs < MaxPlugs + 1
    /\ plugs' = plugs + 1 /\ node' = [node EXCEPT ![p] = plugs + 1]
    /\ LET watched == devAt \notin {"discover", "watch"}
           repeated == inotify # <<>> /\ inotify[Len(inotify)] = p
       IN  /\ unwatched' = IF devAt = "watch" THEN unwatched \cup {plugs + 1} ELSE unwatched
           /\ inotify' = IF watched /\ ~repeated THEN Append(inotify, p) ELSE inotify
           /\ signalled' = signalled \cup IF watched /\ ~repeated THEN {INOTIFY_TOKEN} ELSE {}
    /\ UNCHANGED <<devConf, devices, missing, token_counter, batch, do_rediscover, found, devAt>>

Unplug(p) ==
    /\ node[p] # 0 /\ p # OwnOutput /\ node' = [node EXCEPT ![p] = 0]
    /\ signalled' = signalled \cup {t \in DOMAIN devices : devices[t] = Device(p)}
    /\ UNCHANGED <<devConf, plugs, unwatched, inotify, devices, missing, token_counter, batch,
                   do_rediscover, found, devAt>>

Type(t) ==
    /\ Alive(devices[t]) /\ signalled' = signalled \cup {t}
    /\ UNCHANGED <<devEnv, inotify, devices, missing, token_counter, batch, do_rediscover,
                   found, devAt>>

-----------------------------------------------------------------------------
(* The selection: is_input_device and discover_devices                     *)

\* whether the detection takes a device of this type
Detects(type) ==
    \/ devConf.detect = "any"
    \/ devConf.detect = "keyboard-mice" /\ type \in {"Keyboard", "KeyboardMouse"}
    \/ devConf.detect = "keyboard-only" /\ type = "Keyboard"

\* Seeded fault: kanata does not recognise its own device.
AnyDevice(kind) == Detects(kind.type)
IsInputDevice(kind) == kind.name # "kanata" /\ Detects(kind.type)

\* the names to include replace the detection, those to exclude narrow it
Selected(kind) ==
    /\ IF devConf.include = {} THEN IsInputDevice(kind) ELSE kind.name \in devConf.include
    /\ kind.name \notin devConf.exclude

Present == {p \in Paths : node[p] # 0}
DiscoverDevices == {p \in Present : Selected(Kind[p])}

-----------------------------------------------------------------------------
(* KbdIn::new                                                              *)

Discover ==
    /\ devAt = "discover"
    /\ found' = {Device(p) : p \in IF ByPath THEN devConf.paths \cap Present ELSE DiscoverDevices}
    /\ missing' = devConf.paths \ Present
    /\ devAt' = IF found' = {} /\ ~devConf.continue_if_no_devices THEN "ended" ELSE "watch"
    /\ UNCHANGED <<devEnv, inotify, signalled, devices, token_counter, batch, do_rediscover>>

WatchDevInput ==
    /\ devAt = "watch" /\ devAt' = "register"
    /\ UNCHANGED <<devEnv, inotify, signalled, devices, missing, token_counter, batch,
                   do_rediscover, found>>

\* a device that is gone by now fails to register
RegisterDevice(d) ==
    /\ devAt = "register" /\ found' = found \ {d}
    /\ IF Alive(d)
       THEN /\ devices' = With(token_counter, d)
            /\ token_counter' = token_counter + 1
            /\ missing' = missing \ {d.path}
       ELSE /\ missing' = IF ByPath THEN missing \cup {d.path} ELSE missing
            /\ UNCHANGED <<devices, token_counter>>
    /\ UNCHANGED <<devEnv, inotify, signalled, batch, do_rediscover, devAt>>

AllRegistered ==
    /\ devAt = "register" /\ found = {} /\ devAt' = "poll"
    /\ UNCHANGED <<devEnv, inotify, signalled, devices, missing, token_counter, batch,
                   do_rediscover, found>>

-----------------------------------------------------------------------------
(* KbdIn::read                                                             *)

PollEvents ==
    /\ devAt = "poll" /\ signalled # {}
    /\ batch' = signalled /\ signalled' = {} /\ do_rediscover' = FALSE /\ devAt' = "events"
    /\ UNCHANGED <<devEnv, inotify, devices, missing, token_counter, found>>

\* Seeded fault: the devices are forgotten and still polled.
ForgetUnpolled(tokens) ==
    /\ devices' = Without(tokens) /\ UNCHANGED signalled
    /\ missing' = IF ByPath THEN missing \cup {devices[t].path : t \in tokens} ELSE missing
\* the tokens lose their devices, and the paths wait for others
Forget(tokens) ==
    /\ devices' = Without(tokens) /\ signalled' = signalled \ tokens
    /\ missing' = IF ByPath THEN missing \cup {devices[t].path : t \in tokens} ELSE missing

\* the events of a device, or the panic on a token that has none
FetchEvents(t) ==
    /\ t \in batch \ {INOTIFY_TOKEN} /\ batch' = batch \ {t}
    /\ IF t \in DOMAIN devices
       THEN Forget(IF Alive(devices[t]) THEN {} ELSE {t}) /\ UNCHANGED devAt
       ELSE devAt' = "panicked" /\ UNCHANGED <<devices, missing, signalled>>
    /\ UNCHANGED <<devEnv, inotify, token_counter, do_rediscover, found>>

\* the queue is drained
DrainInotify ==
    /\ INOTIFY_TOKEN \in batch /\ batch' = batch \ {INOTIFY_TOKEN}
    /\ inotify' = <<>> /\ signalled' = signalled \ {INOTIFY_TOKEN}
    /\ do_rediscover' = TRUE
    /\ UNCHANGED <<devEnv, devices, missing, token_counter, found, devAt>>

\* new devices are looked for after the last event of the poll
EndOfEvents ==
    /\ devAt = "events" /\ batch = {}
    /\ devAt' = IF do_rediscover THEN "stale" ELSE "poll"
    /\ UNCHANGED <<devEnv, inotify, signalled, devices, missing, token_counter, batch,
                   do_rediscover, found>>

-----------------------------------------------------------------------------
(* KbdIn::rediscover_devices                                               *)

\* Seeded fault: devices are only removed when their own token reports them gone.
NoneStale == {}
StaleTokens == {t \in DOMAIN devices : ~Alive(devices[t])}

RemoveStaleDevices ==
    /\ devAt = "stale" /\ devAt' = "find" /\ Forget(StaleTokens)
    /\ UNCHANGED <<devEnv, inotify, token_counter, batch, do_rediscover, found>>

RediscoverDevices ==
    /\ devAt = "find"
    /\ devAt' = IF ByPath /\ missing = {} THEN "poll" ELSE "register"
    /\ found' = {Device(p) : p \in
                    IF ByPath THEN missing \cap Present
                    ELSE DiscoverDevices \ {devices[t].path : t \in DOMAIN devices}}
    /\ UNCHANGED <<devEnv, inotify, signalled, devices, missing, token_counter, batch,
                   do_rediscover>>

-----------------------------------------------------------------------------
KbdInStep ==
    \/ Discover \/ WatchDevInput \/ AllRegistered
    \/ \E d \in found : RegisterDevice(d)
    \/ PollEvents \/ EndOfEvents
    \/ devAt = "events" /\ (DrainInotify \/ \E t \in batch : FetchEvents(t))
    \/ RemoveStaleDevices \/ RediscoverDevices

DevicesNext ==
    \/ \E p \in Paths : Plug(p) \/ Unplug(p)
    \/ \E t \in DOMAIN devices : Type(t)
    \/ KbdInStep

-----------------------------------------------------------------------------
(* However devices come and go, also while others are being registered,    *)
(* the event loop never meets a token it knows no device for, which would  *)
(* be the panic on an unexpected epoll event.                              *)
NoUnknownToken == devAt # "panicked"

Wanted(p) == IF ByPath THEN p \in devConf.paths ELSE Selected(Kind[p])

(* A keyboard that is plugged in, or plugged in again, and stays is read.  *)
(* (One that arrives between the first discovery and the watch has to wait *)
(* for the next device.)                                                   *)
KeyboardsAreRead ==
    \A p \in Paths \ {OwnOutput}, n \in 1..(MaxPlugs + 1) :
        (node[p] = n /\ Wanted(p) /\ n \notin unwatched)
            ~> (devAt = "ended" \/ node[p] # n \/ Registered([path |-> p, gen |-> n]))

(* What kanata types does not come back as input: is_input_device leaves   *)
(* out the device with the name of the virtual keyboard.                   *)
OwnOutputNotRead ==
    devConf.include = {} /\ ~ByPath => ~Registered(Device(OwnOutput))
=============================================================================
