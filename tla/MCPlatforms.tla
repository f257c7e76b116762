---------------------------- MODULE MCPlatforms ----------------------------
(***************************************************************************)
(* Small instances for TLC of the parts that stand by themselves: the      *)
(* clock of the processing loop, the hook of Windows, the event loop and   *)
(* the mouse of macOS and the devices of Linux.  In a behaviour one part   *)
(* runs and the variables of the others keep their first values.           *)
(***************************************************************************)
EXTENDS TickClock, WinHook, MacEventLoop, Devices, MacMouse

CONSTANTS
    Parts,            \* the parts to look at
    mapped, other,    \* keys, the second not mapped on macOS
    lctl, ralt        \* left control and AltGr on Windows

VARIABLE part

platformVars == <<vars, winVars, macVars, devVars, mouseVars, part>>

AllParts == {"clock", "windows", "mac", "devices", "mouse"}

\* passes of the loop, with 4 units of the clock to the millisecond
AnyGaps == {1, 4, 5, 9}

\* devices plugged in at a path: kanata's own one, and two that come and go
Dev(name, type) == [name |-> name, type |-> type]
DefaultName ==
    [own |-> Dev("kanata", "KeyboardMouse"), ev1 |-> Dev("keyboard", "Keyboard"),
     ev2 |-> Dev("mouse", "Mouse")]

DevConfig(paths, detect, include, exclude, continue) ==
    [paths |-> paths, detect |-> detect, include |-> include, exclude |-> exclude,
     continue_if_no_devices |-> continue]
Configs ==
    [listed |-> DevConfig({"ev1", "ev2"}, "any", {}, {}, TRUE),
     any |-> DevConfig({}, "any", {}, {}, TRUE),
     keyboards |-> DevConfig({}, "keyboard-mice", {}, {}, FALSE),
     named |-> DevConfig({}, "keyboard-only", {"keyboard", "mouse"}, {"mouse"}, TRUE)]

\* two displays side by side, and one that is off beside one that is on
Rect(x, y, w, h) == [x |-> x, y |-> y, w |-> w, h |-> h]
Displays == {<<Rect(0, 0, 4, 3), Rect(4, 1, 2, 3)>>, <<Rect(0, 0, 0, 0), Rect(0, 0, 3, 2)>>}
Move(dir, distance) == [dir |-> dir, distance |-> distance]
SingleMoves == {Move("right", 1), Move("right", 2), Move("left", 1), Move("up", 2)}
MovesTogether == {<<Move("right", 3), Move("down", 2)>>}
Positions == {Point(1, 1), Point(9, 9)}

\* the parts that do not run have one state to start from
Still ==
    /\ part # "windows" => altgr = "DoNothing" /\ win_sync = "ClearKanata"
    /\ part # "devices" => /\ devConf = CHOOSE c \in {DevConfigs[n] : n \in DOMAIN DevConfigs} : TRUE
                           /\ \A p \in Paths : node[p] = IF p = OwnOutput THEN 1 ELSE 0
    /\ part # "mouse" => /\ displays = CHOOSE ds \in Desktops : TRUE
                         /\ cursor = Point(displays[1].x, displays[1].y)

PlatformInit ==
    /\ part \in Parts
    /\ Init /\ WinInit /\ MacInit /\ DevicesInit /\ MouseInit /\ Still

\* the longest inputs on Windows are of one key, with the default options
LongInputsOfOneKey ==
    typed > 3 => /\ altgr = "DoNothing" /\ win_sync = "ClearKanata"
                 /\ ralt \notin physDown \cup osDown \cup held

PlatformNext ==
    /\ \/ part = "clock" /\ Next /\ UNCHANGED <<winVars, macVars, devVars, mouseVars>>
       \/ part = "windows" /\ WinNext /\ UNCHANGED <<vars, macVars, devVars, mouseVars>>
       \/ part = "mac" /\ MacNext /\ UNCHANGED <<vars, winVars, devVars, mouseVars>>
       \/ part = "devices" /\ DevicesNext /\ UNCHANGED <<vars, winVars, macVars, mouseVars>>
       \/ part = "mouse" /\ MouseNext /\ UNCHANGED <<vars, winVars, macVars, devVars>>
    /\ UNCHANGED part

\* the threads of a part that runs get their turns
MacFairness ==
    /\ WF_macVars(part = "mac" /\ EventLoopStep) /\ WF_macVars(part = "mac" /\ LockPoller)
    /\ WF_macVars(part = "mac" /\ TakeEvent) /\ WF_macVars(part = "mac" /\ OutputKeys)
DevicesFairness == WF_devVars(part = "devices" /\ KbdInStep)

PlatformSpec == PlatformInit /\ [][PlatformNext]_platformVars /\ MacFairness /\ DevicesFairness
=============================================================================
