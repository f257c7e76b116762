------------------------------ MODULE WinHook ------------------------------
(***************************************************************************)
(* How a key event of Windows reaches the processing loop: the callback of *)
(* the low level hook, which takes an event away from Windows or gives it  *)
(* back, the preprocessor thread, which deals with the left control that   *)
(* Windows invents for AltGr, and what the processing loop does when it    *)
(* has missed events: clear_states_from_inactivity and                     *)
(* win_synchronize_keystates.  It models llhook.rs and mod.rs of           *)
(* src/kanata/windows.  Every key of the layout outputs itself.            *)
(***************************************************************************)
EXTENDS Integers, Sequences

CONSTANTS
    WinKeys,          \* the keys a user presses
    LCtl, RAlt,       \* the left control and AltGr
    WinMapped,        \* MAPPED_KEYS
    AltGrBehaviours,  \* the values of windows-altgr to look at
    SyncBehaviours,   \* the values of windows-sync-keystates to look at
    MaxTyped,         \* bound: the events the user causes
    MaxBlind          \* bound: how often the hook stops or starts getting events

ASSUME WinHookAssumption ==
    /\ WinMapped \subseteq WinKeys /\ LCtl # RAlt
    /\ AltGrBehaviours \subseteq {"DoNothing", "CancelLctlPress", "AddLctlRelease"}
    /\ SyncBehaviours \subseteq {"DoNothing", "ClearKanata", "ClearBoth"}
    /\ MaxTyped \in Nat /\ MaxBlind \in Nat

VARIABLES
    altgr, win_sync,      \* ALTGR_BEHAVIOUR and windows_sync_keystates
    physDown,             \* external: the keys held down by the user
    fakeCtrl,             \* external: Windows holds a left control for AltGr
    winQueue,             \* external: the events Windows will show to the hook
    hooked,               \* external: FALSE while an application of an administrator has the focus
    osDown,               \* external: the keys GetAsyncKeyState says are down
    winPressed,           \* PRESSED_KEYS
    fresh,                \* the keys of PRESSED_KEYS that are there for less than 5 s
    preQueue,             \* the channel to the preprocessor thread
    lctl_state, can_block,
    winChan,              \* the channel to the processing loop
    held,                 \* the keys that are down in the layout, and prev_keys
    blocked,              \* the processing loop waits on the channel
    longAgo,              \* last_input_time is more than a minute old
    idle_clear_happened,
    withheld,             \* observed: a press of LCtl was kept from the layout
    overtaken,            \* observed: the keys that left PRESSED_KEYS while a press of them
                          \* was on its way to the layout, until the hook sees a new press
    typed, blinds         \* what the bounds count

winConf == <<altgr, win_sync>>
winUser == <<physDown, fakeCtrl, hooked, typed, blinds>>
hookVars == <<winPressed, fresh, overtaken>>
preVars == <<lctl_state, can_block, withheld>>
loopVars == <<held, blocked, longAgo, idle_clear_happened>>
winVars == <<winConf, winUser, winQueue, osDown, hookVars, preQueue, preVars, winChan, loopVars>>

Ev(key, value) == [key |-> key, value |-> value]

WinInit ==
    /\ altgr \in AltGrBehaviours /\ win_sync \in SyncBehaviours
    /\ physDown = {} /\ fakeCtrl = FALSE /\ hooked = TRUE /\ typed = 0 /\ blinds = 0
    /\ winQueue = <<>> /\ osDown = {} /\ winPressed = {} /\ fresh = {} /\ overtaken = {}
    /\ preQueue = <<>> /\ lctl_state = "None" /\ can_block = FALSE /\ withheld = FALSE
    /\ winChan = <<>> /\ held = {} /\ blocked = FALSE
    /\ longAgo = FALSE /\ idle_clear_happened = FALSE

\* nothing is on its way from the keyboard to the layout
Settled ==
    /\ winQueue = <<>> /\ preQueue = <<>> /\ lctl_state = "None" /\ winChan = <<>>

-----------------------------------------------------------------------------
(* The user and Windows                                                    *)

\* the events of keys go to the hook or, where there is none, to the focus
Caused(keys, value) ==
    /\ typed < MaxTyped /\ typed' = typed + 1
    /\ IF hooked
       THEN /\ winQueue' = winQueue \o [i \in DOMAIN keys |-> Ev(keys[i], value)]
            /\ UNCHANGED osDown
       ELSE LET ks == {keys[i] : i \in DOMAIN keys}
            IN  /\ osDown' = IF value = "Press" THEN osDown \cup ks ELSE osDown \ ks
                /\ UNCHANGED winQueue
    /\ UNCHANGED <<winConf, hooked, blinds, hookVars, preQueue, preVars, winChan, loopVars>>

\* with a layout that has AltGr, Windows presses a left control before it
UserPresses(k) ==
    /\ k \notin physDown /\ physDown' = physDown \cup {k}
    /\ IF k = RAlt /\ LCtl \notin physDown
       THEN Caused(<<LCtl, RAlt>>, "Press") /\ fakeCtrl' = TRUE
       ELSE Caused(<<k>>, "Press") /\ UNCHANGED fakeCtrl

UserReleases(k) ==
    /\ k \in physDown /\ physDown' = physDown \ {k}
    /\ IF k = RAlt /\ fakeCtrl
       THEN Caused(<<LCtl, RAlt>>, "Release") /\ fakeCtrl' = FALSE
       ELSE Caused(<<k>>, "Release") /\ UNCHANGED fakeCtrl

\* a key that is held repeats its press
KeyRepeats(k) ==
    /\ k \in physDown /\ Caused(<<k>>, "Press") /\ UNCHANGED <<physDown, fakeCtrl>>

\* the focus moves while nothing typed is on its way, which takes milliseconds
FocusMoves ==
    /\ Settled /\ blinds < MaxBlind /\ blinds' = blinds + 1
    /\ hooked' = ~hooked
    /\ UNCHANGED <<winConf, physDown, fakeCtrl, typed, winQueue, osDown, hookVars,
                   preQueue, preVars, winChan, loopVars>>

\* a minute without input
MinutePasses ==
    /\ Settled /\ ~longAgo /\ longAgo' = TRUE /\ fresh' = {}
    /\ UNCHANGED <<winConf, winUser, winQueue, osDown, winPressed, overtaken, preQueue, preVars,
                   winChan, held, blocked, idle_clear_happened>>

-----------------------------------------------------------------------------
(* The hook: the callback of KeyboardHook::set_input_cb                     *)

\* the callback returns true: the event goes to the preprocessor
Keeps(e) ==
    e.key \in WinMapped /\ (e.value = "Release" => e.key \in winPressed)

\* the preprocessor may keep a press of k from the layout
MayWithhold(k) == k = LCtl /\ altgr = "CancelLctlPress"

Hook ==
    /\ winQueue # <<>> /\ winQueue' = Tail(winQueue)
    /\ LET e == Head(winQueue)
           again == e.value = "Press" /\ e.key \in winPressed
       IN  IF Keeps(e)
           THEN /\ preQueue' = Append(preQueue, IF again THEN Ev(e.key, "Repeat") ELSE e)
                /\ winPressed' = IF e.value = "Press" THEN winPressed \cup {e.key}
                                                      ELSE winPressed \ {e.key}
                /\ fresh' = IF e.value = "Release" THEN fresh \ {e.key}
                            ELSE IF again THEN fresh ELSE fresh \cup {e.key}
                /\ overtaken' = IF e.value = "Press" /\ ~again /\ ~MayWithhold(e.key)
                                THEN overtaken \ {e.key} ELSE overtaken
                /\ UNCHANGED osDown
           ELSE /\ osDown' = IF e.value = "Press" THEN osDown \cup {e.key}
                                                  ELSE osDown \ {e.key}
                /\ UNCHANGED <<preQueue, hookVars>>
    /\ UNCHANGED <<winConf, winUser, preVars, winChan, loopVars>>

-----------------------------------------------------------------------------
(* The preprocessor: start_event_preprocessor                               *)

Sends(es) ==
    /\ winChan' = winChan \o es
    /\ withheld' = (withheld /\ Ev(LCtl, "Press") \notin {es[i] : i \in DOMAIN es})

\* what an event does under cancel-lctl-press
CancelLctl(e) ==
    CASE e = Ev(LCtl, "Press") ->
            lctl_state' = "Pressed" /\ Sends(<<>>)
      [] e = Ev(LCtl, "Release") /\ lctl_state = "Pressed" ->
            lctl_state' = "Released" /\ Sends(<<>>)
      [] e = Ev(LCtl, "Release") /\ lctl_state = "Pending" ->
            lctl_state' = "PendingReleased" /\ Sends(<<>>)
      [] e = Ev(LCtl, "Release") /\ lctl_state \in {"Released", "PendingReleased"} ->
            UNCHANGED lctl_state /\ Sends(<<>>)
      [] e = Ev(RAlt, "Press") ->
            /\ lctl_state' = "None" /\ winChan' = Append(winChan, e)
            /\ withheld' = (withheld \/ lctl_state \in {"Pressed", "Pending"})
      [] OTHER -> UNCHANGED lctl_state /\ Sends(<<e>>)

PreReceives ==
    /\ preQueue # <<>> /\ preQueue' = Tail(preQueue) /\ can_block' = FALSE
    /\ LET e == Head(preQueue)
       IN  IF altgr = "CancelLctlPress" THEN CancelLctl(e) /\ UNCHANGED hookVars
           ELSE IF altgr = "AddLctlRelease" /\ e = Ev(RAlt, "Release")
           THEN /\ Sends(<<e, Ev(LCtl, "Release")>>)
                /\ winPressed' = winPressed \ {LCtl} /\ fresh' = fresh \ {LCtl}
                /\ UNCHANGED <<lctl_state, overtaken>>
           ELSE Sends(<<e>>) /\ UNCHANGED <<lctl_state, hookVars>>
    /\ UNCHANGED <<winConf, winUser, winQueue, osDown, loopVars>>

\* the states of lctl_state for which the thread has to look again by itself
Unsent == {"Pressed", "Released", "Pending", "PendingReleased"}

\* try_recv has found the channel empty
PreFindsNothing ==
    /\ preQueue = <<>> /\ ~can_block
    /\ can_block' = (altgr # "CancelLctlPress" \/ lctl_state \notin Unsent)
    /\ CASE lctl_state = "Pressed" -> lctl_state' = "Pending" /\ Sends(<<>>)
         [] lctl_state = "Released" -> lctl_state' = "PendingReleased" /\ Sends(<<>>)
         [] lctl_state = "Pending" ->
                lctl_state' = "None" /\ Sends(<<Ev(LCtl, "Press")>>)
         [] lctl_state = "PendingReleased" ->
                lctl_state' = "None" /\ Sends(<<Ev(LCtl, "Press"), Ev(LCtl, "Release")>>)
         [] OTHER -> UNCHANGED lctl_state /\ Sends(<<>>)
    /\ UNCHANGED <<winConf, winUser, winQueue, osDown, hookVars, preQueue, loopVars>>

-----------------------------------------------------------------------------
(* The processing loop                                                     *)

\* Seeded fault: keys that were pressed a moment ago are forgotten as well.
ForgetsAll(keys) == {}
\* the keys clear_states_from_inactivity leaves in PRESSED_KEYS
StillPressed(keys) == keys \cap fresh

ClearDue == longAgo /\ ~idle_clear_happened

\* the layout goes from held to keys and outputs the difference
Outputs(keys) ==
    /\ held' = keys
    /\ osDown' = (osDown \ (held \ keys)) \cup (keys \ held)

\* a pass that finds the channel empty
ClearsWhilePolling ==
    /\ ~blocked /\ winChan = <<>> /\ ClearDue
    /\ idle_clear_happened' = TRUE
    /\ Outputs({}) /\ winPressed' = StillPressed(winPressed)
    /\ UNCHANGED <<winConf, winUser, winQueue, fresh, overtaken, preQueue, preVars, winChan,
                   blocked, longAgo>>

\* a loop that blocked clears before it handles what woke it up
Processes ==
    /\ winChan # <<>> /\ winChan' = Tail(winChan)
    /\ LET e == Head(winChan)
           before == IF blocked /\ ClearDue THEN {} ELSE held
       IN  Outputs(CASE e.value = "Press" -> before \cup {e.key}
                     [] e.value = "Release" -> before \ {e.key}
                     [] OTHER -> before)
    /\ winPressed' = IF blocked /\ ClearDue THEN StillPressed(winPressed) ELSE winPressed
    /\ blocked' = FALSE /\ longAgo' = FALSE /\ idle_clear_happened' = FALSE
    /\ UNCHANGED <<winConf, winUser, winQueue, fresh, overtaken, preQueue, preVars>>

\* a press of k that the hook has kept has not reached the processing loop yet
DownOnItsWay(k) ==
    \/ \E q \in {preQueue, winChan} : \E i \in DOMAIN q : q[i] = Ev(k, "Press")
    \/ k = LCtl /\ lctl_state \in Unsent

\* the loop is idle: win_synchronize_keystates and the blocking receive
Blocks ==
    /\ ~blocked /\ blocked' = TRUE
    /\ LET ghosts == IF win_sync = "DoNothing" THEN {} ELSE held \ osDown
       IN  /\ held' = held \ ghosts
           /\ winPressed' = winPressed \ ghosts /\ fresh' = fresh \ ghosts
           /\ overtaken' = (overtaken \ ghosts) \cup {k \in ghosts : DownOnItsWay(k)}
           /\ osDown' = IF win_sync = "ClearBoth"
                        THEN osDown \ (WinMapped \ held) ELSE osDown
    /\ UNCHANGED <<winConf, winUser, winQueue, preQueue, preVars, winChan, longAgo,
                   idle_clear_happened>>

-----------------------------------------------------------------------------
WinNext ==
    \/ \E k \in WinKeys : UserPresses(k) \/ UserReleases(k) \/ KeyRepeats(k)
    \/ FocusMoves \/ MinutePasses
    \/ Hook \/ PreReceives \/ PreFindsNothing
    \/ ClearsWhilePolling \/ Processes \/ Blocks

-----------------------------------------------------------------------------
(* Once everything typed has arrived, the hook and the layout agree on     *)
(* what is down, through missed events, the clearing after a minute, the   *)
(* synchronisation and cancel-lctl-press: a key the layout alone believed  *)
(* to be down would stay down, for the hook gives its release to Windows.  *)
(* The exception are the keys in overtaken: win_synchronize_keystates      *)
(* compares the layout with Windows and forgets a key in PRESSED_KEYS,     *)
(* where it may be there on account of a newer press.                      *)
HookAndLayoutAgree ==
    altgr # "AddLctlRelease" =>
        held \ overtaken = (IF withheld THEN winPressed \ {LCtl} ELSE winPressed) \ overtaken

(* However the press and the release of a key were divided between Windows *)
(* and the hook, no key is left down in Windows that the user has released *)
(* and that the layout does not know of either, so that nobody would ever  *)
(* release it.  (A left control that cancel-lctl-press withholds can end   *)
(* that way, when it repeats while the hook gets no events.)               *)
NoKeyDownInWindows ==
    osDown \ (IF fakeCtrl \/ altgr = "CancelLctlPress" THEN {LCtl} ELSE {})
        \subseteq physDown \cup held

(* Windows, the hook's PRESSED_KEYS and the layout agree on the keys that  *)
(* are down whenever nothing is on its way between them.                   *)
KeysAgree == Settled => HookAndLayoutAgree /\ NoKeyDownInWindows
=============================================================================
