--------------------------- MODULE PlatformProofs ---------------------------
(***************************************************************************)
(* Proofs about the parts of the platforms: the tokens of the devices of   *)
(* Linux and the sums of the mouse moves of macOS.  Nothing bounds the     *)
(* numbers of devices, displays or steps here but the constants of the     *)
(* modules, which may have any value.                                      *)
(***************************************************************************)
EXTENDS Devices, MacMouse, WellFoundedInduction, TLAPS

-----------------------------------------------------------------------------
(* Devices: KbdIn of Linux                                                 *)

DevicesSpec == DevicesInit /\ [][DevicesNext]_devVars

\* tokens are given out once, and the inotify token to no device
TokensGivenOut ==
    /\ token_counter \in Nat \ {INOTIFY_TOKEN}
    /\ DOMAIN devices \subseteq 1..(token_counter - 1)

\* what wakes a poll is known, and so is what is left of this poll's events
SignalsKnown ==
    /\ signalled \subseteq DOMAIN devices \cup {INOTIFY_TOKEN}
    /\ batch \subseteq DOMAIN devices \cup {INOTIFY_TOKEN}

\* the events of a poll are looked at before anything else
BatchInEvents == batch # {} => devAt = "events"

TokenInv == TokensGivenOut /\ SignalsKnown /\ BatchInEvents /\ NoUnknownToken

\* What DOMAIN says of the two ways in which the table of devices changes.
LEMMA DeviceTables ==
    ASSUME NEW t, NEW d, NEW S
    PROVE  /\ DOMAIN With(t, d) = DOMAIN devices \cup {t}
           /\ DOMAIN Without(S) = DOMAIN devices \ S
BY DEF With, Without

\* No step of the devices or of the event loop ends in the panic.
LEMMA TokenStep == TokenInv /\ [DevicesNext]_devVars => TokenInv'
<1> SUFFICES ASSUME TokenInv, [DevicesNext]_devVars PROVE TokenInv'
  OBVIOUS
<1> USE DEF TokenInv, TokensGivenOut, SignalsKnown, BatchInEvents, NoUnknownToken,
            INOTIFY_TOKEN, devEnv
<1>1. CASE UNCHANGED devVars
  BY <1>1 DEF devVars
<1>2. ASSUME NEW p \in Paths, Plug(p) PROVE TokenInv'
  BY <1>2 DEF Plug
<1>3. ASSUME NEW p \in Paths, Unplug(p) PROVE TokenInv'
  BY <1>3 DEF Unplug
<1>4. ASSUME NEW t \in DOMAIN devices, Type(t) PROVE TokenInv'
  BY <1>4 DEF Type
<1>5. CASE Discover \/ WatchDevInput \/ AllRegistered \/ EndOfEvents \/ RediscoverDevices
  BY <1>5 DEF Discover, WatchDevInput, AllRegistered, EndOfEvents, RediscoverDevices
<1>6. ASSUME NEW d \in found, RegisterDevice(d) PROVE TokenInv'
  <2>1. CASE Alive(d)
    <3>1. DOMAIN devices' = DOMAIN devices \cup {token_counter}
      BY <1>6, <2>1, DeviceTables DEF RegisterDevice
    <3>2. DOMAIN devices' \subseteq 1..((token_counter + 1) - 1)
      BY <3>1
    <3> QED BY <1>6, <2>1, <3>1, <3>2 DEF RegisterDevice
  <2>2. CASE ~Alive(d)
    BY <1>6, <2>2 DEF RegisterDevice
  <2> QED BY <2>1, <2>2
<1>7. CASE PollEvents
  BY <1>7 DEF PollEvents
<1>8. CASE devAt = "events" /\ DrainInotify
  BY <1>8 DEF DrainInotify
<1>9. ASSUME devAt = "events", NEW t \in batch, FetchEvents(t) PROVE TokenInv'
  <2>1. t \in DOMAIN devices
    BY <1>9 DEF FetchEvents
  <2>2. PICK S \in SUBSET {t} : Forget(S) /\ UNCHANGED devAt
    BY <1>9, <2>1 DEF FetchEvents
  <2>3. DOMAIN devices' = DOMAIN devices \ S
    BY <2>2, DeviceTables DEF Forget
  <2> QED BY <1>9, <2>2, <2>3 DEF FetchEvents, Forget
<1>10. CASE RemoveStaleDevices
  <2>1. DOMAIN devices' = DOMAIN devices \ StaleTokens
    BY <1>10, DeviceTables DEF RemoveStaleDevices, Forget
  <2> QED BY <1>10, <2>1 DEF RemoveStaleDevices, Forget
<1> QED
  BY <1>1, <1>2, <1>3, <1>4, <1>5, <1>6, <1>7, <1>8, <1>9, <1>10
  DEF DevicesNext, KbdInStep

(* The event loop never meets a token it knows no device for, however many *)
(* devices there are and in whatever order they come and go: KbdIn::read   *)
(* does not reach its panic on an unexpected epoll event.                  *)
THEOREM TokensStayKnown == DevicesSpec => []NoUnknownToken
<1>1. DevicesInit => TokenInv
  BY DEF DevicesInit, TokenInv, TokensGivenOut, SignalsKnown, BatchInEvents,
         NoUnknownToken, INOTIFY_TOKEN
<1>2. TokenInv => NoUnknownToken
  BY DEF TokenInv
<1> QED BY <1>1, <1>2, TokenStep, PTL DEF DevicesSpec

-----------------------------------------------------------------------------
\* what was found or is read by its name has been selected by its name
SelectedOnly ==
    devConf.include = {} /\ ~ByPath =>
        /\ \A d \in found : Selected(Kind[d.path])
        /\ \A t \in DOMAIN devices : Selected(Kind[devices[t].path])

\* A device is found by the selection, and the selection never changes.
LEMMA SelectionStep ==
    TokenInv /\ SelectedOnly /\ [DevicesNext]_devVars => SelectedOnly'
<1> DEFINE Found == \A d \in found : Selected(Kind[d.path])
           Read == \A t \in DOMAIN devices : Selected(Kind[devices[t].path])
           FoundNext == \A d \in found' : Selected(Kind[d.path])
           ReadNext == \A t \in DOMAIN devices' : Selected(Kind[devices'[t].path])
<1> SUFFICES ASSUME TokenInv, SelectedOnly, [DevicesNext]_devVars PROVE SelectedOnly'
  OBVIOUS
<1>1. devConf' = devConf
  BY DEF DevicesNext, KbdInStep, devVars, devEnv, Plug, Unplug, Type, Discover, WatchDevInput,
         RegisterDevice, AllRegistered, PollEvents, FetchEvents, DrainInotify, EndOfEvents,
         RemoveStaleDevices, RediscoverDevices
<1>2. SUFFICES ASSUME devConf.include = {}, ~ByPath PROVE FoundNext /\ ReadNext
  BY <1>1 DEF SelectedOnly, ByPath, Selected, IsInputDevice, Detects
<1>3. Found /\ Read
  BY <1>2 DEF SelectedOnly
<1>4. ASSUME UNCHANGED <<found, devices>> PROVE FoundNext /\ ReadNext
  BY <1>3, <1>4
<1>5. ASSUME found' = {Device(p) : p \in DiscoverDevices}, UNCHANGED devices
      PROVE  FoundNext /\ ReadNext
  BY <1>3, <1>5 DEF DiscoverDevices, Device
<1>6. CASE Discover
  BY <1>2, <1>5, <1>6 DEF Discover
<1>7. ASSUME NEW d \in found, RegisterDevice(d) PROVE FoundNext /\ ReadNext
  <2>1. FoundNext
    BY <1>3, <1>7 DEF RegisterDevice
  <2>2. CASE Alive(d)
    BY <1>3, <1>7, <2>1, <2>2 DEF RegisterDevice, With
  <2>3. CASE ~Alive(d)
    BY <1>3, <1>7, <2>1, <2>3 DEF RegisterDevice
  <2> QED BY <2>2, <2>3
<1>8. ASSUME NEW S, Forget(S), UNCHANGED found PROVE FoundNext /\ ReadNext
  BY <1>3, <1>8 DEF Forget, Without
<1>9. ASSUME NEW t \in batch, FetchEvents(t) PROVE FoundNext /\ ReadNext
  BY <1>4, <1>8, <1>9 DEF FetchEvents
<1>10. CASE RemoveStaleDevices
  BY <1>8, <1>10 DEF RemoveStaleDevices
<1>11. CASE RediscoverDevices
  <2>1. found' \subseteq {Device(p) : p \in DiscoverDevices} /\ UNCHANGED devices
    BY <1>2, <1>11 DEF RediscoverDevices
  <2> QED BY <1>3, <2>1 DEF DiscoverDevices, Device
<1>12. \/ UNCHANGED <<found, devices>>
       \/ Discover \/ RemoveStaleDevices \/ RediscoverDevices
       \/ \E d \in found : RegisterDevice(d)
       \/ \E t \in batch : FetchEvents(t)
  BY DEF DevicesNext, KbdInStep, devVars, Plug, Unplug, Type, WatchDevInput, AllRegistered,
         PollEvents, DrainInotify, EndOfEvents
<1> QED BY <1>4, <1>6, <1>7, <1>9, <1>10, <1>11, <1>12

\* the name kanata gives to its keyboard, unless linux-output-device-name is set
DefaultOutputName == Kind[OwnOutput].name = "kanata"

(* With the default name of its keyboard kanata does not read its own      *)
(* output, unless the configuration asks for devices by path or by name,   *)
(* so that nothing it types comes back as input.                           *)
THEOREM OwnOutputStaysUnread ==
    ASSUME DefaultOutputName PROVE DevicesSpec => []OwnOutputNotRead
<1>1. DevicesInit => TokenInv /\ SelectedOnly
  BY DEF DevicesInit, TokenInv, TokensGivenOut, SignalsKnown, BatchInEvents,
         NoUnknownToken, INOTIFY_TOKEN, SelectedOnly
<1>2. SelectedOnly => OwnOutputNotRead
  BY DEF DefaultOutputName, SelectedOnly, OwnOutputNotRead, Registered, Device, Selected,
         IsInputDevice
<1> QED BY <1>1, <1>2, TokenStep, SelectionStep, PTL DEF DevicesSpec

-----------------------------------------------------------------------------
(* MacMouse: the moves of the mouse on macOS                               *)

MouseSpec == MouseInit /\ [][MouseNext]_mouseVars

\* whatever displays come and go, one of them shows the cursor
AlwaysADisplay == \A ds \in Desktops : \E i \in DOMAIN ds : CanHoldCursor(ds[i])

\* Every non-empty set of naturals has a least element.
LEMMA LeastNatural ==
    ASSUME NEW T, T \subseteq Nat, T # {}
    PROVE  \E x \in T : \A y \in T : x <= y
<1>1. \E x \in T : \A y \in T : ~ (<<y, x>> \in OpToRel(<, Nat))
  BY NatLessThanWellFounded, WFMin, Zenon
<1>2. \E x \in T : \A y \in T : ~ (y < x)
  BY <1>1 DEF OpToRel
<1> QED BY <1>2

\* How positions add up.
LEMMA PointSums ==
    /\ Point(0, 0) \in Points
    /\ \A p, q \in Points : Plus(p, q) \in Points
    /\ \A p \in Points : Plus(p, Point(0, 0)) = p /\ Plus(Point(0, 0), p) = p
    /\ \A p, q, r \in Points : Plus(Plus(p, q), r) = Plus(p, Plus(q, r))
    /\ \A d \in Rectangles : Point(d.x, d.y) \in Points
BY DEF Plus, Point, Points, Rectangles

\* clamp_to_display ends on the display, for one that can hold the cursor.
LEMMA ClampedIsOn ==
    ASSUME NEW d \in Rectangles, NEW p \in Points
    PROVE  /\ ClampToDisplay(p, d) \in Points
           /\ CanHoldCursor(d) => IsOn(d, ClampToDisplay(p, d))
BY DEF Rectangles, Points, ClampToDisplay, Between, CanHoldCursor, IsOn, Point

\* The nearest of some displays is one of them: there is a least distance, and
\* a first display at this distance.
LEMMA NearestIsOne ==
    ASSUME NEW ds \in Seq(Rectangles), NEW S \in SUBSET DOMAIN ds, S # {}, NEW p \in Points
    PROVE  Nearest(ds, S, p) \in S
<1> DEFINE Away(i) == DistanceSquared(ClampToDisplay(p, ds[i]), p)
           T == {Away(i) : i \in S}
<1>1. \A q \in Points : DistanceSquared(q, p) \in Nat
  <2>1. ASSUME NEW a \in Int PROVE a * a \in Nat
    <3>1. a * a \in Int
      OBVIOUS
    <3>2. a * a >= 0
      BY Z3
    <3> QED BY <3>1, <3>2
  <2>2. ASSUME NEW q \in Points PROVE DistanceSquared(q, p) \in Nat
    <3>1. q.x - p.x \in Int /\ q.y - p.y \in Int
      BY DEF Points
    <3>2. /\ (q.x - p.x) * (q.x - p.x) \in Nat
          /\ (q.y - p.y) * (q.y - p.y) \in Nat
      BY <2>1, <3>1
    <3> QED BY <3>2 DEF DistanceSquared
  <2> QED BY <2>2
<1>2. \A i \in S : Away(i) \in Nat
  BY <1>1, ClampedIsOn
<1> HIDE DEF Away
<1>3. PICK x \in T : \A y \in T : x <= y
  <2>1. T \subseteq Nat /\ T # {}
    BY <1>2
  <2> HIDE DEF T
  <2> QED BY <2>1, LeastNatural
<1> DEFINE F == {i \in S : Away(i) = x}
<1>4. PICK i \in F : \A j \in F : i <= j
  <2>1. F \subseteq Nat /\ F # {}
    BY <1>3
  <2> HIDE DEF F
  <2> QED BY <2>1, LeastNatural
<1>5. ASSUME NEW j \in S PROVE Away(i) < Away(j) \/ (Away(i) = Away(j) /\ i <= j)
  <2>1. Away(i) = x /\ Away(j) \in T /\ x \in Nat /\ Away(j) \in Nat
    BY <1>2, <1>3, <1>4
  <2>2. x <= Away(j)
    BY <1>3, <2>1
  <2>3. CASE Away(j) = x
    BY <1>4, <2>1, <2>3
  <2>4. CASE Away(j) # x
    BY <2>1, <2>2, <2>4
  <2> QED BY <2>3, <2>4
<1>6. Nearest(ds, S, p)
        = CHOOSE k \in S : \A j \in S : Away(k) < Away(j) \/ (Away(k) = Away(j) /\ k <= j)
  BY DEF Nearest, Away
<1> QED BY <1>4, <1>5, <1>6

\* A position that is clamped to the displays is on one of them.
LEMMA ClampToDisplaysIsOn ==
    ASSUME NEW ds \in Seq(Rectangles), NEW p \in Points
    PROVE  /\ ClampToDisplays(p, ds) \in Points
           /\ (\E i \in DOMAIN ds : CanHoldCursor(ds[i]))
                 => OnDesktop(ds, ClampToDisplays(p, ds))
<1> DEFINE able == {i \in DOMAIN ds : CanHoldCursor(ds[i])}
<1>1. CASE OnDesktop(ds, p) \/ able = {}
  BY <1>1 DEF ClampToDisplays
<1>2. CASE ~OnDesktop(ds, p) /\ able # {}
  <2> DEFINE n == Nearest(ds, able, p)
  <2>1. n \in able
    BY <1>2, NearestIsOne
  <2>2. ClampToDisplays(p, ds) = ClampToDisplay(p, ds[n])
    BY <1>2 DEF ClampToDisplays
  <2> HIDE DEF n
  <2> QED BY <2>1, <2>2, ClampedIsOn DEF OnDesktop
<1> QED BY <1>1, <1>2

\* Wherever a move begins, it ends on a display.
LEMMA MoveEndsOnDesktop ==
    ASSUME NEW ds \in Seq(Rectangles), NEW origin \in Points, NEW mv \in Directed
    PROVE  /\ Step(mv) \in Points /\ Plus(origin, Step(mv)) \in Points
           /\ MovedPosition(origin, mv, ds) \in Points
           /\ (\E i \in DOMAIN ds : CanHoldCursor(ds[i]))
                 => OnDesktop(ds, MovedPosition(origin, mv, ds))
<1> DEFINE target == Plus(origin, Step(mv))
           home == {i \in DOMAIN ds : CanHoldCursor(ds[i]) /\ IsOn(ds[i], origin)}
<1>1. Step(mv) \in Points /\ target \in Points
  BY DEF Step, Directed, Points, Plus, Point
<1>2. MovedPosition(origin, mv, ds) = ClampMoveTarget(origin, target, ds)
  BY DEF MovedPosition
<1> HIDE DEF target
<1>3. CASE OnDesktop(ds, target)
  BY <1>1, <1>2, <1>3 DEF ClampMoveTarget, target
<1>4. CASE ~OnDesktop(ds, target) /\ home = {}
  BY <1>1, <1>2, <1>4, ClampToDisplaysIsOn DEF ClampMoveTarget, target
<1>5. CASE ~OnDesktop(ds, target) /\ home # {}
  <2> DEFINE first == CHOOSE i \in home : \A j \in home : i <= j
  <2>1. first \in home
    <3>1. home \subseteq Nat
      OBVIOUS
    <3> HIDE DEF home
    <3> QED BY <1>5, <3>1, LeastNatural
  <2>2. MovedPosition(origin, mv, ds) = ClampToDisplay(target, ds[first])
    BY <1>2, <1>5 DEF ClampMoveTarget
  <2> HIDE DEF first
  <2> QED BY <1>1, <2>1, <2>2, ClampedIsOn DEF OnDesktop, target
<1> QED BY <1>3, <1>4, <1>5

-----------------------------------------------------------------------------
MouseTypes ==
    /\ displays \in Desktops /\ cursor \in Points /\ posted \in Seq(Points)
    /\ driven \in Points /\ isFresh \in BOOLEAN /\ start \in Points /\ sum \in Points
    /\ atEdge \in BOOLEAN

MouseInv == MouseTypes /\ MovesAddUp

\* A move, or two, from where it begins to where it ends: the recorded position
\* is the start plus the sum unless the move was cut short.
LEMMA DrivesOn ==
    ASSUME MouseInv, NEW p \in Points, NEW total \in Points, OnDesktop(displays, p),
           Drives(p), Observe(MouseOrigin, total, p), UNCHANGED <<displays, cursor>>
    PROVE  MouseInv'
<1> USE DEF MouseInv, MouseTypes, MovesAddUp
<1>1. /\ displays' = displays /\ cursor' = cursor /\ driven' = p /\ isFresh' = TRUE
      /\ posted' = Append(posted, p) /\ start' \in Points /\ sum' \in Points
      /\ atEdge' \in BOOLEAN
  BY PointSums DEF Drives, Observe
<1>2. posted' \in Seq(Points) /\ posted' # <<>> /\ Last(posted') = p
  BY <1>1 DEF Last
<1>3. ASSUME ~atEdge' PROVE p = Plus(start', sum')
  <2>1. p = Plus(MouseOrigin, total)
    BY <1>3 DEF Observe
  <2>2. CASE isFresh
    <3>1. MouseOrigin = Plus(start, sum) /\ start' = start /\ sum' = Plus(sum, total)
      BY <1>3, <2>2 DEF Observe, MouseOrigin
    <3> QED BY <2>1, <3>1, PointSums
  <2>3. CASE ~isFresh
    <3>1. MouseOrigin = cursor /\ start' = cursor /\ sum' = Plus(Point(0, 0), total)
      BY <2>3 DEF Observe, MouseOrigin
    <3> QED BY <2>1, <3>1, PointSums
  <2> QED BY <2>2, <2>3
<1> QED BY <1>1, <1>2, <1>3

\* A step keeps the sum of the moves.
LEMMA MouseStep ==
    ASSUME AlwaysADisplay PROVE MouseInv /\ [MouseNext]_mouseVars => MouseInv'
<1> SUFFICES ASSUME MouseInv, [MouseNext]_mouseVars PROVE MouseInv'
  OBVIOUS
<1> USE DEF MouseInv, MouseTypes
<1>1. displays \in Seq(Rectangles) /\ \E i \in DOMAIN displays : CanHoldCursor(displays[i])
  BY MacMouseAssumption DEF AlwaysADisplay
<1>2. MouseOrigin \in Points
  BY DEF MouseOrigin
<1>3. CASE UNCHANGED mouseVars
  BY <1>3 DEF mouseVars, MovesAddUp
<1>4. ASSUME NEW mv \in MouseMoves, MoveMouse(mv) PROVE MouseInv'
  <2> DEFINE p == MovedPosition(MouseOrigin, mv, displays)
  <2>1. mv \in Directed
    BY MacMouseAssumption
  <2>2. p \in Points /\ OnDesktop(displays, p) /\ Step(mv) \in Points
    BY <1>1, <1>2, <2>1, MoveEndsOnDesktop
  <2>3. Drives(p) /\ Observe(MouseOrigin, Step(mv), p) /\ UNCHANGED <<displays, cursor>>
    BY <1>4 DEF MoveMouse
  <2> HIDE DEF p
  <2> QED BY <2>2, <2>3, DrivesOn
<1>5. ASSUME NEW mvs \in MoveBuffers, MoveMouseMany(mvs) PROVE MouseInv'
  <2> DEFINE total == Plus(Step(mvs[1]), Step(mvs[2]))
             halfway == MovedPosition(MouseOrigin, mvs[1], displays)
             p == MovedPosition(halfway, mvs[2], displays)
  <2>1. mvs[1] \in Directed /\ mvs[2] \in Directed
    BY MacMouseAssumption
  <2>2. halfway \in Points /\ Step(mvs[1]) \in Points
    BY <1>1, <1>2, <2>1, MoveEndsOnDesktop
  <2>3. p \in Points /\ OnDesktop(displays, p) /\ Step(mvs[2]) \in Points
    <3> HIDE DEF halfway
    <3> QED BY <1>1, <2>1, <2>2, MoveEndsOnDesktop
  <2>4. total \in Points
    BY <2>2, <2>3, PointSums
  <2>5. Drives(p) /\ Observe(MouseOrigin, total, p) /\ UNCHANGED <<displays, cursor>>
    BY <1>5 DEF MoveMouseMany, MovedPositionMany
  <2> HIDE DEF p, total
  <2> QED BY <2>3, <2>4, <2>5, DrivesOn
<1>6. ASSUME NEW target \in Targets, SetMouse(target) PROVE MouseInv'
  <2> DEFINE p == ClampToDisplays(target, displays)
  <2>1. p \in Points /\ OnDesktop(displays, p)
    BY <1>1, ClampToDisplaysIsOn, MacMouseAssumption
  <2>2. /\ driven' = p /\ isFresh' = TRUE /\ posted' = Append(posted, p)
        /\ start' = p /\ sum' = Point(0, 0) /\ atEdge' = FALSE
        /\ UNCHANGED <<displays, cursor>>
    BY <1>6 DEF SetMouse, Drives
  <2> HIDE DEF p
  <2>3. p = Plus(p, Point(0, 0)) /\ Point(0, 0) \in Points
    BY <2>1, PointSums
  <2>4. posted' \in Seq(Points) /\ Last(posted') = p
    BY <2>1, <2>2 DEF Last
  <2> QED BY <2>1, <2>2, <2>3, <2>4 DEF MovesAddUp
<1>7. CASE ButtonAction
  <2>1. /\ posted' = Append(posted, MouseOrigin)
        /\ UNCHANGED <<displays, cursor, driven, isFresh, start, sum, atEdge>>
    BY <1>7 DEF ButtonAction
  <2>2. posted' \in Seq(Points) /\ Last(posted') = MouseOrigin
    BY <1>2, <2>1 DEF Last
  <2> QED BY <2>1, <2>2 DEF MovesAddUp, MouseOrigin
<1>8. CASE CursorFollows
  <2>1. /\ posted # <<>> /\ cursor' = Head(posted) /\ posted' = Tail(posted)
        /\ UNCHANGED <<displays, driven, isFresh, start, sum, atEdge>>
    BY <1>8 DEF CursorFollows
  <2>2. cursor' \in Points /\ posted' \in Seq(Points)
        /\ posted' # <<>> => Last(posted') = Last(posted)
    BY <2>1 DEF Last
  <2> QED BY <2>1, <2>2 DEF MovesAddUp
<1>9. CASE GoesStale
  BY <1>9 DEF GoesStale, MovesAddUp
<1>10. ASSUME NEW i \in DOMAIN displays, ByHand(i) PROVE MouseInv'
  <2>1. Point(displays[i].x, displays[i].y) \in Points
    BY <1>1, PointSums
  <2> QED BY <1>10, <2>1 DEF ByHand, MovesAddUp
<1>11. ASSUME NEW ds \in Desktops, DisplaysChange(ds) PROVE MouseInv'
  <2>1. ClampToDisplays(cursor, ds) \in Points
    BY ClampToDisplaysIsOn, MacMouseAssumption
  <2> QED BY <1>11, <2>1 DEF DisplaysChange, MovesAddUp
<1> QED
  BY <1>3, <1>4, <1>5, <1>6, <1>7, <1>8, <1>9, <1>10, <1>11 DEF MouseNext

(* Moves add up: as long as there is a display that can hold the cursor, a *)
(* series of moves that met no edge has driven the cursor by exactly their *)
(* sum, onto a display, however far the position the system reports lags   *)
(* behind, and a click or its release in between posts the position the    *)
(* moves have reached and not an older one.                                *)
THEOREM MouseMovesAddUp == ASSUME AlwaysADisplay PROVE MouseSpec => []MovesAddUp
<1>1. MouseInit => MouseInv
  <2> SUFFICES ASSUME MouseInit PROVE MouseInv
    OBVIOUS
  <2>1. displays \in Seq(Rectangles)
    BY MacMouseAssumption DEF MouseInit
  <2>2. cursor \in Points
    BY <2>1, PointSums DEF MouseInit
  <2>3. /\ displays \in Desktops /\ posted = <<>> /\ driven = cursor /\ isFresh = FALSE
        /\ start = cursor /\ sum \in Points /\ atEdge = FALSE
    BY PointSums DEF MouseInit
  <2>4. posted \in Seq(Points)
    BY <2>3
  <2>5. MouseTypes
    BY <2>2, <2>3, <2>4 DEF MouseTypes
  <2> QED BY <2>3, <2>5 DEF MouseInv, MovesAddUp
<1>2. MouseInv => MovesAddUp
  BY DEF MouseInv
<1> QED BY <1>1, <1>2, MouseStep, PTL DEF MouseSpec
=============================================================================
