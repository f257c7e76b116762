------------------------------ MODULE MacMouse ------------------------------
(***************************************************************************)
(* Moving the mouse on macOS: a move starts at the cursor, which lags      *)
(* behind the events kanata has posted, or at the position kanata posted   *)
(* last, and ends on a display.  It models the mouse part of KbdOut of     *)
(* src/oskbd/macos.rs, with its arithmetic on whole coordinates.           *)
(***************************************************************************)
EXTENDS Integers, Sequences, SequencesExt

CONSTANTS
    Desktops,     \* the displays that may be connected: sequences of rectangles
    MouseMoves,   \* the moves [dir, distance] to look at
    MoveBuffers,  \* the pairs of moves that are flushed together
    Targets,      \* the positions of set-mouse
    MaxMoves      \* bound: the mouse actions of a behaviour

Points == [x : Int, y : Int]
Rectangles == [x : Int, y : Int, w : Nat, h : Nat]
Directed == [dir : {"up", "down", "left", "right"}, distance : Nat]

ASSUME MacMouseAssumption ==
    /\ MaxMoves \in Nat /\ Targets \subseteq Points
    /\ \A ds \in Desktops : ds \in Seq(Rectangles)
    /\ MouseMoves \subseteq Directed /\ MoveBuffers \subseteq Directed \X Directed

VARIABLES
    displays,   \* external: the bounds display_bounds reads
    cursor,     \* external: where the system says the cursor is
    posted,     \* external: the positions of posted events it has not followed yet
    driven,     \* driven_mouse_position
    isFresh,    \* it is younger than MOUSE_RESYNC_AFTER, and not in the future
    moves,      \* what the bound counts
    start, sum, \* observed: where this series of moves began and their sum
    atEdge      \* observed: the series met an edge, or a display came or went

mouseVars == <<displays, cursor, posted, driven, isFresh, moves, start, sum, atEdge>>

Point(x, y) == [x |-> x, y |-> y]
Plus(p, q) == Point(p.x + q.x, p.y + q.y)

-----------------------------------------------------------------------------
(* Where a move ends                                                       *)

IsOn(d, p) == p.x >= d.x /\ p.x < d.x + d.w /\ p.y >= d.y /\ p.y < d.y + d.h
CanHoldCursor(d) == d.w >= 1 /\ d.h >= 1
OnDesktop(ds, p) == \E i \in DOMAIN ds : IsOn(ds[i], p)

Between(v, low, high) == IF v < low THEN low ELSE IF v > high THEN high ELSE v
ClampToDisplay(p, d) ==
    Point(Between(p.x, d.x, d.x + d.w - 1), Between(p.y, d.y, d.y + d.h - 1))

DistanceSquared(p, q) == (p.x - q.x) * (p.x - q.x) + (p.y - q.y) * (p.y - q.y)

\* the first display of ds, of those in S, that is nearest to p
Nearest(ds, S, p) ==
    LET Away(i) == DistanceSquared(ClampToDisplay(p, ds[i]), p)
    IN  CHOOSE i \in S : \A j \in S : Away(i) < Away(j) \/ (Away(i) = Away(j) /\ i <= j)

ClampToDisplays(p, ds) ==
    LET able == {i \in DOMAIN ds : CanHoldCursor(ds[i])}
    IN  IF OnDesktop(ds, p) \/ able = {} THEN p ELSE ClampToDisplay(p, ds[Nearest(ds, able, p)])

\* a target off the desktop is pulled back into the display the move began on
ClampMoveTarget(origin, target, ds) ==
    LET home == {i \in DOMAIN ds : CanHoldCursor(ds[i]) /\ IsOn(ds[i], origin)}
    IN  IF OnDesktop(ds, target) THEN target
        ELSE IF home = {} THEN ClampToDisplays(target, ds)
        ELSE ClampToDisplay(target, ds[CHOOSE i \in home : \A j \in home : i <= j])

Step(mv) ==
    CASE mv.dir = "up" -> Point(0, -mv.distance)
      [] mv.dir = "down" -> Point(0, mv.distance)
      [] mv.dir = "left" -> Point(-mv.distance, 0)
      [] mv.dir = "right" -> Point(mv.distance, 0)

MovedPosition(origin, mv, ds) == ClampMoveTarget(origin, Plus(origin, Step(mv)), ds)
\* movemouse-smooth-diagonals always moves along both axes at once
MovedPositionMany(origin, mvs, ds) ==
    MovedPosition(MovedPosition(origin, mvs[1], ds), mvs[2], ds)

-----------------------------------------------------------------------------
MouseInit ==
    /\ displays \in Desktops
    /\ cursor \in {Point(displays[i].x, displays[i].y) : i \in DOMAIN displays}
    /\ posted = <<>> /\ driven = cursor /\ isFresh = FALSE /\ moves = 0
    /\ start = cursor /\ sum = Point(0, 0) /\ atEdge = FALSE

\* Seeded fault: every move starts at the cursor.
OriginCursor == cursor
\* mouse_origin
MouseOrigin == IF isFresh THEN driven ELSE cursor

\* an event is posted, or the cursor is warped, and the position recorded: either
\* way the position that the system reports follows later
Drives(p) == posted' = Append(posted, p) /\ driven' = p /\ isFresh' = TRUE

\* a series of moves goes on as long as the recorded position is fresh
Observe(origin, total, p) ==
    /\ start' = IF isFresh THEN start ELSE cursor
    /\ sum' = Plus(IF isFresh THEN sum ELSE Point(0, 0), total)
    /\ atEdge' = ((isFresh /\ atEdge) \/ p # Plus(origin, total))

Counted == moves < MaxMoves /\ moves' = moves + 1

MoveMouse(mv) ==
    /\ Counted
    /\ LET origin == MouseOrigin
           p == MovedPosition(origin, mv, displays)
       IN  Drives(p) /\ Observe(origin, Step(mv), p)
    /\ UNCHANGED <<displays, cursor>>

MoveMouseMany(mvs) ==
    /\ Counted
    /\ LET origin == MouseOrigin
           p == MovedPositionMany(origin, mvs, displays)
       IN  Drives(p) /\ Observe(origin, Plus(Step(mvs[1]), Step(mvs[2])), p)
    /\ UNCHANGED <<displays, cursor>>

SetMouse(target) ==
    /\ Counted
    /\ LET p == ClampToDisplays(target, displays)
       IN  Drives(p) /\ start' = p /\ sum' = Point(0, 0) /\ atEdge' = FALSE
    /\ UNCHANGED <<displays, cursor>>

\* click_btn and release_btn: the event carries a position, which is not recorded
ButtonAction ==
    /\ Counted /\ posted' = Append(posted, MouseOrigin)
    /\ UNCHANGED <<displays, cursor, driven, isFresh, start, sum, atEdge>>

-----------------------------------------------------------------------------
\* the system follows what was posted
CursorFollows ==
    /\ posted # <<>> /\ cursor' = Head(posted) /\ posted' = Tail(posted)
    /\ UNCHANGED <<displays, driven, isFresh, moves, start, sum, atEdge>>

\* 50 ms pass without a move, within which the system has caught up; or the
\* clock is set back, at any time
GoesStale ==
    /\ isFresh /\ isFresh' = FALSE
    /\ UNCHANGED <<displays, cursor, posted, driven, moves, start, sum, atEdge>>

\* the user moves a mouse by hand
ByHand(i) ==
    /\ ~isFresh /\ posted = <<>> /\ CanHoldCursor(displays[i])
    /\ cursor' = Point(displays[i].x, displays[i].y)
    /\ UNCHANGED <<displays, posted, driven, isFresh, moves, start, sum, atEdge>>

DisplaysChange(ds) ==
    /\ ds # displays /\ displays' = ds /\ atEdge' = TRUE
    /\ cursor' = ClampToDisplays(cursor, ds)
    /\ UNCHANGED <<posted, driven, isFresh, moves, start, sum>>

MouseNext ==
    \/ \E mv \in MouseMoves : MoveMouse(mv)
    \/ \E mvs \in MoveBuffers : MoveMouseMany(mvs)
    \/ \E p \in Targets : SetMouse(p)
    \/ ButtonAction \/ CursorFollows \/ GoesStale
    \/ \E i \in DOMAIN displays : ByHand(i)
    \/ \E ds \in Desktops : DisplaysChange(ds)

-----------------------------------------------------------------------------
(* Moves add up: however far the cursor lags behind, a series of moves     *)
(* that meets no edge has driven it by their sum, onto a display, and a    *)
(* click in between does not take it back.                                 *)
MovesAddUp ==
    isFresh =>
        /\ ~atEdge => driven = Plus(start, sum) /\ OnDesktop(displays, driven)
        /\ posted # <<>> => Last(posted) = driven
=============================================================================
