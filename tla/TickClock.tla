----------------------------- MODULE TickClock -----------------------------
(***************************************************************************)
(* The clock of the processing loop: how many 1 ms ticks a pass through    *)
(* the loop performs.  It models count_ms_elapsed of                       *)
(* src/kanata/millisecond_counting.rs, get_ms_elapsed of                   *)
(* src/kanata/mod.rs and the assignment to last_tick of a loop that wakes  *)
(* from blocking on the channel.                                           *)
(***************************************************************************)
EXTENDS Integers

CONSTANTS
    NsInMs,     \* NS_IN_MS: the units of the monotonic clock per millisecond
    MaxCatchUp, \* the number of ticks above which last_tick is reset (10)
    Gaps,       \* the times that may pass between two readings of the clock
    Lags,       \* the times between the two readings of one get_ms_elapsed
    MaxNow      \* bound: the time at which a behaviour ends

ASSUME ClockAssumption ==
    /\ NsInMs \in Nat \ {0} /\ MaxCatchUp \in Nat /\ MaxNow \in Nat
    /\ Gaps \subseteq Nat /\ Lags \subseteq Nat

VARIABLES
    now,        \* the latest reading of the monotonic clock
    last_tick, time_remainder,   \* fields of Kanata
    \* observed, not part of the program
    ticked,     \* time for which ticks were performed
    due,        \* time for which ticks were due: all but the time spent blocked
    skipped,    \* time that resets of last_tick left out of slow passes
    slept       \* every pass so far has taken a millisecond or more

vars == <<now, last_tick, time_remainder, ticked, due, skipped, slept>>

Init ==
    /\ now = NsInMs /\ last_tick = now /\ time_remainder = 0
    /\ ticked = 0 /\ due = 0 /\ skipped = 0 /\ slept = TRUE

MsElapsed(last, t) == (t - last + time_remainder) \div NsInMs

Remainder(last, t) == (t - last + time_remainder) % NsInMs

\* Seeded fault: a pass that has caught up on any tick at all reads the clock again.
ResetsAlways(ms) == ms > 0
\* too many milliseconds have passed: the clock is read a second time
Resets(ms) == ms > MaxCatchUp

\* Seeded fault: last_tick does not move on after a single millisecond.
LastTickStays(last, t, lag) == IF MsElapsed(last, t) <= 1 THEN last ELSE t

\* the last_tick of MillisecondCountResult, replaced by the second reading
LastTick(last, t, lag) ==
    LET ms == MsElapsed(last, t)
    IN  IF ms = 0 THEN last ELSE IF Resets(ms) THEN t + lag ELSE t

\* get_ms_elapsed at time t
GetMsElapsed(last, t, lag) ==
    /\ now' = IF Resets(MsElapsed(last, t)) THEN t + lag ELSE t
    /\ last_tick' = LastTick(last, t, lag)
    /\ time_remainder' = Remainder(last, t)
    /\ ticked' = ticked + NsInMs * MsElapsed(last, t)

\* what a reset may leave out: the time from the first reading of the clock, in a
\* pass that took so long that, with the two milliseconds at most that were still
\* to be counted, there was too much to catch up on
Skips(gap, t) ==
    skipped' = skipped + IF gap > (MaxCatchUp - 1) * NsInMs THEN now' - t ELSE 0

\* a pass through the loop that does not block
Poll(gap, lag) ==
    /\ now + gap + lag <= MaxNow
    /\ GetMsElapsed(last_tick, now + gap, lag)
    /\ due' = due + (now' - now)
    /\ Skips(gap, now + gap)
    /\ slept' = (slept /\ gap >= NsInMs)

\* the loop has been blocked; 1 ms is due for the event it wakes up for and
\* gap passes while that event is handled
Wake(blocked, gap, lag) ==
    /\ now + blocked + gap + lag <= MaxNow
    /\ GetMsElapsed(now + blocked - NsInMs, now + blocked + gap, lag)
    /\ due' = due + NsInMs + (now' - now - blocked)
    /\ Skips(gap, now + blocked + gap)
    /\ slept' = (slept /\ gap >= NsInMs)

Next == \E gap \in Gaps, lag \in Lags :
            Poll(gap, lag) \/ \E blocked \in Gaps : Wake(blocked, gap, lag)

Spec == Init /\ [][Next]_vars

-----------------------------------------------------------------------------
(* The clock never runs ahead of itself: last_tick is not in the future    *)
(* and lags behind by less than a millisecond, and so does the remainder.  *)
TypeOK ==
    /\ now \in Nat /\ last_tick \in Int
    /\ last_tick <= now /\ now - last_tick < NsInMs
    /\ time_remainder \in 0..(NsInMs - 1)
    /\ ticked \in Nat /\ due \in Nat /\ skipped \in Nat /\ slept \in BOOLEAN

(* However irregularly the loop passes, no time is lost over many passes:  *)
(* what the ticks lag behind the time that went by while the loop was not  *)
(* blocked is in the remainder, less than 1 ms, so no timeout of a key is  *)
(* late by more than that.  "Ticks will be missed" only where last_tick is *)
(* reset: the time between the two readings of the clock, in a pass of     *)
(* more than 9 ms.                                                         *)
NoTimeLost == due <= ticked + time_remainder + skipped

(* Nor do the ticks run ahead while every pass sleeps for its millisecond:  *)
(* with what was skipped they stay within 1 ms of the time that went by.   *)
TicksKeepTime == slept => ticked + skipped < due + NsInMs
=============================================================================
