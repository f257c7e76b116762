-------------------------- MODULE TickClockProofs --------------------------
(***************************************************************************)
(* Proofs about the clock of the processing loop, for every resolution of  *)
(* the monotonic clock and every pattern of passes.                        *)
(***************************************************************************)
EXTENDS TickClock, TLAPS

(* Division with remainder: what count_ms_elapsed takes out as whole       *)
(* milliseconds and what it leaves make up the time it was given.          *)
LEMMA DivMod ==
    ASSUME NEW a \in Nat, NEW n \in Nat \ {0}
    PROVE  /\ a \div n \in Nat /\ a % n \in 0..(n - 1)
           /\ a = n * (a \div n) + (a % n)
  BY SMT

(* Multiplication by a natural number keeps the order.                     *)
LEMMA MulMonotone ==
    ASSUME NEW n \in Nat, NEW a \in Nat, NEW b \in Nat, a > b
    PROVE  n * a >= n * (b + 1)
  <1>1. n * a = n * (b + 1) + n * (a - b - 1)
    BY SMT
  <1>2. n * (a - b - 1) >= 0 /\ n * (b + 1) \in Int
    BY SMT
  <1>3. QED
    BY <1>1, <1>2

(* One call of get_ms_elapsed with a last_tick in the past: the time since *)
(* last_tick goes into the ticks and the remainder, nothing else does; and *)
(* what a reset leaves out, in a pass of more than 9 ms, is in skipped.    *)
LEMMA GetMsElapsedAccounts ==
    ASSUME TypeOK, NEW last \in Int, NEW t \in Nat, NEW lag \in Nat, NEW gap \in Nat,
           last <= t, t - last <= NsInMs + gap,
           GetMsElapsed(last, t, lag), Skips(gap, t)
    PROVE  /\ ticked' \in Nat /\ time_remainder' \in 0..(NsInMs - 1)
           /\ ticked' + time_remainder' = ticked + time_remainder + (t - last)
           /\ now' \in Nat /\ last_tick' \in Int /\ last_tick' <= now' /\ t <= now'
           /\ now' - last_tick' < NsInMs
           /\ skipped' \in Nat /\ skipped' = skipped + (now' - t)
           /\ t - last >= NsInMs => last_tick' = now'
  <1> DEFINE total == t - last + time_remainder
             ms == total \div NsInMs
  <1>1. total \in Nat /\ NsInMs \in Nat \ {0} /\ MaxCatchUp \in Nat
    BY ClockAssumption DEF TypeOK
  <1>2. /\ ms \in Nat /\ total % NsInMs \in 0..(NsInMs - 1)
        /\ total = NsInMs * ms + (total % NsInMs)
    BY <1>1, DivMod
  <1>3. /\ ticked' = ticked + NsInMs * ms /\ time_remainder' = total % NsInMs
        /\ now' = IF ms > MaxCatchUp THEN t + lag ELSE t
        /\ last_tick' = IF ms = 0 THEN last ELSE IF ms > MaxCatchUp THEN t + lag ELSE t
    BY DEF GetMsElapsed, MsElapsed, Remainder, LastTick, Resets
  <1>5. ASSUME t - last >= NsInMs PROVE ms # 0
    <2>1. total >= NsInMs
      BY <1>1, <1>5 DEF TypeOK
    <2>2. CASE ms = 0
      <3>1. NsInMs * ms = 0
        BY <1>1, <2>2
      <3>2. QED
        BY <1>1, <1>2, <2>1, <3>1
    <2>3. QED
      BY <2>2
  <1> HIDE DEF ms
  <1>7. ASSUME ms > MaxCatchUp PROVE gap > (MaxCatchUp - 1) * NsInMs
    <2>1. NsInMs * ms >= NsInMs * (MaxCatchUp + 1)
      BY <1>1, <1>2, <1>7, MulMonotone
    <2>2. NsInMs * (MaxCatchUp + 1) = (MaxCatchUp - 1) * NsInMs + NsInMs + NsInMs
      BY <1>1
    <2>3. total >= (MaxCatchUp - 1) * NsInMs + NsInMs + NsInMs
      <3> DEFINE m == (MaxCatchUp - 1) * NsInMs
      <3>1. m \in Int /\ NsInMs * ms \in Int
        BY <1>1, <1>2
      <3>3. total >= NsInMs * ms
        BY <1>1, <1>2, <3>1
      <3> HIDE DEF m
      <3>2. QED
        BY <1>1, <1>2, <2>1, <2>2, <3>1, <3>3 DEF m
    <2>4. total < gap + NsInMs + NsInMs
      BY <1>1 DEF TypeOK
    <2>5. (MaxCatchUp - 1) * NsInMs \in Int
      BY <1>1
    <2>6. QED
      BY <1>1, <2>3, <2>4, <2>5
  <1>8. ASSUME ms = 0 PROVE t - last < NsInMs
    BY <1>5, <1>8, <1>1
  <1>4. NsInMs * ms \in Nat
    BY <1>1, <1>2
  <1>6. ticked' \in Nat /\ ticked' + time_remainder' = ticked + time_remainder + (t - last)
    BY <1>1, <1>2, <1>3, <1>4 DEF TypeOK
  <1>9. /\ now' \in Nat /\ last_tick' \in Int /\ last_tick' <= now' /\ t <= now'
        /\ now' - last_tick' < NsInMs
        /\ t - last >= NsInMs => last_tick' = now'
    BY <1>1, <1>2, <1>3, <1>5, <1>8
  <1>10. skipped' \in Nat /\ skipped' = skipped + (now' - t)
    BY <1>1, <1>2, <1>3, <1>7, <1>9 DEF TypeOK, Skips
  <1>11. QED
    BY <1>2, <1>3, <1>6, <1>9, <1>10

(* What a pass that polls does to the account.                             *)
LEMMA PollAccounts ==
    ASSUME TypeOK, NEW gap \in Nat, NEW lag \in Nat, Poll(gap, lag)
    PROVE  /\ TypeOK' /\ due' = due + (now' - now)
           /\ ticked' + time_remainder' = ticked + time_remainder + ((now + gap) - last_tick)
           /\ skipped' = skipped + (now' - (now + gap))
           /\ gap >= NsInMs => last_tick' = now'
           /\ slept' = (slept /\ gap >= NsInMs)
  <1> DEFINE t == now + gap
  <1>1. /\ t \in Nat /\ last_tick \in Int /\ last_tick <= t /\ t - last_tick <= NsInMs + gap
        /\ t - last_tick >= gap /\ NsInMs \in Nat \ {0}
    BY ClockAssumption DEF TypeOK
  <1>2. /\ GetMsElapsed(last_tick, t, lag) /\ Skips(gap, t)
        /\ due' = due + (now' - now)
    BY DEF Poll
  <1>8. slept' = (slept /\ gap >= NsInMs) /\ slept' \in BOOLEAN
    BY DEF Poll, TypeOK
  <1>9. /\ now \in Nat /\ last_tick \in Int /\ last_tick <= now /\ time_remainder \in Nat
        /\ ticked \in Nat /\ due \in Nat /\ skipped \in Nat /\ NsInMs \in Nat \ {0}
    BY ClockAssumption DEF TypeOK
  <1>3. /\ ticked' \in Nat /\ time_remainder' \in 0..(NsInMs - 1)
        /\ ticked' + time_remainder' = ticked + time_remainder + (t - last_tick)
        /\ now' \in Nat /\ last_tick' \in Int /\ last_tick' <= now' /\ t <= now'
        /\ now' - last_tick' < NsInMs
        /\ skipped' \in Nat /\ skipped' = skipped + (now' - t)
        /\ t - last_tick >= NsInMs => last_tick' = now'
    <2> HIDE DEF t
    <2>1. QED
      BY <1>1, <1>2, GetMsElapsedAccounts
  <1>4. PICK later \in Int : later = now'
    BY <1>3
  <1>5. due' \in Int /\ due' >= 0
    <2>1. due' = due + (later - now) /\ now + gap <= later
      BY <1>2, <1>3, <1>4
    <2>2. QED
      BY <1>9, <2>1
  <1>6. due' \in Nat
    BY <1>5
  <1>7. TypeOK'
    BY <1>3, <1>6, <1>8 DEF TypeOK
  <1>10. /\ ticked' + time_remainder' = ticked + time_remainder + ((now + gap) - last_tick)
         /\ skipped' = skipped + (now' - (now + gap))
    BY <1>3
  <1>11. QED
    BY <1>1, <1>2, <1>3, <1>7, <1>8, <1>10

(* What a pass of a loop that was blocked does to the account.             *)
LEMMA WakeAccounts ==
    ASSUME TypeOK, NEW blocked \in Nat, NEW gap \in Nat, NEW lag \in Nat,
           Wake(blocked, gap, lag)
    PROVE  /\ TypeOK' /\ due' = due + NsInMs + (now' - now - blocked)
           /\ ticked' + time_remainder' = ticked + time_remainder + NsInMs + gap
           /\ skipped' = skipped + (now' - (now + blocked + gap))
           /\ last_tick' = now'
           /\ slept' = (slept /\ gap >= NsInMs)
  <1> DEFINE last == now + blocked - NsInMs
             t == now + blocked + gap
  <1>1. /\ t \in Nat /\ last \in Int /\ last <= t /\ t - last = NsInMs + gap
        /\ NsInMs \in Nat \ {0}
    BY ClockAssumption DEF TypeOK
  <1>2. /\ GetMsElapsed(last, t, lag) /\ Skips(gap, t)
        /\ due' = due + NsInMs + (now' - now - blocked)
    BY DEF Wake
  <1>8. slept' = (slept /\ gap >= NsInMs) /\ slept' \in BOOLEAN
    BY DEF Wake, TypeOK
  <1>9. /\ now \in Nat /\ last_tick \in Int /\ last_tick <= now /\ time_remainder \in Nat
        /\ ticked \in Nat /\ due \in Nat /\ skipped \in Nat /\ NsInMs \in Nat \ {0}
    BY ClockAssumption DEF TypeOK
  <1>3. /\ ticked' \in Nat /\ time_remainder' \in 0..(NsInMs - 1)
        /\ ticked' + time_remainder' = ticked + time_remainder + (NsInMs + gap)
        /\ now' \in Nat /\ last_tick' \in Int /\ last_tick' <= now' /\ t <= now'
        /\ now' - last_tick' < NsInMs
        /\ skipped' \in Nat /\ skipped' = skipped + (now' - t)
        /\ last_tick' = now'
    <2> HIDE DEF last, t
    <2>1. t - last <= NsInMs + gap /\ t - last >= NsInMs
      BY <1>1
    <2>2. QED
      BY <1>1, <1>2, <2>1, GetMsElapsedAccounts
  <1>4. PICK later \in Int : later = now'
    BY <1>3
  <1>5. due' \in Int /\ due' >= 0
    <2>1. due' = due + NsInMs + (later - now - blocked) /\ now + blocked + gap <= later
      BY <1>2, <1>3, <1>4
    <2>2. QED
      BY <1>9, <2>1
  <1>6. due' \in Nat
    BY <1>5
  <1>7. TypeOK'
    BY <1>3, <1>6, <1>8 DEF TypeOK
  <1>10. /\ ticked' + time_remainder' = ticked + time_remainder + NsInMs + gap
         /\ skipped' = skipped + (now' - (now + blocked + gap)) /\ last_tick' = now'
    <2>1. /\ ticked' + time_remainder' = ticked + time_remainder + (NsInMs + gap)
          /\ skipped' = skipped + (now' - (now + blocked + gap)) /\ last_tick' = now'
      BY <1>3, Zenon
    <2>2. ticked' + time_remainder' = ticked + time_remainder + NsInMs + gap
      BY <1>9, <2>1
    <2>3. QED
      BY <2>1, <2>2
  <1>11. QED
    BY <1>2, <1>7, <1>8, <1>10

(* The numbers of the account.                                             *)
LEMMA Numbers ==
    TypeOK => /\ now \in Nat /\ last_tick \in Int /\ last_tick <= now /\ time_remainder \in Nat
              /\ ticked \in Nat /\ due \in Nat /\ skipped \in Nat
  BY ClockAssumption DEF TypeOK

(* Every step is one of these passes.                                      *)
LEMMA StepTypeOK ==
    ASSUME TypeOK, Next
    PROVE  TypeOK'
  <1>1. PICK gap \in Gaps, lag \in Lags :
            Poll(gap, lag) \/ \E blocked \in Gaps : Wake(blocked, gap, lag)
    BY DEF Next
  <1>2. gap \in Nat /\ lag \in Nat /\ \A blocked \in Gaps : blocked \in Nat
    BY ClockAssumption
  <1>3. QED
    BY <1>1, <1>2, PollAccounts, WakeAccounts

(* The clock keeps its shape: last_tick is never in the future, and it     *)
(* never lags behind by a millisecond, nor does the remainder reach one.   *)
THEOREM ClockTypeCorrect == Spec => []TypeOK
  <1>1. Init => TypeOK
    BY ClockAssumption DEF Init, TypeOK
  <1>2. TypeOK /\ [Next]_vars => TypeOK'
    BY StepTypeOK DEF vars, TypeOK
  <1>3. QED
    BY <1>1, <1>2, PTL DEF Spec

(* The ticks never fall behind the monotonic clock by a millisecond or     *)
(* more, the time blocked left out, whatever the pattern of passes and     *)
(* blocking, but for what a reset of last_tick skips: the time between the *)
(* two readings of get_ms_elapsed, in a pass of more than MaxCatchUp - 1   *)
(* (nine) milliseconds.                                                    *)
THEOREM ClockLosesNoTime == Spec => []NoTimeLost
  <1>1. Init => NoTimeLost
    BY DEF Init, NoTimeLost
  <1>2. ASSUME TypeOK, NoTimeLost, Next PROVE NoTimeLost'
    <2>1. PICK gap \in Gaps, lag \in Lags :
              Poll(gap, lag) \/ \E blocked \in Gaps : Wake(blocked, gap, lag)
      BY <1>2 DEF Next
    <2>2. gap \in Nat /\ lag \in Nat /\ NsInMs \in Nat \ {0}
      BY ClockAssumption
    <2>3. CASE Poll(gap, lag)
      <3>1. /\ TypeOK' /\ due' = due + (now' - now)
            /\ ticked' + time_remainder' = ticked + time_remainder + ((now + gap) - last_tick)
            /\ skipped' = skipped + (now' - (now + gap))
        BY <1>2, <2>2, <2>3, PollAccounts
      <3>2. PICK later \in Int : later = now'
        BY <3>1 DEF TypeOK
      <3>3. /\ due' = due + (later - now) /\ skipped' = skipped + (later - (now + gap))
            /\ ticked' + time_remainder' = ticked + time_remainder + ((now + gap) - last_tick)
        BY <3>1, <3>2
      <3>4. ticked' \in Int /\ time_remainder' \in Int
        BY <3>1 DEF TypeOK
      <3>5. QED
        BY <1>2, <2>2, <3>2, <3>3, <3>4, Numbers DEF NoTimeLost
    <2>4. ASSUME NEW blocked \in Gaps, Wake(blocked, gap, lag) PROVE NoTimeLost'
      <3>1. blocked \in Nat
        BY ClockAssumption
      <3>2. /\ TypeOK' /\ due' = due + NsInMs + (now' - now - blocked)
            /\ ticked' + time_remainder' = ticked + time_remainder + NsInMs + gap
            /\ skipped' = skipped + (now' - (now + blocked + gap))
        BY <1>2, <2>2, <2>4, <3>1, WakeAccounts
      <3>3. PICK later \in Int : later = now'
        BY <3>2 DEF TypeOK
      <3>4. /\ due' = due + NsInMs + (later - now - blocked)
            /\ ticked' + time_remainder' = ticked + time_remainder + NsInMs + gap
            /\ skipped' = skipped + (later - (now + blocked + gap))
        BY <3>2, <3>3
      <3>5. ticked' \in Int /\ time_remainder' \in Int
        BY <3>2 DEF TypeOK
      <3>6. QED
        BY <1>2, <2>2, <3>1, <3>3, <3>4, <3>5, Numbers DEF NoTimeLost
    <2>5. QED
      BY <2>1, <2>3, <2>4
  <1>3. ASSUME NoTimeLost, UNCHANGED vars PROVE NoTimeLost'
    BY <1>3 DEF NoTimeLost, vars
  <1>4. TypeOK /\ NoTimeLost /\ [Next]_vars => NoTimeLost'
    BY <1>2, <1>3
  <1>5. QED
    BY <1>1, <1>4, ClockTypeCorrect, PTL DEF Spec

(* As long as every pass takes a millisecond or longer, nothing is counted *)
(* twice either and the account is exact.                                  *)
Exact == slept => last_tick = now /\ ticked + time_remainder + skipped = due

(* A loop that sleeps in every pass keeps the time to within 1 ms, what    *)
(* resets skip included.                                                   *)
THEOREM SleepingClockKeepsTime == Spec => []TicksKeepTime
  <1>1. Init => Exact
    BY DEF Init, Exact
  <1>2. ASSUME TypeOK, Exact, Next PROVE Exact'
    <2> SUFFICES ASSUME slept'
                 PROVE  last_tick' = now' /\ ticked' + time_remainder' + skipped' = due'
      BY DEF Exact
    <2>1. PICK gap \in Gaps, lag \in Lags :
              Poll(gap, lag) \/ \E blocked \in Gaps : Wake(blocked, gap, lag)
      BY <1>2 DEF Next
    <2>2. gap \in Nat /\ lag \in Nat /\ NsInMs \in Nat \ {0}
      BY ClockAssumption
    <2>3. CASE Poll(gap, lag)
      <3>1. /\ TypeOK' /\ due' = due + (now' - now)
            /\ ticked' + time_remainder' = ticked + time_remainder + ((now + gap) - last_tick)
            /\ skipped' = skipped + (now' - (now + gap))
            /\ gap >= NsInMs => last_tick' = now'
            /\ slept' = (slept /\ gap >= NsInMs)
        BY <1>2, <2>2, <2>3, PollAccounts
      <3>2. gap >= NsInMs /\ last_tick = now /\ ticked + time_remainder + skipped = due
        BY <1>2, <3>1 DEF Exact
      <3>3. PICK later \in Int : later = now'
        BY <3>1 DEF TypeOK
      <3>4. /\ due' = due + (later - now) /\ skipped' = skipped + (later - (now + gap))
            /\ ticked' + time_remainder' = ticked + time_remainder + ((now + gap) - now)
        BY <3>1, <3>2, <3>3
      <3>5. ticked' \in Int /\ time_remainder' \in Int
        BY <3>1 DEF TypeOK
      <3>6. QED
        BY <1>2, <2>2, <3>1, <3>2, <3>3, <3>4, <3>5, Numbers
    <2>4. ASSUME NEW blocked \in Gaps, Wake(blocked, gap, lag)
          PROVE  last_tick' = now' /\ ticked' + time_remainder' + skipped' = due'
      <3>1. blocked \in Nat
        BY ClockAssumption
      <3>2. /\ TypeOK' /\ due' = due + NsInMs + (now' - now - blocked)
            /\ ticked' + time_remainder' = ticked + time_remainder + NsInMs + gap
            /\ skipped' = skipped + (now' - (now + blocked + gap))
            /\ last_tick' = now'
            /\ slept' = (slept /\ gap >= NsInMs)
        BY <1>2, <2>2, <2>4, <3>1, WakeAccounts
      <3>3. ticked + time_remainder + skipped = due
        BY <1>2, <3>2 DEF Exact
      <3>4. PICK later \in Int : later = now'
        BY <3>2 DEF TypeOK
      <3>5. /\ due' = due + NsInMs + (later - now - blocked)
            /\ ticked' + time_remainder' = ticked + time_remainder + NsInMs + gap
            /\ skipped' = skipped + (later - (now + blocked + gap))
        BY <3>2, <3>4
      <3>6. ticked' \in Int /\ time_remainder' \in Int
        BY <3>2 DEF TypeOK
      <3>7. QED
        BY <1>2, <2>2, <3>1, <3>2, <3>3, <3>4, <3>5, <3>6, Numbers
    <2>5. QED
      BY <2>1, <2>3, <2>4
  <1>3. ASSUME Exact, UNCHANGED vars PROVE Exact'
    BY <1>3 DEF Exact, vars
  <1>4. TypeOK /\ Exact /\ [Next]_vars => Exact'
    BY <1>2, <1>3
  <1>5. TypeOK /\ Exact => TicksKeepTime
    BY ClockAssumption DEF TypeOK, Exact, TicksKeepTime
  <1>6. QED
    BY <1>1, <1>4, <1>5, ClockTypeCorrect, PTL DEF Spec
=============================================================================
