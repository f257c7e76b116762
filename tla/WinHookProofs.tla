--------------------------- MODULE WinHookProofs ---------------------------
(***************************************************************************)
(* Proofs about WinHook: once everything typed has arrived, the hook, the  *)
(* layout and Windows agree on the keys that are down, for every set of    *)
(* keys, every set of mapped keys and any number of events.                *)
(***************************************************************************)
EXTENDS WinHook, TLAPS

WinSpec == WinInit /\ [][WinNext]_winVars

-----------------------------------------------------------------------------
(* What is on its way                                                      *)

AllKeys == WinKeys \cup {LCtl}
WinEvents == [key : AllKeys, value : {"Press", "Release", "Repeat"}]
UserEvents == [key : AllKeys, value : {"Press", "Release"}]

Down(k) == Ev(k, "Press")
Up(k) == Ev(k, "Release")

DownIn(s, k) == \E i \in DOMAIN s : s[i] = Down(k)
UpIn(s, k) == \E i \in DOMAIN s : s[i] = Up(k)
\* the last press of k in s has no release behind it
LeftDown(s, k) ==
    \E i \in DOMAIN s : s[i] = Down(k) /\ \A j \in DOMAIN s : i < j => s[j] # Up(k)
\* the first press of k in s has no release before it
FirstDown(s, k) ==
    \E i \in DOMAIN s : s[i] = Down(k) /\ \A j \in DOMAIN s : j < i => s[j] # Up(k)
\* between two presses of k in s there is a release of it
Turns(s, k) ==
    \A i, j \in DOMAIN s :
        i < j /\ s[i] = Down(k) /\ s[j] = Down(k)
            => \E m \in DOMAIN s : i < m /\ m < j /\ s[m] = Up(k)

\* what the preprocessor keeps back of key k: a press, or a press and a release
KeptDown(k) == k = LCtl /\ lctl_state \in Unsent
KeptUp(k) == k = LCtl /\ lctl_state \in {"Released", "PendingReleased"}

\* k will be down in the layout once it has handled what the preprocessor has sent
Through(k) == LeftDown(winChan, k) \/ (~UpIn(winChan, k) /\ k \in held)
\* k will be down when everything kept by the hook has arrived: b is what becomes
\* of k without the events that have not left the preprocessor
Becomes(k, b) ==
    \/ LeftDown(preQueue, k)
    \/ ~UpIn(preQueue, k) /\ (IF KeptDown(k) THEN ~KeptUp(k) ELSE b)
Ends(k) == Becomes(k, Through(k))
\* the same of a layout that has just been cleared
EndsCleared(k) == Becomes(k, LeftDown(winChan, k))

-----------------------------------------------------------------------------
(* The invariant                                                           *)

WinTypes ==
    /\ winQueue \in Seq(UserEvents) /\ preQueue \in Seq(WinEvents) /\ winChan \in Seq(WinEvents)
    /\ winPressed \subseteq AllKeys /\ held \subseteq AllKeys /\ osDown \subseteq AllKeys
    /\ altgr \in {"DoNothing", "CancelLctlPress", "AddLctlRelease"}
    /\ lctl_state \in Unsent \cup {"None"} /\ withheld \in BOOLEAN

\* only cancel-lctl-press keeps anything back, and nothing is on its way to the
\* loop while the hook gets no events
KeptBack ==
    /\ lctl_state # "None" => altgr = "CancelLctlPress"
    /\ withheld => altgr = "CancelLctlPress"
    /\ ~hooked => Settled

\* add-lctl-release sends a release of LCtl that nobody has typed
Plain(k) == altgr # "AddLctlRelease" \/ k # LCtl

\* what the layout will have of k is in PRESSED_KEYS, unless the synchronisation
\* forgot it there; after a minute, what is on its way is younger than 5 s
UpAgrees(k) ==
    k \notin overtaken /\ Plain(k) =>
        /\ Ends(k) => k \in winPressed
        /\ longAgo /\ EndsCleared(k) => k \in winPressed /\ k \in fresh

\* the last press of LCtl was withheld, and no other event of it is on its way
Relaxed(k) == k = LCtl /\ withheld /\ ~KeptDown(k) /\ ~UpIn(preQueue, k)

\* what is in PRESSED_KEYS the layout will have
DownAgrees(k) ==
    ~(MayWithhold(k) /\ k \in overtaken) =>
        /\ k \in winPressed => Ends(k) \/ Relaxed(k)
        /\ longAgo /\ k \in winPressed /\ k \in fresh => EndsCleared(k) \/ Relaxed(k)

\* presses and releases of LCtl come in turn, so that a press that is withheld
\* finds LCtl up
LCtlTurns ==
    altgr = "CancelLctlPress" /\ LCtl \notin overtaken =>
        /\ KeptDown(LCtl) \/ withheld => ~Through(LCtl)
        /\ FirstDown(preQueue, LCtl) => KeptUp(LCtl) \/ (~KeptDown(LCtl) /\ ~Through(LCtl))
        /\ Turns(preQueue, LCtl)

\* a press that is the last on its way to the hook is of a key that is down
UserDowns(k) == LeftDown(winQueue, k) => k \in physDown \/ (k = LCtl /\ fakeCtrl)

\* k comes down in the layout or is there
DownComes(k) == k \in held \/ DownIn(winChan, k) \/ KeptDown(k) \/ DownIn(preQueue, k)

\* a key that is down in Windows is down, or its release is still to come
WindowsDowns(k) ==
    k \in osDown /\ ~(k = LCtl /\ (fakeCtrl \/ altgr = "CancelLctlPress")) =>
        k \in physDown \/ DownComes(k) \/ UpIn(winQueue, k)

Agreement == LCtlTurns /\ \A k \in AllKeys : UpAgrees(k) /\ DownAgrees(k)

WinInv ==
    /\ WinTypes /\ KeptBack /\ Agreement
    /\ \A k \in AllKeys : UserDowns(k) /\ WindowsDowns(k)

-----------------------------------------------------------------------------
(* Queues that grow at the end and shrink at the front                     *)

\* Which press and release an event is.
LEMMA EventIs ==
    /\ \A k, l : Down(k) # Up(l) /\ (Down(k) = Down(l) <=> k = l) /\ (Up(k) = Up(l) <=> k = l)
    /\ \A e \in WinEvents : /\ \A k : e = Down(k) <=> k = e.key /\ e.value = "Press"
                            /\ \A k : e = Up(k) <=> k = e.key /\ e.value = "Release"
                            /\ e.key \in AllKeys /\ e.value \in {"Press", "Release", "Repeat"}
    /\ UserEvents \subseteq WinEvents /\ \A e \in UserEvents : e.value # "Repeat"
    /\ \A k \in AllKeys : /\ {Down(k), Up(k)} \subseteq UserEvents
                          /\ Ev(k, "Repeat") \in WinEvents
    /\ \A k, l : Ev(k, "Repeat") # Down(l) /\ Ev(k, "Repeat") # Up(l)
    /\ LCtl \in AllKeys
BY DEF Down, Up, Ev, WinEvents, UserEvents, AllKeys

\* A queue that leaves a key down has a press of it, and a queue with presses of a
\* key and no release leaves it down.
LEMMA LeftDownHasDown ==
    \A s, k : /\ LeftDown(s, k) => DownIn(s, k)
              /\ DownIn(s, k) /\ ~UpIn(s, k) => LeftDown(s, k)
              /\ ~DownIn(s, k) => ~FirstDown(s, k) /\ Turns(s, k)
BY DEF LeftDown, FirstDown, DownIn, UpIn, Turns

\* Nothing is in a queue that is empty.
LEMMA EmptyIn ==
    \A k : /\ ~DownIn(<<>>, k) /\ ~UpIn(<<>>, k)
           /\ ~LeftDown(<<>>, k) /\ ~FirstDown(<<>>, k) /\ Turns(<<>>, k)
BY DEF DownIn, UpIn, LeftDown, FirstDown, Turns

\* What is in a queue after an event has been put at its end.
LEMMA AppendIn ==
    ASSUME NEW S, NEW s \in Seq(S), NEW e \in S, NEW k
    PROVE  /\ Append(s, e) \in Seq(S)
           /\ DownIn(Append(s, e), k) <=> DownIn(s, k) \/ e = Down(k)
           /\ UpIn(Append(s, e), k) <=> UpIn(s, k) \/ e = Up(k)
           /\ LeftDown(Append(s, e), k) <=> e = Down(k) \/ (LeftDown(s, k) /\ e # Up(k))
           /\ FirstDown(Append(s, e), k) => FirstDown(s, k) \/ (e = Down(k) /\ ~UpIn(s, k))
           /\ Turns(s, k) /\ (e = Down(k) => ~LeftDown(s, k)) => Turns(Append(s, e), k)
<1> DEFINE t == Append(s, e)
<1>1. /\ t \in Seq(S)
      /\ Len(s) \in Nat /\ DOMAIN s = 1..Len(s) /\ DOMAIN t = 1..(Len(s) + 1)
      /\ t[Len(s) + 1] = e /\ \A i \in 1..Len(s) : t[i] = s[i]
  OBVIOUS
<1> HIDE DEF t
<1>2. DownIn(t, k) <=> DownIn(s, k) \/ e = Down(k)
  BY <1>1 DEF DownIn
<1>3. UpIn(t, k) <=> UpIn(s, k) \/ e = Up(k)
  BY <1>1 DEF UpIn
<1>4. LeftDown(t, k) <=> e = Down(k) \/ (LeftDown(s, k) /\ e # Up(k))
  <2>1. Down(k) # Up(k)
    BY EventIs
  <2>2. ASSUME e = Down(k) PROVE LeftDown(t, k)
    BY <1>1, <2>2 DEF LeftDown
  <2>3. ASSUME LeftDown(s, k), e # Up(k) PROVE LeftDown(t, k)
    BY <1>1, <2>3 DEF LeftDown
  <2>4. ASSUME LeftDown(t, k), e # Down(k) PROVE LeftDown(s, k) /\ e # Up(k)
    <3>1. PICK i \in DOMAIN t : t[i] = Down(k) /\ \A j \in DOMAIN t : i < j => t[j] # Up(k)
      BY <2>4 DEF LeftDown
    <3>2. i \in DOMAIN s /\ i < Len(s) + 1 /\ Len(s) + 1 \in DOMAIN t
      BY <1>1, <2>4, <3>1
    <3>3. s[i] = Down(k) /\ \A j \in DOMAIN s : i < j => s[j] # Up(k)
      BY <1>1, <3>1, <3>2
    <3> QED BY <1>1, <3>1, <3>2, <3>3 DEF LeftDown
  <2> QED BY <2>1, <2>2, <2>3, <2>4
<1>5. ASSUME FirstDown(t, k) PROVE FirstDown(s, k) \/ (e = Down(k) /\ ~UpIn(s, k))
  <2>1. PICK i \in DOMAIN t : t[i] = Down(k) /\ \A j \in DOMAIN t : j < i => t[j] # Up(k)
    BY <1>5 DEF FirstDown
  <2>2. CASE i = Len(s) + 1
    BY <1>1, <2>1, <2>2 DEF UpIn
  <2>3. CASE i # Len(s) + 1
    BY <1>1, <2>1, <2>3 DEF FirstDown
  <2> QED BY <2>2, <2>3
<1>6. ASSUME Turns(s, k), e = Down(k) => ~LeftDown(s, k) PROVE Turns(t, k)
  <2> SUFFICES ASSUME NEW i \in DOMAIN t, NEW j \in DOMAIN t,
                      i < j, t[i] = Down(k), t[j] = Down(k)
               PROVE  \E m \in DOMAIN t : i < m /\ m < j /\ t[m] = Up(k)
    BY DEF Turns
  <2>1. i \in DOMAIN s /\ s[i] = Down(k)
    BY <1>1
  <2>2. CASE j = Len(s) + 1
    <3>1. ~LeftDown(s, k)
      BY <1>1, <1>6, <2>2
    <3>2. PICK m \in DOMAIN s : i < m /\ s[m] = Up(k)
      BY <2>1, <3>1 DEF LeftDown
    <3> QED BY <1>1, <2>2, <3>2
  <2>3. CASE j # Len(s) + 1
    BY <1>1, <1>6, <2>1, <2>3 DEF Turns
  <2> QED BY <2>2, <2>3
<1> QED BY <1>1, <1>2, <1>3, <1>4, <1>5, <1>6 DEF t

\* What is in a queue after two events.
LEMMA AppendTwoIn ==
    ASSUME NEW S, NEW s \in Seq(S), NEW e \in S, NEW f \in S, NEW k
    PROVE  LET t == Append(Append(s, e), f) IN
           /\ t \in Seq(S)
           /\ DownIn(t, k) <=> DownIn(s, k) \/ e = Down(k) \/ f = Down(k)
           /\ UpIn(t, k) <=> UpIn(s, k) \/ e = Up(k) \/ f = Up(k)
           /\ LeftDown(t, k) <=>
                 \/ f = Down(k)
                 \/ (e = Down(k) \/ (LeftDown(s, k) /\ e # Up(k))) /\ f # Up(k)
<1> DEFINE mid == Append(s, e)
<1>1. /\ mid \in Seq(S)
      /\ DownIn(mid, k) <=> DownIn(s, k) \/ e = Down(k)
      /\ UpIn(mid, k) <=> UpIn(s, k) \/ e = Up(k)
      /\ LeftDown(mid, k) <=> e = Down(k) \/ (LeftDown(s, k) /\ e # Up(k))
  BY AppendIn
<1> HIDE DEF mid
<1>2. LET t == Append(mid, f) IN
      /\ t \in Seq(S)
      /\ DownIn(t, k) <=> DownIn(mid, k) \/ f = Down(k)
      /\ UpIn(t, k) <=> UpIn(mid, k) \/ f = Up(k)
      /\ LeftDown(t, k) <=> f = Down(k) \/ (LeftDown(mid, k) /\ f # Up(k))
  BY <1>1, AppendIn
<1> QED BY <1>1, <1>2 DEF mid

\* What is in a queue after its first event has been taken.
LEMMA TailIn ==
    ASSUME NEW S, NEW s \in Seq(S), s # <<>>, NEW k
    PROVE  LET e == Head(s)
               t == Tail(s)
           IN
           /\ e \in S /\ t \in Seq(S)
           /\ DownIn(s, k) <=> DownIn(t, k) \/ e = Down(k)
           /\ UpIn(s, k) <=> UpIn(t, k) \/ e = Up(k)
           /\ LeftDown(s, k) <=> LeftDown(t, k) \/ (e = Down(k) /\ ~UpIn(t, k))
           /\ e = Down(k) => FirstDown(s, k)
           /\ FirstDown(t, k) => FirstDown(s, k) \/ e = Up(k)
           /\ Turns(s, k) => Turns(t, k) /\ ~(e = Down(k) /\ FirstDown(t, k))
<1> DEFINE e == Head(s)
           t == Tail(s)
<1>1. /\ Len(s) \in Nat \ {0} /\ DOMAIN s = 1..Len(s) /\ DOMAIN t = 1..(Len(s) - 1)
      /\ e = s[1] /\ e \in S /\ t \in Seq(S)
      /\ \A i \in 1..(Len(s) - 1) : t[i] = s[i + 1]
  OBVIOUS
<1> HIDE DEF e, t
<1>2. \A j \in DOMAIN s : j # 1 => j - 1 \in DOMAIN t /\ t[j - 1] = s[j] /\ 1 < j
  BY <1>1
<1>3. \A i \in DOMAIN t : i + 1 \in DOMAIN s /\ t[i] = s[i + 1] /\ 1 < i + 1
  BY <1>1
<1>first. 1 \in DOMAIN s /\ s[1] = e
  BY <1>1
<1>4. /\ DownIn(s, k) <=> DownIn(t, k) \/ e = Down(k)
      /\ UpIn(s, k) <=> UpIn(t, k) \/ e = Up(k)
  <2>1. ASSUME NEW x PROVE (\E i \in DOMAIN s : s[i] = x) <=> (\E i \in DOMAIN t : t[i] = x) \/ e = x
    <3>1. ASSUME NEW i \in DOMAIN s, s[i] = x PROVE (\E m \in DOMAIN t : t[m] = x) \/ e = x
      BY <1>1, <1>2, <3>1
    <3>2. ASSUME NEW i \in DOMAIN t, t[i] = x PROVE \E m \in DOMAIN s : s[m] = x
      BY <1>3, <3>2
    <3>3. e = x => \E m \in DOMAIN s : s[m] = x
      BY <1>first
    <3> QED BY <3>1, <3>2, <3>3
  <2> QED BY <2>1 DEF DownIn, UpIn
<1>5. LeftDown(s, k) <=> LeftDown(t, k) \/ (e = Down(k) /\ ~UpIn(t, k))
  <2>1. ASSUME LeftDown(s, k) PROVE LeftDown(t, k) \/ (e = Down(k) /\ ~UpIn(t, k))
    <3>1. PICK i \in DOMAIN s : s[i] = Down(k) /\ \A j \in DOMAIN s : i < j => s[j] # Up(k)
      BY <2>1 DEF LeftDown
    <3>2. CASE i = 1
      BY <1>1, <1>3, <3>1, <3>2 DEF UpIn
    <3>3. CASE i # 1
      <4>1. i - 1 \in DOMAIN t /\ t[i - 1] = Down(k)
        BY <1>2, <3>1, <3>3
      <4>2. \A j \in DOMAIN t : i - 1 < j => t[j] # Up(k)
        BY <1>1, <1>3, <3>1
      <4> QED BY <4>1, <4>2 DEF LeftDown
    <3> QED BY <3>2, <3>3
  <2>2. ASSUME LeftDown(t, k) PROVE LeftDown(s, k)
    <3>1. PICK i \in DOMAIN t : t[i] = Down(k) /\ \A j \in DOMAIN t : i < j => t[j] # Up(k)
      BY <2>2 DEF LeftDown
    <3>2. i + 1 \in DOMAIN s /\ s[i + 1] = Down(k)
      BY <1>3, <3>1
    <3>3. ASSUME NEW j \in DOMAIN s, i + 1 < j PROVE s[j] # Up(k)
      <4>1. j # 1 /\ i < j - 1
        BY <1>1, <3>3
      <4> QED BY <1>2, <3>1, <4>1
    <3> QED BY <3>2, <3>3 DEF LeftDown
  <2>3. ASSUME e = Down(k), ~UpIn(t, k) PROVE LeftDown(s, k)
    <3>1. \A j \in DOMAIN s : 1 < j => s[j] # Up(k)
      BY <1>2, <2>3 DEF UpIn
    <3> QED BY <1>first, <2>3, <3>1 DEF LeftDown
  <2> QED BY <2>1, <2>2, <2>3
<1>6. e = Down(k) => FirstDown(s, k)
  <2>1. \A j \in DOMAIN s : ~(j < 1)
    BY <1>1
  <2> QED BY <1>first, <2>1 DEF FirstDown
<1>7. ASSUME FirstDown(t, k), e # Up(k) PROVE FirstDown(s, k)
  <2>1. PICK i \in DOMAIN t : t[i] = Down(k) /\ \A j \in DOMAIN t : j < i => t[j] # Up(k)
    BY <1>7 DEF FirstDown
  <2>2. i + 1 \in DOMAIN s /\ s[i + 1] = Down(k)
    BY <1>3, <2>1
  <2>3. ASSUME NEW j \in DOMAIN s, j < i + 1 PROVE s[j] # Up(k)
    <3>1. CASE j = 1
      BY <1>first, <1>7, <3>1
    <3>2. CASE j # 1
      <4>1. j - 1 < i
        BY <1>1, <2>3
      <4> QED BY <1>2, <2>1, <3>2, <4>1
    <3> QED BY <3>1, <3>2
  <2> QED BY <2>2, <2>3 DEF FirstDown
<1>8. ASSUME Turns(s, k) PROVE Turns(t, k) /\ ~(e = Down(k) /\ FirstDown(t, k))
  <2>1. Turns(t, k)
    <3> SUFFICES ASSUME NEW i \in DOMAIN t, NEW j \in DOMAIN t,
                        i < j, t[i] = Down(k), t[j] = Down(k)
                 PROVE  \E m \in DOMAIN t : i < m /\ m < j /\ t[m] = Up(k)
      BY DEF Turns
    <3>1. /\ i + 1 \in DOMAIN s /\ j + 1 \in DOMAIN s /\ i + 1 < j + 1
          /\ s[i + 1] = Down(k) /\ s[j + 1] = Down(k)
      BY <1>1, <1>3
    <3>2. PICK m \in DOMAIN s : i + 1 < m /\ m < j + 1 /\ s[m] = Up(k)
      BY <1>8, <3>1 DEF Turns
    <3>3. m # 1 /\ i < m - 1 /\ m - 1 < j
      BY <1>1, <3>2
    <3> QED BY <1>2, <3>2, <3>3
  <2>2. ASSUME e = Down(k), FirstDown(t, k) PROVE FALSE
    <3>1. PICK i \in DOMAIN t : t[i] = Down(k) /\ \A j \in DOMAIN t : j < i => t[j] # Up(k)
      BY <2>2 DEF FirstDown
    <3>2. /\ 1 \in DOMAIN s /\ i + 1 \in DOMAIN s /\ 1 < i + 1
          /\ s[1] = Down(k) /\ s[i + 1] = Down(k)
      BY <1>3, <1>first, <2>2, <3>1
    <3>3. PICK m \in DOMAIN s : 1 < m /\ m < i + 1 /\ s[m] = Up(k)
      BY <1>8, <3>2 DEF Turns
    <3>4. m # 1 /\ m - 1 < i
      BY <1>1, <3>3
    <3> QED BY <1>2, <3>1, <3>3, <3>4
  <2> QED BY <2>1, <2>2
<1> QED BY <1>1, <1>4, <1>5, <1>6, <1>7, <1>8 DEF e, t

-----------------------------------------------------------------------------
(* The user                                                                *)

\* What the hook has kept and the layout has not stays as it is.
LEMMA AgreementKept ==
    ASSUME Agreement,
           UNCHANGED <<altgr, winPressed, fresh, overtaken, preQueue, withheld, winChan, held,
                       longAgo>>,
           UNCHANGED <<KeptDown(LCtl), KeptUp(LCtl)>>
    PROVE  Agreement'
<1>1. \A k : UNCHANGED <<KeptDown(k), KeptUp(k)>>
  BY DEF KeptDown, KeptUp
<1>2. \A k : UNCHANGED <<Through(k), Plain(k), MayWithhold(k)>>
  BY DEF Through, Plain, MayWithhold
<1>3. \A k : UNCHANGED <<Ends(k), EndsCleared(k), Relaxed(k)>>
  BY <1>1, <1>2 DEF Ends, EndsCleared, Becomes, Relaxed
<1>4. LCtlTurns'
  BY <1>1, <1>2 DEF Agreement, LCtlTurns
<1>5. ASSUME NEW k \in AllKeys PROVE UpAgrees(k)' /\ DownAgrees(k)'
  BY <1>2, <1>3 DEF Agreement, UpAgrees, DownAgrees
<1> QED BY <1>4, <1>5 DEF Agreement

\* What the events of the keys in K do to the queue of the hook.
LEMMA CausedQueue ==
    ASSUME winQueue \in Seq(UserEvents), NEW K, NEW keys, NEW v \in {"Press", "Release"},
           winQueue' = winQueue \o [i \in DOMAIN keys |-> Ev(keys[i], v)],
           \/ \E k \in AllKeys : keys = <<k>> /\ K = {k}
           \/ keys = <<LCtl, RAlt>> /\ K = {LCtl, RAlt} /\ RAlt \in AllKeys
    PROVE  /\ winQueue' \in Seq(UserEvents)
           /\ \A k : UpIn(winQueue', k) <=> UpIn(winQueue, k) \/ (v = "Release" /\ k \in K)
           /\ \A k : LeftDown(winQueue', k) =>
                        \/ v = "Press" /\ k \in K
                        \/ LeftDown(winQueue, k) /\ ~(v = "Release" /\ k \in K)
<1> DEFINE typedEvents == [i \in DOMAIN keys |-> Ev(keys[i], v)]
           e(k) == Ev(k, v)
<1>1. /\ \A k \in AllKeys : e(k) \in UserEvents
      /\ \A k, l : e(k) = Down(l) <=> v = "Press" /\ k = l
      /\ \A k, l : e(k) = Up(l) <=> v = "Release" /\ k = l
  BY EventIs DEF Down, Up, Ev, UserEvents
<1>2. ASSUME NEW l \in AllKeys, keys = <<l>> PROVE winQueue' = Append(winQueue, e(l))
  <2>1. typedEvents = <<e(l)>>
    BY <1>2
  <2> HIDE DEF typedEvents
  <2> QED BY <2>1 DEF typedEvents
<1>3. ASSUME keys = <<LCtl, RAlt>>
      PROVE  winQueue' = Append(Append(winQueue, e(LCtl)), e(RAlt))
  <2>1. typedEvents = <<e(LCtl), e(RAlt)>>
    BY <1>3
  <2> HIDE DEF e
  <2> QED BY <2>1
<1> HIDE DEF typedEvents, e
<1>4. CASE \E l \in AllKeys : keys = <<l>> /\ K = {l}
  <2>1. PICK l \in AllKeys : keys = <<l>> /\ K = {l}
    BY <1>4
  <2>2. winQueue' = Append(winQueue, e(l)) /\ e(l) \in UserEvents
    BY <1>1, <1>2, <2>1
  <2> DEFINE t == Append(winQueue, e(l))
  <2>3. /\ t \in Seq(UserEvents)
        /\ \A k : UpIn(t, k) <=> UpIn(winQueue, k) \/ e(l) = Up(k)
        /\ \A k : LeftDown(t, k) <=> e(l) = Down(k) \/ (LeftDown(winQueue, k) /\ e(l) # Up(k))
    BY <2>2, AppendIn
  <2> HIDE DEF t
  <2>4. winQueue' = t
    BY <2>2 DEF t
  <2>5. \A k : e(l) = Down(k) <=> v = "Press" /\ k \in K
    BY <1>1, <2>1
  <2>6. \A k : e(l) = Up(k) <=> v = "Release" /\ k \in K
    BY <1>1, <2>1
  <2> QED BY <2>3, <2>4, <2>5, <2>6
<1>5. CASE keys = <<LCtl, RAlt>> /\ K = {LCtl, RAlt} /\ RAlt \in AllKeys
  <2>1. /\ e(LCtl) \in UserEvents /\ e(RAlt) \in UserEvents
        /\ winQueue' = Append(Append(winQueue, e(LCtl)), e(RAlt))
    BY <1>1, <1>3, <1>5, EventIs
  <2> DEFINE t == Append(Append(winQueue, e(LCtl)), e(RAlt))
  <2>2. /\ t \in Seq(UserEvents)
        /\ \A k : UpIn(t, k) <=> UpIn(winQueue, k) \/ e(LCtl) = Up(k) \/ e(RAlt) = Up(k)
        /\ \A k : LeftDown(t, k) <=>
                     \/ e(RAlt) = Down(k)
                     \/ /\ e(LCtl) = Down(k) \/ (LeftDown(winQueue, k) /\ e(LCtl) # Up(k))
                        /\ e(RAlt) # Up(k)
    BY <2>1, AppendTwoIn
  <2> HIDE DEF t
  <2>3. winQueue' = t
    BY <2>1 DEF t
  <2>4. \A k : e(LCtl) = Down(k) \/ e(RAlt) = Down(k) <=> v = "Press" /\ k \in K
    BY <1>1, <1>5
  <2>5. \A k : e(LCtl) = Up(k) \/ e(RAlt) = Up(k) <=> v = "Release" /\ k \in K
    BY <1>1, <1>5
  <2> QED BY <2>2, <2>3, <2>4, <2>5
<1> QED BY <1>4, <1>5

\* An event that the user causes, of one key or of LCtl and RAlt.
LEMMA CausedStep ==
    ASSUME WinInv, NEW K, NEW keys, NEW v \in {"Press", "Release"}, Caused(keys, v),
           \/ \E k \in AllKeys : keys = <<k>> /\ K = {k}
           \/ keys = <<LCtl, RAlt>> /\ K = {LCtl, RAlt} /\ RAlt \in AllKeys,
           v = "Press" => /\ \A k \in K : k \in physDown' \/ (k = LCtl /\ fakeCtrl')
                          /\ physDown \subseteq physDown' /\ (fakeCtrl => fakeCtrl'),
           v = "Release" => /\ physDown \ K \subseteq physDown'
                            /\ fakeCtrl /\ ~fakeCtrl' => LCtl \in K
    PROVE  WinInv'
<1> USE DEF WinInv
<1>1. /\ UNCHANGED <<altgr, hooked, winPressed, fresh, overtaken, preQueue, lctl_state,
                     withheld, winChan, held, longAgo>>
      /\ ~hooked => UNCHANGED winQueue /\ winQueue = <<>>
      /\ hooked => UNCHANGED osDown
      /\ ~hooked => osDown' = IF v = "Press" THEN osDown \cup K ELSE osDown \ K
      /\ K \subseteq AllKeys
  <2>1. {keys[i] : i \in DOMAIN keys} = K
    <3>1. ASSUME NEW k, keys = <<k>>, K = {k} PROVE {keys[i] : i \in DOMAIN keys} = K
      BY <3>1
    <3>2. ASSUME keys = <<LCtl, RAlt>>, K = {LCtl, RAlt}
          PROVE  {keys[i] : i \in DOMAIN keys} = K
      BY <3>2
    <3> QED BY <3>1, <3>2
  <2>2. K \subseteq AllKeys
    BY EventIs
  <2> QED BY <2>1, <2>2 DEF Caused, winConf, hookVars, preVars, loopVars, KeptBack, Settled
<1>2. /\ winQueue' \in Seq(UserEvents)
      /\ \A k : UpIn(winQueue, k) => UpIn(winQueue', k)
      /\ hooked /\ v = "Release" => \A k \in K : UpIn(winQueue', k)
      /\ \A k : LeftDown(winQueue', k) =>
                   \/ v = "Press" /\ k \in K
                   \/ LeftDown(winQueue, k) /\ ~(v = "Release" /\ k \in K)
  <2>1. CASE hooked
    <3>1. winQueue' = winQueue \o [i \in DOMAIN keys |-> Ev(keys[i], v)]
      BY <2>1 DEF Caused
    <3>2. winQueue \in Seq(UserEvents)
      BY DEF WinTypes
    <3>3. /\ winQueue' \in Seq(UserEvents)
          /\ \A k : UpIn(winQueue', k) <=> UpIn(winQueue, k) \/ (v = "Release" /\ k \in K)
          /\ \A k : LeftDown(winQueue', k) =>
                       \/ v = "Press" /\ k \in K
                       \/ LeftDown(winQueue, k) /\ ~(v = "Release" /\ k \in K)
      BY <3>1, <3>2, CausedQueue, Zenon
    <3> QED BY <3>3
  <2>2. CASE ~hooked
    BY <1>1, <2>2, EmptyIn DEF WinTypes
  <2> QED BY <2>1, <2>2
<1>3. WinTypes'
  BY <1>1, <1>2 DEF WinTypes
<1>4. KeptBack'
  BY <1>1 DEF KeptBack, Settled
<1>5. Agreement'
  BY <1>1, AgreementKept DEF KeptDown, KeptUp
<1>6. ASSUME NEW k \in AllKeys PROVE UserDowns(k)' /\ WindowsDowns(k)'
  <2>1. UserDowns(k)'
    BY <1>2 DEF UserDowns
  <2>2. UNCHANGED DownComes(k)
    BY <1>1 DEF DownComes, KeptDown
  <2>3. WindowsDowns(k)'
    BY <1>1, <1>2, <2>2 DEF WindowsDowns
  <2> QED BY <2>1, <2>3
<1> QED BY <1>3, <1>4, <1>5, <1>6

\* Pressing, releasing and repeating keys.
LEMMA UserStep ==
    ASSUME WinInv, NEW k \in WinKeys, UserPresses(k) \/ UserReleases(k) \/ KeyRepeats(k)
    PROVE  WinInv'
<1>1. k \in AllKeys /\ LCtl \in AllKeys
  BY DEF AllKeys
<1>2. CASE UserPresses(k)
  <2>1. CASE k = RAlt /\ LCtl \notin physDown
    <3>1. /\ Caused(<<LCtl, RAlt>>, "Press") /\ fakeCtrl' /\ RAlt \in AllKeys
          /\ physDown' = physDown \cup {RAlt}
      BY <1>1, <1>2, <2>1 DEF UserPresses
    <3>2. /\ \A l \in {LCtl, RAlt} : l \in physDown' \/ (l = LCtl /\ fakeCtrl')
          /\ physDown \subseteq physDown' /\ (fakeCtrl => fakeCtrl')
      BY <3>1
    <3> QED BY <3>1, <3>2, CausedStep
  <2>2. CASE ~(k = RAlt /\ LCtl \notin physDown)
    <3>1. Caused(<<k>>, "Press") /\ UNCHANGED fakeCtrl /\ physDown' = physDown \cup {k}
      BY <1>2, <2>2 DEF UserPresses
    <3>2. /\ \A l \in {k} : l \in physDown' \/ (l = LCtl /\ fakeCtrl')
          /\ physDown \subseteq physDown' /\ (fakeCtrl => fakeCtrl')
      BY <3>1
    <3> QED BY <1>1, <3>1, <3>2, CausedStep
  <2> QED BY <2>1, <2>2
<1>3. CASE UserReleases(k)
  <2>1. CASE k = RAlt /\ fakeCtrl
    <3>1. /\ Caused(<<LCtl, RAlt>>, "Release") /\ RAlt \in AllKeys
          /\ physDown' = physDown \ {RAlt}
      BY <1>1, <1>3, <2>1 DEF UserReleases
    <3>2. /\ physDown \ {LCtl, RAlt} \subseteq physDown'
          /\ fakeCtrl /\ ~fakeCtrl' => LCtl \in {LCtl, RAlt}
      BY <3>1
    <3> QED BY <3>1, <3>2, CausedStep
  <2>2. CASE ~(k = RAlt /\ fakeCtrl)
    <3>1. Caused(<<k>>, "Release") /\ UNCHANGED fakeCtrl /\ physDown' = physDown \ {k}
      BY <1>3, <2>2 DEF UserReleases
    <3>2. physDown \ {k} \subseteq physDown' /\ ~(fakeCtrl /\ ~fakeCtrl')
      BY <3>1
    <3> QED BY <1>1, <3>1, <3>2, CausedStep
  <2> QED BY <2>1, <2>2
<1>4. CASE KeyRepeats(k)
  <2>1. /\ Caused(<<k>>, "Press") /\ UNCHANGED <<physDown, fakeCtrl>>
        /\ \A l \in {k} : l \in physDown' \/ (l = LCtl /\ fakeCtrl')
        /\ physDown \subseteq physDown' /\ (fakeCtrl => fakeCtrl')
    BY <1>4 DEF KeyRepeats
  <2> QED BY <1>1, <2>1, CausedStep
<1> QED BY <1>2, <1>3, <1>4

\* When nothing is on its way, the layout is what it will become.
LEMMA SettledMeans ==
    ASSUME Settled
    PROVE  \A k : /\ Ends(k) <=> k \in held
                  /\ ~EndsCleared(k) /\ ~KeptDown(k) /\ ~UpIn(preQueue, k)
                  /\ DownComes(k) <=> k \in held
                  /\ Through(k) <=> k \in held
BY EmptyIn
DEF Settled, Ends, EndsCleared, Becomes, Through, KeptDown, KeptUp, DownComes, Unsent

\* The focus moves, and a minute passes.
LEMMA QuietStep ==
    ASSUME WinInv, FocusMoves \/ MinutePasses PROVE WinInv'
<1> USE DEF WinInv
<1>1. /\ Settled
      /\ UNCHANGED <<altgr, physDown, fakeCtrl, winQueue, osDown, winPressed, overtaken, preQueue,
                     lctl_state, withheld, winChan, held>>
  BY DEF FocusMoves, MinutePasses, winConf, winUser, hookVars, preVars, loopVars
<1>2. WinTypes' /\ KeptBack' /\ \A k \in AllKeys : UserDowns(k)' /\ WindowsDowns(k)'
  BY <1>1
  DEF WinTypes, KeptBack, Settled, UserDowns, WindowsDowns, DownComes, KeptDown
<1>3. CASE FocusMoves
  <2>1. UNCHANGED <<fresh, longAgo>>
    BY <1>3 DEF FocusMoves, hookVars, loopVars
  <2> QED BY <1>1, <1>2, <2>1, AgreementKept DEF KeptDown, KeptUp
<1>4. CASE MinutePasses
  <2>1. fresh' = {}
    BY <1>4 DEF MinutePasses
  <2>2. LCtlTurns'
    BY <1>1 DEF Agreement, LCtlTurns, Through, KeptDown, KeptUp
  <2>3. ASSUME NEW k \in AllKeys PROVE UpAgrees(k)' /\ DownAgrees(k)'
    <3>1. UpAgrees(k) /\ DownAgrees(k)
      BY DEF Agreement
    <3>2. /\ UNCHANGED <<Ends(k), EndsCleared(k), Relaxed(k), Plain(k), MayWithhold(k)>>
          /\ ~EndsCleared(k)
      BY <1>1, SettledMeans
      DEF Ends, EndsCleared, Becomes, Through, KeptDown, KeptUp, Relaxed, Plain, MayWithhold
    <3> QED BY <1>1, <2>1, <3>1, <3>2 DEF UpAgrees, DownAgrees
  <2> QED BY <1>2, <2>2, <2>3 DEF Agreement
<1> QED BY <1>3, <1>4

\* What ends up in the layout comes down there or is there.
LEMMA EndsComes ==
    \A k : (Ends(k) => DownComes(k)) /\ (EndsCleared(k) => Ends(k))
BY LeftDownHasDown DEF Ends, EndsCleared, Becomes, Through, DownComes

-----------------------------------------------------------------------------
(* The hook                                                                *)

\* The hook takes the first event of its queue.
LEMMA HookTakes ==
    ASSUME WinTypes, Hook
    PROVE  LET e == Head(winQueue) IN
           /\ e \in UserEvents /\ winQueue' \in Seq(UserEvents)
           /\ \A k : UpIn(winQueue, k) <=> UpIn(winQueue', k) \/ e = Up(k)
           /\ \A k : LeftDown(winQueue, k) <=>
                        LeftDown(winQueue', k) \/ (e = Down(k) /\ ~UpIn(winQueue', k))
<1>1. winQueue \in Seq(UserEvents) /\ winQueue # <<>> /\ winQueue' = Tail(winQueue)
  BY DEF WinTypes, Hook
<1> QED BY <1>1, TailIn

\* An event that the hook gives back to Windows.
LEMMA PassStep ==
    ASSUME WinInv, Hook, ~Keeps(Head(winQueue)) PROVE WinInv'
<1> DEFINE e == Head(winQueue)
<1> USE DEF WinInv
<1>1. /\ osDown' = IF e.value = "Press" THEN osDown \cup {e.key} ELSE osDown \ {e.key}
      /\ hooked
      /\ UNCHANGED <<altgr, hooked, physDown, fakeCtrl, winPressed, fresh, overtaken, preQueue,
                     lctl_state, withheld, winChan, held, longAgo>>
  BY DEF Hook, winConf, winUser, hookVars, preVars, loopVars, KeptBack, Settled
<1>2. /\ e \in UserEvents /\ winQueue' \in Seq(UserEvents)
      /\ \A k : UpIn(winQueue, k) <=> UpIn(winQueue', k) \/ e = Up(k)
      /\ \A k : LeftDown(winQueue, k) <=>
                   LeftDown(winQueue', k) \/ (e = Down(k) /\ ~UpIn(winQueue', k))
  BY HookTakes
<1> HIDE DEF e
<1>3. /\ e.key \in AllKeys /\ e.value \in {"Press", "Release"}
      /\ \A k : e = Down(k) <=> k = e.key /\ e.value = "Press"
      /\ \A k : e = Up(k) <=> k = e.key /\ e.value = "Release"
  BY <1>2, EventIs
<1>4. WinTypes' /\ KeptBack'
  BY <1>1, <1>2, <1>3 DEF WinTypes, KeptBack
<1>5. Agreement'
  BY <1>1, AgreementKept DEF KeptDown, KeptUp
<1>6. ASSUME NEW k \in AllKeys PROVE UserDowns(k)' /\ WindowsDowns(k)'
  <2>1. UserDowns(k) /\ WindowsDowns(k) /\ UNCHANGED DownComes(k)
    BY <1>1 DEF DownComes, KeptDown
  <2>2. UserDowns(k)'
    BY <1>1, <1>2, <2>1 DEF UserDowns
  <2>3. WindowsDowns(k)'
    BY <1>1, <1>2, <1>3, <2>1 DEF UserDowns, WindowsDowns
  <2> QED BY <2>2, <2>3
<1> QED BY <1>4, <1>5, <1>6

\* An event that the hook takes.
LEMMA KeepStep ==
    ASSUME WinInv, Hook, Keeps(Head(winQueue)) PROVE WinInv'
<1> DEFINE e == Head(winQueue)
           again == e.value = "Press" /\ e.key \in winPressed
           f == IF again THEN Ev(e.key, "Repeat") ELSE e
<1> USE DEF WinInv
<1>1. /\ preQueue' = Append(preQueue, f) /\ hooked
      /\ winPressed' = IF e.value = "Press" THEN winPressed \cup {e.key}
                                            ELSE winPressed \ {e.key}
      /\ fresh' = IF e.value = "Release" THEN fresh \ {e.key}
                  ELSE IF again THEN fresh ELSE fresh \cup {e.key}
      /\ overtaken' = IF e.value = "Press" /\ ~again /\ ~MayWithhold(e.key)
                      THEN overtaken \ {e.key} ELSE overtaken
      /\ UNCHANGED <<altgr, hooked, physDown, fakeCtrl, osDown, lctl_state, withheld,
                     winChan, held, longAgo>>
  BY DEF Hook, winConf, winUser, preVars, loopVars, KeptBack, Settled
<1>2. /\ e \in UserEvents /\ winQueue' \in Seq(UserEvents)
      /\ \A k : UpIn(winQueue, k) <=> UpIn(winQueue', k) \/ e = Up(k)
      /\ \A k : LeftDown(winQueue, k) <=>
                   LeftDown(winQueue', k) \/ (e = Down(k) /\ ~UpIn(winQueue', k))
  BY HookTakes
<1>3. e.value = "Release" => e.key \in winPressed
  BY DEF Keeps
<1>4. /\ e.key \in AllKeys /\ e.value \in {"Press", "Release"}
      /\ \A k : e = Down(k) <=> k = e.key /\ e.value = "Press"
      /\ \A k : e = Up(k) <=> k = e.key /\ e.value = "Release"
  BY <1>2, EventIs
<1>5. /\ f \in WinEvents
      /\ \A k : f = Down(k) <=> k = e.key /\ e.value = "Press" /\ k \notin winPressed
      /\ \A k : f = Up(k) <=> k = e.key /\ e.value = "Release"
  <2>1. CASE again
    BY <1>4, <2>1, EventIs
  <2>2. CASE ~again
    BY <1>2, <1>4, <2>2, EventIs
  <2> QED BY <2>1, <2>2
<1>6. \A k : /\ k \in winPressed' <=> f = Down(k) \/ (k \in winPressed /\ f # Up(k))
             /\ k \in fresh' <=> f = Down(k) \/ (k \in fresh /\ f # Up(k))
             /\ k \in overtaken' <=> k \in overtaken /\ ~(f = Down(k) /\ ~MayWithhold(k))
             /\ f = Up(k) => k \in winPressed
             /\ f = Up(k) <=> e = Up(k)
  BY <1>1, <1>3, <1>4, <1>5
<1> HIDE DEF e, f
<1>7. /\ preQueue' \in Seq(WinEvents)
      /\ \A k : DownIn(preQueue', k) <=> DownIn(preQueue, k) \/ f = Down(k)
      /\ \A k : UpIn(preQueue', k) <=> UpIn(preQueue, k) \/ f = Up(k)
      /\ \A k : LeftDown(preQueue', k) <=> f = Down(k) \/ (LeftDown(preQueue, k) /\ f # Up(k))
      /\ \A k : FirstDown(preQueue', k) =>
                   FirstDown(preQueue, k) \/ (f = Down(k) /\ ~UpIn(preQueue, k))
      /\ \A k : Turns(preQueue, k) /\ (f = Down(k) => ~LeftDown(preQueue, k))
                   => Turns(preQueue', k)
  <2>1. preQueue \in Seq(WinEvents)
    BY DEF WinTypes
  <2> QED BY <1>1, <1>5, <2>1, AppendIn
<1>8. WinTypes' /\ KeptBack'
  BY <1>1, <1>2, <1>4, <1>7 DEF WinTypes, KeptBack
<1>9. ASSUME NEW k
      PROVE  /\ UNCHANGED <<KeptDown(k), KeptUp(k), Through(k), LeftDown(winChan, k), Plain(k),
                            MayWithhold(k)>>
             /\ Ends(k)' <=> f = Down(k) \/ (Ends(k) /\ f # Up(k))
             /\ EndsCleared(k)' <=> f = Down(k) \/ (EndsCleared(k) /\ f # Up(k))
             /\ Relaxed(k)' <=> Relaxed(k) /\ f # Up(k)
  <2>1. UNCHANGED <<KeptDown(k), KeptUp(k), Through(k), LeftDown(winChan, k), Plain(k),
                    MayWithhold(k)>>
    BY <1>1 DEF KeptDown, KeptUp, Through, Plain, MayWithhold
  <2>2. ~(f = Down(k) /\ f = Up(k))
    BY EventIs
  <2> QED BY <1>1, <1>7, <2>1, <2>2 DEF Ends, EndsCleared, Becomes, Relaxed
<1>10. ASSUME NEW k \in AllKeys PROVE UpAgrees(k)' /\ DownAgrees(k)'
  <2>1. UpAgrees(k) /\ DownAgrees(k) /\ longAgo' = longAgo
    BY <1>1 DEF Agreement
  <2> QED BY <1>6, <1>9, <2>1 DEF UpAgrees, DownAgrees
<1>11. LCtlTurns'
  <2> SUFFICES ASSUME altgr = "CancelLctlPress", LCtl \notin overtaken'
               PROVE  /\ KeptDown(LCtl)' \/ withheld' => ~Through(LCtl)'
                      /\ FirstDown(preQueue, LCtl)' =>
                            KeptUp(LCtl)' \/ (~KeptDown(LCtl)' /\ ~Through(LCtl)')
                      /\ Turns(preQueue, LCtl)'
    BY <1>1 DEF LCtlTurns
  <2>1. LCtl \notin overtaken
    BY <1>6 DEF MayWithhold
  <2>2. f = Down(LCtl) => ~Ends(LCtl)
    <3>1. UpAgrees(LCtl) /\ Plain(LCtl)
      BY EventIs DEF Agreement, Plain
    <3> QED BY <1>5, <2>1, <3>1 DEF UpAgrees
  <2>3. f = Down(LCtl) => /\ ~LeftDown(preQueue, LCtl)
                          /\ UpIn(preQueue, LCtl) \/ KeptUp(LCtl)
                                \/ (~KeptDown(LCtl) /\ ~Through(LCtl))
    BY <2>2 DEF Ends, Becomes
  <2> QED BY <1>1, <1>7, <1>9, <2>1, <2>3 DEF Agreement, LCtlTurns
<1>12. ASSUME NEW k \in AllKeys PROVE UserDowns(k)' /\ WindowsDowns(k)'
  <2>1. UserDowns(k)'
    BY <1>1, <1>2 DEF UserDowns
  <2>2. DownComes(k) => DownComes(k)'
    BY <1>1, <1>7, <1>9 DEF DownComes
  <2>3. f = Up(k) /\ ~(k = LCtl /\ altgr = "CancelLctlPress") => DownComes(k)
    BY <1>6, EndsComes DEF Agreement, DownAgrees, MayWithhold, Relaxed, KeptBack
  <2>4. WindowsDowns(k)'
    BY <1>1, <1>2, <1>6, <2>2, <2>3 DEF WindowsDowns
  <2> QED BY <2>1, <2>4
<1> QED BY <1>8, <1>10, <1>11, <1>12 DEF Agreement

-----------------------------------------------------------------------------
(* The processing loop                                                     *)

\* The loop takes an event, after the clearing when that woke it up late.
LEMMA ProcessStep == ASSUME WinInv, Processes PROVE WinInv'
<1> DEFINE e == Head(winChan)
           cleared == blocked /\ ClearDue
           before == IF cleared THEN {} ELSE held
<1> USE DEF WinInv
<1>1. /\ winChan # <<>> /\ winChan' = Tail(winChan)
      /\ held' = CASE e.value = "Press" -> before \cup {e.key}
                   [] e.value = "Release" -> before \ {e.key}
                   [] OTHER -> before
      /\ osDown' = (osDown \ (held \ held')) \cup (held' \ held)
      /\ winPressed' = IF cleared THEN winPressed \cap fresh ELSE winPressed
      /\ longAgo' = FALSE /\ hooked
      /\ UNCHANGED <<altgr, hooked, physDown, fakeCtrl, winQueue, fresh, overtaken, preQueue,
                     lctl_state, withheld>>
  BY DEF Processes, Outputs, StillPressed, winConf, winUser, preVars, KeptBack, Settled
<1>2. /\ e \in WinEvents /\ winChan' \in Seq(WinEvents)
      /\ \A k : DownIn(winChan, k) <=> DownIn(winChan', k) \/ e = Down(k)
      /\ \A k : UpIn(winChan, k) <=> UpIn(winChan', k) \/ e = Up(k)
      /\ \A k : LeftDown(winChan, k) <=>
                   LeftDown(winChan', k) \/ (e = Down(k) /\ ~UpIn(winChan', k))
  <2>1. winChan \in Seq(WinEvents)
    BY DEF WinTypes
  <2> QED BY <1>1, <2>1, TailIn
<1>3. cleared => longAgo
  BY DEF ClearDue
<1> HIDE DEF e, cleared
<1>4. /\ e.key \in AllKeys
      /\ \A k : k \in held' <=> e = Down(k) \/ (k \in held /\ ~cleared /\ e # Up(k))
  BY <1>1, <1>2, EventIs
<1>5. WinTypes' /\ KeptBack'
  BY <1>1, <1>2, <1>4 DEF WinTypes, KeptBack
<1>6. ASSUME NEW k
      PROVE  /\ UNCHANGED <<KeptDown(k), KeptUp(k), Plain(k), MayWithhold(k), Relaxed(k)>>
             /\ Through(k)' <=> IF cleared THEN LeftDown(winChan, k) ELSE Through(k)
             /\ Ends(k)' <=> IF cleared THEN EndsCleared(k) ELSE Ends(k)
  <2>1. UNCHANGED <<KeptDown(k), KeptUp(k), Plain(k), MayWithhold(k), Relaxed(k)>>
    BY <1>1 DEF KeptDown, KeptUp, Plain, MayWithhold, Relaxed
  <2>2. ~(e = Down(k) /\ e = Up(k))
    BY EventIs
  <2>3. Through(k)' <=> IF cleared THEN LeftDown(winChan, k) ELSE Through(k)
    BY <1>2, <1>4, <2>2 DEF Through
  <2> QED BY <1>1, <2>1, <2>3 DEF Ends, EndsCleared, Becomes
<1>7. ASSUME NEW k \in AllKeys PROVE UpAgrees(k)' /\ DownAgrees(k)'
  <2>1. UpAgrees(k) /\ DownAgrees(k)
    BY DEF Agreement
  <2>2. k \in winPressed' <=> k \in winPressed /\ (cleared => k \in fresh)
    BY <1>1
  <2> QED BY <1>1, <1>3, <1>6, <2>1, <2>2 DEF UpAgrees, DownAgrees
<1>8. LCtlTurns'
  <2>1. Through(LCtl)' => Through(LCtl)
    BY <1>6 DEF Through
  <2> QED BY <1>1, <1>6, <2>1 DEF Agreement, LCtlTurns
<1>9. ASSUME NEW k \in AllKeys PROVE UserDowns(k)' /\ WindowsDowns(k)'
  <2>1. UserDowns(k)'
    BY <1>1 DEF UserDowns
  <2>2. k \notin held /\ k \notin held' => (DownComes(k)' <=> DownComes(k))
    BY <1>1, <1>2, <1>4, <1>6 DEF DownComes
  <2>3. k \in held' => DownComes(k)'
    BY DEF DownComes
  <2>4. WindowsDowns(k)'
    BY <1>1, <2>2, <2>3 DEF WindowsDowns
  <2> QED BY <2>1, <2>4
<1> QED BY <1>5, <1>7, <1>8, <1>9 DEF Agreement

\* The loop clears while it polls.
LEMMA ClearStep == ASSUME WinInv, ClearsWhilePolling PROVE WinInv'
<1> USE DEF WinInv
<1>1. /\ winChan = <<>> /\ longAgo /\ held' = {} /\ osDown' = osDown \ held
      /\ winPressed' = winPressed \cap fresh
      /\ UNCHANGED <<altgr, hooked, physDown, fakeCtrl, winQueue, fresh, overtaken, preQueue,
                     lctl_state, withheld, winChan, longAgo>>
  BY DEF ClearsWhilePolling, ClearDue, Outputs, StillPressed, winConf, winUser, preVars
<1>2. WinTypes' /\ KeptBack'
  BY <1>1 DEF WinTypes, KeptBack, Settled
<1>3. ASSUME NEW k
      PROVE  /\ UNCHANGED <<KeptDown(k), KeptUp(k), Plain(k), MayWithhold(k), Relaxed(k),
                            EndsCleared(k)>>
             /\ ~Through(k)' /\ (Ends(k)' <=> EndsCleared(k))
  BY <1>1, EmptyIn
  DEF KeptDown, KeptUp, Plain, MayWithhold, Relaxed, Through, Ends, EndsCleared, Becomes
<1>4. ASSUME NEW k \in AllKeys PROVE UpAgrees(k)' /\ DownAgrees(k)'
  BY <1>1, <1>3 DEF Agreement, UpAgrees, DownAgrees
<1>5. LCtlTurns'
  BY <1>1, <1>3 DEF Agreement, LCtlTurns
<1>6. ASSUME NEW k \in AllKeys PROVE UserDowns(k)' /\ WindowsDowns(k)'
  BY <1>1, <1>3 DEF UserDowns, WindowsDowns, DownComes
<1> QED BY <1>2, <1>4, <1>5, <1>6 DEF Agreement

\* The loop synchronises before it blocks: a key that it forgets is not on its way
\* to the layout, or is in overtaken.
LEMMA BlockStep == ASSUME WinInv, Blocks PROVE WinInv'
<1> USE DEF WinInv
<1>1. PICK ghosts \in SUBSET (held \ osDown) :
          /\ held' = held \ ghosts /\ winPressed' = winPressed \ ghosts
          /\ fresh' = fresh \ ghosts
          /\ overtaken' = (overtaken \ ghosts) \cup {k \in ghosts : DownOnItsWay(k)}
  BY DEF Blocks
<1>2. /\ osDown' \subseteq osDown
      /\ UNCHANGED <<altgr, hooked, physDown, fakeCtrl, winQueue, preQueue, lctl_state,
                     withheld, winChan, longAgo>>
  BY DEF Blocks, winConf, winUser, preVars
<1>3. WinTypes' /\ KeptBack'
  BY <1>1, <1>2 DEF WinTypes, KeptBack, Settled
<1>4. \A k : DownOnItsWay(k) <=> DownIn(preQueue, k) \/ DownIn(winChan, k) \/ KeptDown(k)
  BY DEF DownOnItsWay, DownIn, Down, KeptDown
<1>5. \A k : UNCHANGED <<KeptDown(k), KeptUp(k), Plain(k), MayWithhold(k), Relaxed(k),
                         EndsCleared(k)>>
  BY <1>2 DEF KeptDown, KeptUp, Plain, MayWithhold, Relaxed, EndsCleared, Becomes
<1>6. \A k : k \notin ghosts => UNCHANGED <<Through(k), Ends(k)>>
  BY <1>1, <1>2 DEF Through, Ends, Becomes, KeptDown, KeptUp
<1>7. ASSUME NEW k \in ghosts, k \notin overtaken'
      PROVE  /\ ~Through(k)' /\ ~Ends(k)' /\ ~EndsCleared(k)' /\ ~KeptDown(k)'
             /\ ~FirstDown(preQueue, k)' /\ Turns(preQueue, k)'
  <2>1. ~DownIn(preQueue, k) /\ ~DownIn(winChan, k) /\ ~KeptDown(k)
    BY <1>1, <1>4, <1>7
  <2>2. ~LeftDown(preQueue, k) /\ ~LeftDown(winChan, k) /\ k \notin held'
        /\ ~FirstDown(preQueue, k) /\ Turns(preQueue, k)
    BY <1>1, <2>1, LeftDownHasDown
  <2>3. ~Through(k)'
    BY <1>2, <2>2 DEF Through
  <2> QED BY <1>2, <1>5, <2>1, <2>2, <2>3 DEF Ends, EndsCleared, Becomes
<1>8. ASSUME NEW k \in AllKeys PROVE UpAgrees(k)' /\ DownAgrees(k)'
  <2>1. CASE k \in ghosts
    BY <1>1, <1>7, <2>1 DEF UpAgrees, DownAgrees
  <2>2. CASE k \notin ghosts
    BY <1>1, <1>2, <1>5, <1>6, <2>2 DEF Agreement, UpAgrees, DownAgrees
  <2> QED BY <2>1, <2>2
<1>9. LCtlTurns'
  <2>1. CASE LCtl \in ghosts
    BY <1>7, <2>1 DEF LCtlTurns
  <2>2. CASE LCtl \notin ghosts
    BY <1>1, <1>2, <1>5, <1>6, <2>2 DEF Agreement, LCtlTurns
  <2> QED BY <2>1, <2>2
<1>10. ASSUME NEW k \in AllKeys PROVE UserDowns(k)' /\ WindowsDowns(k)'
  BY <1>1, <1>2, <1>5 DEF UserDowns, WindowsDowns, DownComes
<1> QED BY <1>3, <1>8, <1>9, <1>10 DEF Agreement

-----------------------------------------------------------------------------
(* The preprocessor                                                        *)

\* Sending one event, two or none.
LEMMA SendsMeans ==
    ASSUME WinTypes
    PROVE  /\ Sends(<<>>) => winChan' = winChan /\ (withheld' <=> withheld)
           /\ \A e \in WinEvents :
                 Sends(<<e>>) => /\ winChan' = Append(winChan, e)
                                 /\ withheld' <=> withheld /\ e # Down(LCtl)
           /\ \A e, f \in WinEvents :
                 Sends(<<e, f>>) => /\ winChan' = Append(Append(winChan, e), f)
                                    /\ withheld' <=> /\ withheld
                                                     /\ e # Down(LCtl)
                                                     /\ f # Down(LCtl)
           /\ \A es : Sends(es) => withheld' \in BOOLEAN
<1>1. winChan \in Seq(WinEvents)
  BY DEF WinTypes
<1>2. winChan \o <<>> = winChan /\ {<<>>[i] : i \in DOMAIN <<>>} = {}
  BY <1>1
<1>3. ASSUME NEW e \in WinEvents
      PROVE  winChan \o <<e>> = Append(winChan, e) /\ {<<e>>[i] : i \in DOMAIN <<e>>} = {e}
  BY <1>1
<1>4. ASSUME NEW e \in WinEvents, NEW f \in WinEvents
      PROVE  /\ winChan \o <<e, f>> = Append(Append(winChan, e), f)
             /\ {<<e, f>>[i] : i \in DOMAIN <<e, f>>} = {e, f}
  BY <1>1
<1>5. Sends(<<>>) => winChan' = winChan /\ (withheld' <=> withheld)
  BY <1>2 DEF Sends, Down
<1>6. ASSUME NEW e \in WinEvents, Sends(<<e>>)
      PROVE  winChan' = Append(winChan, e) /\ (withheld' <=> withheld /\ e # Down(LCtl))
  BY <1>3, <1>6 DEF Sends, Down
<1>7. ASSUME NEW e \in WinEvents, NEW f \in WinEvents, Sends(<<e, f>>)
      PROVE  /\ winChan' = Append(Append(winChan, e), f)
             /\ withheld' <=> withheld /\ e # Down(LCtl) /\ f # Down(LCtl)
  <2>1. winChan \o <<e, f>> = Append(Append(winChan, e), f)
    BY <1>4
  <2>2. {<<e, f>>[i] : i \in DOMAIN <<e, f>>} = {e, f}
    BY <1>4
  <2>3. /\ winChan' = winChan \o <<e, f>>
        /\ withheld' = (withheld /\ Down(LCtl) \notin {<<e, f>>[i] : i \in DOMAIN <<e, f>>})
    BY <1>7 DEF Sends, Down
  <2>4. winChan' = Append(Append(winChan, e), f)
    BY <2>1, <2>3, Zenon
  <2>5. withheld' = (withheld /\ Down(LCtl) \notin {e, f})
    BY <2>2, <2>3, Zenon
  <2> QED BY <2>4, <2>5
<1>8. \A es : Sends(es) => withheld' \in BOOLEAN
  BY DEF Sends, Down
<1> QED BY <1>5, <1>6, <1>7, <1>8

\* What the preprocessor leaves alone.
PreRest == <<altgr, hooked, physDown, fakeCtrl, winQueue, osDown, held, longAgo, overtaken>>

\* The preprocessor takes the first event of its queue.
LEMMA TakesMeans ==
    ASSUME WinTypes, preQueue # <<>>, preQueue' = Tail(preQueue), NEW e, e = Head(preQueue)
    PROVE  /\ e \in WinEvents /\ preQueue' \in Seq(WinEvents)
           /\ \A k : DownIn(preQueue, k) <=> DownIn(preQueue', k) \/ e = Down(k)
           /\ \A k : UpIn(preQueue, k) <=> UpIn(preQueue', k) \/ e = Up(k)
           /\ \A k : LeftDown(preQueue, k) <=>
                        LeftDown(preQueue', k) \/ (e = Down(k) /\ ~UpIn(preQueue', k))
           /\ \A k : e = Down(k) => FirstDown(preQueue, k)
           /\ \A k : FirstDown(preQueue', k) => FirstDown(preQueue, k) \/ e = Up(k)
           /\ \A k : Turns(preQueue, k) =>
                        Turns(preQueue', k) /\ ~(e = Down(k) /\ FirstDown(preQueue', k))
<1>1. preQueue \in Seq(WinEvents)
  BY DEF WinTypes
<1> QED BY <1>1, TailIn

\* The channel to the loop after an event has been sent.
LEMMA SendsOne ==
    ASSUME WinTypes, NEW e \in WinEvents, winChan' = Append(winChan, e)
    PROVE  /\ winChan' \in Seq(WinEvents)
           /\ \A k : DownIn(winChan', k) <=> DownIn(winChan, k) \/ e = Down(k)
           /\ \A k : UpIn(winChan', k) <=> UpIn(winChan, k) \/ e = Up(k)
           /\ \A k : LeftDown(winChan', k) <=> e = Down(k) \/ (LeftDown(winChan, k) /\ e # Up(k))
<1>1. winChan \in Seq(WinEvents)
  BY DEF WinTypes
<1> QED BY <1>1, AppendIn

\* For a key of which the preprocessor keeps nothing back, an event that goes on to
\* the loop changes nothing about what it will be.
LEMMA MovedKey ==
    ASSUME NEW k, NEW e, ~(e = Down(k) /\ e = Up(k)),
           UpIn(preQueue, k) <=> UpIn(preQueue', k) \/ e = Up(k),
           DownIn(preQueue, k) <=> DownIn(preQueue', k) \/ e = Down(k),
           LeftDown(preQueue, k) <=>
               LeftDown(preQueue', k) \/ (e = Down(k) /\ ~UpIn(preQueue', k)),
           DownIn(winChan, k) \/ e = Down(k) => DownIn(winChan', k),
           UpIn(winChan', k) <=> UpIn(winChan, k) \/ e = Up(k),
           LeftDown(winChan', k) <=> e = Down(k) \/ (LeftDown(winChan, k) /\ e # Up(k)),
           UNCHANGED <<held, KeptDown(k), KeptUp(k)>>,
           e = Down(k) \/ e = Up(k) => ~KeptDown(k)
    PROVE  /\ Through(k)' <=> e = Down(k) \/ (Through(k) /\ e # Up(k))
           /\ Ends(k)' <=> Ends(k)
           /\ EndsCleared(k)' <=> EndsCleared(k)
           /\ DownComes(k) => DownComes(k)'
<1>1. UNCHANGED <<KeptDown(k), KeptUp(k)>>
  OBVIOUS
<1>2. Through(k)' <=> e = Down(k) \/ (Through(k) /\ e # Up(k))
  BY DEF Through
<1>3. DownComes(k) => DownComes(k)'
  BY <1>1 DEF DownComes
<1> QED BY <1>1, <1>2, <1>3 DEF Ends, EndsCleared, Becomes

\* An event goes on to the loop as it came.
LEMMA MoveStep ==
    ASSUME WinInv, preQueue # <<>>, preQueue' = Tail(preQueue),
           NEW e, e = Head(preQueue), winChan' = Append(winChan, e),
           withheld' \in BOOLEAN, withheld' <=> withheld /\ e # Down(LCtl),
           e \in {Down(LCtl), Up(LCtl)} => lctl_state = "None",
           altgr = "CancelLctlPress" => e # Down(LCtl),
           UNCHANGED <<PreRest, lctl_state, winPressed, fresh>>
    PROVE  WinInv'
<1> USE DEF WinInv, PreRest
<1>1. /\ e \in WinEvents /\ preQueue' \in Seq(WinEvents)
      /\ \A k : DownIn(preQueue, k) <=> DownIn(preQueue', k) \/ e = Down(k)
      /\ \A k : UpIn(preQueue, k) <=> UpIn(preQueue', k) \/ e = Up(k)
      /\ \A k : LeftDown(preQueue, k) <=>
                   LeftDown(preQueue', k) \/ (e = Down(k) /\ ~UpIn(preQueue', k))
      /\ \A k : FirstDown(preQueue', k) => FirstDown(preQueue, k) \/ e = Up(k)
      /\ \A k : Turns(preQueue, k) => Turns(preQueue', k)
  BY TakesMeans
<1>2. /\ winChan' \in Seq(WinEvents)
      /\ \A k : DownIn(winChan', k) <=> DownIn(winChan, k) \/ e = Down(k)
      /\ \A k : UpIn(winChan', k) <=> UpIn(winChan, k) \/ e = Up(k)
      /\ \A k : LeftDown(winChan', k) <=> e = Down(k) \/ (LeftDown(winChan, k) /\ e # Up(k))
  BY <1>1, SendsOne
<1>3. WinTypes' /\ KeptBack'
  BY <1>1, <1>2 DEF WinTypes, KeptBack, Settled
<1>4. /\ \A k : UNCHANGED <<KeptDown(k), KeptUp(k), Plain(k), MayWithhold(k)>>
      /\ \A k : e = Down(k) \/ e = Up(k) => ~KeptDown(k)
      /\ \A k : ~(e = Down(k) /\ e = Up(k))
  BY EventIs DEF KeptDown, KeptUp, Plain, MayWithhold, Unsent
<1>5. ASSUME NEW k
      PROVE  /\ Through(k)' <=> e = Down(k) \/ (Through(k) /\ e # Up(k))
             /\ Ends(k)' <=> Ends(k)
             /\ EndsCleared(k)' <=> EndsCleared(k)
             /\ DownComes(k) => DownComes(k)'
  BY <1>1, <1>2, <1>4, MovedKey
<1>6. ASSUME NEW k \in AllKeys PROVE UpAgrees(k)' /\ DownAgrees(k)'
  <2>1. UpAgrees(k) /\ DownAgrees(k)
    BY DEF Agreement
  <2>2. Relaxed(k) => Relaxed(k)' \/ (EndsCleared(k) /\ Ends(k))
    <3>1. ASSUME Relaxed(k), e = Down(LCtl) PROVE EndsCleared(k) /\ Ends(k)
      BY <1>1, <3>1 DEF Relaxed, Ends, EndsCleared, Becomes
    <3>2. ASSUME Relaxed(k), e # Down(LCtl) PROVE Relaxed(k)'
      BY <1>1, <1>4, <3>2 DEF Relaxed
    <3> QED BY <3>1, <3>2
  <2> QED BY <1>4, <1>5, <2>1, <2>2 DEF UpAgrees, DownAgrees
<1>7. LCtlTurns'
  BY <1>1, <1>4, <1>5 DEF Agreement, LCtlTurns
<1>8. ASSUME NEW k \in AllKeys PROVE UserDowns(k)' /\ WindowsDowns(k)'
  BY <1>5 DEF UserDowns, WindowsDowns
<1> QED BY <1>3, <1>6, <1>7, <1>8 DEF Agreement

\* The release of AltGr goes on to the loop with a release of LCtl.
LEMMA AddsReleaseStep ==
    ASSUME WinInv, preQueue # <<>>, preQueue' = Tail(preQueue),
           NEW e, e = Head(preQueue), altgr = "AddLctlRelease", e = Up(RAlt),
           winChan' = Append(Append(winChan, e), Up(LCtl)), withheld' \in BOOLEAN,
           withheld' => withheld, UNCHANGED <<PreRest, lctl_state>>,
           winPressed' = winPressed \ {LCtl}, fresh' = fresh \ {LCtl}
    PROVE  WinInv'
<1> USE DEF WinInv, PreRest
<1>1. /\ e \in WinEvents /\ preQueue' \in Seq(WinEvents)
      /\ \A k : DownIn(preQueue, k) <=> DownIn(preQueue', k) \/ e = Down(k)
      /\ \A k : UpIn(preQueue, k) <=> UpIn(preQueue', k) \/ e = Up(k)
      /\ \A k : LeftDown(preQueue, k) <=>
                   LeftDown(preQueue', k) \/ (e = Down(k) /\ ~UpIn(preQueue', k))
  BY TakesMeans
<1>2. /\ winChan' \in Seq(WinEvents)
      /\ \A k : DownIn(winChan', k) <=> DownIn(winChan, k) \/ e = Down(k) \/ Up(LCtl) = Down(k)
      /\ \A k : UpIn(winChan', k) <=> UpIn(winChan, k) \/ e = Up(k) \/ Up(LCtl) = Up(k)
      /\ \A k : LeftDown(winChan', k) <=>
                   \/ Up(LCtl) = Down(k)
                   \/ (e = Down(k) \/ (LeftDown(winChan, k) /\ e # Up(k))) /\ Up(LCtl) # Up(k)
  <2>1. winChan \in Seq(WinEvents) /\ Up(LCtl) \in WinEvents
    BY EventIs DEF WinTypes
  <2> QED BY <1>1, <2>1, AppendTwoIn
<1>3. /\ lctl_state = "None" /\ ~withheld
      /\ \A k : e # Down(k) /\ Up(LCtl) # Down(k) /\ (Up(LCtl) = Up(k) <=> k = LCtl)
  BY EventIs DEF KeptBack
<1>4. WinTypes' /\ KeptBack'
  BY <1>1, <1>2 DEF WinTypes, KeptBack, Settled
<1>5. \A k : UNCHANGED <<KeptDown(k), KeptUp(k), Plain(k), MayWithhold(k)>> /\ ~KeptDown(k)
  BY <1>3 DEF KeptDown, KeptUp, Plain, MayWithhold, Unsent
<1>6. ASSUME NEW k, k # LCtl
      PROVE  /\ Ends(k)' <=> Ends(k)
             /\ EndsCleared(k)' <=> EndsCleared(k)
  BY <1>1, <1>2, <1>3, <1>5, <1>6, MovedKey
<1>7. ASSUME NEW k \in AllKeys PROVE UpAgrees(k)' /\ DownAgrees(k)'
  <2>1. UpAgrees(k) /\ DownAgrees(k) /\ ~Relaxed(k)
    BY <1>3 DEF Agreement, Relaxed
  <2>2. CASE k = LCtl
    BY <2>2 DEF UpAgrees, DownAgrees, Plain
  <2>3. CASE k # LCtl
    BY <1>5, <1>6, <2>1, <2>3 DEF UpAgrees, DownAgrees
  <2> QED BY <2>2, <2>3
<1>8. LCtlTurns'
  BY DEF LCtlTurns
<1>9. ASSUME NEW k \in AllKeys PROVE UserDowns(k)' /\ WindowsDowns(k)'
  <2>1. DownComes(k) => DownComes(k)'
    BY <1>1, <1>2, <1>3, <1>5 DEF DownComes
  <2> QED BY <2>1 DEF UserDowns, WindowsDowns
<1> QED BY <1>4, <1>7, <1>8, <1>9 DEF Agreement

\* The preprocessor keeps a press of LCtl back, or the release behind one.
LEMMA KeepsBackStep ==
    ASSUME WinInv, preQueue # <<>>, preQueue' = Tail(preQueue),
           NEW e, e = Head(preQueue), altgr = "CancelLctlPress",
           UNCHANGED <<PreRest, winPressed, fresh, winChan, withheld>>,
           \/ e = Down(LCtl) /\ lctl_state' = "Pressed"
           \/ /\ e = Up(LCtl) /\ lctl_state \in Unsent
              /\ lctl_state' \in {"Released", "PendingReleased"}
    PROVE  WinInv'
<1> USE DEF WinInv, PreRest
<1>1. /\ e \in WinEvents /\ preQueue' \in Seq(WinEvents)
      /\ \A k : DownIn(preQueue, k) <=> DownIn(preQueue', k) \/ e = Down(k)
      /\ \A k : UpIn(preQueue, k) <=> UpIn(preQueue', k) \/ e = Up(k)
      /\ \A k : LeftDown(preQueue, k) <=>
                   LeftDown(preQueue', k) \/ (e = Down(k) /\ ~UpIn(preQueue', k))
      /\ \A k : e = Down(k) => FirstDown(preQueue, k)
      /\ \A k : FirstDown(preQueue', k) => FirstDown(preQueue, k) \/ e = Up(k)
      /\ \A k : Turns(preQueue, k) =>
                   Turns(preQueue', k) /\ ~(e = Down(k) /\ FirstDown(preQueue', k))
  BY TakesMeans
<1>2. /\ \A k : e = Down(k) \/ e = Up(k) => k = LCtl
      /\ Down(LCtl) # Up(LCtl)
  BY EventIs
<1>3. WinTypes' /\ KeptBack'
  BY <1>1 DEF WinTypes, KeptBack, Settled, Unsent
<1>4. /\ KeptDown(LCtl)' /\ (KeptUp(LCtl)' <=> e = Up(LCtl))
      /\ e = Up(LCtl) => KeptDown(LCtl)
      /\ KeptUp(LCtl) => KeptDown(LCtl)
      /\ \A k : k # LCtl => ~KeptDown(k) /\ ~KeptUp(k) /\ ~KeptDown(k)' /\ ~KeptUp(k)'
      /\ \A k : Through(k)' <=> Through(k)
  BY <1>2 DEF KeptDown, KeptUp, Unsent, Through
<1>5. ASSUME NEW k
      PROVE  (Ends(k)' <=> Ends(k)) /\ (EndsCleared(k)' <=> EndsCleared(k))
  <2>1. CASE k # LCtl
    BY <1>1, <1>2, <1>4, <2>1 DEF Ends, EndsCleared, Becomes
  <2>2. CASE k = LCtl
    BY <1>1, <1>2, <1>4, <2>2 DEF Ends, EndsCleared, Becomes
  <2> QED BY <2>1, <2>2
<1>6. ASSUME NEW k \in AllKeys PROVE UpAgrees(k)' /\ DownAgrees(k)'
  <2>1. UpAgrees(k) /\ DownAgrees(k) /\ UNCHANGED <<Plain(k), MayWithhold(k)>>
    BY DEF Agreement, Plain, MayWithhold
  <2>2. Relaxed(k) => EndsCleared(k) /\ Ends(k)
    BY <1>1, <1>4 DEF Relaxed, Ends, EndsCleared, Becomes
  <2> QED BY <1>5, <2>1, <2>2 DEF UpAgrees, DownAgrees
<1>7. LCtlTurns'
  BY <1>1, <1>4 DEF Agreement, LCtlTurns
<1>8. ASSUME NEW k \in AllKeys PROVE UserDowns(k)' /\ WindowsDowns(k)'
  <2>1. k # LCtl => (DownComes(k)' <=> DownComes(k))
    BY <1>1, <1>2, <1>4 DEF DownComes
  <2> QED BY <2>1 DEF UserDowns, WindowsDowns
<1> QED BY <1>3, <1>6, <1>7, <1>8 DEF Agreement

\* The press of AltGr goes on to the loop, and a press of LCtl that was kept back
\* is withheld for good.
LEMMA AltGrStep ==
    ASSUME WinInv, preQueue # <<>>, preQueue' = Tail(preQueue),
           NEW e, e = Head(preQueue), altgr = "CancelLctlPress", e = Down(RAlt),
           lctl_state' = "None", winChan' = Append(winChan, e),
           withheld' = (withheld \/ lctl_state \in {"Pressed", "Pending"}),
           UNCHANGED <<PreRest, winPressed, fresh>>
    PROVE  WinInv'
<1> USE DEF WinInv, PreRest
<1>1. /\ e \in WinEvents /\ preQueue' \in Seq(WinEvents)
      /\ \A k : DownIn(preQueue, k) <=> DownIn(preQueue', k) \/ e = Down(k)
      /\ \A k : UpIn(preQueue, k) <=> UpIn(preQueue', k) \/ e = Up(k)
      /\ \A k : LeftDown(preQueue, k) <=>
                   LeftDown(preQueue', k) \/ (e = Down(k) /\ ~UpIn(preQueue', k))
      /\ \A k : FirstDown(preQueue', k) => FirstDown(preQueue, k) \/ e = Up(k)
      /\ \A k : Turns(preQueue, k) => Turns(preQueue', k)
  BY TakesMeans
<1>2. /\ winChan' \in Seq(WinEvents)
      /\ \A k : DownIn(winChan', k) <=> DownIn(winChan, k) \/ e = Down(k)
      /\ \A k : UpIn(winChan', k) <=> UpIn(winChan, k) \/ e = Up(k)
      /\ \A k : LeftDown(winChan', k) <=> e = Down(k) \/ (LeftDown(winChan, k) /\ e # Up(k))
  BY <1>1, SendsOne
<1>3. /\ \A k : e # Up(k)
      /\ e # Down(LCtl)
  BY EventIs, WinHookAssumption
<1>4. WinTypes' /\ KeptBack'
  BY <1>1, <1>2 DEF WinTypes, KeptBack, Settled
<1>5. /\ ~KeptDown(LCtl)' /\ ~KeptUp(LCtl)'
      /\ KeptUp(LCtl) => KeptDown(LCtl)
      /\ KeptDown(LCtl) /\ ~KeptUp(LCtl) => withheld'
      /\ withheld => withheld'
      /\ withheld' => withheld \/ KeptDown(LCtl)
      /\ \A k : k # LCtl => ~KeptDown(k) /\ ~KeptUp(k) /\ ~KeptDown(k)' /\ ~KeptUp(k)'
      /\ \A k : UNCHANGED <<Plain(k), MayWithhold(k)>>
  BY DEF KeptDown, KeptUp, Unsent, Plain, MayWithhold
<1>6. ASSUME NEW k, k # LCtl
      PROVE  /\ Ends(k)' <=> Ends(k)
             /\ EndsCleared(k)' <=> EndsCleared(k)
             /\ DownComes(k) => DownComes(k)'
  <2>1. UNCHANGED <<held, KeptDown(k), KeptUp(k)>> /\ ~KeptDown(k)
    BY <1>6 DEF KeptDown, KeptUp
  <2>2. /\ UpIn(preQueue, k) <=> UpIn(preQueue', k) \/ e = Up(k)
        /\ DownIn(preQueue, k) <=> DownIn(preQueue', k) \/ e = Down(k)
        /\ LeftDown(preQueue, k) <=>
               LeftDown(preQueue', k) \/ (e = Down(k) /\ ~UpIn(preQueue', k))
    BY <1>1
  <2>3. /\ DownIn(winChan, k) \/ e = Down(k) => DownIn(winChan', k)
        /\ UpIn(winChan', k) <=> UpIn(winChan, k) \/ e = Up(k)
        /\ LeftDown(winChan', k) <=> e = Down(k) \/ (LeftDown(winChan, k) /\ e # Up(k))
        /\ ~(e = Down(k) /\ e = Up(k))
    BY <1>2, <1>3
  <2> QED BY <2>1, <2>2, <2>3, MovedKey
<1>7. /\ UpIn(preQueue', LCtl) <=> UpIn(preQueue, LCtl)
      /\ LeftDown(preQueue', LCtl) <=> LeftDown(preQueue, LCtl)
      /\ LeftDown(winChan', LCtl) <=> LeftDown(winChan, LCtl)
      /\ Through(LCtl)' <=> Through(LCtl)
  BY <1>1, <1>2, <1>3 DEF Through
<1>8. ASSUME LCtl \notin overtaken
      PROVE  KeptDown(LCtl) \/ withheld => ~Through(LCtl) /\ ~LeftDown(winChan, LCtl)
  BY <1>8 DEF Agreement, LCtlTurns, Through
<1>9. ASSUME LCtl \notin overtaken
      PROVE  /\ Ends(LCtl)' => Ends(LCtl)
             /\ EndsCleared(LCtl)' => EndsCleared(LCtl)
             /\ Ends(LCtl) => Ends(LCtl)' \/ Relaxed(LCtl)'
             /\ EndsCleared(LCtl) => EndsCleared(LCtl)' \/ Relaxed(LCtl)'
             /\ Relaxed(LCtl) => Relaxed(LCtl)'
  BY <1>5, <1>7, <1>8, <1>9 DEF Ends, EndsCleared, Becomes, Relaxed
<1>10. ASSUME NEW k \in AllKeys PROVE UpAgrees(k)' /\ DownAgrees(k)'
  <2>1. UpAgrees(k) /\ DownAgrees(k) /\ UNCHANGED <<Plain(k), MayWithhold(k)>>
    BY <1>5 DEF Agreement
  <2>2. CASE k = LCtl
    BY <1>9, <2>1, <2>2 DEF UpAgrees, DownAgrees, MayWithhold
  <2>3. CASE k # LCtl
    BY <1>6, <2>1, <2>3 DEF UpAgrees, DownAgrees, Relaxed
  <2> QED BY <2>2, <2>3
<1>11. LCtlTurns'
  BY <1>1, <1>3, <1>5, <1>7 DEF Agreement, LCtlTurns
<1>12. ASSUME NEW k \in AllKeys PROVE UserDowns(k)' /\ WindowsDowns(k)'
  BY <1>6 DEF UserDowns, WindowsDowns
<1> QED BY <1>4, <1>10, <1>11, <1>12 DEF Agreement

\* What cancel-lctl-press does with an event.
LEMMA CancelMeans ==
    ASSUME WinTypes, NEW e \in WinEvents, CancelLctl(e)
    PROVE  \/ /\ e = Down(LCtl) /\ lctl_state' = "Pressed"
              /\ winChan' = winChan /\ withheld' = withheld
           \/ /\ e = Up(LCtl) /\ lctl_state \in Unsent
              /\ lctl_state' \in {"Released", "PendingReleased"}
              /\ winChan' = winChan /\ withheld' = withheld
           \/ /\ e = Down(RAlt) /\ lctl_state' = "None" /\ winChan' = Append(winChan, e)
              /\ withheld' = (withheld \/ lctl_state \in {"Pressed", "Pending"})
           \/ /\ e # Down(LCtl) /\ (e = Up(LCtl) => lctl_state = "None")
              /\ UNCHANGED lctl_state /\ winChan' = Append(winChan, e) /\ withheld' = withheld
<1>1. Down(LCtl) # Up(LCtl) /\ Down(RAlt) # Up(LCtl) /\ Down(RAlt) # Down(LCtl)
  BY EventIs, WinHookAssumption
<1>2. Sends(<<>>) => winChan' = winChan /\ withheld' = withheld
  BY SendsMeans DEF WinTypes
<1>3. e # Down(LCtl) /\ Sends(<<e>>) => winChan' = Append(winChan, e) /\ withheld' = withheld
  BY SendsMeans DEF WinTypes
<1>4. CASE e = Down(LCtl)
  BY <1>1, <1>2, <1>4 DEF CancelLctl, Down, Up
<1>5. CASE e = Up(LCtl) /\ lctl_state \in Unsent
  BY <1>1, <1>2, <1>5 DEF CancelLctl, Down, Up, Unsent
<1>6. CASE e = Down(RAlt)
  BY <1>1, <1>6 DEF CancelLctl, Down, Up
<1>7. CASE e # Down(LCtl) /\ ~(e = Up(LCtl) /\ lctl_state \in Unsent) /\ e # Down(RAlt)
  <2>1. UNCHANGED lctl_state /\ Sends(<<e>>)
    BY <1>7 DEF CancelLctl, Down, Up, Unsent
  <2> QED BY <1>3, <1>7, <2>1 DEF WinTypes
<1> QED BY <1>4, <1>5, <1>6, <1>7

\* The preprocessor receives an event.
LEMMA ReceiveStep == ASSUME WinInv, PreReceives PROVE WinInv'
<1> DEFINE e == Head(preQueue)
<1>1. /\ WinTypes /\ preQueue # <<>> /\ preQueue' = Tail(preQueue)
      /\ UNCHANGED <<altgr, hooked, physDown, fakeCtrl, winQueue, osDown, held, longAgo>>
  BY DEF PreReceives, WinInv, winConf, winUser, loopVars
<1>2. e \in WinEvents
  BY <1>1, TakesMeans
<1>3. CASE altgr = "CancelLctlPress"
  <2>1. CancelLctl(e) /\ UNCHANGED <<winPressed, fresh, overtaken>>
    BY <1>3 DEF PreReceives, hookVars
  <2>2. UNCHANGED <<PreRest, winPressed, fresh>>
    BY <1>1, <2>1 DEF PreRest
  <2>3. withheld \in BOOLEAN /\ (e = Down(RAlt) => e # Down(LCtl) /\ e # Up(LCtl))
    BY <1>1, EventIs, WinHookAssumption DEF WinTypes
  <2> HIDE DEF e
  <2>4. \/ /\ e = Down(LCtl) /\ lctl_state' = "Pressed"
           /\ winChan' = winChan /\ withheld' = withheld
        \/ /\ e = Up(LCtl) /\ lctl_state \in Unsent
           /\ lctl_state' \in {"Released", "PendingReleased"}
           /\ winChan' = winChan /\ withheld' = withheld
        \/ /\ e = Down(RAlt) /\ lctl_state' = "None" /\ winChan' = Append(winChan, e)
           /\ withheld' = (withheld \/ lctl_state \in {"Pressed", "Pending"})
        \/ /\ e # Down(LCtl) /\ (e = Up(LCtl) => lctl_state = "None")
           /\ UNCHANGED lctl_state /\ winChan' = Append(winChan, e) /\ withheld' = withheld
    BY <1>1, <1>2, <2>1, CancelMeans
  <2>5. CASE winChan' = winChan /\ withheld' = withheld
             /\ \/ e = Down(LCtl) /\ lctl_state' = "Pressed"
                \/ /\ e = Up(LCtl) /\ lctl_state \in Unsent
                   /\ lctl_state' \in {"Released", "PendingReleased"}
    BY <1>1, <1>3, <2>2, <2>5, KeepsBackStep DEF e
  <2>6. CASE /\ e = Down(RAlt) /\ lctl_state' = "None" /\ winChan' = Append(winChan, e)
             /\ withheld' = (withheld \/ lctl_state \in {"Pressed", "Pending"})
    BY <1>1, <1>3, <2>2, <2>6, AltGrStep DEF e
  <2>7. CASE /\ e # Down(LCtl) /\ (e = Up(LCtl) => lctl_state = "None")
             /\ UNCHANGED lctl_state /\ winChan' = Append(winChan, e) /\ withheld' = withheld
    BY <1>1, <2>2, <2>3, <2>7, MoveStep DEF e
  <2> QED BY <2>4, <2>5, <2>6, <2>7
<1>4. CASE altgr = "AddLctlRelease" /\ e = Up(RAlt)
  <2>1. /\ Sends(<<e, Up(LCtl)>>) /\ UNCHANGED <<lctl_state, overtaken>>
        /\ winPressed' = winPressed \ {LCtl} /\ fresh' = fresh \ {LCtl}
    BY <1>4 DEF PreReceives, Up
  <2>2. Up(LCtl) \in WinEvents
    BY EventIs
  <2>3. /\ winChan' = Append(Append(winChan, e), Up(LCtl))
        /\ withheld' => withheld
        /\ withheld' \in BOOLEAN
    BY <1>1, <1>2, <2>1, <2>2, SendsMeans
  <2>4. UNCHANGED <<PreRest, lctl_state>>
    BY <1>1, <2>1 DEF PreRest
  <2> QED BY <1>1, <1>4, <2>1, <2>3, <2>4, AddsReleaseStep
<1>5. CASE altgr # "CancelLctlPress" /\ ~(altgr = "AddLctlRelease" /\ e = Up(RAlt))
  <2>1. Sends(<<e>>) /\ UNCHANGED <<lctl_state, winPressed, fresh, overtaken>>
    BY <1>5 DEF PreReceives, hookVars, Up
  <2>2. /\ winChan' = Append(winChan, e) /\ withheld' \in BOOLEAN
        /\ withheld' <=> withheld /\ e # Down(LCtl)
    BY <1>1, <1>2, <2>1, SendsMeans
  <2>3. UNCHANGED <<PreRest, lctl_state, winPressed, fresh>> /\ lctl_state = "None"
    BY <1>1, <1>5, <2>1 DEF PreRest, WinInv, KeptBack
  <2> QED BY <1>1, <1>5, <2>2, <2>3, MoveStep
<1> QED BY <1>3, <1>4, <1>5

\* What was kept back of LCtl is sent: its press, and its release if that came too.
LEMMA SendsLateStep ==
    ASSUME WinInv, preQueue = <<>>, lctl_state \in Unsent, lctl_state' = "None",
           withheld' = FALSE, winChan' \in Seq(WinEvents),
           LeftDown(winChan', LCtl) <=> ~KeptUp(LCtl), KeptUp(LCtl) => UpIn(winChan', LCtl),
           \A k : k # LCtl => /\ DownIn(winChan', k) <=> DownIn(winChan, k)
                              /\ UpIn(winChan', k) <=> UpIn(winChan, k)
                              /\ LeftDown(winChan', k) <=> LeftDown(winChan, k),
           UNCHANGED <<PreRest, winPressed, fresh, preQueue>>
    PROVE  WinInv'
<1> USE DEF WinInv, PreRest
<1>1. /\ altgr = "CancelLctlPress" /\ KeptDown(LCtl) /\ hooked
      /\ \A k : ~UpIn(preQueue, k) /\ ~LeftDown(preQueue, k) /\ ~FirstDown(preQueue, k)
      /\ \A k : Turns(preQueue, k)
  BY EmptyIn DEF KeptBack, Settled, KeptDown, Unsent
<1>2. WinTypes' /\ KeptBack'
  BY <1>1 DEF WinTypes, KeptBack
<1>3. /\ \A k : ~KeptDown(k)' /\ ~KeptUp(k)'
      /\ \A k : k # LCtl => ~KeptDown(k) /\ ~KeptUp(k)
      /\ \A k : UNCHANGED <<Plain(k), MayWithhold(k)>> /\ ~Relaxed(k)
  BY <1>1 DEF KeptDown, KeptUp, Unsent, Plain, MayWithhold, Relaxed
<1>4. ASSUME NEW k
      PROVE  (Ends(k)' <=> Ends(k)) /\ (EndsCleared(k)' <=> EndsCleared(k))
  <2>1. CASE k = LCtl
    BY <1>1, <1>3, <2>1 DEF Ends, EndsCleared, Becomes, Through
  <2>2. CASE k # LCtl
    BY <1>1, <1>3, <2>2 DEF Ends, EndsCleared, Becomes, Through
  <2> QED BY <2>1, <2>2
<1>5. ASSUME NEW k \in AllKeys PROVE UpAgrees(k)' /\ DownAgrees(k)'
  BY <1>3, <1>4 DEF Agreement, UpAgrees, DownAgrees
<1>6. LCtlTurns'
  BY <1>1, <1>3 DEF LCtlTurns
<1>7. ASSUME NEW k \in AllKeys PROVE UserDowns(k)' /\ WindowsDowns(k)'
  <2>1. k # LCtl => (DownComes(k)' <=> DownComes(k))
    BY <1>3 DEF DownComes
  <2> QED BY <1>1, <2>1 DEF UserDowns, WindowsDowns
<1> QED BY <1>2, <1>5, <1>6, <1>7 DEF Agreement

\* The preprocessor finds its queue empty.
LEMMA FindsNothingStep == ASSUME WinInv, PreFindsNothing PROVE WinInv'
<1>1. /\ WinTypes /\ preQueue = <<>>
      /\ UNCHANGED <<PreRest, winPressed, fresh, preQueue>>
  BY DEF PreFindsNothing, PreRest, WinInv, winConf, winUser, hookVars, loopVars
<1>2. lctl_state \in {"None", "Pressed", "Released", "Pending", "PendingReleased"}
  BY <1>1 DEF WinTypes, Unsent
<1>3. /\ Down(LCtl) \in WinEvents /\ Up(LCtl) \in WinEvents /\ Down(LCtl) # Up(LCtl)
      /\ \A k : k # LCtl => Down(LCtl) # Down(k) /\ Up(LCtl) # Up(k)
      /\ \A k : Down(LCtl) # Up(k) /\ Up(LCtl) # Down(k)
  BY EventIs
<1>4. CASE lctl_state \notin {"Pending", "PendingReleased"}
  <2>1. /\ Sends(<<>>)
        /\ \/ lctl_state = "Pressed" /\ lctl_state' = "Pending"
           \/ lctl_state = "Released" /\ lctl_state' = "PendingReleased"
           \/ UNCHANGED lctl_state
    BY <1>2, <1>4 DEF PreFindsNothing
  <2>2. winChan' = winChan /\ withheld' = withheld
    BY <1>1, <2>1, SendsMeans DEF WinTypes
  <2>3. UNCHANGED <<KeptDown(LCtl), KeptUp(LCtl)>>
    BY <2>1 DEF KeptDown, KeptUp, Unsent
  <2>4. Agreement'
    BY <1>1, <2>2, <2>3, AgreementKept DEF WinInv, PreRest
  <2>5. WinTypes' /\ KeptBack'
    BY <1>1, <2>1, <2>2 DEF WinInv, WinTypes, KeptBack, Settled, PreRest, Unsent
  <2>6. \A k : DownComes(k)' <=> DownComes(k)
    BY <1>1, <2>2, <2>3 DEF DownComes, KeptDown, PreRest
  <2>7. \A k \in AllKeys : UserDowns(k)' /\ WindowsDowns(k)'
    BY <1>1, <2>6 DEF WinInv, UserDowns, WindowsDowns, PreRest
  <2> QED BY <2>4, <2>5, <2>7 DEF WinInv
<1>5. CASE lctl_state = "Pending"
  <2>1. lctl_state' = "None" /\ Sends(<<Down(LCtl)>>)
    BY <1>5 DEF PreFindsNothing, Down
  <2>2. winChan' = Append(winChan, Down(LCtl)) /\ withheld' = FALSE
    BY <1>1, <1>3, <2>1, SendsMeans
  <2>3. /\ winChan' \in Seq(WinEvents)
        /\ \A k : DownIn(winChan', k) <=> DownIn(winChan, k) \/ Down(LCtl) = Down(k)
        /\ \A k : UpIn(winChan', k) <=> UpIn(winChan, k) \/ Down(LCtl) = Up(k)
        /\ \A k : LeftDown(winChan', k) <=>
                     Down(LCtl) = Down(k) \/ (LeftDown(winChan, k) /\ Down(LCtl) # Up(k))
    BY <1>1, <1>3, <2>2, SendsOne
  <2>4. lctl_state \in Unsent /\ ~KeptUp(LCtl)
    BY <1>5 DEF Unsent, KeptUp
  <2>5. \A k : k # LCtl => /\ DownIn(winChan', k) <=> DownIn(winChan, k)
                           /\ UpIn(winChan', k) <=> UpIn(winChan, k)
                           /\ LeftDown(winChan', k) <=> LeftDown(winChan, k)
    BY <1>3, <2>3
  <2> QED BY <1>1, <2>1, <2>2, <2>3, <2>4, <2>5, SendsLateStep
<1>6. CASE lctl_state = "PendingReleased"
  <2>1. lctl_state' = "None" /\ Sends(<<Down(LCtl), Up(LCtl)>>)
    BY <1>6 DEF PreFindsNothing, Down, Up
  <2>2. winChan' = Append(Append(winChan, Down(LCtl)), Up(LCtl)) /\ withheld' = FALSE
    BY <1>1, <1>3, <2>1, SendsMeans
  <2>3. /\ winChan' \in Seq(WinEvents)
        /\ \A k : DownIn(winChan', k) <=>
                     DownIn(winChan, k) \/ Down(LCtl) = Down(k) \/ Up(LCtl) = Down(k)
        /\ \A k : UpIn(winChan', k) <=>
                     UpIn(winChan, k) \/ Down(LCtl) = Up(k) \/ Up(LCtl) = Up(k)
        /\ \A k : LeftDown(winChan', k) <=>
                     \/ Up(LCtl) = Down(k)
                     \/ /\ Down(LCtl) = Down(k) \/ (LeftDown(winChan, k) /\ Down(LCtl) # Up(k))
                        /\ Up(LCtl) # Up(k)
    <3>1. winChan \in Seq(WinEvents)
      BY <1>1 DEF WinTypes
    <3> QED BY <1>3, <2>2, <3>1, AppendTwoIn
  <2>4. lctl_state \in Unsent /\ KeptUp(LCtl)
    BY <1>6 DEF Unsent, KeptUp
  <2>5. \A k : k # LCtl => /\ DownIn(winChan', k) <=> DownIn(winChan, k)
                           /\ UpIn(winChan', k) <=> UpIn(winChan, k)
                           /\ LeftDown(winChan', k) <=> LeftDown(winChan, k)
    BY <1>3, <2>3
  <2>6. ~LeftDown(winChan', LCtl) /\ UpIn(winChan', LCtl)
    BY <1>3, <2>3
  <2> QED BY <1>1, <2>1, <2>2, <2>3, <2>4, <2>5, <2>6, SendsLateStep
<1> QED BY <1>4, <1>5, <1>6

-----------------------------------------------------------------------------
(* The theorem                                                             *)

\* Every step keeps the invariant.
LEMMA WinStep == ASSUME WinInv, [WinNext]_winVars PROVE WinInv'
<1>1. CASE \E k \in WinKeys : UserPresses(k) \/ UserReleases(k) \/ KeyRepeats(k)
  BY <1>1, UserStep
<1>2. CASE FocusMoves \/ MinutePasses
  BY <1>2, QuietStep
<1>3. CASE Hook
  BY <1>3, PassStep, KeepStep
<1>4. CASE PreReceives \/ PreFindsNothing
  BY <1>4, ReceiveStep, FindsNothingStep
<1>5. CASE ClearsWhilePolling \/ Processes \/ Blocks
  BY <1>5, ClearStep, ProcessStep, BlockStep
<1>6. CASE UNCHANGED winVars
  <2>1. UNCHANGED <<altgr, hooked, physDown, fakeCtrl, winQueue, osDown, winPressed, fresh,
                    overtaken, preQueue, lctl_state, withheld, winChan, held, longAgo>>
    BY <1>6 DEF winVars, winConf, winUser, hookVars, preVars, loopVars
  <2>2. Agreement'
    BY <2>1, AgreementKept DEF WinInv, KeptDown, KeptUp
  <2> QED
    BY <2>1, <2>2
    DEF WinInv, WinTypes, KeptBack, Settled, UserDowns, WindowsDowns, DownComes, KeptDown
<1> QED BY <1>1, <1>2, <1>3, <1>4, <1>5, <1>6 DEF WinNext

\* The invariant holds at the start: nothing is down and nothing on its way.
LEMMA WinStart == WinInit => WinInv
<1> SUFFICES ASSUME WinInit PROVE WinInv
  OBVIOUS
<1>1. /\ Settled /\ lctl_state = "None" /\ ~withheld /\ withheld \in BOOLEAN
      /\ hooked /\ ~longAgo /\ winQueue = <<>> /\ preQueue = <<>> /\ winChan = <<>>
      /\ held = {} /\ winPressed = {} /\ osDown = {}
      /\ altgr \in {"DoNothing", "CancelLctlPress", "AddLctlRelease"}
  BY WinHookAssumption DEF WinInit, Settled
<1>2. WinTypes /\ KeptBack
  <2>1. \A S : <<>> \in Seq(S)
    OBVIOUS
  <2> QED BY <1>1, <2>1 DEF WinTypes, KeptBack, Unsent
<1>3. \A k : /\ ~Ends(k) /\ ~EndsCleared(k) /\ ~KeptDown(k) /\ ~Through(k)
             /\ ~FirstDown(preQueue, k) /\ Turns(preQueue, k) /\ ~LeftDown(winQueue, k)
  BY <1>1, SettledMeans, EmptyIn
<1>4. Agreement
  BY <1>1, <1>3 DEF Agreement, LCtlTurns, UpAgrees, DownAgrees
<1>5. \A k \in AllKeys : UserDowns(k) /\ WindowsDowns(k)
  BY <1>1, <1>3 DEF UserDowns, WindowsDowns
<1> QED BY <1>2, <1>4, <1>5 DEF WinInv

\* What the invariant says when nothing is on its way.
LEMMA InvAgrees == WinInv => KeysAgree
<1> SUFFICES ASSUME WinInv, Settled PROVE HookAndLayoutAgree /\ NoKeyDownInWindows
  BY DEF KeysAgree
<1>1. /\ \A k : (Ends(k) <=> k \in held) /\ (Through(k) <=> k \in held)
      /\ \A k : DownComes(k) <=> k \in held
      /\ \A k : ~UpIn(winQueue, k)
  BY SettledMeans, EmptyIn DEF Settled
<1>2. HookAndLayoutAgree
  <2> SUFFICES ASSUME altgr # "AddLctlRelease"
               PROVE  held \ overtaken =
                        (IF withheld THEN winPressed \ {LCtl} ELSE winPressed) \ overtaken
    BY DEF HookAndLayoutAgree
  <2>1. held \subseteq AllKeys /\ winPressed \subseteq AllKeys
    BY DEF WinInv, WinTypes
  <2>2. LCtl \notin overtaken /\ withheld => LCtl \notin held
    BY <1>1 DEF WinInv, KeptBack, Agreement, LCtlTurns
  <2>3. ASSUME NEW k \in AllKeys, k \notin overtaken
        PROVE  /\ k \in held => k \in winPressed
               /\ k \in winPressed => k \in held \/ (k = LCtl /\ withheld)
    BY <1>1, <2>3 DEF WinInv, Agreement, UpAgrees, DownAgrees, Plain, Relaxed
  <2> QED BY <2>1, <2>2, <2>3
<1>3. NoKeyDownInWindows
  BY <1>1 DEF WinInv, WinTypes, WindowsDowns, NoKeyDownInWindows
<1> QED BY <1>2, <1>3

\* Whenever nothing is on its way between the keyboard and the layout, the hook's
\* PRESSED_KEYS and the layout agree on the keys that are down, but for a key that
\* win_synchronize_keystates has forgotten in PRESSED_KEYS while a newer press of it
\* was on its way, and no key stays down in Windows that nobody holds: for every set
\* of keys and of mapped keys, every windows-sync-keystates and any number of events,
\* through events that the hook missed, the clearing of clear_states_from_inactivity,
\* and the left control that cancel-lctl-press keeps back.  Under add-lctl-release
\* nothing is said of PRESSED_KEYS, and under cancel-lctl-press LCtl is left out of
\* PRESSED_KEYS while its press is withheld, and of what Windows has.
THEOREM HookAndLayoutStayAgreed == WinSpec => []KeysAgree
<1>1. WinSpec => []WinInv
  BY WinStart, WinStep, PTL DEF WinSpec
<1> QED BY <1>1, InvAgrees, PTL
=============================================================================
