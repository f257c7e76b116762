---------------------------- MODULE ZippyProofs ----------------------------
(***************************************************************************)
(* Zippychord lets go of the modifiers and of the keys it taps around an   *)
(* output, and comes back after it has disabled itself.  Theorems about    *)
(* ZippySystem, for every configuration and any number of presses.         *)
(***************************************************************************)
EXTENDS ZippySystem, WellFoundedInduction, FiniteSetTheorems, TLAPS

-----------------------------------------------------------------------------
(* Every non-empty set of naturals has a least element.                    *)
LEMMA LeastNatural ==
    ASSUME NEW T, T \subseteq Nat, T # {}
    PROVE  \E x \in T : \A y \in T : x <= y
<1>1. \E x \in T : \A y \in T : ~ (<<y, x>> \in OpToRel(<, Nat))
  BY NatLessThanWellFounded, WFMin, Zenon
<1>2. \E x \in T : \A y \in T : ~ (y < x)
  BY <1>1 DEF OpToRel
<1> QED BY <1>2

LEMMA MaxIs ==
    ASSUME NEW n \in Nat, NEW s \in SUBSET (1..n), n \in s
    PROVE  Max(s) = n
<1>1. \A y \in s : n >= y
  OBVIOUS
<1>2. \A x \in s : (\A y \in s : x >= y) => x = n
  OBVIOUS
<1> DEFINE IsMax(x) == x \in s /\ \A y \in s : x >= y
<1>3. IsMax(n) /\ \A x : IsMax(x) => x = n
  BY <1>1, <1>2
<1>4. Max(s) = CHOOSE x : IsMax(x)
  BY Zenon DEF Max
<1> QED BY <1>3, <1>4

-----------------------------------------------------------------------------
(* The folds of the model: the keys of an output are sent, their widths    *)
(* are added up, and a number of backspaces is tapped.  Step is what one   *)
(* element of a fold does, and Stages the function that defines the fold.  *)
Step(fold, st, e) ==
    CASE fold = "send" -> SendOut(st, e)
      [] fold = "width" -> st + e.width
      [] fold = "erase" -> OsTap(st, "bspc")
Stages(fold, g, n, st, out) ==
    g = [s \in SUBSET (1..n) |->
           IF s = {} THEN st ELSE Step(fold, g[s \ {Max(s)}], out[Max(s)])]

LEMMA StagesGrow ==
    ASSUME NEW fold, NEW st, NEW out, NEW n \in Nat, NEW m \in Nat, n = m + 1,
           NEW g, Stages(fold, g, m, st, out)
    PROVE  \E h : Stages(fold, h, n, st, out)
<1> DEFINE h == [s \in SUBSET (1..n) |->
                   IF n \in s THEN Step(fold, g[s \ {n}], out[n]) ELSE g[s]]
<1>1. ASSUME NEW s \in SUBSET (1..n), n \in s
      PROVE  h[s] = IF s = {} THEN st ELSE Step(fold, h[s \ {Max(s)}], out[Max(s)])
  <2>1. Max(s) = n /\ s # {}
    BY <1>1, MaxIs
  <2>2. s \ {n} \in SUBSET (1..n) /\ n \notin s \ {n}
    OBVIOUS
  <2>3. h[s \ {n}] = g[s \ {n}]
    BY <2>2
  <2>4. h[s] = Step(fold, g[s \ {n}], out[n])
    BY <1>1
  <2> HIDE DEF h
  <2> QED BY <2>1, <2>3, <2>4, Zenon
<1>2. ASSUME NEW s \in SUBSET (1..n), n \notin s
      PROVE  h[s] = IF s = {} THEN st ELSE Step(fold, h[s \ {Max(s)}], out[Max(s)])
  <2>1. /\ s \in SUBSET (1..m)
        /\ \A x : n \notin s \ {x} /\ s \ {x} \in SUBSET (1..n) /\ s \ {x} \in SUBSET (1..m)
    <3>1. \A y \in 1..n : y # n => y \in 1..m
      OBVIOUS
    <3>2. \A y \in s : y \in 1..m
      BY <1>2, <3>1
    <3> QED BY <1>2, <3>2, Zenon
  <2>2. h[s] = g[s] /\ h[s \ {Max(s)}] = g[s \ {Max(s)}]
    BY <1>2, <2>1
  <2>3. g[s] = IF s = {} THEN st ELSE Step(fold, g[s \ {Max(s)}], out[Max(s)])
    BY <2>1, Zenon DEF Stages
  <2> HIDE DEF h
  <2> QED BY <2>2, <2>3, Zenon
<1>3. h = [s \in SUBSET (1..n) |-> h[s]]
  OBVIOUS
<1>4. \A s \in SUBSET (1..n) :
        h[s] = IF s = {} THEN st ELSE Step(fold, h[s \ {Max(s)}], out[Max(s)])
  <2> HIDE DEF h
  <2> QED BY <1>1, <1>2, Zenon
<1>5. h = [s \in SUBSET (1..n) |->
             IF s = {} THEN st ELSE Step(fold, h[s \ {Max(s)}], out[Max(s)])]
  <2> HIDE DEF h
  <2> QED BY <1>3, <1>4, Zenon
<1>6. Stages(fold, h, n, st, out)
  <2> HIDE DEF h
  <2> QED BY <1>5, Zenon DEF Stages
<1> QED BY <1>6

LEMMA StagesExist ==
    ASSUME NEW fold, NEW st, NEW out, NEW n \in Nat
    PROVE  \E g : Stages(fold, g, n, st, out)
<1> DEFINE Missing == {m \in Nat : ~ \E g : Stages(fold, g, m, st, out)}
<1>1. \E g : Stages(fold, g, 0, st, out)
  <2> DEFINE g == [s \in SUBSET (1..0) |-> st]
  <2>1. \A s \in SUBSET (1..0) : s = {}
    OBVIOUS
  <2>2. g = [s \in SUBSET (1..0) |->
               IF s = {} THEN st ELSE Step(fold, g[s \ {Max(s)}], out[Max(s)])]
    BY <2>1
  <2>3. Stages(fold, g, 0, st, out)
    <3> HIDE DEF g
    <3> QED BY <2>2, Zenon DEF Stages
  <2> QED BY <2>3
<1>2. SUFFICES Missing = {}
  OBVIOUS
<1>3. SUFFICES ASSUME Missing # {} PROVE FALSE
  OBVIOUS
<1>4. PICK m \in Missing : \A y \in Missing : m <= y
  <2> Missing \subseteq Nat
    OBVIOUS
  <2> HIDE DEF Missing
  <2> QED BY <1>3, LeastNatural
<1>5. m \in Nat /\ m # 0
  BY <1>1, <1>4
<1>6. PICK p \in Nat : m = p + 1
  <2> m - 1 \in Nat /\ m = (m - 1) + 1
    BY <1>5
  <2> QED OBVIOUS
<1>7. p \notin Missing
  <2> HIDE DEF Missing
  <2> QED BY <1>4, <1>6
<1>8. PICK g : Stages(fold, g, p, st, out)
  BY <1>7
<1>9. \E h : Stages(fold, h, m, st, out)
  <2> HIDE DEF Missing
  <2> QED BY <1>5, <1>6, <1>8, StagesGrow
<1> QED BY <1>4, <1>9

(* A fold goes through stages: it starts from st, and each element makes   *)
(* the next stage of the one before.                                       *)
ByStages(fold, f, n, st, out) ==
    /\ f[0] = st
    /\ \A i \in 1..n : f[i] = Step(fold, f[i - 1], out[i])

LEMMA StageByStage ==
    ASSUME NEW fold, NEW st, NEW n \in Nat, NEW out, NEW g, Stages(fold, g, n, st, out)
    PROVE  \E f : ByStages(fold, f, n, st, out) /\ f[n] = g[1..n]
<1> DEFINE f == [i \in 0..n |-> g[1..i]]
<1>2. \A s \in SUBSET (1..n) :
        g[s] = IF s = {} THEN st ELSE Step(fold, g[s \ {Max(s)}], out[Max(s)])
  BY Zenon DEF Stages
<1>3. f[0] = st
  <2>1. 1..0 = {} /\ {} \in SUBSET (1..n) /\ 0 \in 0..n
    OBVIOUS
  <2>2. f[0] = g[1..0]
    BY <2>1
  <2> HIDE DEF f
  <2> QED BY <1>2, <2>1, <2>2, Zenon
<1>4. ASSUME NEW i \in 1..n PROVE f[i] = Step(fold, f[i - 1], out[i])
  <2>1. 1..i \in SUBSET (1..n) /\ i \in 1..i /\ i \in Nat /\ 1..i # {}
    OBVIOUS
  <2>2. Max(1..i) = i
    BY <2>1, MaxIs
  <2>3. (1..i) \ {i} = 1..(i - 1)
    OBVIOUS
  <2>4. f[i] = g[1..i] /\ f[i - 1] = g[1..(i - 1)]
    BY <2>1
  <2>5. g[1..i] = Step(fold, g[(1..i) \ {Max(1..i)}], out[Max(1..i)])
    BY <1>2, <2>1, Zenon
  <2> HIDE DEF f
  <2> QED BY <2>2, <2>3, <2>4, <2>5, Zenon
<1>5. f[n] = g[1..n]
  OBVIOUS
<1> HIDE DEF f
<1> QED BY <1>3, <1>4, <1>5 DEF ByStages

(* What holds of the first stage and is kept by each holds of the last.    *)
LEMMA LastStage ==
    ASSUME NEW n \in Nat, NEW f, NEW Good, f[0] \in Good,
           \A i \in 1..n : f[i - 1] \in Good => f[i] \in Good
    PROVE  f[n] \in Good
<1> DEFINE Bad == {i \in 0..n : f[i] \notin Good}
<1>1. SUFFICES ASSUME Bad # {} PROVE FALSE
  OBVIOUS
<1>2. Bad \subseteq Nat
  OBVIOUS
<1> HIDE DEF Bad
<1>3. PICK i \in Bad : \A j \in Bad : i <= j
  BY <1>1, <1>2, LeastNatural
<1>4. i \in 1..n /\ i - 1 \in 0..n /\ f[i] \notin Good
  BY <1>3 DEF Bad
<1>5. i - 1 \notin Bad
  BY <1>2, <1>3, <1>4
<1> QED BY <1>4, <1>5 DEF Bad

LEMMA SendsByStages ==
    ASSUME NEW st, NEW n \in Nat, NEW out, DOMAIN out = 1..n
    PROVE  \E f : ByStages("send", f, n, st, out) /\ f[n] = FoldLeft(SendOut, st, out)
<1> DEFINE Is(g) == g = [s \in SUBSET (1..n) |->
                          IF s = {} THEN st ELSE SendOut(g[s \ {Max(s)}], out[Max(s)])]
<1>1. \A g : Is(g) <=> Stages("send", g, n, st, out)
  BY DEF Stages, Step
<1>2. FoldLeft(SendOut, st, out) = (CHOOSE g : Is(g))[1..n]
  BY DEF FoldLeft, MapThenFoldSet
<1>3. \E g : Is(g)
  <2> HIDE DEF Is
  <2> QED BY <1>1, StagesExist
<1> DEFINE G == CHOOSE g : Is(g)
<1>4. Is(G)
  <2> HIDE DEF Is
  <2> QED BY <1>3, Zenon
<1>5. FoldLeft(SendOut, st, out) = G[1..n]
  BY <1>2, Zenon
<1> HIDE DEF Is, G
<1>6. Stages("send", G, n, st, out)
  BY <1>1, <1>4
<1>7. \E f : ByStages("send", f, n, st, out) /\ f[n] = G[1..n]
  BY <1>6, StageByStage
<1> QED BY <1>5, <1>7, Zenon

LEMMA WidthByStages ==
    ASSUME NEW n \in Nat, NEW out, DOMAIN out = 1..n
    PROVE  \E f : ByStages("width", f, n, 0, out) /\ f[n] = Width(out)
<1> DEFINE Is(g) == g = [s \in SUBSET (1..n) |->
                          IF s = {} THEN 0 ELSE g[s \ {Max(s)}] + out[Max(s)].width]
<1>1. \A g : Is(g) <=> Stages("width", g, n, 0, out)
  BY DEF Stages, Step
<1>2. Width(out) = (CHOOSE g : Is(g))[1..n]
  BY DEF Width, FoldLeft, MapThenFoldSet
<1>3. \E g : Is(g)
  <2> HIDE DEF Is
  <2> QED BY <1>1, StagesExist
<1> DEFINE G == CHOOSE g : Is(g)
<1>4. Is(G)
  <2> HIDE DEF Is
  <2> QED BY <1>3, Zenon
<1>5. Width(out) = G[1..n]
  BY <1>2, Zenon
<1> HIDE DEF Is, G
<1>6. Stages("width", G, n, 0, out)
  BY <1>1, <1>4
<1>7. \E f : ByStages("width", f, n, 0, out) /\ f[n] = G[1..n]
  BY <1>6, StageByStage
<1> QED BY <1>5, <1>7, Zenon

LEMMA BackspacesByStages ==
    ASSUME NEW st, NEW n \in Nat
    PROVE  \E f : /\ ByStages("erase", f, n, st, [i \in 1..n |-> i])
                  /\ f[n] = Backspaces(st, n)
<1> DEFINE out == [i \in 1..n |-> i]
           Is(g) == g = [s \in SUBSET (1..n) |->
                          IF s = {} THEN st ELSE OsTap(g[s \ {Max(s)}], "bspc")]
<1>1. \A g : Is(g) <=> Stages("erase", g, n, st, out)
  <2> HIDE DEF out
  <2> QED BY DEF Stages, Step
<1>2. Backspaces(st, n) = (CHOOSE g : Is(g))[1..n]
  <2>1. DOMAIN out = 1..n
    OBVIOUS
  <2>2. Backspaces(st, n) = FoldLeft(LAMBDA o, i : OsTap(o, "bspc"), st, out)
    BY DEF Backspaces
  <2> HIDE DEF out
  <2>3. FoldLeft(LAMBDA o, i : OsTap(o, "bspc"), st, out) = (CHOOSE g : Is(g))[1..n]
    BY <2>1 DEF FoldLeft, MapThenFoldSet
  <2> HIDE DEF Is
  <2> QED BY <2>2, <2>3
<1> HIDE DEF out
<1>3. \E g : Is(g)
  <2> HIDE DEF Is
  <2> QED BY <1>1, StagesExist
<1> DEFINE G == CHOOSE g : Is(g)
<1>4. Is(G)
  <2> HIDE DEF Is
  <2> QED BY <1>3, Zenon
<1>5. Backspaces(st, n) = G[1..n]
  <2> HIDE DEF Is
  <2> QED BY <1>2, Zenon
<1> HIDE DEF Is, G
<1>6. Stages("erase", G, n, st, out)
  BY <1>1, <1>4
<1>7. \E f : ByStages("erase", f, n, st, out) /\ f[n] = G[1..n]
  BY <1>6, StageByStage
<1> QED BY <1>5, <1>7, Zenon DEF out

-----------------------------------------------------------------------------
(* The OS keyboard, with keys of P down.                                   *)
OsRecord(P) ==
    [down : SUBSET P, text : Seq(Chars \X BOOLEAN \X BOOLEAN), erased : Nat]

LEMMA TypeType ==
    ASSUME NEW P, NEW o \in OsRecord(P), NEW k
    PROVE  Type(o, k) \in OsRecord(P) /\ Type(o, k).down = o.down
<1>1. CASE k = "bspc"
  <2>1. ASSUME o.text # <<>>
        PROVE  Front(o.text) \in Seq(Chars \X BOOLEAN \X BOOLEAN)
    BY <2>1 DEF Front, OsRecord
  <2> QED BY <1>1, <2>1 DEF Type, Erase, OsRecord
<1>2. CASE k # "bspc"
  <2>1. ASSUME k \in Chars PROVE CharOf(o, k) \in Chars \X BOOLEAN \X BOOLEAN
    <3>1. PICK upper \in BOOLEAN : upper = ((o.down \cap Shifts) # {})
      BY Zenon
    <3> DEFINE altgr == "ralt" \in o.down
    <3>2. PICK third \in BOOLEAN : third = altgr
      <4>1. altgr \in BOOLEAN
        OBVIOUS
      <4> HIDE DEF altgr
      <4> QED BY <4>1, Zenon
    <3>3. CharOf(o, k) = <<k, upper, third>>
      BY <3>1, <3>2, Zenon DEF CharOf, altgr
    <3> QED BY <2>1, <3>3
  <2>2. ASSUME k \in Chars
        PROVE  Append(o.text, CharOf(o, k)) \in Seq(Chars \X BOOLEAN \X BOOLEAN)
    <3> HIDE DEF CharOf
    <3> QED BY <2>1, <2>2 DEF OsRecord
  <2> QED BY <1>2, <2>2 DEF Type, OsRecord
<1> QED BY <1>1, <1>2

LEMMA PressedIn ==
    ASSUME NEW P, NEW o \in OsRecord(P), NEW k
    PROVE  OsPress(o, k) \in OsRecord(P \cup {k}) /\ OsPress(o, k).down = o.down \cup {k}
<1>1. Type(o, k) \in OsRecord(P) /\ Type(o, k).down = o.down
  BY TypeType
<1> QED BY <1>1 DEF OsPress, OsRecord

LEMMA ReleasedIn ==
    ASSUME NEW P, NEW k, NEW o \in OsRecord(P \cup {k})
    PROVE  /\ OsRelease(o, k) \in OsRecord(P) /\ OsRelease(o, k).down = o.down \ {k}
           /\ OsRelease(o, k) \in OsRecord(P \ {k})
BY DEF OsRelease, OsRecord

LEMMA TappedIn ==
    ASSUME NEW P, NEW o \in OsRecord(P), NEW k
    PROVE  OsTap(o, k) \in OsRecord(P) /\ OsTap(o, k).down = o.down \ {k}
<1> DEFINE p == OsPress(o, k)
<1>1. p \in OsRecord(P \cup {k}) /\ p.down = o.down \cup {k}
  BY PressedIn
<1> HIDE DEF p
<1>2. OsRelease(p, k) \in OsRecord(P) /\ OsRelease(p, k).down = p.down \ {k}
  BY <1>1, ReleasedIn
<1> QED BY <1>1, <1>2 DEF OsTap, p

LEMMA MoreMayBeDown ==
    ASSUME NEW P, NEW Q, P \subseteq Q
    PROVE  OsRecord(P) \subseteq OsRecord(Q)
BY DEF OsRecord

(* Whatever an output types, no key stays down that was not allowed to be. *)
LEMMA OscIn ==
    ASSUME NEW P, NEW o \in OsRecord(P), NEW q, q.keys \subseteq P, NEW k
    PROVE  TypeOsc(o, q, k) \in OsRecord(P)
<1>1. CASE k \in q.keys
  <2>1. P \cup {k} = P
    BY <1>1
  <2>2. OsRelease(o, k) \in OsRecord(P)
    BY <2>1, ReleasedIn
  <2>3. OsPress(OsRelease(o, k), k) \in OsRecord(P)
    BY <2>1, <2>2, PressedIn
  <2> QED BY <1>1, <2>3 DEF TypeOsc
<1>2. CASE k \notin q.keys
  BY <1>2, TappedIn DEF TypeOsc
<1> QED BY <1>1, <1>2

LEMMA ShiftedIn ==
    ASSUME NEW P, NEW o \in OsRecord(P), NEW q, q.keys \subseteq P, NEW k, NEW need \in BOOLEAN
    PROVE  WithShift(o, q, k, need) \in OsRecord(P)
<1>1. CASE need
  <2>1. OsPress(o, "lsft") \in OsRecord(P \cup {"lsft"})
    BY PressedIn
  <2>2. TypeOsc(OsPress(o, "lsft"), q, k) \in OsRecord(P \cup {"lsft"})
    BY <2>1, OscIn
  <2>3. OsRelease(TypeOsc(OsPress(o, "lsft"), q, k), "lsft") \in OsRecord(P)
    BY <2>2, ReleasedIn
  <2> QED BY <1>1, <2>3 DEF WithShift
<1>2. CASE ~need
  BY <1>2, OscIn DEF WithShift
<1> QED BY <1>1, <1>2

LEMMA OutIn ==
    ASSUME NEW P, NEW o \in OsRecord(P), NEW q, q.keys \subseteq P, NEW e \in OutputKey,
           NEW released
    PROVE  TypeOut(o, q, e, released) \in OsRecord(P)
<1>1. ASSUME NEW Q, P \subseteq Q, NEW p \in OsRecord(Q)
      PROVE  TypeUp(p, q, e, released) \in OsRecord(Q)
  <2> DEFINE need == e.up /\ NeedsShift(q, released)
  <2>1. need \in BOOLEAN /\ q.keys \subseteq Q
    BY <1>1
  <2> HIDE DEF need
  <2>2. WithShift(p, q, e.key, need) \in OsRecord(Q)
    BY <2>1, ShiftedIn
  <2> QED BY <2>2 DEF TypeUp, need
<1>2. CASE e.altgr
  <2>1. OsPress(o, "ralt") \in OsRecord(P \cup {"ralt"})
    BY PressedIn
  <2>2. TypeUp(OsPress(o, "ralt"), q, e, released) \in OsRecord(P \cup {"ralt"})
    BY <1>1, <2>1
  <2>3. OsRelease(TypeUp(OsPress(o, "ralt"), q, e, released), "ralt") \in OsRecord(P)
    BY <2>2, ReleasedIn
  <2> QED BY <1>2, <2>3 DEF TypeOut
<1>3. CASE ~e.altgr
  BY <1>1, <1>3 DEF TypeOut
<1> QED BY <1>2, <1>3

LEMMA LetGoIn ==
    ASSUME NEW P, NEW o \in OsRecord(P), NEW q, NEW released
    PROVE  LetGoOfShift(o, q, released) \in OsRecord(P)
BY DEF LetGoOfShift, OsRecord

-----------------------------------------------------------------------------
(* The record of zippychord while the keys of P are held.                  *)
ZchRecord(P) ==
    [keys : SUBSET (P \ Ignored), state : {"Enabled", "Disabled", "WaitEnable"},
     prio : SUBSET ZippyChords, priorCount : Int, toDelete : Int, prior : Seq(OutputKey),
     since : Nat, untilEnabled : Nat, untilDisable : Nat, holdCount : Nat,
     caps : BOOLEAN, lsft : BOOLEAN, rsft : BOOLEAN, altgr : BOOLEAN,
     isChord : BOOLEAN, spaceSent : BOOLEAN]

(* What an output leaves as it was.                                        *)
Agree(r, q) ==
    /\ r.keys = q.keys /\ r.state = q.state
    /\ r.untilEnabled = q.untilEnabled /\ r.untilDisable = q.untilDisable
    /\ r.caps = q.caps /\ r.lsft = q.lsft /\ r.rsft = q.rsft /\ r.altgr = q.altgr

(* What sending an output works on.                                        *)
Working(P) == [z : ZchRecord(P), os : OsRecord(P), released : BOOLEAN]

LEMMA SendOutIn ==
    ASSUME NEW P, NEW st \in Working(P), NEW e \in OutputKey
    PROVE  SendOut(st, e) \in Working(P) /\ Agree(SendOut(st, e).z, st.z)
<1> DEFINE o == LetGoOfShift(TypeOut(st.os, st.z, e, st.released), st.z, st.released)
           done == ~st.z.caps \/ st.released
           r == SendOut(st, e)
<1>1. o \in OsRecord(P)
  <2>1. st.os \in OsRecord(P) /\ st.z.keys \subseteq P
    BY DEF Working, ZchRecord
  <2>2. TypeOut(st.os, st.z, e, st.released) \in OsRecord(P)
    BY <2>1, OutIn
  <2> QED BY <2>2, LetGoIn
<1>2. done \in BOOLEAN
  OBVIOUS
<1>3. r = [st EXCEPT !.os = o, !.released = done, !.z.toDelete = @ + e.width]
  BY DEF SendOut, Working
<1> HIDE DEF o, done, r
<1>4. st.z.toDelete + e.width \in Int
  BY DEF Working, ZchRecord, OutputKey
<1>5. r.os = o /\ r.released = done /\ r = [z |-> r.z, os |-> r.os, released |-> r.released]
  BY <1>3 DEF Working
<1>6. r.z = [st.z EXCEPT !.toDelete = st.z.toDelete + e.width]
  BY <1>3 DEF Working
<1>7. r.z \in ZchRecord(P) /\ Agree(r.z, st.z)
  BY <1>4, <1>6 DEF Working, ZchRecord, Agree
<1>8. r \in Working(P)
  <2> HIDE DEF ZchRecord, OsRecord
  <2> QED BY <1>1, <1>2, <1>5, <1>7 DEF Working
<1> QED BY <1>7, <1>8 DEF r

LEMMA AgreeTrans == ASSUME NEW r, NEW q, NEW p, Agree(r, q), Agree(q, p) PROVE Agree(r, p)
BY DEF Agree

LEMMA SentIn ==
    ASSUME NEW P, NEW st \in Working(P), NEW out \in Seq(OutputKey)
    PROVE  /\ FoldLeft(SendOut, st, out) \in Working(P)
           /\ Agree(FoldLeft(SendOut, st, out).z, st.z)
<1> DEFINE n == Len(out)
<1>1. n \in Nat /\ DOMAIN out = 1..n
  OBVIOUS
<1> HIDE DEF n
<1>2. PICK f : ByStages("send", f, n, st, out) /\ f[n] = FoldLeft(SendOut, st, out)
  BY <1>1, SendsByStages
<1> DEFINE Good == {w \in Working(P) : Agree(w.z, st.z)}
<1>3. f[0] \in Good
  BY <1>2 DEF ByStages, Agree
<1>4. ASSUME NEW i \in 1..n, f[i - 1] \in Good PROVE f[i] \in Good
  <2>1. f[i] = SendOut(f[i - 1], out[i]) /\ out[i] \in OutputKey
    BY <1>1, <1>2 DEF ByStages, Step
  <2>2. f[i] \in Working(P) /\ Agree(f[i].z, f[i - 1].z)
    BY <1>4, <2>1, SendOutIn
  <2> QED BY <1>4, <2>2, AgreeTrans
<1>5. f[n] \in Good
  <2> HIDE DEF Good
  <2> QED BY <1>1, <1>3, <1>4, LastStage
<1> QED BY <1>2, <1>5

LEMMA WidthType ==
    ASSUME NEW out \in Seq(OutputKey)
    PROVE  Width(out) \in Int
<1> DEFINE n == Len(out)
<1>1. n \in Nat /\ DOMAIN out = 1..n
  OBVIOUS
<1> HIDE DEF n
<1>2. PICK f : ByStages("width", f, n, 0, out) /\ f[n] = Width(out)
  BY <1>1, WidthByStages
<1>3. f[0] \in Int
  BY <1>2 DEF ByStages
<1>4. ASSUME NEW i \in 1..n, f[i - 1] \in Int PROVE f[i] \in Int
  <2>1. f[i] = f[i - 1] + out[i].width /\ out[i] \in OutputKey
    BY <1>1, <1>2 DEF ByStages, Step
  <2> QED BY <1>4, <2>1 DEF OutputKey
<1> QED BY <1>1, <1>2, <1>3, <1>4, LastStage

(* Backspaces leave the keys that are down, save backspace itself.         *)
LEMMA ErasedIn ==
    ASSUME NEW P, NEW o \in OsRecord(P), NEW n \in Int
    PROVE  Backspaces(o, n) \in OsRecord(P)
<1>1. PICK m \in Nat : 1..n = 1..m
  <2>1. CASE n \in Nat
    BY <2>1
  <2>2. CASE n \notin Nat
    <3>1. 1..n = 1..0
      BY <2>2
    <3> QED BY <3>1
  <2> QED BY <2>1, <2>2
<1>2. Backspaces(o, n) = Backspaces(o, m)
  BY <1>1, Zenon DEF Backspaces
<1>3. PICK f : /\ ByStages("erase", f, m, o, [i \in 1..m |-> i])
               /\ f[m] = Backspaces(o, m)
  BY BackspacesByStages
<1>4. f[0] \in OsRecord(P)
  BY <1>3 DEF ByStages
<1>5. ASSUME NEW i \in 1..m, f[i - 1] \in OsRecord(P) PROVE f[i] \in OsRecord(P)
  <2>1. f[i] = OsTap(f[i - 1], "bspc")
    BY <1>3 DEF ByStages, Step
  <2> QED BY <1>5, <2>1, TappedIn
<1>6. f[m] \in OsRecord(P)
  BY <1>4, <1>5, LastStage
<1> QED BY <1>2, <1>3, <1>6

(* The common beginning of two outputs is no longer than the second.       *)
LEMMA CommonPrefixRange ==
    ASSUME NEW past \in Seq(OutputKey), NEW current \in Seq(OutputKey)
    PROVE  CommonPrefix(past, current) \in 0..Len(current)
<1> DEFINE n == IF Len(past) < Len(current) THEN Len(past) ELSE Len(current)
           differ == {i \in 1..n : ~Alike(past[i], current[i])}
           first == CHOOSE i \in differ : \A j \in differ : i <= j
<1>1. n \in 0..Len(current) /\ differ \subseteq 1..n /\ Len(current) \in Nat
  OBVIOUS
<1>2. ASSUME differ # {} PROVE first \in differ
  <2>1. differ \subseteq Nat
    OBVIOUS
  <2> HIDE DEF differ
  <2>2. \E i \in differ : \A j \in differ : i <= j
    BY <1>2, <2>1, LeastNatural
  <2> QED BY <2>2
<1>3. CommonPrefix(past, current) = IF differ = {} THEN n ELSE first - 1
  BY Zenon DEF CommonPrefix
<1>4. CASE differ = {}
  <2> HIDE DEF n, differ, first
  <2> QED BY <1>1, <1>3, <1>4
<1>5. CASE differ # {}
  <2>1. first \in 1..n
    <3> HIDE DEF n, differ, first
    <3> QED BY <1>1, <1>2, <1>5
  <2>2. n \in Nat /\ n <= Len(current)
    BY <1>1
  <2> HIDE DEF n, differ, first
  <2>3. first - 1 \in 0..Len(current)
    BY <1>1, <2>1, <2>2
  <2> QED BY <1>3, <1>5, <2>3
<1> QED BY <1>4, <1>5

-----------------------------------------------------------------------------
(* A chord comes about.                                                    *)
LEMMA SmartSpaceIn ==
    ASSUME NEW c, NEW P, NEW st \in Working(P), NEW out
    PROVE  SmartSpace(c, st, out) \in Working(P) /\ Agree(SmartSpace(c, st, out).z, st.z)
<1> DEFINE full == c.smart = "full" \/ st.z.spaceSent
           count == st.z.priorCount + 1
           del == st.z.toDelete + 1
           q == [st.z EXCEPT !.spaceSent = full, !.priorCount = count, !.toDelete = del]
           o == OsTap(st.os, "spc")
           r == [st EXCEPT !.z.spaceSent = full, !.z.priorCount = count, !.z.toDelete = del,
                           !.os = o]
<1>1. o \in OsRecord(P)
  BY TappedIn DEF Working
<1>2. full \in BOOLEAN /\ count \in Int /\ del \in Int
  BY DEF Working, ZchRecord
<1>3. SmartSpace(c, st, out) = st \/ SmartSpace(c, st, out) = r
  BY DEF SmartSpace, Working
<1> HIDE DEF full, count, del, o
<1>4. r.z = q
  BY DEF Working
<1>5. q \in ZchRecord(P) /\ Agree(q, st.z)
  BY <1>2 DEF Working, ZchRecord, Agree
<1>6. r \in Working(P) /\ Agree(r.z, st.z)
  <2>1. r \in Working(P)
    BY <1>1, <1>5 DEF Working
  <2> HIDE DEF q, r
  <2> QED BY <1>4, <1>5, <2>1
<1>7. Agree(st.z, st.z)
  BY DEF Agree
<1> QED BY <1>3, <1>6, <1>7

(* The modifiers zippychord knows to be held.                              *)
Modifiers(q) == HeldShifts(q) \cup (IF q.altgr THEN {"ralt"} ELSE {})

LEMMA HoldAgainIn ==
    ASSUME NEW P, NEW st \in Working(P), NEW out, st.z.caps = FALSE, Modifiers(st.z) \subseteq P,
           out = <<>> => Modifiers(st.z) \subseteq st.os.down
    PROVE  LET r == HoldAgain(st, out)
           IN  /\ r \in Working(P) /\ Agree(r.z, st.z)
               /\ Modifiers(r.z) \subseteq r.os.down
               /\ r.z.isChord = TRUE
<1> DEFINE mods == HeldShifts(st.z) \cup (IF st.z.altgr /\ out # <<>> THEN {"ralt"} ELSE {})
           r == [st EXCEPT !.os.down = @ \cup mods, !.z.isChord = TRUE]
<1>1. HoldAgain(st, out) = r
  BY DEF HoldAgain, Working
<1>2. mods \subseteq P /\ Modifiers(st.z) \subseteq st.os.down \cup mods
  BY DEF Modifiers
<1> HIDE DEF mods
<1>8. r.os = [st.os EXCEPT !.down = @ \cup mods]
  BY DEF Working
<1>9. r.z = [st.z EXCEPT !.isChord = TRUE]
  BY DEF Working
<1>4. r.os \in OsRecord(P) /\ r.os.down = st.os.down \cup mods
  BY <1>2, <1>8 DEF Working, OsRecord
<1>5. r.z \in ZchRecord(P) /\ Agree(r.z, st.z) /\ r.z.isChord = TRUE
  BY <1>9 DEF Working, ZchRecord, Agree
<1>6. r \in Working(P)
  <2>1. [st.z EXCEPT !.isChord = TRUE] \in ZchRecord(P)
    BY <1>5, <1>9, Zenon
  <2>2. [st.os EXCEPT !.down = @ \cup mods] \in OsRecord(P)
    BY <1>4, <1>8, Zenon
  <2> QED BY <2>1, <2>2 DEF Working
<1> HIDE DEF r
<1>7. Modifiers(r.z) = Modifiers(st.z)
  BY <1>5 DEF Agree, Modifiers, HeldShifts
<1> QED BY <1>1, <1>2, <1>4, <1>5, <1>6, <1>7

LEMMA SendKeysIn ==
    ASSUME NEW c, NEW P, NEW st \in Working(P), NEW out \in Seq(OutputKey),
           NEW from \in 0..Len(out), st.z.caps = FALSE, Modifiers(st.z) \subseteq P,
           out = <<>> => Modifiers(st.z) \subseteq st.os.down
    PROVE  LET r == SendKeys(c, st, out, from)
           IN  /\ r \in Working(P) /\ Agree(r.z, st.z)
               /\ Modifiers(r.z) \subseteq r.os.down
               /\ r.z.isChord = TRUE
<1> DEFINE rest == SubSeq(out, from + 1, Len(out))
           sent == FoldLeft(SendOut, st, rest)
           spaced == SmartSpace(c, sent, out)
<1>1. rest \in Seq(OutputKey) /\ (out = <<>> => DOMAIN rest = 1..0)
  OBVIOUS
<1> HIDE DEF rest
<1>2. sent \in Working(P) /\ Agree(sent.z, st.z)
  BY <1>1, SentIn
<1>3. out = <<>> => sent = st
  <2>1. ASSUME out = <<>>
        PROVE  \E f : ByStages("send", f, 0, st, rest) /\ f[0] = FoldLeft(SendOut, st, rest)
    BY <1>1, <2>1, SendsByStages
  <2> QED BY <2>1 DEF ByStages
<1> HIDE DEF sent
<1>4. spaced \in Working(P) /\ Agree(spaced.z, sent.z) /\ (out = <<>> => spaced = sent)
  BY <1>2, SmartSpaceIn DEF SmartSpace
<1> HIDE DEF spaced
<1>5. Agree(spaced.z, st.z)
  BY <1>2, <1>4, AgreeTrans
<1>6. spaced.z.caps = FALSE /\ Modifiers(spaced.z) = Modifiers(st.z)
  BY <1>5 DEF Agree, Modifiers, HeldShifts
<1>7. out = <<>> => Modifiers(spaced.z) \subseteq spaced.os.down
  BY <1>3, <1>4
<1> DEFINE r == HoldAgain(spaced, out)
<1>8. /\ r \in Working(P) /\ Agree(r.z, spaced.z) /\ Modifiers(r.z) \subseteq r.os.down
      /\ r.z.isChord = TRUE
  BY <1>4, <1>6, <1>7, HoldAgainIn
<1>9. SendKeys(c, st, out, from) = r
  BY DEF SendKeys, spaced, sent, rest
<1> HIDE DEF r
<1> QED BY <1>5, <1>8, <1>9, AgreeTrans

-----------------------------------------------------------------------------
(* Zippychord and the OS keyboard while the keys of P are held: what is    *)
(* down is held, and the modifiers zippychord knows of are down.           *)
ZippyRecord(P) == [z : ZchRecord(P), os : OsRecord(P)]
Uncapped(q) == q.caps = FALSE
Served(s, P) ==
    /\ s \in ZippyRecord(P)
    /\ Uncapped(s.z) /\ Modifiers(s.z) \subseteq s.os.down

IsConfig(c) ==
    /\ c.deadline \in Nat /\ c.wait \in Nat
    /\ c.chords \subseteq ZippyChords

LEMMA ActivatedIn ==
    ASSUME NEW c, IsConfig(c), NEW P, NEW q \in ZchRecord(P), NEW chord \in ZippyChords
    PROVE  LET r == Activated(c, q, chord)
           IN  /\ r \in ZchRecord(P)
               /\ r.keys = q.keys /\ r.state = q.state /\ r.untilEnabled = q.untilEnabled
               /\ r.caps = q.caps /\ Modifiers(r) = Modifiers(q)
<1>1. c.deadline \in Nat /\ chord.out \in Seq(OutputKey) /\ chord.then \subseteq ZippyChords
  BY ZippyChordsAssumption DEF IsConfig
<1> DEFINE held == q.holdCount + 1
<1>2. held \in Nat
  BY DEF ZchRecord
<1>3. Activated(c, q, chord)
      = [q EXCEPT !.prior = chord.out, !.holdCount = held, !.untilDisable = c.deadline,
                  !.prio = chord.then]
  BY Zenon DEF Activated
<1> HIDE DEF held
<1>4. Activated(c, q, chord) \in ZchRecord(P)
  BY <1>1, <1>2, <1>3 DEF ZchRecord
<1> QED BY <1>3, <1>4 DEF ZchRecord, Modifiers, HeldShifts

LEMMA EraseTypedIn ==
    ASSUME NEW c, NEW P, IsFiniteSet(P), NEW k \in P, NEW q \in ZchRecord(P),
           NEW o \in OsRecord(P), NEW chord \in ZippyChords, NEW followup \in BOOLEAN,
           NEW common \in Int, Modifiers(q) \subseteq o.down
    PROVE  LET r == EraseTyped(c, q, o, chord, k, followup, common)
           IN  /\ r \in Working(P) /\ Agree(r.z, q)
               /\ chord.out = <<>> => Modifiers(r.z) \subseteq r.os.down
<1>1. chord.out \in Seq(OutputKey)
  BY ZippyChordsAssumption
<1>2. CASE chord.out = <<>>
  <2> DEFINE del == q.toDelete + 1
             count == q.priorCount + Cardinality(q.keys)
             qq == [q EXCEPT !.toDelete = del, !.priorCount = count]
             oo == OsPress(o, k)
  <2>1. del \in Int /\ count \in Int
    <3>1. IsFiniteSet(q.keys)
      BY FS_Subset DEF ZchRecord
    <3>2. Cardinality(q.keys) \in Nat
      BY <3>1, FS_CardinalityType
    <3> QED BY <3>2 DEF ZchRecord
  <2>2. oo \in OsRecord(P) /\ o.down \subseteq oo.down
    <3>1. P \cup {k} = P
      OBVIOUS
    <3> QED BY <3>1, PressedIn
  <2> HIDE DEF del, count, oo
  <2>3. qq \in ZchRecord(P) /\ Agree(qq, q)
    BY <2>1 DEF ZchRecord, Agree
  <2>4. EraseTyped(c, q, o, chord, k, followup, common) = [z |-> qq, os |-> oo, released |-> FALSE]
    BY <1>2, Zenon DEF EraseTyped, del, count, oo
  <2> HIDE DEF qq
  <2>5. Modifiers(qq) = Modifiers(q)
    BY <2>3 DEF Agree, Modifiers, HeldShifts
  <2> QED BY <2>2, <2>3, <2>4, <2>5 DEF Working
<1>3. CASE chord.out # <<>>
  <2> DEFINE w == Width(chord.out)
             n == q.toDelete + (IF followup THEN q.priorCount ELSE 0) - common
             qq == [q EXCEPT !.toDelete = 0, !.priorCount = w]
             oo == LetGoOfAltgr(Backspaces(o, n), q, chord.out)
  <2>1. w \in Int
    BY <1>1, WidthType
  <2>2. n \in Int
    BY DEF ZchRecord
  <2> HIDE DEF n, w
  <2>3. Backspaces(o, n) \in OsRecord(P)
    BY <2>2, ErasedIn
  <2>4. oo \in OsRecord(P)
    <3>1. Backspaces(o, n) \in OsRecord(P \cup {"ralt"})
      BY <2>3, MoreMayBeDown
    <3>2. OsRelease(Backspaces(o, n), "ralt") \in OsRecord(P)
      BY <3>1, ReleasedIn
    <3> QED BY <2>3, <3>2 DEF LetGoOfAltgr
  <2>5. qq \in ZchRecord(P) /\ Agree(qq, q)
    <3>3. PICK none \in Int : none = 0
      OBVIOUS
    <3>1. [q EXCEPT !.toDelete = none, !.priorCount = w] \in ZchRecord(P)
      BY <2>1 DEF ZchRecord
    <3>2. Agree(qq, q)
      BY DEF ZchRecord, Agree
    <3> QED BY <3>1, <3>2, <3>3, Zenon
  <2>6. EraseTyped(c, q, o, chord, k, followup, common) = [z |-> qq, os |-> oo, released |-> FALSE]
    BY <1>3, Zenon DEF EraseTyped, n, w
  <2> HIDE DEF qq, oo
  <2> QED BY <1>3, <2>4, <2>5, <2>6 DEF Working
<1> QED BY <1>2, <1>3

(* A chord comes about: only keys that are held are down, and the          *)
(* modifiers are.                                                          *)
LEMMA ActivateIn ==
    ASSUME NEW c, IsConfig(c), NEW P, IsFiniteSet(P), NEW k \in P, NEW q \in ZchRecord(P),
           NEW o \in OsRecord(P), NEW chord \in ZippyChords, NEW followup \in BOOLEAN,
           Uncapped(q), Modifiers(q) \subseteq o.down
    PROVE  LET r == Activate(c, q, o, chord, k, followup)
           IN  /\ Served(r, P)
               /\ r.z.keys = q.keys /\ r.z.state = q.state
               /\ r.z.untilEnabled = q.untilEnabled
<1>1. chord.out \in Seq(OutputKey)
  BY ZippyChordsAssumption
<1> DEFINE common == Common(q, chord, followup)
           a == Activated(c, q, chord)
           e == EraseTyped(c, a, o, chord, k, followup, common)
           st == SendKeys(c, e, chord.out, common)
<1>2. common \in 0..Len(chord.out) /\ common \in Int
  <2>1. CommonPrefix(q.prior, chord.out) \in 0..Len(chord.out)
    BY <1>1, CommonPrefixRange DEF ZchRecord
  <2>2. 0 \in 0..Len(chord.out)
    BY <1>1
  <2> QED BY <2>1, <2>2 DEF Common
<1>3. /\ a \in ZchRecord(P) /\ a.keys = q.keys /\ a.state = q.state
      /\ a.untilEnabled = q.untilEnabled
      /\ a.caps = FALSE /\ Modifiers(a) = Modifiers(q)
  BY ActivatedIn DEF Uncapped
<1>7. Activate(c, q, o, chord, k, followup) = [z |-> st.z, os |-> st.os]
  BY Zenon DEF Activate
<1> HIDE DEF common, a
<1>4. /\ e \in Working(P) /\ Agree(e.z, a)
      /\ chord.out = <<>> => Modifiers(e.z) \subseteq e.os.down
  BY <1>2, <1>3, EraseTypedIn
<1> HIDE DEF e
<1>5. e.z.caps = FALSE /\ Modifiers(e.z) \subseteq P
  BY <1>3, <1>4 DEF Agree, Modifiers, HeldShifts, OsRecord
<1>6. st \in Working(P) /\ Agree(st.z, e.z) /\ Modifiers(st.z) \subseteq st.os.down
  BY <1>1, <1>2, <1>4, <1>5, SendKeysIn
<1> HIDE DEF st
<1>8. st.z \in ZchRecord(P) /\ st.os \in OsRecord(P)
  BY <1>6 DEF Working
<1> QED BY <1>3, <1>4, <1>5, <1>6, <1>7, <1>8 DEF Agree, Served, Uncapped, ZippyRecord

-----------------------------------------------------------------------------
(* Resets and time.                                                        *)
LEMMA HistoryType ==
    ASSUME NEW P, NEW q \in ZchRecord(P), NEW del \in Int, NEW count \in Int,
           NEW prio \in SUBSET ZippyChords, NEW past \in Seq(OutputKey)
    PROVE  [q EXCEPT !.toDelete = del, !.prio = prio, !.prior = past, !.priorCount = count]
           \in ZchRecord(P)
BY DEF ZchRecord

LEMMA ClearedType ==
    ASSUME NEW P, NEW q \in ZchRecord(P)
    PROVE  ClearHistory(q) \in ZchRecord(P) /\ Agree(ClearHistory(q), q)
           /\ ClearHistory(q).isChord = q.isChord
<1>1. <<>> \in Seq(OutputKey)
  OBVIOUS
<1>2. ClearHistory(q) \in ZchRecord(P)
  <2>1. 0 \in Int /\ {} \in SUBSET ZippyChords
    OBVIOUS
  <2> HIDE DEF ZchRecord
  <2>2. [q EXCEPT !.toDelete = 0, !.prio = {}, !.prior = <<>>, !.priorCount = 0] \in ZchRecord(P)
     BY <1>1, <2>1, HistoryType, Zenon
  <2> QED BY <2>2, Zenon DEF ClearHistory, NoPrior
<1> QED BY <1>2 DEF ClearHistory, ZchRecord, Agree

Stopped(q, state, none, zero, no) ==
    [q EXCEPT !.isChord = no, !.state = state, !.keys = none, !.since = zero,
              !.untilDisable = zero, !.untilEnabled = zero, !.spaceSent = no]

LEMMA StoppedType ==
    ASSUME NEW P, NEW q \in ZchRecord(P), NEW state \in {"Enabled", "Disabled", "WaitEnable"},
           NEW none \in SUBSET (P \ Ignored), NEW zero \in Nat, NEW no \in BOOLEAN
    PROVE  Stopped(q, state, none, zero, no) \in ZchRecord(P)
BY DEF ZchRecord, Stopped

LEMMA SoftResetType ==
    ASSUME NEW P, NEW q \in ZchRecord(P)
    PROVE  LET r == SoftReset(q)
           IN  /\ r \in ZchRecord(P)
               /\ r.keys = {} /\ r.state = "Disabled" /\ r.isChord = FALSE
               /\ r.untilDisable = 0
               /\ r.caps = q.caps /\ Modifiers(r) = Modifiers(q)
<1> DEFINE h == ClearHistory(q)
<1>1. h \in ZchRecord(P) /\ Agree(h, q)
  BY ClearedType
<1>2. SoftReset(q) = [h EXCEPT !.isChord = FALSE, !.state = "Disabled", !.keys = {}, !.since = 0,
                            !.untilDisable = 0, !.untilEnabled = 0, !.spaceSent = FALSE]
  BY Zenon DEF SoftReset
<1> HIDE DEF h
<1>3. 0 \in Nat /\ FALSE \in BOOLEAN /\ {} \in SUBSET (P \ Ignored)
      /\ "Disabled" \in {"Enabled", "Disabled", "WaitEnable"}
  OBVIOUS
<1>4. SoftReset(q) \in ZchRecord(P)
  <2>1. Stopped(h, "Disabled", {}, 0, FALSE) \in ZchRecord(P)
    BY <1>1, <1>3, StoppedType
  <2> QED BY <1>2, <2>1, Zenon DEF Stopped
<1> DEFINE r == SoftReset(q)
<1>5. r.keys = {} /\ r.state = "Disabled" /\ r.isChord = FALSE /\ r.untilDisable = 0
  BY <1>1, <1>2 DEF ZchRecord
<1>6. r.caps = h.caps /\ r.lsft = h.lsft /\ r.rsft = h.rsft /\ r.altgr = h.altgr
  BY <1>1, <1>2 DEF ZchRecord
<1> HIDE DEF r
<1>7. r.caps = q.caps /\ Modifiers(r) = Modifiers(q)
  BY <1>1, <1>6 DEF Agree, Modifiers, HeldShifts
<1> QED BY <1>4, <1>5, <1>7 DEF r

(* While zippychord is disabled, or can become so by its deadline, a key   *)
(* other than a modifier is held; and once it waits to be enabled it does  *)
(* so no longer than configured.                                           *)
Timed(c, q, P) ==
    /\ q.state = "Disabled" => q.keys = {} /\ q.isChord = FALSE /\ P \ Ignored # {}
    /\ q.state = "Enabled" /\ q.untilDisable > 0 => P \ Ignored # {}
    /\ q.state = "WaitEnable" => q.keys = {} /\ q.isChord = FALSE /\ q.untilEnabled \in 0..c.wait

LEMMA ResetType ==
    ASSUME NEW P, NEW q \in ZchRecord(P)
    PROVE  LET r == Reset(q)
           IN  /\ r \in ZchRecord(P)
               /\ r.keys = {} /\ r.state = "Enabled" /\ r.untilDisable = 0
               /\ r.caps = FALSE /\ Modifiers(r) = {}
<1> DEFINE h == SoftReset(q)
           r == Reset(q)
<1>1. h \in ZchRecord(P) /\ h.keys = {} /\ h.untilDisable = 0
  BY SoftResetType
<1>2. r = [h EXCEPT !.caps = FALSE, !.lsft = FALSE, !.rsft = FALSE, !.altgr = FALSE,
                    !.isChord = TRUE, !.state = "Enabled"]
  BY Zenon DEF Reset
<1> HIDE DEF h, r
<1>3. r.caps = FALSE /\ r.lsft = FALSE /\ r.rsft = FALSE /\ r.altgr = FALSE
  BY <1>1, <1>2 DEF ZchRecord
<1>4. r.state = "Enabled" /\ r.keys = h.keys /\ r.untilDisable = h.untilDisable
  BY <1>1, <1>2 DEF ZchRecord
<1>5. r \in ZchRecord(P)
  BY <1>1, <1>2 DEF ZchRecord
<1>6. Modifiers(r) = {}
  BY <1>3 DEF Modifiers, HeldShifts
<1> QED BY <1>1, <1>3, <1>4, <1>5, <1>6 DEF r

(* Time passes.                                                            *)
AfterTick(c, q) == ZchTick(c, q, FALSE)

LEMMA TickedIn ==
    ASSUME NEW c, IsConfig(c), NEW P, NEW q \in ZchRecord(P), Timed(c, q, P)
    PROVE  LET r == AfterTick(c, q)
           IN  /\ r \in ZchRecord(P) /\ Timed(c, r, P)
               /\ Uncapped(r) /\ Modifiers(r) \subseteq Modifiers(q)
               /\ r.state = "WaitEnable" =>
                     q.state = "WaitEnable" /\ q.untilEnabled = r.untilEnabled + 1
               /\ q.state = "Enabled" /\ q.untilDisable = 0 /\ q.keys = {} =>
                     r.state = "Enabled" /\ r.untilDisable = 0 /\ r.keys = {}
<1> DEFINE since == q.since + 1
           q1 == [q EXCEPT !.since = since, !.caps = FALSE]
           q2 == CASE q1.state = "WaitEnable" -> TickWaitEnable(q1)
                   [] q1.state = "Enabled"    -> TickEnabled(q1)
                   [] OTHER                   -> q1
           Ticked(r) ==
               /\ r \in ZchRecord(P) /\ Timed(c, r, P)
               /\ r.caps = FALSE /\ Modifiers(r) \subseteq Modifiers(q)
               /\ r.state = "WaitEnable" =>
                     q.state = "WaitEnable" /\ q.untilEnabled = r.untilEnabled + 1
               /\ q.state = "Enabled" /\ q.untilDisable = 0 /\ q.keys = {} =>
                     r.state = "Enabled" /\ r.untilDisable = 0 /\ r.keys = {}
<1>1. AfterTick(c, q) = ForceReset(c, q2)
  BY DEF AfterTick, ZchTick
<1>2. since \in Nat
  BY DEF ZchRecord
<1> HIDE DEF since
<1>3. q1 \in ZchRecord(P)
  BY <1>2 DEF ZchRecord
<1>4. /\ q1.keys = q.keys /\ q1.state = q.state /\ q1.untilEnabled = q.untilEnabled
      /\ q1.untilDisable = q.untilDisable /\ q1.isChord = q.isChord
      /\ q1.caps = FALSE
  BY DEF ZchRecord
<1>5. Modifiers(q1) = Modifiers(q)
  BY DEF ZchRecord, Modifiers, HeldShifts
<1> HIDE DEF q1
<1>6. ASSUME q.state = "WaitEnable" PROVE Ticked(q2)
  <2>1. q2 = TickWaitEnable(q1)
    BY <1>4, <1>6
  <2> HIDE DEF q2
  <2>2. CASE q1.untilEnabled <= 1
    <3>1. q2 = [q1 EXCEPT !.untilEnabled = 0, !.state = "Enabled", !.untilDisable = 0]
      BY <2>1, <2>2 DEF TickWaitEnable
    <3>2. q2 \in ZchRecord(P)
      BY <1>3, <3>1 DEF ZchRecord
    <3>3. q2.state = "Enabled" /\ q2.untilDisable = 0 /\ q2.keys = q1.keys /\ q2.caps = q1.caps
          /\ Modifiers(q2) = Modifiers(q1)
      BY <1>3, <3>1 DEF ZchRecord, Modifiers, HeldShifts
    <3> QED BY <1>4, <1>5, <1>6, <3>2, <3>3 DEF Timed
  <2>3. CASE ~ (q1.untilEnabled <= 1)
    <3> DEFINE left == q1.untilEnabled - 1
    <3>0. left \in Nat
      BY <1>3, <2>3 DEF ZchRecord
    <3>1. q2 = [q1 EXCEPT !.untilEnabled = left]
      BY <2>1, <2>3 DEF TickWaitEnable
    <3>4. q1.untilEnabled = left + 1
      BY <1>3 DEF ZchRecord
    <3> HIDE DEF left
    <3>2. q2 \in ZchRecord(P)
      BY <1>3, <3>0, <3>1 DEF ZchRecord
    <3>3. /\ q2.state = q1.state /\ q2.untilEnabled = left /\ q2.keys = q1.keys
          /\ q2.caps = q1.caps /\ q2.isChord = q1.isChord /\ Modifiers(q2) = Modifiers(q1)
      BY <1>3, <3>1 DEF ZchRecord, Modifiers, HeldShifts
    <3>5. left \in 0..c.wait
      BY <1>4, <1>6, <2>3, <3>0, <3>4 DEF Timed, IsConfig
    <3> QED BY <1>4, <1>5, <1>6, <3>2, <3>3, <3>4, <3>5 DEF Timed
  <2> QED BY <2>2, <2>3
<1>7. ASSUME q.state = "Enabled" PROVE Ticked(q2)
  <2>1. q2 = TickEnabled(q1)
    BY <1>4, <1>7
  <2> HIDE DEF q2
  <2>2. CASE q1.untilDisable = 1
    <3>1. q2 = SoftReset(q1)
      BY <2>1, <2>2 DEF TickEnabled
    <3>2. /\ q2 \in ZchRecord(P)
          /\ q2.keys = {} /\ q2.state = "Disabled" /\ q2.isChord = FALSE
          /\ q2.caps = q1.caps /\ Modifiers(q2) = Modifiers(q1)
      BY <1>3, <3>1, SoftResetType
    <3> QED BY <1>4, <1>5, <1>7, <2>2, <3>2 DEF Timed
  <2>3. CASE q1.untilDisable # 1
    <3> DEFINE left == Monus1(q1.untilDisable)
    <3>0. left \in Nat /\ left <= q1.untilDisable
      BY <1>3 DEF ZchRecord, Monus1
    <3>1. q2 = [q1 EXCEPT !.untilDisable = left]
      BY <2>1, <2>3, Zenon DEF TickEnabled
    <3> HIDE DEF left
    <3>2. q2 \in ZchRecord(P)
      BY <1>3, <3>0, <3>1 DEF ZchRecord
    <3>3. /\ q2.state = q1.state /\ q2.untilDisable = left /\ q2.keys = q1.keys
          /\ q2.caps = q1.caps /\ Modifiers(q2) = Modifiers(q1)
      BY <1>3, <3>1 DEF ZchRecord, Modifiers, HeldShifts
    <3>4. q1.untilDisable \in Nat
      BY <1>3 DEF ZchRecord
    <3> QED BY <1>4, <1>5, <1>7, <3>0, <3>2, <3>3, <3>4 DEF Timed
  <2> QED BY <2>2, <2>3
<1>8. ASSUME q.state = "Disabled" PROVE Ticked(q2)
  <2>1. q2 = q1
    BY <1>4, <1>8
  <2> HIDE DEF q2
  <2> QED BY <1>3, <1>4, <1>5, <1>8, <2>1 DEF Timed
<1>9. Ticked(q2)
  <2>1. q.state \in {"Enabled", "Disabled", "WaitEnable"}
    BY DEF ZchRecord
  <2> HIDE DEF Ticked, q2
  <2> QED BY <1>6, <1>7, <1>8, <2>1
<1> HIDE DEF q2
<1>10. Ticked(Reset(q2))
  <2>1. LET r == Reset(q2)
        IN  /\ r \in ZchRecord(P)
            /\ r.keys = {} /\ r.state = "Enabled" /\ r.untilDisable = 0
            /\ r.caps = FALSE /\ Modifiers(r) = {}
    BY <1>9, ResetType
  <2> QED BY <2>1 DEF Timed
<1>11. Ticked(ForceReset(c, q2))
  <2> HIDE DEF Ticked
  <2> QED BY <1>9, <1>10 DEF ForceReset
<1> QED BY <1>1, <1>11 DEF Uncapped

-----------------------------------------------------------------------------
(* A key that is not a modifier is released.                               *)
LEMMA AllReleasedType ==
    ASSUME NEW P, NEW q \in ZchRecord(P), q.keys = {}
    PROVE  LET r == AllReleased(q)
           IN  /\ r \in ZchRecord(P) /\ r.state = "Enabled" /\ r.untilDisable = 0
               /\ r.keys = {} /\ r.caps = q.caps /\ Modifiers(r) = Modifiers(q)
<1> DEFINE h == IF q.prio = {} THEN ClearHistory(q) ELSE q
           r == AllReleased(q)
<1>1. h \in ZchRecord(P) /\ Agree(h, q)
  BY ClearedType DEF Agree
<1>2. r = [h EXCEPT !.toDelete = 0, !.untilDisable = 0, !.state = "Enabled", !.holdCount = 0]
  BY Zenon DEF AllReleased
<1> HIDE DEF h, r
<1>3. r \in ZchRecord(P)
  <2>1. ASSUME NEW del \in Int, NEW zero \in Nat
        PROVE  [h EXCEPT !.toDelete = del, !.untilDisable = zero, !.state = "Enabled",
                         !.holdCount = zero] \in ZchRecord(P)
    BY <1>1 DEF ZchRecord
  <2>2. 0 \in Int /\ 0 \in Nat
    OBVIOUS
  <2> QED BY <1>2, <2>1, <2>2, Zenon
<1>4. /\ r.state = "Enabled" /\ r.untilDisable = 0 /\ r.keys = h.keys /\ r.caps = h.caps
      /\ Modifiers(r) = Modifiers(h)
  BY <1>1, <1>2 DEF ZchRecord, Modifiers, HeldShifts
<1>5. Modifiers(h) = Modifiers(q)
  BY <1>1 DEF Agree, Modifiers, HeldShifts
<1> QED BY <1>1, <1>3, <1>4, <1>5 DEF Agree, r

AfterRelease(c, q, k) == Released([StateChange(c, q) EXCEPT !.keys = @ \ {k}])

LEMMA ReleasedKeyIn ==
    ASSUME NEW c, IsConfig(c), NEW P, NEW k, NEW q \in ZchRecord(P), Timed(c, q, P)
    PROVE  LET r == AfterRelease(c, q, k)
           IN  /\ r \in ZchRecord(P \ {k}) /\ Timed(c, r, P \ {k})
               /\ r.caps = q.caps /\ Modifiers(r) = Modifiers(q)
<1> DEFINE keys == q.keys \ {k}
           s == [StateChange(c, q) EXCEPT !.keys = @ \ {k}]
           r == Released(s)
           Good == /\ r \in ZchRecord(P \ {k}) /\ Timed(c, r, P \ {k})
                   /\ r.caps = q.caps /\ Modifiers(r) = Modifiers(q)
<1>1. keys \in SUBSET ((P \ {k}) \ Ignored) /\ c.wait \in Nat /\ c.wait \in 0..c.wait
  BY DEF ZchRecord, IsConfig
<1>2. s = [StateChange(c, q) EXCEPT !.keys = keys]
  BY DEF ZchRecord, StateChange
<1> HIDE DEF keys
<1>3. s \in ZchRecord(P \ {k})
  <2>1. StateChange(c, q) \in ZchRecord(P)
    <3>1. ASSUME NEW zero \in Nat
          PROVE  [q EXCEPT !.since = zero, !.untilEnabled = c.wait] \in ZchRecord(P)
      BY <1>1 DEF ZchRecord
    <3>2. 0 \in Nat
      OBVIOUS
    <3> QED BY <3>1, <3>2, Zenon DEF StateChange
  <2> QED BY <1>1, <1>2, <2>1 DEF ZchRecord
<1>4. /\ s.keys = keys /\ s.untilEnabled = c.wait /\ s.state = q.state /\ s.isChord = q.isChord
      /\ s.caps = q.caps /\ s.untilDisable = q.untilDisable /\ Modifiers(s) = Modifiers(q)
  BY <1>2 DEF ZchRecord, StateChange, Modifiers, HeldShifts
<1>5. s.isChord \in BOOLEAN
  BY <1>3 DEF ZchRecord
<1> HIDE DEF s
<1>6. ASSUME s.isChord = TRUE, s.keys = {} PROVE Good
  <2>1. r = AllReleased(s)
    BY <1>6 DEF Released
  <2> HIDE DEF r
  <2>2. /\ r \in ZchRecord(P \ {k}) /\ r.state = "Enabled" /\ r.untilDisable = 0
        /\ r.keys = {} /\ r.caps = s.caps /\ Modifiers(r) = Modifiers(s)
    BY <1>3, <1>6, <2>1, AllReleasedType
  <2> QED BY <1>4, <2>2 DEF Timed
<1>7. ASSUME s.isChord = TRUE, s.keys # {} PROVE Good
  <2>1. r = [s EXCEPT !.untilDisable = 0]
    BY <1>7 DEF Released
  <2> HIDE DEF r
  <2>2. r \in ZchRecord(P \ {k})
    BY <1>3, <2>1 DEF ZchRecord
  <2>3. r.state = s.state /\ r.untilDisable = 0 /\ r.caps = s.caps /\ Modifiers(r) = Modifiers(s)
    BY <1>3, <2>1 DEF ZchRecord, Modifiers, HeldShifts
  <2>4. r.state = "Enabled"
    <3>1. q.state \in {"Enabled", "Disabled", "WaitEnable"}
      BY DEF ZchRecord
    <3> QED BY <1>4, <1>7, <2>3, <3>1 DEF Timed
  <2> QED BY <1>4, <2>2, <2>3, <2>4 DEF Timed
<1>8. ASSUME s.isChord = FALSE, s.keys = {} PROVE Good
  <2> DEFINE h == ClearHistory(s)
  <2>1. r = [h EXCEPT !.state = "WaitEnable"]
    BY <1>8 DEF Released
  <2>2. h \in ZchRecord(P \ {k}) /\ Agree(h, s) /\ h.isChord = s.isChord
    BY <1>3, ClearedType
  <2> HIDE DEF h, r
  <2>3. r \in ZchRecord(P \ {k})
    BY <2>1, <2>2 DEF ZchRecord
  <2>4. /\ r.state = "WaitEnable" /\ r.keys = h.keys /\ r.isChord = h.isChord
        /\ r.untilEnabled = h.untilEnabled /\ r.caps = h.caps /\ Modifiers(r) = Modifiers(h)
    BY <2>1, <2>2 DEF ZchRecord, Modifiers, HeldShifts
  <2>5. Modifiers(h) = Modifiers(s) /\ h.keys = s.keys /\ h.untilEnabled = s.untilEnabled
        /\ h.caps = s.caps
    BY <2>2 DEF Agree, Modifiers, HeldShifts
  <2> QED BY <1>1, <1>4, <1>8, <2>2, <2>3, <2>4, <2>5 DEF Timed
<1>9. ASSUME s.isChord = FALSE, s.keys # {} PROVE Good
  <2>1. r = SoftReset(s)
    BY <1>9 DEF Released
  <2> HIDE DEF r
  <2>2. /\ r \in ZchRecord(P \ {k})
        /\ r.keys = {} /\ r.state = "Disabled" /\ r.isChord = FALSE
        /\ r.caps = s.caps /\ Modifiers(r) = Modifiers(s)
    BY <1>3, <2>1, SoftResetType
  <2>3. (P \ {k}) \ Ignored # {}
    BY <1>1, <1>4, <1>9
  <2> QED BY <1>4, <2>2, <2>3 DEF Timed
<1> HIDE DEF Good
<1>10. Good
  BY <1>5, <1>6, <1>7, <1>8, <1>9
<1> QED BY <1>10 DEF Good, r, s, AfterRelease

(* A modifier is pressed or released.                                      *)
Noted(q, k) == NoteModifier(q, k, TRUE)
Unnoted(q, k) == NoteModifier(q, k, FALSE)

LEMMA NotedIn ==
    ASSUME NEW P, NEW Q, P \ Ignored = Q \ Ignored, NEW q \in ZchRecord(P), NEW k \in Ignored
    PROVE  /\ \A r \in {Noted(q, k), Unnoted(q, k)} :
                 /\ r \in ZchRecord(Q) /\ \A c : Timed(c, q, P) => Timed(c, r, Q)
                 /\ r.caps = q.caps /\ r.state = q.state /\ r.untilEnabled = q.untilEnabled
           /\ Modifiers(Noted(q, k)) \subseteq Modifiers(q) \cup {k}
           /\ Modifiers(Unnoted(q, k)) \subseteq Modifiers(q) \ {k}
<1>1. ASSUME NEW r, NEW on \in BOOLEAN, r = NoteModifier(q, k, on)
      PROVE  /\ r \in ZchRecord(Q) /\ \A c : Timed(c, q, P) => Timed(c, r, Q)
             /\ r.caps = q.caps /\ r.state = q.state /\ r.untilEnabled = q.untilEnabled
             /\ r.lsft = IF k = "lsft" THEN on ELSE q.lsft
             /\ r.rsft = IF k = "rsft" THEN on ELSE q.rsft
             /\ r.altgr = IF k = "ralt" THEN on ELSE q.altgr
  <2>1. r \in ZchRecord(Q) /\ r.isChord = q.isChord
        /\ r.caps = q.caps /\ r.state = q.state /\ r.untilEnabled = q.untilEnabled
        /\ r.keys = q.keys /\ r.untilDisable = q.untilDisable
    BY <1>1 DEF NoteModifier, ZchRecord
  <2>2. /\ r.lsft = IF k = "lsft" THEN on ELSE q.lsft
        /\ r.rsft = IF k = "rsft" THEN on ELSE q.rsft
        /\ r.altgr = IF k = "ralt" THEN on ELSE q.altgr
    BY <1>1 DEF NoteModifier, ZchRecord
  <2>3. \A c : Timed(c, q, P) => Timed(c, r, Q)
    BY <2>1 DEF Timed
  <2> QED BY <2>1, <2>2, <2>3
<1>2. ASSUME NEW r \in {Noted(q, k), Unnoted(q, k)}
      PROVE  /\ r \in ZchRecord(Q) /\ \A c : Timed(c, q, P) => Timed(c, r, Q)
             /\ r.caps = q.caps /\ r.state = q.state /\ r.untilEnabled = q.untilEnabled
  BY <1>1, <1>2, Zenon DEF Noted, Unnoted
<1>3. Modifiers(Noted(q, k)) \subseteq Modifiers(q) \cup {k}
  <2> DEFINE r == Noted(q, k)
  <2>1. /\ r.lsft = IF k = "lsft" THEN TRUE ELSE q.lsft
        /\ r.rsft = IF k = "rsft" THEN TRUE ELSE q.rsft
        /\ r.altgr = IF k = "ralt" THEN TRUE ELSE q.altgr
    BY <1>1, Zenon DEF Noted
  <2> HIDE DEF r
  <2>2. Modifiers(r) \subseteq Modifiers(q) \cup {k}
    BY <2>1 DEF Modifiers, HeldShifts
  <2> QED BY <2>2 DEF r
<1>4. Modifiers(Unnoted(q, k)) \subseteq Modifiers(q) \ {k}
  <2> DEFINE r == Unnoted(q, k)
  <2>1. /\ r.lsft = IF k = "lsft" THEN FALSE ELSE q.lsft
        /\ r.rsft = IF k = "rsft" THEN FALSE ELSE q.rsft
        /\ r.altgr = IF k = "ralt" THEN FALSE ELSE q.altgr
    BY <1>1, Zenon DEF Unnoted
  <2> HIDE DEF r
  <2>2. Modifiers(r) \subseteq Modifiers(q) \ {k}
    BY <2>1 DEF Modifiers, HeldShifts
  <2> QED BY <2>2 DEF r
<1> QED BY <1>2, <1>3, <1>4

-----------------------------------------------------------------------------
(* A key is pressed.                                                       *)
LEMMA EraseSpaceIn ==
    ASSUME NEW c, NEW P, NEW s, Served(s, P), NEW k
    PROVE  LET r == EraseSpace(c, s, k)
           IN  Served(r, P) /\ Agree(r.z, s.z) /\ r.z.isChord = s.z.isChord
<1> DEFINE r == EraseSpace(c, s, k)
           del == s.z.toDelete - 1
           q1 == [s.z EXCEPT !.toDelete = del, !.spaceSent = FALSE]
           q2 == [s.z EXCEPT !.spaceSent = FALSE]
           o == OsTap(s.os, "bspc")
<1>1. s \in ZippyRecord(P) /\ s.z \in ZchRecord(P) /\ s.os \in OsRecord(P)
  BY DEF Served, ZippyRecord
<1>2. o \in OsRecord(P) /\ o.down = s.os.down \ {"bspc"}
  BY <1>1, TappedIn
<1>3. del \in Int
  BY <1>1 DEF ZchRecord
<1>4. \/ r = [z |-> q1, os |-> o]
      \/ r = [s EXCEPT !.z.spaceSent = FALSE]
  BY DEF EraseSpace
<1> HIDE DEF del, o
<1>5. q1 \in ZchRecord(P) /\ Agree(q1, s.z) /\ q1.isChord = s.z.isChord
  BY <1>1, <1>3 DEF ZchRecord, Agree
<1>6. q2 \in ZchRecord(P) /\ Agree(q2, s.z) /\ q2.isChord = s.z.isChord
  BY <1>1 DEF ZchRecord, Agree
<1>7. Modifiers(q1) = Modifiers(s.z) /\ Modifiers(q2) = Modifiers(s.z)
  BY <1>5, <1>6 DEF Agree, Modifiers, HeldShifts
<1>8. CASE r = [z |-> q1, os |-> o]
  <2>1. "bspc" \notin Modifiers(s.z)
    BY DEF Modifiers, HeldShifts
  <2> HIDE DEF r, q1
  <2>2. r \in ZippyRecord(P) /\ r.z = q1 /\ r.os = o
    BY <1>2, <1>5, <1>8 DEF ZippyRecord
  <2> QED BY <1>2, <1>5, <1>7, <2>1, <2>2 DEF Served, Uncapped, Agree, r
<1>9. CASE r = [s EXCEPT !.z.spaceSent = FALSE]
  <2>1. r \in ZippyRecord(P)
    BY <1>1, <1>6, <1>9 DEF ZippyRecord
  <2>2. r.z = q2 /\ r.os = s.os
    BY <1>1, <1>9 DEF ZippyRecord
  <2> HIDE DEF r, q2
  <2> QED BY <1>6, <1>7, <2>1, <2>2 DEF Served, Uncapped, Agree, r
<1> QED BY <1>4, <1>8, <1>9

LEMMA ExpectingIn ==
    ASSUME NEW c, IsConfig(c), NEW P, NEW q \in ZchRecord(P), NEW k, k \notin Ignored
    PROVE  LET r == Expecting(c, q, k)
           IN  /\ r \in ZchRecord(P \cup {k})
               /\ r.caps = q.caps /\ r.state = q.state /\ Modifiers(r) = Modifiers(q)
<1> DEFINE h == StateChange(c, q)
           left == IF h.untilDisable = 0 THEN c.deadline ELSE h.untilDisable
           keys == h.keys \cup {k}
           r == Expecting(c, q, k)
<1>1. h \in ZchRecord(P)
  <2>1. ASSUME NEW zero \in Nat
        PROVE  [q EXCEPT !.since = zero, !.untilEnabled = c.wait] \in ZchRecord(P)
    BY DEF ZchRecord, IsConfig
  <2>2. 0 \in Nat
    OBVIOUS
  <2> QED BY <2>1, <2>2, Zenon DEF StateChange
<1>2. h.caps = q.caps /\ h.state = q.state /\ Modifiers(h) = Modifiers(q)
  BY DEF ZchRecord, StateChange, Modifiers, HeldShifts
<1>3. left \in Nat /\ keys \in SUBSET ((P \cup {k}) \ Ignored)
  BY <1>1 DEF ZchRecord, IsConfig
<1>4. r = [h EXCEPT !.untilDisable = left, !.keys = keys]
  BY Zenon DEF Expecting
<1> HIDE DEF h, left, keys, r
<1>5. r \in ZchRecord(P \cup {k})
  BY <1>1, <1>3, <1>4 DEF ZchRecord
<1>6. r.caps = h.caps /\ r.state = h.state /\ Modifiers(r) = Modifiers(h)
  BY <1>1, <1>4 DEF ZchRecord, Modifiers, HeldShifts
<1> QED BY <1>2, <1>5, <1>6 DEF r

LEMMA PressEnabledIn ==
    ASSUME NEW c, IsConfig(c), NEW P, IsFiniteSet(P), NEW k \in P, k \notin Ignored,
           NEW q \in ZchRecord(P), q.state = "Enabled", Uncapped(q),
           NEW o \in OsRecord(P), Modifiers(q) \subseteq o.down
    PROVE  LET r == PressEnabled(c, q, o, k) IN Served(r, P) /\ Timed(c, r.z, P)
<1> DEFINE r == PressEnabled(c, q, o, k)
           Good(s) == Served(s, P) /\ Timed(c, s.z, P)
           followups == Values(q.prio, q.keys)
           chords == Values(c.chords, q.keys)
           follow == CHOOSE ch \in followups : TRUE
           first == CHOOSE ch \in chords : TRUE
<1>1. P \ Ignored # {}
  OBVIOUS
<1>2. ASSUME NEW chord \in ZippyChords, NEW followup \in BOOLEAN
      PROVE  Good(Activate(c, q, o, chord, k, followup))
  <2> DEFINE s == Activate(c, q, o, chord, k, followup)
  <2>1. Served(s, P) /\ s.z.keys = q.keys /\ s.z.state = q.state
    BY ActivateIn
  <2> HIDE DEF s
  <2>2. Good(s)
    BY <1>1, <2>1 DEF Timed
  <2> QED BY <2>2, Zenon DEF s
<1>3. followups # {} => follow \in ZippyChords
  BY DEF ZchRecord, Values
<1>4. chords # {} => first \in ZippyChords
  BY DEF IsConfig, Values
<1>5. OsPress(o, k) \in OsRecord(P) /\ o.down \subseteq OsPress(o, k).down
  <2>1. P \cup {k} = P
    OBVIOUS
  <2> QED BY <2>1, PressedIn
<1>6. Good([z |-> SoftReset(q), os |-> OsPress(o, k)])
  <2> DEFINE h == SoftReset(q)
             oo == OsPress(o, k)
  <2>1. /\ h \in ZchRecord(P)
        /\ h.keys = {} /\ h.state = "Disabled" /\ h.isChord = FALSE
        /\ h.caps = q.caps /\ Modifiers(h) = Modifiers(q)
    BY SoftResetType
  <2> HIDE DEF h, oo
  <2>2. Good([z |-> h, os |-> oo])
    BY <1>1, <1>5, <2>1 DEF Served, Uncapped, ZippyRecord, Timed, oo
  <2> QED BY <2>2 DEF h, oo
<1>7. Good([z |-> [q EXCEPT !.isChord = FALSE, !.toDelete = @ + 1], os |-> OsPress(o, k)])
  <2> DEFINE del == q.toDelete + 1
             h == [q EXCEPT !.isChord = FALSE, !.toDelete = del]
             oo == OsPress(o, k)
  <2>1. del \in Int
    BY DEF ZchRecord
  <2> HIDE DEF del
  <2>2. /\ h \in ZchRecord(P) /\ h.state = "Enabled"
        /\ Uncapped(h) /\ Modifiers(h) = Modifiers(q)
    BY <2>1 DEF ZchRecord, Modifiers, HeldShifts, Uncapped
  <2> HIDE DEF h, oo
  <2>3. Good([z |-> h, os |-> oo])
    BY <1>1, <1>5, <2>2 DEF Served, Uncapped, ZippyRecord, Timed, oo
  <2> QED BY <2>3, Zenon DEF h, oo, del
<1>8. \/ followups # {} /\ r = Activate(c, q, o, follow, k, TRUE)
      \/ chords # {} /\ r = Activate(c, q, o, first, k, FALSE)
      \/ r = [z |-> [q EXCEPT !.isChord = FALSE, !.toDelete = @ + 1], os |-> OsPress(o, k)]
      \/ r = [z |-> SoftReset(q), os |-> OsPress(o, k)]
  BY Zenon DEF PressEnabled
<1> HIDE DEF Good, r, followups, chords, follow, first
<1>9. Good(r)
  BY <1>2, <1>3, <1>4, <1>6, <1>7, <1>8
<1> QED BY <1>9 DEF Good, r

LEMMA PressCharIn ==
    ASSUME NEW c, IsConfig(c), NEW P, IsFiniteSet(P), NEW k, k \notin Ignored,
           NEW s, Served(s, P), Timed(c, s.z, P)
    PROVE  LET r == PressChar(c, s, k) IN Served(r, P \cup {k}) /\ Timed(c, r.z, P \cup {k})
<1> DEFINE Q == P \cup {k}
<1>1. /\ s \in ZippyRecord(P) /\ s.z \in ZchRecord(P) /\ s.os \in OsRecord(P) /\ Uncapped(s.z)
      /\ Modifiers(s.z) \subseteq s.os.down
  BY DEF Served, ZippyRecord
<1>2. IsFiniteSet(Q)
  BY FS_AddElement
<1>3. CASE s.z.state # "Enabled"
  <2> DEFINE o == OsPress(s.os, k)
  <2>1. o \in OsRecord(Q) /\ o.down = s.os.down \cup {k}
    BY <1>1, PressedIn
  <2> HIDE DEF o
  <2>2. s.z \in ZchRecord(Q)
    BY <1>1 DEF ZchRecord
  <2>3. PressChar(c, s, k) = [s EXCEPT !.os = o]
    BY <1>3 DEF PressChar, o
  <2>4. PressChar(c, s, k) \in ZippyRecord(Q)
    BY <1>1, <2>1, <2>2, <2>3 DEF ZippyRecord
  <2>5. PressChar(c, s, k).z = s.z /\ PressChar(c, s, k).os = o
    BY <1>1, <2>3 DEF ZippyRecord
  <2>6. Timed(c, s.z, Q)
    BY DEF Timed
  <2> QED BY <1>1, <2>1, <2>4, <2>5, <2>6 DEF Served
<1>4. CASE s.z.state = "Enabled"
  <2> DEFINE q == Expecting(c, s.z, k)
  <2>1. /\ q \in ZchRecord(Q) /\ Uncapped(q) /\ q.state = "Enabled"
        /\ Modifiers(q) = Modifiers(s.z)
    BY <1>1, <1>4, ExpectingIn DEF Uncapped
  <2>2. s.os \in OsRecord(Q)
    BY <1>1, MoreMayBeDown
  <2>3. PressChar(c, s, k) = PressEnabled(c, q, s.os, k)
    BY <1>4 DEF PressChar
  <2> HIDE DEF q
  <2>4. k \in Q
    OBVIOUS
  <2> HIDE DEF Q
  <2>5. LET r == PressEnabled(c, q, s.os, k) IN Served(r, Q) /\ Timed(c, r.z, Q)
    BY <1>1, <1>2, <2>1, <2>2, <2>4, PressEnabledIn
  <2> QED BY <2>3, <2>5 DEF Q
<1> QED BY <1>3, <1>4

(* Without a chord zippychord does nothing.                                *)
Unused(c, q) ==
    c.chords = {} => /\ q.state = "Enabled" /\ q.untilDisable = 0 /\ q.keys = {}
                     /\ Modifiers(q) = {}

LEMMA PressKeyIn ==
    ASSUME NEW c, IsConfig(c), NEW P, IsFiniteSet(P), NEW k,
           NEW s, Served(s, P), Timed(c, s.z, P), Unused(c, s.z)
    PROVE  LET r == ZchPressKey(c, s, k)
           IN  /\ Served(r, P \cup {k}) /\ Timed(c, r.z, P \cup {k})
               /\ Unused(c, r.z)
<1> DEFINE Q == P \cup {k}
           o == OsPress(s.os, k)
           r == ZchPressKey(c, s, k)
<1>1. /\ s \in ZippyRecord(P) /\ s.z \in ZchRecord(P) /\ s.os \in OsRecord(P) /\ Uncapped(s.z)
      /\ Modifiers(s.z) \subseteq s.os.down
  BY DEF Served, ZippyRecord
<1>2. o \in OsRecord(Q) /\ o.down = s.os.down \cup {k}
  BY <1>1, PressedIn
<1>3. CASE c.chords = {}
  <2>1. r = [s EXCEPT !.os = o]
    BY <1>3 DEF ZchPressKey
  <2> HIDE DEF o, r
  <2>2. s.z \in ZchRecord(Q)
    BY <1>1 DEF ZchRecord
  <2>3. r \in ZippyRecord(Q)
    BY <1>1, <1>2, <2>1, <2>2 DEF ZippyRecord
  <2>4. r.z = s.z /\ r.os = o
    BY <1>1, <2>1 DEF ZippyRecord
  <2>5. Timed(c, s.z, Q)
    BY DEF Timed
  <2> QED BY <1>1, <1>2, <2>3, <2>4, <2>5 DEF Served, r
<1>4. CASE c.chords # {} /\ k \in Ignored
  <2> DEFINE q == Noted(s.z, k)
  <2>1. r = [z |-> q, os |-> o]
    BY <1>4 DEF ZchPressKey, Noted
  <2>2. /\ q \in ZchRecord(Q) /\ Timed(c, q, Q) /\ Uncapped(q)
        /\ Modifiers(q) \subseteq Modifiers(s.z) \cup {k}
    <3>1. P \ Ignored = Q \ Ignored
      BY <1>4
    <3> HIDE DEF Q
    <3>2. /\ q \in ZchRecord(Q) /\ \A d : Timed(d, s.z, P) => Timed(d, q, Q)
          /\ q.caps = s.z.caps
      BY <1>1, <1>4, <3>1, NotedIn
    <3>3. Modifiers(q) \subseteq Modifiers(s.z) \cup {k}
      BY <1>1, <1>4, <3>1, NotedIn DEF Uncapped
    <3> QED BY <1>1, <3>2, <3>3 DEF Uncapped
  <2> HIDE DEF o, r, q
  <2> QED BY <1>1, <1>2, <1>4, <2>1, <2>2 DEF Served, ZippyRecord, Unused, r
<1>5. CASE c.chords # {} /\ k \notin Ignored
  <2> DEFINE t == EraseSpace(c, s, k)
  <2>1. Served(t, P) /\ Agree(t.z, s.z) /\ t.z.isChord = s.z.isChord
    BY EraseSpaceIn
  <2>2. r = PressChar(c, t, k)
    BY <1>5 DEF ZchPressKey
  <2> HIDE DEF r, t
  <2>3. Timed(c, t.z, P)
    BY <2>1 DEF Timed, Agree
  <2>4. Served(r, Q) /\ Timed(c, r.z, Q)
    BY <1>5, <2>1, <2>2, <2>3, PressCharIn
  <2> QED BY <1>5, <2>4 DEF Unused, r
<1> QED BY <1>3, <1>4, <1>5

(* ... and released.                                                       *)
LEMMA ReleaseKeyIn ==
    ASSUME NEW c, IsConfig(c), NEW P, NEW k,
           NEW s, Served(s, P), Timed(c, s.z, P), Unused(c, s.z)
    PROVE  LET r == ZchReleaseKey(c, s, k)
           IN  /\ Served(r, P \ {k}) /\ Timed(c, r.z, P \ {k})
               /\ Unused(c, r.z)
<1> DEFINE Q == P \ {k}
           o == OsRelease(s.os, k)
           r == ZchReleaseKey(c, s, k)
<1>1. /\ s \in ZippyRecord(P) /\ s.z \in ZchRecord(P) /\ s.os \in OsRecord(P) /\ Uncapped(s.z)
      /\ Modifiers(s.z) \subseteq s.os.down
  BY DEF Served, ZippyRecord
<1>2. o \in OsRecord(Q) /\ o.down = s.os.down \ {k}
  <2>1. s.os \in OsRecord(P \cup {k})
    BY <1>1, MoreMayBeDown
  <2>2. P \cup {k} = P \/ k \notin P
    OBVIOUS
  <2>3. o \in OsRecord(P) /\ o.down = s.os.down \ {k}
    BY <2>1, ReleasedIn
  <2> HIDE DEF o
  <2> QED BY <2>3 DEF OsRecord
<1>3. CASE c.chords = {}
  <2>1. r = [s EXCEPT !.os = o]
    BY <1>3 DEF ZchReleaseKey
  <2> HIDE DEF o, r
  <2>2. s.z \in ZchRecord(Q)
    BY <1>1, <1>3 DEF ZchRecord, Unused
  <2>3. r \in ZippyRecord(Q)
    BY <1>1, <1>2, <2>1, <2>2 DEF ZippyRecord
  <2>4. r.z = s.z /\ r.os = o
    BY <1>1, <2>1 DEF ZippyRecord
  <2>5. Timed(c, s.z, Q) /\ Modifiers(s.z) = {}
    BY <1>3 DEF Timed, Unused
  <2> QED BY <1>1, <1>2, <2>3, <2>4, <2>5 DEF Served, r
<1>4. CASE c.chords # {} /\ k \in Ignored
  <2> DEFINE q == Unnoted(s.z, k)
  <2>1. r = [z |-> q, os |-> o]
    BY <1>4 DEF ZchReleaseKey, Unnoted
  <2>2. /\ q \in ZchRecord(Q) /\ Timed(c, q, Q) /\ Uncapped(q)
        /\ Modifiers(q) \subseteq Modifiers(s.z) \ {k}
    <3>1. P \ Ignored = Q \ Ignored
      BY <1>4
    <3> HIDE DEF Q
    <3>2. /\ q \in ZchRecord(Q) /\ \A d : Timed(d, s.z, P) => Timed(d, q, Q)
          /\ q.caps = s.z.caps
      BY <1>1, <1>4, <3>1, NotedIn
    <3>3. Modifiers(q) \subseteq Modifiers(s.z) \ {k}
      BY <1>1, <1>4, <3>1, NotedIn DEF Uncapped
    <3> QED BY <1>1, <3>2, <3>3 DEF Uncapped
  <2> HIDE DEF o, r, q
  <2> QED BY <1>1, <1>2, <1>4, <2>1, <2>2 DEF Served, ZippyRecord, Unused, r
<1>5. CASE c.chords # {} /\ k \notin Ignored
  <2> DEFINE q == AfterRelease(c, s.z, k)
  <2>1. r = [z |-> q, os |-> o]
    BY <1>5 DEF ZchReleaseKey, AfterRelease
  <2>2. /\ q \in ZchRecord(Q) /\ Timed(c, q, Q)
        /\ Uncapped(q) /\ Modifiers(q) = Modifiers(s.z)
    <3>1. /\ q \in ZchRecord(Q) /\ Timed(c, q, Q)
          /\ q.caps = s.z.caps /\ Modifiers(q) = Modifiers(s.z)
      BY <1>1, ReleasedKeyIn
    <3> QED BY <1>1, <3>1 DEF Uncapped
  <2>3. k \notin Modifiers(s.z)
    BY <1>5 DEF Modifiers, HeldShifts, Ignored, ModifierKeys, Shifts
  <2> HIDE DEF o, r, q
  <2> QED BY <1>1, <1>2, <1>5, <2>1, <2>2, <2>3 DEF Served, ZippyRecord, Unused, r
<1> QED BY <1>3, <1>4, <1>5

-----------------------------------------------------------------------------
(* The inductive invariant.                                                *)
ZippyInv ==
    /\ IsConfig(zc) /\ IsFiniteSet(physKeys) /\ quiet \in Nat
    /\ Served([z |-> z, os |-> os], physKeys)
    /\ Timed(zc, z, physKeys)
    /\ Unused(zc, z)
    /\ quiet > 0 => physKeys = {}
    /\ z.state = "WaitEnable" => z.untilEnabled + quiet <= zc.wait

LEMMA ZippyInvInit == ZippyInit => ZippyInv
<1> SUFFICES ASSUME ZippyInit PROVE ZippyInv
  OBVIOUS
<1> USE DEF ZippyInit
<1>1. IsConfig(zc)
  BY ZippyConfigAssumption DEF IsConfig
<1>2. IsFiniteSet(physKeys)
  BY FS_EmptySet
<1>3. ZchNew \in ZchRecord({})
  BY DEF ZchNew, ZchRecord, NoPrior
<1>4. OsNew \in OsRecord({}) 
  BY DEF OsNew, OsRecord
<1>5. Modifiers(z) = {} /\ Uncapped(z)
  BY DEF ZchNew, Modifiers, HeldShifts, Uncapped
<1>6. Served([z |-> z, os |-> os], physKeys)
  BY <1>3, <1>4, <1>5 DEF Served, ZippyRecord
<1>7. Timed(zc, z, physKeys) /\ Unused(zc, z) /\ z.state # "WaitEnable"
  <2>1. z.state = "Enabled" /\ z.untilDisable = 0 /\ z.keys = {}
    BY DEF ZchNew
  <2> QED BY <1>5, <2>1 DEF Timed, Unused
<1> QED BY <1>1, <1>2, <1>6, <1>7 DEF ZippyInv

LEMMA ZippyInvNext == ZippyInv /\ [ZippyNext]_zippyVars => ZippyInv'
<1> SUFFICES ASSUME ZippyInv, [ZippyNext]_zippyVars PROVE ZippyInv'
  OBVIOUS
<1> DEFINE s == [z |-> z, os |-> os]
<1>1. /\ IsConfig(zc) /\ IsFiniteSet(physKeys) /\ quiet \in Nat
      /\ Served(s, physKeys) /\ Timed(zc, z, physKeys) /\ Unused(zc, z)
      /\ quiet > 0 => physKeys = {}
      /\ z.state = "WaitEnable" => z.untilEnabled + quiet <= zc.wait
  BY DEF ZippyInv
<1>2. s.z = z /\ s.os = os /\ z \in ZchRecord(physKeys) /\ os \in OsRecord(physKeys)
      /\ Uncapped(z) /\ Modifiers(z) \subseteq os.down
  BY <1>1 DEF Served, ZippyRecord
<1>3. CASE ZippyTick
  <2>1. z' = AfterTick(zc, z) /\ zc' = zc /\ os' = os /\ physKeys' = physKeys
        /\ quiet' = IF physKeys = {} /\ quiet <= zc.wait THEN quiet + 1 ELSE quiet
    BY <1>3 DEF ZippyTick, AfterTick
  <2>2. /\ z' \in ZchRecord(physKeys) /\ Timed(zc, z', physKeys)
        /\ Uncapped(z') /\ Modifiers(z') \subseteq Modifiers(z)
        /\ z'.state = "WaitEnable" =>
              z.state = "WaitEnable" /\ z.untilEnabled = z'.untilEnabled + 1
        /\ z.state = "Enabled" /\ z.untilDisable = 0 /\ z.keys = {} =>
              z'.state = "Enabled" /\ z'.untilDisable = 0 /\ z'.keys = {}
    <3> DEFINE r == AfterTick(zc, z)
    <3>1. /\ r \in ZchRecord(physKeys) /\ Timed(zc, r, physKeys)
          /\ Uncapped(r) /\ Modifiers(r) \subseteq Modifiers(z)
      BY <1>1, <1>2, TickedIn
    <3>2. /\ r.state = "WaitEnable" =>
                z.state = "WaitEnable" /\ z.untilEnabled = r.untilEnabled + 1
          /\ z.state = "Enabled" /\ z.untilDisable = 0 /\ z.keys = {} =>
                r.state = "Enabled" /\ r.untilDisable = 0 /\ r.keys = {}
      BY <1>1, <1>2, TickedIn
    <3> HIDE DEF r
    <3>3. z' = r
      BY <2>1 DEF r
    <3> QED BY <3>1, <3>2, <3>3, Zenon
  <2>3. Served([z |-> z', os |-> os'], physKeys')
    BY <1>2, <2>1, <2>2 DEF Served, ZippyRecord
  <2>4. Unused(zc', z')
    BY <1>1, <2>1, <2>2 DEF Unused
  <2>5. quiet' \in Nat /\ (quiet' > 0 => physKeys' = {})
    BY <1>1, <2>1 DEF IsConfig
  <2>6. z'.state = "WaitEnable" => z'.untilEnabled + quiet' <= zc'.wait
    <3>1. z'.untilEnabled \in Nat /\ zc.wait \in Nat
      BY <1>1, <2>2 DEF IsConfig, ZchRecord
    <3>2. quiet' = quiet \/ quiet' = quiet + 1
      BY <2>1
    <3> QED BY <1>1, <2>1, <2>2, <3>1, <3>2
  <2> QED BY <1>1, <2>1, <2>2, <2>3, <2>4, <2>5, <2>6 DEF ZippyInv
<1>4. ASSUME NEW k \in zc.keys, PressKey(k) PROVE ZippyInv'
  <2> DEFINE r == ZchPressKey(zc, s, k)
  <2>1. z' = r.z /\ os' = r.os /\ zc' = zc /\ physKeys' = physKeys \cup {k} /\ quiet' = 0
    BY <1>4 DEF PressKey, Pressed
  <2>2. Served(r, physKeys \cup {k}) /\ Timed(zc, r.z, physKeys \cup {k}) /\ Unused(zc, r.z)
    BY <1>1, <1>2, PressKeyIn
  <2> HIDE DEF r
  <2>3. Served([z |-> z', os |-> os'], physKeys')
    BY <2>1, <2>2 DEF Served, ZippyRecord
  <2>4. IsFiniteSet(physKeys')
    BY <1>1, <2>1, FS_AddElement
  <2>5. z'.state = "WaitEnable" => z'.untilEnabled + quiet' <= zc'.wait
    BY <1>1, <2>1, <2>2 DEF Timed, IsConfig
  <2> QED BY <1>1, <2>1, <2>2, <2>3, <2>4, <2>5 DEF ZippyInv
<1>5. ASSUME NEW k \in zc.keys, ReleaseKey(k) PROVE ZippyInv'
  <2> DEFINE r == ZchReleaseKey(zc, s, k)
  <2>1. z' = r.z /\ os' = r.os /\ zc' = zc /\ physKeys' = physKeys \ {k} /\ quiet' = quiet
        /\ k \in physKeys
    BY <1>5 DEF ReleaseKey, Pressed
  <2>2. Served(r, physKeys \ {k}) /\ Timed(zc, r.z, physKeys \ {k}) /\ Unused(zc, r.z)
    BY <1>1, <1>2, ReleaseKeyIn
  <2> HIDE DEF r
  <2>3. Served([z |-> z', os |-> os'], physKeys')
    BY <2>1, <2>2 DEF Served, ZippyRecord
  <2>4. IsFiniteSet(physKeys')
    BY <1>1, <2>1, FS_RemoveElement
  <2>5. quiet' = 0
    BY <1>1, <2>1
  <2>6. z'.state = "WaitEnable" => z'.untilEnabled + quiet' <= zc'.wait
    BY <1>1, <2>1, <2>2, <2>5 DEF Timed, IsConfig
  <2> QED BY <1>1, <2>1, <2>2, <2>3, <2>4, <2>5, <2>6 DEF ZippyInv
<1>6. CASE UNCHANGED zippyVars
  BY <1>6 DEF ZippyInv, zippyVars
<1> QED BY <1>3, <1>4, <1>5, <1>6 DEF ZippyNext

(* Whatever output is typed with modifiers let go and pressed again, and   *)
(* whatever keys are held and tapped by it: at the OS no key is down that  *)
(* the user does not hold, and the modifiers zippychord knows of are.      *)
THEOREM NothingDownButHeld == ZippySpec => []DownMatchesHeld
<1>1. ZippyInv => DownMatchesHeld
  <2> SUFFICES ASSUME ZippyInv PROVE DownMatchesHeld
    OBVIOUS
  <2>1. os \in OsRecord(physKeys) /\ Modifiers(z) \subseteq os.down
    BY DEF ZippyInv, Served, ZippyRecord
  <2> QED BY <2>1 DEF OsRecord, Modifiers, DownMatchesHeld, HeldAltgr
<1> QED BY <1>1, ZippyInvInit, ZippyInvNext, PTL DEF ZippySpec

(* A user who has let go of everything for the configured time finds       *)
(* zippychord enabled and idle, however it came to be disabled.            *)
THEOREM ZippychordComesBack == ZippySpec => []ReenablesInTime
<1>1. ZippyInv => ReenablesInTime
  <2> SUFFICES ASSUME ZippyInv, physKeys = {}, quiet > zc.wait PROVE ZchIsIdle(z)
    BY DEF ReenablesInTime
  <2>1. z \in ZchRecord(physKeys)
    BY DEF ZippyInv, Served, ZippyRecord
  <2>2. z.keys = {} /\ z.state \in {"Enabled", "Disabled", "WaitEnable"} /\ z.untilEnabled \in Nat
    BY <2>1 DEF ZchRecord
  <2>3. z.state # "WaitEnable"
    BY <2>2 DEF ZippyInv, IsConfig
  <2>4. z.state # "Disabled"
    BY DEF ZippyInv, Timed
  <2> QED BY <2>2, <2>3, <2>4 DEF ZchIsIdle
<1> QED BY <1>1, ZippyInvInit, ZippyInvNext, PTL DEF ZippySpec
=============================================================================
