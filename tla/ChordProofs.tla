---------------------------- MODULE ChordProofs ----------------------------
(***************************************************************************)
(* Theorems about ChordSystem, for every configuration and any number of   *)
(* presses: no event waits longer than a chord may take, every chord that  *)
(* was handed out is ended once, and chords v2 implement ChordFilter.      *)
(***************************************************************************)
EXTENDS ChordSystem, WellFoundedInduction, SequenceTheorems, TLAPS

-----------------------------------------------------------------------------
(* Every non-empty set of naturals has a least element.                    *)
LEMMA LeastNatural ==
    ASSUME NEW T, T \subseteq Nat, T # {}
    PROVE  \E x \in T : \A y \in T : x <= y
<1>1. \E x \in T : \A y \in T : ~ (<<y, x>> \in OpToRel(<, Nat))
  BY NatLessThanWellFounded, WFMin, Zenon
<1>2. \E x \in T : \A y \in T : ~ (y < x)
  BY <1>1 DEF OpToRel
<1> QED BY <1>2

LEMMA MaxIs ==
    ASSUME NEW n \in Nat, NEW s \in SUBSET (1..n), n \in s
    PROVE  Max(s) = n
<1>1. \A y \in s : n >= y
  OBVIOUS
<1>2. \A x \in s : (\A y \in s : x >= y) => x = n
  OBVIOUS
<1> DEFINE IsMax(x) == x \in s /\ \A y \in s : x >= y
<1>3. IsMax(n) /\ \A x : IsMax(x) => x = n
  BY <1>1, <1>2
<1>4. Max(s) = CHOOSE x : IsMax(x)
  BY Zenon DEF Max
<1> QED BY <1>3, <1>4

-----------------------------------------------------------------------------
(* The folds over lists of events: Retain, PushAll, EndByReleases,         *)
(* ConsiderPresses, and what the layout sees of the events it gets.  Step  *)
(* is what one element of a fold does, and Stages the function that        *)
(* defines the fold.                                                       *)
Step(fold, st, e) ==
    CASE fold.op = "retain" -> (IF e \in fold.kept THEN Append(st, e) ELSE st)
      [] fold.op = "push" -> PushSmol(st, e)
      [] fold.op = "end" -> (IF e.press THEN st ELSE ReleaseInChords(st, e.coord[2]))
      [] fold.op = "consider" -> ConsiderPress(fold.cv, fold.possible, fold.ups, st,
                                               WithPress(fold.possible, st, e))
      [] fold.op = "forward" -> Forward(st, e)
Stages(fold, g, n, st, out) ==
    g = [s \in SUBSET (1..n) |->
           IF s = {} THEN st ELSE Step(fold, g[s \ {Max(s)}], out[Max(s)])]

LEMMA StagesGrow ==
    ASSUME NEW fold, NEW st, NEW out, NEW n \in Nat, NEW m \in Nat, n = m + 1,
           NEW g, Stages(fold, g, m, st, out)
    PROVE  \E h : Stages(fold, h, n, st, out)
<1> DEFINE h == [s \in SUBSET (1..n) |->
                   IF n \in s THEN Step(fold, g[s \ {n}], out[n]) ELSE g[s]]
<1>1. ASSUME NEW s \in SUBSET (1..n), n \in s
      PROVE  h[s] = IF s = {} THEN st ELSE Step(fold, h[s \ {Max(s)}], out[Max(s)])
  <2>1. Max(s) = n /\ s # {}
    BY <1>1, MaxIs
  <2>2. s \ {n} \in SUBSET (1..n) /\ n \notin s \ {n}
    OBVIOUS
  <2>3. h[s \ {n}] = g[s \ {n}]
    BY <2>2
  <2>4. h[s] = Step(fold, g[s \ {n}], out[n])
    BY <1>1
  <2> HIDE DEF h
  <2> QED BY <2>1, <2>3, <2>4, Zenon
<1>2. ASSUME NEW s \in SUBSET (1..n), n \notin s
      PROVE  h[s] = IF s = {} THEN st ELSE Step(fold, h[s \ {Max(s)}], out[Max(s)])
  <2>1. /\ s \in SUBSET (1..m)
        /\ \A x : n \notin s \ {x} /\ s \ {x} \in SUBSET (1..n) /\ s \ {x} \in SUBSET (1..m)
    <3>1. \A y \in 1..n : y # n => y \in 1..m
      OBVIOUS
    <3>2. \A y \in s : y \in 1..m
      BY <1>2, <3>1
    <3> QED BY <1>2, <3>2, Zenon
  <2>2. h[s] = g[s] /\ h[s \ {Max(s)}] = g[s \ {Max(s)}]
    BY <1>2, <2>1
  <2>3. g[s] = IF s = {} THEN st ELSE Step(fold, g[s \ {Max(s)}], out[Max(s)])
    BY <2>1, Zenon DEF Stages
  <2> HIDE DEF h
  <2> QED BY <2>2, <2>3, Zenon
<1>3. h = [s \in SUBSET (1..n) |-> h[s]]
  OBVIOUS
<1>4. \A s \in SUBSET (1..n) :
        h[s] = IF s = {} THEN st ELSE Step(fold, h[s \ {Max(s)}], out[Max(s)])
  <2> HIDE DEF h
  <2> QED BY <1>1, <1>2, Zenon
<1>5. h = [s \in SUBSET (1..n) |->
             IF s = {} THEN st ELSE Step(fold, h[s \ {Max(s)}], out[Max(s)])]
  <2> HIDE DEF h
  <2> QED BY <1>3, <1>4, Zenon
<1>6. Stages(fold, h, n, st, out)
  <2> HIDE DEF h
  <2> QED BY <1>5, Zenon DEF Stages
<1> QED BY <1>6

LEMMA StagesExist ==
    ASSUME NEW fold, NEW st, NEW out, NEW n \in Nat
    PROVE  \E g : Stages(fold, g, n, st, out)
<1> DEFINE Missing == {m \in Nat : ~ \E g : Stages(fold, g, m, st, out)}
<1>1. \E g : Stages(fold, g, 0, st, out)
  <2> DEFINE g == [s \in SUBSET (1..0) |-> st]
  <2>1. \A s \in SUBSET (1..0) : s = {}
    OBVIOUS
  <2>2. g = [s \in SUBSET (1..0) |->
               IF s = {} THEN st ELSE Step(fold, g[s \ {Max(s)}], out[Max(s)])]
    BY <2>1
  <2>3. Stages(fold, g, 0, st, out)
    <3> HIDE DEF g
    <3> QED BY <2>2, Zenon DEF Stages
  <2> QED BY <2>3
<1>2. SUFFICES Missing = {}
  OBVIOUS
<1>3. SUFFICES ASSUME Missing # {} PROVE FALSE
  OBVIOUS
<1>4. PICK m \in Missing : \A y \in Missing : m <= y
  <2> Missing \subseteq Nat
    OBVIOUS
  <2> HIDE DEF Missing
  <2> QED BY <1>3, LeastNatural
<1>5. m \in Nat /\ m # 0
  BY <1>1, <1>4
<1>6. PICK p \in Nat : m = p + 1
  <2> m - 1 \in Nat /\ m = (m - 1) + 1
    BY <1>5
  <2> QED OBVIOUS
<1>7. p \notin Missing
  <2> HIDE DEF Missing
  <2> QED BY <1>4, <1>6
<1>8. PICK g : Stages(fold, g, p, st, out)
  BY <1>7
<1>9. \E h : Stages(fold, h, m, st, out)
  <2> HIDE DEF Missing
  <2> QED BY <1>5, <1>6, <1>8, StagesGrow
<1> QED BY <1>4, <1>9

(* A fold goes through stages: it starts from st, and each element makes   *)
(* the next stage of the one before.                                       *)
ByStages(fold, f, n, st, out) ==
    /\ f[0] = st
    /\ \A i \in 1..n : f[i] = Step(fold, f[i - 1], out[i])

LEMMA StageByStage ==
    ASSUME NEW fold, NEW st, NEW n \in Nat, NEW out, NEW g, Stages(fold, g, n, st, out)
    PROVE  \E f : ByStages(fold, f, n, st, out) /\ f[n] = g[1..n]
<1> DEFINE f == [i \in 0..n |-> g[1..i]]
<1>2. \A s \in SUBSET (1..n) :
        g[s] = IF s = {} THEN st ELSE Step(fold, g[s \ {Max(s)}], out[Max(s)])
  BY Zenon DEF Stages
<1>3. f[0] = st
  <2>1. 1..0 = {} /\ {} \in SUBSET (1..n) /\ 0 \in 0..n
    OBVIOUS
  <2>2. f[0] = g[1..0]
    BY <2>1
  <2> HIDE DEF f
  <2> QED BY <1>2, <2>1, <2>2, Zenon
<1>4. ASSUME NEW i \in 1..n PROVE f[i] = Step(fold, f[i - 1], out[i])
  <2>1. 1..i \in SUBSET (1..n) /\ i \in 1..i /\ i \in Nat /\ 1..i # {}
    OBVIOUS
  <2>2. Max(1..i) = i
    BY <2>1, MaxIs
  <2>3. (1..i) \ {i} = 1..(i - 1)
    OBVIOUS
  <2>4. f[i] = g[1..i] /\ f[i - 1] = g[1..(i - 1)]
    BY <2>1
  <2>5. g[1..i] = Step(fold, g[(1..i) \ {Max(1..i)}], out[Max(1..i)])
    BY <1>2, <2>1, Zenon
  <2> HIDE DEF f
  <2> QED BY <2>2, <2>3, <2>4, <2>5, Zenon
<1>5. f[n] = g[1..n]
  OBVIOUS
<1> HIDE DEF f
<1> QED BY <1>3, <1>4, <1>5 DEF ByStages
(* A fold has one result: it starts from st, and one more element is one   *)
(* more step.                                                              *)
Result(fold, st, out, r) ==
    \E f : ByStages(fold, f, Len(out), st, out) /\ f[Len(out)] = r

LEMMA SameStages ==
    ASSUME NEW fold, NEW st, NEW n \in Nat, NEW m \in Nat, NEW out1, NEW out2, n <= m,
           \A i \in 1..n : out1[i] = out2[i],
           NEW f, ByStages(fold, f, n, st, out1), NEW g, ByStages(fold, g, m, st, out2)
    PROVE  f[n] = g[n]
<1> DEFINE Differ == {i \in 0..n : f[i] # g[i]}
<1>1. SUFFICES ASSUME Differ # {} PROVE FALSE
  OBVIOUS
<1>2. Differ \subseteq Nat
  OBVIOUS
<1>3. \A i \in 1..n : i \in 1..m
  OBVIOUS
<1> HIDE DEF Differ
<1>4. PICK i \in Differ : \A j \in Differ : i <= j
  BY <1>1, <1>2, LeastNatural
<1>5. i # 0
  BY <1>4 DEF ByStages, Differ
<1>6. i \in 1..n /\ i - 1 \in 0..n /\ ~(i <= i - 1) /\ f[i] # g[i]
  BY <1>4, <1>5 DEF Differ
<1>7. f[i - 1] = g[i - 1]
  BY <1>4, <1>6 DEF Differ
<1>8. f[i] = Step(fold, f[i - 1], out1[i]) /\ g[i] = Step(fold, g[i - 1], out2[i])
  BY <1>3, <1>6, Zenon DEF ByStages
<1> QED BY <1>6, <1>7, <1>8, Zenon

LEMMA ResultEmpty ==
    ASSUME NEW fold, NEW st, NEW r, Result(fold, st, <<>>, r)
    PROVE  r = st
BY DEF Result, ByStages

LEMMA ResultAppend ==
    ASSUME NEW S, NEW fold, NEW st, NEW out \in Seq(S), NEW e \in S, NEW r1, NEW r2,
           Result(fold, st, out, r1), Result(fold, st, Append(out, e), r2)
    PROVE  r2 = Step(fold, r1, e)
<1> DEFINE more == Append(out, e)
           n == Len(out)
<1>1. n \in Nat /\ Len(more) = n + 1 /\ more[n + 1] = e /\ \A i \in 1..n : out[i] = more[i]
  OBVIOUS
<1>2. PICK f : ByStages(fold, f, n, st, out) /\ f[n] = r1
  BY DEF Result
<1>3. PICK g : ByStages(fold, g, n + 1, st, more) /\ g[n + 1] = r2
  BY <1>1 DEF Result
<1> HIDE DEF more, n
<1>4. n + 1 \in Nat /\ n <= n + 1 /\ n + 1 \in 1..(n + 1) /\ (n + 1) - 1 = n
  BY <1>1
<1>5. f[n] = g[n]
  BY <1>1, <1>2, <1>3, <1>4, SameStages
<1>6. g[n + 1] = Step(fold, g[(n + 1) - 1], more[n + 1])
  BY <1>3, <1>4, Zenon DEF ByStages
<1> QED BY <1>1, <1>2, <1>3, <1>4, <1>5, <1>6, Zenon

(* What holds of the empty list, and of a list with one more element when  *)
(* it holds of the list, holds of every list.                              *)
LEMMA EveryList ==
    ASSUME NEW S, NEW Good, <<>> \in Good,
           \A s \in Seq(S), e \in S : s \in Good => Append(s, e) \in Good
    PROVE  Seq(S) \subseteq Good
<1> DEFINE Bad == {n \in Nat : \E s \in Seq(S) : Len(s) = n /\ s \notin Good}
<1>1. SUFFICES ASSUME NEW s0 \in Seq(S), s0 \notin Good PROVE FALSE
  OBVIOUS
<1>2. Len(s0) \in Bad /\ Bad \subseteq Nat
  BY <1>1
<1> HIDE DEF Bad
<1>3. PICK n \in Bad : \A m \in Bad : n <= m
  BY <1>2, LeastNatural
<1>4. PICK s \in Seq(S) : Len(s) = n /\ s \notin Good
  BY <1>3 DEF Bad
<1>5. n # 0 /\ n \in Nat
  BY <1>2, <1>3, <1>4
<1>6. PICK m \in Nat : m = n - 1
  BY <1>5
<1> DEFINE t == SubSeq(s, 1, m)
<1>7. t \in Seq(S) /\ Len(t) = m /\ s[n] \in S /\ s = Append(t, s[n])
  BY <1>4, <1>5, <1>6
<1> HIDE DEF t
<1>8. t \in Good
  BY <1>3, <1>5, <1>6, <1>7 DEF Bad
<1> QED BY <1>4, <1>7, <1>8

-----------------------------------------------------------------------------
(* Each of the folds of the model is the result of its steps.              *)

LEMMA RetainResult ==
    ASSUME NEW kept, NEW out, NEW n \in Nat, DOMAIN out = 1..n, Len(out) = n
    PROVE  Result([op |-> "retain", kept |-> kept], <<>>, out, Retain(out, kept))
<1> DEFINE fold == [op |-> "retain", kept |-> kept]
           Is(g) == g = [s \in SUBSET (1..n) |->
                          IF s = {} THEN <<>> ELSE (IF out[Max(s)] \in kept THEN Append(g[s \ {Max(s)}], out[Max(s)]) ELSE g[s \ {Max(s)}])]
<1>1. \A g : Is(g) <=> Stages(fold, g, n, <<>>, out)
  BY DEF Stages, Step
<1>2. Retain(out, kept) = (CHOOSE g : Is(g))[1..n]
  BY DEF Retain, FoldLeft, MapThenFoldSet
<1>3. \E g : Is(g)
  <2> HIDE DEF Is, fold
  <2> QED BY <1>1, StagesExist
<1> DEFINE G == CHOOSE g : Is(g)
<1>4. Is(G)
  <2> HIDE DEF Is
  <2> QED BY <1>3, Zenon
<1>5. Retain(out, kept) = G[1..n]
  BY <1>2, Zenon
<1> HIDE DEF Is, G, fold
<1>6. Stages(fold, G, n, <<>>, out)
  BY <1>1, <1>4
<1>7. \E f : ByStages(fold, f, n, <<>>, out) /\ f[n] = G[1..n]
  BY <1>6, StageByStage
<1> QED BY <1>5, <1>7, Zenon DEF Result, fold

LEMMA PushResult ==
    ASSUME NEW q, NEW out, NEW n \in Nat, DOMAIN out = 1..n, Len(out) = n
    PROVE  Result([op |-> "push"], q, out, PushAll(q, out))
<1> DEFINE fold == [op |-> "push"]
           Is(g) == g = [s \in SUBSET (1..n) |->
                          IF s = {} THEN q ELSE PushSmol(g[s \ {Max(s)}], out[Max(s)])]
<1>1. \A g : Is(g) <=> Stages(fold, g, n, q, out)
  BY DEF Stages, Step
<1>2. PushAll(q, out) = (CHOOSE g : Is(g))[1..n]
  BY DEF PushAll, FoldLeft, MapThenFoldSet
<1>3. \E g : Is(g)
  <2> HIDE DEF Is, fold
  <2> QED BY <1>1, StagesExist
<1> DEFINE G == CHOOSE g : Is(g)
<1>4. Is(G)
  <2> HIDE DEF Is
  <2> QED BY <1>3, Zenon
<1>5. PushAll(q, out) = G[1..n]
  BY <1>2, Zenon
<1> HIDE DEF Is, G, fold
<1>6. Stages(fold, G, n, q, out)
  BY <1>1, <1>4
<1>7. \E f : ByStages(fold, f, n, q, out) /\ f[n] = G[1..n]
  BY <1>6, StageByStage
<1> QED BY <1>5, <1>7, Zenon DEF Result, fold

LEMMA EndResult ==
    ASSUME NEW active, NEW out, NEW n \in Nat, DOMAIN out = 1..n, Len(out) = n
    PROVE  Result([op |-> "end"], active, out, EndByReleases(active, out))
<1> DEFINE fold == [op |-> "end"]
           Is(g) == g = [s \in SUBSET (1..n) |->
                          IF s = {} THEN active ELSE (IF out[Max(s)].press THEN g[s \ {Max(s)}] ELSE ReleaseInChords(g[s \ {Max(s)}], out[Max(s)].coord[2]))]
<1>1. \A g : Is(g) <=> Stages(fold, g, n, active, out)
  BY DEF Stages, Step
<1>2. EndByReleases(active, out) = (CHOOSE g : Is(g))[1..n]
  BY DEF EndByReleases, FoldLeft, MapThenFoldSet
<1>3. \E g : Is(g)
  <2> HIDE DEF Is, fold
  <2> QED BY <1>1, StagesExist
<1> DEFINE G == CHOOSE g : Is(g)
<1>4. Is(G)
  <2> HIDE DEF Is
  <2> QED BY <1>3, Zenon
<1>5. EndByReleases(active, out) = G[1..n]
  BY <1>2, Zenon
<1> HIDE DEF Is, G, fold
<1>6. Stages(fold, G, n, active, out)
  BY <1>1, <1>4
<1>7. \E f : ByStages(fold, f, n, active, out) /\ f[n] = G[1..n]
  BY <1>6, StageByStage
<1> QED BY <1>5, <1>7, Zenon DEF Result, fold

LEMMA ForwardResult ==
    ASSUME NEW held, NEW out, NEW n \in Nat, DOMAIN out = 1..n, Len(out) = n
    PROVE  Result([op |-> "forward"], held, out, FoldLeft(Forward, held, out))
<1> DEFINE fold == [op |-> "forward"]
           Is(g) == g = [s \in SUBSET (1..n) |->
                          IF s = {} THEN held ELSE Forward(g[s \ {Max(s)}], out[Max(s)])]
<1>1. \A g : Is(g) <=> Stages(fold, g, n, held, out)
  BY DEF Stages, Step
<1>2. FoldLeft(Forward, held, out) = (CHOOSE g : Is(g))[1..n]
  BY DEF FoldLeft, MapThenFoldSet
<1>3. \E g : Is(g)
  <2> HIDE DEF Is, fold
  <2> QED BY <1>1, StagesExist
<1> DEFINE G == CHOOSE g : Is(g)
<1>4. Is(G)
  <2> HIDE DEF Is
  <2> QED BY <1>3, Zenon
<1>5. FoldLeft(Forward, held, out) = G[1..n]
  BY <1>2, Zenon
<1> HIDE DEF Is, G, fold
<1>6. Stages(fold, G, n, held, out)
  BY <1>1, <1>4
<1>7. \E f : ByStages(fold, f, n, held, out) /\ f[n] = G[1..n]
  BY <1>6, StageByStage
<1> QED BY <1>5, <1>7, Zenon DEF Result, fold

LEMMA ConsiderResult ==
    ASSUME NEW cf, NEW C, NEW possible, NEW ups, NEW out, NEW n \in Nat, DOMAIN out = 1..n, Len(out) = n
    PROVE  Result([op |-> "consider", cv |-> cf, possible |-> possible, ups |-> ups], NoneSeen(C), out, ConsiderPresses(cf, C, possible, out, ups))
<1> DEFINE fold == [op |-> "consider", cv |-> cf, possible |-> possible, ups |-> ups]
           Is(g) == g = [s \in SUBSET (1..n) |->
                          IF s = {} THEN NoneSeen(C) ELSE ConsiderPress(cf, possible, ups, g[s \ {Max(s)}],
                                                       WithPress(possible, g[s \ {Max(s)}], out[Max(s)]))]
<1>1. \A g : Is(g) <=> Stages(fold, g, n, NoneSeen(C), out)
  BY DEF Stages, Step
<1>2. ConsiderPresses(cf, C, possible, out, ups) = (CHOOSE g : Is(g))[1..n]
  BY DEF ConsiderPresses, FoldLeft, MapThenFoldSet
<1>3. \E g : Is(g)
  <2> HIDE DEF Is, fold
  <2> QED BY <1>1, StagesExist
<1> DEFINE G == CHOOSE g : Is(g)
<1>4. Is(G)
  <2> HIDE DEF Is
  <2> QED BY <1>3, Zenon
<1>5. ConsiderPresses(cf, C, possible, out, ups) = G[1..n]
  BY <1>2, Zenon
<1> HIDE DEF Is, G, fold
<1>6. Stages(fold, G, n, NoneSeen(C), out)
  BY <1>1, <1>4
<1>7. \E f : ByStages(fold, f, n, NoneSeen(C), out) /\ f[n] = G[1..n]
  BY <1>6, StageByStage
<1> QED BY <1>5, <1>7, Zenon DEF Result, fold

-----------------------------------------------------------------------------
(* Retain, element by element.                                             *)
LEMMA RetainEmpty ==
    ASSUME NEW kept PROVE Retain(<<>>, kept) = <<>>
<1> DEFINE fold == [op |-> "retain", kept |-> kept]
<1>1. Result(fold, <<>>, <<>>, Retain(<<>>, kept))
  BY RetainResult
<1> HIDE DEF fold
<1> QED BY <1>1, ResultEmpty

LEMMA RetainAppend ==
    ASSUME NEW S, NEW s \in Seq(S), NEW e \in S, NEW kept
    PROVE  Retain(Append(s, e), kept) =
               IF e \in kept THEN Append(Retain(s, kept), e) ELSE Retain(s, kept)
<1> DEFINE fold == [op |-> "retain", kept |-> kept]
           t == Append(s, e)
<1>1. Result(fold, <<>>, s, Retain(s, kept))
  BY RetainResult
<1>2. DOMAIN t = 1..Len(t) /\ Len(t) \in Nat
  OBVIOUS
<1>3. Result(fold, <<>>, t, Retain(t, kept))
  <2> HIDE DEF t
  <2> QED BY <1>2, RetainResult
<1>4. Retain(t, kept) = Step(fold, Retain(s, kept), e)
  <2> HIDE DEF fold
  <2> QED BY <1>1, <1>3, ResultAppend
<1> HIDE DEF t
<1>5. Step(fold, Retain(s, kept), e) =
        IF e \in kept THEN Append(Retain(s, kept), e) ELSE Retain(s, kept)
  BY DEF Step
<1> QED BY <1>4, <1>5 DEF t

(* The same of the other folds.                                            *)
LEMMA PushEmpty ==
    ASSUME NEW q PROVE PushAll(q, <<>>) = q
BY PushResult, ResultEmpty

LEMMA PushAppend ==
    ASSUME NEW S, NEW s \in Seq(S), NEW e \in S, NEW q
    PROVE  PushAll(q, Append(s, e)) = PushSmol(PushAll(q, s), e)
<1> DEFINE fold == [op |-> "push"]
           t == Append(s, e)
<1>1. Result(fold, q, s, PushAll(q, s))
  BY PushResult
<1>2. DOMAIN t = 1..Len(t) /\ Len(t) \in Nat
  OBVIOUS
<1>3. Result(fold, q, t, PushAll(q, t))
  <2> HIDE DEF t
  <2> QED BY <1>2, PushResult
<1>4. PushAll(q, t) = Step(fold, PushAll(q, s), e)
  <2> HIDE DEF fold
  <2> QED BY <1>1, <1>3, ResultAppend
<1> HIDE DEF t
<1>5. Step(fold, PushAll(q, s), e) = PushSmol(PushAll(q, s), e)
  BY DEF Step
<1> QED BY <1>4, <1>5 DEF t

LEMMA EndEmpty ==
    ASSUME NEW active PROVE EndByReleases(active, <<>>) = active
BY EndResult, ResultEmpty

LEMMA EndAppend ==
    ASSUME NEW S, NEW s \in Seq(S), NEW e \in S, NEW active
    PROVE  EndByReleases(active, Append(s, e)) =
               IF e.press THEN EndByReleases(active, s)
               ELSE ReleaseInChords(EndByReleases(active, s), e.coord[2])
<1> DEFINE fold == [op |-> "end"]
           t == Append(s, e)
<1>1. Result(fold, active, s, EndByReleases(active, s))
  BY EndResult
<1>2. DOMAIN t = 1..Len(t) /\ Len(t) \in Nat
  OBVIOUS
<1>3. Result(fold, active, t, EndByReleases(active, t))
  <2> HIDE DEF t
  <2> QED BY <1>2, EndResult
<1>4. EndByReleases(active, t) = Step(fold, EndByReleases(active, s), e)
  <2> HIDE DEF fold
  <2> QED BY <1>1, <1>3, ResultAppend
<1> HIDE DEF t
<1>5. Step(fold, EndByReleases(active, s), e) =
        IF e.press THEN EndByReleases(active, s)
        ELSE ReleaseInChords(EndByReleases(active, s), e.coord[2])
  BY DEF Step
<1> QED BY <1>4, <1>5 DEF t

LEMMA ForwardEmpty ==
    ASSUME NEW held PROVE FoldLeft(Forward, held, <<>>) = held
BY ForwardResult, ResultEmpty

LEMMA ForwardAppend ==
    ASSUME NEW S, NEW s \in Seq(S), NEW e \in S, NEW held
    PROVE  FoldLeft(Forward, held, Append(s, e)) = Forward(FoldLeft(Forward, held, s), e)
<1> DEFINE fold == [op |-> "forward"]
           t == Append(s, e)
<1>1. Result(fold, held, s, FoldLeft(Forward, held, s))
  BY ForwardResult
<1>2. DOMAIN t = 1..Len(t) /\ Len(t) \in Nat
  OBVIOUS
<1>3. Result(fold, held, t, FoldLeft(Forward, held, t))
  <2> HIDE DEF t
  <2> QED BY <1>2, ForwardResult
<1>4. FoldLeft(Forward, held, t) = Step(fold, FoldLeft(Forward, held, s), e)
  <2> HIDE DEF fold
  <2> QED BY <1>1, <1>3, ResultAppend
<1> HIDE DEF t
<1>5. Step(fold, FoldLeft(Forward, held, s), e) = Forward(FoldLeft(Forward, held, s), e)
  BY DEF Step
<1> QED BY <1>4, <1>5 DEF t

LEMMA ConsiderEmpty ==
    ASSUME NEW cf, NEW C, NEW possible, NEW ups
    PROVE  ConsiderPresses(cf, C, possible, <<>>, ups) = NoneSeen(C)
<1> DEFINE fold == [op |-> "consider", cv |-> cf, possible |-> possible, ups |-> ups]
<1>1. Result(fold, NoneSeen(C), <<>>, ConsiderPresses(cf, C, possible, <<>>, ups))
  BY ConsiderResult
<1> HIDE DEF fold
<1> QED BY <1>1, ResultEmpty

LEMMA ConsiderAppend ==
    ASSUME NEW S, NEW s \in Seq(S), NEW e \in S, NEW cf, NEW C, NEW possible, NEW ups, NEW st,
           st = ConsiderPresses(cf, C, possible, s, ups)
    PROVE  ConsiderPresses(cf, C, possible, Append(s, e), ups) =
               ConsiderPress(cf, possible, ups, st, WithPress(possible, st, e))
<1> DEFINE fold == [op |-> "consider", cv |-> cf, possible |-> possible, ups |-> ups]
           t == Append(s, e)
<1>1. Result(fold, NoneSeen(C), s, st)
  BY ConsiderResult
<1>2. DOMAIN t = 1..Len(t) /\ Len(t) \in Nat
  OBVIOUS
<1>3. Result(fold, NoneSeen(C), t, ConsiderPresses(cf, C, possible, t, ups))
  <2> HIDE DEF t
  <2> QED BY <1>2, ConsiderResult
<1>4. ConsiderPresses(cf, C, possible, t, ups) = Step(fold, st, e)
  <2> HIDE DEF fold
  <2> QED BY <1>1, <1>3, ResultAppend
<1> HIDE DEF t
<1>5. Step(fold, st, e) = ConsiderPress(cf, possible, ups, st, WithPress(possible, st, e))
  BY DEF Step
<1> QED BY <1>4, <1>5 DEF t

-----------------------------------------------------------------------------
(* What Retain does to a list as a whole.                                  *)
LEMMA ToSetAppend ==
    ASSUME NEW S, NEW s \in Seq(S), NEW e \in S
    PROVE  /\ Append(s, e) \in Seq(S) /\ Len(Append(s, e)) = Len(s) + 1
           /\ ToSet(Append(s, e)) = ToSet(s) \cup {e}
<1> DEFINE t == Append(s, e)
<1>1. t \in Seq(S) /\ Len(t) = Len(s) + 1 /\ Len(s) \in Nat
  OBVIOUS
<1>2. DOMAIN t = DOMAIN s \cup {Len(s) + 1} /\ t[Len(s) + 1] = e /\ \A i \in DOMAIN s : t[i] = s[i]
  OBVIOUS
<1> HIDE DEF t
<1>3. {t[i] : i \in DOMAIN t} = {s[i] : i \in DOMAIN s} \cup {e}
  BY <1>2
<1> QED BY <1>1, <1>3 DEF ToSet, t

LEMMA ToSetEmpty == ToSet(<<>>) = {} /\ (\A S : <<>> \in Seq(S)) /\ Len(<<>>) = 0
BY DEF ToSet

LEMMA RetainIn ==
    ASSUME NEW S, NEW q \in Seq(S), NEW kept
    PROVE  /\ Retain(q, kept) \in Seq(S) /\ Len(Retain(q, kept)) <= Len(q)
           /\ ToSet(Retain(q, kept)) = ToSet(q) \cap kept
<1> DEFINE Good == {s \in Seq(S) : /\ Retain(s, kept) \in Seq(S) /\ Len(Retain(s, kept)) <= Len(s)
                                   /\ ToSet(Retain(s, kept)) = ToSet(s) \cap kept}
<1>1. <<>> \in Good
  <2>1. <<>> \in Seq(S) /\ Len(<<>>) <= Len(<<>>)
    OBVIOUS
  <2> QED BY <2>1, RetainEmpty, ToSetEmpty
<1>2. ASSUME NEW s \in Seq(S), NEW e \in S, s \in Good PROVE Append(s, e) \in Good
  <2> DEFINE r == Retain(s, kept)
  <2>1. r \in Seq(S) /\ Len(r) <= Len(s) /\ ToSet(r) = ToSet(s) \cap kept
    BY <1>2
  <2>2. Retain(Append(s, e), kept) = IF e \in kept THEN Append(r, e) ELSE r
    BY RetainAppend
  <2>3. /\ Append(s, e) \in Seq(S) /\ Len(Append(s, e)) = Len(s) + 1
        /\ ToSet(Append(s, e)) = ToSet(s) \cup {e}
    BY ToSetAppend
  <2>4. /\ Append(r, e) \in Seq(S) /\ Len(Append(r, e)) = Len(r) + 1
        /\ ToSet(Append(r, e)) = ToSet(r) \cup {e}
    BY <2>1, ToSetAppend
  <2> HIDE DEF r
  <2>5. Len(r) \in Nat /\ Len(s) \in Nat
    BY <2>1
  <2>6. ASSUME e \in kept
        PROVE  /\ Retain(Append(s, e), kept) \in Seq(S)
               /\ Len(Retain(Append(s, e), kept)) <= Len(Append(s, e))
               /\ ToSet(Retain(Append(s, e), kept)) = ToSet(Append(s, e)) \cap kept
    BY <2>1, <2>2, <2>3, <2>4, <2>5, <2>6
  <2>7. ASSUME e \notin kept
        PROVE  /\ Retain(Append(s, e), kept) \in Seq(S)
               /\ Len(Retain(Append(s, e), kept)) <= Len(Append(s, e))
               /\ ToSet(Retain(Append(s, e), kept)) = ToSet(Append(s, e)) \cap kept
    BY <2>1, <2>2, <2>3, <2>5, <2>7
  <2> QED BY <2>3, <2>6, <2>7
<1> HIDE DEF Good
<1>3. q \in Good
  BY <1>1, <1>2, EveryList
<1> QED BY <1>3 DEF Good

LEMMA RetainFirst ==
    ASSUME NEW S, NEW q \in Seq(S), NEW kept, q # <<>>, q[1] \in kept
    PROVE  Retain(q, kept) # <<>> /\ Retain(q, kept)[1] = q[1]
<1> DEFINE Starts(s) == s # <<>> /\ s[1] \in kept =>
                            Retain(s, kept) # <<>> /\ Retain(s, kept)[1] = s[1]
           Good == {s \in Seq(S) : Starts(s)}
<1>1. <<>> \in Good
  OBVIOUS
<1>2. ASSUME NEW s \in Seq(S), NEW e \in S, s \in Good PROVE Append(s, e) \in Good
  <2> DEFINE r == Retain(s, kept)
  <2>1. r \in Seq(S)
    BY RetainIn
  <2>2. Retain(Append(s, e), kept) = IF e \in kept THEN Append(r, e) ELSE r
    BY RetainAppend
  <2>3. ASSUME s # <<>> PROVE Starts(Append(s, e))
    <3>1. Append(s, e)[1] = s[1]
      BY <2>3
    <3>2. s[1] \in kept => r # <<>> /\ r[1] = s[1] /\ Append(r, e)[1] = r[1]
      BY <1>2, <2>1, <2>3
    <3>3. Append(r, e) # <<>>
      BY <2>1
    <3> HIDE DEF r
    <3> QED BY <2>2, <3>1, <3>2, <3>3
  <2>4. ASSUME s = <<>> PROVE Starts(Append(s, e))
    <3>1. r = <<>> /\ Append(s, e)[1] = e
      BY <2>4, RetainEmpty
    <3> HIDE DEF r
    <3>2. Append(r, e) # <<>> /\ Append(r, e)[1] = e
      BY <3>1
    <3> QED BY <2>2, <3>1, <3>2
  <2> HIDE DEF Starts
  <2> QED BY <2>3, <2>4, ToSetAppend
<1> HIDE DEF Good
<1>3. q \in Good
  BY <1>1, <1>2, EveryList
<1> QED BY <1>3 DEF Good

(* Older events are in front, and stay there.                              *)
Sorted(q) == \A i, j \in DOMAIN q : i <= j => q[j].since <= q[i].since

LEMMA SortedAppend ==
    ASSUME NEW S, \A e \in S : e.since \in Nat, NEW s \in Seq(S), NEW e \in S
    PROVE  Sorted(Append(s, e)) <=> Sorted(s) /\ \A x \in ToSet(s) : e.since <= x.since
<1>1. /\ DOMAIN s = 1..Len(s) /\ DOMAIN Append(s, e) = 1..(Len(s) + 1) /\ Len(s) \in Nat
      /\ Append(s, e)[Len(s) + 1] = e /\ \A i \in 1..Len(s) : Append(s, e)[i] = s[i] /\ s[i] \in S
  OBVIOUS
<1> DEFINE t == Append(s, e)
<1> HIDE DEF t
<1>2. ASSUME Sorted(t), NEW i \in DOMAIN s PROVE e.since <= s[i].since
  <2>1. i \in DOMAIN t /\ Len(s) + 1 \in DOMAIN t /\ i <= Len(s) + 1
    BY <1>1 DEF t
  <2>2. t[Len(s) + 1].since <= t[i].since
    BY <1>2, <2>1 DEF Sorted
  <2> QED BY <1>1, <2>2 DEF t
<1>3. ASSUME Sorted(t), NEW i \in DOMAIN s, NEW j \in DOMAIN s, i <= j PROVE s[j].since <= s[i].since
  <2>1. i \in DOMAIN t /\ j \in DOMAIN t
    BY <1>1 DEF t
  <2>2. t[j].since <= t[i].since
    BY <1>3, <2>1 DEF Sorted
  <2> QED BY <1>1, <2>2 DEF t
<1>4. ASSUME Sorted(s), \A x \in ToSet(s) : e.since <= x.since,
             NEW i \in DOMAIN t, NEW j \in DOMAIN t, i <= j
      PROVE  t[j].since <= t[i].since
  <2>1. CASE j \in DOMAIN s
    <3>1. i \in DOMAIN s
      BY <1>1, <1>4, <2>1 DEF t
    <3> QED BY <1>1, <1>4, <2>1, <3>1 DEF t, Sorted
  <2>2. CASE j \notin DOMAIN s
    <3>1. j = Len(s) + 1 /\ t[j] = e
      BY <1>1, <2>2 DEF t
    <3>2. CASE i = j
      BY <3>1, <3>2
    <3>3. CASE i # j
      <4>1. i \in DOMAIN s /\ t[i] = s[i] /\ s[i] \in ToSet(s)
        BY <1>1, <1>4, <3>1, <3>3 DEF t, ToSet
      <4> QED BY <1>4, <3>1, <4>1
    <3> QED BY <3>2, <3>3
  <2> QED BY <2>1, <2>2
<1>5. ToSet(s) = {s[i] : i \in DOMAIN s}
  BY DEF ToSet
<1>6. Sorted(t) => Sorted(s) /\ \A x \in ToSet(s) : e.since <= x.since
  BY <1>2, <1>3, <1>5 DEF Sorted
<1>7. Sorted(s) /\ (\A x \in ToSet(s) : e.since <= x.since) => Sorted(t)
  <2> SUFFICES ASSUME Sorted(s), \A x \in ToSet(s) : e.since <= x.since PROVE Sorted(t)
    OBVIOUS
  <2> QED BY <1>4 DEF Sorted
<1> QED BY <1>6, <1>7 DEF t

LEMMA RetainSorted ==
    ASSUME NEW S, \A e \in S : e.since \in Nat, NEW q \in Seq(S), NEW kept, Sorted(q)
    PROVE  Sorted(Retain(q, kept))
<1> DEFINE Good == {s \in Seq(S) : Sorted(s) => Sorted(Retain(s, kept))}
<1>1. <<>> \in Good
  BY RetainEmpty DEF Sorted
<1>2. ASSUME NEW s \in Seq(S), NEW e \in S, s \in Good PROVE Append(s, e) \in Good
  <2> DEFINE r == Retain(s, kept)
  <2>1. r \in Seq(S) /\ ToSet(r) \subseteq ToSet(s)
    BY RetainIn
  <2>2. Retain(Append(s, e), kept) = IF e \in kept THEN Append(r, e) ELSE r
    BY RetainAppend
  <2>3. SUFFICES ASSUME Sorted(Append(s, e)) PROVE Sorted(Retain(Append(s, e), kept))
    OBVIOUS
  <2>4. Sorted(s) /\ \A x \in ToSet(s) : e.since <= x.since
    BY <2>3, SortedAppend
  <2>5. Sorted(r)
    BY <1>2, <2>4
  <2> HIDE DEF r
  <2>6. Sorted(Append(r, e))
    BY <2>1, <2>4, <2>5, SortedAppend
  <2> QED BY <2>2, <2>5, <2>6
<1> HIDE DEF Good
<1>3. q \in Good
  BY <1>1, <1>2, EveryList
<1> QED BY <1>3 DEF Good

-----------------------------------------------------------------------------
(* The least and the greatest of a set of naturals.                        *)
LEMMA MinNatIs ==
    ASSUME NEW T, T \subseteq Nat, T # {}
    PROVE  MinNat(T) \in T /\ \A n \in T : MinNat(T) <= n
<1>1. \E n \in T : \A m \in T : n <= m
  BY LeastNatural
<1> QED BY <1>1, Zenon DEF MinNat

LEMMA MaxNatIs ==
    ASSUME NEW top \in Nat, NEW T, T \subseteq 0..top, 0 \in T
    PROVE  MaxNat(T) \in T /\ \A n \in T : n <= MaxNat(T)
<1> DEFINE Above == {n \in Nat : \A m \in T : m <= n}
<1>1. top \in Above /\ Above \subseteq Nat
  OBVIOUS
<1>2. PICK n \in Above : \A m \in Above : n <= m
  <2> HIDE DEF Above
  <2> QED BY <1>1, LeastNatural
<1>3. n \in T
  <2> SUFFICES ASSUME n \notin T PROVE FALSE
    OBVIOUS
  <2>1. n - 1 \in Nat /\ \A m \in T : m <= n - 1
    <3>1. n \in Nat /\ \A m \in T : m \in Nat /\ m <= n /\ m # n
      BY <1>2
    <3>2. 0 # n
      BY <3>1
    <3> QED BY <3>1, <3>2
  <2>2. n - 1 \in Above
    BY <2>1
  <2> QED BY <1>1, <1>2, <2>2
<1>4. \E x \in T : \A m \in T : m <= x
  BY <1>2, <1>3
<1> QED BY <1>4, Zenon DEF MaxNat

Longest(cf) == MaxNat({0} \cup {ch.pending : ch \in cf.chords})

LEMMA ConfigIs ==
    ASSUME NEW cf, IsConfig(cf)
    PROVE  /\ cf.coords \subseteq Coords /\ cf.minIdle \in Nat /\ cf.minIdle >= 5
           /\ cf.NumCoords \in Nat /\ cf.NumCoords > SmolLen
           /\ \A ch \in cf.chords : /\ ch.keys # {} /\ \A k \in ch.keys : <<0, k>> \in Coords
                                    /\ ch.pending \in 1..U16Max /\ ch.release \in {"all", "first"}
<1>1. ASSUME NEW ch \in cf.chords
      PROVE  /\ ch.keys # {} /\ \A k \in ch.keys : <<0, k>> \in Coords
             /\ ch.pending \in 1..U16Max /\ ch.release \in {"all", "first"}
  <2>1. IsChord(ch)
    BY Zenon DEF IsConfig
  <2> QED BY <2>1, Zenon DEF IsChord
<1>2. /\ cf.coords \subseteq Coords /\ cf.minIdle \in Nat /\ cf.minIdle >= 5
      /\ cf.NumCoords \in Nat /\ cf.NumCoords > SmolLen
  BY Zenon DEF IsConfig
<1> QED BY <1>1, <1>2, Zenon

LEMMA LongestIs ==
    ASSUME NEW cf, IsConfig(cf)
    PROVE  Longest(cf) \in Nat /\ \A ch \in cf.chords : ch.pending \in Nat /\ ch.pending <= Longest(cf)
<1> DEFINE T == {0} \cup {ch.pending : ch \in cf.chords}
<1>0. PICK top \in Nat : top = U16Max
  BY DEF U16Max
<1>1. \A ch \in cf.chords : ch.pending \in 1..top
  BY <1>0, ConfigIs, Zenon
<1>2. T \subseteq 0..top /\ 0 \in T
  <2>1. \A n \in 1..top : n \in 0..top
    OBVIOUS
  <2>2. 0 \in 0..top
    OBVIOUS
  <2> QED BY <1>1, <2>1, <2>2, Zenon
<1>3. \A ch \in cf.chords : ch.pending \in T
  OBVIOUS
<1>4. Longest(cf) = MaxNat(T)
  BY DEF Longest
<1> HIDE DEF T
<1>5. MaxNat(T) \in T /\ \A n \in T : n <= MaxNat(T)
  BY <1>2, MaxNatIs
<1>6. \A n \in 0..top : n \in Nat
  OBVIOUS
<1>7. T \subseteq Nat
  BY <1>2, <1>6, Zenon
<1> QED BY <1>3, <1>4, <1>5, <1>7, Zenon

-----------------------------------------------------------------------------
(* The events that wait, the chords that are open, and the state of chords *)
(* v2 for a configuration.                                                 *)
Events == [press : BOOLEAN, coord : Coords, since : Nat]
Statuses == {"Unread", "UnreadReleased", "Releasable", "Released"}
Actives(cf) ==
    {a \in [chord : cf.chords, coord : 0..(cf.NumCoords - 1), left : SUBSET (0..KeyMax),
            status : Statuses] : a.left \subseteq a.chord.keys}
States(cf) ==
    [queue : Seq(Events), active : Seq(Actives(cf)), ignore : Nat, until : Nat,
     prevLayer : cf.layers \cup {NoLayer}, prevLen : Int, next : 0..(cf.NumCoords - 1)]

LEMMA KeysAreCodes ==
    /\ \A c \in Coords : c[1] \in {0, 1} /\ c[2] \in 0..KeyMax /\ c # TriggerTapHold /\ c = <<c[1], c[2]>>
    /\ \A cf : IsConfig(cf) => \A ch \in cf.chords : ch.keys \subseteq 0..KeyMax
<1>1. \A c \in Coords : c[1] \in {0, 1} /\ c[2] \in 0..KeyMax /\ c # TriggerTapHold /\ c = <<c[1], c[2]>>
  BY ChordCoords
<1>2. ASSUME NEW cf, IsConfig(cf), NEW ch \in cf.chords, NEW k \in ch.keys
      PROVE  k \in 0..KeyMax
  <2>1. <<0, k>> \in Coords
    BY <1>2, ConfigIs
  <2>2. <<0, k>>[2] = k
    OBVIOUS
  <2> QED BY <1>1, <2>1, <2>2, Zenon
<1> QED BY <1>1, <1>2

LEMMA Aged ==
    ASSUME NEW q \in Seq(Events), NEW cap
    PROVE  /\ AgeQueue(q, cap) \in Seq(Events) /\ Len(AgeQueue(q, cap)) = Len(q)
           /\ DOMAIN AgeQueue(q, cap) = DOMAIN q
           /\ \A i \in DOMAIN q :
                /\ AgeQueue(q, cap)[i] = [q[i] EXCEPT !.since = IF @ < cap THEN @ + 1 ELSE @]
                /\ AgeQueue(q, cap)[i].press = q[i].press
                /\ AgeQueue(q, cap)[i].coord = q[i].coord
                /\ AgeQueue(q, cap)[i].since \in {q[i].since, q[i].since + 1}
<1> DEFINE a == AgeQueue(q, cap)
           Old(e) == [e EXCEPT !.since = IF @ < cap THEN @ + 1 ELSE @]
<1>1. a = [i \in DOMAIN q |-> Old(q[i])]
  BY DEF AgeQueue
<1>2. ASSUME NEW e \in Events
      PROVE  /\ Old(e) \in Events /\ Old(e).press = e.press /\ Old(e).coord = e.coord
             /\ Old(e).since \in {e.since, e.since + 1}
  BY DEF Events
<1> HIDE DEF a, Old
<1>3. DOMAIN q = 1..Len(q) /\ Len(q) \in Nat /\ \A i \in DOMAIN q : q[i] \in Events
  OBVIOUS
<1>4. DOMAIN a = DOMAIN q /\ \A i \in DOMAIN q : a[i] = Old(q[i]) /\ a[i] \in Events
  BY <1>1, <1>2, <1>3
<1>5. a \in Seq(Events) /\ Len(a) = Len(q)
  <2>1. a = [i \in 1..Len(q) |-> a[i]]
    BY <1>1, <1>3, <1>4
  <2> QED BY <1>3, <1>4, <2>1
<1>6. \A i \in DOMAIN q : /\ a[i].press = q[i].press /\ a[i].coord = q[i].coord
                          /\ a[i].since \in {q[i].since, q[i].since + 1}
  BY <1>2, <1>3, <1>4
<1> QED BY <1>4, <1>5, <1>6 DEF a, Old

LEMMA AgedSorted ==
    ASSUME NEW q \in Seq(Events), NEW cap \in Nat, Sorted(q)
    PROVE  Sorted(AgeQueue(q, cap))
<1> DEFINE a == AgeQueue(q, cap)
<1>1. DOMAIN a = DOMAIN q
      /\ \A i \in DOMAIN q : a[i] = [q[i] EXCEPT !.since = IF @ < cap THEN @ + 1 ELSE @]
  BY Aged
<1>2. \A i \in DOMAIN q : q[i] \in Events
  OBVIOUS
<1>3. \A i \in DOMAIN q : /\ q[i].since \in Nat
                          /\ a[i].since = IF q[i].since < cap THEN q[i].since + 1 ELSE q[i].since
  <2> HIDE DEF a
  <2> QED BY <1>1, <1>2 DEF Events
<1> HIDE DEF a
<1>4. ASSUME NEW i \in DOMAIN q, NEW j \in DOMAIN q, i <= j PROVE a[j].since <= a[i].since
  <2>1. q[j].since <= q[i].since
    BY <1>4 DEF Sorted
  <2> QED BY <1>3, <2>1
<1> QED BY <1>1, <1>4 DEF Sorted, a

(* The front part and the rest of a list.                                  *)
LEMMA Parts ==
    ASSUME NEW S, NEW q \in Seq(S), NEW m \in 0..Len(q)
    PROVE  /\ SubSeq(q, 1, m) \in Seq(S) /\ Len(SubSeq(q, 1, m)) = m
           /\ SubSeq(q, m + 1, Len(q)) \in Seq(S) /\ Len(SubSeq(q, m + 1, Len(q))) = Len(q) - m
           /\ \A i \in 1..m : SubSeq(q, 1, m)[i] = q[i]
           /\ \A i \in 1..(Len(q) - m) : SubSeq(q, m + 1, Len(q))[i] = q[m + i]
           /\ q = SubSeq(q, 1, m) \o SubSeq(q, m + 1, Len(q))
           /\ ToSet(SubSeq(q, 1, m)) \subseteq ToSet(q)
           /\ ToSet(SubSeq(q, m + 1, Len(q))) \subseteq ToSet(q)
<1> DEFINE f == SubSeq(q, 1, m)
           r == SubSeq(q, m + 1, Len(q))
<1>1. f \in Seq(S) /\ Len(f) = m /\ \A i \in 1..m : f[i] = q[i]
  OBVIOUS
<1>2. r \in Seq(S) /\ Len(r) = Len(q) - m /\ \A i \in 1..(Len(q) - m) : r[i] = q[m + i]
  OBVIOUS
<1> HIDE DEF f, r
<1>3. q = f \o r
  <2>1. Len(f \o r) = Len(q) /\ f \o r \in Seq(S)
    BY <1>1, <1>2
  <2>2. ASSUME NEW i \in 1..Len(q) PROVE (f \o r)[i] = q[i]
    <3>1. CASE i <= m
      <4>1. i \in 1..m
        BY <3>1
      <4>2. (f \o r)[i] = f[i]
        BY <1>1, <1>2, <4>1, ConcatProperties
      <4> QED BY <1>1, <4>1, <4>2, Zenon
    <3>2. CASE i > m
      <4>1. PICK k \in 1..(Len(q) - m) : k = i - m /\ m + k = i
        BY <3>2
      <4>2. (f \o r)[i] = r[k]
        BY <1>1, <1>2, <3>2, <4>1, ConcatProperties
      <4>3. r[k] = q[m + k]
        BY <1>2
      <4> QED BY <4>1, <4>2, <4>3, Zenon
    <3>3. i <= m \/ i > m
      OBVIOUS
    <3> QED BY <3>1, <3>2, <3>3, Zenon
  <2> DEFINE t == f \o r
  <2>3. t \in Seq(S) /\ Len(t) = Len(q) /\ \A i \in 1..Len(q) : t[i] = q[i]
    BY <2>1, <2>2
  <2> HIDE DEF t
  <2>4. t = q
    BY <2>3
  <2> QED BY <2>4 DEF t
<1>4. DOMAIN q = 1..Len(q) /\ Len(q) \in Nat /\ DOMAIN f = 1..m /\ DOMAIN r = 1..(Len(q) - m)
  BY <1>1, <1>2
<1>5. \A i \in 1..m : i \in 1..Len(q)
  OBVIOUS
<1>6. \A i \in 1..(Len(q) - m) : m + i \in 1..Len(q)
  OBVIOUS
<1>7. \A i \in DOMAIN f : \E j \in DOMAIN q : f[i] = q[j]
  BY <1>1, <1>4, <1>5
<1>8. \A i \in DOMAIN r : \E j \in DOMAIN q : r[i] = q[j]
  BY <1>2, <1>4, <1>6
<1>9. ToSet(f) \subseteq ToSet(q) /\ ToSet(r) \subseteq ToSet(q)
  BY <1>7, <1>8 DEF ToSet
<1> QED BY <1>1, <1>2, <1>3, <1>9 DEF f, r

LEMMA RestSorted ==
    ASSUME NEW S, NEW q \in Seq(S), NEW m \in 0..Len(q), Sorted(q)
    PROVE  Sorted(SubSeq(q, m + 1, Len(q)))
<1> DEFINE r == SubSeq(q, m + 1, Len(q))
<1>1. r \in Seq(S) /\ Len(r) = Len(q) - m /\ \A i \in 1..(Len(q) - m) : r[i] = q[m + i]
  BY Parts
<1> HIDE DEF r
<1>2. DOMAIN r = 1..(Len(q) - m) /\ DOMAIN q = 1..Len(q) /\ Len(q) \in Nat
  BY <1>1
<1>3. ASSUME NEW i \in DOMAIN r, NEW j \in DOMAIN r, i <= j PROVE r[j].since <= r[i].since
  <2>1. m + i \in DOMAIN q /\ m + j \in DOMAIN q /\ m + i <= m + j
    BY <1>2, <1>3
  <2>2. q[m + j].since <= q[m + i].since
    BY <2>1 DEF Sorted
  <2>3. r[i] = q[m + i] /\ r[j] = q[m + j]
    BY <1>1, <1>2
  <2> QED BY <2>2, <2>3
<1> QED BY <1>3 DEF Sorted, r

-----------------------------------------------------------------------------
(* What releases do to the open chords, all of them at once: a chord loses *)
(* the keys in J, and ends when one of its keys is in J and none is left.  *)
EndsBy(a, J) ==
    [chord |-> a.chord, coord |-> a.coord, left |-> a.left \ J,
     status |-> IF a.chord.keys \cap J # {} /\ a.left \ J = {} THEN Ended(a.status) ELSE a.status]
KeysUp(es) == {e.coord[2] : e \in {x \in ToSet(es) : ~x.press}}

LEMMA ActiveIs ==
    ASSUME NEW cf, NEW a
    PROVE  a \in Actives(cf) <=>
             /\ a = [chord |-> a.chord, coord |-> a.coord, left |-> a.left, status |-> a.status]
             /\ a.chord \in cf.chords /\ a.coord \in 0..(cf.NumCoords - 1)
             /\ a.left \subseteq 0..KeyMax /\ a.left \subseteq a.chord.keys /\ a.status \in Statuses
BY DEF Actives

LEMMA EndsByIs ==
    ASSUME NEW cf, NEW a \in Actives(cf), NEW J
    PROVE  /\ EndsBy(a, J) \in Actives(cf)
           /\ EndsBy(a, J).chord = a.chord /\ EndsBy(a, J).coord = a.coord
           /\ EndsBy(a, J).left = a.left \ J
           /\ EndsBy(a, J).status =
                IF a.chord.keys \cap J # {} /\ a.left \ J = {} THEN Ended(a.status) ELSE a.status
<1> DEFINE b == EndsBy(a, J)
<1>1. /\ b.chord = a.chord /\ b.coord = a.coord /\ b.left = a.left \ J
      /\ b.status = IF a.chord.keys \cap J # {} /\ a.left \ J = {} THEN Ended(a.status)
                    ELSE a.status
      /\ b = [chord |-> b.chord, coord |-> b.coord, left |-> b.left, status |-> b.status]
  BY DEF EndsBy
<1> HIDE DEF b
<1>2. b.status \in Statuses
  BY <1>1, ActiveIs DEF Ended, Statuses
<1>3. b \in Actives(cf)
  BY <1>1, <1>2, ActiveIs
<1> QED BY <1>1, <1>3 DEF b

With(a, left, status) == [a EXCEPT !.left = left, !.status = status]

LEMMA WithIs ==
    ASSUME NEW cf, NEW b \in Actives(cf), NEW l1, NEW s1
    PROVE  With(b, l1, s1) = [chord |-> b.chord, coord |-> b.coord, left |-> l1, status |-> s1]
<1>1. PICK ch, n : ch = b.chord /\ n = b.coord
  OBVIOUS
<1>2. b \in [chord : {ch}, coord : {n}, left : {b.left}, status : {b.status}]
  BY <1>1 DEF Actives
<1> DEFINE x == [b EXCEPT !.left = l1, !.status = s1]
<1>3. x \in [chord : {ch}, coord : {n}, left : {l1}, status : {s1}]
  BY <1>2
<1> HIDE DEF x
<1>4. x = [chord |-> ch, coord |-> n, left |-> l1, status |-> s1]
  BY <1>3
<1> QED BY <1>1, <1>4 DEF x, With

LEMMA EndsByNone ==
    ASSUME NEW cf, NEW a \in Actives(cf)
    PROVE  EndsBy(a, {}) = a
<1>1. a = [chord |-> a.chord, coord |-> a.coord, left |-> a.left, status |-> a.status]
  BY ActiveIs
<1>2. a.left \ {} = a.left /\ a.chord.keys \cap {} = {}
  OBVIOUS
<1> QED BY <1>1, <1>2, Zenon DEF EndsBy

LEMMA EndsByMore ==
    ASSUME NEW cf, NEW a \in Actives(cf), NEW J, NEW j
    PROVE  EndsBy(a, J \cup {j}) =
             IF j \notin a.chord.keys THEN EndsBy(a, J)
             ELSE [EndsBy(a, J) EXCEPT
                     !.left = EndsBy(a, J).left \ {j},
                     !.status = IF EndsBy(a, J).left \ {j} # {} THEN EndsBy(a, J).status
                                ELSE Ended(EndsBy(a, J).status)]
<1> DEFINE K == a.chord.keys
           l == a.left
           more == J \cup {j}
<1>1. l \subseteq K /\ a.status \in Statuses
  BY ActiveIs
<1>2. ASSUME j \notin K
      PROVE  EndsBy(a, more) = EndsBy(a, J)
  <2>1. l \ more = l \ J /\ K \cap more = K \cap J
    BY <1>1, <1>2
  <2> DEFINE Has(left, up) ==
               [chord |-> a.chord, coord |-> a.coord, left |-> left,
                status |-> IF up # {} /\ left = {} THEN Ended(a.status) ELSE a.status]
  <2>2. \A L : EndsBy(a, L) = Has(l \ L, K \cap L)
    BY DEF EndsBy
  <2> HIDE DEF more, l, K, Has
  <2> QED BY <2>1, <2>2, Zenon
<1>3. ASSUME j \in K
      PROVE  EndsBy(a, more) =
               [EndsBy(a, J) EXCEPT
                     !.left = EndsBy(a, J).left \ {j},
                     !.status = IF EndsBy(a, J).left \ {j} # {} THEN EndsBy(a, J).status
                                ELSE Ended(EndsBy(a, J).status)]
  <2> DEFINE b == EndsBy(a, J)
             c == EndsBy(a, more)
  <2>1. /\ b \in Actives(cf) /\ b.chord = a.chord /\ b.coord = a.coord /\ b.left = l \ J
        /\ b.status = IF K \cap J # {} /\ l \ J = {} THEN Ended(a.status) ELSE a.status
    BY EndsByIs
  <2>2. /\ c \in Actives(cf) /\ c.chord = a.chord /\ c.coord = a.coord /\ c.left = l \ more
        /\ c.status = IF K \cap more # {} /\ l \ more = {} THEN Ended(a.status) ELSE a.status
    BY EndsByIs
  <2>3. l \ more = (l \ J) \ {j} /\ K \cap more # {}
    BY <1>3
  <2>4. (K \cap J # {} /\ l \ J = {}) => l \ more = {}
    BY <2>3
  <2>5. c.left = b.left \ {j}
    BY <2>1, <2>2, <2>3
  <2>6. c.status = IF b.left \ {j} # {} THEN b.status ELSE Ended(b.status)
    <3> HIDE DEF b, c, K, l, more
    <3>1. c.status = IF l \ more = {} THEN Ended(a.status) ELSE a.status
      BY <2>2, <2>3, Zenon
    <3>2. b.left \ {j} = l \ more
      BY <2>2, <2>5, Zenon
    <3>3. b.status \in {a.status, Ended(a.status)} /\ Ended(Ended(a.status)) = Ended(a.status)
      BY <2>1 DEF Ended
    <3>4. l \ more # {} => b.status = a.status
      BY <2>1, <2>4
    <3>5. Ended(b.status) = Ended(a.status)
      BY <3>3
    <3> QED BY <3>1, <3>2, <3>4, <3>5, Zenon
  <2> HIDE DEF b, c
  <2>7. /\ b = [chord |-> b.chord, coord |-> b.coord, left |-> b.left, status |-> b.status]
        /\ c = [chord |-> c.chord, coord |-> c.coord, left |-> c.left, status |-> c.status]
    BY <2>1, <2>2, ActiveIs
  <2>8. c = [b EXCEPT !.left = b.left \ {j},
                      !.status = IF b.left \ {j} # {} THEN b.status ELSE Ended(b.status)]
    <3>1. PICK l1 : l1 = b.left \ {j}
      OBVIOUS
    <3>2. PICK s1 : s1 = IF b.left \ {j} # {} THEN b.status ELSE Ended(b.status)
      OBVIOUS
    <3>3. c = [chord |-> b.chord, coord |-> b.coord, left |-> l1, status |-> s1]
      BY <2>1, <2>2, <2>5, <2>6, <2>7, <3>1, <3>2, Zenon
    <3>4. With(b, l1, s1) = [chord |-> b.chord, coord |-> b.coord, left |-> l1, status |-> s1]
      BY <2>1, WithIs
    <3> QED BY <3>1, <3>2, <3>3, <3>4, Zenon DEF With
  <2> QED BY <2>8, Zenon DEF b, c
<1> HIDE DEF more, K, l
<1> QED BY <1>2, <1>3, Zenon DEF more, K

LEMMA EndsByReleases ==
    ASSUME NEW cf, NEW active \in Seq(Actives(cf)), NEW es \in Seq(Events)
    PROVE  EndByReleases(active, es) = [i \in DOMAIN active |-> EndsBy(active[i], KeysUp(es))]
<1> DEFINE All(J) == [i \in DOMAIN active |-> EndsBy(active[i], J)]
           Good == {s \in Seq(Events) : EndByReleases(active, s) = All(KeysUp(s))}
<1>0. \A i \in DOMAIN active : active[i] \in Actives(cf)
  OBVIOUS
<1>1. <<>> \in Good
  <2>1. KeysUp(<<>>) = {}
    BY ToSetEmpty DEF KeysUp
  <2>2. active = [i \in DOMAIN active |-> active[i]]
    OBVIOUS
  <2>3. \A i \in DOMAIN active : EndsBy(active[i], {}) = active[i]
    BY <1>0, EndsByNone
  <2>4. All({}) = active
    BY <2>2, <2>3
  <2> HIDE DEF All
  <2> QED BY <2>1, <2>4, EndEmpty, ToSetEmpty
<1>2. ASSUME NEW s \in Seq(Events), NEW e \in Events, s \in Good PROVE Append(s, e) \in Good
  <2> DEFINE t == Append(s, e)
             b == EndByReleases(active, s)
             j == e.coord[2]
  <2>1. t \in Seq(Events) /\ ToSet(t) = ToSet(s) \cup {e}
    BY ToSetAppend
  <2>2. b = All(KeysUp(s))
    BY <1>2
  <2>3. EndByReleases(active, t) = IF e.press THEN b ELSE ReleaseInChords(b, j)
    BY EndAppend
  <2>4. KeysUp(t) = IF e.press THEN KeysUp(s) ELSE KeysUp(s) \cup {j}
    <3> HIDE DEF t
    <3> QED BY <2>1 DEF KeysUp
  <2>5. ReleaseInChords(All(KeysUp(s)), j) = All(KeysUp(s) \cup {j})
    <3> DEFINE J == KeysUp(s)
               more == J \cup {j}
               F(x) == IF j \notin x.chord.keys THEN x
                       ELSE [x EXCEPT !.left = x.left \ {j},
                               !.status = IF x.left \ {j} # {} THEN x.status
                                          ELSE Ended(x.status)]
    <3>1. ReleaseInChords(All(J), j) = [i \in DOMAIN active |-> F(All(J)[i])]
      BY DEF ReleaseInChords
    <3>2. ASSUME NEW i \in DOMAIN active PROVE F(All(J)[i]) = EndsBy(active[i], more)
      <4>1. All(J)[i] = EndsBy(active[i], J)
        OBVIOUS
      <4>2. active[i] \in Actives(cf)
        BY <1>0
      <4>3. EndsBy(active[i], J).chord = active[i].chord
        BY <4>2, EndsByIs
      <4> HIDE DEF J, j
      <4>5. EndsBy(active[i], J \cup {j}) =
              IF j \notin active[i].chord.keys THEN EndsBy(active[i], J)
              ELSE [EndsBy(active[i], J) EXCEPT
                      !.left = EndsBy(active[i], J).left \ {j},
                      !.status = IF EndsBy(active[i], J).left \ {j} # {}
                                 THEN EndsBy(active[i], J).status
                                 ELSE Ended(EndsBy(active[i], J).status)]
        BY <4>2, EndsByMore
      <4>4. F(EndsBy(active[i], J)) = EndsBy(active[i], J \cup {j})
        BY <4>3, <4>5, Zenon
      <4> HIDE DEF F
      <4> QED BY <4>1, <4>4
    <3> HIDE DEF F, J, more
    <3>3. [i \in DOMAIN active |-> F(All(J)[i])] = [i \in DOMAIN active |-> EndsBy(active[i], more)]
      BY <3>2
    <3> QED BY <3>1, <3>3, Zenon DEF J, more
  <2> HIDE DEF t, b, j, All
  <2>6. EndByReleases(active, t) = All(KeysUp(t))
    BY <2>2, <2>3, <2>4, <2>5, Zenon
  <2> QED BY <2>1, <2>6 DEF t
<1> HIDE DEF Good
<1>3. es \in Good
  BY <1>1, <1>2, EveryList
<1> QED BY <1>3 DEF Good

-----------------------------------------------------------------------------
(* The steps of ConsiderPresses.  Sound says of the state st of the loop,  *)
(* when the presses of s have been seen and n coordinates taken at most:   *)
(* the accumulated presses are the first of s, some enabled chord has all  *)
(* their keys and they came within its time, the wait ends within the time *)
(* of a chord, and the chords that were opened are complete and have       *)
(* coordinates of their own.                                               *)
Looks(cf) ==
    [acc : Seq(Events), cands : SUBSET cf.chords, until : Nat, opened : Seq(Actives(cf)),
     ignore : Nat, next : 0..(cf.NumCoords - 1), done : BOOLEAN]
Dist(cf, from, n) == IF n >= from THEN n - from ELSE n + cf.NumCoords - from

Begins(acc, s) == Len(acc) <= Len(s) /\ \A i \in 1..Len(acc) : acc[i] = s[i]
InTime(possible, acc) ==
    acc # <<>> => \E ch \in possible : /\ KeysOf(acc) \subseteq ch.keys
                                       /\ acc[1].since - acc[Len(acc)].since <= ch.pending
Opens(possible, acc, ups, a) ==
    /\ a.chord \in possible /\ a.chord.keys = KeysOf(acc)
    /\ a = GetActiveChord(a.chord, a.coord, ups)
Fresh(cf, from, n, st) ==
    n < cf.NumCoords =>
        /\ Dist(cf, from, st.next) <= n
        /\ \A i \in DOMAIN st.opened : Dist(cf, from, st.opened[i].coord) < Dist(cf, from, st.next)
        /\ \A i, j \in DOMAIN st.opened : i # j => st.opened[i].coord # st.opened[j].coord
Waits(cf, st) == st.until > 0 => st.acc # <<>> /\ st.until + st.acc[1].since <= Longest(cf)
Sound(cf, C, possible, ups, s, n, st) ==
    /\ st \in Looks(cf) /\ Begins(st.acc, s) /\ st.cands \subseteq possible
    /\ InTime(possible, st.acc) /\ Waits(cf, st) /\ st.ignore \in {C.ignore, cf.minIdle}
    /\ \A i \in DOMAIN st.opened : Opens(possible, st.acc, ups, st.opened[i])
    /\ Fresh(cf, C.next, n, st)
Setting(cf, C, possible, ups) ==
    IsConfig(cf) /\ C \in States(cf) /\ C.until = 0 /\ possible \subseteq cf.chords

LEMMA DistNext ==
    ASSUME NEW cf, IsConfig(cf), NEW from \in 0..(cf.NumCoords - 1), NEW n \in 0..(cf.NumCoords - 1)
    PROVE  /\ NextCoord(cf, n) \in 0..(cf.NumCoords - 1)
           /\ Dist(cf, from, n) \in Nat
           /\ Dist(cf, from, n) + 1 < cf.NumCoords =>
                Dist(cf, from, NextCoord(cf, n)) = Dist(cf, from, n) + 1
<1>1. PICK N \in Nat : N = cf.NumCoords /\ N > 0
  BY ConfigIs, ChordBounds
<1>2. NextCoord(cf, n) = IF n + 1 < N THEN n + 1 ELSE 0
  BY <1>1 DEF NextCoord
<1>3. \A m : Dist(cf, from, m) = IF m >= from THEN m - from ELSE m + N - from
  BY <1>1 DEF Dist
<1>4. from \in 0..(N - 1) /\ n \in 0..(N - 1)
  BY <1>1
<1>5. NextCoord(cf, n) \in 0..(N - 1)
  BY <1>2, <1>4
<1>6. Dist(cf, from, n) \in Nat
  BY <1>3, <1>4
<1>7. ASSUME Dist(cf, from, n) + 1 < N
      PROVE  Dist(cf, from, NextCoord(cf, n)) = Dist(cf, from, n) + 1
  <2>1. CASE n + 1 < N
    BY <1>2, <1>3, <1>4, <1>7, <2>1
  <2>2. CASE ~(n + 1 < N)
    BY <1>2, <1>3, <1>4, <1>7, <2>2
  <2> QED BY <2>1, <2>2
<1> QED BY <1>1, <1>5, <1>6, <1>7

LEMMA GetActiveChordIs ==
    ASSUME NEW cf, IsConfig(cf), NEW ch \in cf.chords, NEW n \in 0..(cf.NumCoords - 1),
           NEW ups
    PROVE  /\ GetActiveChord(ch, n, ups) \in Actives(cf)
           /\ GetActiveChord(ch, n, ups).chord = ch /\ GetActiveChord(ch, n, ups).coord = n
           /\ GetActiveChord(ch, n, ups).left = IF ch.release = "all" THEN ch.keys ELSE {}
           /\ GetActiveChord(ch, n, ups).status =
                IF ups # {} /\ ch.release = "first" THEN "UnreadReleased" ELSE "Unread"
<1> DEFINE a == GetActiveChord(ch, n, ups)
<1>1. /\ a.chord = ch /\ a.coord = n /\ a.left = IF ch.release = "all" THEN ch.keys ELSE {}
      /\ a.status = IF ups # {} /\ ch.release = "first" THEN "UnreadReleased" ELSE "Unread"
      /\ a = [chord |-> a.chord, coord |-> a.coord, left |-> a.left, status |-> a.status]
  BY DEF GetActiveChord
<1> HIDE DEF a
<1>2. a.status \in Statuses
  <2>1. a.status = "UnreadReleased" \/ a.status = "Unread"
    BY <1>1, Zenon
  <2> QED BY <2>1 DEF Statuses
<1>3. a.left \subseteq ch.keys /\ a.left \subseteq 0..KeyMax
  BY <1>1, KeysAreCodes
<1>4. a \in Actives(cf)
  BY <1>1, <1>2, <1>3, ActiveIs
<1> QED BY <1>1, <1>4 DEF a

ChordOpened(cf, st, exact, ups, r) ==
    /\ r \in Looks(cf) /\ r.acc = st.acc /\ r.cands = st.cands /\ r.until = st.until
    /\ r.ignore = st.ignore /\ r.done = st.done /\ r.next = NextCoord(cf, st.next)
    /\ \E ch \in exact : r.opened = Append(st.opened, GetActiveChord(ch, st.next, ups))

LEMMA OpenChordIs ==
    ASSUME NEW cf, IsConfig(cf), NEW st \in Looks(cf), NEW exact, exact \subseteq cf.chords, exact # {},
           NEW ups
    PROVE  ChordOpened(cf, st, exact, ups, OpenChord(cf, st, exact, ups))
<1>1. PICK ch \in exact : ch = CHOOSE x \in exact : TRUE
  OBVIOUS
<1>2. PICK a \in Actives(cf) : a = GetActiveChord(ch, st.next, ups)
  <2>1. st.next \in 0..(cf.NumCoords - 1)
    BY DEF Looks
  <2> QED BY <2>1, GetActiveChordIs
<1>3. PICK n \in 0..(cf.NumCoords - 1) : n = NextCoord(cf, st.next)
  <2>1. st.next \in 0..(cf.NumCoords - 1)
    BY DEF Looks
  <2> QED BY <2>1, DistNext
<1>4. OpenChord(cf, st, exact, ups) = [st EXCEPT !.opened = Append(st.opened, a), !.next = n]
  BY <1>1, <1>2, <1>3, Zenon DEF OpenChord
<1>5. PICK opened \in Seq(Actives(cf)) : opened = Append(st.opened, a)
  <2>1. st.opened \in Seq(Actives(cf))
    BY DEF Looks
  <2>2. Append(st.opened, a) \in Seq(Actives(cf))
    BY <2>1
  <2> QED BY <2>2
<1> DEFINE r == [st EXCEPT !.opened = opened, !.next = n]
<1>6. /\ r \in Looks(cf) /\ r.acc = st.acc /\ r.cands = st.cands /\ r.until = st.until
      /\ r.ignore = st.ignore /\ r.done = st.done /\ r.next = n /\ r.opened = opened
  BY DEF Looks
<1>7. OpenChord(cf, st, exact, ups) = r
  BY <1>4, <1>5, Zenon
<1> HIDE DEF r
<1>8. ChordOpened(cf, st, exact, ups, r)
  BY <1>1, <1>2, <1>3, <1>5, <1>6, Zenon DEF ChordOpened
<1> QED BY <1>7, <1>8, Zenon

LEMMA BeginsAppend ==
    ASSUME NEW s \in Seq(Events), NEW acc \in Seq(Events), NEW p \in Events, Begins(acc, s)
    PROVE  Begins(acc, Append(s, p)) /\ Begins(Append(s, p), Append(s, p))
<1>1. Len(Append(s, p)) = Len(s) + 1 /\ Len(acc) \in Nat /\ Len(s) \in Nat
      /\ \A i \in 1..Len(s) : Append(s, p)[i] = s[i]
  OBVIOUS
<1>2. Len(acc) <= Len(s) /\ \A i \in 1..Len(acc) : acc[i] = s[i] /\ i \in 1..Len(s)
  BY <1>1 DEF Begins
<1> DEFINE t == Append(s, p)
<1> HIDE DEF t
<1> QED BY <1>1, <1>2 DEF Begins, t

(* A chord that opens for the accumulated presses takes the next           *)
(* coordinate.                                                             *)
SoundNow(cf, C, possible, ups, s, n, st, r) ==
    /\ Sound(cf, C, possible, ups, s, n + 1, r) /\ r.done = st.done
    /\ \/ Len(r.opened) = Len(st.opened) + 1
       \/ Len(r.opened) = Len(st.opened) /\ r.ignore = cf.minIdle

LEMMA OpenSound ==
    ASSUME NEW cf, NEW C, NEW possible, NEW ups, Setting(cf, C, possible, ups),
           NEW s \in Seq(Events), NEW n \in Nat, NEW st, Sound(cf, C, possible, ups, s, n, st),
           NEW some, some \subseteq possible, Exactly(some, st.acc) # {}, NEW r,
           r = OpenChord(cf, st, Exactly(some, st.acc), ups)
    PROVE  SoundNow(cf, C, possible, ups, s, n, st, r)
<1> DEFINE exact == Exactly(some, st.acc)
<1>1. /\ IsConfig(cf) /\ C \in States(cf) /\ possible \subseteq cf.chords
      /\ C.next \in 0..(cf.NumCoords - 1)
  BY DEF Setting, States
<1>2. exact \subseteq some /\ \A ch \in exact : ch \in possible /\ ch \in cf.chords /\ ch.keys = KeysOf(st.acc)
  BY <1>1 DEF Exactly
<1>3. st \in Looks(cf) /\ st.opened \in Seq(Actives(cf)) /\ st.next \in 0..(cf.NumCoords - 1)
  BY DEF Sound, Looks
<1> HIDE DEF exact
<1>4. /\ r \in Looks(cf) /\ r.acc = st.acc /\ r.cands = st.cands /\ r.until = st.until
      /\ r.ignore = st.ignore /\ r.done = st.done /\ r.next = NextCoord(cf, st.next)
      /\ \E ch \in exact : r.opened = Append(st.opened, GetActiveChord(ch, st.next, ups))
  <2>1. exact \subseteq cf.chords /\ exact # {} /\ r = OpenChord(cf, st, exact, ups)
    BY <1>2 DEF exact
  <2>2. ChordOpened(cf, st, exact, ups, r)
    BY <1>1, <1>3, <2>1, OpenChordIs
  <2> QED BY <2>2, Zenon DEF ChordOpened
<1>5. PICK ch \in exact : r.opened = Append(st.opened, GetActiveChord(ch, st.next, ups))
  BY <1>4
<1>6. PICK a \in Actives(cf) : a = GetActiveChord(ch, st.next, ups) /\ a.chord = ch /\ a.coord = st.next
  BY <1>1, <1>2, <1>3, GetActiveChordIs
<1>7. /\ r.opened = Append(st.opened, a) /\ Len(r.opened) = Len(st.opened) + 1
      /\ DOMAIN st.opened = 1..Len(st.opened) /\ DOMAIN r.opened = 1..(Len(st.opened) + 1)
      /\ r.opened[Len(st.opened) + 1] = a /\ \A i \in DOMAIN st.opened : r.opened[i] = st.opened[i]
      /\ Len(st.opened) \in Nat
  BY <1>3, <1>5, <1>6
<1>8. \A i \in DOMAIN r.opened : i \in DOMAIN st.opened \/ i = Len(st.opened) + 1
  BY <1>7
<1>9. Opens(possible, st.acc, ups, a)
  BY <1>2, <1>6, Zenon DEF Opens
<1>10. \A i \in DOMAIN r.opened : Opens(possible, r.acc, ups, r.opened[i])
  <2>1. \A i \in DOMAIN st.opened : Opens(possible, st.acc, ups, st.opened[i])
    BY DEF Sound
  <2> QED BY <1>4, <1>7, <1>8, <1>9, <2>1, Zenon
<1>11. Fresh(cf, C.next, n + 1, r)
  <2> SUFFICES ASSUME n + 1 < cf.NumCoords PROVE Fresh(cf, C.next, n + 1, r)
    BY DEF Fresh
  <2>0. PICK N \in Nat : N = cf.NumCoords
    BY <1>1, ConfigIs
  <2>1. /\ Dist(cf, C.next, st.next) <= n
        /\ \A i \in DOMAIN st.opened : Dist(cf, C.next, st.opened[i].coord) < Dist(cf, C.next, st.next)
        /\ \A i, j \in DOMAIN st.opened : i # j => st.opened[i].coord # st.opened[j].coord
    <3>1. n < cf.NumCoords
      BY <2>0
    <3> QED BY <3>1 DEF Sound, Fresh
  <2>2. Dist(cf, C.next, st.next) \in Nat /\ Dist(cf, C.next, r.next) = Dist(cf, C.next, st.next) + 1
    <3>1. /\ Dist(cf, C.next, st.next) \in Nat
          /\ Dist(cf, C.next, st.next) + 1 < cf.NumCoords =>
               Dist(cf, C.next, NextCoord(cf, st.next)) = Dist(cf, C.next, st.next) + 1
      BY <1>1, <1>3, DistNext
    <3>2. Dist(cf, C.next, st.next) + 1 < cf.NumCoords
      BY <2>0, <2>1, <3>1
    <3> QED BY <1>4, <3>1, <3>2
  <2>3. \A i \in DOMAIN st.opened : Dist(cf, C.next, st.opened[i].coord) \in Nat
    <3>1. \A i \in DOMAIN st.opened : st.opened[i].coord \in 0..(cf.NumCoords - 1)
      BY <1>3, ActiveIs
    <3> QED BY <1>1, <3>1, DistNext
  <2>4. \A i \in DOMAIN r.opened : Dist(cf, C.next, r.opened[i].coord) < Dist(cf, C.next, r.next)
    <3>1. ASSUME NEW i \in DOMAIN st.opened
          PROVE  Dist(cf, C.next, r.opened[i].coord) < Dist(cf, C.next, r.next)
      BY <1>7, <2>1, <2>2, <2>3
    <3>2. Dist(cf, C.next, a.coord) < Dist(cf, C.next, r.next)
      BY <1>6, <2>2
    <3> QED BY <1>7, <1>8, <3>1, <3>2
  <2>5. \A i \in DOMAIN st.opened : st.opened[i].coord # a.coord
    BY <1>6, <2>1, <2>2, <2>3
  <2>6. ASSUME NEW i \in DOMAIN r.opened, NEW j \in DOMAIN r.opened, i # j
        PROVE  r.opened[i].coord # r.opened[j].coord
    BY <1>7, <1>8, <2>1, <2>5, <2>6, Zenon
  <2>7. Dist(cf, C.next, r.next) <= n + 1
    BY <2>1, <2>2
  <2> QED BY <2>4, <2>6, <2>7 DEF Fresh
<1>12. /\ Begins(r.acc, s) /\ r.cands \subseteq possible /\ InTime(possible, r.acc)
       /\ r.ignore \in {C.ignore, cf.minIdle}
  BY <1>4, Zenon DEF Sound
<1>13. Waits(cf, r)
  BY <1>4, Zenon DEF Sound, Waits
<1>14. Sound(cf, C, possible, ups, s, n + 1, r)
  BY <1>4, <1>10, <1>11, <1>12, <1>13 DEF Sound
<1> QED BY <1>4, <1>7, <1>14, Zenon DEF SoundNow

LEMMA FreshMore ==
    ASSUME NEW cf, NEW from, NEW n \in Nat, NEW m \in Nat, n <= m, NEW st, NEW N \in Nat, N = cf.NumCoords,
           Dist(cf, from, st.next) \in Nat, Fresh(cf, from, n, st)
    PROVE  Fresh(cf, from, m, st)
<1> SUFFICES ASSUME m < N PROVE Fresh(cf, from, m, st)
  BY DEF Fresh
<1>1. n < cf.NumCoords
  OBVIOUS
<1>2. /\ Dist(cf, from, st.next) <= n
      /\ \A i \in DOMAIN st.opened : Dist(cf, from, st.opened[i].coord) < Dist(cf, from, st.next)
      /\ \A i, j \in DOMAIN st.opened : i # j => st.opened[i].coord # st.opened[j].coord
  BY <1>1, Zenon DEF Fresh
<1>3. Dist(cf, from, st.next) <= m
  BY <1>2
<1> QED BY <1>2, <1>3, Zenon DEF Fresh

(* When no chord fits any more, the one that fitted exactly opens, or      *)
(* chords are ignored for a while.                                         *)
LEMMA NoneFitsSound ==
    ASSUME NEW cf, NEW C, NEW possible, NEW ups, Setting(cf, C, possible, ups),
           NEW s \in Seq(Events), NEW n \in Nat, NEW st, Sound(cf, C, possible, ups, s, n, st),
           NEW some, some \subseteq possible, NEW r,
           r = NoneFits(cf, st, Exactly(some, st.acc), ups)
    PROVE  SoundNow(cf, C, possible, ups, s, n, st, r)
<1>1. CASE Exactly(some, st.acc) # {}
  <2>1. r = OpenChord(cf, st, Exactly(some, st.acc), ups)
    BY <1>1 DEF NoneFits
  <2> QED BY <1>1, <2>1, OpenSound
<1>2. CASE Exactly(some, st.acc) = {}
  <2>1. r = [st EXCEPT !.ignore = cf.minIdle]
    BY <1>2 DEF NoneFits
  <2>2. PICK idle \in Nat : idle = cf.minIdle
    BY ConfigIs DEF Setting
  <2>3. /\ r \in Looks(cf) /\ r.acc = st.acc /\ r.cands = st.cands /\ r.until = st.until
        /\ r.ignore = idle /\ r.done = st.done /\ r.next = st.next /\ r.opened = st.opened
    <3>1. st \in Looks(cf)
      BY DEF Sound
    <3>2. r = [st EXCEPT !.ignore = idle]
      BY <2>1, <2>2
    <3> QED BY <3>1, <3>2 DEF Looks
  <2>4. Fresh(cf, C.next, n + 1, r)
    <3>1. C.next \in 0..(cf.NumCoords - 1) /\ st.next \in 0..(cf.NumCoords - 1) /\ IsConfig(cf)
      BY DEF Sound, Looks, Setting, States
    <3>2. Dist(cf, C.next, st.next) \in Nat
      BY <3>1, DistNext
    <3>3. PICK N \in Nat : N = cf.NumCoords
      BY <3>1, ConfigIs
    <3>7. Fresh(cf, C.next, n, st)
      BY Zenon DEF Sound
    <3>4. Fresh(cf, C.next, n, r)
      BY <2>3, <3>7 DEF Fresh
    <3>5. Dist(cf, C.next, r.next) \in Nat
      BY <2>3, <3>2
    <3>6. n + 1 \in Nat /\ n <= n + 1
      OBVIOUS
    <3> QED BY <3>3, <3>4, <3>5, <3>6, FreshMore
  <2>5. /\ Begins(r.acc, s) /\ r.cands \subseteq possible /\ InTime(possible, r.acc)
        /\ r.ignore \in {C.ignore, cf.minIdle}
        /\ \A i \in DOMAIN r.opened : Opens(possible, r.acc, ups, r.opened[i])
    BY <2>2, <2>3, Zenon DEF Sound
  <2>6. Waits(cf, r)
    BY <2>3, Zenon DEF Sound, Waits
  <2>7. Sound(cf, C, possible, ups, s, n + 1, r)
    BY <2>3, <2>4, <2>5, <2>6, Zenon DEF Sound
  <2> QED BY <2>2, <2>3, <2>7, Zenon DEF SoundNow
<1> QED BY <1>1, <1>2

(* The wait for a longer chord ends within its time.                       *)
LEMMA UntilTimeoutIs ==
    ASSUME NEW cf, IsConfig(cf), NEW st \in Looks(cf), st.acc # <<>>
    PROVE  /\ UntilTimeout(st) \in Nat
           /\ UntilTimeout(st) > 0 => UntilTimeout(st) + st.acc[1].since <= Longest(cf)
<1> DEFINE t == {c.pending : c \in {ch \in st.cands : ch.pending > st.acc[1].since /\ ch.pending # U16Max}}
<1>1. st.acc[1].since \in Nat /\ st.cands \subseteq cf.chords
  <2>1. st.acc \in Seq(Events) /\ st.cands \subseteq cf.chords
    BY DEF Looks
  <2>2. st.acc[1] \in Events
    BY <2>1
  <2> QED BY <2>1, <2>2 DEF Events
<1>2. \A ch \in cf.chords : ch.pending \in Nat /\ ch.pending <= Longest(cf)
  BY LongestIs
<1>3. \A n \in t : n \in Nat /\ n > st.acc[1].since /\ n <= Longest(cf)
  BY <1>1, <1>2
<1>4. UntilTimeout(st) = IF t = {} THEN 0 ELSE MinNat(t) - st.acc[1].since
  BY Zenon DEF UntilTimeout
<1> HIDE DEF t
<1>5. CASE t = {}
  BY <1>4, <1>5
<1>6. CASE t # {}
  <2>1. MinNat(t) \in t
    BY <1>3, <1>6, MinNatIs
  <2>2. MinNat(t) \in Nat /\ MinNat(t) > st.acc[1].since /\ MinNat(t) <= Longest(cf)
    BY <1>3, <2>1
  <2>3. UntilTimeout(st) = MinNat(t) - st.acc[1].since
    BY <1>4, <1>6
  <2>4. Longest(cf) \in Nat
    BY LongestIs
  <2> QED BY <1>1, <2>2, <2>3, <2>4
<1> QED BY <1>5, <1>6

LEMMA FreshNext ==
    ASSUME NEW cf, IsConfig(cf), NEW from \in 0..(cf.NumCoords - 1), NEW n \in Nat,
           NEW st \in Looks(cf), Fresh(cf, from, n, st),
           NEW r, r.opened = st.opened, r.next \in {st.next, NextCoord(cf, st.next)}
    PROVE  Fresh(cf, from, n + 1, r)
<1> SUFFICES ASSUME n + 1 < cf.NumCoords PROVE Fresh(cf, from, n + 1, r)
  BY DEF Fresh
<1>1. PICK N \in Nat : N = cf.NumCoords
  BY ConfigIs
<1>2. /\ Dist(cf, from, st.next) <= n
      /\ \A i \in DOMAIN st.opened : Dist(cf, from, st.opened[i].coord) < Dist(cf, from, st.next)
      /\ \A i, j \in DOMAIN st.opened : i # j => st.opened[i].coord # st.opened[j].coord
  <2>1. n < cf.NumCoords
    BY <1>1
  <2> QED BY <2>1, Zenon DEF Fresh
<1>3. st.next \in 0..(cf.NumCoords - 1) /\ st.opened \in Seq(Actives(cf))
  BY DEF Looks
<1>4. /\ Dist(cf, from, st.next) \in Nat
      /\ Dist(cf, from, st.next) + 1 < cf.NumCoords =>
           Dist(cf, from, NextCoord(cf, st.next)) = Dist(cf, from, st.next) + 1
  BY <1>3, DistNext
<1>5. \A i \in DOMAIN st.opened : Dist(cf, from, st.opened[i].coord) \in Nat
  <2>1. \A i \in DOMAIN st.opened : st.opened[i].coord \in 0..(cf.NumCoords - 1)
    BY <1>3, ActiveIs
  <2> QED BY <2>1, DistNext
<1>6. Dist(cf, from, r.next) \in {Dist(cf, from, st.next), Dist(cf, from, st.next) + 1}
  BY <1>1, <1>2, <1>4
<1>7. Dist(cf, from, r.next) <= n + 1
  BY <1>2, <1>4, <1>6
<1>8. \A i \in DOMAIN st.opened : Dist(cf, from, st.opened[i].coord) < Dist(cf, from, r.next)
  BY <1>2, <1>4, <1>5, <1>6
<1> QED BY <1>2, <1>7, <1>8, Zenon DEF Fresh

SoundlyOn(cf, C, possible, ups, s, n, st, r) ==
    /\ Sound(cf, C, possible, ups, s, n + 1, r) /\ r.acc = st.acc /\ r.opened = st.opened
    /\ r.done = st.done /\ r.ignore = st.ignore

LEMMA UntilSound ==
    ASSUME NEW cf, NEW C, NEW possible, NEW ups, Setting(cf, C, possible, ups),
           NEW s \in Seq(Events), NEW n \in Nat, NEW st, Sound(cf, C, possible, ups, s, n, st),
           st.acc # <<>>, NEW next, next \in {st.next, NextCoord(cf, st.next)}, NEW r,
           r = [st EXCEPT !.until = UntilTimeout(st), !.next = next]
    PROVE  SoundlyOn(cf, C, possible, ups, s, n, st, r)
<1>1. IsConfig(cf) /\ st \in Looks(cf) /\ C.next \in 0..(cf.NumCoords - 1)
  BY DEF Setting, Sound, States
<1>2. PICK u \in Nat : u = UntilTimeout(st) /\ (u > 0 => u + st.acc[1].since <= Longest(cf))
  BY <1>1, UntilTimeoutIs
<1>3. next \in 0..(cf.NumCoords - 1)
  <2>1. st.next \in 0..(cf.NumCoords - 1)
    BY <1>1 DEF Looks
  <2> QED BY <1>1, <2>1, DistNext
<1>4. /\ r \in Looks(cf) /\ r.acc = st.acc /\ r.cands = st.cands /\ r.until = u
      /\ r.ignore = st.ignore /\ r.done = st.done /\ r.next = next /\ r.opened = st.opened
  <2>1. r = [st EXCEPT !.until = u, !.next = next]
    BY <1>2
  <2> QED BY <1>1, <1>3, <2>1 DEF Looks
<1>5. Fresh(cf, C.next, n + 1, r)
  <2>1. Fresh(cf, C.next, n, st)
    BY Zenon DEF Sound
  <2> QED BY <1>1, <1>4, <2>1, FreshNext
<1>6. /\ Begins(r.acc, s) /\ r.cands \subseteq possible /\ InTime(possible, r.acc)
      /\ r.ignore \in {C.ignore, cf.minIdle}
      /\ \A i \in DOMAIN r.opened : Opens(possible, r.acc, ups, r.opened[i])
  BY <1>4, Zenon DEF Sound
<1>7. Waits(cf, r)
  BY <1>2, <1>4 DEF Waits
<1>8. Sound(cf, C, possible, ups, s, n + 1, r)
  BY <1>4, <1>5, <1>6, <1>7, Zenon DEF Sound
<1> QED BY <1>4, <1>8, Zenon DEF SoundlyOn

(* The state of the loop after the presses of s, one chord open at most.   *)
Seen(cf, C, possible, ups, s, st) ==
    /\ Sound(cf, C, possible, ups, s, Len(s), st)
    /\ ~st.done => st.acc = s /\ st.opened = <<>> /\ st.ignore = C.ignore
    /\ st.opened = <<>> \/ Len(st.opened) = 1

LEMMA SomeFitSeen ==
    ASSUME NEW cf, NEW C, NEW possible, NEW ups, Setting(cf, C, possible, ups),
           NEW s \in Seq(Events), NEW p \in Events, NEW st,
           Sound(cf, C, possible, ups, Append(s, p), Len(s), st),
           st.acc = Append(s, p), st.opened = <<>>, st.ignore = C.ignore, ~st.done,
           NEW r, r = SomeFit(cf, st, Exactly(st.cands, st.acc), ups)
    PROVE  Seen(cf, C, possible, ups, Append(s, p), r)
<1> DEFINE t == Append(s, p)
           exact == Exactly(st.cands, st.acc)
<1>1. t \in Seq(Events) /\ Len(t) = Len(s) + 1 /\ Len(s) \in Nat /\ t # <<>>
  OBVIOUS
<1> HIDE DEF t
<1>2. st \in Looks(cf) /\ st.cands \subseteq possible
  BY DEF Sound
<1>3. ASSUME NEW next, next \in {st.next, NextCoord(cf, st.next)},
             r = [st EXCEPT !.until = UntilTimeout(st), !.next = next]
      PROVE  Seen(cf, C, possible, ups, t, r)
  <2>1. Sound(cf, C, possible, ups, t, Len(s), st) /\ st.acc # <<>>
    BY <1>1 DEF t
  <2>2. /\ Sound(cf, C, possible, ups, t, Len(s) + 1, r) /\ r.acc = st.acc /\ r.opened = st.opened
        /\ r.done = st.done /\ r.ignore = st.ignore
    <3>1. SoundlyOn(cf, C, possible, ups, t, Len(s), st, r)
      BY <1>1, <1>3, <2>1, UntilSound
    <3> QED BY <3>1, Zenon DEF SoundlyOn
  <2> QED BY <1>1, <2>2, Zenon DEF Seen, t
<1>4. CASE Cardinality(st.cands) > 1
  <2>1. r = [st EXCEPT !.until = UntilTimeout(st)]
    BY <1>4 DEF SomeFit
  <2>2. [st EXCEPT !.until = UntilTimeout(st)] = [st EXCEPT !.until = UntilTimeout(st), !.next = st.next]
    BY <1>2 DEF Looks
  <2>3. PICK next : next = st.next
    OBVIOUS
  <2>4. Seen(cf, C, possible, ups, t, r)
    BY <1>3, <2>1, <2>2, <2>3
  <2> QED BY <2>4 DEF t
<1>5. CASE ~(Cardinality(st.cands) > 1) /\ exact = {}
  <2>1. r = [st EXCEPT !.until = UntilTimeout(st), !.next = NextCoord(cf, st.next)]
    BY <1>5 DEF SomeFit
  <2>2. PICK next : next = NextCoord(cf, st.next)
    OBVIOUS
  <2>3. Seen(cf, C, possible, ups, t, r)
    BY <1>3, <2>1, <2>2
  <2> QED BY <2>3 DEF t
<1>6. CASE ~(Cardinality(st.cands) > 1) /\ exact # {}
  <2> DEFINE o == OpenChord(cf, st, exact, ups)
  <2>1. r = [o EXCEPT !.done = TRUE]
    BY <1>6 DEF SomeFit
  <2>2. SoundNow(cf, C, possible, ups, t, Len(s), st, o)
    <3>1. Sound(cf, C, possible, ups, t, Len(s), st)
      BY DEF t
    <3> QED BY <1>1, <1>2, <1>6, <3>1, OpenSound
  <2> HIDE DEF o
  <2>3. Sound(cf, C, possible, ups, t, Len(s) + 1, o) /\ o \in Looks(cf)
    BY <2>2 DEF SoundNow, Sound
  <2>4. /\ r \in Looks(cf) /\ r.acc = o.acc /\ r.cands = o.cands /\ r.until = o.until
        /\ r.ignore = o.ignore /\ r.done = TRUE /\ r.next = o.next /\ r.opened = o.opened
    BY <2>1, <2>3 DEF Looks
  <2>5. Sound(cf, C, possible, ups, t, Len(s) + 1, r)
    <3>1. Fresh(cf, C.next, Len(s) + 1, r) /\ Waits(cf, r)
      <4>1. Fresh(cf, C.next, Len(s) + 1, o) /\ Waits(cf, o)
        BY <2>3, Zenon DEF Sound
      <4> QED BY <2>4, <4>1 DEF Fresh, Waits
    <3> QED BY <2>3, <2>4, <3>1, Zenon DEF Sound
  <2>6. Len(r.opened) = 1 \/ r.opened = <<>>
    <3>1. Len(st.opened) = 0
      OBVIOUS
    <3>2. r.opened \in Seq(Actives(cf))
      BY <2>4 DEF Looks
    <3>3. Len(o.opened) = Len(st.opened) + 1 \/ Len(o.opened) = Len(st.opened)
      BY <2>2 DEF SoundNow
    <3> QED BY <2>4, <3>1, <3>2, <3>3
  <2> QED BY <1>1, <2>4, <2>5, <2>6, Zenon DEF Seen, t
<1> QED BY <1>4, <1>5, <1>6

(* One press more.                                                         *)
LEMMA NotDoneSeen ==
    ASSUME NEW cf, NEW C, NEW possible, NEW ups, Setting(cf, C, possible, ups),
           NEW s \in Seq(Events), NEW p \in Events, NEW st, Seen(cf, C, possible, ups, s, st), ~st.done,
           NEW st1, st1 = WithPress(possible, st, p), NEW r, r = ConsiderPress(cf, possible, ups, st, st1)
    PROVE  Seen(cf, C, possible, ups, Append(s, p), r)
<1> DEFINE t == Append(s, p)
<1>1. t \in Seq(Events) /\ Len(t) = Len(s) + 1 /\ Len(s) \in Nat /\ t # <<>>
  OBVIOUS
<1>2. s # <<>> => t[1] = s[1]
  OBVIOUS
<1>3. Begins(s, t) /\ Begins(t, t)
  <2>1. Begins(s, s)
    BY DEF Begins
  <2> QED BY <2>1, BeginsAppend
<1> HIDE DEF t
<1>4. /\ Sound(cf, C, possible, ups, s, Len(s), st) /\ st \in Looks(cf)
      /\ st.acc = s /\ st.opened = <<>> /\ st.ignore = C.ignore
      /\ Fresh(cf, C.next, Len(s), st) /\ Waits(cf, st)
  BY Zenon DEF Seen, Sound
<1>5. possible \subseteq cf.chords
  BY DEF Setting
<1>6. PICK cands \in SUBSET cf.chords : cands = Candidates(possible, t) /\ cands \subseteq possible
  BY <1>5 DEF Candidates
<1>7. /\ st1 \in Looks(cf) /\ st1.acc = t /\ st1.cands = cands /\ st1.until = st.until
      /\ st1.opened = <<>> /\ st1.ignore = C.ignore /\ st1.next = st.next /\ ~st1.done
  <2>1. st1 = [st EXCEPT !.acc = t, !.cands = cands]
    BY <1>4, <1>6 DEF WithPress, t
  <2> QED BY <1>1, <1>4, <2>1 DEF Looks
<1>8. ASSUME cands # {} PROVE Seen(cf, C, possible, ups, t, r)
  <2>1. r = SomeFit(cf, st1, Exactly(st1.cands, st1.acc), ups)
    BY <1>7, <1>8 DEF ConsiderPress
  <2>2. InTime(possible, t)
    BY <1>6, <1>8 DEF InTime, Candidates
  <2>3. Waits(cf, st1)
    BY <1>1, <1>2, <1>4, <1>7 DEF Waits
  <2>4. Fresh(cf, C.next, Len(s), st1)
    BY <1>4, <1>7 DEF Fresh
  <2>5. \A i \in DOMAIN st1.opened : Opens(possible, st1.acc, ups, st1.opened[i])
    BY <1>7
  <2>6. Sound(cf, C, possible, ups, t, Len(s), st1)
    BY <1>3, <1>6, <1>7, <2>2, <2>3, <2>4, <2>5, Zenon DEF Sound
  <2> QED BY <1>7, <2>1, <2>6, SomeFitSeen DEF t
<1>9. ASSUME cands = {} PROVE Seen(cf, C, possible, ups, t, r)
  <2> DEFINE st2 == [st EXCEPT !.done = TRUE, !.cands = {}]
  <2>1. r = NoneFits(cf, st2, Exactly(possible, st.acc), ups)
    BY <1>7, <1>9 DEF ConsiderPress
  <2>2. /\ st2 \in Looks(cf) /\ st2.acc = s /\ st2.cands = {} /\ st2.until = st.until /\ st2.done
        /\ st2.opened = <<>> /\ st2.ignore = C.ignore /\ st2.next = st.next
    BY <1>4 DEF Looks
  <2> HIDE DEF st2
  <2>3. Fresh(cf, C.next, Len(s), st2)
    BY <1>4, <2>2 DEF Fresh
  <2>4. Waits(cf, st2)
    BY <1>4, <2>2 DEF Waits
  <2>5. InTime(possible, st2.acc)
    BY <1>4, <2>2 DEF Sound
  <2>6. \A i \in DOMAIN st2.opened : Opens(possible, st2.acc, ups, st2.opened[i])
    BY <2>2
  <2>7. st2.cands \subseteq possible /\ st2.ignore \in {C.ignore, cf.minIdle} /\ Begins(st2.acc, t)
    BY <1>3, <2>2
  <2>8. Sound(cf, C, possible, ups, t, Len(s), st2)
    BY <2>2, <2>3, <2>4, <2>5, <2>6, <2>7, Zenon DEF Sound
  <2>9. SoundNow(cf, C, possible, ups, t, Len(s), st2, r)
    <3>1. r = NoneFits(cf, st2, Exactly(possible, st2.acc), ups)
      BY <1>4, <2>1, <2>2
    <3> QED BY <1>1, <2>8, <3>1, NoneFitsSound
  <2>10. r.done /\ Sound(cf, C, possible, ups, t, Len(t), r) /\ r.opened \in Seq(Actives(cf))
    <3>1. r.done /\ Sound(cf, C, possible, ups, t, Len(t), r)
      BY <1>1, <2>2, <2>9 DEF SoundNow
    <3> QED BY <3>1 DEF Sound, Looks
  <2>11. Len(r.opened) = 1 \/ r.opened = <<>>
    <3>1. Len(st2.opened) = 0
      BY <2>2
    <3>2. Len(r.opened) = Len(st2.opened) + 1 \/ Len(r.opened) = Len(st2.opened)
      BY <2>9 DEF SoundNow
    <3> QED BY <2>10, <3>1, <3>2
  <2> QED BY <2>10, <2>11, Zenon DEF Seen
<1> QED BY <1>8, <1>9 DEF t

LEMMA OneMoreSeen ==
    ASSUME NEW cf, NEW C, NEW possible, NEW ups, Setting(cf, C, possible, ups),
           NEW s \in Seq(Events), NEW p \in Events, NEW st, Seen(cf, C, possible, ups, s, st),
           NEW r, r = ConsiderPress(cf, possible, ups, st, WithPress(possible, st, p))
    PROVE  Seen(cf, C, possible, ups, Append(s, p), r)
<1>1. ASSUME st.done PROVE Seen(cf, C, possible, ups, Append(s, p), r)
  <2> DEFINE t == Append(s, p)
  <2>1. t \in Seq(Events) /\ Len(t) = Len(s) + 1 /\ Len(s) \in Nat
    OBVIOUS
  <2>2. r = st
    BY <1>1 DEF ConsiderPress
  <2>3. /\ Sound(cf, C, possible, ups, s, Len(s), st) /\ st \in Looks(cf) /\ Begins(st.acc, s)
        /\ Fresh(cf, C.next, Len(s), st)
    BY Zenon DEF Seen, Sound
  <2>4. Begins(st.acc, t)
    BY <2>3, BeginsAppend DEF Looks
  <2> HIDE DEF t
  <2>5. Fresh(cf, C.next, Len(t), st)
    <3>1. /\ C.next \in 0..(cf.NumCoords - 1) /\ st.next \in 0..(cf.NumCoords - 1) /\ IsConfig(cf)
      BY <2>3 DEF Looks, Setting, States
    <3> QED BY <2>1, <2>3, <3>1, FreshNext
  <2>6. Sound(cf, C, possible, ups, t, Len(t), st)
    BY <2>3, <2>4, <2>5, Zenon DEF Sound
  <2> QED BY <1>1, <2>2, <2>6, Zenon DEF Seen, t
<1>2. ASSUME ~st.done PROVE Seen(cf, C, possible, ups, Append(s, p), r)
  BY <1>2, NotDoneSeen
<1> QED BY <1>1, <1>2

LEMMA AllSeen ==
    ASSUME NEW cf, NEW C, NEW possible, NEW ups, Setting(cf, C, possible, ups), NEW s \in Seq(Events)
    PROVE  Seen(cf, C, possible, ups, s, ConsiderPresses(cf, C, possible, s, ups))
<1> DEFINE Good == {q \in Seq(Events) :
                      Seen(cf, C, possible, ups, q, ConsiderPresses(cf, C, possible, q, ups))}
<1>1. <<>> \in Good
  <2> DEFINE st == NoneSeen(C)
  <2>1. /\ IsConfig(cf) /\ C.until = 0 /\ C.ignore \in Nat /\ C.next \in 0..(cf.NumCoords - 1)
    BY DEF Setting, States
  <2>2. /\ st \in Looks(cf) /\ st.acc = <<>> /\ st.cands = {} /\ st.until = 0 /\ st.opened = <<>>
        /\ st.ignore = C.ignore /\ st.next = C.next /\ ~st.done
    BY <2>1 DEF NoneSeen, Looks
  <2> HIDE DEF st
  <2>3. Fresh(cf, C.next, 0, st)
    <3>1. Dist(cf, C.next, C.next) = 0
      BY <2>1 DEF Dist
    <3> QED BY <2>2, <3>1 DEF Fresh
  <2>4. Begins(st.acc, <<>>) /\ Waits(cf, st) /\ InTime(possible, st.acc) /\ st.cands \subseteq possible
    BY <2>2 DEF Begins, Waits, InTime
  <2>5. \A i \in DOMAIN st.opened : Opens(possible, st.acc, ups, st.opened[i])
    BY <2>2
  <2>6. st.ignore \in {C.ignore, cf.minIdle}
    BY <2>2
  <2>7. Sound(cf, C, possible, ups, <<>>, 0, st)
    BY <2>2, <2>3, <2>4, <2>5, <2>6, Zenon DEF Sound
  <2>8. Len(<<>>) = 0
    OBVIOUS
  <2>9. Seen(cf, C, possible, ups, <<>>, st)
    BY <2>2, <2>7, <2>8 DEF Seen
  <2> QED BY <2>9, ConsiderEmpty DEF st
<1>2. ASSUME NEW q \in Seq(Events), NEW e \in Events, q \in Good PROVE Append(q, e) \in Good
  <2>1. PICK st : st = ConsiderPresses(cf, C, possible, q, ups)
    OBVIOUS
  <2>2. ConsiderPresses(cf, C, possible, Append(q, e), ups) =
          ConsiderPress(cf, possible, ups, st, WithPress(possible, st, e))
    BY <2>1, ConsiderAppend
  <2>3. Seen(cf, C, possible, ups, q, st)
    BY <1>2, <2>1
  <2>4. Seen(cf, C, possible, ups, Append(q, e), ConsiderPresses(cf, C, possible, Append(q, e), ups))
    BY <2>2, <2>3, OneMoreSeen
  <2> QED BY <2>4
<1> HIDE DEF Good
<1>3. s \in Good
  BY <1>1, <1>2, EveryList
<1> QED BY <1>3 DEF Good

(* After the last press: the wait goes on, a chord has opened, or chords   *)
(* are ignored for a while.                                                *)
Looked(cf, C, possible, ups, s, st) ==
    /\ Sound(cf, C, possible, ups, s, Len(s) + 1, st)
    /\ st.until > 0 \/ st.opened # <<>> \/ st.ignore = cf.minIdle

LEMMA TimeIsUpLooked ==
    ASSUME NEW cf, NEW C, NEW possible, NEW ups, Setting(cf, C, possible, ups),
           NEW s \in Seq(Events), NEW st, Seen(cf, C, possible, ups, s, st),
           NEW r, r = TimeIsUp(cf, st, ups)
    PROVE  Looked(cf, C, possible, ups, s, r)
<1>1. Sound(cf, C, possible, ups, s, Len(s), st) /\ st \in Looks(cf) /\ st.cands \subseteq possible
      /\ Fresh(cf, C.next, Len(s), st) /\ Len(s) \in Nat /\ Len(s) + 1 \in Nat
  BY DEF Seen, Sound
<1>2. ASSUME st.until > 0, ups = {} PROVE Looked(cf, C, possible, ups, s, r)
  <2>1. r = st
    BY <1>2 DEF TimeIsUp
  <2>2. Fresh(cf, C.next, Len(s) + 1, st)
    <3>1. /\ C.next \in 0..(cf.NumCoords - 1) /\ IsConfig(cf)
      BY DEF Setting, States
    <3> QED BY <1>1, <3>1, FreshNext
  <2>3. Sound(cf, C, possible, ups, s, Len(s) + 1, st)
    BY <1>1, <2>2, Zenon DEF Sound
  <2> QED BY <1>2, <2>1, <2>3 DEF Looked
<1>3. ASSUME ~(st.until > 0 /\ ups = {}) PROVE Looked(cf, C, possible, ups, s, r)
  <2>1. r = NoneFits(cf, st, Exactly(st.cands, st.acc), ups)
    BY <1>3 DEF TimeIsUp
  <2>2. SoundNow(cf, C, possible, ups, s, Len(s), st, r)
    BY <1>1, <2>1, NoneFitsSound
  <2>3. Len(r.opened) = Len(st.opened) + 1 \/ r.ignore = cf.minIdle
    BY <2>2 DEF SoundNow
  <2>4. Len(r.opened) = Len(st.opened) + 1 => r.opened # <<>>
    <3>1. Len(st.opened) \in Nat
      BY <1>1 DEF Looks
    <3> QED BY <3>1
  <2> QED BY <2>2, <2>3, <2>4 DEF Looked, SoundNow
<1> QED BY <1>2, <1>3

-----------------------------------------------------------------------------
(* The presses that are looked at: the first of them is the first event.   *)
LEMMA PressesBeforeIs ==
    ASSUME NEW q \in Seq(Events), NEW s, s = PressesBefore(q, RelevantReleases(q))
    PROVE  /\ s \in Seq(Events) /\ Len(s) <= Len(q)
           /\ ToSet(s) \subseteq {e \in ToSet(q) : e.press}
           /\ Sorted(q) => Sorted(s)
           /\ q # <<>> /\ q[1].press => s # <<>> /\ s[1] = q[1]
<1> DEFINE ups == RelevantReleases(q)
           m == MinNat(ups)
           part == IF ups = {} THEN q ELSE SubSeq(q, 1, m)
           kept == {e \in ToSet(part) : e.press}
<1>1. DOMAIN q = 1..Len(q) /\ Len(q) \in Nat /\ \A i \in DOMAIN q : q[i] \in Events
  OBVIOUS
<1>2. ASSUME ups # {} PROVE m \in 1..Len(q) /\ (q # <<>> /\ q[1].press => m > 1)
  <2>1. ups \subseteq Nat /\ ups \subseteq 1..Len(q) /\ \A i \in ups : ~q[i].press
    BY <1>1 DEF RelevantReleases
  <2> HIDE DEF ups
  <2>2. m \in ups
    BY <1>2, <2>1, MinNatIs
  <2> HIDE DEF m
  <2>3. m = 1 => ~q[1].press
    BY <2>1, <2>2
  <2> QED BY <2>1, <2>2, <2>3
<1>3. /\ part \in Seq(Events) /\ Len(part) <= Len(q) /\ ToSet(part) \subseteq ToSet(q)
      /\ \A i \in 1..Len(part) : part[i] = q[i]
  <2>1. CASE ups = {}
    BY <1>1, <2>1
  <2>2. CASE ups # {}
    <3>1. m \in 0..Len(q) /\ m <= Len(q)
      BY <1>1, <1>2, <2>2
    <3>2. part = SubSeq(q, 1, m)
      BY <2>2
    <3> HIDE DEF m, ups, part
    <3> QED BY <3>1, <3>2, Parts
  <2> QED BY <2>1, <2>2
<1>4. q # <<>> /\ q[1].press => part # <<>> /\ part[1] = q[1]
  <2>1. CASE ups = {}
    BY <2>1
  <2>2. CASE ups # {}
    <3>1. m \in 1..Len(q)
      BY <1>1, <1>2, <2>2
    <3>2. part = SubSeq(q, 1, m)
      BY <2>2
    <3> HIDE DEF m, ups, part
    <3>3. Len(part) = m /\ part \in Seq(Events)
      BY <3>1, <3>2, Parts
    <3> QED BY <1>3, <3>1, <3>3
  <2> QED BY <2>1, <2>2
<1>5. s = Retain(part, kept)
  BY DEF PressesBefore, PressesIn
<1> HIDE DEF part, ups, m
<1>6. Sorted(q) => Sorted(part)
  BY <1>1, <1>3 DEF Sorted
<1>7. s \in Seq(Events) /\ Len(s) <= Len(part) /\ ToSet(s) = ToSet(part) \cap kept
  BY <1>3, <1>5, RetainIn
<1>8. Sorted(part) => Sorted(s)
  <2>1. \A e \in Events : e.since \in Nat
    BY DEF Events
  <2> QED BY <1>3, <1>5, <2>1, RetainSorted
<1>9. ASSUME part # <<>>, part[1].press PROVE s # <<>> /\ s[1] = part[1]
  <2>1. part[1] \in kept
    <3>1. 1 \in DOMAIN part
      BY <1>3, <1>9
    <3> QED BY <1>9, <3>1 DEF ToSet
  <2> HIDE DEF kept
  <2> QED BY <1>3, <1>5, <1>9, <2>1, RetainFirst
<1>10. ToSet(s) \subseteq {e \in ToSet(q) : e.press}
  BY <1>3, <1>7
<1>11. Len(part) \in Nat /\ Len(s) \in Nat
  BY <1>3, <1>7
<1> QED BY <1>1, <1>3, <1>4, <1>6, <1>7, <1>8, <1>9, <1>10, <1>11

(* The events that drain_releases takes from the front: releases, as far   *)
(* as the first press.                                                     *)
LEMMA LeadingIs ==
    ASSUME NEW q \in Seq(Events), NEW gone, gone = LeadingReleases(q)
    PROVE  /\ gone \in Seq(Events) /\ Len(gone) \in 0..Len(q) /\ gone = SubSeq(q, 1, Len(gone))
           /\ \A e \in ToSet(gone) : ~e.press
           /\ Len(gone) < Len(q) => q[Len(gone) + 1].press
<1> DEFINE ps == {i \in DOMAIN q : q[i].press}
           m == IF ps = {} THEN Len(q) ELSE MinNat(ps) - 1
<1>1. DOMAIN q = 1..Len(q) /\ Len(q) \in Nat
  OBVIOUS
<1>2. gone = SubSeq(q, 1, m)
  BY DEF LeadingReleases
<1>3. ps \subseteq Nat /\ ps \subseteq 1..Len(q)
  BY <1>1
<1>4. m \in 0..Len(q) /\ (\A i \in 1..m : ~q[i].press) /\ (m < Len(q) => q[m + 1].press)
  <2>1. CASE ps = {}
    BY <1>1, <2>1
  <2>2. CASE ps # {}
    <3>1. PICK n : n = MinNat(ps)
      OBVIOUS
    <3> HIDE DEF ps
    <3>2. n \in ps /\ \A i \in ps : n <= i
      BY <1>3, <2>2, <3>1, MinNatIs
    <3>3. n \in 1..Len(q) /\ m = n - 1
      BY <1>3, <2>2, <3>1, <3>2
    <3>4. ASSUME NEW i \in 1..(n - 1) PROVE i \in DOMAIN q /\ i \notin ps
      BY <1>1, <3>2, <3>3
    <3>5. (\A i \in 1..(n - 1) : ~q[i].press) /\ q[n].press
      BY <3>2, <3>4 DEF ps
    <3> HIDE DEF m
    <3>6. n - 1 + 1 = n /\ n - 1 \in 0..Len(q)
      BY <1>1, <3>3
    <3> QED BY <3>3, <3>5, <3>6
  <2> QED BY <2>1, <2>2
<1> HIDE DEF m, ps
<1>5. gone \in Seq(Events) /\ Len(gone) = m /\ \A i \in 1..m : gone[i] = q[i]
  BY <1>2, <1>4, Parts
<1>6. \A e \in ToSet(gone) : ~e.press
  BY <1>4, <1>5 DEF ToSet
<1> QED BY <1>2, <1>4, <1>5, <1>6

-----------------------------------------------------------------------------
(* What a look at the queue comes to: nothing waits, chords are ignored    *)
(* for a while, or the presses have been looked at one by one.             *)
Enabled(cf, layer_) == {ch \in cf.chords : layer_ \notin ch.disabled}
LookedAt(cf, C, layer_, st) ==
    LET ups == RelevantReleases(C.queue)
    IN  \E possible \in SUBSET Enabled(cf, layer_) :
          Looked(cf, C, possible, ups, PressesBefore(C.queue, ups), st)
ProcessedBy(cf, C, layer_, D) ==
    \/ C.queue = <<>> /\ D = C
    \/ D = [C EXCEPT !.ignore = cf.minIdle]
    \/ \E st : LookedAt(cf, C, layer_, st) /\ D = Conclude(C, st)

LEMMA ProcessPressesIs ==
    ASSUME NEW cf, IsConfig(cf), NEW C \in States(cf), C.until = 0, NEW layer_,
           C.queue # <<>> => C.queue[1].press,
           NEW D, D = ProcessPresses(cf, C, layer_)
    PROVE  ProcessedBy(cf, C, layer_, D)
<1> DEFINE ups == RelevantReleases(C.queue)
           s == PressesBefore(C.queue, ups)
           k == s[1].coord[2]
           possible == {ch \in ChordsOfKey(cf, k) : layer_ \notin ch.disabled}
<1>1. C.queue \in Seq(Events)
  BY DEF States
<1>2. s \in Seq(Events) /\ (C.queue # <<>> => s # <<>>)
  BY <1>1, PressesBeforeIs
<1>3. D = ProcessQueued(cf, C, layer_, s, ups)
  BY DEF ProcessPresses
<1>4. CASE s = <<>>
  <2>1. C.queue = <<>>
    BY <1>2, <1>4
  <2>2. D = C
    BY <1>3, <1>4, Zenon DEF ProcessQueued
  <2> QED BY <2>1, <2>2, Zenon DEF ProcessedBy
<1>5. CASE s # <<>> /\ ChordsOfKey(cf, k) = {}
  <2>1. D = [C EXCEPT !.ignore = cf.minIdle]
    BY <1>3, <1>5, Zenon DEF ProcessQueued
  <2> QED BY <2>1, Zenon DEF ProcessedBy
<1>6. CASE s # <<>> /\ ChordsOfKey(cf, k) # {}
  <2>1. D = Conclude(C, TimeIsUp(cf, ConsiderPresses(cf, C, possible, s, ups), ups))
    BY <1>3, <1>6, Zenon DEF ProcessQueued
  <2>2. possible \in SUBSET Enabled(cf, layer_) /\ possible \subseteq cf.chords
    BY DEF Enabled, ChordsOfKey
  <2>3. Setting(cf, C, possible, ups)
    BY <2>2, Zenon DEF Setting
  <2> HIDE DEF possible, s, k, ups
  <2>4. Seen(cf, C, possible, ups, s, ConsiderPresses(cf, C, possible, s, ups))
    BY <1>2, <2>3, AllSeen
  <2>5. PICK st : st = TimeIsUp(cf, ConsiderPresses(cf, C, possible, s, ups), ups)
    OBVIOUS
  <2>6. Looked(cf, C, possible, ups, s, st)
    BY <1>2, <2>3, <2>4, <2>5, TimeIsUpLooked
  <2>7. LookedAt(cf, C, layer_, st)
    BY <2>2, <2>6 DEF LookedAt, s, ups
  <2>8. D = Conclude(C, st)
    BY <2>1, <2>5
  <2> QED BY <2>7, <2>8, Zenon DEF ProcessedBy
<1> QED BY <1>4, <1>5, <1>6, Zenon

(* The presses of a chord that opened have left the queue.                 *)
Consumed(q, acc) == {e \in ToSet(q) : ~(e.press /\ e.coord[2] \in KeysOf(acc))}
Concluded(cf, C, st, D) ==
    /\ D \in States(cf) /\ D.active = C.active \o st.opened
    /\ D.ignore = st.ignore /\ D.until = st.until /\ D.next = st.next
    /\ D.prevLayer = C.prevLayer /\ D.prevLen = C.prevLen
    /\ D.queue = IF st.opened = <<>> THEN C.queue ELSE Retain(C.queue, Consumed(C.queue, st.acc))

LEMMA ConcludeIs ==
    ASSUME NEW cf, IsConfig(cf), NEW C \in States(cf), NEW st \in Looks(cf), NEW D, D = Conclude(C, st)
    PROVE  Concluded(cf, C, st, D)
<1>1. /\ C.queue \in Seq(Events) /\ C.active \in Seq(Actives(cf))
      /\ C.prevLayer \in cf.layers \cup {NoLayer} /\ C.prevLen \in Int
  BY DEF States
<1>2. /\ st.opened \in Seq(Actives(cf)) /\ st.ignore \in Nat /\ st.until \in Nat
      /\ st.next \in 0..(cf.NumCoords - 1)
  BY DEF Looks
<1>3. PICK active \in Seq(Actives(cf)) : active = C.active \o st.opened
  <2>1. C.active \o st.opened \in Seq(Actives(cf))
    BY <1>1, <1>2, ConcatProperties
  <2> QED BY <2>1
<1>4. PICK queue \in Seq(Events) :
        queue = IF st.opened = <<>> THEN C.queue ELSE Retain(C.queue, Consumed(C.queue, st.acc))
  <2>1. Retain(C.queue, Consumed(C.queue, st.acc)) \in Seq(Events)
    BY <1>1, RetainIn
  <2> QED BY <1>1, <2>1
<1>5. D = [C EXCEPT !.active = active, !.ignore = st.ignore, !.until = st.until, !.next = st.next,
                    !.queue = queue]
  BY <1>3, <1>4, Zenon DEF Conclude, Consumed
<1>6. /\ D \in States(cf) /\ D.active = active /\ D.ignore = st.ignore /\ D.until = st.until
      /\ D.next = st.next /\ D.queue = queue /\ D.prevLayer = C.prevLayer /\ D.prevLen = C.prevLen
  BY <1>2, <1>5 DEF States
<1> QED BY <1>3, <1>4, <1>6, Zenon DEF Concluded

-----------------------------------------------------------------------------
(* The releases that leave end chords, and no chord goes in this way.      *)
LEMMA EndedActives ==
    ASSUME NEW cf, NEW active \in Seq(Actives(cf)), NEW es \in Seq(Events), NEW r,
           r = EndByReleases(active, es)
    PROVE  /\ r \in Seq(Actives(cf)) /\ Len(r) = Len(active) /\ DOMAIN r = DOMAIN active
           /\ \A i \in DOMAIN r : r[i] = EndsBy(active[i], KeysUp(es))
<1>1. r = [i \in DOMAIN active |-> EndsBy(active[i], KeysUp(es))]
  BY EndsByReleases
<1>2. DOMAIN active = 1..Len(active) /\ Len(active) \in Nat /\ \A i \in DOMAIN active : active[i] \in Actives(cf)
  OBVIOUS
<1>3. \A i \in DOMAIN active : EndsBy(active[i], KeysUp(es)) \in Actives(cf)
  BY <1>2, EndsByIs
<1>4. r = [i \in 1..Len(active) |-> r[i]] /\ \A i \in 1..Len(active) : r[i] \in Actives(cf)
  BY <1>1, <1>2, <1>3
<1> QED BY <1>1, <1>2, <1>4

(* One drain: all events leave while chords are ignored, none while the    *)
(* wait goes on; or else virtual keys leave, the leading releases too, and *)
(* what is left is looked at.                                              *)
Ignoring(cf, C, d) ==
    /\ C.ignore > 0 /\ d.c \in States(cf)
    /\ d.c.queue = <<>> /\ d.c.active = EndByReleases(C.active, C.queue)
    /\ d.c.ignore = C.ignore /\ d.c.until = C.until /\ d.c.next = C.next
    /\ d.q = PushAll(<<>>, C.queue)
Sleeping(cf, C, d) ==
    /\ C.ignore = 0 /\ C.until > 0 /\ d.c \in States(cf)
    /\ d.c.queue = C.queue /\ d.c.active = C.active
    /\ d.c.ignore = 0 /\ d.c.until = C.until - 1 /\ d.c.next = C.next /\ d.q = <<>>
Reals(q) == Retain(q, RealInputs(q))
Virtuals(q) == Retain(q, ToSet(q) \ RealInputs(q))
Gone(q) == LeadingReleases(Reals(q))
Left(q) == SubSeq(Reals(q), Len(Gone(q)) + 1, Len(Reals(q)))
InFront(cf, C, D) ==
    /\ C.ignore = 0 /\ D \in States(cf) /\ D.queue = Left(C.queue)
    /\ D.active = EndByReleases(C.active, Gone(C.queue))
    /\ D.ignore = 0 /\ D.until = 0 /\ D.next = C.next
Looking(cf, C, layer_, d) ==
    /\ \E D : InFront(cf, C, D) /\ ProcessedBy(cf, D, layer_, d.c)
    /\ d.q = PushAll(PushAll(<<>>, Virtuals(C.queue)), Gone(C.queue))
DrainedBy(cf, C, layer_, d) ==
    Ignoring(cf, C, d) \/ Sleeping(cf, C, d) \/ Looking(cf, C, layer_, d)

LEMMA LeftIs ==
    ASSUME NEW q \in Seq(Events)
    PROVE  /\ Reals(q) \in Seq(Events) /\ Virtuals(q) \in Seq(Events) /\ Gone(q) \in Seq(Events)
           /\ Left(q) \in Seq(Events) /\ Len(Left(q)) <= Len(q) /\ ToSet(Left(q)) \subseteq RealInputs(q)
           /\ Left(q) # <<>> => Left(q)[1].press
           /\ Sorted(q) => Sorted(Left(q))
           /\ Len(Gone(q)) \in 0..Len(Reals(q)) /\ Gone(q) = SubSeq(Reals(q), 1, Len(Gone(q)))
           /\ \A e \in ToSet(Gone(q)) : ~e.press
           /\ ToSet(Gone(q)) \subseteq RealInputs(q)
<1> DEFINE R == Reals(q)
           g == Gone(q)
<1>1. /\ R \in Seq(Events) /\ Len(R) <= Len(q) /\ Virtuals(q) \in Seq(Events)
      /\ ToSet(R) = ToSet(q) \cap RealInputs(q)
  BY RetainIn DEF Reals, Virtuals
<1>2. Sorted(q) => Sorted(R)
  <2>1. \A e \in Events : e.since \in Nat
    BY DEF Events
  <2> QED BY <2>1, RetainSorted DEF Reals
<1>3. g = LeadingReleases(R) /\ Left(q) = SubSeq(R, Len(g) + 1, Len(R))
  BY DEF Gone, Left
<1> HIDE DEF R, g
<1>4. /\ g \in Seq(Events) /\ Len(g) \in 0..Len(R) /\ g = SubSeq(R, 1, Len(g))
      /\ \A e \in ToSet(g) : ~e.press
      /\ Len(g) < Len(R) => R[Len(g) + 1].press
  BY <1>1, <1>3, LeadingIs
<1>5. PICK m \in 0..Len(R) : m = Len(g)
  BY <1>4
<1>6. /\ Left(q) \in Seq(Events) /\ Len(Left(q)) = Len(R) - m
      /\ \A i \in 1..(Len(R) - m) : Left(q)[i] = R[m + i]
      /\ ToSet(Left(q)) \subseteq ToSet(R) /\ ToSet(SubSeq(R, 1, m)) \subseteq ToSet(R)
  <2>1. Left(q) = SubSeq(R, m + 1, Len(R))
    BY <1>3, <1>5, Zenon
  <2>2. R \in Seq(Events)
    BY <1>1
  <2> DEFINE l == SubSeq(R, m + 1, Len(R))
  <2>3. /\ l \in Seq(Events) /\ Len(l) = Len(R) - m
        /\ \A i \in 1..(Len(R) - m) : l[i] = R[m + i]
        /\ ToSet(l) \subseteq ToSet(R) /\ ToSet(SubSeq(R, 1, m)) \subseteq ToSet(R)
    BY <2>2, Parts
  <2> QED BY <2>1, <2>3, Zenon
<1>7. Sorted(R) => Sorted(Left(q))
  BY <1>1, <1>3, <1>5, RestSorted
<1>8. ASSUME Left(q) # <<>> PROVE Left(q)[1].press
  <2>1. Len(Left(q)) # 0 /\ Len(R) \in Nat
    BY <1>1, <1>6, <1>8
  <2>2. m < Len(R) /\ 1 \in 1..(Len(R) - m)
    BY <1>6, <2>1
  <2>3. Left(q)[1] = R[m + 1]
    BY <1>6, <2>2
  <2> QED BY <1>4, <1>5, <2>2, <2>3
<1>9. Len(R) \in Nat /\ Len(q) \in Nat
  BY <1>1
<1>10. ToSet(R) \subseteq RealInputs(q)
  BY <1>1
<1>11. ToSet(Left(q)) \subseteq RealInputs(q) /\ ToSet(g) \subseteq RealInputs(q)
  BY <1>4, <1>5, <1>6, <1>10
<1>12. Len(Left(q)) <= Len(q)
  BY <1>1, <1>5, <1>6, <1>9
<1> QED BY <1>1, <1>2, <1>4, <1>6, <1>7, <1>8, <1>11, <1>12 DEF R, g

Moved(cf, C, queue, active, D) ==
    /\ D \in States(cf) /\ D.queue = queue /\ D.active = active
    /\ D.ignore = C.ignore /\ D.until = C.until /\ D.next = C.next

LEMMA MovedIs ==
    ASSUME NEW cf, NEW C \in States(cf), NEW queue \in Seq(Events), NEW active \in Seq(Actives(cf)), NEW D,
           D = [C EXCEPT !.queue = queue, !.active = active]
    PROVE  Moved(cf, C, queue, active, D)
BY DEF Moved, States

LEMMA DrainInputsIs ==
    ASSUME NEW cf, IsConfig(cf), NEW C \in States(cf), NEW layer_ \in cf.layers,
           NEW d, d = DrainInputs(cf, C, layer_)
    PROVE  DrainedBy(cf, C, layer_, d)
<1>1. C.queue \in Seq(Events) /\ C.active \in Seq(Actives(cf)) /\ C.ignore \in Nat /\ C.until \in Nat
  BY DEF States
<1>2. ASSUME C.ignore > 0 PROVE Ignoring(cf, C, d)
  <2>1. PICK active \in Seq(Actives(cf)) : active = EndByReleases(C.active, C.queue)
    BY <1>1, EndedActives
  <2>2. PICK D : D = [C EXCEPT !.queue = <<>>, !.active = active]
    OBVIOUS
  <2>3. <<>> \in Seq(Events)
    OBVIOUS
  <2>5. d = [c |-> D, q |-> PushAll(<<>>, C.queue)]
    BY <1>2, <2>1, <2>2, Zenon DEF DrainInputs, DrainWithoutNewActivations
  <2>6. d.c = D /\ d.q = PushAll(<<>>, C.queue)
    BY <2>5
  <2>4. /\ d.c \in States(cf) /\ d.c.queue = <<>> /\ d.c.active = active /\ d.c.ignore = C.ignore
        /\ d.c.until = C.until /\ d.c.next = C.next /\ d.q = PushAll(<<>>, C.queue)
    BY <2>2, <2>3, <2>6 DEF States
  <2> QED BY <1>2, <2>1, <2>4, Zenon DEF Ignoring
<1>3. ASSUME ~(C.ignore > 0), Skips(C, layer_) PROVE Sleeping(cf, C, d)
  <2>1. d = [c |-> [C EXCEPT !.until = C.until - 1], q |-> <<>>]
    BY <1>3, Zenon DEF DrainInputs
  <2>2. C.ignore = 0 /\ C.until > 0 /\ C.until - 1 \in Nat
    BY <1>1, <1>3 DEF Skips
  <2>3. /\ d.c \in States(cf) /\ d.c.queue = C.queue /\ d.c.active = C.active /\ d.c.ignore = C.ignore
        /\ d.c.until = C.until - 1 /\ d.c.next = C.next /\ d.q = <<>>
    BY <2>1, <2>2 DEF States
  <2> QED BY <2>2, <2>3, Zenon DEF Sleeping
<1>4. ASSUME ~(C.ignore > 0), ~Skips(C, layer_) PROVE Looking(cf, C, layer_, d)
  <2> DEFINE C0 == [C EXCEPT !.until = 0, !.prevLayer = layer_, !.prevLen = Len(C.queue)]
             d1 == DrainVirtualKeys(C0)
             d2 == DrainReleases(d1)
  <2>1. d = [d2 EXCEPT !.c = ProcessPresses(cf, d2.c, layer_)]
    BY <1>4, Zenon DEF DrainInputs, LookAt
  <2>2. /\ C0 \in States(cf) /\ C0.queue = C.queue /\ C0.active = C.active /\ C0.ignore = C.ignore
        /\ C0.until = 0 /\ C0.next = C.next
    <3>1. Len(C.queue) \in Int /\ layer_ \in cf.layers \cup {NoLayer}
      BY <1>1
    <3> QED BY <3>1 DEF States
  <2> HIDE DEF C0
  <2>3. d1 = [c |-> [C0 EXCEPT !.queue = Reals(C.queue)], q |-> PushAll(<<>>, Virtuals(C.queue))]
    BY <2>2 DEF DrainVirtualKeys, Reals, Virtuals
  <2>4. /\ Reals(C.queue) \in Seq(Events) /\ Gone(C.queue) \in Seq(Events)
        /\ Left(C.queue) \in Seq(Events) /\ (Left(C.queue) # <<>> => Left(C.queue)[1].press)
    BY <1>1, LeftIs
  <2>5. Moved(cf, C0, Reals(C.queue), C.active, d1.c) /\ d1.q = PushAll(<<>>, Virtuals(C.queue))
    <3>1. PICK D : D = [C0 EXCEPT !.queue = Reals(C.queue), !.active = C.active]
      OBVIOUS
    <3>2. D = [C0 EXCEPT !.queue = Reals(C.queue)]
      BY <2>2, <3>1 DEF States
    <3>3. d1.c = D /\ d1.q = PushAll(<<>>, Virtuals(C.queue))
      BY <2>3, <3>2
    <3> QED BY <1>1, <2>2, <2>4, <3>1, <3>3, MovedIs
  <2> HIDE DEF d1
  <2>6. PICK active \in Seq(Actives(cf)) : active = EndByReleases(C.active, Gone(C.queue))
    BY <1>1, <2>4, EndedActives
  <2>7. d2 = [c |-> [d1.c EXCEPT !.queue = Left(C.queue), !.active = active],
              q |-> PushAll(d1.q, Gone(C.queue))]
    BY <2>5, <2>6, Zenon DEF Moved, DrainReleases, DrainSome, Gone, Left
  <2>8. Moved(cf, d1.c, Left(C.queue), active, d2.c) /\ d2.q = PushAll(d1.q, Gone(C.queue))
    <3>1. PICK D : D = [d1.c EXCEPT !.queue = Left(C.queue), !.active = active]
      OBVIOUS
    <3>2. d2.c = D /\ d2.q = PushAll(d1.q, Gone(C.queue))
      BY <2>7, <3>1
    <3>3. d1.c \in States(cf)
      BY <2>5 DEF Moved
    <3> QED BY <2>4, <2>6, <3>1, <3>2, <3>3, MovedIs
  <2>9. d.c = ProcessPresses(cf, d2.c, layer_) /\ d.q = d2.q
    <3>1. d = [c |-> ProcessPresses(cf, d2.c, layer_), q |-> d2.q]
      BY <2>1, <2>7
    <3> QED BY <3>1
  <2> HIDE DEF d2
  <2>10. C.ignore = 0
    BY <1>1, <1>4
  <2>11. InFront(cf, C, d2.c)
    BY <2>2, <2>5, <2>6, <2>8, <2>10, Zenon DEF InFront, Moved
  <2>12. ProcessedBy(cf, d2.c, layer_, d.c)
    BY <2>2, <2>4, <2>5, <2>8, <2>9, ProcessPressesIs DEF Moved
  <2> QED BY <2>5, <2>8, <2>9, <2>11, <2>12, Zenon DEF Looking
<1> QED BY <1>2, <1>3, <1>4, Zenon DEF DrainedBy

-----------------------------------------------------------------------------
(* The rest of a tick: events that tell of chords opened or ended, and the *)
(* releases of the chords that are over.                                   *)
TriggerEvents == {Trigger(TRUE), Trigger(FALSE)}
Stay(active) == Retain(active, ToSet(active) \ Over(active))
Done(active) == Retain(active, Over(active))
Told(d, q) ==
    \E trig \in Seq(TriggerEvents) :
        Len(trig) <= 2 /\ q = PushAll(PushAll(d.q, trig), ReleasesOf(Done(d.c.active)))
TickedBy(cf, d, r) ==
    /\ d.c \in States(cf) /\ r.c \in States(cf)
    /\ r.c.queue = d.c.queue /\ r.c.active = Stay(d.c.active) /\ r.c.ignore = Monus(d.c.ignore, 1)
    /\ r.c.until = d.c.until /\ r.c.next = d.c.next
    /\ Told(d, r.q)

LEMMA TriggersTold ==
    ASSUME NEW d, NEW n, NEW d1, d1 = Triggers(d, n), d = [c |-> d.c, q |-> d.q]
    PROVE  /\ d1 = [c |-> d.c, q |-> d1.q]
           /\ \E trig \in Seq(TriggerEvents) : Len(trig) <= 2 /\ d1.q = PushAll(d.q, trig)
<1> DEFINE on == Trigger(TRUE)
           off == Trigger(FALSE)
           Two == TriggerEvents
           ended == \E i \in DOMAIN d.c.active : d.c.active[i].status \in {"UnreadReleased", "Released"}
           q1 == IF Len(d.c.active) = n THEN d.q ELSE PushSmol(d.q, on)
           q2 == IF ended THEN PushSmol(q1, off) ELSE q1
<1>1. d1 = [c |-> d.c, q |-> q2]
  <2>1. d1 = [d EXCEPT !.q = q2]
    BY Zenon DEF Triggers
  <2> HIDE DEF q2
  <2> QED BY <2>1
<1>2. on \in Two /\ off \in Two
  BY DEF TriggerEvents
<1> HIDE DEF on, off, ended, Two
<1>3. \E trig \in Seq(Two) : Len(trig) <= 1 /\ q1 = PushAll(d.q, trig)
  <2>1. CASE Len(d.c.active) = n
    <3>1. <<>> \in Seq(Two) /\ Len(<<>>) <= 1 /\ q1 = PushAll(d.q, <<>>)
      BY <2>1, PushEmpty
    <3> QED BY <3>1
  <2>2. CASE Len(d.c.active) # n
    <3>1. <<>> \in Seq(Two) /\ Append(<<>>, on) \in Seq(Two) /\ Len(Append(<<>>, on)) <= 1
      BY <1>2
    <3>2. q1 = PushAll(d.q, Append(<<>>, on))
      <4>1. PushAll(d.q, Append(<<>>, on)) = PushSmol(PushAll(d.q, <<>>), on)
        BY <1>2, <3>1, PushAppend
      <4>2. PushAll(d.q, <<>>) = d.q
        BY PushEmpty
      <4> QED BY <2>2, <4>1, <4>2, Zenon
    <3> QED BY <3>1, <3>2
  <2> QED BY <2>1, <2>2
<1> HIDE DEF q1
<1>4. PICK trig \in Seq(Two) : Len(trig) <= 1 /\ q1 = PushAll(d.q, trig)
  BY <1>3
<1>5. \E t \in Seq(Two) : Len(t) <= 2 /\ q2 = PushAll(d.q, t)
  <2>1. CASE ended
    <3>1. q2 = PushAll(d.q, Append(trig, off))
      BY <1>2, <1>4, <2>1, PushAppend
    <3>2. Append(trig, off) \in Seq(Two) /\ Len(Append(trig, off)) <= 2
      BY <1>2, <1>4
    <3> QED BY <3>1, <3>2
  <2>2. CASE ~ended
    <3>1. Len(trig) <= 2
      BY <1>4
    <3> QED BY <1>4, <2>2, <3>1
  <2> QED BY <2>1, <2>2
<1> HIDE DEF q2
<1> QED BY <1>1, <1>5 DEF Two

LEMMA TickIs ==
    ASSUME NEW cf, IsConfig(cf), NEW C \in States(cf), NEW layer_ \in cf.layers, NEW cap,
           NEW A, A = [C EXCEPT !.queue = AgeQueue(C.queue, cap)],
           NEW d, d = DrainInputs(cf, A, layer_), NEW r, r = TickChv2(cf, C, layer_, cap)
    PROVE  Moved(cf, C, AgeQueue(C.queue, cap), C.active, A) /\ DrainedBy(cf, A, layer_, d) /\ TickedBy(cf, d, r)
<1>1. Moved(cf, C, AgeQueue(C.queue, cap), C.active, A)
  <2>1. C.queue \in Seq(Events) /\ C.active \in Seq(Actives(cf))
    BY DEF States
  <2>2. AgeQueue(C.queue, cap) \in Seq(Events)
    BY <2>1, Aged
  <2>3. A = [C EXCEPT !.queue = AgeQueue(C.queue, cap), !.active = C.active]
    BY DEF States
  <2> QED BY <2>1, <2>2, <2>3, MovedIs
<1>2. A \in States(cf)
  BY <1>1 DEF Moved
<1>3. DrainedBy(cf, A, layer_, d)
  BY <1>2, DrainInputsIs
<1>4. d = [c |-> d.c, q |-> d.q]
  <2>1. ASSUME NEW x, NEW y, NEW e, e = [c |-> x, q |-> y] PROVE e = [c |-> e.c, q |-> e.q]
    BY <2>1
  <2>2. \E x, y : d = [c |-> x, q |-> y]
    <3>1. CASE A.ignore > 0
      BY <3>1, Zenon DEF DrainInputs, DrainWithoutNewActivations
    <3>2. CASE ~(A.ignore > 0) /\ Skips(A, layer_)
      BY <3>2, Zenon DEF DrainInputs
    <3>3. CASE ~(A.ignore > 0) /\ ~Skips(A, layer_)
      <4>1. PICK x, y, z : d = [[c |-> x, q |-> y] EXCEPT !.c = z]
        BY <3>3, Zenon DEF DrainInputs, LookAt, DrainReleases, DrainSome
      <4>2. d = [c |-> z, q |-> y]
        BY <4>1
      <4> QED BY <4>2
    <3> QED BY <3>1, <3>2, <3>3
  <2> QED BY <2>1, <2>2
<1>5. d.c \in States(cf) /\ d.c.queue \in Seq(Events) /\ d.c.active \in Seq(Actives(cf)) /\ d.c.ignore \in Nat
  <2>1. d.c \in States(cf)
    <3>1. ASSUME Looking(cf, A, layer_, d) PROVE d.c \in States(cf)
      <4>1. PICK D : InFront(cf, A, D) /\ ProcessedBy(cf, D, layer_, d.c)
        BY <3>1 DEF Looking
      <4>2. D \in States(cf)
        BY <4>1 DEF InFront
      <4>3. ASSUME d.c = [D EXCEPT !.ignore = cf.minIdle] PROVE d.c \in States(cf)
        <5>1. cf.minIdle \in Nat
          BY ConfigIs
        <5> QED BY <4>2, <4>3, <5>1 DEF States
      <4>4. ASSUME NEW st, LookedAt(cf, D, layer_, st), d.c = Conclude(D, st) PROVE d.c \in States(cf)
        <5>1. st \in Looks(cf)
          BY <4>4 DEF LookedAt, Looked, Sound
        <5> QED BY <4>2, <4>4, <5>1, ConcludeIs DEF Concluded
      <4> QED BY <4>1, <4>2, <4>3, <4>4, Zenon DEF ProcessedBy
    <3> QED BY <1>3, <3>1 DEF DrainedBy, Ignoring, Sleeping
  <2> QED BY <2>1 DEF States
<1>6. PICK d1 : /\ d1 = Triggers(d, Len(C.active)) /\ d1 = [c |-> d.c, q |-> d1.q]
                /\ \E trig \in Seq(TriggerEvents) : Len(trig) <= 2 /\ d1.q = PushAll(d.q, trig)
  BY <1>4, TriggersTold
<1>7. PICK d2 : /\ d2 = ClearReleasedChords(d1) /\ d2.c = [d.c EXCEPT !.active = Stay(d.c.active)]
                /\ d2.q = PushAll(d1.q, ReleasesOf(Done(d.c.active)))
  <2>1. d1.c = d.c
    BY <1>6
  <2>2. PICK x, y : x = [d.c EXCEPT !.active = Stay(d.c.active)] /\ y = PushAll(d1.q, ReleasesOf(Done(d.c.active)))
    OBVIOUS
  <2>3. ClearReleasedChords(d1) = [c |-> x, q |-> y]
    BY <2>1, <2>2, Zenon DEF ClearReleasedChords, Stay, Done
  <2> QED BY <2>2, <2>3
<1>8. Moved(cf, d.c, d.c.queue, Stay(d.c.active), d2.c)
  <2>1. Stay(d.c.active) \in Seq(Actives(cf))
    BY <1>5, RetainIn DEF Stay
  <2>2. d2.c = [d.c EXCEPT !.queue = d.c.queue, !.active = Stay(d.c.active)]
    BY <1>5, <1>7 DEF States
  <2> QED BY <1>5, <2>1, <2>2, MovedIs
<1>9. r = [d2 EXCEPT !.c.ignore = Monus(d2.c.ignore, 1)]
  BY <1>1, <1>6, <1>7, Zenon DEF TickChv2, CountDown
<1>10. d2 = [c |-> d2.c, q |-> d2.q]
  BY <1>7, Zenon DEF ClearReleasedChords
<1>11. r.c = [d2.c EXCEPT !.ignore = Monus(d2.c.ignore, 1)] /\ r.q = d2.q
  BY <1>9, <1>10
<1>12. d2.c \in States(cf) /\ d2.c.ignore = d.c.ignore /\ Monus(d.c.ignore, 1) \in Nat
  BY <1>5, <1>8 DEF Moved, Monus
<1>13. /\ r.c \in States(cf) /\ r.c.ignore = Monus(d.c.ignore, 1) /\ r.c.queue = d2.c.queue
       /\ r.c.active = d2.c.active /\ r.c.until = d2.c.until /\ r.c.next = d2.c.next
  BY <1>11, <1>12 DEF States
<1>14. Told(d, r.q)
  BY <1>6, <1>7, <1>11 DEF Told
<1>15. TickedBy(cf, d, r)
  BY <1>5, <1>8, <1>13, <1>14 DEF TickedBy, Moved
<1> QED BY <1>1, <1>3, <1>15

-----------------------------------------------------------------------------
(* The action of a chord is handed out, and an event comes in.             *)
Fetches(cf, C, D) ==
    /\ Moved(cf, C, C.queue, D.active, D) /\ DOMAIN D.active = DOMAIN C.active
    /\ \A i \in DOMAIN C.active :
         D.active[i] = IF UnreadChords(C) # {} /\ i = MinNat(UnreadChords(C))
                       THEN [C.active[i] EXCEPT !.status = IF @ = "Unread" THEN "Releasable" ELSE "Released"]
                       ELSE C.active[i]

LEMMA GetActionIs ==
    ASSUME NEW cf, NEW C \in States(cf), NEW D, D = GetActionChv2(C)
    PROVE  Fetches(cf, C, D)
<1>1. C.active \in Seq(Actives(cf)) /\ C.queue \in Seq(Events)
  BY DEF States
<1>2. CASE UnreadChords(C) = {}
  <2>1. D = C
    BY <1>2, Zenon DEF GetActionChv2
  <2>2. D = [C EXCEPT !.queue = C.queue, !.active = C.active] /\ D.active = C.active
    BY <2>1 DEF States
  <2>3. Moved(cf, C, C.queue, D.active, D)
    BY <1>1, <2>2, MovedIs
  <2>4. DOMAIN D.active = DOMAIN C.active /\ \A i \in DOMAIN C.active : D.active[i] = C.active[i]
    BY <2>2
  <2> QED BY <1>2, <2>3, <2>4, Zenon DEF Fetches
<1>3. CASE UnreadChords(C) # {}
  <2>1. PICK m : m = MinNat(UnreadChords(C))
    OBVIOUS
  <2>2. m \in DOMAIN C.active
    <3>1. UnreadChords(C) \subseteq Nat /\ UnreadChords(C) \subseteq DOMAIN C.active
      BY <1>1 DEF UnreadChords
    <3> QED BY <1>3, <2>1, <3>1, MinNatIs
  <2>3. PICK a : a = [C.active[m] EXCEPT !.status = IF @ = "Unread" THEN "Releasable" ELSE "Released"]
    OBVIOUS
  <2>4. a \in Actives(cf)
    <3>1. C.active[m] \in Actives(cf)
      BY <1>1, <2>2
    <3>2. {"Releasable", "Released"} \subseteq Statuses
      BY DEF Statuses
    <3> QED BY <2>3, <3>1, <3>2 DEF Actives
  <2>5. PICK active : active = [C.active EXCEPT ![m] = a]
    OBVIOUS
  <2>6. active \in Seq(Actives(cf)) /\ DOMAIN active = DOMAIN C.active
    BY <1>1, <2>2, <2>4, <2>5
  <2>7. D = [C EXCEPT !.active = active]
    BY <1>3, <2>1, <2>3, <2>5, Zenon DEF GetActionChv2
  <2>8. D = [C EXCEPT !.queue = C.queue, !.active = active] /\ D.active = active
    BY <2>7 DEF States
  <2>9. Moved(cf, C, C.queue, D.active, D)
    BY <1>1, <2>6, <2>8, MovedIs
  <2>10. \A i \in DOMAIN C.active : active[i] = IF i = m THEN a ELSE C.active[i]
    BY <2>5
  <2>11. ASSUME NEW i \in DOMAIN C.active
         PROVE  D.active[i] = IF UnreadChords(C) # {} /\ i = MinNat(UnreadChords(C))
                              THEN [C.active[i] EXCEPT !.status = IF @ = "Unread" THEN "Releasable" ELSE "Released"]
                              ELSE C.active[i]
    BY <1>3, <2>1, <2>3, <2>8, <2>10, Zenon
  <2> QED BY <2>6, <2>8, <2>9, <2>11, Zenon DEF Fetches
<1> QED BY <1>2, <1>3

NewEvent(press, c) == [press |-> press, coord |-> c, since |-> 0]

LEMMA PushBackIs ==
    ASSUME NEW cf, NEW C \in States(cf), NEW press \in BOOLEAN, NEW c \in Coords,
           NEW D, D = PushBackChv2(C, NewEvent(press, c))
    PROVE  /\ Moved(cf, C, D.queue, C.active, D)
           /\ Sorted(C.queue) => Sorted(D.queue)
           /\ ToSet(D.queue) \subseteq ToSet(C.queue) \cup {NewEvent(press, c)}
           /\ Len(C.queue) # ChordQueueLen => D.queue = Append(C.queue, NewEvent(press, c))
<1> DEFINE e == NewEvent(press, c)
           q == C.queue
           kept == IF Len(q) = ChordQueueLen THEN Tail(q) ELSE q
<1>1. q \in Seq(Events) /\ C.active \in Seq(Actives(cf)) /\ Len(q) \in Nat
  BY DEF States
<1>2. e \in Events /\ e.since = 0
  BY DEF Events, NewEvent
<1>3. /\ kept \in Seq(Events) /\ ToSet(kept) \subseteq ToSet(q) /\ (Sorted(q) => Sorted(kept))
  <2>1. CASE Len(q) = ChordQueueLen
    <3>1. Len(q) > 0
      BY <1>1, <2>1, ChordBounds
    <3>2. Tail(q) = SubSeq(q, 2, Len(q)) /\ 1 \in 0..Len(q) /\ 1 + 1 = 2
      <4>1. q # <<>>
        BY <3>1
      <4> QED BY <1>1, <3>1, <4>1
    <3> HIDE DEF q
    <3>3. Tail(q) \in Seq(Events) /\ ToSet(Tail(q)) \subseteq ToSet(q)
      <4>1. PICK m \in 0..Len(q) : Tail(q) = SubSeq(q, m + 1, Len(q))
        BY <3>2
      <4> QED BY <1>1, <4>1, Parts
    <3>4. Sorted(q) => Sorted(Tail(q))
      BY <1>1, <3>2, RestSorted
    <3> QED BY <2>1, <3>3, <3>4, Zenon
  <2>2. CASE Len(q) # ChordQueueLen
    BY <1>1, <2>2
  <2> QED BY <2>1, <2>2
<1>4. PICK queue : queue = Append(kept, e)
  OBVIOUS
<1>5. D = [C EXCEPT !.queue = queue]
  BY <1>4, Zenon DEF PushBackChv2
<1>6. Len(q) # ChordQueueLen => kept = q
  OBVIOUS
<1> HIDE DEF e, kept, q
<1>7. queue \in Seq(Events) /\ ToSet(queue) = ToSet(kept) \cup {e}
  BY <1>2, <1>3, <1>4, ToSetAppend
<1>8. Sorted(q) => Sorted(queue)
  <2>1. \A x \in Events : x.since \in Nat
    BY DEF Events
  <2>2. \A x \in ToSet(kept) : x \in Events
    BY <1>3 DEF ToSet
  <2>3. \A x \in ToSet(kept) : e.since <= x.since
    BY <1>2, <2>1, <2>2
  <2> QED BY <1>2, <1>3, <1>4, <2>1, <2>3, SortedAppend
<1>9. D = [C EXCEPT !.queue = queue, !.active = C.active]
  BY <1>5 DEF States
<1>10. Moved(cf, C, queue, C.active, D)
  BY <1>1, <1>7, <1>9, MovedIs
<1>11. D.queue = queue
  BY <1>10 DEF Moved
<1> QED BY <1>3, <1>4, <1>6, <1>7, <1>8, <1>10, <1>11 DEF e, q

-----------------------------------------------------------------------------
(* How long an event has waited.  While a wait goes on, it ends within the *)
(* time of a chord, and none of the events will be older than that; else   *)
(* they are looked at in every tick, and leave, or the chord in front of   *)
(* them opens, or chords are ignored and all events leave.                 *)
InTimeOf(M, C, n) ==
    /\ Sorted(C.queue)
    /\ C.until > 0 => C.until <= M /\ \A e \in ToSet(C.queue) : e.since + C.until <= M
    /\ C.ignore = 0 => \A e \in ToSet(C.queue) : e.since <= M + n
    /\ \A e \in ToSet(C.queue) : e.since <= M + 1 + n
ChordInv ==
    /\ IsConfig(cv) /\ chv2 \in States(cv) /\ layer \in cv.layers
DelayInv == ChordInv /\ row \in Nat /\ InTimeOf(LongestPending, chv2, row)

LEMMA DelayInvInit == Init => DelayInv
<1> SUFFICES ASSUME Init PROVE DelayInv
  OBVIOUS
<1>1. IsConfig(cv) /\ layer \in cv.layers /\ row = 0
  BY ChordConfigAssumption, Zenon DEF Init
<1>2. chv2 = ChordsNew /\ 0 \in 0..(cv.NumCoords - 1)
  <2>1. cv.NumCoords \in Nat /\ cv.NumCoords > 0
    BY <1>1, ConfigIs, ChordBounds
  <2> QED BY <2>1 DEF Init
<1>3. chv2 \in States(cv) /\ chv2.queue = <<>> /\ chv2.until = 0
  BY <1>2 DEF ChordsNew, States
<1>4. InTimeOf(LongestPending, chv2, row)
  <2>1. \A e \in ToSet(chv2.queue) : FALSE
    BY <1>3, ToSetEmpty
  <2>2. Sorted(chv2.queue)
    BY <1>3 DEF Sorted
  <2> QED BY <1>3, <2>1, <2>2 DEF InTimeOf
<1> QED BY <1>1, <1>3, <1>4 DEF DelayInv, ChordInv

LEMMA TickInTime ==
    ASSUME NEW cf, IsConfig(cf), NEW C \in States(cf), NEW layer_ \in cf.layers, NEW n \in Nat,
           InTimeOf(Longest(cf), C, n),
           NEW A, A = [C EXCEPT !.queue = AgeQueue(C.queue, AgeCap)],
           NEW d, d = DrainInputs(cf, A, layer_), NEW r, r = TickChv2(cf, C, layer_, AgeCap),
           NEW m, m = IF r.c.ignore > 0 THEN n
                      ELSE IF Len(d.c.active) > Len(C.active) THEN n + 1 ELSE 0
    PROVE  m \in Nat /\ InTimeOf(Longest(cf), r.c, m)
<1>1. PICK M \in Nat : M = Longest(cf)
  BY LongestIs
<1>2. /\ C.queue \in Seq(Events) /\ C.active \in Seq(Actives(cf)) /\ C.ignore \in Nat /\ C.until \in Nat
  BY DEF States
<1>3. /\ Sorted(C.queue)
      /\ C.until > 0 => C.until <= M /\ \A e \in ToSet(C.queue) : e.since + C.until <= M
      /\ C.ignore = 0 => \A e \in ToSet(C.queue) : e.since <= M + n
  BY <1>1 DEF InTimeOf
<1>4. Moved(cf, C, AgeQueue(C.queue, AgeCap), C.active, A) /\ DrainedBy(cf, A, layer_, d) /\ TickedBy(cf, d, r)
  BY TickIs
<1>5. /\ A \in States(cf) /\ A.queue = AgeQueue(C.queue, AgeCap) /\ A.active = C.active
      /\ A.ignore = C.ignore /\ A.until = C.until
  BY <1>4 DEF Moved
<1>6. /\ A.queue \in Seq(Events) /\ Sorted(A.queue)
      /\ \A e \in ToSet(A.queue) : \E f \in ToSet(C.queue) : e.since \in {f.since, f.since + 1}
  <2>1. AgeCap \in Nat
    BY ChordSystemBounds
  <2>2. /\ A.queue \in Seq(Events) /\ DOMAIN A.queue = DOMAIN C.queue
        /\ \A i \in DOMAIN C.queue : A.queue[i].since \in {C.queue[i].since, C.queue[i].since + 1}
    <3>1. PICK a : a = AgeQueue(C.queue, AgeCap)
      OBVIOUS
    <3>2. /\ a \in Seq(Events) /\ DOMAIN a = DOMAIN C.queue
          /\ \A i \in DOMAIN C.queue : a[i].since \in {C.queue[i].since, C.queue[i].since + 1}
      BY <1>2, <3>1, Aged
    <3> QED BY <1>5, <3>1, <3>2
  <2>3. Sorted(A.queue)
    BY <1>2, <1>3, <1>5, <2>1, AgedSorted
  <2> QED BY <2>2, <2>3 DEF ToSet
<1>7. \A e \in ToSet(C.queue) \cup ToSet(A.queue) : e.since \in Nat
  <2>1. \A e \in Events : e.since \in Nat
    BY DEF Events
  <2>2. ToSet(C.queue) \subseteq Events /\ ToSet(A.queue) \subseteq Events
    BY <1>2, <1>6 DEF ToSet
  <2> QED BY <2>1, <2>2
<1>8. /\ r.c.queue = d.c.queue /\ r.c.until = d.c.until /\ r.c.ignore = Monus(d.c.ignore, 1)
      /\ d.c.ignore \in Nat /\ d.c.until \in Nat
  BY <1>4 DEF TickedBy, States
<1>9. /\ m \in Nat /\ (r.c.ignore > 0 => m = n)
      /\ (r.c.ignore = 0 /\ Len(d.c.active) > Len(C.active) => m = n + 1)
  <2>1. r.c.ignore \in Nat
    BY <1>8 DEF Monus
  <2> QED BY <2>1
<1>10. ASSUME Ignoring(cf, A, d) PROVE InTimeOf(M, r.c, m)
  <2>1. r.c.queue = <<>> /\ r.c.until = C.until
    BY <1>5, <1>8, <1>10 DEF Ignoring
  <2>2. ToSet(r.c.queue) = {} /\ Sorted(r.c.queue)
    BY <2>1, ToSetEmpty DEF Sorted
  <2> QED BY <1>3, <2>1, <2>2 DEF InTimeOf
<1>11. ASSUME Sleeping(cf, A, d) PROVE InTimeOf(M, r.c, m)
  <2>1. r.c.queue = A.queue /\ C.until > 0 /\ r.c.until = C.until - 1
    BY <1>5, <1>8, <1>11 DEF Sleeping
  <2>2. ASSUME NEW e \in ToSet(A.queue) PROVE e.since + r.c.until <= M
    <3>1. PICK f \in ToSet(C.queue) : e.since \in {f.since, f.since + 1}
      BY <1>6
    <3>2. f.since + C.until <= M /\ f.since \in Nat
      BY <1>3, <1>7, <2>1
    <3> QED BY <1>2, <2>1, <3>1, <3>2
  <2>3. r.c.until \in Nat /\ r.c.until <= M
    BY <1>2, <1>3, <2>1
  <2>4. ASSUME NEW e \in ToSet(A.queue) PROVE e.since <= M + m /\ e.since <= M + 1 + m
    <3>1. e.since \in Nat /\ e.since + r.c.until <= M
      BY <1>7, <2>2
    <3> QED BY <1>9, <2>3, <3>1
  <2> QED BY <1>6, <2>1, <2>2, <2>3, <2>4 DEF InTimeOf
<1>12. ASSUME Looking(cf, A, layer_, d) PROVE InTimeOf(M, r.c, m)
  <2>1. PICK D : InFront(cf, A, D) /\ ProcessedBy(cf, D, layer_, d.c)
    BY <1>12 DEF Looking
  <2>2. /\ D \in States(cf) /\ D.queue = Left(A.queue) /\ D.until = 0 /\ D.ignore = 0 /\ C.ignore = 0
        /\ D.active = EndByReleases(A.active, Gone(A.queue))
    BY <1>5, <2>1 DEF InFront
  <2>3. /\ D.queue \in Seq(Events) /\ Sorted(D.queue) /\ ToSet(D.queue) \subseteq ToSet(A.queue)
        /\ (D.queue # <<>> => D.queue[1].press)
    <3>1. RealInputs(A.queue) \subseteq ToSet(A.queue)
      BY DEF RealInputs
    <3> QED BY <1>6, <2>2, <3>1, LeftIs
  <2>4. D.active \in Seq(Actives(cf)) /\ Len(D.active) = Len(C.active)
    <3>1. Gone(A.queue) \in Seq(Events)
      BY <1>6, LeftIs
    <3> QED BY <1>2, <1>5, <2>2, <3>1, EndedActives
  <2>5. ASSUME NEW e \in ToSet(D.queue) PROVE e.since \in Nat /\ e.since <= M + n + 1
    <3>1. PICK f \in ToSet(C.queue) : e.since \in {f.since, f.since + 1}
      BY <1>6, <2>3
    <3>2. f.since <= M + n /\ f.since \in Nat
      BY <1>3, <1>7, <2>2
    <3> QED BY <3>1, <3>2
  <2>6. ASSUME D.queue = <<>>, d.c = D PROVE InTimeOf(M, r.c, m)
    <3>1. r.c.queue = <<>> /\ r.c.until = 0
      BY <1>8, <2>2, <2>6
    <3>2. ToSet(r.c.queue) = {} /\ Sorted(r.c.queue)
      BY <3>1, ToSetEmpty DEF Sorted
    <3> QED BY <3>1, <3>2 DEF InTimeOf
  <2>7. ASSUME d.c.ignore = cf.minIdle, d.c.until = 0, Sorted(d.c.queue), ToSet(d.c.queue) \subseteq ToSet(D.queue)
        PROVE  InTimeOf(M, r.c, m)
    <3>1. r.c.ignore > 0 /\ m = n
      <4>1. cf.minIdle \in Nat /\ cf.minIdle >= 5
        BY ConfigIs
      <4> QED BY <1>8, <1>9, <2>7, <4>1 DEF Monus
    <3>2. \A e \in ToSet(r.c.queue) : e.since <= M + 1 + m
      BY <1>8, <2>5, <2>7, <3>1
    <3> QED BY <1>8, <2>7, <3>1, <3>2 DEF InTimeOf
  <2>8. ASSUME d.c = [D EXCEPT !.ignore = cf.minIdle] PROVE InTimeOf(M, r.c, m)
    <3>1. d.c.ignore = cf.minIdle /\ d.c.until = 0 /\ d.c.queue = D.queue
      BY <2>2, <2>8 DEF States
    <3> QED BY <2>3, <2>7, <3>1
  <2>9. ASSUME NEW st, LookedAt(cf, D, layer_, st), d.c = Conclude(D, st) PROVE InTimeOf(M, r.c, m)
    <3> DEFINE ups == RelevantReleases(D.queue)
               s == PressesBefore(D.queue, ups)
    <3>1. PICK possible \in SUBSET Enabled(cf, layer_) : Looked(cf, D, possible, ups, s, st)
      BY <2>9 DEF LookedAt
    <3>2. /\ st \in Looks(cf) /\ Begins(st.acc, s) /\ Waits(cf, st)
          /\ st.until > 0 \/ st.opened # <<>> \/ st.ignore = cf.minIdle
      BY <3>1, Zenon DEF Looked, Sound
    <3>3. s \in Seq(Events) /\ (D.queue # <<>> => s # <<>> /\ s[1] = D.queue[1]) /\ Len(s) <= Len(D.queue)
      BY <2>3, PressesBeforeIs
    <3> HIDE DEF s, ups
    <3>4. Concluded(cf, D, st, d.c)
      BY <2>2, <2>9, <3>2, ConcludeIs
    <3>5. /\ d.c.active = D.active \o st.opened /\ d.c.ignore = st.ignore /\ d.c.until = st.until
          /\ d.c.queue = D.queue \/ d.c.queue = Retain(D.queue, Consumed(D.queue, st.acc))
      BY <3>4, Zenon DEF Concluded
    <3>6. Sorted(d.c.queue) /\ ToSet(d.c.queue) \subseteq ToSet(D.queue)
      <4>1. ToSet(Retain(D.queue, Consumed(D.queue, st.acc))) \subseteq ToSet(D.queue)
        BY <2>3, RetainIn
      <4>2. Sorted(Retain(D.queue, Consumed(D.queue, st.acc)))
        <5>1. \A e \in Events : e.since \in Nat
          BY DEF Events
        <5> QED BY <2>3, <5>1, RetainSorted
      <4> QED BY <2>3, <3>5, <4>1, <4>2
    <3>7. CASE st.until > 0
      <4>1. st.acc # <<>> /\ st.until + st.acc[1].since <= M /\ st.until \in Nat /\ st.acc \in Seq(Events)
        BY <1>1, <3>2, <3>7 DEF Waits, Looks
      <4>2. 1 \in 1..Len(st.acc) /\ st.acc[1] \in Events
        BY <4>1
      <4>3. st.acc[1] = s[1] /\ Len(s) >= 1
        BY <3>2, <3>3, <4>1, <4>2 DEF Begins
      <4>4. D.queue # <<>>
        BY <2>3, <3>3, <4>3
      <4>5. \A e \in ToSet(D.queue) : e.since <= st.acc[1].since
        <5>1. 1 \in DOMAIN D.queue /\ DOMAIN D.queue = 1..Len(D.queue)
          BY <2>3, <4>4
        <5>2. \A j \in DOMAIN D.queue : D.queue[j].since <= D.queue[1].since
          BY <2>3, <5>1 DEF Sorted
        <5> QED BY <3>3, <4>3, <4>4, <5>2 DEF ToSet
      <4>6. st.acc[1].since \in Nat /\ st.until <= M
        BY <1>1, <4>1, <4>2 DEF Events
      <4>7. ASSUME NEW e \in ToSet(r.c.queue)
            PROVE  e.since + r.c.until <= M /\ e.since <= M + m /\ e.since <= M + 1 + m
        <5>1. e.since \in Nat /\ e.since <= st.acc[1].since
          BY <1>8, <2>5, <3>6, <4>5
        <5>2. PICK x \in Nat, a \in Nat, u \in Nat, k \in Nat :
                x = e.since /\ a = st.acc[1].since /\ u = r.c.until /\ k = m
          BY <1>8, <1>9, <3>5, <4>1, <4>6, <5>1
        <5>3. x <= a /\ u + a <= M
          BY <1>8, <3>5, <4>1, <5>1, <5>2
        <5>4. x + u <= M /\ x <= M + k /\ x <= M + 1 + k
          BY <5>3
        <5> QED BY <5>2, <5>4
      <4>8. r.c.until <= M
        BY <1>8, <3>5, <4>6
      <4> QED BY <1>8, <3>6, <4>7, <4>8 DEF InTimeOf
    <3>8. CASE st.until = 0 /\ st.ignore = cf.minIdle
      BY <2>7, <3>5, <3>6, <3>8
    <3>9. CASE st.until = 0 /\ st.opened # <<>>
      <4>1. Len(d.c.active) > Len(C.active)
        <5>1. st.opened \in Seq(Actives(cf)) /\ Len(st.opened) > 0
          BY <3>2, <3>9 DEF Looks
        <5>2. Len(D.active \o st.opened) = Len(D.active) + Len(st.opened)
          BY <2>4, <5>1, ConcatProperties
        <5>3. Len(d.c.active) = Len(C.active) + Len(st.opened)
          BY <2>4, <3>5, <5>2, Zenon
        <5>4. Len(C.active) \in Nat /\ Len(st.opened) \in Nat
          BY <1>2, <5>1
        <5>5. PICK k \in Nat, l \in Nat, t \in Nat : k = Len(C.active) /\ l = Len(st.opened) /\ t = Len(d.c.active)
          <6>1. \A a, b \in Nat : a + b \in Nat
            OBVIOUS
          <6> QED BY <5>3, <5>4, <6>1, Zenon
        <5>6. t = k + l /\ l > 0
          BY <5>1, <5>3, <5>5, Zenon
        <5>7. t > k
          BY <5>6
        <5> QED BY <5>5, <5>7, Zenon
      <4>2. (r.c.ignore > 0 /\ m = n) \/ (r.c.ignore = 0 /\ m = n + 1)
        <5>1. r.c.ignore \in Nat
          BY <1>8 DEF Monus
        <5> QED BY <1>9, <4>1, <5>1
      <4>3. ASSUME NEW e \in ToSet(r.c.queue)
            PROVE  e.since <= M + 1 + m /\ (r.c.ignore = 0 => e.since <= M + m)
        <5>1. e.since \in Nat /\ e.since <= M + n + 1
          BY <1>8, <2>5, <3>6
        <5> QED BY <4>2, <5>1
      <4>4. r.c.until = 0
        BY <1>8, <3>5, <3>9
      <4> QED BY <1>8, <3>6, <4>3, <4>4 DEF InTimeOf
    <3>10. st.until \in Nat
      BY <3>2 DEF Looks
    <3> QED BY <3>2, <3>7, <3>8, <3>9, <3>10
  <2> QED BY <2>1, <2>6, <2>8, <2>9, Zenon DEF ProcessedBy
<1> QED BY <1>1, <1>4, <1>9, <1>10, <1>11, <1>12, Zenon DEF DrainedBy

LEMMA EnqueueInTime ==
    ASSUME NEW cf, NEW C \in States(cf), NEW press \in BOOLEAN, NEW c \in Coords, NEW n \in Nat,
           NEW M \in Nat, InTimeOf(M, C, n), NEW D, D = PushBackChv2(C, NewEvent(press, c))
    PROVE  D \in States(cf) /\ InTimeOf(M, D, n)
<1>1. /\ D \in States(cf) /\ D.until = C.until /\ D.ignore = C.ignore
      /\ Sorted(C.queue) => Sorted(D.queue)
      /\ ToSet(D.queue) \subseteq ToSet(C.queue) \cup {NewEvent(press, c)}
  <2>1. Moved(cf, C, D.queue, C.active, D)
    BY PushBackIs, Zenon
  <2>2. /\ Sorted(C.queue) => Sorted(D.queue)
        /\ ToSet(D.queue) \subseteq ToSet(C.queue) \cup {NewEvent(press, c)}
    BY PushBackIs, Zenon
  <2> QED BY <2>1, <2>2, Zenon DEF Moved
<1>2. NewEvent(press, c).since = 0 /\ C.until \in Nat
  BY DEF NewEvent, States
<1> QED BY <1>1, <1>2 DEF InTimeOf

LEMMA DelayInvStep == DelayInv /\ [Next]_vars => DelayInv'
<1> SUFFICES ASSUME DelayInv, [Next]_vars PROVE DelayInv'
  OBVIOUS
<1>1. /\ IsConfig(cv) /\ chv2 \in States(cv) /\ layer \in cv.layers /\ row \in Nat
      /\ InTimeOf(Longest(cv), chv2, row) /\ LongestPending = Longest(cv) /\ Longest(cv) \in Nat
  BY LongestIs DEF DelayInv, ChordInv, LongestPending, Longest
<1>2. cv' = cv
  BY DEF Next, Tick, ChangeLayer, PressKey, ReleaseKey, vars
<1>3. LongestPending' = Longest(cv)
  BY <1>2, Zenon DEF LongestPending, Longest
<1>4. CASE Tick
  <2> DEFINE A == [chv2 EXCEPT !.queue = AgeQueue(@, AgeCap)]
             r == TickChv2(cv, chv2, layer, AgeCap)
  <2>1. chv2' = GetActionChv2(r.c) /\ layer' = layer
    BY <1>4 DEF Tick, Fetched
  <2>2. row' = IF chv2'.ignore > 0 THEN row
               ELSE IF Len(Drained.c.active) > Len(chv2.active) THEN row + 1 ELSE 0
    BY <1>4 DEF Tick
  <2>3. PICK d : d = DrainInputs(cv, A, layer) /\ d = Drained
    BY Zenon DEF Drained
  <2>4. r.c \in States(cv)
    BY <1>1, <2>3, TickIs DEF TickedBy
  <2>5. Fetches(cv, r.c, chv2')
    BY <2>1, <2>4, GetActionIs
  <2>6. /\ chv2' \in States(cv) /\ chv2'.queue = r.c.queue /\ chv2'.ignore = r.c.ignore
        /\ chv2'.until = r.c.until
    BY <2>5 DEF Fetches, Moved
  <2>7. PICK m : m = IF r.c.ignore > 0 THEN row
                     ELSE IF Len(d.c.active) > Len(chv2.active) THEN row + 1 ELSE 0
    OBVIOUS
  <2> HIDE DEF r
  <2>8. m \in Nat /\ InTimeOf(Longest(cv), r.c, m)
    BY <1>1, <2>3, <2>7, TickInTime DEF r
  <2>9. row' = m
    BY <2>2, <2>3, <2>6, <2>7
  <2>10. InTimeOf(Longest(cv), chv2', row')
    BY <2>6, <2>8, <2>9 DEF InTimeOf
  <2> QED BY <1>1, <1>2, <1>3, <2>1, <2>6, <2>8, <2>9, <2>10 DEF DelayInv, ChordInv
<1>5. ASSUME NEW c \in cv.coords, PressKey(c) \/ ReleaseKey(c) PROVE DelayInv'
  <2>1. PICK press \in BOOLEAN : /\ chv2' = PushBackChv2(chv2, NewEvent(press, c))
                                 /\ layer' = layer /\ row' = row
    BY <1>5 DEF PressKey, ReleaseKey, Enqueue, NewEvent
  <2>2. c \in Coords
    BY <1>1, ConfigIs
  <2>3. chv2' \in States(cv) /\ InTimeOf(Longest(cv), chv2', row)
    BY <1>1, <2>1, <2>2, EnqueueInTime
  <2> QED BY <1>1, <1>2, <1>3, <2>1, <2>3 DEF DelayInv, ChordInv
<1>6. CASE ChangeLayer
  <2>1. chv2' = chv2 /\ row' = row /\ layer' \in cv.layers
    BY <1>6 DEF ChangeLayer
  <2> QED BY <1>1, <1>2, <1>3, <2>1 DEF DelayInv, ChordInv
<1>7. CASE UNCHANGED vars
  <2>1. chv2' = chv2 /\ row' = row /\ layer' = layer
    BY <1>7 DEF vars
  <2> QED BY <1>1, <1>2, <1>3, <2>1 DEF DelayInv, ChordInv
<1> QED BY <1>4, <1>5, <1>6, <1>7 DEF Next

LEMMA DelayInvBounds == DelayInv => BoundedDelay
<1> SUFFICES ASSUME DelayInv, NEW i \in DOMAIN chv2.queue
             PROVE  chv2.queue[i].since <= LongestPending + 1 + row
  BY DEF BoundedDelay
<1>1. \A e \in ToSet(chv2.queue) : e.since <= LongestPending + 1 + row
  BY DEF DelayInv, InTimeOf
<1>2. chv2.queue[i] \in ToSet(chv2.queue)
  BY DEF ToSet
<1> QED BY <1>1, <1>2

(* No event is held back for longer than a chord could still be completed: *)
(* the tick that finds the queue unchanged and sleeps never sleeps through *)
(* the end of that time (chord.rs, drain_inputs and process_presses).      *)
THEOREM DelayIsBounded == Spec => []BoundedDelay
<1>1. Spec => []DelayInv
  BY DelayInvInit, DelayInvStep, PTL DEF Spec
<1> QED BY <1>1, DelayInvBounds, PTL

-----------------------------------------------------------------------------
(* More about Retain: one list after another, the same elements kept, all  *)
(* or none kept, twice, and two parts of a list.                           *)
LEMMA ConcatAppend ==
    ASSUME NEW S, NEW s \in Seq(S), NEW t \in Seq(S), NEW e \in S
    PROVE  s \o Append(t, e) = Append(s \o t, e) /\ s \o t \in Seq(S) /\ s \o <<>> = s
           /\ Len(s \o t) = Len(s) + Len(t)
<1>1. s \o t \in Seq(S) /\ Len(s \o t) = Len(s) + Len(t) /\ Append(t, e) \in Seq(S)
  BY ConcatProperties
<1>2. s \o Append(t, e) = Append(s \o t, e)
  OBVIOUS
<1> QED BY <1>1, <1>2

LEMMA RetainConcat ==
    ASSUME NEW S, NEW s \in Seq(S), NEW q \in Seq(S), NEW kept
    PROVE  Retain(s \o q, kept) = Retain(s, kept) \o Retain(q, kept)
<1> DEFINE Good == {t \in Seq(S) : Retain(s \o t, kept) = Retain(s, kept) \o Retain(t, kept)}
<1>0. PICK a \in Seq(S) : a = Retain(s, kept)
  BY RetainIn
<1>1. <<>> \in Good
  <2>1. s \o <<>> = s /\ a \o <<>> = a
    OBVIOUS
  <2> QED BY <1>0, <2>1, RetainEmpty
<1>2. ASSUME NEW t \in Seq(S), NEW e \in S, t \in Good PROVE Append(t, e) \in Good
  <2> DEFINE u == Append(t, e)
  <2>1. s \o u = Append(s \o t, e) /\ s \o t \in Seq(S) /\ u \in Seq(S)
    BY ConcatAppend
  <2>2. PICK b \in Seq(S) : b = Retain(t, kept)
    BY RetainIn
  <2>3. Retain(s \o t, kept) = a \o b
    BY <1>0, <1>2, <2>2
  <2>4. Retain(u, kept) = IF e \in kept THEN Append(b, e) ELSE b
    BY <2>2, RetainAppend
  <2>5. Retain(s \o u, kept) = IF e \in kept THEN Append(a \o b, e) ELSE a \o b
    <3>1. PICK st \in Seq(S) : st = s \o t
      BY <2>1
    <3>2. Retain(Append(st, e), kept) = IF e \in kept THEN Append(Retain(st, kept), e) ELSE Retain(st, kept)
      BY RetainAppend
    <3> QED BY <2>1, <2>3, <3>1, <3>2, Zenon
  <2>6. a \o Append(b, e) = Append(a \o b, e)
    BY ConcatAppend
  <2>7. Retain(s \o u, kept) = Retain(s, kept) \o Retain(u, kept)
    BY <1>0, <2>4, <2>5, <2>6
  <2> QED BY <2>1, <2>7
<1> HIDE DEF Good
<1> QED BY <1>1, <1>2, EveryList DEF Good

LEMMA RetainSame ==
    ASSUME NEW S, NEW q \in Seq(S), NEW k1, NEW k2, ToSet(q) \cap k1 = ToSet(q) \cap k2
    PROVE  Retain(q, k1) = Retain(q, k2)
<1> DEFINE Alike(t) == ToSet(t) \cap k1 = ToSet(t) \cap k2 => Retain(t, k1) = Retain(t, k2)
           Good == {t \in Seq(S) : Alike(t)}
<1>1. <<>> \in Good
  BY RetainEmpty
<1>2. ASSUME NEW t \in Seq(S), NEW e \in S, t \in Good PROVE Append(t, e) \in Good
  <2> DEFINE u == Append(t, e)
  <2>1. u \in Seq(S) /\ ToSet(u) = ToSet(t) \cup {e}
    BY ToSetAppend
  <2>2. \A k : Retain(u, k) = IF e \in k THEN Append(Retain(t, k), e) ELSE Retain(t, k)
    BY RetainAppend
  <2> HIDE DEF u
  <2>3. ASSUME ToSet(u) \cap k1 = ToSet(u) \cap k2 PROVE Retain(u, k1) = Retain(u, k2)
    <3>1. ToSet(t) \cap k1 = ToSet(t) \cap k2 /\ (e \in k1 <=> e \in k2)
      BY <2>1, <2>3
    <3>2. Retain(t, k1) = Retain(t, k2)
      BY <1>2, <3>1
    <3> QED BY <2>2, <3>1, <3>2
  <2> QED BY <2>1, <2>3 DEF u
<1> HIDE DEF Good
<1>3. q \in Good
  BY <1>1, <1>2, EveryList
<1> QED BY <1>3 DEF Good

LEMMA RetainAll ==
    ASSUME NEW S, NEW q \in Seq(S), NEW kept, ToSet(q) \subseteq kept
    PROVE  Retain(q, kept) = q
<1> DEFINE Good == {t \in Seq(S) : Retain(t, S) = t}
<1>1. <<>> \in Good
  BY RetainEmpty
<1>2. ASSUME NEW t \in Seq(S), NEW e \in S, t \in Good PROVE Append(t, e) \in Good
  BY <1>2, RetainAppend
<1> HIDE DEF Good
<1>3. q \in Good
  BY <1>1, <1>2, EveryList
<1>4. ToSet(q) \subseteq S
  BY DEF ToSet
<1>5. Retain(q, kept) = Retain(q, S)
  BY <1>4, RetainSame
<1> QED BY <1>3, <1>5 DEF Good

LEMMA RetainNone ==
    ASSUME NEW S, NEW q \in Seq(S), NEW kept, ToSet(q) \cap kept = {}
    PROVE  Retain(q, kept) = <<>>
<1>1. Retain(q, kept) \in Seq(S) /\ ToSet(Retain(q, kept)) = {}
  BY RetainIn
<1> DEFINE r == Retain(q, kept)
<1> HIDE DEF r
<1>2. ASSUME r \in Seq(S), r # <<>> PROVE r[1] \in ToSet(r)
  BY <1>2 DEF ToSet
<1> QED BY <1>1, <1>2 DEF r

LEMMA RetainTwice ==
    ASSUME NEW S, NEW q \in Seq(S), NEW k1, NEW k2
    PROVE  Retain(Retain(q, k1), k2) = Retain(q, k1 \cap k2)
<1> DEFINE Good == {t \in Seq(S) : Retain(Retain(t, k1), k2) = Retain(t, k1 \cap k2)}
<1>1. <<>> \in Good
  BY RetainEmpty
<1>2. ASSUME NEW t \in Seq(S), NEW e \in S, t \in Good PROVE Append(t, e) \in Good
  <2>1. \A k : Retain(Append(t, e), k) = IF e \in k THEN Append(Retain(t, k), e) ELSE Retain(t, k)
    BY RetainAppend
  <2>2. PICK a \in Seq(S) : a = Retain(t, k1)
    BY RetainIn
  <2>3. Retain(Append(a, e), k2) = IF e \in k2 THEN Append(Retain(a, k2), e) ELSE Retain(a, k2)
    BY RetainAppend
  <2>4. Retain(a, k2) = Retain(t, k1 \cap k2)
    BY <1>2, <2>2
  <2>5. Retain(Append(t, e), k1 \cap k2) =
          IF e \in k1 /\ e \in k2 THEN Append(Retain(t, k1 \cap k2), e) ELSE Retain(t, k1 \cap k2)
    BY <2>1
  <2>6. Retain(Retain(Append(t, e), k1), k2) = Retain(Append(t, e), k1 \cap k2)
    BY <2>1, <2>2, <2>3, <2>4, <2>5
  <2>7. Append(t, e) \in Seq(S)
    OBVIOUS
  <2> QED BY <2>6, <2>7
<1> HIDE DEF Good
<1> QED BY <1>1, <1>2, EveryList DEF Good

LEMMA RetainSplit ==
    ASSUME NEW S, NEW q \in Seq(S), NEW k1, NEW k2, k1 \cap k2 = {}
    PROVE  Len(Retain(q, k1)) + Len(Retain(q, k2)) <= Len(q)
<1> DEFINE Good == {t \in Seq(S) : Len(Retain(t, k1)) + Len(Retain(t, k2)) <= Len(t)}
<1>1. <<>> \in Good
  BY RetainEmpty
<1>2. ASSUME NEW t \in Seq(S), NEW e \in S, t \in Good PROVE Append(t, e) \in Good
  <2>1. \A k : Retain(Append(t, e), k) = IF e \in k THEN Append(Retain(t, k), e) ELSE Retain(t, k)
    BY RetainAppend
  <2>2. \A k : Retain(t, k) \in Seq(S)
    BY RetainIn
  <2>3. PICK a \in Seq(S), b \in Seq(S) : a = Retain(t, k1) /\ b = Retain(t, k2)
    BY <2>2
  <2>4. Len(a) + Len(b) <= Len(t) /\ Len(a) \in Nat /\ Len(b) \in Nat /\ Len(t) \in Nat
    BY <1>2, <2>3
  <2>5. Len(Append(a, e)) = Len(a) + 1 /\ Len(Append(b, e)) = Len(b) + 1 /\ Len(Append(t, e)) = Len(t) + 1
    OBVIOUS
  <2>6. e \notin k1 \/ e \notin k2
    OBVIOUS
  <2>7. Len(Retain(Append(t, e), k1)) + Len(Retain(Append(t, e), k2)) <= Len(Append(t, e))
    BY <2>1, <2>3, <2>4, <2>5, <2>6
  <2>8. Append(t, e) \in Seq(S)
    OBVIOUS
  <2> QED BY <2>7, <2>8
<1> HIDE DEF Good
<1> QED BY <1>1, <1>2, EveryList DEF Good

(* Nothing is pushed out of a wrapping queue that has room.                *)
LEMMA PushRoom ==
    ASSUME NEW S, NEW s \in Seq(S), NEW q \in Seq(S), Len(s) + Len(q) <= SmolLen
    PROVE  PushAll(s, q) = s \o q
<1> DEFINE Fits(t) == Len(s) + Len(t) <= SmolLen => PushAll(s, t) = s \o t
           Good == {t \in Seq(S) : Fits(t)}
<1>1. <<>> \in Good
  <2>1. s \o <<>> = s
    OBVIOUS
  <2> QED BY <2>1, PushEmpty
<1>2. ASSUME NEW t \in Seq(S), NEW e \in S, t \in Good PROVE Append(t, e) \in Good
  <2> DEFINE u == Append(t, e)
  <2>1. u \in Seq(S) /\ Len(u) = Len(t) + 1 /\ Len(t) \in Nat /\ Len(s) \in Nat
    OBVIOUS
  <2>2. s \o u = Append(s \o t, e) /\ Len(s \o t) = Len(s) + Len(t)
    BY ConcatAppend
  <2>3. PushAll(s, u) = PushSmol(PushAll(s, t), e)
    BY PushAppend
  <2> HIDE DEF u
  <2>4. ASSUME Len(s) + Len(u) <= SmolLen PROVE PushAll(s, u) = s \o u
    <3>1. SmolLen \in Nat
      BY ChordBounds
    <3>2. Len(s) + Len(t) <= SmolLen /\ Len(s \o t) # SmolLen
      BY <2>1, <2>2, <2>4, <3>1
    <3>3. PushAll(s, t) = s \o t
      BY <1>2, <3>2
    <3> QED BY <2>2, <2>3, <3>2, <3>3 DEF PushSmol
  <2> QED BY <2>1, <2>4 DEF u
<1> HIDE DEF Good
<1>3. q \in Good
  BY <1>1, <1>2, EveryList
<1> QED BY <1>3 DEF Good

(* No two of a list have one coordinate.                                   *)
NoTwins(q) == \A i, j \in DOMAIN q : i # j => q[i].coord # q[j].coord
Coordinates(q) == {a.coord : a \in ToSet(q)}

LEMMA NoTwinsAppend ==
    ASSUME NEW S, NEW s \in Seq(S), NEW e \in S
    PROVE  NoTwins(Append(s, e)) <=> NoTwins(s) /\ e.coord \notin Coordinates(s)
<1> DEFINE t == Append(s, e)
<1>1. DOMAIN s = 1..Len(s) /\ DOMAIN t = 1..(Len(s) + 1) /\ Len(s) \in Nat
      /\ t[Len(s) + 1] = e /\ \A i \in 1..Len(s) : t[i] = s[i]
  OBVIOUS
<1>2. e.coord \notin Coordinates(s) <=> \A i \in DOMAIN s : s[i].coord # e.coord
  BY DEF Coordinates, ToSet
<1> HIDE DEF t
<1>3. DOMAIN t = DOMAIN s \cup {Len(s) + 1} /\ Len(s) + 1 \notin DOMAIN s
  BY <1>1
<1>4. NoTwins(t) <=> NoTwins(s) /\ \A i \in DOMAIN s : s[i].coord # e.coord
  BY <1>1, <1>3 DEF NoTwins
<1> QED BY <1>2, <1>4 DEF t

LEMMA RetainNoTwins ==
    ASSUME NEW S, NEW q \in Seq(S), NEW kept, NoTwins(q)
    PROVE  NoTwins(Retain(q, kept))
<1> DEFINE Good == {t \in Seq(S) : NoTwins(t) => NoTwins(Retain(t, kept))}
<1>1. <<>> \in Good
  BY RetainEmpty DEF NoTwins
<1>2. ASSUME NEW t \in Seq(S), NEW e \in S, t \in Good PROVE Append(t, e) \in Good
  <2>1. PICK a \in Seq(S) : a = Retain(t, kept) /\ ToSet(a) \subseteq ToSet(t)
    BY RetainIn
  <2>2. Retain(Append(t, e), kept) = IF e \in kept THEN Append(a, e) ELSE a
    BY <2>1, RetainAppend
  <2>3. ASSUME NoTwins(Append(t, e)) PROVE NoTwins(Retain(Append(t, e), kept))
    <3>1. NoTwins(t) /\ e.coord \notin Coordinates(t)
      BY <2>3, NoTwinsAppend
    <3>2. NoTwins(a) /\ e.coord \notin Coordinates(a)
      BY <1>2, <2>1, <3>1 DEF Coordinates
    <3>3. NoTwins(Append(a, e))
      BY <3>2, NoTwinsAppend
    <3> QED BY <2>2, <3>2, <3>3
  <2>4. Append(t, e) \in Seq(S)
    OBVIOUS
  <2> QED BY <2>3, <2>4
<1> HIDE DEF Good
<1>3. q \in Good
  BY <1>1, <1>2, EveryList
<1> QED BY <1>3 DEF Good

-----------------------------------------------------------------------------
(* Which coordinates have had their action begun, and not yet ended.       *)
Begun(active) == {a.coord : a \in {x \in ToSet(active) : x.status \in {"Releasable", "Released"}}}
OverCoords(active) == {a.coord : a \in Over(active)}

LEMMA ConcatParts ==
    ASSUME NEW S, NEW s \in Seq(S), NEW t \in Seq(S)
    PROVE  /\ ToSet(s \o t) = ToSet(s) \cup ToSet(t)
           /\ Coordinates(s \o t) = Coordinates(s) \cup Coordinates(t)
           /\ Begun(s \o t) = Begun(s) \cup Begun(t)
           /\ NoTwins(s) /\ NoTwins(t) /\ Coordinates(s) \cap Coordinates(t) = {} => NoTwins(s \o t)
<1> DEFINE u == s \o t
<1>1. /\ u \in Seq(S) /\ Len(u) = Len(s) + Len(t) /\ Len(s) \in Nat /\ Len(t) \in Nat
      /\ \A i \in 1..(Len(s) + Len(t)) : u[i] = IF i <= Len(s) THEN s[i] ELSE t[i - Len(s)]
  BY ConcatProperties
<1> HIDE DEF u
<1>2. DOMAIN s = 1..Len(s) /\ DOMAIN t = 1..Len(t) /\ DOMAIN u = 1..(Len(s) + Len(t))
  BY <1>1
<1>3. \A i \in DOMAIN s : i \in DOMAIN u /\ u[i] = s[i]
  BY <1>1, <1>2
<1>4. \A i \in DOMAIN t : Len(s) + i \in DOMAIN u /\ u[Len(s) + i] = t[i]
  <2>1. ASSUME NEW i \in DOMAIN t PROVE Len(s) + i \in DOMAIN u /\ u[Len(s) + i] = t[i]
    <3>1. PICK k \in 1..(Len(s) + Len(t)) : k = Len(s) + i /\ ~(k <= Len(s)) /\ k - Len(s) = i
      <4>1. \A a, b \in Nat : \A x \in 1..b :
              a + x \in 1..(a + b) /\ ~(a + x <= a) /\ (a + x) - a = x
        OBVIOUS
      <4>2. i \in 1..Len(t) /\ Len(s) \in Nat /\ Len(t) \in Nat
        BY <1>1, <1>2
      <4>3. Len(s) + i \in 1..(Len(s) + Len(t)) /\ ~(Len(s) + i <= Len(s)) /\ (Len(s) + i) - Len(s) = i
        BY <4>1, <4>2, Zenon
      <4> QED BY <4>3, Zenon
    <3>2. u[k] = t[k - Len(s)]
      BY <1>1, <3>1
    <3> QED BY <1>2, <3>1, <3>2, Zenon
  <2> QED BY <2>1
<1>5. \A i \in DOMAIN u : i \in DOMAIN s \/ (i - Len(s) \in DOMAIN t /\ u[i] = t[i - Len(s)])
  BY <1>1, <1>2
<1>6. ToSet(u) = ToSet(s) \cup ToSet(t)
  BY <1>3, <1>4, <1>5 DEF ToSet
<1>7. Coordinates(u) = Coordinates(s) \cup Coordinates(t) /\ Begun(u) = Begun(s) \cup Begun(t)
  BY <1>6 DEF Coordinates, Begun
<1>8. ASSUME NoTwins(s), NoTwins(t), Coordinates(s) \cap Coordinates(t) = {},
             NEW i \in DOMAIN u, NEW j \in DOMAIN u, i # j
      PROVE  u[i].coord # u[j].coord
  <2>1. \A x \in DOMAIN s, y \in DOMAIN t : s[x].coord # t[y].coord
    <3>1. ASSUME NEW x \in DOMAIN s, NEW y \in DOMAIN t PROVE s[x].coord # t[y].coord
      <4>1. s[x].coord \in Coordinates(s) /\ t[y].coord \in Coordinates(t)
        BY DEF Coordinates, ToSet
      <4> QED BY <1>8, <4>1
    <3> QED BY <3>1
  <2>2. CASE i \in DOMAIN s /\ j \in DOMAIN s
    BY <1>3, <1>8, <2>2 DEF NoTwins
  <2>3. CASE i \notin DOMAIN s /\ j \notin DOMAIN s
    <3>1. i - Len(s) # j - Len(s)
      BY <1>1, <1>2, <1>8
    <3>2. i - Len(s) \in DOMAIN t /\ u[i] = t[i - Len(s)] /\ j - Len(s) \in DOMAIN t /\ u[j] = t[j - Len(s)]
      BY <1>5, <2>3
    <3> QED BY <1>8, <3>1, <3>2 DEF NoTwins
  <2>4. CASE i \in DOMAIN s /\ j \notin DOMAIN s
    BY <1>3, <1>5, <2>1, <2>4
  <2>5. CASE i \notin DOMAIN s /\ j \in DOMAIN s
    BY <1>3, <1>5, <2>1, <2>5
  <2> QED BY <2>2, <2>3, <2>4, <2>5
<1> QED BY <1>6, <1>7, <1>8 DEF NoTwins, u

LEMMA EndedParts ==
    ASSUME NEW cf, NEW active \in Seq(Actives(cf)), NEW es \in Seq(Events), NEW r,
           r = EndByReleases(active, es)
    PROVE  /\ Coordinates(r) = Coordinates(active) /\ Begun(r) = Begun(active)
           /\ NoTwins(active) => NoTwins(r)
<1>1. /\ DOMAIN r = DOMAIN active /\ \A i \in DOMAIN r : r[i] = EndsBy(active[i], KeysUp(es))
  BY EndedActives
<1>2. \A i \in DOMAIN active : active[i] \in Actives(cf)
  OBVIOUS
<1>3. \A i \in DOMAIN active :
        /\ r[i].coord = active[i].coord
        /\ r[i].status \in {"Releasable", "Released"} <=> active[i].status \in {"Releasable", "Released"}
  <2>1. ASSUME NEW i \in DOMAIN active
        PROVE  /\ r[i].coord = active[i].coord
               /\ r[i].status \in {"Releasable", "Released"} <=> active[i].status \in {"Releasable", "Released"}
    <3>1. r[i].coord = active[i].coord /\ r[i].status \in {active[i].status, Ended(active[i].status)}
      BY <1>1, <1>2, EndsByIs
    <3>2. active[i].status \in Statuses
      BY <1>2 DEF Actives
    <3> QED BY <3>1, <3>2 DEF Statuses, Ended
  <2> QED BY <2>1
<1>4. Coordinates(r) = Coordinates(active)
  BY <1>1, <1>3 DEF Coordinates, ToSet
<1>5. Begun(r) = Begun(active)
  BY <1>1, <1>3 DEF Begun, ToSet
<1>6. NoTwins(active) => NoTwins(r)
  BY <1>1, <1>3 DEF NoTwins
<1> QED BY <1>4, <1>5, <1>6

LEMMA StayParts ==
    ASSUME NEW cf, NEW active \in Seq(Actives(cf)), NoTwins(active)
    PROVE  /\ Stay(active) \in Seq(Actives(cf)) /\ NoTwins(Stay(active))
           /\ ToSet(Stay(active)) = ToSet(active) \ Over(active)
           /\ OverCoords(active) \subseteq Begun(active)
           /\ Begun(Stay(active)) = Begun(active) \ OverCoords(active)
           /\ Coordinates(Stay(active)) \cap OverCoords(active) = {}
<1>1. Stay(active) \in Seq(Actives(cf)) /\ ToSet(Stay(active)) = ToSet(active) \ Over(active)
  BY RetainIn DEF Stay
<1>2. NoTwins(Stay(active))
  BY RetainNoTwins DEF Stay
<1>3. \A a, b \in ToSet(active) : a.coord = b.coord => a = b
  BY DEF NoTwins, ToSet
<1>4. Over(active) \subseteq ToSet(active)
  BY DEF Over
<1>5. OverCoords(active) \subseteq Begun(active)
  BY DEF Over, OverCoords, Begun
<1>6. Begun(Stay(active)) = Begun(active) \ OverCoords(active)
  BY <1>1, <1>3, <1>4 DEF Begun, OverCoords
<1>7. Coordinates(Stay(active)) \cap OverCoords(active) = {}
  BY <1>1, <1>3, <1>4 DEF Coordinates, OverCoords
<1> QED BY <1>1, <1>2, <1>5, <1>6, <1>7

LEMMA FetchParts ==
    ASSUME NEW cf, NEW C \in States(cf), NoTwins(C.active), NEW D, Fetches(cf, C, D)
    PROVE  /\ NoTwins(D.active) /\ HandedOut(C) \cap Begun(C.active) = {}
           /\ Begun(D.active) = Begun(C.active) \cup HandedOut(C)
           /\ Coordinates(D.active) = Coordinates(C.active) /\ HandedOut(C) \subseteq Coordinates(C.active)
<1> DEFINE On(a) == a.status \in {"Releasable", "Released"}
<1>1. C.active \in Seq(Actives(cf)) /\ \A i \in DOMAIN C.active : C.active[i] \in Actives(cf)
  BY DEF States
<1>2. /\ DOMAIN D.active = DOMAIN C.active
      /\ \A i \in DOMAIN C.active :
           D.active[i] = IF UnreadChords(C) # {} /\ i = MinNat(UnreadChords(C))
                         THEN [C.active[i] EXCEPT !.status = IF @ = "Unread" THEN "Releasable" ELSE "Released"]
                         ELSE C.active[i]
  BY DEF Fetches
<1>3. CASE UnreadChords(C) = {}
  <2>1. \A i \in DOMAIN C.active : D.active[i] = C.active[i]
    BY <1>2, <1>3, Zenon
  <2>2. HandedOut(C) = {}
    BY <1>3, Zenon DEF HandedOut
  <2>3. ToSet(D.active) = ToSet(C.active) /\ NoTwins(D.active)
    BY <1>2, <2>1 DEF ToSet, NoTwins
  <2> QED BY <2>2, <2>3 DEF Begun, Coordinates
<1>4. CASE UnreadChords(C) # {}
  <2>1. PICK m : m = MinNat(UnreadChords(C))
    OBVIOUS
  <2>2. m \in UnreadChords(C) /\ m \in DOMAIN C.active
    <3>1. UnreadChords(C) \subseteq Nat /\ UnreadChords(C) \subseteq DOMAIN C.active
      BY <1>1 DEF UnreadChords
    <3> QED BY <1>4, <2>1, <3>1, MinNatIs
  <2>3. C.active[m].status \in {"Unread", "UnreadReleased"}
    BY <2>2 DEF UnreadChords
  <2>4. HandedOut(C) = {C.active[m].coord}
    BY <1>4, <2>1, Zenon DEF HandedOut
  <2>5. \A i \in DOMAIN C.active : i # m => D.active[i] = C.active[i]
    BY <1>2, <2>1
  <2>6. D.active[m] = [C.active[m] EXCEPT !.status = IF @ = "Unread" THEN "Releasable" ELSE "Released"]
    BY <1>2, <1>4, <2>1, <2>2, Zenon
  <2>7. D.active[m].coord = C.active[m].coord /\ D.active[m].status \in {"Releasable", "Released"}
    BY <1>1, <2>2, <2>6 DEF Actives
  <2>8. \A i \in DOMAIN C.active : D.active[i].coord = C.active[i].coord
    BY <2>5, <2>7
  <2>9. NoTwins(D.active) /\ Coordinates(D.active) = Coordinates(C.active)
    BY <1>2, <2>8 DEF NoTwins, Coordinates, ToSet
  <2>10. C.active[m].coord \notin Begun(C.active)
    <3>1. ASSUME NEW i \in DOMAIN C.active, C.active[i].status \in {"Releasable", "Released"}
          PROVE  C.active[i].coord # C.active[m].coord
      <4>1. i # m
        BY <2>3, <3>1
      <4> QED BY <2>2, <4>1 DEF NoTwins
    <3> QED BY <3>1 DEF Begun, ToSet
  <2>11. Begun(D.active) = Begun(C.active) \cup {C.active[m].coord}
    <3>1. \A n : n \in Begun(D.active) <=>
                   \E i \in DOMAIN C.active : D.active[i].status \in {"Releasable", "Released"} /\ n = C.active[i].coord
      BY <1>2, <2>8 DEF Begun, ToSet
    <3>2. \A n : n \in Begun(C.active) <=>
                   \E i \in DOMAIN C.active : C.active[i].status \in {"Releasable", "Released"} /\ n = C.active[i].coord
      BY DEF Begun, ToSet
    <3>3. \A i \in DOMAIN C.active : D.active[i].status \in {"Releasable", "Released"} <=>
                                     C.active[i].status \in {"Releasable", "Released"} \/ i = m
      BY <2>5, <2>7
    <3>4. \A n : n \in Begun(D.active) <=> n \in Begun(C.active) \/ n = C.active[m].coord
      BY <2>2, <3>1, <3>2, <3>3
    <3> QED BY <3>4
  <2>12. C.active[m].coord \in Coordinates(C.active)
    BY <2>2 DEF Coordinates, ToSet
  <2> QED BY <2>4, <2>9, <2>10, <2>11, <2>12
<1> QED BY <1>3, <1>4

-----------------------------------------------------------------------------
(* A drain when there is room: out leaves for the layout, the releases of  *)
(* gone have been looked at, and the chords that opened come last.         *)
Drains(cf, A, d, out, gone, opened) ==
    /\ out \in Seq(Events) /\ gone \in Seq(Events) /\ opened \in Seq(Actives(cf))
    /\ d.q = out /\ Len(out) <= Len(A.queue)
    /\ d.c.active = EndByReleases(A.active, gone) \o opened
    /\ \A i \in DOMAIN opened : opened[i].status \in {"Unread", "UnreadReleased"}
    /\ NoTwins(opened) /\ \A i \in DOMAIN opened : Dist(cf, A.next, opened[i].coord) <= Len(A.queue)
Flows(cf, A, layer_, d, out, gone, opened) ==
    \/ out = A.queue /\ gone = A.queue /\ opened = <<>> /\ d.c.queue = <<>>
    \/ out = <<>> /\ gone = <<>> /\ opened = <<>> /\ d.c.queue = A.queue
    \/ /\ out = Virtuals(A.queue) \o Gone(A.queue) /\ gone = Gone(A.queue)
       /\ \/ opened = <<>> /\ d.c.queue = Left(A.queue)
          \/ /\ opened # <<>>
             /\ \E D, st : /\ D.queue = Left(A.queue) /\ LookedAt(cf, D, layer_, st) /\ opened = st.opened
                           /\ d.c.queue = Retain(Left(A.queue), Consumed(Left(A.queue), st.acc))

LEMMA VirtualsGone ==
    ASSUME NEW q \in Seq(Events)
    PROVE  Len(Virtuals(q)) + Len(Gone(q)) <= Len(q)
<1>1. RealInputs(q) \cap (ToSet(q) \ RealInputs(q)) = {}
  OBVIOUS
<1>2. Len(Reals(q)) + Len(Virtuals(q)) <= Len(q)
  BY <1>1, RetainSplit DEF Reals, Virtuals
<1>3. Reals(q) \in Seq(Events) /\ Virtuals(q) \in Seq(Events) /\ Len(Gone(q)) \in 0..Len(Reals(q))
  BY LeftIs
<1>4. PICK a \in Nat, b \in Nat, n \in Nat, g \in Nat :
        a = Len(Reals(q)) /\ b = Len(Virtuals(q)) /\ n = Len(q) /\ g = Len(Gone(q))
  BY <1>3
<1>5. a + b <= n /\ g <= a
  BY <1>2, <1>3, <1>4
<1>6. b + g <= n
  BY <1>5
<1> QED BY <1>4, <1>6

LEMMA OpenedAre ==
    ASSUME NEW cf, IsConfig(cf), NEW D \in States(cf), NEW layer_, NEW st, LookedAt(cf, D, layer_, st),
           Len(D.queue) + 1 < cf.NumCoords
    PROVE  /\ st \in Looks(cf) /\ st.opened \in Seq(Actives(cf)) /\ NoTwins(st.opened)
           /\ \A i \in DOMAIN st.opened : /\ st.opened[i].status \in {"Unread", "UnreadReleased"}
                                          /\ Dist(cf, D.next, st.opened[i].coord) <= Len(D.queue)
<1> DEFINE ups == RelevantReleases(D.queue)
           s == PressesBefore(D.queue, ups)
<1>1. PICK possible \in SUBSET Enabled(cf, layer_) : Looked(cf, D, possible, ups, s, st)
  BY DEF LookedAt
<1>2. D.queue \in Seq(Events) /\ D.next \in 0..(cf.NumCoords - 1)
  BY DEF States
<1>3. Len(s) <= Len(D.queue) /\ s \in Seq(Events)
  BY <1>2, PressesBeforeIs
<1> HIDE DEF s, ups
<1>4. /\ st \in Looks(cf) /\ Fresh(cf, D.next, Len(s) + 1, st)
      /\ \A i \in DOMAIN st.opened : Opens(possible, st.acc, ups, st.opened[i])
  BY <1>1, Zenon DEF Looked, Sound
<1>5. st.opened \in Seq(Actives(cf)) /\ st.next \in 0..(cf.NumCoords - 1)
  BY <1>4 DEF Looks
<1>6. PICK N \in Nat, n \in Nat, l \in Nat : N = cf.NumCoords /\ n = Len(s) /\ l = Len(D.queue)
  BY <1>2, <1>3, ConfigIs
<1>7. n <= l /\ n + 1 < N
  BY <1>3, <1>6
<1>8. /\ Dist(cf, D.next, st.next) <= n + 1
      /\ \A i \in DOMAIN st.opened : Dist(cf, D.next, st.opened[i].coord) < Dist(cf, D.next, st.next)
      /\ \A i, j \in DOMAIN st.opened : i # j => st.opened[i].coord # st.opened[j].coord
  BY <1>4, <1>6, <1>7, Zenon DEF Fresh
<1>9. Dist(cf, D.next, st.next) \in Nat
  BY <1>2, <1>5, DistNext
<1>10. ASSUME NEW i \in DOMAIN st.opened
       PROVE  /\ st.opened[i].status \in {"Unread", "UnreadReleased"}
              /\ Dist(cf, D.next, st.opened[i].coord) <= Len(D.queue)
  <2>1. st.opened[i] \in Actives(cf)
    BY <1>5
  <2>2. st.opened[i].coord \in 0..(cf.NumCoords - 1)
    BY <2>1, ActiveIs
  <2>3. Dist(cf, D.next, st.opened[i].coord) \in Nat
    BY <1>2, <2>2, DistNext
  <2>4. Dist(cf, D.next, st.opened[i].coord) <= Len(D.queue)
    BY <1>6, <1>7, <1>8, <1>9, <2>3
  <2>5. st.opened[i].status = GetActiveChord(st.opened[i].chord, st.opened[i].coord, ups).status
    BY <1>4 DEF Opens
  <2>6. st.opened[i].status = IF ups # {} /\ st.opened[i].chord.release = "first" THEN "UnreadReleased" ELSE "Unread"
    BY <2>5 DEF GetActiveChord
  <2> QED BY <2>4, <2>6
<1> QED BY <1>4, <1>5, <1>8, <1>10, Zenon DEF NoTwins

LEMMA DrainsIs ==
    ASSUME NEW cf, IsConfig(cf), NEW A \in States(cf), NEW layer_, NEW d, DrainedBy(cf, A, layer_, d),
           Len(A.queue) <= SmolLen, Len(A.queue) + 1 < cf.NumCoords
    PROVE  \E out, gone, opened : Drains(cf, A, d, out, gone, opened) /\ Flows(cf, A, layer_, d, out, gone, opened)
<1> DEFINE Goal == \E out, gone, opened : /\ Drains(cf, A, d, out, gone, opened)
                                          /\ Flows(cf, A, layer_, d, out, gone, opened)
<1>1. A.queue \in Seq(Events) /\ A.active \in Seq(Actives(cf)) /\ Len(A.queue) \in Nat
  BY DEF States
<1>2. /\ <<>> \in Seq(Events) /\ <<>> \in Seq(Actives(cf)) /\ Len(<<>>) = 0 /\ NoTwins(<<>>)
      /\ \A i \in DOMAIN <<>> : FALSE
  BY DEF NoTwins
<1>3. \A q \in Seq(Events) : Len(q) <= SmolLen => PushAll(<<>>, q) = q
  <2>1. ASSUME NEW q \in Seq(Events), Len(q) <= SmolLen PROVE PushAll(<<>>, q) = q
    <3>1. <<>> \o q = q /\ Len(<<>>) + Len(q) <= SmolLen
      BY <2>1
    <3> QED BY <1>2, <3>1, PushRoom
  <2> QED BY <2>1
<1>4. \A es \in Seq(Events) : EndByReleases(A.active, es) \o <<>> = EndByReleases(A.active, es)
  <2>1. \A es \in Seq(Events) : EndByReleases(A.active, es) \in Seq(Actives(cf))
    BY <1>1, EndedActives
  <2> QED BY <2>1
<1>5. ASSUME Ignoring(cf, A, d) PROVE Goal
  <2>1. d.q = A.queue /\ d.c.queue = <<>> /\ d.c.active = EndByReleases(A.active, A.queue)
    BY <1>1, <1>3, <1>5 DEF Ignoring
  <2>2. Drains(cf, A, d, A.queue, A.queue, <<>>)
    BY <1>1, <1>2, <1>4, <2>1 DEF Drains
  <2>3. Flows(cf, A, layer_, d, A.queue, A.queue, <<>>)
    BY <2>1 DEF Flows
  <2> QED BY <2>2, <2>3
<1>6. ASSUME Sleeping(cf, A, d) PROVE Goal
  <2>1. d.q = <<>> /\ d.c.queue = A.queue /\ d.c.active = A.active
    BY <1>6 DEF Sleeping
  <2>2. EndByReleases(A.active, <<>>) = A.active
    BY EndEmpty
  <2>3. Drains(cf, A, d, <<>>, <<>>, <<>>)
    BY <1>1, <1>2, <1>4, <2>1, <2>2 DEF Drains
  <2>4. Flows(cf, A, layer_, d, <<>>, <<>>, <<>>)
    BY <2>1 DEF Flows
  <2> QED BY <2>3, <2>4
<1>7. ASSUME Looking(cf, A, layer_, d) PROVE Goal
  <2> DEFINE v == Virtuals(A.queue)
             g == Gone(A.queue)
             l == Left(A.queue)
  <2>1. PICK D : InFront(cf, A, D) /\ ProcessedBy(cf, D, layer_, d.c)
    BY <1>7 DEF Looking
  <2>2. d.q = PushAll(PushAll(<<>>, v), g)
    BY <1>7 DEF Looking
  <2>3. /\ v \in Seq(Events) /\ g \in Seq(Events) /\ l \in Seq(Events) /\ Len(l) <= Len(A.queue)
        /\ Len(v) + Len(g) <= Len(A.queue)
    BY <1>1, LeftIs, VirtualsGone
  <2>4. D \in States(cf) /\ D.queue = l /\ D.active = EndByReleases(A.active, g) /\ D.next = A.next
    BY <2>1 DEF InFront
  <2> HIDE DEF v, g, l
  <2>5. PICK out \in Seq(Events) : out = v \o g /\ Len(out) <= Len(A.queue)
    <3>1. v \o g \in Seq(Events) /\ Len(v \o g) = Len(v) + Len(g)
      BY <2>3, ConcatProperties
    <3> QED BY <2>3, <3>1
  <2>6. d.q = out
    <3>1. Len(v) <= SmolLen /\ Len(v) + Len(g) <= SmolLen
      <4>1. PICK x \in Nat, y \in Nat, n \in Nat : x = Len(v) /\ y = Len(g) /\ n = Len(A.queue)
        BY <1>1, <2>3
      <4>2. x + y <= n /\ n <= SmolLen /\ SmolLen \in Nat
        BY <2>3, <4>1, ChordBounds
      <4>3. x <= SmolLen /\ x + y <= SmolLen
        BY <4>2
      <4> QED BY <4>1, <4>3
    <3> QED BY <1>3, <2>2, <2>3, <2>5, <3>1, PushRoom
  <2>7. ASSUME d.c.queue = l, d.c.active = D.active PROVE Goal
    <3>1. Drains(cf, A, d, out, g, <<>>)
      BY <1>2, <1>4, <2>3, <2>4, <2>5, <2>6, <2>7 DEF Drains
    <3>2. Flows(cf, A, layer_, d, out, g, <<>>)
      BY <2>5, <2>7 DEF Flows, v, g, l
    <3> QED BY <3>1, <3>2
  <2>8. ASSUME D.queue = <<>>, d.c = D PROVE Goal
    BY <2>4, <2>7, <2>8
  <2>9. ASSUME d.c = [D EXCEPT !.ignore = cf.minIdle] PROVE Goal
    <3>1. d.c.queue = l /\ d.c.active = D.active
      BY <2>4, <2>9 DEF States
    <3> QED BY <2>7, <3>1
  <2>10. ASSUME NEW st, LookedAt(cf, D, layer_, st), d.c = Conclude(D, st) PROVE Goal
    <3>1. Len(D.queue) + 1 < cf.NumCoords /\ Len(D.queue) <= Len(A.queue) /\ Len(D.queue) \in Nat
      <4>1. PICK n \in Nat, m \in Nat, N \in Nat : n = Len(D.queue) /\ m = Len(A.queue) /\ N = cf.NumCoords
        BY <1>1, <2>3, <2>4, ConfigIs
      <4>2. n <= m /\ m + 1 < N
        BY <2>3, <2>4, <4>1
      <4>3. n + 1 < N
        BY <4>2
      <4> QED BY <4>1, <4>2, <4>3
    <3>2. /\ st \in Looks(cf) /\ st.opened \in Seq(Actives(cf)) /\ NoTwins(st.opened)
          /\ \A i \in DOMAIN st.opened : /\ st.opened[i].status \in {"Unread", "UnreadReleased"}
                                         /\ Dist(cf, A.next, st.opened[i].coord) <= Len(D.queue)
      BY <2>4, <2>10, <3>1, OpenedAre
    <3>3. Concluded(cf, D, st, d.c)
      BY <2>4, <2>10, <3>2, ConcludeIs
    <3>4. /\ d.c.active = D.active \o st.opened
          /\ d.c.queue = IF st.opened = <<>> THEN l ELSE Retain(l, Consumed(l, st.acc))
      BY <2>4, <3>3 DEF Concluded
    <3>5. \A i \in DOMAIN st.opened : Dist(cf, A.next, st.opened[i].coord) <= Len(A.queue)
      <4>1. ASSUME NEW i \in DOMAIN st.opened PROVE Dist(cf, A.next, st.opened[i].coord) <= Len(A.queue)
        <5>1. st.opened[i].coord \in 0..(cf.NumCoords - 1) /\ A.next \in 0..(cf.NumCoords - 1)
          <6>1. st.opened[i] \in Actives(cf)
            BY <3>2
          <6> QED BY <6>1, ActiveIs DEF States
        <5>2. Dist(cf, A.next, st.opened[i].coord) \in Nat
          BY <5>1, DistNext
        <5> QED BY <1>1, <3>1, <3>2, <5>2
      <4> QED BY <4>1
    <3>6. Drains(cf, A, d, out, g, st.opened)
      BY <2>3, <2>4, <2>5, <2>6, <3>2, <3>4, <3>5, Zenon DEF Drains
    <3>7. CASE st.opened = <<>>
      <4>1. d.c.queue = l
        BY <3>4, <3>7
      <4>2. Flows(cf, A, layer_, d, out, g, st.opened)
        BY <2>5, <3>7, <4>1 DEF Flows, v, g, l
      <4> QED BY <3>6, <4>2
    <3>8. CASE st.opened # <<>>
      <4>1. d.c.queue = Retain(l, Consumed(l, st.acc))
        BY <3>4, <3>8
      <4>2. \E D1, st1 : /\ D1.queue = l /\ LookedAt(cf, D1, layer_, st1) /\ st.opened = st1.opened
                         /\ d.c.queue = Retain(l, Consumed(l, st1.acc))
        BY <2>4, <2>10, <4>1
      <4>3. Flows(cf, A, layer_, d, out, g, st.opened)
        BY <2>5, <3>8, <4>2, Zenon DEF Flows, v, g, l
      <4> QED BY <3>6, <4>3
    <3> QED BY <3>7, <3>8
  <2> QED BY <2>1, <2>8, <2>9, <2>10, Zenon DEF ProcessedBy
<1> QED BY <1>5, <1>6, <1>7, Zenon DEF DrainedBy

-----------------------------------------------------------------------------
(* What the layout is given in a tick: the events that leave the queue,    *)
(* no-op events, and the releases of the coordinates that are over.        *)
Wide == [press : BOOLEAN, coord : Nat \X Nat, since : Nat]

LEMMA WideAre ==
    /\ Seq(Events) \subseteq Seq(Wide) /\ Seq(TriggerEvents) \subseteq Seq(Wide)
    /\ \A e \in Events : e.coord[2] <= KeyMax /\ e.coord[2] \in Nat
    /\ \A e \in TriggerEvents : e.coord = TriggerTapHold /\ e.coord[2] = 0
    /\ KeyMax \in Nat
<1>1. Events \subseteq Wide
  <2>1. Coords \subseteq Nat \X Nat
    <3>1. ASSUME NEW c \in Coords PROVE c \in Nat \X Nat
      <4>1. c = <<c[1], c[2]>> /\ c[1] \in {0, 1} /\ c[2] \in 0..KeyMax
        BY KeysAreCodes
      <4>2. c[1] \in Nat /\ c[2] \in Nat
        BY <4>1
      <4> QED BY <4>1, <4>2
    <3> QED BY <3>1
  <2> QED BY <2>1 DEF Events, Wide
<1>2. TriggerEvents \subseteq Wide /\ \A e \in TriggerEvents : e.coord = TriggerTapHold /\ e.coord[2] = 0
  BY DEF TriggerEvents, Trigger, TriggerTapHold, Wide
<1>3. \A e \in Events : e.coord[2] <= KeyMax /\ e.coord[2] \in Nat
  <2>1. ASSUME NEW e \in Events PROVE e.coord[2] <= KeyMax /\ e.coord[2] \in Nat
    <3>1. e.coord \in Coords
      BY DEF Events
    <3>2. e.coord[2] \in 0..KeyMax
      BY <3>1, KeysAreCodes
    <3> QED BY <3>2, ChordBounds
  <2> QED BY <2>1
<1>4. \A T \in SUBSET Wide : Seq(T) \subseteq Seq(Wide)
  <2>1. ASSUME NEW T \in SUBSET Wide, NEW s \in Seq(T) PROVE s \in Seq(Wide)
    <3>1. \A i \in 1..Len(s) : s[i] \in Wide
      OBVIOUS
    <3>2. s = [i \in 1..Len(s) |-> s[i]] /\ Len(s) \in Nat
      OBVIOUS
    <3> QED BY <3>1, <3>2
  <2> QED BY <2>1
<1> QED BY <1>1, <1>2, <1>3, <1>4, ChordBounds

LEMMA SeqHas ==
    ASSUME NEW S, NEW q \in Seq(S)
    PROVE  DOMAIN q = 1..Len(q) /\ Len(q) \in Nat /\ \A i \in DOMAIN q : q[i] \in S
OBVIOUS

LEMMA MappedSeq ==
    ASSUME NEW S, NEW n \in Nat, NEW f, f = [i \in 1..n |-> f[i]], \A i \in 1..n : f[i] \in S
    PROVE  f \in Seq(S) /\ Len(f) = n
OBVIOUS

LEMMA ReleasesOfIs ==
    ASSUME NEW cf, IsConfig(cf), NEW q \in Seq(Actives(cf))
    PROVE  /\ ReleasesOf(q) \in Seq(Wide) /\ Len(ReleasesOf(q)) = Len(q)
           /\ ToSet(ReleasesOf(q)) = {ReleaseOf(a) : a \in ToSet(q)}
           /\ \A a \in ToSet(q) : /\ ReleaseOf(a) \in Wide /\ ReleaseOf(a).coord[2] > KeyMax
                                   /\ ReleaseOf(a).coord[2] - KeyMax - 1 = a.coord
                                   /\ ReleaseOf(a).coord \notin Coords
<1>1. \A i \in DOMAIN q : q[i] \in Actives(cf)
  BY SeqHas, Zenon
<1>2. ASSUME NEW a \in Actives(cf)
      PROVE  /\ ReleaseOf(a) \in Wide /\ ReleaseOf(a).coord[2] > KeyMax
             /\ ReleaseOf(a).coord[2] - KeyMax - 1 = a.coord
             /\ ReleaseOf(a).coord \notin Coords
  <2>1. PICK n \in Nat : n = a.coord
    <3>1. a.coord \in 0..(cf.NumCoords - 1)
      BY ActiveIs
    <3> QED BY <3>1, ConfigIs
  <2>2. ReleaseOf(a) = [press |-> FALSE, coord |-> <<0, KeyMax + 1 + n>>, since |-> 0]
    BY <2>1 DEF ReleaseOf
  <2>3. KeyMax \in Nat
    BY WideAre
  <2>4. KeyMax + 1 + n \in Nat /\ KeyMax + 1 + n > KeyMax /\ (KeyMax + 1 + n) - KeyMax - 1 = n
    BY <2>3
  <2>5. ReleaseOf(a) \in Wide /\ ReleaseOf(a).coord[2] = KeyMax + 1 + n
    BY <2>2, <2>4 DEF Wide
  <2>6. ReleaseOf(a).coord \notin Coords
    <3>1. \A c \in Coords : c[2] \in 0..KeyMax
      BY KeysAreCodes
    <3>2. KeyMax + 1 + n \notin 0..KeyMax
      BY <2>3, <2>4
    <3> QED BY <2>5, <3>1, <3>2
  <2> QED BY <2>1, <2>4, <2>5, <2>6
<1>3. DOMAIN q = 1..Len(q) /\ Len(q) \in Nat
  BY SeqHas, Zenon
<1>4. ReleasesOf(q) \in Seq(Wide) /\ Len(ReleasesOf(q)) = Len(q) /\ DOMAIN ReleasesOf(q) = DOMAIN q
      /\ \A i \in DOMAIN q : ReleasesOf(q)[i] = ReleaseOf(q[i])
  <2>1. PICK r : r = ReleasesOf(q)
    OBVIOUS
  <2>2. r = [i \in DOMAIN q |-> ReleaseOf(q[i])]
    BY <2>1, Zenon DEF ReleasesOf
  <2>3. DOMAIN r = DOMAIN q /\ \A i \in DOMAIN q : r[i] = ReleaseOf(q[i])
    BY <2>2
  <2>4. r = [i \in 1..Len(q) |-> r[i]] /\ \A i \in 1..Len(q) : r[i] \in Wide
    <3>1. r = [i \in DOMAIN q |-> r[i]]
      BY <2>2
    <3>2. \A i \in DOMAIN q : r[i] \in Wide
      BY <1>1, <1>2, <2>3
    <3> QED BY <1>3, <3>1, <3>2, Zenon
  <2>5. r \in Seq(Wide) /\ Len(r) = Len(q)
    BY <1>3, <2>4, MappedSeq, Zenon
  <2> QED BY <2>1, <2>3, <2>5, Zenon
<1>5. ToSet(ReleasesOf(q)) = {ReleaseOf(a) : a \in ToSet(q)}
  BY <1>4 DEF ToSet
<1>6. ToSet(q) \subseteq Actives(cf)
  BY <1>1 DEF ToSet
<1> QED BY <1>2, <1>4, <1>5, <1>6

(* With room for all, nothing is lost: the layout gets the events that     *)
(* left, and the release of every coordinate that is over.                 *)
Given(d, out, q) ==
    /\ \E trig \in Seq(TriggerEvents) : q = (out \o trig) \o ReleasesOf(Done(d.c.active))
    /\ q \in Seq(Wide) /\ EndedIn(q) = OverCoords(d.c.active)

LEMMA GivenIs ==
    ASSUME NEW cf, IsConfig(cf), NEW A \in States(cf), NEW d, d.c \in States(cf),
           NEW out, NEW gone, NEW opened, Drains(cf, A, d, out, gone, opened),
           Len(A.queue) + Len(A.active) + 2 <= SmolLen, NEW q, Told(d, q)
    PROVE  Given(d, out, q)
<1> DEFINE all == d.c.active
           over == Done(all)
           ended == EndByReleases(A.active, gone)
<1>1. /\ A.queue \in Seq(Events) /\ A.active \in Seq(Actives(cf)) /\ all \in Seq(Actives(cf))
  BY DEF States
<1>2. /\ out \in Seq(Events) /\ gone \in Seq(Events) /\ opened \in Seq(Actives(cf))
      /\ d.q = out /\ Len(out) <= Len(A.queue) /\ all = ended \o opened
      /\ \A i \in DOMAIN opened : opened[i].status \in {"Unread", "UnreadReleased"}
  BY DEF Drains
<1>3. ended \in Seq(Actives(cf)) /\ Len(ended) = Len(A.active)
  <2>1. PICK r : r = ended
    OBVIOUS
  <2>2. r \in Seq(Actives(cf)) /\ Len(r) = Len(A.active)
    <3> HIDE DEF all
    <3> QED BY <1>1, <1>2, <2>1, EndedActives
  <2> QED BY <2>1, <2>2
<1> HIDE DEF all, ended
<1>4. over \in Seq(Actives(cf)) /\ ToSet(over) = Over(all)
  <2>1. Over(all) \subseteq ToSet(all)
    BY DEF Over
  <2>2. PICK r : r = Retain(all, Over(all)) /\ r = over
    BY DEF Done
  <2>3. r \in Seq(Actives(cf)) /\ ToSet(r) = ToSet(all) \cap Over(all)
    <3>1. PICK x, kept : x = all /\ kept = Over(all)
      OBVIOUS
    <3>3. x \in Seq(Actives(cf))
      BY <1>1, <3>1
    <3>2. Retain(x, kept) \in Seq(Actives(cf)) /\ ToSet(Retain(x, kept)) = ToSet(x) \cap kept
      BY <3>3, RetainIn
    <3> QED BY <2>2, <3>1, <3>2
  <2> HIDE DEF over
  <2> QED BY <2>1, <2>2, <2>3
<1>5. Len(over) <= Len(A.active)
  <2>1. over = Retain(ended, Over(all)) \o Retain(opened, Over(all))
    BY <1>2, <1>3, RetainConcat DEF Done
  <2>2. ToSet(opened) \cap Over(all) = {}
    BY <1>2 DEF ToSet, Over
  <2>3. Retain(opened, Over(all)) = <<>>
    BY <1>2, <2>2, RetainNone
  <2>4. Retain(ended, Over(all)) \in Seq(Actives(cf)) /\ Len(Retain(ended, Over(all))) <= Len(ended)
    BY <1>3, RetainIn
  <2>5. over = Retain(ended, Over(all))
    BY <2>1, <2>3, <2>4
  <2> QED BY <1>3, <2>4, <2>5
<1> HIDE DEF over
<1>6. PICK trig \in Seq(TriggerEvents) : Len(trig) <= 2 /\ q = PushAll(PushAll(out, trig), ReleasesOf(over))
  BY <1>2 DEF Told, over, all
<1>7. PICK rel \in Seq(Wide) : rel = ReleasesOf(over) /\ Len(rel) = Len(over)
  BY <1>4, ReleasesOfIs
<1>8. out \in Seq(Wide) /\ trig \in Seq(Wide)
  BY <1>2, <1>6, WideAre
<1>9. Len(out) + Len(trig) <= SmolLen /\ (Len(out) + Len(trig)) + Len(rel) <= SmolLen
  <2>1. PICK o \in Nat, t \in Nat, r \in Nat, x \in Nat, a \in Nat :
          /\ o = Len(out) /\ t = Len(trig) /\ r = Len(rel) /\ x = Len(A.queue) /\ a = Len(A.active)
    BY <1>1, <1>7, <1>8
  <2>2. o <= x /\ t <= 2 /\ r <= a /\ x + a + 2 <= SmolLen /\ SmolLen \in Nat
    BY <1>2, <1>5, <1>6, <1>7, <2>1, ChordBounds
  <2>3. o + t <= SmolLen /\ (o + t) + r <= SmolLen
    BY <2>2
  <2> QED BY <2>1, <2>3
<1>10. PICK front \in Seq(Wide) : front = out \o trig /\ Len(front) = Len(out) + Len(trig)
  BY <1>8, ConcatProperties
<1>11. PushAll(out, trig) = front
  BY <1>8, <1>9, <1>10, PushRoom
<1>12. q = front \o rel
  BY <1>6, <1>7, <1>9, <1>10, <1>11, PushRoom
<1>13. q \in Seq(Wide) /\ ToSet(q) = (ToSet(out) \cup ToSet(trig)) \cup ToSet(rel)
  <2>1. ToSet(out \o trig) = ToSet(out) \cup ToSet(trig)
    BY <1>8, ConcatParts
  <2>2. front \o rel \in Seq(Wide)
    BY <1>7, <1>10, ConcatProperties
  <2>3. ToSet(front \o rel) = ToSet(front) \cup ToSet(rel)
    <3>1. \A x, y \in Seq(Wide) : ToSet(x \o y) = ToSet(x) \cup ToSet(y)
      BY ConcatParts
    <3> QED BY <1>7, <1>10, <3>1, Zenon
  <2> QED BY <1>10, <1>12, <2>1, <2>2, <2>3
<1>14. EndedIn(q) = OverCoords(all)
  <2>1. EndedIn(q) = {e.coord[2] - KeyMax - 1 : e \in {x \in ToSet(q) : x.coord[2] > KeyMax}}
    BY DEF EndedIn, ToSet
  <2>2. \A e \in ToSet(out) \cup ToSet(trig) : ~(e.coord[2] > KeyMax)
    <3>1. ToSet(out) \subseteq Events /\ ToSet(trig) \subseteq TriggerEvents
      BY <1>2, <1>6 DEF ToSet
    <3>2. ASSUME NEW e \in ToSet(out) \cup ToSet(trig) PROVE ~(e.coord[2] > KeyMax)
      <4>1. e.coord[2] \in Nat /\ e.coord[2] <= KeyMax /\ KeyMax \in Nat
        BY <3>1, WideAre
      <4> QED BY <4>1
    <3> QED BY <3>2
  <2>3. /\ ToSet(rel) = {ReleaseOf(a) : a \in Over(all)}
        /\ \A a \in Over(all) : /\ ReleaseOf(a).coord[2] > KeyMax
                                /\ ReleaseOf(a).coord[2] - KeyMax - 1 = a.coord
    BY <1>4, <1>7, ReleasesOfIs
  <2>4. \A n : n \in EndedIn(q) <=> \E a \in Over(all) : n = a.coord
    BY <1>13, <2>1, <2>2, <2>3
  <2> QED BY <2>4 DEF OverCoords
<1> QED BY <1>6, <1>7, <1>10, <1>12, <1>13, <1>14 DEF Given, over, all

-----------------------------------------------------------------------------
(* The room that one tick may need.                                        *)
Roomy(cf, C) ==
    /\ Len(C.queue) + Len(C.active) + 2 <= SmolLen
    /\ \A i \in DOMAIN C.active : Dist(cf, C.next, C.active[i].coord) > Len(C.queue) + 1
(* A tick that begins the actions of `begins` and ends those of `ends`.    *)
Exchange(C, D, begins, ends) ==
    /\ NoTwins(D.active) /\ ends \subseteq Begun(C.active) /\ begins \cap Begun(C.active) = {}
    /\ Begun(D.active) = (Begun(C.active) \ ends) \cup begins

LEMMA RoomyIs ==
    ASSUME NEW cf, IsConfig(cf), NEW C \in States(cf), Roomy(cf, C), NEW cap, NEW A,
           Moved(cf, C, AgeQueue(C.queue, cap), C.active, A)
    PROVE  /\ Len(A.queue) + Len(A.active) + 2 <= SmolLen /\ Len(A.queue) <= SmolLen
           /\ Len(A.queue) + 1 < cf.NumCoords /\ Len(A.queue) = Len(C.queue) /\ Len(A.queue) \in Nat
<1>1. C.queue \in Seq(Events) /\ C.active \in Seq(Actives(cf))
  BY DEF States
<1>2. A.active = C.active /\ A.queue = AgeQueue(C.queue, cap)
  BY DEF Moved
<1>3. Len(A.queue) = Len(C.queue)
  BY <1>1, <1>2, Aged
<1>4. PICK x \in Nat, a \in Nat, N \in Nat : x = Len(C.queue) /\ a = Len(C.active) /\ N = cf.NumCoords /\ N > SmolLen
  BY <1>1, ConfigIs
<1>5. x + a + 2 <= SmolLen /\ SmolLen \in Nat
  BY <1>4, ChordBounds DEF Roomy
<1>6. x <= SmolLen /\ x + 1 < N
  <2>1. PICK l \in Nat : l = SmolLen
    BY <1>5
  <2>2. x + a + 2 <= l /\ N > l
    BY <1>4, <1>5, <2>1
  <2>3. x <= l /\ x + 1 < N
    BY <2>2
  <2> QED BY <2>1, <2>3
<1> QED BY <1>2, <1>3, <1>4, <1>5, <1>6

LEMMA OpenedApart ==
    ASSUME NEW cf, IsConfig(cf), NEW C \in States(cf), Roomy(cf, C), NoTwins(C.active),
           NEW A, A \in States(cf), A.active = C.active, A.next = C.next, Len(A.queue) = Len(C.queue),
           NEW d, NEW out, NEW gone, NEW opened, Drains(cf, A, d, out, gone, opened)
    PROVE  /\ NoTwins(d.c.active) /\ Coordinates(opened) \cap Coordinates(C.active) = {}
           /\ Begun(d.c.active) = Begun(C.active) /\ Begun(opened) = {}
<1> DEFINE ended == EndByReleases(A.active, gone)
<1>1. /\ C.active \in Seq(Actives(cf)) /\ C.next \in 0..(cf.NumCoords - 1) /\ Len(C.queue) \in Nat
  BY DEF States
<1>2. /\ gone \in Seq(Events) /\ opened \in Seq(Actives(cf)) /\ d.c.active = ended \o opened
      /\ \A i \in DOMAIN opened : opened[i].status \in {"Unread", "UnreadReleased"}
      /\ NoTwins(opened) /\ \A i \in DOMAIN opened : Dist(cf, C.next, opened[i].coord) <= Len(C.queue)
  BY DEF Drains
<1>3. ended \in Seq(Actives(cf)) /\ Coordinates(ended) = Coordinates(C.active)
      /\ Begun(ended) = Begun(C.active) /\ NoTwins(ended)
  <2>1. PICK r : r = ended
    OBVIOUS
  <2>2. r \in Seq(Actives(cf))
    BY <1>1, <1>2, <2>1, EndedActives
  <2>3. Coordinates(r) = Coordinates(C.active) /\ Begun(r) = Begun(C.active) /\ NoTwins(r)
    BY <1>1, <1>2, <2>1, EndedParts
  <2> QED BY <2>1, <2>2, <2>3
<1> HIDE DEF ended
<1>4. ASSUME NEW i \in DOMAIN opened, NEW j \in DOMAIN C.active
      PROVE  opened[i].coord # C.active[j].coord
  <2>1. Dist(cf, C.next, C.active[j].coord) > Len(C.queue) + 1
    BY DEF Roomy
  <2>2. opened[i].coord \in 0..(cf.NumCoords - 1)
    <3>1. opened[i] \in Actives(cf)
      BY <1>2, SeqHas
    <3> QED BY <3>1, ActiveIs
  <2>3. Dist(cf, C.next, opened[i].coord) \in Nat /\ Dist(cf, C.next, opened[i].coord) <= Len(C.queue)
    BY <1>1, <1>2, <2>2, DistNext
  <2> QED BY <1>1, <2>1, <2>3
<1>5. Coordinates(opened) \cap Coordinates(C.active) = {}
  BY <1>4 DEF Coordinates, ToSet
<1>6. Begun(opened) = {}
  <2>1. ASSUME NEW a \in ToSet(opened) PROVE a.status \notin {"Releasable", "Released"}
    <3>1. a.status \in {"Unread", "UnreadReleased"}
      BY <1>2 DEF ToSet
    <3> QED BY <3>1
  <2> QED BY <2>1 DEF Begun
<1>7. NoTwins(ended \o opened) /\ Begun(ended \o opened) = Begun(ended) \cup Begun(opened)
  <2>1. \A x, y \in Seq(Actives(cf)) : Begun(x \o y) = Begun(x) \cup Begun(y)
    BY ConcatParts
  <2>2. \A x, y \in Seq(Actives(cf)) : NoTwins(x) /\ NoTwins(y) /\ Coordinates(x) \cap Coordinates(y) = {}
                                         => NoTwins(x \o y)
    BY ConcatParts
  <2>3. Coordinates(ended) \cap Coordinates(opened) = {}
    BY <1>3, <1>5
  <2> QED BY <1>2, <1>3, <2>1, <2>2, <2>3, Zenon
<1> QED BY <1>2, <1>3, <1>5, <1>6, <1>7

LEMMA TickExchanges ==
    ASSUME NEW cf, IsConfig(cf), NEW C \in States(cf), NEW layer_ \in cf.layers,
           Roomy(cf, C), NoTwins(C.active), NEW cap, NEW r, r = TickChv2(cf, C, layer_, cap),
           NEW D, D = GetActionChv2(r.c)
    PROVE  Exchange(C, D, HandedOut(r.c), EndedIn(r.q))
<1>1. PICK A : A = [C EXCEPT !.queue = AgeQueue(C.queue, cap)]
  OBVIOUS
<1>2. PICK d : d = DrainInputs(cf, A, layer_)
  OBVIOUS
<1>3. Moved(cf, C, AgeQueue(C.queue, cap), C.active, A) /\ DrainedBy(cf, A, layer_, d) /\ TickedBy(cf, d, r)
  BY <1>1, <1>2, TickIs
<1>4. A \in States(cf) /\ A.active = C.active /\ A.next = C.next
  BY <1>3 DEF Moved
<1>5. /\ Len(A.queue) + Len(A.active) + 2 <= SmolLen /\ Len(A.queue) <= SmolLen
      /\ Len(A.queue) + 1 < cf.NumCoords /\ Len(A.queue) = Len(C.queue)
  BY <1>3, RoomyIs
<1>6. PICK out, gone, opened : Drains(cf, A, d, out, gone, opened)
  BY <1>3, <1>4, <1>5, DrainsIs
<1>7. d.c \in States(cf) /\ r.c \in States(cf) /\ r.c.active = Stay(d.c.active) /\ Told(d, r.q)
  BY <1>3 DEF TickedBy
<1>8. EndedIn(r.q) = OverCoords(d.c.active)
  BY <1>4, <1>5, <1>6, <1>7, GivenIs DEF Given
<1>9. NoTwins(d.c.active) /\ Begun(d.c.active) = Begun(C.active)
  BY <1>4, <1>5, <1>6, OpenedApart
<1>10. d.c.active \in Seq(Actives(cf))
  BY <1>7 DEF States
<1>11. /\ NoTwins(r.c.active) /\ OverCoords(d.c.active) \subseteq Begun(C.active)
       /\ Begun(r.c.active) = Begun(C.active) \ OverCoords(d.c.active)
       /\ Coordinates(r.c.active) \cap OverCoords(d.c.active) = {}
  BY <1>7, <1>9, <1>10, StayParts
<1>12. Fetches(cf, r.c, D)
  BY <1>7, GetActionIs
<1>13. /\ NoTwins(D.active) /\ HandedOut(r.c) \cap Begun(r.c.active) = {}
       /\ Begun(D.active) = Begun(r.c.active) \cup HandedOut(r.c)
       /\ HandedOut(r.c) \subseteq Coordinates(r.c.active)
  BY <1>7, <1>11, <1>12, FetchParts
<1>14. HandedOut(r.c) \cap Begun(C.active) = {}
  BY <1>11, <1>13
<1> QED BY <1>8, <1>11, <1>13, <1>14, Zenon DEF Exchange

(* A chord's action counts as begun from the tick that hands it out to the *)
(* tick that ends it, for each coordinate of its own.                      *)
PairInv ==
    /\ ChordInv /\ NoTwins(chv2.active)
    /\ performing = [n \in 0..(cv.NumCoords - 1) |-> IF n \in Begun(chv2.active) THEN 1 ELSE 0]

LEMMA PairInvInit == Init => PairInv
<1> SUFFICES ASSUME Init PROVE PairInv
  OBVIOUS
<1>1. ChordInv
  BY DelayInvInit DEF DelayInv
<1>2. chv2.active = <<>> /\ performing = [n \in 0..(cv.NumCoords - 1) |-> 0]
  BY DEF Init, ChordsNew
<1>3. NoTwins(chv2.active) /\ Begun(chv2.active) = {}
  BY <1>2, ToSetEmpty DEF NoTwins, Begun
<1> QED BY <1>1, <1>2, <1>3 DEF PairInv

LEMMA ChordInvStep ==
    ASSUME ChordInv, [Next]_vars
    PROVE  /\ ChordInv' /\ cv' = cv
           /\ (\A c \in cv.coords : ~PressKey(c) /\ ~ReleaseKey(c)) /\ ~Tick => UNCHANGED <<chv2, down, performing>>
<1>1. IsConfig(cv) /\ chv2 \in States(cv) /\ layer \in cv.layers
  BY DEF ChordInv
<1>2. cv' = cv
  BY DEF Next, Tick, ChangeLayer, PressKey, ReleaseKey, vars
<1>3. CASE Tick
  <2>1. PICK r : r = TickChv2(cv, chv2, layer, AgeCap) /\ chv2' = GetActionChv2(r.c) /\ layer' = layer
    BY <1>3, Zenon DEF Tick, Fetched
  <2>2. r.c \in States(cv)
    BY <1>1, <2>1, TickIs DEF TickedBy
  <2>3. chv2' \in States(cv)
    BY <2>1, <2>2, GetActionIs DEF Fetches, Moved
  <2> QED BY <1>1, <1>2, <1>3, <2>1, <2>3 DEF ChordInv
<1>4. ASSUME NEW c \in cv.coords, PressKey(c) \/ ReleaseKey(c) PROVE ChordInv'
  <2>1. PICK press \in BOOLEAN : chv2' = PushBackChv2(chv2, NewEvent(press, c)) /\ layer' = layer
    BY <1>4 DEF PressKey, ReleaseKey, Enqueue, NewEvent
  <2>2. c \in Coords
    BY <1>1, ConfigIs
  <2>3. chv2' \in States(cv)
    BY <1>1, <2>1, <2>2, PushBackIs DEF Moved
  <2> QED BY <1>1, <1>2, <2>1, <2>3 DEF ChordInv
<1>5. ASSUME ChangeLayer \/ UNCHANGED vars PROVE ChordInv' /\ UNCHANGED <<chv2, down, performing>>
  <2>1. UNCHANGED <<chv2, down, performing>> /\ layer' \in cv.layers
    BY <1>1, <1>5 DEF ChangeLayer, vars
  <2> QED BY <1>1, <1>2, <2>1 DEF ChordInv
<1> QED BY <1>2, <1>3, <1>4, <1>5 DEF Next

LEMMA RoomyNow == ASSUME WithinLimits PROVE Roomy(cv, chv2)
BY DEF WithinLimits, Roomy, Ahead, Dist

LEMMA PairInvStep == PairInv /\ WithinLimits /\ [Next]_vars => PairInv'
<1> SUFFICES ASSUME PairInv, WithinLimits, [Next]_vars PROVE PairInv'
  OBVIOUS
<1>1. IsConfig(cv) /\ chv2 \in States(cv) /\ layer \in cv.layers /\ ChordInv
  BY DEF PairInv, ChordInv
<1>2. /\ ChordInv' /\ cv' = cv
  BY <1>1, ChordInvStep
<1> DEFINE Counts(as_) == [n \in 0..(cv.NumCoords - 1) |-> IF n \in Begun(as_) THEN 1 ELSE 0]
<1>3. NoTwins(chv2.active) /\ performing = Counts(chv2.active)
  BY DEF PairInv
<1>4. CASE Tick
  <2>1. PICK r : r = TickChv2(cv, chv2, layer, AgeCap) /\ Fetched(r)
    BY <1>4, Zenon DEF Tick
  <2>2. /\ chv2' = GetActionChv2(r.c)
        /\ performing' = [n \in DOMAIN performing |->
                            performing[n] + (IF n \in HandedOut(r.c) THEN 1 ELSE 0)
                                          - (IF n \in EndedIn(r.q) THEN 1 ELSE 0)]
    BY <2>1 DEF Fetched
  <2>3. PICK D, begins, ends : D = chv2' /\ begins = HandedOut(r.c) /\ ends = EndedIn(r.q)
    OBVIOUS
  <2>4. Exchange(chv2, D, begins, ends)
    BY <1>1, <1>3, <2>1, <2>2, <2>3, RoomyNow, TickExchanges
  <2>5. performing' = Counts(D.active)
    <3>1. /\ DOMAIN performing = 0..(cv.NumCoords - 1)
          /\ \A n \in 0..(cv.NumCoords - 1) : performing[n] = IF n \in Begun(chv2.active) THEN 1 ELSE 0
      BY <1>3
    <3>2. /\ ends \subseteq Begun(chv2.active) /\ begins \cap Begun(chv2.active) = {}
          /\ Begun(D.active) = (Begun(chv2.active) \ ends) \cup begins
      BY <2>4 DEF Exchange
    <3>3. \A n \in 0..(cv.NumCoords - 1) :
            performing[n] + (IF n \in begins THEN 1 ELSE 0) - (IF n \in ends THEN 1 ELSE 0)
              = IF n \in Begun(D.active) THEN 1 ELSE 0
      BY <3>1, <3>2
    <3> QED BY <2>2, <2>3, <3>1, <3>3
  <2>6. NoTwins(D.active)
    BY <2>4 DEF Exchange
  <2> QED BY <1>2, <2>3, <2>5, <2>6 DEF PairInv
<1>5. ASSUME NEW c \in cv.coords, PressKey(c) \/ ReleaseKey(c) PROVE PairInv'
  <2>1. PICK press \in BOOLEAN : chv2' = PushBackChv2(chv2, NewEvent(press, c)) /\ performing' = performing
    BY <1>5 DEF PressKey, ReleaseKey, Enqueue, NewEvent
  <2>2. c \in Coords
    BY <1>1, ConfigIs
  <2>3. chv2'.active = chv2.active
    BY <1>1, <2>1, <2>2, PushBackIs DEF Moved
  <2> QED BY <1>2, <1>3, <2>1, <2>3 DEF PairInv
<1>6. ASSUME \A c \in cv.coords : ~PressKey(c) /\ ~ReleaseKey(c), ~Tick PROVE PairInv'
  <2>1. chv2' = chv2 /\ performing' = performing
    BY <1>1, <1>6, ChordInvStep
  <2> QED BY <1>2, <1>3, <2>1 DEF PairInv
<1> QED BY <1>4, <1>5, <1>6

LEMMA PairInvPairs == PairInv => ActionsPaired
<1> SUFFICES ASSUME PairInv, NEW n \in DOMAIN performing
             PROVE  performing[n] \in {0, 1} /\ (IsIdleChv2(chv2) => performing[n] = 0)
  BY DEF ActionsPaired
<1>1. performing[n] = IF n \in Begun(chv2.active) THEN 1 ELSE 0
  BY DEF PairInv
<1>2. IsIdleChv2(chv2) => Begun(chv2.active) = {}
  BY ToSetEmpty DEF IsIdleChv2, Begun
<1> QED BY <1>1, <1>2

(* As long as a tick finds the room it needs, the layout gets the release  *)
(* of every chord whose action it was given, once, and of no other: the    *)
(* statuses from Unread to Released hand out every action before its end   *)
(* (chord.rs, get_action_chv2 and clear_released_chords).                  *)
THEOREM ActionsArePaired == Spec /\ []WithinLimits => []ActionsPaired
<1>1. Spec /\ []WithinLimits => []PairInv
  BY PairInvInit, PairInvStep, PTL DEF Spec
<1> QED BY <1>1, PairInvPairs, PTL

-----------------------------------------------------------------------------
(* The line of a coordinate: its events among those of a list.             *)
LineOf(q, c) == Retain(q, {e \in ToSet(q) : e.coord = c})
OfCoord(c) == {e \in Wide : e.coord = c}
AllReleases == {e \in Wide : ~e.press}

LEMMA EventsWide == Events \subseteq Wide
<1>1. ASSUME NEW e \in Events PROVE e \in Wide
  <2>1. <<e>> \in Seq(Events) /\ <<e>>[1] = e /\ 1 \in DOMAIN <<e>>
    OBVIOUS
  <2>2. <<e>> \in Seq(Wide)
    BY <2>1, WideAre
  <2>3. \A i \in DOMAIN <<e>> : <<e>>[i] \in Wide
    BY <2>2, SeqHas, Zenon
  <2> QED BY <2>1, <2>3, Zenon
<1> QED BY <1>1

LEMMA LineIs ==
    ASSUME NEW q \in Seq(Wide), NEW c
    PROVE  LineOf(q, c) = Retain(q, OfCoord(c))
<1>1. ToSet(q) \subseteq Wide
  BY DEF ToSet
<1>2. ToSet(q) \cap {e \in ToSet(q) : e.coord = c} = ToSet(q) \cap OfCoord(c)
  BY <1>1 DEF OfCoord
<1> QED BY <1>2, RetainSame DEF LineOf

LEMMA LineHas ==
    ASSUME NEW S, NEW s \in Seq(S), NEW c
    PROVE  LineOf(s, c) \in Seq(S) /\ ToSet(LineOf(s, c)) = {e \in ToSet(s) : e.coord = c}
<1>1. {e \in ToSet(s) : e.coord = c} \subseteq ToSet(s)
  OBVIOUS
<1> QED BY <1>1, RetainIn DEF LineOf

(* A tick later the same events are kept.                                  *)
Older(e, cap) == [e EXCEPT !.since = IF @ < cap THEN @ + 1 ELSE @]

LEMMA OlderIs ==
    ASSUME NEW e \in Events, NEW cap
    PROVE  /\ Older(e, cap) \in Events /\ Older(e, cap).press = e.press /\ Older(e, cap).coord = e.coord
           /\ Older(e, cap).since = IF e.since < cap THEN e.since + 1 ELSE e.since
BY DEF Events, Older

LEMMA SameList ==
    ASSUME NEW S, NEW s \in Seq(S), NEW t \in Seq(S), NEW n \in Nat, Len(s) = n, Len(t) = n,
           \A i \in 1..n : s[i] = t[i]
    PROVE  s = t
<1>1. s = [i \in 1..n |-> s[i]] /\ t = [i \in 1..n |-> t[i]]
  OBVIOUS
<1>2. [i \in 1..n |-> s[i]] = [i \in 1..n |-> t[i]]
  OBVIOUS
<1> QED BY <1>1, <1>2, Zenon

LEMMA AgeAppend ==
    ASSUME NEW s \in Seq(Events), NEW e \in Events, NEW cap
    PROVE  AgeQueue(Append(s, e), cap) = Append(AgeQueue(s, cap), Older(e, cap))
<1> DEFINE t == Append(s, e)
           a == AgeQueue(s, cap)
           b == AgeQueue(t, cap)
<1>1. /\ t \in Seq(Events) /\ DOMAIN t = 1..(Len(s) + 1) /\ DOMAIN s = 1..Len(s) /\ Len(s) \in Nat
      /\ Len(t) = Len(s) + 1 /\ t[Len(s) + 1] = e /\ \A i \in 1..Len(s) : t[i] = s[i]
  OBVIOUS
<1>2. /\ a \in Seq(Events) /\ Len(a) = Len(s) /\ DOMAIN a = DOMAIN s
      /\ \A i \in DOMAIN s : a[i] = Older(s[i], cap)
  BY Aged DEF Older
<1> HIDE DEF t
<1>3. /\ b \in Seq(Events) /\ Len(b) = Len(t) /\ DOMAIN b = DOMAIN t
      /\ \A i \in DOMAIN t : b[i] = Older(t[i], cap)
  BY <1>1, Aged DEF Older
<1> HIDE DEF a, b
<1>4. Older(e, cap) \in Events
  BY OlderIs
<1>5. PICK o \in Events : o = Older(e, cap)
  BY <1>4
<1> DEFINE c == Append(a, o)
<1>6. c \in Seq(Events) /\ Len(c) = Len(s) + 1 /\ c[Len(s) + 1] = o /\ \A i \in 1..Len(s) : c[i] = a[i]
  BY <1>2
<1> HIDE DEF c
<1>7. \A i \in 1..(Len(s) + 1) : b[i] = c[i]
  <2>1. ASSUME NEW i \in 1..(Len(s) + 1) PROVE b[i] = c[i]
    <3>1. CASE i = Len(s) + 1
      <4>1. i \in DOMAIN t /\ t[i] = e
        BY <1>1, <3>1
      <4>2. b[i] = Older(t[i], cap) /\ c[i] = o
        BY <1>3, <1>6, <3>1, <4>1
      <4> QED BY <1>5, <4>1, <4>2, Zenon
    <3>2. CASE i # Len(s) + 1
      <4>1. i \in 1..Len(s) /\ i \in DOMAIN s /\ i \in DOMAIN t
        BY <1>1, <3>2
      <4>2. t[i] = s[i] /\ c[i] = a[i]
        BY <1>1, <1>6, <4>1
      <4>3. b[i] = Older(t[i], cap) /\ a[i] = Older(s[i], cap)
        BY <1>2, <1>3, <4>1
      <4> QED BY <4>2, <4>3, Zenon
    <3> QED BY <3>1, <3>2
  <2> QED BY <2>1
<1>8. Len(b) = Len(s) + 1 /\ Len(c) = Len(s) + 1
  BY <1>1, <1>3, <1>6
<1>9. b = c
  <2>1. PICK n \in Nat : n = Len(s) + 1
    BY <1>1
  <2> QED BY <1>3, <1>6, <1>7, <1>8, <2>1, SameList
<1> QED BY <1>5, <1>9, Zenon DEF t, a, b, c

LEMMA RetainAged ==
    ASSUME NEW q \in Seq(Events), NEW cap, NEW kept, \A e \in Events : Older(e, cap) \in kept <=> e \in kept
    PROVE  Retain(AgeQueue(q, cap), kept) = AgeQueue(Retain(q, kept), cap)
<1> DEFINE Good == {s \in Seq(Events) : Retain(AgeQueue(s, cap), kept) = AgeQueue(Retain(s, kept), cap)}
<1>1. <<>> \in Good
  <2>1. AgeQueue(<<>>, cap) = <<>> /\ <<>> \in Seq(Events)
    BY DEF AgeQueue
  <2> QED BY <2>1, RetainEmpty
<1>2. ASSUME NEW s \in Seq(Events), NEW e \in Events, s \in Good PROVE Append(s, e) \in Good
  <2>1. AgeQueue(Append(s, e), cap) = Append(AgeQueue(s, cap), Older(e, cap))
    BY AgeAppend
  <2>2. PICK a \in Seq(Events) : a = AgeQueue(s, cap)
    BY Aged
  <2>3. PICK r \in Seq(Events) : r = Retain(s, kept)
    BY RetainIn
  <2>4. PICK o \in Events : o = Older(e, cap)
    BY OlderIs
  <2>5. Retain(Append(a, o), kept) = IF o \in kept THEN Append(Retain(a, kept), o) ELSE Retain(a, kept)
    BY RetainAppend
  <2>6. Retain(Append(s, e), kept) = IF e \in kept THEN Append(r, e) ELSE r
    BY <2>3, RetainAppend
  <2>7. AgeQueue(Append(r, e), cap) = Append(AgeQueue(r, cap), o)
    BY <2>4, AgeAppend
  <2>8. Retain(a, kept) = AgeQueue(r, cap)
    BY <1>2, <2>2, <2>3
  <2>9. o \in kept <=> e \in kept
    BY <2>4
  <2>10. Retain(AgeQueue(Append(s, e), cap), kept) = AgeQueue(Retain(Append(s, e), kept), cap)
    BY <2>1, <2>2, <2>4, <2>5, <2>6, <2>7, <2>8, <2>9
  <2>11. Append(s, e) \in Seq(Events)
    OBVIOUS
  <2> QED BY <2>10, <2>11
<1> HIDE DEF Good
<1>3. q \in Good
  BY <1>1, <1>2, EveryList
<1> QED BY <1>3 DEF Good

LEMMA LineAged ==
    ASSUME NEW q \in Seq(Events), NEW cap, NEW c
    PROVE  /\ LineOf(AgeQueue(q, cap), c) = AgeQueue(LineOf(q, c), cap)
           /\ Retain(AgeQueue(q, cap), AllReleases) = AgeQueue(Retain(q, AllReleases), cap)
<1>1. \A e \in Events : e \in Wide /\ Older(e, cap) \in Wide
  BY EventsWide, OlderIs
<1>2. \A e \in Events : Older(e, cap) \in OfCoord(c) <=> e \in OfCoord(c)
  BY <1>1, OlderIs DEF OfCoord
<1>3. \A e \in Events : Older(e, cap) \in AllReleases <=> e \in AllReleases
  BY <1>1, OlderIs DEF AllReleases
<1>4. Retain(AgeQueue(q, cap), OfCoord(c)) = AgeQueue(Retain(q, OfCoord(c)), cap)
  BY <1>2, RetainAged
<1>5. Retain(AgeQueue(q, cap), AllReleases) = AgeQueue(Retain(q, AllReleases), cap)
  BY <1>3, RetainAged
<1>6. q \in Seq(Wide) /\ AgeQueue(q, cap) \in Seq(Wide)
  BY Aged, WideAre
<1> QED BY <1>4, <1>5, <1>6, LineIs

(* The front of a line leaves, the rest of it gets older.                  *)
Leaving(rest, w) == SubSeq(rest, 1, Len(rest) - Len(w))
Leaves(rest, front, f, w, cap) ==
    /\ Len(w) <= Len(rest)
    /\ w = AgeQueue(SubSeq(rest, Len(front) + 1, Len(rest)), cap)
    /\ front \in Seq(Events) /\ Len(front) = Len(f)
    /\ \A i \in 1..Len(f) : front[i].press = f[i].press

LEMMA FrontLeaves ==
    ASSUME NEW rest \in Seq(Events), NEW cap, NEW f \in Seq(Events), NEW w \in Seq(Events),
           AgeQueue(rest, cap) = f \o w
    PROVE  Leaves(rest, Leaving(rest, w), f, w, cap)
<1>0. PICK front : front = SubSeq(rest, 1, Len(rest) - Len(w))
  OBVIOUS
<1>1. PICK m \in Nat, k \in Nat, n \in Nat : m = Len(f) /\ k = Len(w) /\ n = Len(rest)
  OBVIOUS
<1> DEFINE a == AgeQueue(rest, cap)
<1>2. /\ a \in Seq(Events) /\ Len(a) = n /\ DOMAIN rest = 1..n
      /\ \A i \in 1..n : a[i] = Older(rest[i], cap)
  <2>1. a \in Seq(Events) /\ Len(a) = Len(rest)
        /\ \A i \in DOMAIN rest : a[i] = Older(rest[i], cap)
    BY Aged DEF Older
  <2>2. DOMAIN rest = 1..n
    BY <1>1, SeqHas
  <2> HIDE DEF a
  <2> QED BY <1>1, <2>1, <2>2
<1>3. Len(a) = m + k /\ \A i \in 1..(m + k) : a[i] = IF i <= m THEN f[i] ELSE w[i - m]
  BY <1>1, ConcatProperties
<1> HIDE DEF a
<1>4. n = m + k /\ n - k = m /\ k <= n /\ m \in 0..n
  BY <1>2, <1>3
<1>5. front = SubSeq(rest, 1, m)
  BY <1>0, <1>1, <1>4
<1>6. front \in Seq(Events) /\ Len(front) = m /\ \A i \in 1..m : front[i] = rest[i]
  <2>1. m \in 0..Len(rest)
    BY <1>1, <1>4
  <2> QED BY <1>5, <2>1, Parts
<1> DEFINE back == SubSeq(rest, m + 1, Len(rest))
<1>7. back \in Seq(Events) /\ Len(back) = k /\ \A i \in 1..k : back[i] = rest[m + i]
  <2>1. m \in 0..Len(rest) /\ Len(rest) - m = k
    BY <1>1, <1>4
  <2> QED BY <2>1, Parts
<1> HIDE DEF back
<1>8. PICK b \in Seq(Events) : /\ b = AgeQueue(back, cap) /\ Len(b) = k
                               /\ \A i \in 1..k : b[i] = Older(back[i], cap)
  <2>1. AgeQueue(back, cap) \in Seq(Events) /\ Len(AgeQueue(back, cap)) = Len(back)
        /\ \A i \in DOMAIN back : AgeQueue(back, cap)[i] = Older(back[i], cap)
    BY <1>7, Aged DEF Older
  <2>2. DOMAIN back = 1..k
    BY <1>7, SeqHas
  <2> QED BY <1>7, <2>1, <2>2
<1>9. \A i \in 1..k : w[i] = b[i]
  <2>1. ASSUME NEW i \in 1..k PROVE w[i] = b[i]
    <3>1. PICK j \in 1..(m + k) : j = m + i /\ ~(j <= m) /\ j - m = i
      OBVIOUS
    <3>2. w[i] = a[j]
      BY <1>3, <3>1
    <3>3. a[j] = Older(rest[j], cap)
      BY <1>2, <1>4
    <3>4. back[i] = rest[j] /\ b[i] = Older(back[i], cap)
      BY <1>7, <1>8, <3>1
    <3> QED BY <3>2, <3>3, <3>4
  <2> QED BY <2>1
<1>10. w = b
  <2>1. Len(w) = k /\ Len(b) = k
    BY <1>1, <1>8
  <2> QED BY <1>8, <1>9, <2>1, SameList, Zenon
<1>11. \A i \in 1..m : front[i].press = f[i].press
  <2>1. ASSUME NEW i \in 1..m PROVE front[i].press = f[i].press
    <3>1. i \in 1..n /\ i \in 1..(m + k) /\ i <= m
      BY <1>4
    <3>2. f[i] = Older(rest[i], cap) /\ front[i] = rest[i]
      BY <1>2, <1>3, <1>6, <3>1
    <3>3. PICK e \in Events : e = rest[i]
      BY <1>2, <3>1, SeqHas
    <3>4. Older(e, cap).press = e.press
      BY OlderIs
    <3> QED BY <3>2, <3>3, <3>4, Zenon
  <2> QED BY <2>1
<1>12. /\ Len(w) <= Len(rest) /\ front \in Seq(Events) /\ Len(front) = Len(f)
       /\ w = AgeQueue(SubSeq(rest, Len(front) + 1, Len(rest)), cap)
       /\ \A i \in 1..Len(f) : front[i].press = f[i].press
  BY <1>1, <1>4, <1>6, <1>8, <1>10, <1>11 DEF back
<1> QED BY <1>0, <1>12, Zenon DEF Leaves, Leaving

-----------------------------------------------------------------------------
(* What leaves each line, and what stays of it, in a drain.                *)
SwallowedBy(opened, c) == c[1] = 0 /\ \E a \in ToSet(opened) : c[2] \in a.chord.keys
RestOf(q, opened, c) ==
    IF SwallowedBy(opened, c) THEN Retain(LineOf(q, c), AllReleases) ELSE LineOf(q, c)

LEMMA LineConcat ==
    ASSUME NEW s \in Seq(Events), NEW t \in Seq(Events), NEW c
    PROVE  LineOf(s \o t, c) = LineOf(s, c) \o LineOf(t, c)
<1>1. s \o t \in Seq(Events)
  BY ConcatProperties
<1>2. \A x \in Seq(Events) : LineOf(x, c) = Retain(x, OfCoord(c))
  BY LineIs, WideAre
<1>3. Retain(s \o t, OfCoord(c)) = Retain(s, OfCoord(c)) \o Retain(t, OfCoord(c))
  BY RetainConcat
<1> QED BY <1>1, <1>2, <1>3

LEMMA LineOfRetained ==
    ASSUME NEW q \in Seq(Events), NEW kept, NEW c
    PROVE  LineOf(Retain(q, kept), c) = Retain(q, kept \cap OfCoord(c))
<1>1. Retain(q, kept) \in Seq(Events)
  BY RetainIn
<1>2. \A s \in Seq(Events) : LineOf(s, c) = Retain(s, OfCoord(c))
  BY LineIs, WideAre
<1>3. Retain(Retain(q, kept), OfCoord(c)) = Retain(q, kept \cap OfCoord(c))
  BY RetainTwice
<1> QED BY <1>1, <1>2, <1>3

LEMMA NoLine ==
    ASSUME NEW q \in Seq(Events), NEW c, \A e \in ToSet(q) : e.coord # c
    PROVE  LineOf(q, c) = <<>>
<1>1. ToSet(q) \cap {e \in ToSet(q) : e.coord = c} = {}
  OBVIOUS
<1> QED BY <1>1, RetainNone DEF LineOf

LEMMA VirtualLine ==
    ASSUME NEW q \in Seq(Events), NEW c, c[1] # 0
    PROVE  /\ LineOf(Virtuals(q), c) = LineOf(q, c) /\ LineOf(Gone(q), c) = <<>>
           /\ \A s \in Seq(Events) : ToSet(s) \subseteq ToSet(Left(q)) => LineOf(s, c) = <<>>
<1>1. LineOf(Virtuals(q), c) = Retain(q, (ToSet(q) \ RealInputs(q)) \cap OfCoord(c))
  BY LineOfRetained DEF Virtuals
<1>2. ToSet(q) \cap ((ToSet(q) \ RealInputs(q)) \cap OfCoord(c)) = ToSet(q) \cap OfCoord(c)
  BY DEF RealInputs, OfCoord
<1>3. LineOf(q, c) = Retain(q, OfCoord(c))
  BY LineIs, WideAre
<1>4. Retain(q, (ToSet(q) \ RealInputs(q)) \cap OfCoord(c)) = Retain(q, OfCoord(c))
  BY <1>2, RetainSame
<1>5. \A e \in RealInputs(q) : e.coord # c
  BY DEF RealInputs
<1>6. Gone(q) \in Seq(Events) /\ ToSet(Gone(q)) \subseteq RealInputs(q) /\ ToSet(Left(q)) \subseteq RealInputs(q)
  BY LeftIs
<1>7. LineOf(Gone(q), c) = <<>>
  BY <1>5, <1>6, NoLine
<1>8. ASSUME NEW s \in Seq(Events), ToSet(s) \subseteq ToSet(Left(q)) PROVE LineOf(s, c) = <<>>
  <2>1. \A e \in ToSet(s) : e.coord # c
    BY <1>5, <1>6, <1>8
  <2> QED BY <2>1, NoLine
<1> QED BY <1>1, <1>3, <1>4, <1>7, <1>8

LEMMA RealLine ==
    ASSUME NEW q \in Seq(Events), NEW c, c[1] = 0
    PROVE  /\ LineOf(Virtuals(q), c) = <<>>
           /\ LineOf(q, c) = LineOf(Gone(q), c) \o LineOf(Left(q), c)
<1>1. LineOf(Virtuals(q), c) = <<>>
  <2>1. ToSet(Virtuals(q)) \subseteq ToSet(q) \ RealInputs(q) /\ Virtuals(q) \in Seq(Events)
    BY RetainIn DEF Virtuals
  <2>2. \A e \in ToSet(Virtuals(q)) : e.coord # c
    BY <2>1 DEF RealInputs
  <2> QED BY <2>1, <2>2, NoLine
<1>2. LineOf(Reals(q), c) = LineOf(q, c)
  <2>1. LineOf(Reals(q), c) = Retain(q, RealInputs(q) \cap OfCoord(c))
    BY LineOfRetained DEF Reals
  <2>2. ToSet(q) \cap (RealInputs(q) \cap OfCoord(c)) = ToSet(q) \cap OfCoord(c)
    BY DEF RealInputs, OfCoord
  <2>3. LineOf(q, c) = Retain(q, OfCoord(c))
    BY LineIs, WideAre
  <2>4. Retain(q, RealInputs(q) \cap OfCoord(c)) = Retain(q, OfCoord(c))
    BY <2>2, RetainSame
  <2> QED BY <2>1, <2>3, <2>4
<1>3. PICK R \in Seq(Events), G \in Seq(Events), L \in Seq(Events) : R = Reals(q) /\ G = Gone(q) /\ L = Left(q)
  BY LeftIs
<1>4. R = G \o L
  <2>1. PICK m \in 0..Len(R) : m = Len(G)
    BY <1>3, LeftIs
  <2>2. G = SubSeq(R, 1, m) /\ L = SubSeq(R, m + 1, Len(R))
    BY <1>3, <2>1, LeftIs DEF Left
  <2>3. R = SubSeq(R, 1, m) \o SubSeq(R, m + 1, Len(R))
    BY Parts
  <2> QED BY <2>2, <2>3, Zenon
<1>5. LineOf(G \o L, c) = LineOf(G, c) \o LineOf(L, c)
  BY LineConcat
<1>6. LineOf(R, c) = LineOf(G, c) \o LineOf(L, c)
  BY <1>4, <1>5
<1> QED BY <1>1, <1>2, <1>3, <1>6

LEMMA ReleasesConcat ==
    ASSUME NEW s \in Seq(Events), NEW t \in Seq(Events)
    PROVE  Retain(s \o t, AllReleases) = Retain(s, AllReleases) \o Retain(t, AllReleases)
BY RetainConcat

LEMMA FlowLine ==
    ASSUME NEW cf, IsConfig(cf), NEW A \in States(cf), NEW layer_, NEW d, NEW out, NEW gone, NEW opened,
           Flows(cf, A, layer_, d, out, gone, opened), NEW c \in Coords
    PROVE  RestOf(A.queue, opened, c) = LineOf(out, c) \o LineOf(d.c.queue, c)
<1> DEFINE q == A.queue
           Goal == RestOf(q, opened, c) = LineOf(out, c) \o LineOf(d.c.queue, c)
<1>1. q \in Seq(Events)
  BY DEF States
<1>2. \A s \in Seq(Events) : /\ LineOf(s, c) \in Seq(Events) /\ <<>> \o LineOf(s, c) = LineOf(s, c)
                             /\ LineOf(s, c) \o <<>> = LineOf(s, c)
  <2>1. ASSUME NEW s \in Seq(Events) PROVE LineOf(s, c) \in Seq(Events)
    BY LineHas
  <2> QED BY <2>1
<1>3. LineOf(<<>>, c) = <<>> /\ ~SwallowedBy(<<>>, c)
  <2>1. <<>> \in Seq(Events) /\ ToSet(<<>>) = {}
    BY ToSetEmpty
  <2>2. LineOf(<<>>, c) = <<>>
    BY <2>1, NoLine
  <2> QED BY <2>1, <2>2 DEF SwallowedBy
<1>4. ASSUME out = q, opened = <<>>, d.c.queue = <<>> PROVE Goal
  BY <1>1, <1>2, <1>3, <1>4 DEF RestOf
<1>5. ASSUME out = <<>>, opened = <<>>, d.c.queue = q PROVE Goal
  BY <1>1, <1>2, <1>3, <1>5 DEF RestOf
<1>6. PICK v \in Seq(Events), g \in Seq(Events), l \in Seq(Events) :
        v = Virtuals(q) /\ g = Gone(q) /\ l = Left(q)
  BY <1>1, LeftIs
<1>7. LineOf(v \o g, c) = LineOf(v, c) \o LineOf(g, c)
  BY LineConcat
<1>8. c[1] # 0 => /\ LineOf(v \o g, c) = LineOf(q, c)
                  /\ \A s \in Seq(Events) : ToSet(s) \subseteq ToSet(l) => LineOf(s, c) = <<>>
  <2>1. ASSUME c[1] # 0
        PROVE  /\ LineOf(Virtuals(q), c) = LineOf(q, c) /\ LineOf(Gone(q), c) = <<>>
               /\ \A s \in Seq(Events) : ToSet(s) \subseteq ToSet(Left(q)) => LineOf(s, c) = <<>>
    BY <1>1, <2>1, VirtualLine
  <2> QED BY <1>1, <1>2, <1>6, <1>7, <2>1
<1>9. c[1] = 0 => /\ LineOf(v \o g, c) = LineOf(g, c)
                  /\ LineOf(q, c) = LineOf(g, c) \o LineOf(l, c)
  BY <1>1, <1>2, <1>6, <1>7, RealLine
<1> HIDE DEF q
<1>10. ASSUME out = v \o g, opened = <<>>, d.c.queue = l PROVE Goal
  BY <1>1, <1>2, <1>3, <1>8, <1>9, <1>10 DEF RestOf
<1>11. ASSUME out = v \o g, NEW acc, d.c.queue = Retain(l, Consumed(l, acc)),
              \A a \in ToSet(opened) : a.chord.keys = KeysOf(acc), opened # <<>>, ToSet(opened) # {}
       PROVE  Goal
  <2>1. SwallowedBy(opened, c) <=> c[1] = 0 /\ c[2] \in KeysOf(acc)
    BY <1>11 DEF SwallowedBy
  <2>2. d.c.queue \in Seq(Events) /\ ToSet(d.c.queue) \subseteq ToSet(l)
    BY <1>11, RetainIn
  <2>3. CASE c[1] # 0
    BY <1>1, <1>2, <1>8, <1>11, <2>1, <2>2, <2>3 DEF RestOf
  <2>4. LineOf(d.c.queue, c) = Retain(l, Consumed(l, acc) \cap OfCoord(c))
    BY <1>11, LineOfRetained
  <2>5. LineOf(l, c) = Retain(l, OfCoord(c)) /\ LineOf(q, c) \in Seq(Events)
    BY <1>1, <1>2, LineIs, WideAre
  <2>6. CASE c[1] = 0 /\ c[2] \notin KeysOf(acc)
    <3>1. ToSet(l) \cap (Consumed(l, acc) \cap OfCoord(c)) = ToSet(l) \cap OfCoord(c)
      BY <2>6 DEF Consumed, OfCoord
    <3>2. Retain(l, Consumed(l, acc) \cap OfCoord(c)) = Retain(l, OfCoord(c))
      BY <3>1, RetainSame
    <3>3. LineOf(d.c.queue, c) = LineOf(l, c)
      BY <2>4, <2>5, <3>2
    <3> QED BY <1>9, <1>11, <2>1, <2>6, <3>3 DEF RestOf
  <2>7. CASE c[1] = 0 /\ c[2] \in KeysOf(acc)
    <3>1. ToSet(l) \cap (Consumed(l, acc) \cap OfCoord(c)) = ToSet(l) \cap (OfCoord(c) \cap AllReleases)
      <4>1. ToSet(l) \subseteq Wide
        BY EventsWide DEF ToSet
      <4> QED BY <2>7, <4>1 DEF Consumed, OfCoord, AllReleases
    <3>2. Retain(l, Consumed(l, acc) \cap OfCoord(c)) = Retain(l, OfCoord(c) \cap AllReleases)
      BY <3>1, RetainSame
    <3>3. Retain(Retain(l, OfCoord(c)), AllReleases) = Retain(l, OfCoord(c) \cap AllReleases)
      BY RetainTwice
    <3>4. LineOf(d.c.queue, c) = Retain(LineOf(l, c), AllReleases)
      BY <2>4, <2>5, <3>2, <3>3
    <3>5. PICK x \in Seq(Events), y \in Seq(Events) : x = LineOf(g, c) /\ y = LineOf(l, c)
      BY <1>2
    <3>6. Retain(x \o y, AllReleases) = Retain(x, AllReleases) \o Retain(y, AllReleases)
      BY ReleasesConcat
    <3>7. Retain(x, AllReleases) = x
      <4>1. ToSet(x) \subseteq ToSet(g)
        BY <3>5, LineHas
      <4>2. \A e \in ToSet(g) : ~e.press
        BY <1>1, <1>6, LeftIs
      <4>3. ToSet(x) \subseteq AllReleases
        <5>1. ToSet(x) \subseteq Wide
          BY EventsWide DEF ToSet
        <5> QED BY <4>1, <4>2, <5>1 DEF AllReleases
      <4> QED BY <4>3, RetainAll
    <3>8. RestOf(q, opened, c) = Retain(x \o y, AllReleases)
      BY <1>9, <2>1, <2>7, <3>5 DEF RestOf
    <3>9. LineOf(out, c) = x
      BY <1>9, <1>11, <2>7, <3>5
    <3> QED BY <3>4, <3>5, <3>6, <3>7, <3>8, <3>9
  <2> QED BY <2>3, <2>6, <2>7
<1>12. ASSUME NEW D, NEW st, LookedAt(cf, D, layer_, st), opened = st.opened
       PROVE  /\ \A a \in ToSet(opened) : a.chord.keys = KeysOf(st.acc)
              /\ opened # <<>> => ToSet(opened) # {}
  <2>1. PICK possible \in SUBSET Enabled(cf, layer_) :
          Looked(cf, D, possible, RelevantReleases(D.queue),
                 PressesBefore(D.queue, RelevantReleases(D.queue)), st)
    BY <1>12 DEF LookedAt
  <2>2. st \in Looks(cf) /\ \A i \in DOMAIN st.opened : Opens(possible, st.acc, RelevantReleases(D.queue), st.opened[i])
    BY <2>1, Zenon DEF Looked, Sound
  <2>3. opened \in Seq(Actives(cf))
    BY <1>12, <2>2 DEF Looks
  <2>4. opened # <<>> => 1 \in DOMAIN opened
    BY <2>3
  <2> QED BY <1>12, <2>2, <2>4 DEF Opens, ToSet
<1> QED BY <1>4, <1>5, <1>6, <1>10, <1>11, <1>12, Zenon DEF Flows, q

-----------------------------------------------------------------------------
(* The active chords as the filter sees them.                              *)
EndedStatus == {"UnreadReleased", "Released"}
Shown(a) == [chord |-> a.chord, coord |-> a.coord, left |-> a.left, ended |-> a.status \in EndedStatus]
OpenOf(active) == {Shown(a) : a \in ToSet(active)}

LEMMA SameShown ==
    ASSUME NEW a, NEW b, a.chord = b.chord, a.coord = b.coord, a.left = b.left,
           a.status \in EndedStatus <=> b.status \in EndedStatus
    PROVE  Shown(a) = Shown(b)
<1>1. (a.status \in EndedStatus) = (b.status \in EndedStatus)
  OBVIOUS
<1> QED BY <1>1 DEF Shown

LEMMA ShownIs ==
    ASSUME NEW a
    PROVE  /\ Shown(a).chord = a.chord /\ Shown(a).coord = a.coord /\ Shown(a).left = a.left
           /\ Shown(a).ended <=> a.status \in EndedStatus
BY DEF Shown

LEMMA OpenIds == ASSUME NEW q PROVE {o.coord : o \in OpenOf(q)} = Coordinates(q)
<1>1. \A a : Shown(a).coord = a.coord
  BY ShownIs
<1>2. \A n : n \in {o.coord : o \in OpenOf(q)} <=> n \in Coordinates(q)
  BY <1>1 DEF OpenOf, Coordinates
<1> QED BY <1>2

LEMMA FetchShown ==
    ASSUME NEW cf, NEW C \in States(cf), NEW D, Fetches(cf, C, D)
    PROVE  OpenOf(D.active) = OpenOf(C.active)
<1>1. C.active \in Seq(Actives(cf)) /\ \A i \in DOMAIN C.active : C.active[i] \in Actives(cf)
  BY DEF States
<1>2. DOMAIN D.active = DOMAIN C.active
  BY DEF Fetches
<1>3. ASSUME NEW i \in DOMAIN C.active PROVE Shown(D.active[i]) = Shown(C.active[i])
  <2>0. PICK b : b = D.active[i]
    OBVIOUS
  <2>1. PICK a \in Actives(cf) : a = C.active[i] /\ b = D.active[i]
    BY <1>1, <2>0
  <2>2. CASE b = a
    BY <2>1, <2>2
  <2>3. CASE b = [a EXCEPT !.status = IF @ = "Unread" THEN "Releasable" ELSE "Released"]
             /\ a.status \in {"Unread", "UnreadReleased"}
    <3>1. /\ b.chord = a.chord /\ b.coord = a.coord /\ b.left = a.left
          /\ b.status = IF a.status = "Unread" THEN "Releasable" ELSE "Released"
      BY <2>3 DEF Actives
    <3>2. a.status \in EndedStatus <=> b.status \in EndedStatus
      BY <2>3, <3>1 DEF EndedStatus
    <3> QED BY <2>1, <3>1, <3>2, SameShown
  <2>4. UnreadChords(C) # {} /\ i = MinNat(UnreadChords(C)) => a.status \in {"Unread", "UnreadReleased"}
    <3>1. UnreadChords(C) \subseteq Nat
      BY <1>1 DEF UnreadChords
    <3>2. UnreadChords(C) # {} => MinNat(UnreadChords(C)) \in UnreadChords(C)
      BY <3>1, MinNatIs
    <3> QED BY <2>1, <3>2 DEF UnreadChords
  <2>5. b = IF UnreadChords(C) # {} /\ i = MinNat(UnreadChords(C))
            THEN [a EXCEPT !.status = IF @ = "Unread" THEN "Releasable" ELSE "Released"] ELSE a
    BY <2>1, Zenon DEF Fetches
  <2> QED BY <2>2, <2>3, <2>4, <2>5, Zenon
<1>4. \A o : o \in OpenOf(D.active) <=> o \in OpenOf(C.active)
  BY <1>2, <1>3 DEF OpenOf, ToSet
<1> QED BY <1>4

(* A tick opens those chords, and ends or keeps the others.                *)
TickShows(C, D, gone, opened) ==
    /\ {o \in OpenOf(D.active) : o.coord \notin Coordinates(C.active)} = OpenOf(opened)
    /\ OpenOf(D.active) \subseteq {Shown(EndsBy(a, KeysUp(gone))) : a \in ToSet(C.active)} \cup OpenOf(opened)
    /\ \A a \in ToSet(C.active) :
         \/ Shown(EndsBy(a, KeysUp(gone))) \in OpenOf(D.active)
         \/ EndsBy(a, KeysUp(gone)).status = "Released" /\ a.coord \notin Coordinates(D.active)

LEMMA TickShown ==
    ASSUME NEW cf, IsConfig(cf), NEW C \in States(cf), Roomy(cf, C), NoTwins(C.active),
           NEW A, A \in States(cf), A.active = C.active, A.next = C.next, Len(A.queue) = Len(C.queue),
           NEW d, NEW out, NEW gone, NEW opened, Drains(cf, A, d, out, gone, opened),
           NEW B \in States(cf), B.active = Stay(d.c.active), NEW D, Fetches(cf, B, D), d.c \in States(cf)
    PROVE  TickShows(C, D, gone, opened)
<1> DEFINE all == d.c.active
           ended == EndByReleases(A.active, gone)
<1>1. /\ C.active \in Seq(Actives(cf)) /\ all \in Seq(Actives(cf))
  BY DEF States
<1>2. /\ gone \in Seq(Events) /\ opened \in Seq(Actives(cf)) /\ all = ended \o opened
      /\ \A i \in DOMAIN opened : opened[i].status \in {"Unread", "UnreadReleased"}
  BY DEF Drains
<1>3. PICK e : e = ended
  OBVIOUS
<1>4. /\ e \in Seq(Actives(cf)) /\ DOMAIN e = DOMAIN C.active
      /\ \A i \in DOMAIN e : e[i] = EndsBy(C.active[i], KeysUp(gone))
  BY <1>1, <1>2, <1>3, EndedActives
<1>5. Coordinates(e) = Coordinates(C.active)
  BY <1>1, <1>2, <1>3, EndedParts
<1>6. ToSet(e) = {EndsBy(a, KeysUp(gone)) : a \in ToSet(C.active)}
  BY <1>4 DEF ToSet
<1>7. NoTwins(all) /\ Coordinates(opened) \cap Coordinates(C.active) = {}
  BY OpenedApart
<1>8. ToSet(all) = ToSet(e) \cup ToSet(opened)
  <2>1. \A x, y \in Seq(Actives(cf)) : ToSet(x \o y) = ToSet(x) \cup ToSet(y)
    BY ConcatParts
  <2> QED BY <1>2, <1>3, <1>4, <2>1, Zenon
<1> HIDE DEF all, ended
<1>9. ToSet(opened) \cap Over(all) = {} /\ Over(all) = {a \in ToSet(all) : a.status = "Released"}
  BY <1>2 DEF ToSet, Over
<1>10. /\ ToSet(Stay(all)) = ToSet(all) \ Over(all)
       /\ Coordinates(Stay(all)) \cap OverCoords(all) = {} /\ NoTwins(Stay(all))
  BY <1>1, <1>7, StayParts
<1>11. B.active = Stay(all)
  BY DEF all
<1>12. OpenOf(D.active) = {Shown(a) : a \in ToSet(all) \ Over(all)}
  <2>1. OpenOf(D.active) = OpenOf(B.active)
    BY FetchShown
  <2> QED BY <1>10, <1>11, <2>1 DEF OpenOf
<1>13. Coordinates(D.active) = Coordinates(B.active)
  BY <1>10, <1>11, FetchParts
<1>14. {o \in OpenOf(D.active) : o.coord \notin Coordinates(C.active)} = OpenOf(opened)
  <2>1. \A a \in ToSet(e) : a.coord \in Coordinates(C.active)
    BY <1>5 DEF Coordinates
  <2>2. \A a \in ToSet(opened) : a.coord \notin Coordinates(C.active) /\ a \in ToSet(all) \ Over(all)
    BY <1>7, <1>8, <1>9 DEF Coordinates
  <2>3. \A a : Shown(a).coord = a.coord
    BY ShownIs
  <2>4. \A o : o \in OpenOf(D.active) /\ o.coord \notin Coordinates(C.active) <=> o \in OpenOf(opened)
    BY <1>8, <1>12, <2>1, <2>2, <2>3 DEF OpenOf
  <2> QED BY <2>4
<1>15. ASSUME NEW a \in ToSet(C.active)
       PROVE  \/ Shown(EndsBy(a, KeysUp(gone))) \in OpenOf(D.active)
              \/ EndsBy(a, KeysUp(gone)).status = "Released" /\ a.coord \notin Coordinates(D.active)
  <2>1. PICK b : b = EndsBy(a, KeysUp(gone))
    OBVIOUS
  <2>2. b \in ToSet(all)
    BY <1>6, <1>8, <2>1
  <2>3. CASE b \notin Over(all)
    BY <1>12, <2>1, <2>2, <2>3
  <2>4. CASE b \in Over(all)
    <3>1. b.status = "Released" /\ b.coord \in OverCoords(all)
      BY <1>9, <2>4 DEF OverCoords
    <3>2. b.coord = a.coord
      <4>1. a \in Actives(cf)
        BY <1>1 DEF ToSet
      <4> QED BY <2>1, <4>1, EndsByIs
    <3> QED BY <1>10, <1>11, <1>13, <2>1, <3>1, <3>2
  <2> QED BY <2>3, <2>4
<1>16. OpenOf(D.active) \subseteq {Shown(EndsBy(a, KeysUp(gone))) : a \in ToSet(C.active)} \cup OpenOf(opened)
  BY <1>6, <1>8, <1>12 DEF OpenOf
<1> QED BY <1>14, <1>15, <1>16 DEF TickShows

-----------------------------------------------------------------------------
(* A chord opens only for presses that came close together, where it is    *)
(* enabled; ended at once only if a release still waits.                   *)
CloseIn(q, keys, time) ==
    \A k1, k2 \in keys : \E e1, e2 \in ToSet(q) :
        /\ e1.press /\ e1.coord = <<0, k1>> /\ e2.press /\ e2.coord = <<0, k2>>
        /\ e1.since - e2.since <= time
Allowed(cf, layer_, q, q1, a) ==
    /\ layer_ \notin a.chord.disabled
    /\ \E ch \in cf.chords : a.chord.keys \subseteq ch.keys /\ CloseIn(q, a.chord.keys, ch.pending)
    /\ a.left = IF a.chord.release = "all" THEN a.chord.keys ELSE {}
    /\ a.status \in EndedStatus => a.chord.release = "first" /\ \E e \in ToSet(q1) : ~e.press

(* The events that are looked at are a tick older than those of the queue. *)
LEMMA LeftOlder ==
    ASSUME NEW q \in Seq(Events), NEW cap \in Nat, \A e \in ToSet(q) : e.since < cap,
           NEW x \in ToSet(Left(AgeQueue(q, cap)))
    PROVE  \E e \in ToSet(q) : /\ e.press = x.press /\ e.coord = x.coord /\ e.since + 1 = x.since
                               /\ x.coord[1] = 0 /\ x.coord = <<0, x.coord[2]>> /\ e \in Events
<1>1. PICK a \in Seq(Events) : a = AgeQueue(q, cap)
  BY Aged
<1>2. x \in ToSet(a) /\ x.coord[1] = 0
  <2>1. x \in RealInputs(a)
    BY <1>1, LeftIs
  <2> QED BY <2>1 DEF RealInputs
<1>3. PICK i \in DOMAIN a : x = a[i]
  BY <1>2 DEF ToSet
<1>4. i \in DOMAIN q /\ a[i] = Older(q[i], cap)
  <2>1. DOMAIN AgeQueue(q, cap) = DOMAIN q
    BY Aged
  <2>2. \A n \in DOMAIN q : AgeQueue(q, cap)[n] = Older(q[n], cap)
    BY Aged DEF Older
  <2> QED BY <1>1, <1>3, <2>1, <2>2
<1>5. PICK e \in Events : e = q[i] /\ e \in ToSet(q)
  <2>1. q[i] \in Events
    BY <1>4, SeqHas, Zenon
  <2>2. q[i] \in ToSet(q)
    BY <1>4 DEF ToSet
  <2> QED BY <2>1, <2>2
<1>6. x.press = e.press /\ x.coord = e.coord /\ x.since = e.since + 1
  <2>1. e.since < cap
    BY <1>5
  <2> QED BY <1>3, <1>4, <1>5, <2>1, OlderIs
<1>7. x.coord = <<x.coord[1], x.coord[2]>>
  <2>1. e.coord \in Coords
    BY <1>5 DEF Events
  <2> QED BY <1>6, <2>1, KeysAreCodes
<1> QED BY <1>2, <1>5, <1>6, <1>7

LEMMA CloseTogether ==
    ASSUME NEW acc \in Seq(Events), Sorted(acc), acc # <<>>, NEW time \in Nat,
           acc[1].since - acc[Len(acc)].since <= time, NEW x \in ToSet(acc), NEW y \in ToSet(acc)
    PROVE  x.since - y.since <= time
<1>1. PICK i \in DOMAIN acc, j \in DOMAIN acc : x = acc[i] /\ y = acc[j]
  BY DEF ToSet
<1>2. DOMAIN acc = 1..Len(acc) /\ Len(acc) \in Nat /\ 1 \in DOMAIN acc /\ Len(acc) \in DOMAIN acc
  OBVIOUS
<1>3. 1 <= i /\ j <= Len(acc)
  BY <1>2
<1>4. acc[i].since <= acc[1].since /\ acc[Len(acc)].since <= acc[j].since
  BY <1>2, <1>3 DEF Sorted
<1>5. \A e \in Events : e.since \in Nat
  BY DEF Events
<1>6. PICK a \in Nat, b \in Nat, s \in Nat, t \in Nat :
        a = acc[1].since /\ b = acc[Len(acc)].since /\ s = x.since /\ t = y.since
  <2>1. acc[1] \in Events /\ acc[Len(acc)] \in Events /\ x \in Events /\ y \in Events
    BY <1>1, <1>2
  <2> QED BY <1>5, <2>1
<1>7. s <= a /\ b <= t /\ a - b <= time
  BY <1>1, <1>4, <1>6
<1>8. s - t <= time
  BY <1>7
<1> QED BY <1>6, <1>8

LEMMA OpensRight ==
    ASSUME NEW cf, IsConfig(cf), NEW q \in Seq(Events), Sorted(q), NEW cap \in Nat,
           \A e \in ToSet(q) : e.since < cap, NEW layer_, NEW L, L = Left(AgeQueue(q, cap)),
           NEW D, D.queue = L, NEW st, LookedAt(cf, D, layer_, st), NEW a \in ToSet(st.opened)
    PROVE  Allowed(cf, layer_, q, Retain(L, Consumed(L, st.acc)), a)
<1> DEFINE ups == RelevantReleases(L)
           s == PressesBefore(L, ups)
<1>1. PICK possible \in SUBSET Enabled(cf, layer_) : Looked(cf, D, possible, ups, s, st)
  BY DEF LookedAt
<1>2. L \in Seq(Events) /\ Sorted(L)
  <2>1. PICK q1 \in Seq(Events) : q1 = AgeQueue(q, cap) /\ Sorted(q1)
    BY Aged, AgedSorted
  <2> QED BY <2>1, LeftIs
<1>3. s \in Seq(Events) /\ ToSet(s) \subseteq {e \in ToSet(L) : e.press} /\ Sorted(s)
  BY <1>2, PressesBeforeIs
<1> HIDE DEF s
<1>4. /\ st \in Looks(cf) /\ Begins(st.acc, s) /\ InTime(possible, st.acc)
      /\ \A i \in DOMAIN st.opened : Opens(possible, st.acc, ups, st.opened[i])
  BY <1>1, Zenon DEF Looked, Sound
<1>5. PICK acc \in Seq(Events) : acc = st.acc
  BY <1>4 DEF Looks
<1>6. Opens(possible, acc, ups, a)
  BY <1>4, <1>5 DEF ToSet
<1>7. a.chord \in possible /\ a.chord.keys = KeysOf(acc) /\ a = GetActiveChord(a.chord, a.coord, ups)
  BY <1>6 DEF Opens
<1>8. a.chord \in cf.chords /\ layer_ \notin a.chord.disabled /\ possible \subseteq cf.chords
  BY <1>7 DEF Enabled
<1>9. acc # <<>>
  <2>1. KeysOf(acc) # {}
    BY <1>7, <1>8, ConfigIs
  <2> QED BY <2>1 DEF KeysOf
<1>10. \A i \in DOMAIN acc : i \in DOMAIN s /\ acc[i] = s[i]
  BY <1>3, <1>4, <1>5 DEF Begins
<1>11. Sorted(acc) /\ ToSet(acc) \subseteq ToSet(s)
  BY <1>3, <1>10 DEF Sorted, ToSet
<1>12. PICK ch \in possible : KeysOf(acc) \subseteq ch.keys /\ acc[1].since - acc[Len(acc)].since <= ch.pending
  BY <1>4, <1>5, <1>9 DEF InTime
<1>13. ch \in cf.chords /\ ch.pending \in Nat
  BY <1>8, <1>12, LongestIs
<1>14. CloseIn(q, a.chord.keys, ch.pending)
  <2>1. ASSUME NEW k \in a.chord.keys PROVE \E x \in ToSet(acc) : x.coord[2] = k
    BY <1>7, <2>1 DEF KeysOf, ToSet
  <2>2. ASSUME NEW x \in ToSet(acc)
        PROVE  \E e \in ToSet(q) : /\ e.press /\ e.coord = <<0, x.coord[2]>> /\ e.since + 1 = x.since
                                   /\ e.since \in Nat
    <3>1. x \in ToSet(L) /\ x.press
      BY <1>3, <1>11
    <3>2. PICK e \in ToSet(q) : /\ e.press = x.press /\ e.coord = x.coord /\ e.since + 1 = x.since
                                /\ x.coord = <<0, x.coord[2]>> /\ e \in Events
      BY <3>1, LeftOlder
    <3> QED BY <3>1, <3>2 DEF Events
  <2>3. ASSUME NEW k1 \in a.chord.keys, NEW k2 \in a.chord.keys
        PROVE  \E e1, e2 \in ToSet(q) : /\ e1.press /\ e1.coord = <<0, k1>> /\ e2.press /\ e2.coord = <<0, k2>>
                                        /\ e1.since - e2.since <= ch.pending
    <3>1. PICK x \in ToSet(acc), y \in ToSet(acc) : x.coord[2] = k1 /\ y.coord[2] = k2
      BY <2>1
    <3>2. x.since - y.since <= ch.pending
      BY <1>9, <1>11, <1>12, <1>13, CloseTogether
    <3>3. PICK e1 \in ToSet(q) : e1.press /\ e1.coord = <<0, k1>> /\ e1.since + 1 = x.since /\ e1.since \in Nat
      BY <2>2, <3>1
    <3>4. PICK e2 \in ToSet(q) : e2.press /\ e2.coord = <<0, k2>> /\ e2.since + 1 = y.since /\ e2.since \in Nat
      BY <2>2, <3>1
    <3>5. e1.since - e2.since <= ch.pending
      BY <1>13, <3>2, <3>3, <3>4
    <3> QED BY <3>3, <3>4, <3>5
  <2> QED BY <2>3 DEF CloseIn
<1>15. PICK n \in 0..(cf.NumCoords - 1) : n = a.coord
  <2>1. a \in Actives(cf)
    BY <1>4 DEF Looks, ToSet
  <2> QED BY <2>1, ActiveIs
<1>16. /\ a.left = IF a.chord.release = "all" THEN a.chord.keys ELSE {}
       /\ a.status = IF ups # {} /\ a.chord.release = "first" THEN "UnreadReleased" ELSE "Unread"
  BY <1>7, <1>8, <1>15, GetActiveChordIs
<1>17. ASSUME a.status \in EndedStatus
       PROVE  a.chord.release = "first" /\ \E e \in ToSet(Retain(L, Consumed(L, st.acc))) : ~e.press
  <2>1. ups # {} /\ a.chord.release = "first"
    BY <1>16, <1>17 DEF EndedStatus
  <2>2. PICK i \in DOMAIN L : ~L[i].press
    BY <2>1 DEF RelevantReleases
  <2>3. L[i] \in ToSet(L)
    BY DEF ToSet
  <2>4. L[i] \in Consumed(L, st.acc)
    BY <2>2, <2>3 DEF Consumed
  <2>5. L[i] \in ToSet(Retain(L, Consumed(L, st.acc)))
    BY <1>2, <2>3, <2>4, RetainIn
  <2> QED BY <2>1, <2>2, <2>5
<1>18. \E c1 \in cf.chords : a.chord.keys \subseteq c1.keys /\ CloseIn(q, a.chord.keys, c1.pending)
  BY <1>7, <1>12, <1>13, <1>14
<1> QED BY <1>8, <1>16, <1>17, <1>18 DEF Allowed

-----------------------------------------------------------------------------
(* What is held after the layout got a list of events: the last event of   *)
(* each coordinate tells.                                                  *)
HeldAfter(held, q) ==
    {c \in Coords : LET l == Retain(q, OfCoord(c))
                    IN  IF l = <<>> THEN c \in held ELSE l[Len(l)].press}

LEMMA HeldIs ==
    ASSUME NEW held, NEW q, NEW c \in Coords, NEW l, l = Retain(q, OfCoord(c))
    PROVE  /\ l = <<>> => (c \in HeldAfter(held, q) <=> c \in held)
           /\ l # <<>> => (c \in HeldAfter(held, q) <=> l[Len(l)].press)
BY DEF HeldAfter

LEMMA ForwardIs ==
    ASSUME NEW q \in Seq(Wide), NEW held, held \subseteq Coords
    PROVE  FoldLeft(Forward, held, q) = HeldAfter(held, q)
<1> DEFINE Good == {s \in Seq(Wide) : FoldLeft(Forward, held, s) = HeldAfter(held, s)}
<1>1. <<>> \in Good
  <2>1. \A c \in Coords : Retain(<<>>, OfCoord(c)) = <<>>
    BY RetainEmpty
  <2>2. HeldAfter(held, <<>>) = held
    BY <2>1, HeldIs DEF HeldAfter
  <2>3. <<>> \in Seq(Wide)
    OBVIOUS
  <2> QED BY <2>2, <2>3, ForwardEmpty
<1>2. ASSUME NEW s \in Seq(Wide), NEW e \in Wide, s \in Good PROVE Append(s, e) \in Good
  <2> DEFINE t == Append(s, e)
  <2>1. PICK before : before = FoldLeft(Forward, held, s)
    OBVIOUS
  <2>2. before = HeldAfter(held, s)
    BY <1>2, <2>1
  <2>3. FoldLeft(Forward, held, t) = Forward(before, e)
    BY <2>1, ForwardAppend
  <2>4. t \in Seq(Wide)
    OBVIOUS
  <2> HIDE DEF t
  <2>5. ASSUME NEW c \in Coords PROVE c \in Forward(before, e) <=> c \in HeldAfter(held, t)
    <3>1. PICK l \in Seq(Wide) : l = Retain(s, OfCoord(c))
      BY RetainIn
    <3>2. Retain(t, OfCoord(c)) = IF e \in OfCoord(c) THEN Append(l, e) ELSE l
      BY <3>1, RetainAppend DEF t
    <3>3. CASE e.coord # c
      <4>1. Retain(t, OfCoord(c)) = l
        BY <3>2, <3>3 DEF OfCoord
      <4>2. c \in HeldAfter(held, t) <=> c \in before
        BY <2>2, <3>1, <4>1, HeldIs
      <4>3. c \in Forward(before, e) <=> c \in before
        BY <3>3 DEF Forward
      <4> QED BY <4>2, <4>3
    <3>4. CASE e.coord = c
      <4>1. PICK k : k = Append(l, e)
        OBVIOUS
      <4>2. Retain(t, OfCoord(c)) = k /\ k # <<>> /\ k[Len(k)] = e
        <5>1. e \in OfCoord(c)
          BY <3>4 DEF OfCoord
        <5>2. k # <<>> /\ k[Len(k)] = e
          BY <4>1
        <5> QED BY <3>2, <4>1, <5>1, <5>2, Zenon
      <4>3. c \in HeldAfter(held, t) <=> e.press
        BY <4>2, HeldIs
      <4>4. c \in Forward(before, e) <=> e.press
        BY <3>4 DEF Forward
      <4> QED BY <4>3, <4>4
    <3> QED BY <3>3, <3>4
  <2>6. Forward(before, e) \subseteq Coords /\ HeldAfter(held, t) \subseteq Coords
    <3>1. before \subseteq Coords
      BY <2>2 DEF HeldAfter
    <3> QED BY <3>1 DEF HeldAfter, Forward
  <2>7. Forward(before, e) = HeldAfter(held, t)
    BY <2>5, <2>6
  <2> QED BY <2>3, <2>4, <2>7 DEF t
<1> HIDE DEF Good
<1>3. q \in Good
  BY <1>1, <1>2, EveryList
<1> QED BY <1>3 DEF Good

LEMMA WideConcat ==
    \A kept : \A s, t \in Seq(Wide) : Retain(s \o t, kept) = Retain(s, kept) \o Retain(t, kept)
BY RetainConcat

LEMMA GivenLine ==
    ASSUME NEW cf, IsConfig(cf), NEW d, d.c.active \in Seq(Actives(cf)), NEW out \in Seq(Events), NEW q,
           Given(d, out, q), NEW c \in Coords
    PROVE  Retain(q, OfCoord(c)) = LineOf(out, c)
<1>1. PICK trig \in Seq(TriggerEvents) : q = (out \o trig) \o ReleasesOf(Done(d.c.active))
  BY DEF Given
<1>2. PICK x \in Seq(Wide), y \in Seq(Wide) : x = out /\ y = trig
  BY WideAre
<1>3. PICK over \in Seq(Actives(cf)) : over = Done(d.c.active)
  BY RetainIn DEF Done
<1>4. PICK rel \in Seq(Wide) : rel = ReleasesOf(over)
  BY ReleasesOfIs
<1>5. PICK kept : kept = OfCoord(c)
  OBVIOUS
<1>6. Retain(x \o y, kept) = Retain(x, kept) \o Retain(y, kept)
  BY WideConcat
<1>7. PICK xy \in Seq(Wide) : xy = x \o y
  BY ConcatProperties
<1>8. Retain(xy \o rel, kept) = Retain(xy, kept) \o Retain(rel, kept)
  BY WideConcat
<1>9. Retain(y, kept) = <<>>
  <2>1. ASSUME NEW e \in ToSet(y) PROVE e \notin kept
    <3>1. e \in TriggerEvents
      BY <1>2 DEF ToSet
    <3>2. e.coord = TriggerTapHold /\ c # TriggerTapHold
      BY <3>1, WideAre, KeysAreCodes
    <3> QED BY <1>5, <3>2 DEF OfCoord
  <2>2. ToSet(y) \cap kept = {}
    BY <2>1
  <2> QED BY <2>2, RetainNone
<1>10. Retain(rel, kept) = <<>>
  <2>1. \A a \in ToSet(over) : ReleaseOf(a).coord \notin Coords
    BY ReleasesOfIs
  <2>2. ToSet(rel) = {ReleaseOf(a) : a \in ToSet(over)}
    BY <1>4, ReleasesOfIs
  <2>3. ToSet(rel) \cap kept = {}
    BY <1>5, <2>1, <2>2 DEF OfCoord
  <2> QED BY <2>3, RetainNone
<1>11. PICK l \in Seq(Wide) : l = Retain(x, kept)
  BY RetainIn
<1>12. (l \o <<>>) \o <<>> = l
  OBVIOUS
<1>13. l = LineOf(out, c)
  BY <1>2, <1>5, <1>11, LineIs
<1> QED BY <1>1, <1>2, <1>3, <1>4, <1>5, <1>6, <1>7, <1>8, <1>9, <1>10, <1>11, <1>12, <1>13

-----------------------------------------------------------------------------
(* The releases of a chord's keys that leave are those that end it.        *)
ReleasedBy(keys, out) == {k \in keys : \E e \in ToSet(out) : ~e.press /\ e.coord = <<0, k>>}

LEMMA ReleasesLeave ==
    ASSUME NEW cf, IsConfig(cf), NEW A \in States(cf), NEW layer_, NEW d, NEW out, NEW gone, NEW opened,
           Flows(cf, A, layer_, d, out, gone, opened), NEW keys,
           \A e \in ToSet(A.queue) : e.coord[2] \in keys => e.coord[1] = 0
    PROVE  ReleasedBy(keys, out) = keys \cap KeysUp(gone)
<1> DEFINE q == A.queue
<1>1. q \in Seq(Events)
  BY DEF States
<1>2. \A e \in Events : e.coord = <<e.coord[1], e.coord[2]>>
  BY KeysAreCodes DEF Events
<1>3. ASSUME NEW s \in Seq(Events), \A e \in ToSet(s) : e.coord[2] \in keys => e.coord[1] = 0
      PROVE  ReleasedBy(keys, s) = keys \cap KeysUp(s)
  <2>1. \A e \in ToSet(s) : e.coord = <<e.coord[1], e.coord[2]>>
    BY <1>2 DEF ToSet
  <2>2. ASSUME NEW k \in keys PROVE k \in ReleasedBy(keys, s) <=> k \in KeysUp(s)
    <3>1. ASSUME NEW e \in ToSet(s), ~e.press, e.coord = <<0, k>> PROVE k \in KeysUp(s)
      BY <3>1 DEF KeysUp
    <3>2. ASSUME NEW e \in ToSet(s), ~e.press, k = e.coord[2] PROVE k \in ReleasedBy(keys, s)
      <4>1. e.coord = <<0, k>>
        BY <1>3, <2>1, <3>2
      <4> QED BY <3>2, <4>1 DEF ReleasedBy
    <3> QED BY <3>1, <3>2 DEF KeysUp, ReleasedBy
  <2> QED BY <2>2 DEF ReleasedBy
<1>4. ASSUME out = q, gone = q PROVE ReleasedBy(keys, out) = keys \cap KeysUp(gone)
  BY <1>1, <1>3, <1>4
<1>5. ASSUME out = <<>>, gone = <<>> PROVE ReleasedBy(keys, out) = keys \cap KeysUp(gone)
  <2>1. ToSet(<<>>) = {}
    BY ToSetEmpty
  <2> QED BY <1>5, <2>1 DEF ReleasedBy, KeysUp
<1>6. ASSUME out = Virtuals(q) \o Gone(q), gone = Gone(q)
      PROVE  ReleasedBy(keys, out) = keys \cap KeysUp(gone)
  <2>1. PICK v \in Seq(Events), g \in Seq(Events) :
          /\ v = Virtuals(q) /\ g = Gone(q) /\ ToSet(g) \subseteq RealInputs(q)
          /\ ToSet(v) \subseteq ToSet(q) \ RealInputs(q)
    <3>1. ToSet(Virtuals(q)) \subseteq ToSet(q) \ RealInputs(q)
      BY <1>1, RetainIn DEF Virtuals
    <3>2. Virtuals(q) \in Seq(Events) /\ Gone(q) \in Seq(Events) /\ ToSet(Gone(q)) \subseteq RealInputs(q)
      BY <1>1, LeftIs
    <3> QED BY <3>1, <3>2
  <2>2. ToSet(v \o g) = ToSet(v) \cup ToSet(g)
    BY ConcatParts
  <2>3. \A e \in ToSet(v) : e.coord[1] # 0
    BY <2>1 DEF RealInputs
  <2>4. \A e \in ToSet(g) : e.coord[1] = 0
    BY <2>1 DEF RealInputs
  <2>5. ReleasedBy(keys, out) = ReleasedBy(keys, g)
    BY <1>6, <2>1, <2>2, <2>3 DEF ReleasedBy
  <2>6. ReleasedBy(keys, g) = keys \cap KeysUp(g)
    BY <1>3, <2>4
  <2> QED BY <1>6, <2>1, <2>5, <2>6
<1> QED BY <1>4, <1>5, <1>6, Zenon DEF Flows, q

(* How an active chord ends, as the filter sees it.                        *)
EndsAs(a, b, R) ==
    /\ b.chord = a.chord /\ b.coord = a.coord /\ b.left = a.left \ R
    /\ b.status \in EndedStatus <=>
           \/ a.status \in EndedStatus
           \/ R # {} /\ (a.chord.release = "first" \/ a.left \subseteq R)

LEMMA EndsShown ==
    ASSUME NEW cf, NEW a \in Actives(cf), a.chord.release = "first" => a.left = {}, NEW J
    PROVE  EndsAs(a, EndsBy(a, J), a.chord.keys \cap J)
<1>0. PICK R, b : R = a.chord.keys \cap J /\ b = EndsBy(a, J)
  OBVIOUS
<1>1. a.left \subseteq a.chord.keys /\ a.status \in Statuses
  BY ActiveIs
<1>2. /\ b.chord = a.chord /\ b.coord = a.coord /\ b.left = a.left \ J
      /\ b.status = IF a.chord.keys \cap J # {} /\ a.left \ J = {} THEN Ended(a.status) ELSE a.status
  BY <1>0, EndsByIs
<1>3. a.left \ J = a.left \ R
  BY <1>0, <1>1
<1>4. a.left \ J = {} <=> a.left \subseteq R
  BY <1>0, <1>1
<1>5. Ended(a.status) \in EndedStatus
  BY DEF Ended, EndedStatus
<1>6. a.chord.release = "first" => a.left \subseteq R
  OBVIOUS
<1>7. EndsAs(a, b, R)
  BY <1>0, <1>2, <1>3, <1>4, <1>5, <1>6 DEF EndsAs
<1> QED BY <1>0, <1>7, Zenon

-----------------------------------------------------------------------------
(* A tick, line by line.                                                   *)
Clear(cf, C, cap) ==
    /\ Sorted(C.queue) /\ \A e \in ToSet(C.queue) : e.since < cap
    /\ \A e \in ToSet(C.queue), ch \in cf.chords : e.coord[2] \in ch.keys => e.coord[1] = 0
    /\ \A a \in ToSet(C.active) : a.chord.release = "first" => a.left = {}
Lines(C, D, cap, out, opened) ==
    \A c \in Coords : RestOf(AgeQueue(C.queue, cap), opened, c) = LineOf(out, c) \o LineOf(D.queue, c)
HeldNow(held, held1, out) ==
    /\ held1 \subseteq Coords
    /\ \A c \in Coords : /\ LineOf(out, c) = <<>> => (c \in held1 <=> c \in held)
                         /\ LineOf(out, c) # <<>> => (c \in held1 <=> LineOf(out, c)[Len(LineOf(out, c))].press)
Filters(cf, layer_, C, D, cap, out, gone, opened) ==
    /\ out \in Seq(Events) /\ opened \in Seq(Actives(cf)) /\ D.queue \in Seq(Events)
    /\ TickShows(C, D, gone, opened) /\ Lines(C, D, cap, out, opened)
    /\ \A a \in ToSet(opened) : Allowed(cf, layer_, C.queue, D.queue, a)
    /\ \A a \in ToSet(C.active) : ReleasedBy(a.chord.keys, out) = a.chord.keys \cap KeysUp(gone)
    /\ \A e \in ToSet(D.queue) : \E f \in ToSet(C.queue) : e.coord = f.coord

LEMMA HeldThen ==
    ASSUME NEW cf, IsConfig(cf), NEW d, d.c.active \in Seq(Actives(cf)), NEW out \in Seq(Events), NEW q,
           Given(d, out, q), NEW held, held \subseteq Coords
    PROVE  HeldNow(held, FoldLeft(Forward, held, q), out)
<1>1. q \in Seq(Wide)
  BY DEF Given
<1>2. PICK held1 : held1 = FoldLeft(Forward, held, q) /\ held1 = HeldAfter(held, q)
  BY <1>1, ForwardIs
<1>3. held1 \subseteq Coords
  BY <1>2 DEF HeldAfter
<1>4. ASSUME NEW c \in Coords, NEW l, l = LineOf(out, c)
      PROVE  /\ l = <<>> => (c \in held1 <=> c \in held)
             /\ l # <<>> => (c \in held1 <=> l[Len(l)].press)
  <2>1. l = Retain(q, OfCoord(c))
    BY <1>4, GivenLine
  <2> QED BY <1>2, <2>1, HeldIs
<1> QED BY <1>2, <1>3, <1>4 DEF HeldNow

LEMMA TickFilters ==
    ASSUME NEW cf, IsConfig(cf), NEW C \in States(cf), Roomy(cf, C), NoTwins(C.active),
           NEW cap \in Nat, Clear(cf, C, cap), NEW layer_ \in cf.layers,
           NEW r, r = TickChv2(cf, C, layer_, cap), NEW D, D = GetActionChv2(r.c),
           NEW held, held \subseteq Coords
    PROVE  \E out, gone, opened : /\ Filters(cf, layer_, C, D, cap, out, gone, opened)
                                  /\ HeldNow(held, FoldLeft(Forward, held, r.q), out)
<1>1. PICK A : A = [C EXCEPT !.queue = AgeQueue(C.queue, cap)]
  OBVIOUS
<1>2. PICK d : d = DrainInputs(cf, A, layer_)
  OBVIOUS
<1>3. Moved(cf, C, AgeQueue(C.queue, cap), C.active, A) /\ DrainedBy(cf, A, layer_, d) /\ TickedBy(cf, d, r)
  BY <1>1, <1>2, TickIs
<1>4. A \in States(cf) /\ A.active = C.active /\ A.next = C.next /\ A.queue = AgeQueue(C.queue, cap)
  BY <1>3 DEF Moved
<1>5. /\ Len(A.queue) + Len(A.active) + 2 <= SmolLen /\ Len(A.queue) <= SmolLen
      /\ Len(A.queue) + 1 < cf.NumCoords /\ Len(A.queue) = Len(C.queue)
  BY <1>3, RoomyIs
<1>6. PICK out, gone, opened : /\ Drains(cf, A, d, out, gone, opened)
                               /\ Flows(cf, A, layer_, d, out, gone, opened)
  BY <1>3, <1>4, <1>5, DrainsIs
<1>7. d.c \in States(cf) /\ r.c \in States(cf) /\ r.c.active = Stay(d.c.active) /\ Told(d, r.q)
      /\ r.c.queue = d.c.queue
  BY <1>3 DEF TickedBy
<1>8. Fetches(cf, r.c, D)
  BY <1>7, GetActionIs
<1>9. D.queue = d.c.queue /\ D.queue \in Seq(Events)
  BY <1>7, <1>8 DEF Fetches, Moved, States
<1>10. out \in Seq(Events) /\ opened \in Seq(Actives(cf)) /\ d.c.active \in Seq(Actives(cf))
  BY <1>6, <1>7 DEF Drains, States
<1>11. TickShows(C, D, gone, opened)
  BY <1>4, <1>5, <1>6, <1>7, <1>8, TickShown
<1>12. Lines(C, D, cap, out, opened)
  <2>1. ASSUME NEW c \in Coords
        PROVE  RestOf(A.queue, opened, c) = LineOf(out, c) \o LineOf(d.c.queue, c)
    BY <1>4, <1>6, FlowLine
  <2> QED BY <1>4, <1>9, <2>1 DEF Lines
<1>13. /\ C.queue \in Seq(Events) /\ Sorted(C.queue) /\ \A e \in ToSet(C.queue) : e.since < cap
       /\ C.active \in Seq(Actives(cf))
  BY DEF Clear, States
<1>14. ASSUME NEW a \in ToSet(opened) PROVE Allowed(cf, layer_, C.queue, D.queue, a)
  <2>1. opened # <<>>
    BY <1>14, ToSetEmpty
  <2>2. PICK L : L = Left(AgeQueue(C.queue, cap))
    OBVIOUS
  <2>3. \E D1, st : /\ D1.queue = L /\ LookedAt(cf, D1, layer_, st) /\ opened = st.opened
                    /\ d.c.queue = Retain(L, Consumed(L, st.acc))
    BY <1>4, <1>6, <2>1, <2>2, Zenon DEF Flows
  <2>4. PICK D1, st : /\ D1.queue = L /\ LookedAt(cf, D1, layer_, st) /\ opened = st.opened
                      /\ d.c.queue = Retain(L, Consumed(L, st.acc))
    BY <2>3
  <2>5. Allowed(cf, layer_, C.queue, Retain(L, Consumed(L, st.acc)), a)
    BY <1>13, <1>14, <2>2, <2>4, OpensRight
  <2> QED BY <1>9, <2>4, <2>5
<1>15. ASSUME NEW e \in ToSet(A.queue) PROVE \E f \in ToSet(C.queue) : e.coord = f.coord
  <2>1. DOMAIN AgeQueue(C.queue, cap) = DOMAIN C.queue
    BY <1>13, Aged
  <2>2. \A i \in DOMAIN C.queue : AgeQueue(C.queue, cap)[i].coord = C.queue[i].coord
    BY <1>13, Aged
  <2> QED BY <1>4, <2>1, <2>2 DEF ToSet
<1>16. ASSUME NEW a \in ToSet(C.active)
       PROVE  ReleasedBy(a.chord.keys, out) = a.chord.keys \cap KeysUp(gone)
  <2>1. a.chord \in cf.chords
    <3>1. a \in Actives(cf)
      BY <1>13 DEF ToSet
    <3> QED BY <3>1, ActiveIs
  <2>2. PICK keys : keys = a.chord.keys
    OBVIOUS
  <2>3. \A e \in ToSet(A.queue) : e.coord[2] \in keys => e.coord[1] = 0
    BY <1>15, <2>1, <2>2 DEF Clear
  <2>4. ReleasedBy(keys, out) = keys \cap KeysUp(gone)
    BY <1>4, <1>6, <2>3, ReleasesLeave
  <2> QED BY <2>2, <2>4
<1>17. ToSet(D.queue) \subseteq ToSet(A.queue)
  <2>1. A.queue \in Seq(Events) /\ ToSet(<<>>) = {}
    BY <1>4, ToSetEmpty DEF States
  <2>2. ToSet(Left(A.queue)) \subseteq ToSet(A.queue) /\ Left(A.queue) \in Seq(Events)
    BY <2>1, LeftIs DEF RealInputs
  <2>3. \A kept : ToSet(Retain(Left(A.queue), kept)) \subseteq ToSet(A.queue)
    BY <2>2, RetainIn
  <2>4. \/ d.c.queue = <<>> \/ d.c.queue = A.queue \/ d.c.queue = Left(A.queue)
        \/ \E kept : d.c.queue = Retain(Left(A.queue), kept)
    BY <1>6, Zenon DEF Flows
  <2> QED BY <1>9, <2>1, <2>2, <2>3, <2>4
<1>18. \A e \in ToSet(D.queue) : \E f \in ToSet(C.queue) : e.coord = f.coord
  BY <1>15, <1>17
<1>19. Filters(cf, layer_, C, D, cap, out, gone, opened)
  BY <1>9, <1>10, <1>11, <1>12, <1>14, <1>16, <1>18 DEF Filters
<1>20. Given(d, out, r.q)
  BY <1>4, <1>5, <1>6, <1>7, GivenIs
<1>21. HeldNow(held, FoldLeft(Forward, held, r.q), out)
  BY <1>10, <1>20, HeldThen
<1> QED BY <1>19, <1>21

-----------------------------------------------------------------------------
(* Chords v2 implement ChordFilter.                                        *)
FilterInv ==
    /\ DelayInv /\ PairInv /\ down \subseteq Coords
    /\ \A e \in ToSet(chv2.queue) : e.coord \in cv.coords
    /\ \A a \in ToSet(chv2.active) : a.chord.release = "first" => a.left = {}

\* the operators of the module that both sides extend are the same
LEMMA SameOperators ==
    /\ \A s : Filter!ToSet(s) = ToSet(s)
    /\ \A q, kept : Filter!Retain(q, kept) = Retain(q, kept)
    /\ \A q, cap : Filter!AgeQueue(q, cap) = AgeQueue(q, cap)
    /\ \A q : Filter!Last(q) = q[Len(q)]
<1>1. \A s : Filter!ToSet(s) = ToSet(s)
  BY DEF Filter!ToSet, ToSet
<1>2. \A q, kept : Filter!Retain(q, kept) = Retain(q, kept)
  BY DEF Filter!Retain, Retain, Filter!FoldLeft, FoldLeft, Filter!MapThenFoldSet, MapThenFoldSet, Filter!Max, Max
<1>3. \A q, cap : Filter!AgeQueue(q, cap) = AgeQueue(q, cap)
  BY DEF Filter!AgeQueue, AgeQueue
<1>4. \A q : Filter!Last(q) = q[Len(q)]
  BY DEF Filter!Last
<1> QED BY <1>1, <1>2, <1>3, <1>4

LEMMA FilterState ==
    /\ Waiting = [c \in Coords |-> LineOf(chv2.queue, c)]
    /\ Waiting' = [c \in Coords |-> LineOf(chv2'.queue, c)]
    /\ OpenChords = OpenOf(chv2.active) /\ OpenChords' = OpenOf(chv2'.active)
<1>1. Waiting = [c \in Coords |-> LineOf(chv2.queue, c)]
  BY DEF Waiting, Line, LineOf
<1>2. Waiting' = [c \in Coords |-> LineOf(chv2'.queue, c)]
  BY DEF Waiting, Line, LineOf
<1>3. OpenChords = OpenOf(chv2.active)
  BY DEF OpenChords, OpenOf, Shown, EndedStatus, ToSet
<1>4. OpenChords' = OpenOf(chv2'.active)
  BY DEF OpenChords, OpenOf, Shown, EndedStatus, ToSet
<1> QED BY <1>1, <1>2, <1>3, <1>4

(* The rest of a line, without what is swallowed.                          *)
Unswallowed(q, opened, c) ==
    IF SwallowedBy(opened, c)
    THEN Retain(LineOf(q, c), {e \in ToSet(LineOf(q, c)) : ~e.press}) ELSE LineOf(q, c)

LEMMA RestAged ==
    ASSUME NEW q \in Seq(Events), NEW cap, NEW opened, NEW c, NEW rest, rest = Unswallowed(q, opened, c)
    PROVE  rest \in Seq(Events) /\ AgeQueue(rest, cap) = RestOf(AgeQueue(q, cap), opened, c)
<1>1. PICK l \in Seq(Events) : l = LineOf(q, c)
  BY LineHas
<1>2. AgeQueue(l, cap) = LineOf(AgeQueue(q, cap), c)
  BY <1>1, LineAged
<1>3. CASE ~SwallowedBy(opened, c)
  BY <1>1, <1>2, <1>3 DEF RestOf, Unswallowed
<1>4. CASE SwallowedBy(opened, c)
  <2>1. ToSet(l) \cap {e \in ToSet(l) : ~e.press} = ToSet(l) \cap AllReleases
    <3>1. ToSet(l) \subseteq Wide
      BY EventsWide DEF ToSet
    <3> QED BY <3>1 DEF AllReleases
  <2>2. PICK kept : kept = {e \in ToSet(l) : ~e.press}
    OBVIOUS
  <2>3. Retain(l, kept) = Retain(l, AllReleases)
    BY <2>1, <2>2, RetainSame
  <2>4. rest = Retain(l, AllReleases)
    BY <1>1, <1>4, <2>2, <2>3 DEF Unswallowed
  <2>5. rest \in Seq(Events)
    BY <2>4, RetainIn
  <2>6. Retain(AgeQueue(l, cap), AllReleases) = AgeQueue(rest, cap)
    BY <2>4, LineAged
  <2> QED BY <1>2, <1>4, <2>5, <2>6 DEF RestOf
<1> QED BY <1>3, <1>4

LEMMA FrontReleases ==
    ASSUME NEW out \in Seq(Events), NEW c, NEW l, l = LineOf(out, c),
           NEW front \in Seq(Events), Len(front) = Len(l), \A i \in 1..Len(l) : front[i].press = l[i].press
    PROVE  (\E i \in DOMAIN front : ~front[i].press) <=> \E e \in ToSet(out) : ~e.press /\ e.coord = c
<1>1. l \in Seq(Events) /\ ToSet(l) = {e \in ToSet(out) : e.coord = c}
  BY LineHas
<1>2. DOMAIN l = 1..Len(l) /\ DOMAIN front = 1..Len(l)
  BY <1>1
<1>3. (\E i \in DOMAIN front : ~front[i].press) <=> \E i \in DOMAIN l : ~l[i].press
  BY <1>2
<1>4. (\E i \in DOMAIN l : ~l[i].press) <=> \E e \in ToSet(l) : ~e.press
  BY DEF ToSet
<1> QED BY <1>1, <1>3, <1>4

LEMMA FrontHolds ==
    ASSUME NEW held, NEW held1, NEW out \in Seq(Events), HeldNow(held, held1, out), NEW c \in Coords,
           NEW l, l = LineOf(out, c), NEW front \in Seq(Events), Len(front) = Len(l),
           \A i \in 1..Len(l) : front[i].press = l[i].press
    PROVE  c \in held1 <=> IF front = <<>> THEN c \in held ELSE front[Len(front)].press
<1>1. l \in Seq(Events)
  BY LineHas
<1>2. front = <<>> <=> l = <<>>
  BY <1>1
<1>3. front # <<>> => front[Len(front)].press = l[Len(l)].press
  BY <1>1
<1>4. /\ l = <<>> => (c \in held1 <=> c \in held)
      /\ l # <<>> => (c \in held1 <=> l[Len(l)].press)
  BY Zenon DEF HeldNow
<1> QED BY <1>2, <1>3, <1>4


LEMMA LineMoves ==
    ASSUME NEW C, NEW D, NEW cap, NEW out \in Seq(Events), NEW opened, Lines(C, D, cap, out, opened),
           NEW q \in Seq(Events), NEW q1 \in Seq(Events), q = C.queue, q1 = D.queue, NEW c \in Coords
    PROVE  LET rest == Unswallowed(q, opened, c)
           IN  Leaves(rest, Leaving(rest, LineOf(q1, c)), LineOf(out, c), LineOf(q1, c), cap)
<1>1. PICK rest : rest = Unswallowed(q, opened, c)
  OBVIOUS
<1>2. rest \in Seq(Events) /\ AgeQueue(rest, cap) = RestOf(AgeQueue(q, cap), opened, c)
  BY <1>1, RestAged
<1>3. PICK f \in Seq(Events), w \in Seq(Events) : f = LineOf(out, c) /\ w = LineOf(q1, c)
  BY LineHas
<1>4. AgeQueue(rest, cap) = f \o w
  BY <1>2, <1>3, Zenon DEF Lines
<1>5. Leaves(rest, Leaving(rest, w), f, w, cap)
  BY <1>2, <1>4, FrontLeaves
<1> QED BY <1>1, <1>3, <1>5, Zenon

(* The definitions of the filter, in terms of the queue and of the active  *)
(* chords.                                                                 *)
LEMMA FilterIs ==
    ASSUME NEW opened, OpenOf(opened) = {o \in OpenOf(chv2'.active) : o.coord \notin Coordinates(chv2.active)}
    PROVE  /\ Filter!Opened = OpenOf(opened)
           /\ \A c \in Coords : /\ Filter!Rest(c) = Unswallowed(chv2.queue, opened, c)
                                /\ Filter!Forwarded(c) = Leaving(Unswallowed(chv2.queue, opened, c),
                                                                 LineOf(chv2'.queue, c))
<1>1. PICK ops, ops1, w, w1 : ops = OpenChords /\ ops1 = OpenChords' /\ w = Waiting /\ w1 = Waiting'
  OBVIOUS
<1>2. Filter!Opened = {o \in ops1 : o.coord \notin {p.coord : p \in ops}}
  BY <1>1 DEF Filter!Opened, Filter!IdsOf
<1>3. ops = OpenOf(chv2.active) /\ ops1 = OpenOf(chv2'.active)
  BY <1>1, FilterState
<1>4. {p.coord : p \in ops} = Coordinates(chv2.active)
  BY <1>3, OpenIds
<1>5. Filter!Opened = OpenOf(opened)
  BY <1>2, <1>3, <1>4
<1>6. ASSUME NEW c \in Coords
      PROVE  /\ Filter!Rest(c) = Unswallowed(chv2.queue, opened, c)
             /\ Filter!Forwarded(c) = Leaving(Unswallowed(chv2.queue, opened, c), LineOf(chv2'.queue, c))
  <2>1. Filter!Swallowed(c) <=> SwallowedBy(opened, c)
    <3>1. Filter!Swallowed(c) <=> c[1] = 0 /\ \E o \in OpenOf(opened) : c[2] \in o.chord.keys
      BY <1>5 DEF Filter!Swallowed
    <3>2. \A a : Shown(a).chord = a.chord
      BY ShownIs
    <3> QED BY <3>1, <3>2 DEF SwallowedBy, OpenOf
  <2>2. w[c] = LineOf(chv2.queue, c) /\ w1[c] = LineOf(chv2'.queue, c)
    BY <1>1, FilterState
  <2>3. Filter!Rest(c) = IF Filter!Swallowed(c) THEN Filter!Retain(w[c], {e \in Filter!ToSet(w[c]) : ~e.press})
                         ELSE w[c]
    BY <1>1 DEF Filter!Rest
  <2>4. Filter!Rest(c) = Unswallowed(chv2.queue, opened, c)
    BY <2>1, <2>2, <2>3, SameOperators DEF Unswallowed
  <2>5. Filter!Forwarded(c) = SubSeq(Filter!Rest(c), 1, Len(Filter!Rest(c)) - Len(w1[c]))
    BY <1>1 DEF Filter!Forwarded
  <2> QED BY <2>2, <2>4, <2>5 DEF Leaving
<1> QED BY <1>5, <1>6

\* the front of the line of c, in this tick
FrontOf(opened, c) == Leaving(Unswallowed(chv2.queue, opened, c), LineOf(chv2'.queue, c))

LEMMA ReleasedIs ==
    ASSUME NEW o, NEW keys, keys = o.chord.keys, \A k \in keys : <<0, k>> \in Coords,
           NEW opened, \A c \in Coords : Filter!Forwarded(c) = FrontOf(opened, c),
           NEW out \in Seq(Events), NEW cap,
           \A c \in Coords : Leaves(Unswallowed(chv2.queue, opened, c), FrontOf(opened, c),
                                    LineOf(out, c), LineOf(chv2'.queue, c), cap)
    PROVE  Filter!Released(o) = ReleasedBy(keys, out)
<1>1. Filter!Released(o) = {k \in keys : \E i \in DOMAIN Filter!Forwarded(<<0, k>>) :
                                            ~Filter!Forwarded(<<0, k>>)[i].press}
  BY DEF Filter!Released, Filter!Real
<1>2. ASSUME NEW k \in keys
      PROVE  (\E i \in DOMAIN Filter!Forwarded(<<0, k>>) : ~Filter!Forwarded(<<0, k>>)[i].press)
             <=> \E e \in ToSet(out) : ~e.press /\ e.coord = <<0, k>>
  <2>1. PICK c \in Coords : c = <<0, k>>
    OBVIOUS
  <2>2. PICK front, l : front = Filter!Forwarded(c) /\ l = LineOf(out, c)
    OBVIOUS
  <2>3. front \in Seq(Events) /\ Len(front) = Len(l) /\ \A i \in 1..Len(l) : front[i].press = l[i].press
    BY <2>2, Zenon DEF Leaves
  <2>4. (\E i \in DOMAIN front : ~front[i].press) <=> \E e \in ToSet(out) : ~e.press /\ e.coord = c
    BY <2>2, <2>3, FrontReleases
  <2> QED BY <2>1, <2>2, <2>4
<1> QED BY <1>1, <1>2 DEF ReleasedBy

LEMMA CloserIn ==
    ASSUME NEW q \in Seq(Events), NEW keys, NEW m \in Nat, NEW n \in Nat, m <= n, CloseIn(q, keys, m)
    PROVE  CloseIn(q, keys, n)
<1>1. ASSUME NEW k1 \in keys, NEW k2 \in keys
      PROVE  \E e1, e2 \in ToSet(q) : /\ e1.press /\ e1.coord = <<0, k1>> /\ e2.press /\ e2.coord = <<0, k2>>
                                      /\ e1.since - e2.since <= n
  <2>1. PICK e1 \in ToSet(q), e2 \in ToSet(q) :
          /\ e1.press /\ e1.coord = <<0, k1>> /\ e2.press /\ e2.coord = <<0, k2>>
          /\ e1.since - e2.since <= m
    BY DEF CloseIn
  <2>2. e1.since \in Nat /\ e2.since \in Nat
    <3>1. \A e \in ToSet(q) : e \in Events
      BY DEF ToSet
    <3>2. \A e \in Events : e.since \in Nat
      BY DEF Events
    <3> QED BY <3>1, <3>2
  <2>3. e1.since - e2.since <= n
    BY <2>1, <2>2
  <2> QED BY <2>1, <2>3
<1> QED BY <1>1 DEF CloseIn

LEMMA OpenedMay ==
    ASSUME IsConfig(cv), LongerInTime, chv2.queue \in Seq(Events), chv2'.queue \in Seq(Events),
           NEW a \in Actives(cv), Allowed(cv, layer, chv2.queue, chv2'.queue, a)
    PROVE  Filter!MayOpen(Shown(a))
<1>1. PICK o : o = Shown(a)
  OBVIOUS
<1>2. o.chord = a.chord /\ o.left = a.left /\ (o.ended <=> a.status \in EndedStatus)
  BY <1>1, ShownIs
<1>3. PICK w, w1 : w = Waiting /\ w1 = Waiting'
  OBVIOUS
<1>4. \A c \in Coords : w[c] = LineOf(chv2.queue, c) /\ w1[c] = LineOf(chv2'.queue, c)
  BY <1>3, FilterState
<1>5. \A k \in a.chord.keys : <<0, k>> \in Coords
  BY ActiveIs, ConfigIs
<1>6. ASSUME NEW e \in ToSet(chv2.queue), e.press, NEW k \in a.chord.keys, e.coord = <<0, k>>
      PROVE  \E i \in Filter!Presses(k) : w[<<0, k>>][i] = e
  <2>1. PICK l : l = w[<<0, k>>]
    OBVIOUS
  <2>2. l = LineOf(chv2.queue, <<0, k>>)
    BY <1>4, <1>5, <2>1
  <2>3. e \in ToSet(l)
    BY <1>6, <2>2, LineHas
  <2>4. PICK i \in DOMAIN l : l[i] = e
    BY <2>3 DEF ToSet
  <2>5. Filter!Presses(k) = {n \in DOMAIN l : l[n].press}
    BY <1>3, <2>1 DEF Filter!Presses, Filter!Real
  <2> QED BY <1>6, <2>1, <2>4, <2>5
<1>7. ASSUME NEW time, CloseIn(chv2.queue, a.chord.keys, time) PROVE Filter!Together(o, time)
  <2>1. ASSUME NEW k1 \in a.chord.keys, NEW k2 \in a.chord.keys
        PROVE  \E i \in Filter!Presses(k1), j \in Filter!Presses(k2) :
                   w[<<0, k1>>][i].since - w[<<0, k2>>][j].since <= time
    <3>1. PICK e1 \in ToSet(chv2.queue), e2 \in ToSet(chv2.queue) :
            /\ e1.press /\ e1.coord = <<0, k1>> /\ e2.press /\ e2.coord = <<0, k2>>
            /\ e1.since - e2.since <= time
      BY <1>7 DEF CloseIn
    <3>2. PICK i \in Filter!Presses(k1) : w[<<0, k1>>][i] = e1
      BY <1>6, <3>1
    <3>3. PICK j \in Filter!Presses(k2) : w[<<0, k2>>][j] = e2
      BY <1>6, <3>1
    <3> QED BY <3>1, <3>2, <3>3
  <2> QED BY <1>2, <1>3, <2>1 DEF Filter!Together, Filter!Real
<1>8. Filter!Together(o, o.chord.pending)
  <2>1. PICK ch \in cv.chords : a.chord.keys \subseteq ch.keys /\ CloseIn(chv2.queue, a.chord.keys, ch.pending)
    BY DEF Allowed
  <2>2. PICK m \in Nat, n \in Nat : m = ch.pending /\ n = a.chord.pending /\ m <= n
    <3>1. a.chord \in cv.chords
      BY ActiveIs
    <3> QED BY <2>1, <3>1, LongestIs DEF LongerInTime
  <2>3. CloseIn(chv2.queue, a.chord.keys, n)
    BY <2>1, <2>2, CloserIn
  <2> QED BY <1>2, <1>7, <2>2, <2>3
<1>9. layer \notin o.chord.disabled /\ o.left = IF o.chord.release = "all" THEN o.chord.keys ELSE {}
  BY <1>2 DEF Allowed
<1>10. ASSUME o.ended
       PROVE  o.chord.release = "first" /\ \E c \in Coords : \E i \in DOMAIN w1[c] : ~w1[c][i].press
  <2>1. PICK e \in ToSet(chv2'.queue) : ~e.press
    BY <1>2, <1>10 DEF Allowed
  <2>2. PICK c \in Coords : c = e.coord
    <3>1. e \in Events
      BY DEF ToSet
    <3> QED BY <3>1 DEF Events
  <2>3. PICK l : l = w1[c]
    OBVIOUS
  <2>4. e \in ToSet(l)
    BY <1>4, <2>2, <2>3, LineHas
  <2>5. PICK i \in DOMAIN l : l[i] = e
    BY <2>4 DEF ToSet
  <2> QED BY <1>2, <1>10, <2>1, <2>3, <2>5 DEF Allowed
<1> QED BY <1>1, <1>3, <1>8, <1>9, <1>10 DEF Filter!MayOpen

LEMMA OpenMoves ==
    ASSUME NEW gone, NEW opened, TickShows(chv2, chv2', gone, opened),
           NEW a \in ToSet(chv2.active), a \in Actives(cv), a.chord.release = "first" => a.left = {},
           Filter!Released(Shown(a)) = a.chord.keys \cap KeysUp(gone)
    PROVE  Filter!MovesOn(Shown(a))
<1>1. PICK o, ops1, R, b, J : /\ o = Shown(a) /\ ops1 = OpenChords' /\ R = Filter!Released(o)
                              /\ J = KeysUp(gone) /\ b = EndsBy(a, J)
  OBVIOUS
<1>2. ops1 = OpenOf(chv2'.active)
  BY <1>1, FilterState
<1>3. R = a.chord.keys \cap J
  BY <1>1
<1>4. /\ b.chord = a.chord /\ b.coord = a.coord /\ b.left = a.left \ R
      /\ b.status \in EndedStatus <=>
           \/ a.status \in EndedStatus
           \/ R # {} /\ (a.chord.release = "first" \/ a.left \subseteq R)
  <2>1. EndsAs(a, EndsBy(a, J), a.chord.keys \cap J)
    BY EndsShown
  <2>2. EndsAs(a, b, R)
    BY <1>1, <1>3, <2>1, Zenon
  <2> QED BY <2>2 DEF EndsAs
<1>5. Filter!Ends(o) <=> R # {} /\ (a.chord.release = "first" \/ a.left \subseteq R)
  <2>1. o.chord = a.chord /\ o.left = a.left
    BY <1>1, ShownIs
  <2> QED BY <1>1, <2>1 DEF Filter!Ends
<1>6. o.chord = a.chord /\ o.coord = a.coord /\ o.left = a.left /\ (o.ended <=> a.status \in EndedStatus)
  BY <1>1, ShownIs
<1>7. PICK o1 : o1 = Shown(b)
  OBVIOUS
<1>8. /\ o1.chord = o.chord /\ o1.coord = o.coord /\ o1.left = o.left \ R
      /\ o1.ended <=> (o.ended \/ Filter!Ends(o))
  <2>1. o1.chord = b.chord /\ o1.coord = b.coord /\ o1.left = b.left /\ (o1.ended <=> b.status \in EndedStatus)
    BY <1>7, ShownIs
  <2> QED BY <1>4, <1>5, <1>6, <2>1
<1>9. o1 \in ops1 \/ ((o.ended \/ Filter!Ends(o)) /\ o.coord \notin Filter!IdsOf(ops1))
  <2>1. \/ Shown(b) \in OpenOf(chv2'.active)
        \/ b.status = "Released" /\ a.coord \notin Coordinates(chv2'.active)
    BY <1>1, Zenon DEF TickShows
  <2>2. Filter!IdsOf(ops1) = Coordinates(chv2'.active)
    BY <1>2, OpenIds DEF Filter!IdsOf
  <2>3. "Released" \in EndedStatus
    BY DEF EndedStatus
  <2> QED BY <1>2, <1>4, <1>5, <1>6, <1>7, <2>1, <2>2, <2>3
<1>10. Filter!MovesOn(o) <=>
         \/ \E p \in ops1 : /\ p.chord = o.chord /\ p.coord = o.coord
                            /\ p.left = o.left \ R /\ (p.ended <=> o.ended \/ Filter!Ends(o))
         \/ (o.ended \/ Filter!Ends(o)) /\ o.coord \notin Filter!IdsOf(ops1)
  BY <1>1, Zenon DEF Filter!MovesOn
<1> QED BY <1>1, <1>8, <1>9, <1>10, Zenon

LEMMA ClearNow == ASSUME FilterInv, Distinguished PROVE Clear(cv, chv2, AgeCap)
<1>1. chv2.queue \in Seq(Events) /\ Sorted(chv2.queue)
  BY DEF FilterInv, DelayInv, ChordInv, InTimeOf, States
<1>2. \A e \in ToSet(chv2.queue) : e.since < AgeCap
  BY DEF Distinguished, ToSet
<1>3. \A e \in ToSet(chv2.queue), ch \in cv.chords : e.coord[2] \in ch.keys => e.coord[1] = 0
  BY DEF FilterInv, Distinguished
<1>4. \A a \in ToSet(chv2.active) : a.chord.release = "first" => a.left = {}
  BY DEF FilterInv
<1> QED BY <1>1, <1>2, <1>3, <1>4 DEF Clear

\* what the tick does to the queue, to the open chords and to what is held
TickDoes(out, gone, opened) ==
    Filters(cv, layer, chv2, chv2', AgeCap, out, gone, opened) /\ HeldNow(down, down', out)

LEMMA TickDoesIt ==
    ASSUME FilterInv, WithinLimits, Distinguished, Tick
    PROVE  \E out, gone, opened : TickDoes(out, gone, opened)
<1>1. IsConfig(cv) /\ chv2 \in States(cv) /\ layer \in cv.layers /\ NoTwins(chv2.active) /\ down \subseteq Coords
  BY DEF FilterInv, PairInv, ChordInv
<1>2. Clear(cv, chv2, AgeCap) /\ Roomy(cv, chv2) /\ AgeCap \in Nat
  BY ClearNow, RoomyNow, ChordSystemBounds
<1>3. PICK r : /\ r = TickChv2(cv, chv2, layer, AgeCap) /\ chv2' = GetActionChv2(r.c)
               /\ down' = FoldLeft(Forward, down, r.q)
  BY DEF Tick, Fetched
<1>4. PICK D : D = chv2'
  OBVIOUS
<1>5. \E out, gone, opened : /\ Filters(cv, layer, chv2, D, AgeCap, out, gone, opened)
                             /\ HeldNow(down, FoldLeft(Forward, down, r.q), out)
  BY <1>1, <1>2, <1>3, <1>4, TickFilters
<1> QED BY <1>3, <1>4, <1>5 DEF TickDoes

LEMMA TickKeeps ==
    ASSUME FilterInv, NEW out, NEW gone, NEW opened, TickDoes(out, gone, opened), cv' = cv
    PROVE  /\ (down \subseteq Coords)' /\ (\A e \in ToSet(chv2.queue) : e.coord \in cv.coords)'
           /\ (\A a \in ToSet(chv2.active) : a.chord.release = "first" => a.left = {})'
<1>1. PICK D : D = chv2'
  OBVIOUS
<1>2. down' \subseteq Coords
  BY DEF TickDoes, HeldNow
<1>3. \A e \in ToSet(D.queue) : e.coord \in cv.coords
  BY <1>1 DEF TickDoes, Filters, FilterInv
<1>4. ASSUME NEW a \in ToSet(D.active), a.chord.release = "first" PROVE a.left = {}
  <2>1. Shown(a) \in OpenOf(D.active)
    BY DEF OpenOf
  <2>2. \/ \E b \in ToSet(chv2.active) : Shown(a) = Shown(EndsBy(b, KeysUp(gone)))
        \/ Shown(a) \in OpenOf(opened)
    BY <1>1, <2>1 DEF TickDoes, Filters, TickShows
  <2>3. ASSUME NEW b \in ToSet(chv2.active), Shown(a) = Shown(EndsBy(b, KeysUp(gone))) PROVE a.left = {}
    <3>1. b \in Actives(cv) /\ (b.chord.release = "first" => b.left = {})
      BY DEF FilterInv, PairInv, ChordInv, States, ToSet
    <3>2. PICK b1 : b1 = EndsBy(b, KeysUp(gone))
      OBVIOUS
    <3>3. b1.chord = b.chord /\ \E R : b1.left = b.left \ R
      <4>1. PICK J, R : J = KeysUp(gone) /\ R = b.chord.keys \cap J
        OBVIOUS
      <4>2. EndsAs(b, EndsBy(b, J), b.chord.keys \cap J)
        BY <3>1, EndsShown
      <4>3. EndsAs(b, b1, R)
        BY <3>2, <4>1, <4>2, Zenon
      <4> QED BY <4>3 DEF EndsAs
    <3>4. a.chord = b1.chord /\ a.left = b1.left
      BY <2>3, <3>2, ShownIs
    <3> QED BY <1>4, <3>1, <3>3, <3>4
  <2>4. ASSUME NEW b \in ToSet(opened), Shown(a) = Shown(b) PROVE a.left = {}
    <3>1. a.chord = b.chord /\ a.left = b.left
      BY <2>4, ShownIs
    <3>2. b.left = IF b.chord.release = "all" THEN b.chord.keys ELSE {}
      BY DEF TickDoes, Filters, Allowed
    <3> QED BY <1>4, <3>1, <3>2
  <2> QED BY <2>2, <2>3, <2>4 DEF OpenOf
<1> QED BY <1>1, <1>2, <1>3, <1>4

LEMMA TickIsStep ==
    ASSUME FilterInv, NEW out, NEW gone, NEW opened, TickDoes(out, gone, opened),
           cv' = cv, layer' = layer, IsConfig(cv)', LongerInTime
    PROVE  Filter!Step
<1>1. /\ IsConfig(cv) /\ chv2.queue \in Seq(Events) /\ chv2.active \in Seq(Actives(cv))
  BY DEF FilterInv, PairInv, ChordInv, States
<1>2. /\ out \in Seq(Events) /\ opened \in Seq(Actives(cv)) /\ chv2'.queue \in Seq(Events)
      /\ TickShows(chv2, chv2', gone, opened) /\ Lines(chv2, chv2', AgeCap, out, opened)
      /\ \A a \in ToSet(opened) : Allowed(cv, layer, chv2.queue, chv2'.queue, a)
      /\ \A a \in ToSet(chv2.active) : ReleasedBy(a.chord.keys, out) = a.chord.keys \cap KeysUp(gone)
      /\ HeldNow(down, down', out)
  BY DEF TickDoes, Filters
<1>3. OpenOf(opened) = {o \in OpenOf(chv2'.active) : o.coord \notin Coordinates(chv2.active)}
  BY <1>2 DEF TickShows
<1>4. /\ Filter!Opened = OpenOf(opened)
      /\ \A c \in Coords : /\ Filter!Rest(c) = Unswallowed(chv2.queue, opened, c)
                           /\ Filter!Forwarded(c) = FrontOf(opened, c)
  BY <1>3, FilterIs DEF FrontOf
<1>5. ASSUME NEW c \in Coords
      PROVE  Leaves(Unswallowed(chv2.queue, opened, c), FrontOf(opened, c),
                    LineOf(out, c), LineOf(chv2'.queue, c), AgeCap)
  <2>1. PICK q \in Seq(Events), q1 \in Seq(Events) : q = chv2.queue /\ q1 = chv2'.queue
    BY <1>1, <1>2
  <2>2. Leaves(Unswallowed(q, opened, c), Leaving(Unswallowed(q, opened, c), LineOf(q1, c)),
               LineOf(out, c), LineOf(q1, c), AgeCap)
    BY <1>2, <2>1, LineMoves
  <2> QED BY <2>1, <2>2 DEF FrontOf
<1>6. PICK w1 : w1 = Waiting' /\ \A c \in Coords : w1[c] = LineOf(chv2'.queue, c)
  BY FilterState
<1>7. ASSUME NEW c \in Coords
      PROVE  /\ Len(w1[c]) <= Len(Filter!Rest(c))
             /\ w1[c] = Filter!AgeQueue(SubSeq(Filter!Rest(c), Len(Filter!Forwarded(c)) + 1,
                                               Len(Filter!Rest(c))), AgeCap)
  BY <1>4, <1>5, <1>6, SameOperators DEF Leaves
<1>8. ASSUME NEW o \in Filter!Opened PROVE Filter!MayOpen(o)
  <2>1. PICK a \in ToSet(opened) : o = Shown(a)
    BY <1>4 DEF OpenOf
  <2>2. a \in Actives(cv)
    BY <1>2 DEF ToSet
  <2> QED BY <1>1, <1>2, <2>1, <2>2, OpenedMay
<1>9. ASSUME NEW o \in OpenOf(chv2.active) PROVE Filter!MovesOn(o)
  <2>1. PICK a \in ToSet(chv2.active) : o = Shown(a)
    BY DEF OpenOf
  <2>2. a \in Actives(cv) /\ (a.chord.release = "first" => a.left = {})
    BY <1>1 DEF FilterInv, ToSet
  <2>3. PICK keys : keys = a.chord.keys
    OBVIOUS
  <2>4. Filter!Released(o) = ReleasedBy(keys, out)
    <3>1. keys = o.chord.keys
      BY <2>1, <2>3, ShownIs
    <3>2. \A k \in keys : <<0, k>> \in Coords
      BY <1>1, <2>2, <2>3, ActiveIs, ConfigIs
    <3> QED BY <1>2, <1>4, <1>5, <3>1, <3>2, ReleasedIs
  <2>5. Filter!Released(Shown(a)) = a.chord.keys \cap KeysUp(gone)
    BY <1>2, <2>1, <2>3, <2>4
  <2> QED BY <1>2, <2>1, <2>2, <2>5, OpenMoves
<1>10. down' = {c \in Coords : IF Filter!Forwarded(c) = <<>> THEN c \in down
                               ELSE Filter!Last(Filter!Forwarded(c)).press}
  <2>1. ASSUME NEW c \in Coords
        PROVE  c \in down' <=> IF Filter!Forwarded(c) = <<>> THEN c \in down
                               ELSE Filter!Last(Filter!Forwarded(c)).press
    <3>1. PICK front, l, held1 : front = FrontOf(opened, c) /\ l = LineOf(out, c) /\ held1 = down'
      OBVIOUS
    <3>2. front \in Seq(Events) /\ Len(front) = Len(l) /\ \A i \in 1..Len(l) : front[i].press = l[i].press
      BY <1>5, <3>1, Zenon DEF Leaves
    <3>3. c \in held1 <=> IF front = <<>> THEN c \in down ELSE front[Len(front)].press
      BY <1>2, <3>1, <3>2, FrontHolds
    <3> QED BY <1>4, <3>1, <3>3, SameOperators
  <2>2. down' \subseteq Coords
    BY <1>2 DEF HeldNow
  <2> QED BY <2>1, <2>2
<1>11. /\ \A c \in Coords :
            /\ Len(Waiting'[c]) <= Len(Filter!Rest(c))
            /\ Waiting'[c] = Filter!AgeQueue(SubSeq(Filter!Rest(c), Len(Filter!Forwarded(c)) + 1,
                                                    Len(Filter!Rest(c))), AgeCap)
       /\ \A o \in OpenChords : Filter!MovesOn(o)
  BY <1>6, <1>7, <1>9, FilterState
<1> QED BY <1>8, <1>10, <1>11, Zenon DEF Filter!Step

LEMMA FilterInvInit == Init => FilterInv /\ Filter!Init
<1> SUFFICES ASSUME Init PROVE FilterInv /\ Filter!Init
  OBVIOUS
<1>1. DelayInv /\ PairInv
  BY DelayInvInit, PairInvInit
<1>2. chv2.queue = <<>> /\ chv2.active = <<>> /\ down = {} /\ ToSet(<<>>) = {}
  BY ToSetEmpty DEF Init, ChordsNew
<1>3. FilterInv
  BY <1>1, <1>2 DEF FilterInv
<1>4. \A c \in Coords : LineOf(<<>>, c) = <<>>
  BY RetainEmpty DEF LineOf
<1>5. Waiting = [c \in Coords |-> <<>>]
  BY <1>2, <1>4, FilterState
<1>6. OpenChords = {}
  BY <1>2, FilterState DEF OpenOf
<1> QED BY <1>2, <1>3, <1>5, <1>6 DEF Filter!Init

LEMMA PushedBehind ==
    ASSUME NEW cf, NEW C \in States(cf), NEW press \in BOOLEAN, NEW c \in Coords,
           Len(C.queue) # ChordQueueLen, NEW D, D = PushBackChv2(C, NewEvent(press, c))
    PROVE  D.active = C.active /\ D.queue = Append(C.queue, NewEvent(press, c))
<1>1. Moved(cf, C, D.queue, C.active, D)
  BY PushBackIs, Zenon
<1>2. D.queue = Append(C.queue, NewEvent(press, c))
  <2>1. PICK e, q : e = NewEvent(press, c) /\ q = Append(C.queue, e)
    OBVIOUS
  <2>2. D = [C EXCEPT !.queue = q]
    BY <2>1 DEF PushBackChv2
  <2>3. D.queue = q
    BY <2>2 DEF States
  <2> QED BY <2>1, <2>3
<1> QED BY <1>1, <1>2 DEF Moved

LEMMA EventArrives ==
    ASSUME FilterInv, WithinLimits, NEW press \in BOOLEAN, NEW c \in cv.coords, cv' = cv,
           Enqueue(press, c), UNCHANGED <<layer, down>>
    PROVE  /\ c \in Coords /\ Filter!Arrive(c)
           /\ (\A e \in ToSet(chv2.queue) : e.coord \in cv.coords)'
           /\ (\A a \in ToSet(chv2.active) : a.chord.release = "first" => a.left = {})'
<1>1. IsConfig(cv) /\ chv2 \in States(cv) /\ c \in Coords
  BY ConfigIs DEF FilterInv, PairInv, ChordInv
<1>2. PICK q \in Seq(Events) : q = chv2.queue
  BY <1>1 DEF States
<1>3. PICK e \in Events : e = NewEvent(press, c) /\ e = [press |-> press, coord |-> c, since |-> 0]
  BY <1>1 DEF NewEvent, Events
<1>4. Len(q) # ChordQueueLen
  <2>1. PICK n \in Nat, m \in Nat, l \in Nat, h \in Nat :
          n = Len(q) /\ m = Len(chv2.active) /\ l = SmolLen /\ h = ChordQueueLen /\ l <= h
    BY <1>1, ChordBounds DEF States
  <2>2. n + m + 2 <= l
    BY <1>2, <2>1 DEF WithinLimits
  <2> QED BY <2>1, <2>2
<1>5. PICK D : D = chv2' /\ D = PushBackChv2(chv2, NewEvent(press, c))
  BY DEF Enqueue, NewEvent
<1>6. D.queue = Append(q, e)
  <2>1. D.queue = Append(chv2.queue, NewEvent(press, c))
    BY <1>1, <1>2, <1>4, <1>5, PushedBehind
  <2> QED BY <1>2, <1>3, <2>1, Zenon
<1>7. D.active = chv2.active
  BY <1>1, <1>2, <1>4, <1>5, PushedBehind
<1>8. ToSet(D.queue) = ToSet(q) \cup {e}
  BY <1>6, ToSetAppend
<1>9. OpenChords' = OpenChords
  BY <1>5, <1>7, FilterState
<1>10. ASSUME NEW n \in Coords
       PROVE  LineOf(D.queue, n) = IF n = c THEN Append(LineOf(q, n), e) ELSE LineOf(q, n)
  <2>1. PICK t \in Seq(Events) : t = Append(q, e)
    BY AppendProperties, Zenon
  <2>2. LineOf(t, n) = Retain(t, OfCoord(n)) /\ LineOf(q, n) = Retain(q, OfCoord(n))
    BY LineIs, WideAre
  <2>3. Retain(t, OfCoord(n)) = IF e \in OfCoord(n) THEN Append(Retain(q, OfCoord(n)), e)
                                ELSE Retain(q, OfCoord(n))
    BY <2>1, RetainAppend
  <2>4. e \in OfCoord(n) <=> n = c
    BY <1>3, EventsWide DEF OfCoord
  <2> QED BY <1>6, <2>1, <2>2, <2>3, <2>4
<1>11. Waiting' = [Waiting EXCEPT ![c] = Append(@, e)]
  BY <1>1, <1>2, <1>5, <1>10, FilterState
<1>12. Filter!Arrive(c)
  BY <1>3, <1>9, <1>11 DEF Filter!Arrive
<1>13. /\ \A f \in ToSet(D.queue) : f.coord \in cv.coords
       /\ \A a \in ToSet(D.active) : a.chord.release = "first" => a.left = {}
  BY <1>2, <1>3, <1>7, <1>8 DEF FilterInv
<1> QED BY <1>1, <1>5, <1>12, <1>13

LEMMA FilterStep ==
    FilterInv /\ WithinLimits /\ Distinguished /\ LongerInTime /\ [Next]_vars => FilterInv' /\ [Filter!Next]_Filter!vars
<1> SUFFICES ASSUME FilterInv, WithinLimits, Distinguished, LongerInTime, [Next]_vars
             PROVE  FilterInv' /\ [Filter!Next]_Filter!vars
  OBVIOUS
<1>1. DelayInv' /\ PairInv' /\ cv' = cv
  <2>1. DelayInv /\ PairInv /\ ChordInv
    BY DEF FilterInv, PairInv
  <2> QED BY <2>1, DelayInvStep, PairInvStep, ChordInvStep
<1>2. CASE Tick
  <2>1. PICK out, gone, opened : TickDoes(out, gone, opened)
    BY <1>2, TickDoesIt
  <2>2. layer' = layer /\ IsConfig(cv)'
    BY <1>1, <1>2 DEF Tick, PairInv, ChordInv
  <2>3. Filter!Step
    BY <1>1, <2>1, <2>2, TickIsStep
  <2>4. FilterInv'
    BY <1>1, <2>1, TickKeeps DEF FilterInv
  <2> QED BY <2>3, <2>4 DEF Filter!Next
<1>3. ASSUME NEW c \in cv.coords, PressKey(c) \/ ReleaseKey(c)
      PROVE  FilterInv' /\ Filter!Next
  <2>1. PICK press \in BOOLEAN : Enqueue(press, c) /\ UNCHANGED <<layer, down>>
    BY <1>3 DEF PressKey, ReleaseKey
  <2>2. /\ c \in Coords /\ Filter!Arrive(c)
        /\ (\A e \in ToSet(chv2.queue) : e.coord \in cv.coords)'
        /\ (\A a \in ToSet(chv2.active) : a.chord.release = "first" => a.left = {})'
    BY <1>1, <2>1, EventArrives
  <2>3. (down \subseteq Coords)'
    BY <2>1 DEF FilterInv
  <2> QED BY <1>1, <2>2, <2>3 DEF FilterInv, Filter!Next
<1>4. ASSUME UNCHANGED <<chv2, down>> PROVE FilterInv' /\ UNCHANGED <<Waiting, OpenChords, down>>
  <2>1. UNCHANGED <<Waiting, OpenChords, down>>
    BY <1>1, <1>4, FilterState
  <2>2. FilterInv'
    BY <1>1, <1>4 DEF FilterInv
  <2> QED BY <2>1, <2>2
<1>5. CASE ChangeLayer
  <2>1. UNCHANGED <<chv2, down>> /\ layer' # layer
    BY <1>5 DEF ChangeLayer
  <2>2. Filter!ChangeLayer
    BY <1>4, <2>1 DEF Filter!ChangeLayer
  <2> QED BY <1>4, <2>1, <2>2 DEF Filter!Next
<1>6. CASE UNCHANGED vars
  <2>1. UNCHANGED <<chv2, down>> /\ layer' = layer
    BY <1>6 DEF vars
  <2>2. UNCHANGED Filter!vars
    BY <1>4, <2>1 DEF Filter!vars
  <2> QED BY <1>4, <2>1, <2>2
<1> QED BY <1>2, <1>3, <1>5, <1>6 DEF Next

(* The events of each key come out in order and once; a chord opens only   *)
(* for presses that came in its time, on a layer where it is enabled,      *)
(* swallows those presses and no others, and ends by the releases of its   *)
(* own keys (chord.rs, drain_inputs, process_presses and                   *)
(* release_in_chords).  This takes three conditions: no tick needs more    *)
(* room than there is; no virtual key has the index of a key of a chord,   *)
(* for the code would take one for the other; and no chord is part of one  *)
(* with a longer time, for the code would open it after its own.           *)
THEOREM ChordsImplementFilter ==
    Spec /\ [](WithinLimits /\ Distinguished /\ LongerInTime) => ImplementsFilter
<1>1. Spec /\ [](WithinLimits /\ Distinguished /\ LongerInTime) => [][Filter!Next]_Filter!vars
  BY FilterInvInit, FilterStep, PTL DEF Spec
<1> QED BY <1>1, FilterInvInit, PTL DEF Spec, ImplementsFilter, Filter!Spec
=============================================================================
