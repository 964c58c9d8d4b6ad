---------------------------- MODULE PauseProofs ----------------------------
(***************************************************************************)
(* PauseManager's safety, for any reports, operators, patterns and history *)
(* length.                                                                 *)
(*                                                                         *)
(* clear_condition runs once per cleared id, so every property has to go   *)
(* through a fold: Fits says what holds of the node's state between two of *)
(* these calls, ClearedKeeps that one call keeps it and FoldKeeps, by      *)
(* induction on the number of calls, that they all do.  The induction is a *)
(* least counterexample (LeastNat): the first call that breaks Fits would  *)
(* follow one that keeps it.                                               *)
(***************************************************************************)
EXTENDS PauseManager, TLAPS, FiniteSetTheorems, WellFoundedInduction

\* A set of numbers that is not empty has a least one.
LEMMA LeastNat ==
    ASSUME NEW T \in SUBSET Nat, T # {}
    PROVE  \E n \in T : \A m \in T : n <= m
<1>1. IsWellFoundedOn(OpToRel(<, Nat), Nat)  BY NatLessThanWellFounded
<1>2. PICK n \in T : \A m \in T : ~(<<m, n>> \in OpToRel(<, Nat))  BY <1>1, WFMin
<1>3. \A m \in T : ~(m < n)  BY <1>2 DEF OpToRel
<1> QED BY <1>3

-----------------------------------------------------------------------------
\* The fold of clear_condition over a sequence, as ClearConditions takes it.
ClearAll(base, q) == FoldLeft(Cleared, base, q)

\* h is the fold's own recursion, over the sets of the first k positions.
Folded(h, k, q, base) ==
    h = [s \in SUBSET (1 .. k) |->
            IF s = {} THEN base ELSE Cleared(h[s \ {Max(s)}], q[Max(s)])]

\* The recursion over k positions extends to k + 1.
LEMMA FoldedGrows ==
    ASSUME NEW q, NEW base, NEW k \in Nat, NEW h, Folded(h, k, q, base)
    PROVE  \E g : Folded(g, k + 1, q, base)
<1> DEFINE g == [s \in SUBSET (1 .. k + 1) |->
                    IF k + 1 \in s THEN Cleared(h[s \ {k + 1}], q[k + 1]) ELSE h[s]]
<1>0. \A s \in SUBSET (1 .. k) : k + 1 \notin s /\ s \in SUBSET (1 .. k + 1)
  OBVIOUS
<1>1. \A s \in SUBSET (1 .. k) : g[s] = h[s]
  BY <1>0
<1>2. ASSUME NEW s \in SUBSET (1 .. k + 1), k + 1 \in s
      PROVE  g[s] = Cleared(g[s \ {Max(s)}], q[Max(s)])
  <2>1. Max(s) = k + 1
    <3>1. \A x \in s : k + 1 >= x
      OBVIOUS
    <3>2. \A x \in s : (\A y \in s : x >= y) => x = k + 1
      BY <1>2
    <3> QED
      BY <1>2, <3>1, <3>2 DEF Max
  <2>2. s \ {k + 1} \in SUBSET (1 .. k)
    OBVIOUS
  <2>3. g[s \ {k + 1}] = h[s \ {k + 1}]
    BY <2>2, <1>1
  <2> QED
    BY <1>2, <2>1, <2>3
<1>3. ASSUME NEW s \in SUBSET (1 .. k + 1), k + 1 \notin s
      PROVE  g[s] = IF s = {} THEN base ELSE Cleared(g[s \ {Max(s)}], q[Max(s)])
  <2>0. s \in SUBSET (1 .. k)
    BY <1>3
  <2>1. s \in SUBSET (1 .. k) /\ s \ {Max(s)} \in SUBSET (1 .. k)
    BY <2>0
  <2>2. h[s] = IF s = {} THEN base ELSE Cleared(h[s \ {Max(s)}], q[Max(s)])
    BY <2>1 DEF Folded
  <2> QED
    BY <2>1, <2>2, <1>1
<1>4. \A s \in SUBSET (1 .. k + 1) :
          g[s] = IF s = {} THEN base ELSE Cleared(g[s \ {Max(s)}], q[Max(s)])
  BY <1>2, <1>3, Zenon
<1>5. g = [s \in SUBSET (1 .. k + 1) |-> g[s]]
  OBVIOUS
<1> HIDE DEF g
<1>6. Folded(g, k + 1, q, base)
  BY <1>4, <1>5, Zenon DEF Folded
<1> QED
  BY <1>6

\* So there is one for every number of positions.
LEMMA FoldedExists ==
    ASSUME NEW q, NEW base
    PROVE  \A k \in Nat : \E h : Folded(h, k, q, base)
<1> DEFINE T == {k \in Nat : ~ \E h : Folded(h, k, q, base)}
<1>1. SUFFICES ASSUME T # {} PROVE FALSE
  OBVIOUS
<1>2. PICK k \in T : \A m \in T : k <= m
  BY <1>1, LeastNat
<1>3. CASE k = 0
  <2>1. SUBSET (1 .. 0) = {{}}
    OBVIOUS
  <2>2. Folded([s \in {{}} |-> base], 0, q, base)
    BY <2>1 DEF Folded
  <2> QED
    BY <1>2, <1>3, <2>2
<1>4. CASE k # 0
  <2>1. k - 1 \in Nat /\ k - 1 \notin T /\ (k - 1) + 1 = k
    BY <1>2, <1>4
  <2>2. PICK h : Folded(h, k - 1, q, base)
    BY <2>1
  <2>3. \E g : Folded(g, (k - 1) + 1, q, base)
    BY <2>1, <2>2, FoldedGrows
  <2> QED
    BY <1>2, <2>1, <2>3
<1> QED
  BY <1>3, <1>4

\* g lists the states the fold goes through.
Steps(g, base, N, q) ==
    /\ g[0] = base
    /\ \A k \in 1 .. N : g[k] = Cleared(g[k - 1], q[k])
    /\ ClearAll(base, q) = g[N]

\* A fold is the last of its states, each reached from the one before by one
\* call of clear_condition.
LEMMA FoldSteps ==
    ASSUME NEW base, NEW N \in Nat, NEW q, DOMAIN q = 1 .. N
    PROVE  \E g : Steps(g, base, N, q)
<1> DEFINE h == CHOOSE f : Folded(f, N, q, base)
           g == [k \in 0 .. N |-> h[1 .. k]]
<1>1. Folded(h, N, q, base)
  BY FoldedExists, Zenon
<1>2. ClearAll(base, q) = h[1 .. N]
  BY Zenon DEF ClearAll, FoldLeft, MapThenFoldSet, Folded
<1> HIDE DEF h
<1>3. h[{}] = base
  BY <1>1 DEF Folded
<1>4. ASSUME NEW k \in 1 .. N PROVE h[1 .. k] = Cleared(h[1 .. k - 1], q[k])
  <2>1. 1 .. k \in SUBSET (1 .. N) /\ k \in 1 .. k
    OBVIOUS
  <2>3. (1 .. k) \ {k} = 1 .. k - 1
    OBVIOUS
  <2>2. Max(1 .. k) = k
    <3>1. \A x \in 1 .. k : (\A y \in 1 .. k : x >= y) <=> x = k
      OBVIOUS
    <3> QED
      BY <2>1, <3>1 DEF Max
  <2> QED
    BY <1>1, <2>1, <2>2, <2>3 DEF Folded
<1>5. g[0] = base /\ g[N] = h[1 .. N]
  <2>1. 1 .. 0 = {}
    OBVIOUS
  <2> QED
    BY <2>1, <1>3
<1>6. ASSUME NEW k \in 1 .. N PROVE g[k] = h[1 .. k] /\ g[k - 1] = h[1 .. k - 1]
  OBVIOUS
<1>7. Steps(g, base, N, q)
  BY <1>2, <1>4, <1>5, <1>6, Zenon DEF Steps
<1> QED
  BY <1>7

-----------------------------------------------------------------------------
\* A history entry.
Entry == [id : Ids, open : BOOLEAN]

\* HistoryTruthful, of a history and a set of active ids.
Truthful(h, A) ==
    \A i \in DOMAIN h : h[i].open =>
        /\ h[i].id \in A
        /\ \A j \in DOMAIN h : h[j].open /\ h[j].id = h[i].id => i = j

\* Dropping the oldest entries makes no entry untrue.
LEMMA TrimmedKeeps ==
    ASSUME NEW h \in Seq(Entry), NEW A, Truthful(h, A)
    PROVE  /\ Trimmed(h) \in Seq(Entry) /\ Len(Trimmed(h)) <= HistoryMax
           /\ Truthful(Trimmed(h), A)
<1>1. CASE Len(h) <= HistoryMax
  <2>1. Trimmed(h) = h
    BY <1>1, PauseAssumption DEF Trimmed
  <2> QED
    BY <1>1, <2>1
<1>2. CASE ~(Len(h) <= HistoryMax)
  <2> DEFINE off == Len(h) - HistoryMax
             t == SubSeq(h, off + 1, Len(h))
  <2>1. Trimmed(h) = t
    BY <1>2, PauseAssumption DEF Trimmed
  <2>2. off \in Nat /\ off + HistoryMax = Len(h) /\ HistoryMax \in Nat
    BY <1>2, PauseAssumption
  <2>3. t \in Seq(Entry) /\ Len(t) = HistoryMax
    BY <2>2
  <2>4. \A i \in 1 .. HistoryMax : i + off \in DOMAIN h /\ t[i] = h[i + off]
    BY <2>2
  <2>5. DOMAIN t = 1 .. HistoryMax
    BY <2>3
  <2> HIDE DEF off, t
  <2>6. Truthful(t, A)
    BY <2>2, <2>4, <2>5 DEF Truthful
  <2> QED
    BY <2>1, <2>2, <2>3, <2>6
<1> QED
  BY <1>1, <1>2

\* Nor does a closed entry, or the first open one of an active condition.
LEMMA EnteredKeeps ==
    ASSUME NEW h \in Seq(Entry), NEW A, Truthful(h, A),
           NEW c \in Ids, NEW open \in BOOLEAN, open => c \in A,
           open => \A i \in DOMAIN h : ~(h[i].open /\ h[i].id = c)
    PROVE  /\ Entered(h, c, open) \in Seq(Entry)
           /\ Len(Entered(h, c, open)) <= HistoryMax
           /\ Truthful(Entered(h, c, open), A)
<1> DEFINE e == [id |-> c, open |-> open]
           g == Append(h, e)
<1>1. e \in Entry /\ e.id = c /\ e.open = open
  BY DEF Entry
<1>2. Entered(h, c, open) = Trimmed(g)
  BY DEF Entered
<1> HIDE DEF e
<1>3. g \in Seq(Entry) /\ DOMAIN g = 1 .. Len(h) + 1 /\ DOMAIN h = 1 .. Len(h) /\ Len(h) \in Nat
  BY <1>1
<1>4. /\ g[Len(h) + 1] = e
      /\ \A i \in 1 .. Len(h) : g[i] = h[i]
  BY <1>1
<1> HIDE DEF g
<1>5. Truthful(g, A)
  <2>1. ASSUME NEW i \in DOMAIN g, g[i].open PROVE g[i].id \in A
    BY <1>1, <1>3, <1>4, <2>1 DEF Truthful
  <2>2. ASSUME NEW i \in DOMAIN g, g[i].open,
               NEW j \in DOMAIN g, g[j].open, g[j].id = g[i].id
        PROVE  i = j
    <3>1. CASE i \in 1 .. Len(h) /\ j \in 1 .. Len(h)
      BY <1>3, <1>4, <2>2, <3>1 DEF Truthful
    <3>2. CASE i = Len(h) + 1 /\ j \in 1 .. Len(h)
      BY <1>1, <1>3, <1>4, <2>2, <3>2
    <3>3. CASE j = Len(h) + 1 /\ i \in 1 .. Len(h)
      BY <1>1, <1>3, <1>4, <2>2, <3>3
    <3> QED
      BY <1>3, <3>1, <3>2, <3>3
  <2> QED
    BY <2>1, <2>2 DEF Truthful
<1> QED
  BY <1>2, <1>3, <1>5, TrimmedKeeps

\* Once its entries are closed the history no longer needs the condition.
LEMMA SupersededKeeps ==
    ASSUME NEW h \in Seq(Entry), NEW A, Truthful(h, A), NEW c \in Ids
    PROVE  /\ Superseded(h, c) \in Seq(Entry)
           /\ Truthful(Superseded(h, c), A \ {c})
<1> DEFINE g == Superseded(h, c)
<1>1. DOMAIN g = DOMAIN h /\ DOMAIN h = 1 .. Len(h) /\ Len(h) \in Nat
  BY DEF Superseded
<1>2. ASSUME NEW i \in DOMAIN h
      PROVE  /\ g[i] \in Entry /\ g[i].id = h[i].id
             /\ g[i].open => g[i].id # c /\ h[i].open
  <2>1. h[i] \in Entry
    OBVIOUS
  <2>2. CASE h[i].id = c
    <3>1. g[i] = [h[i] EXCEPT !.open = FALSE]
      BY <2>2 DEF Superseded
    <3> QED
      BY <2>1, <3>1 DEF Entry
  <2>3. CASE h[i].id # c
    <3>1. g[i] = h[i]
      BY <2>3 DEF Superseded
    <3> QED
      BY <2>1, <2>3, <3>1
  <2> QED
    BY <2>2, <2>3
<1>3. g = [i \in 1 .. Len(h) |-> g[i]]
  BY <1>1 DEF Superseded
<1> HIDE DEF g
<1>4. g \in Seq(Entry)
  BY <1>1, <1>2, <1>3
<1>5. Truthful(g, A \ {c})
  BY <1>1, <1>2 DEF Truthful
<1> QED
  BY <1>4, <1>5 DEF g
\* What holds of the snapshot clear_condition works on, before and after it.
Fits(st) ==
    /\ IsFiniteSet(DOMAIN st.active)
    /\ \A d \in DOMAIN st.active : d \in Ids /\ st.active[d] \in Conditions
    /\ st.history \in Seq(Entry) /\ Len(st.history) <= HistoryMax
    /\ Truthful(st.history, DOMAIN st.active)
    /\ st.emergency \in BOOLEAN
    /\ st.emergency <=> AnyCritical(st.active)

\* clear_condition keeps all of it, and removes exactly its condition.
LEMMA ClearedKeeps ==
    ASSUME NEW st, Fits(st), NEW c \in Ids
    PROVE  /\ Fits(Cleared(st, c))
           /\ DOMAIN Cleared(st, c).active = DOMAIN st.active \ {c}
<1> DEFINE a == [d \in DOMAIN st.active \ {c} |-> st.active[d]]
           h == Entered(Superseded(st.history, c), c, FALSE)
           e == st.emergency /\ AnyCritical(a)
           r == Cleared(st, c)
<1>1. r.active = a /\ r.history = h /\ (r.emergency <=> e)
  BY DEF Cleared
<1>2. r.emergency \in BOOLEAN
  BY DEF Cleared
<1>3. DOMAIN a = DOMAIN st.active \ {c} /\ \A d \in DOMAIN a : a[d] = st.active[d]
  OBVIOUS
<1> HIDE DEF a, r
<1>4. e <=> AnyCritical(a)
  BY <1>3 DEF Fits, AnyCritical
<1>5. IsFiniteSet(DOMAIN a)
  BY <1>3, FS_Subset DEF Fits
<1>6. h \in Seq(Entry) /\ Len(h) <= HistoryMax /\ Truthful(h, DOMAIN a)
  <2> DEFINE g == Superseded(st.history, c)
  <2>1. g \in Seq(Entry) /\ Truthful(g, DOMAIN a)
    BY <1>3, SupersededKeeps DEF Fits
  <2> HIDE DEF g
  <2>2. FALSE \in BOOLEAN
    OBVIOUS
  <2>3. /\ Entered(g, c, FALSE) \in Seq(Entry)
        /\ Len(Entered(g, c, FALSE)) <= HistoryMax
        /\ Truthful(Entered(g, c, FALSE), DOMAIN a)
    BY <2>1, <2>2, EnteredKeeps, Zenon
  <2> QED
    BY <2>3 DEF g
<1> HIDE DEF h
<1>7. \A d \in DOMAIN a : d \in Ids /\ a[d] \in Conditions
  BY <1>3 DEF Fits
<1>8. Fits(r)
  <2>1. r.emergency <=> AnyCritical(r.active)
    BY <1>1, <1>4, Zenon
  <2> QED
    BY <1>1, <1>2, <1>5, <1>6, <1>7, <2>1, Zenon DEF Fits
<1> QED
  BY <1>1, <1>3, <1>8 DEF r

\* clear_condition on every member of a sequence of ids.
LEMMA FoldKeeps ==
    ASSUME NEW base, Fits(base), NEW N \in Nat, NEW q, DOMAIN q = 1 .. N,
           \A i \in 1 .. N : q[i] \in Ids
    PROVE  /\ Fits(ClearAll(base, q))
           /\ DOMAIN ClearAll(base, q).active
                 = DOMAIN base.active \ {q[i] : i \in 1 .. N}
<1> DEFINE Ok(st, k) == /\ Fits(st)
                        /\ DOMAIN st.active = DOMAIN base.active \ {q[i] : i \in 1 .. k}
<1>0. PICK g : Steps(g, base, N, q)
  BY FoldSteps
<1>1. /\ g[0] = base
      /\ \A k \in 1 .. N : g[k] = Cleared(g[k - 1], q[k])
      /\ ClearAll(base, q) = g[N]
  BY <1>0 DEF Steps
<1> DEFINE T == {k \in 0 .. N : ~Ok(g[k], k)}
<1>2. T = {}
  <2>1. SUFFICES ASSUME T # {} PROVE FALSE
    OBVIOUS
  <2>2. T \in SUBSET Nat
    OBVIOUS
  <2>3. PICK k \in T : \A m \in T : k <= m
    BY <2>1, <2>2, LeastNat
  <2>4. CASE k = 0
    <3>1. {q[i] : i \in 1 .. 0} = {}
      OBVIOUS
    <3> QED
      BY <1>1, <2>3, <2>4, <3>1
  <2>5. CASE k # 0
    <3>1. k \in 1 .. N /\ k - 1 \in 0 .. N /\ k - 1 \notin T
      BY <2>3, <2>5
    <3>2. Ok(g[k - 1], k - 1)
      BY <3>1
    <3>3. g[k] = Cleared(g[k - 1], q[k]) /\ q[k] \in Ids
      BY <1>1, <3>1
    <3>4. Fits(g[k]) /\ DOMAIN g[k].active = DOMAIN g[k - 1].active \ {q[k]}
      BY <3>2, <3>3, ClearedKeeps
    <3>5. {q[i] : i \in 1 .. k} = {q[i] : i \in 1 .. k - 1} \cup {q[k]}
      BY <3>1
    <3>6. Ok(g[k], k)
      BY <3>2, <3>4, <3>5
    <3> QED
      BY <2>3, <3>6
  <2> QED
    BY <2>4, <2>5
<1>3. Ok(g[N], N)
  BY <1>2
<1> QED
  BY <1>1, <1>3

\* A finite set's sequence lists its members, and nothing else.
LEMMA SetToSeqCovers ==
    ASSUME NEW S, IsFiniteSet(S)
    PROVE  /\ Cardinality(S) \in Nat /\ DOMAIN SetToSeq(S) = 1 .. Cardinality(S)
           /\ \A i \in 1 .. Cardinality(S) : SetToSeq(S)[i] \in S
           /\ {SetToSeq(S)[i] : i \in 1 .. Cardinality(S)} = S
<1> DEFINE N == Cardinality(S)
           q == SetToSeq(S)
           R == {q[i] : i \in 1 .. N}
<1>1. N \in Nat
  BY FS_CardinalityType
<1>2. PICK f \in Bijection(1 .. N, S) : TRUE
  BY FS_CardinalityType DEF ExistsBijection
<1>3. f \in [1 .. N -> S] /\ IsInjective(f)
  BY <1>2 DEF Bijection, Injection
<1>4. q \in [1 .. N -> S] /\ IsInjective(q)
  BY <1>3, Zenon DEF SetToSeq
<1> HIDE DEF q, N
<1>5. q \in Injection(1 .. N, S)
  BY <1>4 DEF Injection
<1>6. IsFiniteSet(1 .. N) /\ Cardinality(1 .. N) = N
  <2>1. 1 \in Int /\ N \in Int
    BY <1>1
  <2>2. /\ IsFiniteSet(1 .. N)
        /\ Cardinality(1 .. N) = IF 1 > N THEN 0 ELSE N - 1 + 1
    BY <2>1, FS_Interval, Zenon
  <2> QED
    BY <1>1, <2>2
<1>7. q \in Surjection(1 .. N, S)
  BY <1>5, <1>6, FS_Injection DEF N
<1>8. \A x \in S : \E i \in 1 .. N : q[i] = x
  BY <1>7 DEF Surjection
<1> QED
  BY <1>1, <1>4, <1>8 DEF q, N
-----------------------------------------------------------------------------
\* A stop that is on exactly with a critical condition is EmergencyMatches.
LEMMA StopFits ==
    ASSUME emergency' \in BOOLEAN, emergency' <=> AnyCritical(active')
    PROVE  EmergencyMatches'
<1>1. AnyCritical(active') \in BOOLEAN
  BY DEF AnyCritical
<1>2. emergency' = AnyCritical(active')
  BY <1>1
<1> QED
  BY <1>2, Zenon DEF EmergencyMatches

\* The state clear_condition works on.
Snapshot == [active |-> active, history |-> history, emergency |-> emergency]

\* What every step keeps of the conditions, whatever is suppressed.
Pauses == IsFiniteSet(Active) /\ NodeTypeOK /\ EmergencyMatches /\ HistoryTruthful

\* The inductive invariant.
Inv == Pauses /\ SuppressedStaysOut

\* The node's state is one clear_condition may start from.
LEMMA SnapshotFits ==
    ASSUME Pauses
    PROVE  Fits(Snapshot)
<1>1. /\ Snapshot.active = active /\ Snapshot.history = history
      /\ Snapshot.emergency = emergency
  BY DEF Snapshot
<1>2. emergency \in BOOLEAN
  BY DEF Pauses, NodeTypeOK
<1>3. emergency <=> AnyCritical(active)
  BY Zenon DEF Pauses, EmergencyMatches
<1>4. Snapshot.emergency \in BOOLEAN /\ (Snapshot.emergency <=> AnyCritical(Snapshot.active))
  BY <1>1, <1>2, <1>3, Zenon
<1>5. /\ IsFiniteSet(DOMAIN active)
      /\ \A d \in DOMAIN active : d \in Ids /\ active[d] \in Conditions
      /\ history \in Seq(Entry) /\ Len(history) <= HistoryMax
  BY DEF Pauses, NodeTypeOK, Active, Entry
<1>6. Truthful(history, DOMAIN active)
  BY DEF Pauses, HistoryTruthful, Truthful, Active
<1> QED
  BY <1>1, <1>4, <1>5, <1>6, Zenon DEF Fits

\* Clearing a set of conditions keeps all of it and removes exactly that set.
LEMMA ClearConditionsKeeps ==
    ASSUME Pauses, NEW C, ClearConditions(C),
           suppressed' \subseteq Patterns, saved' \subseteq Patterns
    PROVE  Pauses' /\ Active' = Active \ C
<1> DEFINE D == C \cap Active
           q == SetToSeq(D)
           N == Cardinality(D)
           st == ClearAll(Snapshot, q)
<1>1. Fits(Snapshot) /\ DOMAIN Snapshot.active = Active
  BY SnapshotFits DEF Snapshot, Active
<1>2. IsFiniteSet(D) /\ D \subseteq Ids
  BY FS_Subset DEF Pauses, NodeTypeOK
<1>3. /\ N \in Nat /\ DOMAIN q = 1 .. N
      /\ \A i \in 1 .. N : q[i] \in D
      /\ {q[i] : i \in 1 .. N} = D
  BY <1>2, SetToSeqCovers
<1>4. active' = st.active /\ history' = st.history /\ emergency' = st.emergency
  BY Zenon DEF ClearConditions, ClearAll, Snapshot
<1> HIDE DEF q, N
<1>5. Fits(st) /\ DOMAIN st.active = Active \ {q[i] : i \in 1 .. N}
  <2>1. \A i \in 1 .. N : q[i] \in Ids
    BY <1>2, <1>3
  <2> QED
    BY <1>1, <1>3, <2>1, FoldKeeps
<1> HIDE DEF st, D
<1>6. Active' = Active \ C
  BY <1>3, <1>4, <1>5 DEF Active, D
<1>7. emergency' \in BOOLEAN /\ (emergency' <=> AnyCritical(active'))
  BY <1>4, <1>5, Zenon DEF Fits
<1>8. EmergencyMatches'
  BY <1>7, StopFits
<1>9. IsFiniteSet(Active)' /\ HistoryTruthful'
  BY <1>4, <1>5 DEF Fits, HistoryTruthful, Truthful, Active
<1>10. NodeTypeOK'
  <2>1. /\ Active' \subseteq Ids /\ (\A c \in Active : active[c] \in Conditions)'
        /\ (history \in Seq([id : Ids, open : BOOLEAN]))' /\ (Len(history) <= HistoryMax)'
    BY <1>4, <1>5 DEF Fits, Active, Entry
  <2> QED
    BY <1>7, <2>1, Zenon DEF NodeTypeOK
<1> QED
  BY <1>6, <1>8, <1>9, <1>10, Zenon DEF Pauses

\* So does entering a new one, if the stop is raised with a critical one.
LEMMA AddConditionKeeps ==
    ASSUME Pauses, NEW c \in Ids, c \notin Active, NEW severity \in CRITICAL .. MEDIUM,
           NEW auto \in BOOLEAN, AddCondition(c, severity, auto),
           suppressed' \subseteq Patterns, saved' \subseteq Patterns,
           emergency' \in BOOLEAN, emergency' <=> (emergency \/ severity = CRITICAL)
    PROVE  Pauses' /\ Active' = Active \cup {c}
<1>1. /\ Active' = Active \cup {c}
      /\ \A d \in Active : active'[d] = active[d]
      /\ active'[c] = [severity |-> severity, auto |-> auto, age |-> 0]
  BY DEF AddCondition, Active
<1>2. IsFiniteSet(Active)'
  BY <1>1, FS_AddElement DEF Pauses
<1>3. active'[c] \in Conditions /\ active'[c].severity = severity
  BY <1>1, PauseAssumption DEF Conditions
<1>4. EmergencyMatches'
  <2>1. AnyCritical(active') <=> (AnyCritical(active) \/ severity = CRITICAL)
    BY <1>1, <1>3 DEF AnyCritical, Active
  <2>2. emergency <=> AnyCritical(active)
    BY Zenon DEF Pauses, EmergencyMatches
  <2>3. emergency' <=> AnyCritical(active')
    BY <2>1, <2>2, Zenon
  <2> QED
    BY <2>3, StopFits
<1>5. /\ history' \in Seq(Entry) /\ Len(history') <= HistoryMax
      /\ Truthful(history', Active')
  <2>1. history \in Seq(Entry) /\ Truthful(history, Active')
    BY <1>1 DEF Pauses, NodeTypeOK, Entry, HistoryTruthful, Truthful
  <2>2. \A i \in DOMAIN history : ~(history[i].open /\ history[i].id = c)
    BY DEF Pauses, HistoryTruthful
  <2>3. history' = Entered(history, c, TRUE)
    BY DEF AddCondition
  <2>4. TRUE \in BOOLEAN /\ c \in Active'
    BY <1>1
  <2> QED
    BY <2>1, <2>2, <2>3, <2>4, EnteredKeeps, Zenon
<1>6. HistoryTruthful'
  BY <1>5 DEF HistoryTruthful, Truthful
<1>7. NodeTypeOK'
  <2>1. Active' \subseteq Ids /\ (\A d \in Active : active[d] \in Conditions)'
    BY <1>1, <1>3 DEF Pauses, NodeTypeOK
  <2> QED
    BY <1>5, <2>1, Zenon DEF NodeTypeOK, Entry
<1> QED
  BY <1>1, <1>2, <1>4, <1>6, <1>7, Zenon DEF Pauses

-----------------------------------------------------------------------------
LEMMA InitInv == Init => Inv
<1> SUFFICES ASSUME Init PROVE Inv
  OBVIOUS
<1>1. active = <<>> /\ history = <<>> /\ emergency = FALSE
  BY DEF Init
<1>2. Active = {} /\ DOMAIN history = {} /\ history \in Seq(Entry) /\ Len(history) = 0
  BY <1>1 DEF Active
<1>3. IsFiniteSet(Active)
  BY <1>2, FS_EmptySet
<1>4. NodeTypeOK
  <2>1. emergency \in BOOLEAN
    BY <1>1, Zenon
  <2>2. suppressed \subseteq Patterns /\ saved \subseteq Patterns
    BY PauseAssumption DEF Init
  <2> QED
    BY <1>2, <2>1, <2>2, PauseAssumption DEF NodeTypeOK, Entry
<1>5. EmergencyMatches
  BY <1>1, <1>2, Zenon DEF EmergencyMatches, AnyCritical, Active
<1>6. HistoryTruthful /\ SuppressedStaysOut
  BY <1>2 DEF HistoryTruthful, SuppressedStaysOut
<1> QED
  BY <1>3, <1>4, <1>5, <1>6 DEF Inv, Pauses

\* The suppress list and its file stay lists of patterns.
LEMMA ListsTyped ==
    ASSUME Inv, [Next]_vars
    PROVE  suppressed' \subseteq Patterns /\ saved' \subseteq Patterns
<1> USE DEF Inv, Pauses, NodeTypeOK
<1>1. CASE OperatorStep
  BY <1>1 DEF OperatorStep, ManualPause, ManualUnpause, Resume, Suppress, Unsuppress, SaveSuppressed
<1>2. CASE \E r \in Reports : ConditionActive(r)
  BY <1>2 DEF ConditionActive
<1>3. CASE \E c \in Diagnosed : ConditionCleared(c)
  BY <1>3 DEF ConditionCleared
<1>4. CASE CheckStale \/ Tick
  BY <1>4 DEF CheckStale, Tick
<1>5. CASE Restart
  BY <1>5, PauseAssumption DEF Restart
<1>6. CASE UNCHANGED vars
  BY <1>6 DEF vars
<1> QED
  BY <1>1, <1>2, <1>3, <1>4, <1>5, <1>6 DEF Next

\* Clearing conditions keeps the suppressed ones out, as long as the list does
\* not grow by an id that stays active.
LEMMA ClearKeepsInv ==
    ASSUME Inv, NEW C, ClearConditions(C), saved' \subseteq Patterns,
           suppressed' \subseteq Patterns, suppressed' \subseteq suppressed \cup C
    PROVE  Inv'
<1>1. Pauses' /\ Active' = Active \ C
  BY ClearConditionsKeeps DEF Inv
<1>2. SuppressedStaysOut'
  BY <1>1 DEF Inv, SuppressedStaysOut
<1> QED
  BY <1>1, <1>2 DEF Inv

\* Nothing of the pauses changes.
LEMMA PausesUntouched ==
    ASSUME Pauses, UNCHANGED <<active, history, emergency>>,
           suppressed' \subseteq Patterns, saved' \subseteq Patterns
    PROVE  Pauses'
<1>1. Active' = Active
  BY DEF Active
<1>2. IsFiniteSet(Active)'
  BY <1>1 DEF Pauses
<1>3. NodeTypeOK'
  <2>1. emergency' \in BOOLEAN
    BY Zenon DEF Pauses, NodeTypeOK
  <2> QED
    BY <1>1, <2>1 DEF Pauses, NodeTypeOK
<1>4. EmergencyMatches'
  BY Zenon DEF Pauses, EmergencyMatches
<1>5. HistoryTruthful'
  BY <1>1 DEF Pauses, HistoryTruthful
<1> QED
  BY <1>2, <1>3, <1>4, <1>5, Zenon DEF Pauses

\* A report or a tick only changes ages.
LEMMA AgesKeep ==
    ASSUME Inv, Active' = Active,
           \A c \in Active : active'[c] \in Conditions /\ active'[c].severity = active[c].severity,
           UNCHANGED <<history, emergency, suppressed, saved>>
    PROVE  Inv'
<1>1. IsFiniteSet(Active)'
  BY DEF Inv, Pauses
<1>2. NodeTypeOK'
  <2>1. emergency' \in BOOLEAN
    BY Zenon DEF Inv, Pauses, NodeTypeOK
  <2> QED
    BY <2>1 DEF Inv, Pauses, NodeTypeOK
<1>3. EmergencyMatches'
  <2>1. AnyCritical(active') <=> AnyCritical(active)
    BY DEF AnyCritical, Active
  <2>2. emergency' <=> AnyCritical(active')
    BY <2>1, Zenon DEF Inv, Pauses, EmergencyMatches
  <2>3. emergency' \in BOOLEAN
    BY <1>2, Zenon DEF NodeTypeOK
  <2> QED
    BY <2>2, <2>3, StopFits
<1>4. HistoryTruthful' /\ SuppressedStaysOut'
  BY DEF Inv, Pauses, HistoryTruthful, SuppressedStaysOut
<1> QED
  BY <1>1, <1>2, <1>3, <1>4, Zenon DEF Inv, Pauses

\* A diagnostic report of a present condition.
LEMMA ReportKeeps ==
    ASSUME Inv, NEW r \in Reports, ConditionActive(r)
    PROVE  Inv'
<1>0. r.severity \in CRITICAL .. LOW /\ r.auto \in BOOLEAN /\ r.id \in Diagnosed /\ r.id \in Ids
  BY PauseAssumption DEF Diagnosed, Ids
<1>1. CASE r.id \in Active /\ active' = [active EXCEPT ![r.id].age = 0]
           /\ UNCHANGED <<history, emergency, suppressed, saved>>
  <2>1. Active' = Active
    BY <1>1 DEF Active
  <2>2. ASSUME NEW c \in Active
        PROVE  active'[c] \in Conditions /\ active'[c].severity = active[c].severity
    <3>1. active[c] \in Conditions
      BY DEF Inv, Pauses, NodeTypeOK
    <3>2. active'[c] = active[c] \/ active'[c] = [active[c] EXCEPT !.age = 0]
      BY <1>1 DEF Active
    <3> QED
      BY <3>1, <3>2, PauseAssumption DEF Conditions
  <2> QED
    BY <1>1, <2>1, <2>2, AgesKeep
<1>2. CASE /\ r.id \notin Active /\ ~IsSuppressed(r.id) /\ r.severity # LOW
           /\ AddCondition(r.id, r.severity, r.auto)
           /\ emergency' = (emergency \/ r.severity = CRITICAL)
           /\ UNCHANGED <<suppressed, saved>>
  <2>1. r.severity \in CRITICAL .. MEDIUM
    BY <1>0, <1>2 DEF CRITICAL, LOW, MEDIUM
  <2>2. suppressed' \subseteq Patterns /\ saved' \subseteq Patterns
    BY <1>2 DEF Inv, Pauses, NodeTypeOK
  <2>3. emergency' \in BOOLEAN /\ (emergency' <=> (emergency \/ r.severity = CRITICAL))
    <3>1. emergency \in BOOLEAN
      BY DEF Inv, Pauses, NodeTypeOK
    <3> QED
      BY <1>2, <3>1, Zenon
  <2>4. Pauses
    BY DEF Inv
  <2>5. Pauses' /\ Active' = Active \cup {r.id}
    BY <1>0, <1>2, <2>1, <2>2, <2>3, <2>4, AddConditionKeeps
  <2>6. r.id \notin Exact \cap suppressed
    BY <1>2, PauseAssumption DEF IsSuppressed, Inv, Pauses, NodeTypeOK
  <2>7. SuppressedStaysOut'
    BY <1>2, <2>5, <2>6 DEF Inv, SuppressedStaysOut
  <2> QED
    BY <2>5, <2>7 DEF Inv
<1> QED
  BY <1>1, <1>2 DEF ConditionActive

\* The operator's requests and services.
LEMMA OperatorKeeps ==
    ASSUME Inv, OperatorStep, suppressed' \subseteq Patterns, saved' \subseteq Patterns
    PROVE  Inv'
<1>1. ASSUME NEW c \in Operators, ManualPause(c) PROVE Inv'
  <2>1. c \in Ids /\ c \notin Diagnosed /\ HIGH \in CRITICAL .. MEDIUM /\ HIGH # CRITICAL
    BY PauseAssumption DEF Ids, HIGH, CRITICAL, MEDIUM
  <2>2. c \notin Active /\ AddCondition(c, HIGH, FALSE) /\ UNCHANGED <<emergency, suppressed, saved>>
    BY <1>1 DEF ManualPause
  <2>3. emergency' \in BOOLEAN /\ (emergency' <=> (emergency \/ HIGH = CRITICAL))
    <3>1. emergency \in BOOLEAN
      BY DEF Inv, Pauses, NodeTypeOK
    <3> QED
      BY <2>1, <2>2, <3>1, Zenon
  <2>4. Pauses /\ FALSE \in BOOLEAN
    BY DEF Inv
  <2>5. Pauses' /\ Active' = Active \cup {c}
    BY <2>1, <2>2, <2>3, <2>4, AddConditionKeeps, Zenon
  <2>6. SuppressedStaysOut'
    BY <2>1, <2>2, <2>5 DEF Inv, SuppressedStaysOut
  <2> QED
    BY <2>5, <2>6 DEF Inv
<1>2. ASSUME NEW c \in Operators, ManualUnpause(c) PROVE Inv'
  BY <1>2, ClearKeepsInv DEF ManualUnpause
<1>3. ASSUME NEW f \in Filters, Resume(f) PROVE Inv'
  BY <1>3, ClearKeepsInv DEF Resume
<1>4. ASSUME NEW p \in Patterns, Suppress(p) PROVE Inv'
  BY <1>4, ClearKeepsInv DEF Suppress
<1>5. ASSUME NEW p \in Patterns, Unsuppress(p) PROVE Inv'
  <2>1. Pauses'
    BY <1>5, PausesUntouched DEF Unsuppress, Inv
  <2>2. Active' = Active /\ suppressed' \subseteq suppressed
    BY <1>5 DEF Unsuppress, Active
  <2> QED
    BY <2>1, <2>2 DEF Inv, SuppressedStaysOut
<1> QED
  BY <1>1, <1>2, <1>3, <1>4, <1>5 DEF OperatorStep

\* Every step keeps the invariant.
LEMMA NextInv ==
    ASSUME Inv, [Next]_vars
    PROVE  Inv'
<1>0. suppressed' \subseteq Patterns /\ saved' \subseteq Patterns
  BY ListsTyped
<1>1. CASE OperatorStep
  BY <1>0, <1>1, OperatorKeeps
<1>2. ASSUME NEW r \in Reports, ConditionActive(r) PROVE Inv'
  BY <1>2, ReportKeeps
<1>3. ASSUME NEW c \in Diagnosed, ConditionCleared(c) PROVE Inv'
  BY <1>0, <1>3, ClearKeepsInv DEF ConditionCleared
<1>4. CASE CheckStale
  BY <1>0, <1>4, ClearKeepsInv DEF CheckStale
<1>5. CASE Tick
  <2>1. Active' = Active
    BY <1>5 DEF Tick, Active
  <2>2. ASSUME NEW c \in Active
        PROVE  active'[c] \in Conditions /\ active'[c].severity = active[c].severity
    <3>1. active[c] \in Conditions
      BY DEF Inv, Pauses, NodeTypeOK
    <3>2. active'[c] = [active[c] EXCEPT !.age = IF active[c].age > StaleTicks
                                                 THEN active[c].age ELSE active[c].age + 1]
      BY <1>5 DEF Tick
    <3> QED
      BY <3>1, <3>2, PauseAssumption DEF Conditions
  <2> QED
    BY <1>5, <2>1, <2>2, AgesKeep DEF Tick
<1>6. CASE Restart
  <2>1. active' = <<>> /\ history' = <<>> /\ emergency' = FALSE
    BY <1>6 DEF Restart
  <2>2. /\ Active' = {} /\ DOMAIN history' = {} /\ history' \in Seq(Entry)
        /\ Len(history') = 0
    BY <2>1 DEF Active
  <2>3. IsFiniteSet(Active)'
    BY <2>2, FS_EmptySet
  <2>4. emergency' \in BOOLEAN
    BY <2>1, Zenon
  <2>5. NodeTypeOK'
    BY <1>0, <2>2, <2>4, PauseAssumption DEF NodeTypeOK, Entry
  <2>6. EmergencyMatches'
    <3>1. ~AnyCritical(active')
      BY <2>2 DEF AnyCritical, Active
    <3>2. emergency' <=> AnyCritical(active')
      BY <2>1, <3>1, Zenon
    <3> QED
      BY <2>4, <3>2, StopFits
  <2>7. HistoryTruthful' /\ SuppressedStaysOut'
    BY <2>2 DEF HistoryTruthful, SuppressedStaysOut
  <2> QED
    BY <2>3, <2>5, <2>6, <2>7 DEF Inv, Pauses
<1>7. CASE UNCHANGED vars
  <2>1. UNCHANGED <<active, history, emergency, suppressed, saved>> /\ Active' = Active
    BY <1>7 DEF vars, Active
  <2>2. Pauses'
    BY <1>0, <2>1, PausesUntouched DEF Inv
  <2> QED
    BY <2>1, <2>2 DEF Inv, SuppressedStaysOut
<1> QED
  BY <1>1, <1>2, <1>3, <1>4, <1>5, <1>6, <1>7 DEF Next

-----------------------------------------------------------------------------
\* The invariant holds in every reachable state.
LEMMA Invariance == Spec => []Inv
<1>1. Inv /\ [Next]_vars => Inv'
  BY NextInv
<1> QED
  BY InitInv, <1>1, PTL DEF Spec

\* The history variable names a request and ids of conditions.
AskedTyped == asked \in [call : Calls, ids : SUBSET Ids]

LEMMA AskedStaysTyped == Spec => []AskedTyped
<1> USE DEF AskedTyped
<1>0. ASSUME NEW call \in Calls, NEW ids \in SUBSET Ids, Asked(call, ids)
      PROVE  AskedTyped'
  BY <1>0 DEF Asked
<1>1. NotAsked => AskedTyped'
  BY <1>0 DEF NotAsked, Calls
<1>2. Init => AskedTyped
  BY DEF Init, Calls
<1>3. ASSUME OperatorStep PROVE AskedTyped'
  <2>1. ASSUME NEW c \in Operators, ManualPause(c) PROVE AskedTyped'
    BY <1>1, <2>1 DEF ManualPause
  <2>2. ASSUME NEW c \in Operators, ManualUnpause(c) PROVE AskedTyped'
    <3>1. {c} \in SUBSET Ids /\ "unpause" \in Calls /\ Asked("unpause", {c})
      BY <2>2 DEF Ids, Calls, ManualUnpause
    <3> QED  BY <1>0, <3>1
  <2>3. ASSUME NEW f \in Filters, Resume(f) PROVE AskedTyped'
    <3>1. f \in SUBSET Ids /\ "resume" \in Calls /\ Asked("resume", f)
      BY <2>3, PauseAssumption DEF Calls, Resume
    <3> QED  BY <1>0, <3>1
  <2>4. ASSUME NEW p \in Patterns, Suppress(p) PROVE AskedTyped'
    <3>1. {p} \cap Ids \in SUBSET Ids /\ "suppress" \in Calls /\ Asked("suppress", {p} \cap Ids)
      BY <2>4 DEF Calls, Suppress
    <3> QED  BY <1>0, <3>1
  <2>5. ASSUME NEW p \in Patterns, Unsuppress(p) PROVE AskedTyped'
    BY <1>1, <2>5 DEF Unsuppress
  <2> QED  BY <1>3, <2>1, <2>2, <2>3, <2>4, <2>5 DEF OperatorStep
<1>4. ASSUME AskedTyped, [Next]_vars PROVE AskedTyped'
  <2>1. CASE \E r \in Reports : ConditionActive(r)
    BY <1>1, <2>1 DEF ConditionActive
  <2>2. CASE \E c \in Diagnosed : ConditionCleared(c)
    BY <1>1, <2>2 DEF ConditionCleared
  <2>3. CASE CheckStale \/ Tick
    BY <1>1, <2>3 DEF CheckStale, Tick
  <2>4. CASE Restart
    <3>1. Ids \in SUBSET Ids /\ "restart" \in Calls /\ Asked("restart", Ids)
      BY <2>4 DEF Calls, Restart
    <3> QED  BY <1>0, <3>1
  <2>5. CASE UNCHANGED vars
    BY <1>4, <2>5 DEF vars
  <2> QED  BY <1>3, <1>4, <2>1, <2>2, <2>3, <2>4, <2>5 DEF Next
<1> HIDE DEF AskedTyped
<1>5. AskedTyped /\ [Next]_vars => AskedTyped'
  BY <1>4
<1> QED  BY <1>2, <1>5, PTL DEF Spec

\* The type invariant: reports of severity LOW never become conditions, and
\* the history never outgrows history_max_entries.
THEOREM TypeCorrect == Spec => []TypeOK
<1>1. Inv => NodeTypeOK
  BY DEF Inv, Pauses
<1>2. NodeTypeOK /\ AskedTyped => TypeOK
  BY DEF TypeOK, AskedTyped
<1> QED
  BY Invariance, AskedStaysTyped, <1>1, <1>2, PTL

\* Zero velocity is sent exactly while a CRITICAL condition is active, however
\* many conditions one call clears and in whatever order.
THEOREM StopMatches == Spec => []EmergencyMatches
<1>1. Inv => EmergencyMatches
  BY DEF Inv, Pauses
<1> QED
  BY Invariance, <1>1, PTL

\* No history entry still calls a pause active that is over, and no condition
\* has two open entries, trimming included.
THEOREM HistoryIsTruthful == Spec => []HistoryTruthful
<1>1. Inv => HistoryTruthful
  BY DEF Inv, Pauses
<1> QED
  BY Invariance, <1>1, PTL

\* A suppressed id is not active, across suppression, late reports, failed
\* writes of the file and restarts.
THEOREM SuppressionHolds == Spec => []SuppressedStaysOut
<1>1. Inv => SuppressedStaysOut
  BY DEF Inv
<1> QED
  BY Invariance, <1>1, PTL

\* What HighWaits asks of a step and a condition.
AskedToEnd(c) ==
    /\ c \in asked'.ids
    /\ active[c].severity = CRITICAL => asked'.call # "resume"

\* The timer and the components' reports clear MEDIUM conditions only, the resume
\* service HIGH ones only, and every request what it names.
LEMMA OnlyRequestsEnd ==
    ASSUME Inv, Next, NEW c \in Active, active[c].severity \in {CRITICAL, HIGH},
           c \notin Active'
    PROVE  AskedToEnd(c)
<1>0. suppressed' \subseteq Patterns /\ saved' \subseteq Patterns
  BY ListsTyped
<1>1. ASSUME NEW C, ClearConditions(C) PROVE c \in C
  BY <1>0, <1>1, ClearConditionsKeeps DEF Inv
<1>2. MEDIUM \notin {CRITICAL, HIGH} /\ CRITICAL # HIGH
  BY DEF MEDIUM, CRITICAL, HIGH
<1>3. ASSUME NEW r \in Reports PROVE ~ConditionActive(r)
  BY DEF ConditionActive, AddCondition, Active
<1>4. ASSUME NEW d \in Diagnosed PROVE ~ConditionCleared(d)
  BY <1>1, <1>2 DEF ConditionCleared, SelfClearing
<1>5. ~CheckStale
  BY <1>1, <1>2 DEF CheckStale, Stale, SelfClearing
<1>6. ~Tick
  BY DEF Tick, Active
<1>7. c \in Ids
  BY DEF Inv, Pauses, NodeTypeOK
<1>8. ASSUME NEW d \in Operators PROVE ~ManualPause(d)
  BY DEF ManualPause, AddCondition, Active
<1>9. ASSUME NEW d \in Operators, ManualUnpause(d) PROVE AskedToEnd(c)
  BY <1>1, <1>9 DEF ManualUnpause, Asked, AskedToEnd
<1>10. ASSUME NEW f \in Filters, Resume(f) PROVE AskedToEnd(c)
  BY <1>1, <1>2, <1>10 DEF Resume, Resumable, Asked, AskedToEnd
<1>11. ASSUME NEW p \in Patterns, Suppress(p) PROVE AskedToEnd(c)
  BY <1>1, <1>7, <1>11 DEF Suppress, Asked, AskedToEnd
<1>12. ASSUME NEW p \in Patterns PROVE ~Unsuppress(p)
  BY DEF Unsuppress, Active
<1>13. Restart => AskedToEnd(c)
  BY <1>7 DEF Restart, Asked, AskedToEnd
<1> QED
  BY <1>3, <1>4, <1>5, <1>6, <1>8, <1>9, <1>10, <1>11, <1>12, <1>13 DEF Next, OperatorStep

\* Only a request that names it, or a restart of the node, ends a pause of severity
\* HIGH or CRITICAL, and no resume a CRITICAL one.
THEOREM HighPausesWait == Spec => HighWaits
<1>1. Inv /\ [Next]_vars
        => [\A c \in Active : active[c].severity \in {CRITICAL, HIGH} /\ c \notin DOMAIN active'
               => /\ c \in asked'.ids
                  /\ active[c].severity = CRITICAL => asked'.call # "resume"]_vars
  BY OnlyRequestsEnd DEF Active, AskedToEnd
<1> QED
  BY Invariance, <1>1, PTL DEF Spec, HighWaits
=============================================================================
