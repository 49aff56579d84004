---------------------------- MODULE Lists_proofs ----------------------------
(***************************************************************************)
(* What the proofs need to know of the walks of Lists.tla.  Visited is a   *)
(* least set, so no fact about it needs an induction: a process is shown   *)
(* to be visited by taking any closed set, and a closed set bounds the     *)
(* walk.  What is first on a list is found as the least of a set of        *)
(* numbers (LeastNumber, from the well-foundedness of < on Nat).           *)
(***************************************************************************)
EXTENDS Lists, SequencesExt, SequenceTheorems, WellFoundedInduction, TLAPS

\* S has h and is closed under nx until the loop stops
Closed(S, nx, h, Stop) == h \in S /\ \A x \in S \ Stop : nx[x] \in S

LEMMA VisitedDef ==
    ASSUME NEW P, NEW nx, NEW h, NEW Stop
    PROVE  /\ Visited(P, nx, h, Stop) \subseteq P
           /\ \A p \in P : p \in Visited(P, nx, h, Stop) <=>
                  \A S \in SUBSET P : Closed(S, nx, h, Stop) => p \in S
  BY DEF Visited, Closed

LEMMA VisitedLeast ==
    ASSUME NEW P, NEW nx, NEW h, NEW Stop,
           NEW S \in SUBSET P, Closed(S, nx, h, Stop)
    PROVE  Visited(P, nx, h, Stop) \subseteq S
  BY VisitedDef

LEMMA VisitedClosed ==
    ASSUME NEW P, NEW nx, NEW h \in P, NEW Stop,
           \A x \in Visited(P, nx, h, Stop) \ Stop : nx[x] \in P
    PROVE  Closed(Visited(P, nx, h, Stop), nx, h, Stop)
<1> DEFINE V == Visited(P, nx, h, Stop)
<1>1. h \in V
  BY VisitedDef DEF Closed
<1>2. ASSUME NEW x \in V \ Stop PROVE nx[x] \in V
  <2>1. x \in P /\ nx[x] \in P
    BY <1>2, VisitedDef
  <2>2. ASSUME NEW S \in SUBSET P, Closed(S, nx, h, Stop) PROVE nx[x] \in S
    <3>1. x \in S
      BY <2>2, VisitedLeast
    <3> QED  BY <2>2, <3>1 DEF Closed
  <2> QED  BY <2>1, <2>2, VisitedDef
<1> QED  BY <1>1, <1>2 DEF Closed

(***************************************************************************)
(* A walk depends only on the pointers it follows.                         *)
(***************************************************************************)
LEMMA VisitedFrame ==
    ASSUME NEW P, NEW nx, NEW ny, NEW h \in P, NEW Stop, NEW StopY,
           \A x \in Visited(P, nx, h, Stop) \ Stop : nx[x] \in P,
           \A x \in Visited(P, nx, h, Stop) :
               ny[x] = nx[x] /\ (x \in Stop <=> x \in StopY)
    PROVE  Visited(P, ny, h, StopY) = Visited(P, nx, h, Stop)
<1> DEFINE V == Visited(P, nx, h, Stop)
           W == Visited(P, ny, h, StopY)
<1>1. Closed(V, nx, h, Stop) /\ V \in SUBSET P
  BY VisitedClosed, VisitedDef
<1>2. Closed(V, ny, h, StopY)
  BY <1>1 DEF Closed
<1>3. W \subseteq V
  BY <1>1, <1>2, VisitedLeast
<1>4. Closed(W, ny, h, StopY)
  <2>1. \A x \in W \ StopY : ny[x] \in P
    BY <1>1, <1>2, <1>3 DEF Closed
  <2> QED  BY <2>1, VisitedClosed
<1>5. Closed(W, nx, h, Stop)
  BY <1>3, <1>4 DEF Closed
<1>6. V \subseteq W
  BY <1>1, <1>3, <1>5, VisitedLeast
<1> QED  BY <1>3, <1>6
-----------------------------------------------------------------------------
(* Sequences and the linked lists they stand for                           *)

LEMMA RemoveAtElements ==
    ASSUME NEW S, NEW s \in Seq(S), NEW i \in 1..Len(s)
    PROVE  /\ RemoveAt(s, i) \in Seq(S)
           /\ Len(RemoveAt(s, i)) = Len(s) - 1
           /\ \A j \in 1..(Len(s) - 1) :
                 RemoveAt(s, i)[j] = IF j < i THEN s[j] ELSE s[j + 1]
<1> DEFINE a == SubSeq(s, 1, i - 1)
           b == SubSeq(s, i + 1, Len(s))
<1>1. /\ a \in Seq(S) /\ Len(a) = i - 1
      /\ \A j \in 1..(i - 1) : a[j] = s[j]
  OBVIOUS
<1>2. /\ b \in Seq(S) /\ Len(b) = Len(s) - i
      /\ \A j \in 1..(Len(s) - i) : b[j] = s[i + j]
  OBVIOUS
<1>3. RemoveAt(s, i) = a \o b
  BY DEF RemoveAt
<1> HIDE DEF a, b
<1>4. /\ a \o b \in Seq(S) /\ Len(a \o b) = Len(a) + Len(b)
      /\ \A j \in 1..(Len(a) + Len(b)) :
            (a \o b)[j] = IF j <= Len(a) THEN a[j] ELSE b[j - Len(a)]
  BY <1>1, <1>2, ConcatProperties
<1>5. Len(s) \in Nat /\ i \in Int /\ Len(a) + Len(b) = Len(s) - 1
  BY <1>1, <1>2
<1>6. ASSUME NEW j \in 1..(Len(s) - 1)
      PROVE  (a \o b)[j] = IF j < i THEN s[j] ELSE s[j + 1]
  <2>0. /\ j \in 1..(Len(a) + Len(b))
        /\ (a \o b)[j] = IF j <= i - 1 THEN a[j] ELSE b[j - (i - 1)]
    BY <1>5, <1>1, <1>4
  <2>1. CASE j < i
    <3>1. j \in 1..(i - 1)
      BY <1>5, <2>1
    <3> QED  BY <1>1, <1>5, <2>0, <2>1, <3>1
  <2>2. CASE j >= i
    <3>1. j - (i - 1) \in 1..(Len(s) - i) /\ i + (j - (i - 1)) = j + 1
      BY <1>5, <2>2
    <3>2. b[j - (i - 1)] = s[i + (j - (i - 1))]
      BY <1>2, <3>1
    <3>3. (a \o b)[j] = b[j - (i - 1)]
      BY <1>5, <2>0, <2>2
    <3> QED  BY <1>5, <2>2, <3>1, <3>2, <3>3
  <2> QED  BY <1>5, <2>1, <2>2
<1> QED  BY <1>3, <1>4, <1>5, <1>6

LEMMA AppendElements ==
    ASSUME NEW S, NEW s \in Seq(S), NEW e \in S
    PROVE  /\ Append(s, e) \in Seq(S)
           /\ Len(Append(s, e)) = Len(s) + 1
           /\ \A j \in 1..Len(s) : Append(s, e)[j] = s[j]
           /\ Append(s, e)[Len(s) + 1] = e
  OBVIOUS

\* in place of an induction: where something holds of a number, it holds of a
\* least one
LEMMA LeastNumber ==
    ASSUME NEW T \in SUBSET Nat, T # {}
    PROVE  \E m \in T : \A k \in T : m <= k
<1>1. PICK m \in T : \A k \in T : ~ (<<k, m>> \in OpToRel(<, Nat))
  BY NatLessThanWellFounded, WFMin
<1>2. \A k \in T : ~ (k < m)
  BY <1>1 DEF OpToRel
<1> QED  BY <1>2

\* the first k processes of f; they follow one another through nx
UpTo(f, k)    == {f[i] : i \in 1..k}
Linked(f, nx) == \A i \in 1..(Len(f) - 1) : nx[f[i]] = f[i + 1]

(***************************************************************************)
(* A walk along a list touches its processes up to the first that stops it *)
(* and ends there.                                                         *)
(***************************************************************************)
LEMMA WalkAlong ==
    ASSUME NEW P, NEW f \in Seq(P), NEW nx, Linked(f, nx), NEW Stop,
           NEW k \in 1..Len(f), f[k] \in Stop,
           \A j \in 1..(k - 1) : f[j] \notin Stop
    PROVE  /\ Visited(P, nx, f[1], Stop) = UpTo(f, k)
           /\ WalkTo(P, nx, f[1], Stop) = f[k]
<1> DEFINE A == {f[i] : i \in 1..k}
           V == Visited(P, nx, f[1], Stop)
<1>0. Len(f) \in Nat /\ k \in Nat /\ k >= 1 /\ k <= Len(f)
  OBVIOUS
<1>1. \A i \in 1..k : f[i] \in P
  BY <1>0
<1>2. ASSUME NEW i \in 1..(k - 1) PROVE nx[f[i]] = f[i + 1] /\ i + 1 \in 1..k
  BY <1>0 DEF Linked
<1>3. V \subseteq A
  <2>1. A \in SUBSET P /\ f[1] \in A
    BY <1>0, <1>1
  <2>2. ASSUME NEW x \in A \ Stop PROVE nx[x] \in A
    <3>1. PICK i \in 1..k : x = f[i]
      OBVIOUS
    <3>2. i \in 1..(k - 1)
      BY <1>0, <2>2, <3>1
    <3> QED  BY <1>2, <3>1, <3>2
  <2> HIDE DEF A
  <2> QED  BY <2>1, <2>2, VisitedLeast DEF Closed
<1>4. ASSUME NEW S \in SUBSET P, Closed(S, nx, f[1], Stop), NEW i \in 1..k
      PROVE  f[i] \in S
  <2> SUFFICES ASSUME f[i] \notin S PROVE FALSE
    OBVIOUS
  <2> DEFINE T == {n \in 1..k : f[n] \notin S}
  <2>1. T \in SUBSET Nat /\ T # {}
    BY <1>0
  <2> HIDE DEF T
  <2>2. PICK m \in T : \A n \in T : m <= n
    BY <2>1, LeastNumber
  <2>3. m \in 1..k /\ f[m] \notin S
    BY DEF T
  <2>4. m # 1
    BY <1>4, <2>3 DEF Closed
  <2>5. m - 1 \in 1..(k - 1) /\ m - 1 \in 1..k /\ m - 1 + 1 = m
    BY <1>0, <2>3, <2>4
  <2>6. m - 1 \notin T
    BY <2>1, <2>2
  <2>7. f[m - 1] \in S
    BY <2>5, <2>6 DEF T
  <2>8. nx[f[m - 1]] = f[m]
    BY <1>2, <2>5
  <2> QED  BY <1>4, <2>3, <2>5, <2>7, <2>8 DEF Closed
<1>5. A \subseteq V
  <2>1. ASSUME NEW i \in 1..k PROVE f[i] \in V
    BY <1>1, <1>4, VisitedDef
  <2> QED  BY <2>1
<1>6. V = A
  BY <1>3, <1>5
<1>7. V \cap Stop = {f[k]}
  <2>1. f[k] \in A
    BY <1>0
  <2>2. ASSUME NEW x \in A \cap Stop PROVE x = f[k]
    <3>1. PICK i \in 1..k : x = f[i]
      OBVIOUS
    <3>2. i = k
      BY <1>0, <2>2, <3>1
    <3> QED  BY <3>1, <3>2
  <2> HIDE DEF A
  <2> QED  BY <1>6, <2>1, <2>2
<1> QED  BY <1>6, <1>7 DEF WalkTo, UpTo

\* where a list has a process that stops the walk, it has a first one
LEMMA FirstStop ==
    ASSUME NEW P, NEW f \in Seq(P), NEW Stop, NEW n \in 1..Len(f), f[n] \in Stop
    PROVE  \E k \in 1..Len(f) : /\ k <= n /\ f[k] \in Stop
                                /\ \A j \in 1..(k - 1) : f[j] \notin Stop
<1> DEFINE T == {k \in 1..Len(f) : f[k] \in Stop}
<1>1. T \in SUBSET Nat /\ n \in T
  OBVIOUS
<1> HIDE DEF T
<1>2. PICK k \in T : \A j \in T : k <= j
  BY <1>1, LeastNumber
<1>3. k \in 1..Len(f) /\ f[k] \in Stop
  BY DEF T
<1>4. ASSUME NEW j \in 1..(k - 1) PROVE f[j] \notin Stop
  <2>1. j \in 1..Len(f) /\ j < k
    BY <1>3
  <2>2. j \notin T
    BY <1>2, <1>3, <2>1
  <2> QED  BY <2>1, <2>2 DEF T
<1> QED  BY <1>1, <1>2, <1>3, <1>4

-----------------------------------------------------------------------------
(* Three sequences of which one gives an element to the end of the next    *)

Levels == 1..3

Demote(Q, l, i) == [Q EXCEPT ![l]     = RemoveAt(@, i),
                             ![l + 1] = Append(@, Q[l][i])]

AllPlaced(Q, T) == \A t \in T : \E l \in Levels : \E i \in 1..Len(Q[l]) : Q[l][i] = t

PlacedOnce(Q) ==
    \A k, l \in Levels : \A i \in 1..Len(Q[k]), j \in 1..Len(Q[l]) :
        Q[k][i] = Q[l][j] => k = l /\ i = j

LEMMA DemoteElements ==
    ASSUME NEW T, NEW Q \in [Levels -> Seq(T)], NEW l \in {1, 2}, NEW i \in 1..Len(Q[l])
    PROVE  /\ Demote(Q, l, i) \in [Levels -> Seq(T)]
           /\ Demote(Q, l, i)[l] = RemoveAt(Q[l], i)
           /\ Demote(Q, l, i)[l + 1] = Append(Q[l + 1], Q[l][i])
           /\ \A k \in Levels \ {l, l + 1} : Demote(Q, l, i)[k] = Q[k]
<1>1. l \in Levels /\ l + 1 \in Levels /\ l # l + 1
  BY DEF Levels
<1>2. Q[l] \in Seq(T) /\ Q[l + 1] \in Seq(T) /\ Q[l][i] \in T
  BY <1>1
<1>3. RemoveAt(Q[l], i) \in Seq(T)
  BY <1>2, RemoveAtElements
<1>4. Append(Q[l + 1], Q[l][i]) \in Seq(T)
  BY <1>2
<1> QED  BY <1>1, <1>3, <1>4 DEF Demote

LEMMA DemoteKeepsPlaces ==
    ASSUME NEW T, NEW Q \in [Levels -> Seq(T)], AllPlaced(Q, T), PlacedOnce(Q),
           NEW l \in {1, 2}, NEW i \in 1..Len(Q[l])
    PROVE  AllPlaced(Demote(Q, l, i), T) /\ PlacedOnce(Demote(Q, l, i))
<1> DEFINE R == Demote(Q, l, i)
           r == RemoveAt(Q[l], i)
           a == Append(Q[l + 1], Q[l][i])
<1>1. l \in Levels /\ l + 1 \in Levels /\ l # l + 1
  BY DEF Levels
<1>2. Q[l] \in Seq(T) /\ Q[l + 1] \in Seq(T) /\ Q[l][i] \in T
  BY <1>1
<1>3. R[l] = r /\ R[l + 1] = a /\ \A k \in Levels \ {l, l + 1} : R[k] = Q[k]
  BY <1>1 DEF Demote
<1>4. /\ Len(r) = Len(Q[l]) - 1
      /\ \A j \in 1..(Len(Q[l]) - 1) :
            r[j] = IF j < i THEN Q[l][j] ELSE Q[l][j + 1]
  BY <1>2, RemoveAtElements
<1>5. /\ Len(a) = Len(Q[l + 1]) + 1
      /\ \A j \in 1..Len(Q[l + 1]) : a[j] = Q[l + 1][j]
      /\ a[Len(Q[l + 1]) + 1] = Q[l][i]
  BY <1>2, AppendElements
<1> HIDE DEF r, a, R
\* every place after the step comes from a place before it, injectively
<1> DEFINE oldL(x, y) == IF x = l + 1 /\ y = Len(Q[l + 1]) + 1 THEN l ELSE x
           oldI(x, y) == IF x = l + 1 /\ y = Len(Q[l + 1]) + 1 THEN i
                         ELSE IF x = l /\ y >= i THEN y + 1 ELSE y
<1>6. ASSUME NEW k \in Levels, NEW j \in 1..Len(R[k])
      PROVE  /\ oldL(k, j) \in Levels
             /\ oldI(k, j) \in 1..Len(Q[oldL(k, j)])
             /\ R[k][j] = Q[oldL(k, j)][oldI(k, j)]
             /\ (oldL(k, j) = l /\ k = l) => oldI(k, j) # i
  <2>1. CASE k = l
    BY <1>1, <1>2, <1>3, <1>4, <2>1
  <2>2. CASE k = l + 1
    <3>1. j \in 1..(Len(Q[l + 1]) + 1)
      BY <1>3, <1>5, <2>2
    <3>2. CASE j = Len(Q[l + 1]) + 1
      BY <1>1, <1>3, <1>5, <2>2, <3>2
    <3>3. CASE j # Len(Q[l + 1]) + 1
      <4>1. j \in 1..Len(Q[l + 1])
        BY <1>2, <3>1, <3>3
      <4> QED  BY <1>1, <1>3, <1>5, <2>2, <3>3, <4>1
    <3> QED  BY <3>2, <3>3
  <2>3. CASE k \in Levels \ {l, l + 1}
    BY <1>3, <2>3
  <2> QED  BY <2>1, <2>2, <2>3
<1>7. PlacedOnce(R)
  <2> SUFFICES ASSUME NEW k \in Levels, NEW m \in Levels,
                      NEW j \in 1..Len(R[k]), NEW n \in 1..Len(R[m]),
                      R[k][j] = R[m][n]
               PROVE  k = m /\ j = n
    BY DEF PlacedOnce
  <2>1. oldL(k, j) = oldL(m, n) /\ oldI(k, j) = oldI(m, n)
    <3> HIDE DEF oldL, oldI
    <3>1. Q[oldL(k, j)][oldI(k, j)] = Q[oldL(m, n)][oldI(m, n)]
      BY <1>6
    <3> QED  BY <1>6, <3>1 DEF PlacedOnce
  <2>2. j \in Int /\ n \in Int /\ i \in Int /\ l \in Int
    OBVIOUS
  <2>3. Q[l + 1] \in Seq(T) /\ Len(Q[l + 1]) \in Nat
    BY <1>2
  <2>4. k = l + 1 /\ j = Len(Q[l + 1]) + 1 => j \notin 1..Len(Q[l + 1])
    BY <2>2, <2>3
  <2>5. CASE (k = l + 1 /\ j = Len(Q[l + 1]) + 1) \/ (m = l + 1 /\ n = Len(Q[l + 1]) + 1)
    BY <1>1, <1>3, <1>4, <1>6, <2>1, <2>2, <2>3, <2>5
  <2>6. CASE ~ ((k = l + 1 /\ j = Len(Q[l + 1]) + 1) \/ (m = l + 1 /\ n = Len(Q[l + 1]) + 1))
    BY <2>1, <2>2, <2>6
  <2> QED  BY <2>5, <2>6
<1>8. AllPlaced(R, T)
  <2> SUFFICES ASSUME NEW t \in T
               PROVE  \E k \in Levels : \E j \in 1..Len(R[k]) : R[k][j] = t
    BY DEF AllPlaced
  <2>0. PICK k \in Levels : \E j \in 1..Len(Q[k]) : Q[k][j] = t
    BY DEF AllPlaced
  <2>1. PICK j \in 1..Len(Q[k]) : Q[k][j] = t
    BY <2>0
  <2>2. CASE k = l /\ j = i
    <3>1. Len(Q[l + 1]) + 1 \in 1..Len(R[l + 1])
      BY <1>2, <1>3, <1>5
    <3>2. R[l + 1][Len(Q[l + 1]) + 1] = t
      BY <1>3, <1>5, <2>1, <2>2
    <3> QED  BY <1>1, <3>1, <3>2
  <2>3. CASE k = l /\ j < i
    <3>1. j \in 1..Len(R[l]) /\ R[l][j] = t
      BY <1>2, <1>3, <1>4, <2>1, <2>3
    <3> QED  BY <1>1, <3>1
  <2>4. CASE k = l /\ j > i
    <3>1. j - 1 \in 1..Len(R[l]) /\ R[l][j - 1] = t
      BY <1>2, <1>3, <1>4, <2>1, <2>4
    <3> QED  BY <1>1, <3>1
  <2>5. CASE k = l + 1
    <3>1. j \in 1..Len(R[l + 1]) /\ R[l + 1][j] = t
      BY <1>2, <1>3, <1>5, <2>1, <2>5
    <3> QED  BY <1>1, <3>1
  <2>6. CASE k \in Levels \ {l, l + 1}
    BY <1>3, <2>1, <2>6
  <2> QED  BY <2>1, <2>2, <2>3, <2>4, <2>5, <2>6
<1> QED  BY <1>7, <1>8 DEF R
=============================================================================
