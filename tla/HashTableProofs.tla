--------------------------- MODULE HashTableProofs ---------------------------
(***************************************************************************)
(* Proofs about HashTable, for every set of ids, every hash function and   *)
(* every sequence of operations: the list and the chains are sound, and    *)
(* the table is the map of ProcessTable.                                   *)
(*                                                                         *)
(* A list that is linked both ways is described by what each member and    *)
(* its neighbours say of each other, and by a rank that goes down along    *)
(* its links, so that it has no cycle.  Where a member stands in the list  *)
(* is never said, so a change at one place leaves the rest as it was.      *)
(***************************************************************************)
EXTENDS HashTable, Induction, FiniteSetTheorems

OrNone == Tid \cup {NoTid}

(* The members of S are linked, from first on.                             *)
Linked(S, first, next, prev, rank) ==
  /\ first \in S \cup {NoTid}
  /\ first = NoTid => S = {}
  /\ \A e \in S : /\ next[e] \in S \cup {NoTid}
                  /\ prev[e] \in S \cup {NoTid}
                  /\ prev[e] = NoTid <=> e = first
                  /\ next[e] # NoTid => rank[next[e]] < rank[e]
  /\ \A e, f \in S : next[e] = f <=> prev[f] = e

(* last is the end of the list.                                            *)
Ends(S, next, last) ==
  /\ last \in S \cup {NoTid}
  /\ last = NoTid => S = {}
  /\ \A e \in S : next[e] = NoTid <=> e = last

(* Ranks are between -m and m, so that there is always room at both ends.  *)
Ranks(rank, m) == m \in Nat /\ rank \in [Tid -> Int] /\ \A t \in Tid : -m < rank[t] /\ rank[t] < m

-----------------------------------------------------------------------------
(* There are N + 1 steps along links, whatever they are.                   *)
LEMMA WalkExists ==
  ASSUME NEW first \in OrNone, NEW link \in [Tid -> OrNone], NEW N \in Nat
  PROVE  \E f : f = [n \in 0..N |->
                       IF n = 0 THEN first ELSE IF f[n - 1] = NoTid THEN NoTid ELSE link[f[n - 1]]]
<1>. DEFINE Path(f, n) ==
              /\ f \in [0..n -> OrNone]
              /\ f[0] = first
              /\ \A i \in 1..n : f[i] = IF f[i - 1] = NoTid THEN NoTid ELSE link[f[i - 1]]
            S == {n \in Nat : \E f : Path(f, n)}
<1>1. 0 \in S
  <2>1. Path([i \in 0..0 |-> first], 0)
    OBVIOUS
  <2>. QED BY <2>1
<1>2. ASSUME NEW n \in S
      PROVE  n + 1 \in S
  <2>1. PICK f : Path(f, n)
    OBVIOUS
  <2>. DEFINE next == IF f[n] = NoTid THEN NoTid ELSE link[f[n]]
              g == [i \in 0..n+1 |-> IF i = n + 1 THEN next ELSE f[i]]
  <2>2. f[n] \in OrNone /\ next \in OrNone
    BY <2>1, TasksAssumption DEF OrNone
  <2>. HIDE DEF next
  <2>3. g \in [0..n+1 -> OrNone]
    BY <2>1, <2>2
  <2>4. g[0] = first
    BY <2>1
  <2>5. ASSUME NEW i \in 1..n+1
        PROVE  g[i] = IF g[i - 1] = NoTid THEN NoTid ELSE link[g[i - 1]]
    <3>1. CASE i = n + 1
      BY <3>1 DEF next
    <3>2. CASE i \in 1..n
      <4>1. g[i] = f[i] /\ g[i - 1] = f[i - 1]
        BY <3>2
      <4>. QED BY <2>1, <3>2, <4>1
    <3>. QED BY <3>1, <3>2
  <2>6. Path(g, n + 1)
    BY <2>3, <2>4, <2>5
  <2>7. n + 1 \in Nat
    OBVIOUS
  <2>. HIDE DEF g, Path
  <2>. QED BY <2>6, <2>7
<1>. HIDE DEF S
<1>3. N \in S
  <2>1. S \in SUBSET Nat
    BY DEF S
  <2>. QED BY <1>1, <1>2, <2>1, SetInduction
<1>4. PICK f : Path(f, N)
  BY <1>3 DEF S
<1>5. f = [n \in 0..N |->
             IF n = 0 THEN first ELSE IF f[n - 1] = NoTid THEN NoTid ELSE link[f[n - 1]]]
  <2>1. \A n \in 0..N : f[n] = IF n = 0 THEN first
                               ELSE IF f[n - 1] = NoTid THEN NoTid ELSE link[f[n - 1]]
    BY <1>4
  <2>. QED BY <1>4, <2>1
<1>. QED BY <1>5

(* What Walk collects, met step by step.                                   *)
LEMMA WalkSteps ==
  ASSUME NEW first \in OrNone, NEW link \in [Tid -> OrNone]
  PROVE  \E met \in [0..Cardinality(Tid) -> OrNone] :
           /\ Walk(first, link) = {met[n] : n \in 0..Cardinality(Tid)} \ {NoTid}
           /\ met[0] = first
           /\ \A n \in 1..Cardinality(Tid) :
                met[n] = IF met[n - 1] = NoTid THEN NoTid ELSE link[met[n - 1]]
<1>. DEFINE N == Cardinality(Tid)
            F(f) == [n \in 0..N |->
                       IF n = 0 THEN first ELSE IF f[n - 1] = NoTid THEN NoTid ELSE link[f[n - 1]]]
            met == CHOOSE f : f = F(f)
<1>1. N \in Nat
  BY TasksAssumption, FS_CardinalityType
<1>2. Walk(first, link) = {met[n] : n \in 0..N} \ {NoTid}
  BY DEF Walk
<1>3. met = F(met)
  BY <1>1, WalkExists
<1>. HIDE DEF met
<1>4. \A n \in 0..N : met[n] = IF n = 0 THEN first
                               ELSE IF met[n - 1] = NoTid THEN NoTid ELSE link[met[n - 1]]
  BY <1>3
<1>. DEFINE S == {n \in Nat : n \in 0..N => met[n] \in OrNone}
<1>5. S = Nat
  <2>1. 0 \in S
    BY <1>1, <1>4
  <2>2. ASSUME NEW n \in S PROVE n + 1 \in S
    <3>. SUFFICES ASSUME n + 1 \in 0..N PROVE met[n + 1] \in OrNone
      OBVIOUS
    <3>1. met[n] \in OrNone
      BY <1>1
    <3>2. met[n + 1] = IF met[n] = NoTid THEN NoTid ELSE link[met[n]]
      BY <1>1, <1>4
    <3>. QED BY <3>1, <3>2, TasksAssumption DEF OrNone
  <2>3. S \in SUBSET Nat
    OBVIOUS
  <2>. HIDE DEF S
  <2>. QED BY <2>1, <2>2, <2>3, SetInduction
<1>6. met \in [0..N -> OrNone]
  <2>1. \A n \in 0..N : n \in S
    BY <1>1, <1>5
  <2>. QED BY <1>3, <2>1
<1>7. met[0] = first
  BY <1>1, <1>4
<1>8. \A n \in 1..N : met[n] = IF met[n - 1] = NoTid THEN NoTid ELSE link[met[n - 1]]
  BY <1>1, <1>4
<1>. QED BY <1>2, <1>6, <1>7, <1>8

(* A walk along a linked list meets its members and nothing else.          *)
LEMMA WalkAll ==
  ASSUME NEW S \in SUBSET Tid, NEW first, NEW next \in [Tid -> OrNone], NEW prev,
         NEW rank, NEW m, Ranks(rank, m), Linked(S, first, next, prev, rank)
  PROVE  Walk(first, next) = S
<1>. DEFINE N == Cardinality(Tid)
<1>1. N \in Nat /\ first \in OrNone /\ NoTid \notin S
  BY TasksAssumption, FS_CardinalityType DEF Linked, OrNone
<1>2. PICK met \in [0..N -> OrNone] :
        /\ Walk(first, next) = {met[n] : n \in 0..N} \ {NoTid}
        /\ met[0] = first
        /\ \A n \in 1..N : met[n] = IF met[n - 1] = NoTid THEN NoTid ELSE next[met[n - 1]]
  BY <1>1, WalkSteps
<1>3. ASSUME NEW n \in Nat, n + 1 \in 0..N, met[n] \in S
      PROVE  met[n + 1] = next[met[n]]
  <2>1. n + 1 \in 1..N /\ (n + 1) - 1 = n
    BY <1>1, <1>3
  <2>. QED BY <1>1, <1>2, <1>3, <2>1
<1>. HIDE DEF N
<1>. DEFINE A == {n \in Nat : n \in 0..N => met[n] \in S \cup {NoTid}}
<1>4. A = Nat
  <2>1. 0 \in A
    BY <1>1, <1>2 DEF Linked
  <2>2. ASSUME NEW n \in A PROVE n + 1 \in A
    <3>. SUFFICES ASSUME n + 1 \in 0..N PROVE met[n + 1] \in S \cup {NoTid}
      OBVIOUS
    <3>1. met[n] \in S \cup {NoTid}
      BY <1>1
    <3>2. CASE met[n] \in S
      BY <1>3, <3>2 DEF Linked
    <3>3. CASE met[n] = NoTid
      <4>1. n + 1 \in 1..N /\ (n + 1) - 1 = n
        BY <1>1
      <4>. QED BY <1>2, <3>3, <4>1
    <3>. QED BY <3>1, <3>2, <3>3
  <2>3. A \in SUBSET Nat
    OBVIOUS
  <2>. HIDE DEF A
  <2>. QED BY <2>1, <2>2, <2>3, SetInduction
<1>5. \A n \in 0..N : met[n] \in S \cup {NoTid}
  BY <1>1, <1>4
<1>. HIDE DEF A
<1>. DEFINE B == {n \in Nat : n \in 0..N /\ met[n] \in S =>
                    \A i \in 0..n : met[i] \in S /\ (i < n => rank[met[n]] < rank[met[i]])}
<1>6. B = Nat
  <2>1. 0 \in B
    OBVIOUS
  <2>2. ASSUME NEW n \in B PROVE n + 1 \in B
    <3>. SUFFICES ASSUME n + 1 \in 0..N, met[n + 1] \in S, NEW i \in 0..n+1
                  PROVE  met[i] \in S /\ (i < n + 1 => rank[met[n + 1]] < rank[met[i]])
      OBVIOUS
    <3>1. n \in 0..N /\ n + 1 \in 1..N /\ (n + 1) - 1 = n
      BY <1>1
    <3>2. met[n] \in S
      BY <1>1, <1>2, <1>5, <3>1
    <3>3. rank[met[n + 1]] < rank[met[n]]
      BY <1>1, <1>3, <3>2 DEF Linked
    <3>4. CASE i = n + 1
      BY <3>4
    <3>5. CASE i = n
      BY <3>2, <3>3, <3>5
    <3>6. CASE i < n
      <4>1. i \in 0..n
        BY <3>6
      <4>2. met[i] \in S /\ rank[met[n]] < rank[met[i]]
        BY <3>1, <3>2, <3>6, <4>1
      <4>3. rank[met[n + 1]] \in Int /\ rank[met[n]] \in Int /\ rank[met[i]] \in Int
        BY <3>2, <4>2 DEF Ranks
      <4>. QED BY <3>3, <4>2, <4>3
    <3>. QED BY <3>4, <3>5, <3>6
  <2>3. B \in SUBSET Nat
    OBVIOUS
  <2>. HIDE DEF B
  <2>. QED BY <2>1, <2>2, <2>3, SetInduction
<1>7. met[N] \notin S
  <2>. SUFFICES ASSUME met[N] \in S PROVE FALSE
    OBVIOUS
  <2>1. \A i \in 0..N : met[i] \in S
    BY <1>1, <1>6
  <2>2. ASSUME NEW i \in 0..N, NEW j \in 0..N, i < j
        PROVE  met[i] # met[j]
    <3>1. j \in B /\ i \in 0..j /\ met[j] \in S
      BY <1>1, <1>6, <2>1, <2>2
    <3>2. rank[met[j]] < rank[met[i]]
      BY <2>2, <3>1
    <3>3. rank[met[j]] \in Int
      BY <3>1 DEF Ranks
    <3>. QED BY <3>2, <3>3
  <2>3. met \in Injection(0..N, Tid)
    <3>1. met \in [0..N -> Tid]
      BY <1>2, <2>1
    <3>2. ASSUME NEW i \in 0..N, NEW j \in 0..N, met[i] = met[j]
          PROVE  i = j
      BY <1>1, <2>2, <3>2
    <3>. QED BY <3>1, <3>2 DEF Injection, IsInjective
  <2>4. Cardinality(0..N) = N + 1
    BY <1>1, FS_Interval
  <2>5. Cardinality(0..N) <= N
    BY <2>3, TasksAssumption, FS_Injection DEF N
  <2>. QED BY <1>1, <2>4, <2>5
<1>. DEFINE Met == {met[n] : n \in 0..N}
<1>8. ASSUME NEW e \in S
      PROVE  e \in Met
  <2>. SUFFICES ASSUME e \notin Met PROVE FALSE
    OBVIOUS
  <2>. DEFINE U == {m - rank[u] : u \in S \ Met}
  <2>1. U \in SUBSET Nat /\ U # {}
    <3>1. \A u \in S : m - rank[u] \in Nat
      BY DEF Ranks
    <3>. QED BY <3>1
  <2>2. PICK d \in U : \A c \in U : d <= c
    BY <2>1, LeastNat
  <2>3. PICK u \in S \ Met : d = m - rank[u]
    OBVIOUS
  <2>4. u # first
    BY <1>1, <1>2
  <2>5. prev[u] \in S /\ next[prev[u]] = u
    BY <1>1, <2>4 DEF Linked
  <2>6. rank[u] < rank[prev[u]]
    BY <1>1, <2>5 DEF Linked
  <2>7. prev[u] \in Met
    <3>. SUFFICES ASSUME prev[u] \notin Met PROVE FALSE
      OBVIOUS
    <3>1. m - rank[prev[u]] \in U
      BY <2>5
    <3>2. m \in Int /\ rank[u] \in Int /\ rank[prev[u]] \in Int
      BY <2>5 DEF Ranks
    <3>3. d <= m - rank[prev[u]]
      BY <2>2, <3>1
    <3>. QED BY <2>3, <2>6, <3>2, <3>3
  <2>8. PICK n \in 0..N : met[n] = prev[u]
    BY <2>7
  <2>9. n # N
    BY <1>7, <2>5, <2>8
  <2>10. n + 1 \in 0..N /\ n \in Nat
    BY <1>1, <2>9
  <2>11. met[n + 1] = u
    BY <1>3, <2>5, <2>8, <2>10
  <2>. QED BY <2>10, <2>11
<1>. QED BY <1>1, <1>2, <1>5, <1>8 DEF N

-----------------------------------------------------------------------------
(* A list stays linked while nothing is written to its members.            *)
LEMMA LinkedFrame ==
  ASSUME NEW S \in SUBSET Tid, NEW first, NEW next, NEW prev, NEW rank,
         NEW next1, NEW prev1, NEW rank1,
         Linked(S, first, next, prev, rank),
         \A e \in S : next1[e] = next[e] /\ prev1[e] = prev[e] /\ rank1[e] = rank[e]
  PROVE  Linked(S, first, next1, prev1, rank1)
BY DEF Linked

(* The first entry of a list points back to nothing.                       *)
LEMMA LinkedHead ==
  ASSUME NEW S \in SUBSET Tid, NEW first, NEW next, NEW prev \in [Tid -> OrNone], NEW rank,
         Linked(S, first, next, prev, rank)
  PROVE  Linked(S, first, next, [prev EXCEPT ![first] = NoTid], rank)
<1>. DEFINE prev1 == [prev EXCEPT ![first] = NoTid]
<1>1. \A e \in S : prev1[e] = prev[e]
  BY DEF Linked
<1>. HIDE DEF prev1
<1>2. Linked(S, first, next, prev1, rank)
  BY <1>1, LinkedFrame
<1>. QED BY <1>2 DEF prev1

(* t is put in front of a list.                                            *)
LEMMA LinkedPrepend ==
  ASSUME NEW S \in SUBSET Tid, NEW first, NEW next, NEW prev, NEW rank, NEW m, NEW t \in Tid \ S,
         NEW next1, NEW prev1, NEW rank1, Ranks(rank, m),
         Linked(S, first, next, prev, rank),
         next1[t] = first, prev1[t] = NoTid, rank1[t] = m,
         \A e \in S : /\ next1[e] = next[e] /\ rank1[e] = rank[e]
                      /\ prev1[e] = IF e = first THEN t ELSE prev[e]
  PROVE  Linked(S \cup {t}, t, next1, prev1, rank1)
<1>1. NoTid \notin S /\ t # NoTid /\ t \notin S /\ first \in S \cup {NoTid}
  BY TasksAssumption DEF Linked
<1>2. ASSUME NEW e \in S
      PROVE  /\ next1[e] \in S \cup {NoTid}
             /\ prev1[e] \in S \cup {t} /\ prev1[e] # NoTid
             /\ next1[e] # NoTid => rank1[next1[e]] < rank1[e]
             /\ next1[e] # t
             /\ prev1[e] = t <=> e = first
  BY <1>1 DEF Linked
<1>3. next1[t] # NoTid => rank1[next1[t]] < rank1[t]
  BY <1>1 DEF Ranks
<1>4. ASSUME NEW e \in S, NEW f \in S
      PROVE  next1[e] = f <=> prev1[f] = e
  BY <1>1 DEF Linked
<1>5. ASSUME NEW f \in S
      PROVE  next1[t] = f <=> prev1[f] = t
  BY <1>1, <1>2
<1>. QED BY <1>1, <1>2, <1>3, <1>4, <1>5 DEF Linked

(* t is put at the end of a list.                                          *)
AppendsTo(S, t, first, next, prev, rank, last, first1, next1, prev1, rank1) ==
  /\ first1 = IF first = NoTid THEN t ELSE first
  /\ next1[t] = NoTid /\ prev1[t] = last
  /\ \A e \in S : /\ next1[e] = IF e = last THEN t ELSE next[e]
                  /\ prev1[e] = prev[e] /\ rank1[e] = rank[e] /\ rank1[t] < rank[e]

LEMMA LinkedAppend ==
  ASSUME NEW S \in SUBSET Tid, NEW first, NEW next, NEW prev, NEW rank, NEW t \in Tid \ S,
         NEW last, NEW first1, NEW next1, NEW prev1, NEW rank1,
         Linked(S, first, next, prev, rank), Ends(S, next, last),
         AppendsTo(S, t, first, next, prev, rank, last, first1, next1, prev1, rank1)
  PROVE  /\ Linked(S \cup {t}, first1, next1, prev1, rank1)
         /\ Ends(S \cup {t}, next1, t)
<1>. USE DEF AppendsTo
<1>1. /\ NoTid \notin S /\ t # NoTid /\ t \notin S /\ first \in S \cup {NoTid}
      /\ last \in S \cup {NoTid} /\ first1 \in S \cup {t} /\ first1 # NoTid
      /\ first1 = t <=> S = {}
      /\ last = NoTid <=> S = {}
  BY TasksAssumption DEF Linked, Ends
<1>2. ASSUME NEW e \in S
      PROVE  /\ next1[e] \in S \cup {t, NoTid}
             /\ prev1[e] \in S \cup {NoTid}
             /\ prev1[e] = NoTid <=> e = first1
             /\ next1[e] = t <=> e = last
  BY <1>1 DEF Linked, Ends
<1>3. ASSUME NEW e \in S, next1[e] # NoTid
      PROVE  rank1[next1[e]] < rank1[e]
  <2>1. CASE e = last
    BY <1>1, <2>1
  <2>2. CASE e # last
    BY <1>1, <1>3, <2>2 DEF Linked
  <2>. QED BY <2>1, <2>2
<1>4. ASSUME NEW e \in S, NEW f \in S
      PROVE  next1[e] = f <=> prev1[f] = e
  <2>1. CASE e = last
    <3>1. next[e] = NoTid
      BY <2>1 DEF Ends
    <3>2. prev[f] # e
      BY <1>1, <3>1 DEF Linked
    <3>. QED BY <1>1, <2>1, <3>2
  <2>2. CASE e # last
    BY <2>2 DEF Linked
  <2>. QED BY <2>1, <2>2
<1>5. ASSUME NEW e \in S
      PROVE  /\ next1[e] = t <=> prev1[t] = e
             /\ next1[t] # e /\ prev1[e] # t
  BY <1>1, <1>2
<1>6. prev1[t] = NoTid <=> t = first1
  BY <1>1
<1>7. ASSUME NEW e \in S
      PROVE  next1[e] # NoTid
  BY <1>1 DEF Ends
<1>8. Linked(S \cup {t}, first1, next1, prev1, rank1)
  BY <1>1, <1>2, <1>3, <1>4, <1>5, <1>6 DEF Linked
<1>9. Ends(S \cup {t}, next1, t)
  BY <1>1, <1>7 DEF Ends
<1>. QED BY <1>8, <1>9

(* t leaves a list, and its neighbours point past it.                      *)
LeavesOut(S, t, first, next, prev, first1, next1, prev1) ==
  /\ first1 = IF t = first THEN next[t] ELSE first
  /\ \A e \in S \ {t} : /\ next1[e] = IF e = prev[t] THEN next[t] ELSE next[e]
                        /\ prev1[e] = IF e = next[t] THEN prev[t] ELSE prev[e]

LEMMA LinkedDelete ==
  ASSUME NEW S \in SUBSET Tid, NEW first, NEW next, NEW prev, NEW rank, NEW m, NEW t \in S,
         NEW first1, NEW next1, NEW prev1, Ranks(rank, m),
         Linked(S, first, next, prev, rank),
         LeavesOut(S, t, first, next, prev, first1, next1, prev1)
  PROVE  /\ Linked(S \ {t}, first1, next1, prev1, rank)
         /\ \A last : Ends(S, next, last) =>
              Ends(S \ {t}, next1, IF t = last THEN prev[t] ELSE last)
<1>. USE DEF LeavesOut
<1>1. /\ NoTid \notin S /\ t # NoTid
      /\ next[t] \in S \cup {NoTid} /\ prev[t] \in S \cup {NoTid}
      /\ prev[t] = NoTid <=> t = first
      /\ \A e \in S : rank[e] \in Int
  BY TasksAssumption DEF Linked, Ranks
<1>2. \A e \in S : next[e] # e /\ prev[e] # e
  BY <1>1 DEF Linked
<1>3. first1 \in (S \ {t}) \cup {NoTid}
  BY <1>1, <1>2 DEF Linked
<1>4. \A e \in S : (next[t] = e <=> prev[e] = t) /\ (next[e] = t <=> prev[t] = e)
  BY DEF Linked
<1>5. first1 = NoTid => S \ {t} = {}
  <2>. SUFFICES ASSUME first1 = NoTid, S \ {t} # {} PROVE FALSE
    OBVIOUS
  <2>1. t = first /\ next[t] = NoTid
    BY <1>1 DEF Linked
  <2>2. \A e \in S \ {t} : prev[e] \in S \ {t} /\ next[prev[e]] = e
    BY <1>1, <1>4, <2>1 DEF Linked
  <2>3. \A e \in S \ {t} : rank[e] < rank[prev[e]]
    BY <1>1, <2>2 DEF Linked
  <2>. DEFINE U == {m - rank[u] : u \in S \ {t}}
  <2>4. U \in SUBSET Nat /\ U # {}
    <3>1. \A u \in S : m - rank[u] \in Nat
      BY DEF Ranks
    <3>. QED BY <3>1
  <2>5. PICK d \in U : \A c \in U : d <= c
    BY <2>4, LeastNat
  <2>6. PICK u \in S \ {t} : d = m - rank[u]
    OBVIOUS
  <2>7. m - rank[prev[u]] \in U
    BY <2>2
  <2>8. d <= m - rank[prev[u]]
    BY <2>5, <2>7
  <2>9. m \in Int /\ rank[u] \in Int /\ rank[prev[u]] \in Int
    BY <1>1, <2>2 DEF Ranks
  <2>. QED BY <2>3, <2>6, <2>8, <2>9
<1>6. ASSUME NEW e \in S \ {t}
      PROVE  /\ next1[e] \in (S \ {t}) \cup {NoTid}
             /\ prev1[e] \in (S \ {t}) \cup {NoTid}
  BY <1>1, <1>2, <1>4 DEF Linked
<1>7. ASSUME NEW e \in S \ {t}
      PROVE  prev1[e] = NoTid <=> e = first1
  <2>1. CASE e = next[t]
    <3>1. prev1[e] = prev[t] /\ prev[e] = t
      BY <1>4, <2>1
    <3>2. e # first
      BY <1>1, <3>1 DEF Linked
    <3>. QED BY <1>1, <2>1, <3>1, <3>2
  <2>2. CASE e # next[t]
    BY <1>1, <2>2 DEF Linked
  <2>. QED BY <2>1, <2>2
<1>8. ASSUME NEW e \in S \ {t}, next1[e] # NoTid
      PROVE  rank[next1[e]] < rank[e]
  <2>1. CASE e = prev[t]
    <3>1. next[e] = t /\ next1[e] = next[t] /\ next[t] # NoTid
      BY <1>4, <1>8, <2>1
    <3>2. rank[next[t]] < rank[t] /\ rank[t] < rank[e]
      BY <1>1, <3>1 DEF Linked
    <3>3. rank[next[t]] \in Int /\ rank[t] \in Int /\ rank[e] \in Int
      BY <1>1, <3>1
    <3>. QED BY <3>1, <3>2, <3>3
  <2>2. CASE e # prev[t]
    BY <1>8, <2>2 DEF Linked
  <2>. QED BY <2>1, <2>2
<1>9. ASSUME NEW e \in S \ {t}, NEW f \in S \ {t}
      PROVE  next1[e] = f <=> prev1[f] = e
  <2>1. /\ next1[e] = IF e = prev[t] THEN next[t] ELSE next[e]
        /\ prev1[f] = IF f = next[t] THEN prev[t] ELSE prev[f]
        /\ next[e] = f <=> prev[f] = e
        /\ next[e] = t <=> prev[t] = e
        /\ next[t] = f <=> prev[f] = t
    BY DEF Linked
  <2>2. e # t /\ f # t
    OBVIOUS
  <2>. QED BY <2>1, <2>2
<1>10. ASSUME NEW last, Ends(S, next, last)
       PROVE  Ends(S \ {t}, next1, IF t = last THEN prev[t] ELSE last)
  <2>. DEFINE last1 == IF t = last THEN prev[t] ELSE last
  <2>1. /\ last \in S /\ (\A e \in S : next[e] = NoTid <=> e = last)
    BY <1>10 DEF Ends
  <2>2. last1 \in (S \ {t}) \cup {NoTid}
    BY <1>1, <1>2, <2>1
  <2>3. ASSUME last1 = NoTid, NEW e \in S \ {t}
        PROVE  FALSE
    <3>1. t = last /\ t = first /\ next[t] = NoTid
      BY <1>1, <2>1, <2>3
    <3>. QED BY <1>5, <3>1
  <2>4. ASSUME NEW e \in S \ {t}
        PROVE  next1[e] = NoTid <=> e = last1
    <3>1. CASE e = prev[t]
      <4>1. next1[e] = next[t] /\ next[e] = t
        BY <1>4, <3>1
      <4>2. e # last
        BY <1>1, <2>1, <4>1
      <4>. QED BY <1>1, <2>1, <3>1, <4>1, <4>2
    <3>2. CASE e # prev[t]
      BY <2>1, <3>2
    <3>. QED BY <3>1, <3>2
  <2>. HIDE DEF last1
  <2>5. Ends(S \ {t}, next1, last1)
    BY <2>2, <2>3, <2>4 DEF Ends
  <2>. QED BY <2>5 DEF last1
<1>11. Linked(S \ {t}, first1, next1, prev1, rank)
  BY <1>3, <1>5, <1>6, <1>7, <1>8, <1>9 DEF Linked
<1>. QED BY <1>10, <1>11

-----------------------------------------------------------------------------
Handle == [tbl : BOOLEAN, prev : OrNone, next : OrNone, hh_prev : OrNone, hh_next : OrNone,
           hashv : Nat]

Bucket == [hh_head : OrNone, count : Nat, expand_mult : Nat]

Table == [num_buckets : Nat, num_items : Nat, tail : OrNone, ideal_chain_maxlen : Nat,
          nonideal_items : Nat, ineff_expands : Nat, noexpand : BOOLEAN]

Growing == DOMAIN grown # {}

HashTypeOK ==
  /\ hash \in [Tid -> Nat]
  /\ head \in OrNone
  /\ hh \in [Tid -> Handle]
  /\ gettime_data \in [Tid -> Nat]
  /\ entry_count \in Nat
  /\ tbl \in Table
  /\ buckets \in [0..tbl.num_buckets-1 -> Bucket]
  /\ adding \in OrNone
  /\ Growing => grown \in [0..2*tbl.num_buckets-1 -> Bucket]
  /\ bkt_i \in Nat
  /\ thh \in OrNone

(* What the entries hold, apart from their links.                          *)
EntriesOK ==
  /\ \A t \in Members : hh[t].hashv = hash[t]
  /\ \A t \in Tid \ Members : gettime_data[t] = 0
  /\ adding # NoTid => adding \in Members /\ gettime_data[adding] = 0
  /\ Growing => adding # NoTid
  /\ entry_count = Cardinality(Members \ {adding})
  /\ head = NoTid => tbl = NoTable
  /\ head # NoTid => tbl.num_buckets > 0

ListNext == [e \in Tid |-> hh[e].next]
ListPrev == [e \in Tid |-> hh[e].prev]
HhNext == [e \in Tid |-> hh[e].hh_next]
HhPrev == [e \in Tid |-> hh[e].hh_prev]

ListOK(r) ==
  /\ Linked(Members, head, ListNext, ListPrev, r)
  /\ Ends(Members, ListNext, tbl.tail)
  /\ tbl.num_items = Cardinality(Members)

InBkt(S, k, n) == {t \in S : HASH_TO_BKT(hash[t], n) = k}

ChainOf(b, S, c) ==
  /\ Linked(S, b.hh_head, HhNext, HhPrev, c)
  /\ b.count = Cardinality(S)

ChainsOK(c) ==
  ~Growing =>
    \A k \in 0..tbl.num_buckets-1 : ChainOf(buckets[k], InBkt(Members, k, tbl.num_buckets), c)

(* What is not yet in a new bucket, when rest is left in the old one that  *)
(* is being dealt out.                                                     *)
Waiting(rest) == rest \cup {t \in Members : HASH_TO_BKT(hash[t], tbl.num_buckets) > bkt_i}

(* Of what is left, the first entry may point back to one that has gone.   *)
GrowthOK(c, rest) ==
  Growing =>
    /\ bkt_i < tbl.num_buckets
    /\ rest \subseteq InBkt(Members, bkt_i, tbl.num_buckets)
    /\ Linked(rest, thh, HhNext, [HhPrev EXCEPT ![thh] = NoTid], c)
    /\ \A k \in bkt_i+1..tbl.num_buckets-1 :
         ChainOf(buckets[k], InBkt(Members, k, tbl.num_buckets), c)
    /\ \A k \in 0..2*tbl.num_buckets-1 :
         ChainOf(grown[k], InBkt(Members \ Waiting(rest), k, 2 * tbl.num_buckets), c)

LinksOK(r, c, m, rest) ==
  /\ Ranks(r, m) /\ Ranks(c, m)
  /\ ListOK(r) /\ ChainsOK(c) /\ GrowthOK(c, rest)

HashInv ==
  /\ HashTypeOK /\ EntriesOK
  /\ \E r, c \in [Tid -> Int], m \in Nat, rest \in SUBSET Tid : LinksOK(r, c, m, rest)

-----------------------------------------------------------------------------
LEMMA MembersTid == Members \in SUBSET Tid /\ NoTid \notin Members /\ NoTid \notin Tid
BY TasksAssumption DEF Members

LEMMA MembersFinite == \A S \in SUBSET Tid : IsFiniteSet(S) /\ Cardinality(S) \in Nat
BY TasksAssumption, FS_Subset, FS_CardinalityType

(* hashv & (num_bkts - 1) is the number of a bucket.                       *)
LEMMA BktRange ==
  ASSUME NEW h \in Nat, NEW n \in Nat \ {0}
  PROVE  HASH_TO_BKT(h, n) \in 0..n-1
BY DEF HASH_TO_BKT

LEMMA LinkTypes ==
  ASSUME HashTypeOK
  PROVE  /\ ListNext \in [Tid -> OrNone] /\ ListPrev \in [Tid -> OrNone]
         /\ HhNext \in [Tid -> OrNone] /\ HhPrev \in [Tid -> OrNone]
BY DEF HashTypeOK, Handle, ListNext, ListPrev, HhNext, HhPrev

(* find_process finds the entries that there are, when the table is not    *)
(* growing.                                                                *)
LEMMA FoundMembers ==
  ASSUME HashInv, adding = NoTid
  PROVE  \A t \in Tid : find_process(t) <=> t \in Members
<1>. USE DEF HashInv
<1>1. PICK r \in [Tid -> Int], c \in [Tid -> Int], m \in Nat, rest \in SUBSET Tid :
        LinksOK(r, c, m, rest)
  OBVIOUS
<1>. TAKE t \in Tid
<1>. DEFINE nb == tbl.num_buckets
            k == HASH_TO_BKT(hash[t], nb)
<1>2. CASE head = NoTid
  BY <1>1, <1>2 DEF LinksOK, ListOK, Linked, find_process
<1>3. CASE head # NoTid
  <2>1. nb \in Nat \ {0} /\ hash[t] \in Nat
    BY <1>3 DEF HashTypeOK, EntriesOK, Table
  <2>2. k \in 0..nb-1
    BY <2>1, BktRange
  <2>3. ChainOf(buckets[k], InBkt(Members, k, nb), c)
    <3>1. ~Growing
      BY DEF EntriesOK
    <3>. QED BY <1>1, <2>2, <3>1 DEF LinksOK, ChainsOK
  <2>4. InBkt(Members, k, nb) \in SUBSET Tid
    BY MembersTid DEF InBkt
  <2>5. Walk(buckets[k].hh_head, HhNext) = InBkt(Members, k, nb)
    <3>1. Linked(InBkt(Members, k, nb), buckets[k].hh_head, HhNext, HhPrev, c)
      BY <2>3 DEF ChainOf
    <3>2. Ranks(c, m)
      BY <1>1 DEF LinksOK
    <3>. QED BY <2>4, <3>1, <3>2, LinkTypes, WalkAll
  <2>6. find_process(t) <=> t \in Walk(buckets[k].hh_head, HhNext)
    BY <1>3 DEF find_process, Chain, HhNext
  <2>. QED BY <2>5, <2>6 DEF InBkt
<1>. QED BY <1>2, <1>3

-----------------------------------------------------------------------------
LEMMA EmptyChain ==
  ASSUME NEW c, NEW b, b.hh_head = NoTid, b.count = 0
  PROVE  ChainOf(b, {}, c)
BY FS_EmptySet DEF ChainOf, Linked

LEMMA EmptyBuckets ==
  ASSUME NEW n \in Nat, NEW b, b = Empty(n)
  PROVE  /\ b \in [0..n-1 -> Bucket]
         /\ \A k \in 0..n-1 : b[k].hh_head = NoTid /\ b[k].count = 0
BY DEF Empty, Bucket, OrNone

LEMMA NotGrowing == DOMAIN Empty(0) = {}
BY DEF Empty

LEMMA HashInitInv == HashInit => HashInv
<1>. SUFFICES ASSUME HashInit PROVE HashInv
  OBVIOUS
<1>. USE DEF HashInit, HashEmpty
<1>1. Members = {} /\ ~Growing
  BY NotGrowing DEF Members, NoHandle, Growing
<1>2. HashTypeOK
  <2>1. hash \in [Tid -> Nat]
    BY HashAssumption
  <2>2. hh \in [Tid -> Handle]
    BY DEF NoHandle, Handle, OrNone
  <2>3. tbl \in Table
    BY DEF NoTable, Table, OrNone
  <2>4. buckets \in [0..tbl.num_buckets-1 -> Bucket]
    BY EmptyBuckets DEF NoTable
  <2>. QED BY <1>1, <2>1, <2>2, <2>3, <2>4 DEF HashTypeOK, OrNone
<1>3. EntriesOK
  BY <1>1, FS_EmptySet DEF EntriesOK
<1>. DEFINE r == [t \in Tid |-> 0]
<1>4. r \in [Tid -> Int] /\ Ranks(r, 1)
  BY DEF Ranks
<1>5. ListOK(r)
  BY <1>1, FS_EmptySet DEF ListOK, Linked, Ends, NoTable
<1>6. ChainsOK(r)
  BY DEF ChainsOK, NoTable
<1>7. GrowthOK(r, {})
  BY <1>1 DEF GrowthOK
<1>8. LinksOK(r, r, 1, {})
  BY <1>4, <1>5, <1>6, <1>7 DEF LinksOK
<1>. HIDE DEF r, HashInit, HashEmpty
<1>. QED BY <1>2, <1>3, <1>4, <1>8 DEF HashInv

(* The links say the same while the table is only looked at.               *)
LEMMA LinksFrame ==
  ASSUME NEW r, NEW c, NEW m, NEW rest, LinksOK(r, c, m, rest),
         UNCHANGED <<hash, head, hh, tbl, buckets, growVars>>
  PROVE  LinksOK(r, c, m, rest)'
<1>1. /\ hash' = hash /\ head' = head /\ hh' = hh /\ tbl' = tbl /\ buckets' = buckets
      /\ grown' = grown /\ bkt_i' = bkt_i /\ thh' = thh
  BY DEF growVars
<1>2. /\ Members' = Members /\ ListNext' = ListNext /\ ListPrev' = ListPrev
      /\ HhNext' = HhNext /\ HhPrev' = HhPrev /\ Growing' = Growing
  BY <1>1 DEF Members, ListNext, ListPrev, HhNext, HhPrev, Growing
<1>3. Waiting(rest)' = Waiting(rest)
  BY <1>1, <1>2 DEF Waiting
<1>. QED BY <1>1, <1>2, <1>3 DEF LinksOK, ListOK, ChainsOK, GrowthOK, ChainOf, InBkt

(* The clock of an entry may be set to anything.                           *)
LEMMA ClockInv ==
  ASSUME HashInv, NEW t \in Members, NEW n \in Nat, adding = NoTid,
         gettime_data' = [gettime_data EXCEPT ![t] = n],
         UNCHANGED <<hash, head, hh, entry_count, tbl, buckets, growVars>>
  PROVE  HashInv' /\ Members' = Members
<1>1. /\ hash' = hash /\ head' = head /\ hh' = hh /\ tbl' = tbl /\ buckets' = buckets
      /\ entry_count' = entry_count /\ adding' = adding
      /\ grown' = grown /\ bkt_i' = bkt_i /\ thh' = thh
  BY DEF growVars
<1>2. Members' = Members /\ Growing' = Growing
  BY <1>1 DEF Members, Growing
<1>3. HashTypeOK'
  BY <1>1, <1>2 DEF HashInv, HashTypeOK
<1>4. EntriesOK'
  BY <1>1, <1>2 DEF HashInv, HashTypeOK, EntriesOK
<1>. QED BY <1>2, <1>3, <1>4, LinksFrame DEF HashInv

LEMMA TickInv ==
  ASSUME HashInv, NEW t \in Tid, Tick(t)
  PROVE  HashInv'
<1>1. t \in Members
  BY FoundMembers DEF Tick
<1>2. PICK n \in Nat : n = gettime_data[t] + 1
  BY DEF HashInv, HashTypeOK
<1>3. gettime_data' = [gettime_data EXCEPT ![t] = n] /\ adding = NoTid
  BY <1>2 DEF Tick
<1>4. UNCHANGED <<hash, head, hh, entry_count, tbl, buckets, growVars>>
  BY DEF Tick
<1>. QED BY <1>1, <1>3, <1>4, ClockInv

LEMMA HashStutter ==
  ASSUME HashInv, UNCHANGED hashVars
  PROVE  HashInv'
<1>1. UNCHANGED <<hash, head, hh, tbl, buckets, growVars>>
  BY DEF hashVars
<1>2. /\ hash' = hash /\ head' = head /\ hh' = hh /\ tbl' = tbl /\ buckets' = buckets
      /\ entry_count' = entry_count /\ adding' = adding /\ gettime_data' = gettime_data
      /\ grown' = grown /\ bkt_i' = bkt_i /\ thh' = thh
  BY DEF hashVars, growVars
<1>3. Members' = Members /\ Growing' = Growing
  BY <1>2 DEF Members, Growing
<1>4. HashTypeOK' /\ EntriesOK'
  BY <1>2, <1>3 DEF HashInv, HashTypeOK, EntriesOK
<1>. QED BY <1>1, <1>4, LinksFrame DEF HashInv

-----------------------------------------------------------------------------
(* The growth.                                                             *)
LEMMA GrowBeginInv ==
  ASSUME HashInv, GrowBegin
  PROVE  HashInv'
<1>. DEFINE nb == tbl.num_buckets
<1>1. PICK r \in [Tid -> Int], c \in [Tid -> Int], m \in Nat, rest \in SUBSET Tid :
        LinksOK(r, c, m, rest)
  BY DEF HashInv
<1>2. /\ adding # NoTid /\ ~Growing /\ adding \in Members /\ gettime_data[adding] = 0
      /\ head # NoTid /\ nb \in Nat \ {0}
  <2>1. adding # NoTid /\ ~Growing
    BY DEF GrowBegin, Growing
  <2>2. adding \in Members /\ gettime_data[adding] = 0
    BY <2>1 DEF HashInv, EntriesOK
  <2>3. head # NoTid
    BY <1>1, <2>2 DEF LinksOK, ListOK, Linked
  <2>. QED BY <2>1, <2>2, <2>3 DEF HashInv, HashTypeOK, EntriesOK, Table
<1>3. /\ hash' = hash /\ head' = head /\ hh' = hh /\ gettime_data' = gettime_data
      /\ entry_count' = entry_count /\ buckets' = buckets /\ adding' = adding
      /\ grown' = Empty(2 * nb) /\ bkt_i' = 0 /\ thh' = buckets[0].hh_head
  BY DEF GrowBegin
<1>4. /\ tbl' \in Table
      /\ tbl'.num_buckets = nb /\ tbl'.num_items = tbl.num_items /\ tbl'.tail = tbl.tail
  <2>1. tbl \in Table
    BY DEF HashInv, HashTypeOK
  <2>. DEFINE n == 2 * nb
              ideal == (tbl.num_items \div n) + (IF tbl.num_items % n = 0 THEN 0 ELSE 1)
  <2>2. tbl' = [tbl EXCEPT !.ideal_chain_maxlen = ideal, !.nonideal_items = 0]
    BY DEF GrowBegin
  <2>3. ideal \in Nat
    BY <1>2, <2>1 DEF Table
  <2>. HIDE DEF ideal
  <2>. QED BY <2>1, <2>2, <2>3 DEF Table
<1>5. /\ Members' = Members /\ ListNext' = ListNext /\ ListPrev' = ListPrev
      /\ HhNext' = HhNext /\ HhPrev' = HhPrev
  BY <1>3 DEF Members, ListNext, ListPrev, HhNext, HhPrev
<1>6. Growing'
  <2>1. DOMAIN grown' = 0..2*nb-1
    BY <1>3 DEF Empty
  <2>. QED BY <1>2, <2>1 DEF Growing
<1>7. HashTypeOK'
  <2>1. grown' \in [0..2*nb-1 -> Bucket]
    <3>1. 2 * nb \in Nat
      BY <1>2
    <3>. QED BY <1>3, <3>1, EmptyBuckets
  <2>2. buckets[0] \in Bucket
    BY <1>2 DEF HashInv, HashTypeOK
  <2>. QED BY <1>3, <1>4, <2>1, <2>2 DEF HashInv, HashTypeOK, Bucket
<1>8. EntriesOK'
  BY <1>2, <1>3, <1>4, <1>5 DEF HashInv, EntriesOK
<1>9. PICK first \in SUBSET Tid : first = InBkt(Members, 0, nb)
  BY MembersTid DEF InBkt
<1>10. ChainOf(buckets[0], first, c)
  BY <1>1, <1>2, <1>9 DEF LinksOK, ChainsOK
<1>11. Waiting(first)' = Members
  <2>1. ASSUME NEW t \in Members
        PROVE  HASH_TO_BKT(hash[t], nb) = 0 \/ HASH_TO_BKT(hash[t], nb) > 0
    <3>1. hash[t] \in Nat
      BY MembersTid DEF HashInv, HashTypeOK
    <3>. QED BY <1>2, <3>1, BktRange
  <2>. QED BY <1>3, <1>4, <1>5, <1>9, <2>1 DEF Waiting, InBkt
<1>12. GrowthOK(c, first)'
  <2>1. Linked(first, thh', HhNext', [HhPrev' EXCEPT ![thh'] = NoTid], c)
    <3>1. Linked(first, buckets[0].hh_head, HhNext, HhPrev, c)
      BY <1>10 DEF ChainOf
    <3>2. HhPrev \in [Tid -> OrNone]
      BY LinkTypes DEF HashInv
    <3>3. Linked(first, buckets[0].hh_head, HhNext,
                 [HhPrev EXCEPT ![buckets[0].hh_head] = NoTid], c)
      BY <3>1, <3>2, LinkedHead
    <3>. QED BY <1>3, <1>5, <3>3
  <2>2. ASSUME NEW k \in 1..nb-1
        PROVE  ChainOf(buckets[k], InBkt(Members, k, nb), c)
    BY <1>1, <1>2 DEF LinksOK, ChainsOK
  <2>3. ASSUME NEW k \in 0..2*nb-1
        PROVE  /\ Linked({}, grown'[k].hh_head, HhNext', HhPrev', c)
               /\ grown'[k].count = Cardinality({})
    <3>1. 2 * nb \in Nat
      BY <1>2
    <3>2. grown'[k].hh_head = NoTid /\ grown'[k].count = 0
      BY <1>3, <3>1, EmptyBuckets
    <3>. QED BY <3>2, FS_EmptySet DEF Linked
  <2>4. \A k : InBkt(Members \ Waiting(first), k, 2 * tbl.num_buckets)' = {}
    BY <1>5, <1>11 DEF InBkt
  <2>5. (bkt_i < tbl.num_buckets)'
    BY <1>2, <1>3, <1>4
  <2>6. (first \subseteq InBkt(Members, bkt_i, tbl.num_buckets))'
    BY <1>3, <1>4, <1>5, <1>9 DEF InBkt
  <2>7. (\A k \in bkt_i+1..tbl.num_buckets-1 :
           ChainOf(buckets[k], InBkt(Members, k, tbl.num_buckets), c))'
    <3>1. \A k : InBkt(Members, k, tbl.num_buckets)' = InBkt(Members, k, nb)
      BY <1>3, <1>4, <1>5 DEF InBkt
    <3>2. bkt_i' + 1 = 1
      BY <1>3
    <3>. QED BY <1>3, <1>4, <1>5, <2>2, <3>1, <3>2 DEF ChainOf
  <2>8. (\A k \in 0..2*tbl.num_buckets-1 :
           ChainOf(grown[k], InBkt(Members \ Waiting(first), k, 2 * tbl.num_buckets), c))'
    BY <1>4, <2>3, <2>4 DEF ChainOf
  <2>. QED BY <2>1, <2>5, <2>6, <2>7, <2>8 DEF GrowthOK
<1>13. LinksOK(r, c, m, first)'
  BY <1>1, <1>3, <1>4, <1>5, <1>6, <1>12 DEF LinksOK, ListOK, ChainsOK
<1>. QED BY <1>7, <1>8, <1>13 DEF HashInv

LEMMA GrowNextBucketInv ==
  ASSUME HashInv, GrowNextBucket
  PROVE  HashInv'
<1>. DEFINE nb == tbl.num_buckets
<1>1. PICK r \in [Tid -> Int], c \in [Tid -> Int], m \in Nat, rest \in SUBSET Tid :
        LinksOK(r, c, m, rest)
  BY DEF HashInv
<1>2. /\ Growing /\ thh = NoTid /\ bkt_i \in Nat /\ nb \in Nat /\ bkt_i + 1 < nb
  BY DEF GrowNextBucket, Growing, HashInv, HashTypeOK, Table
<1>3. /\ hash' = hash /\ head' = head /\ hh' = hh /\ gettime_data' = gettime_data
      /\ entry_count' = entry_count /\ tbl' = tbl /\ buckets' = buckets /\ adding' = adding
      /\ grown' = grown /\ bkt_i' = bkt_i + 1 /\ thh' = buckets[bkt_i + 1].hh_head
  BY DEF GrowNextBucket
<1>4. /\ Members' = Members /\ ListNext' = ListNext /\ ListPrev' = ListPrev
      /\ HhNext' = HhNext /\ HhPrev' = HhPrev /\ Growing' = Growing
  BY <1>3 DEF Members, ListNext, ListPrev, HhNext, HhPrev, Growing
<1>5. HashTypeOK'
  <2>1. buckets[bkt_i + 1] \in Bucket
    <3>1. bkt_i + 1 \in 0..nb-1
      BY <1>2
    <3>2. buckets \in [0..nb-1 -> Bucket]
      BY DEF HashInv, HashTypeOK
    <3>. QED BY <3>1, <3>2
  <2>. QED BY <1>2, <1>3, <1>4, <2>1 DEF HashInv, HashTypeOK, Bucket
<1>6. EntriesOK'
  BY <1>3, <1>4 DEF HashInv, EntriesOK
<1>7. GrowthOK(c, rest)
  BY <1>1 DEF LinksOK
<1>8. rest = {}
  BY <1>2, <1>7 DEF GrowthOK, Linked
<1>9. PICK next \in SUBSET Tid : next = InBkt(Members, bkt_i + 1, nb)
  BY MembersTid DEF InBkt
<1>10. ChainOf(buckets[bkt_i + 1], next, c)
  <2>1. bkt_i + 1 \in bkt_i+1..nb-1
    BY <1>2
  <2>. QED BY <1>2, <1>7, <1>9, <2>1 DEF GrowthOK
<1>11. Waiting(next)' = Waiting(rest)
  <2>1. ASSUME NEW t \in Members
        PROVE  HASH_TO_BKT(hash[t], nb) > bkt_i <=>
                 HASH_TO_BKT(hash[t], nb) = bkt_i + 1 \/ HASH_TO_BKT(hash[t], nb) > bkt_i + 1
    <3>1. hash[t] \in Nat
      BY MembersTid DEF HashInv, HashTypeOK
    <3>2. HASH_TO_BKT(hash[t], nb) \in 0..nb-1
      BY <1>2, <3>1, BktRange
    <3>. QED BY <1>2, <3>2
  <2>. QED BY <1>3, <1>4, <1>8, <1>9, <2>1 DEF Waiting, InBkt
<1>12. GrowthOK(c, next)'
  <2>1. Linked(next, thh', HhNext', [HhPrev' EXCEPT ![thh'] = NoTid], c)
    <3>1. Linked(next, buckets[bkt_i + 1].hh_head, HhNext, HhPrev, c)
      BY <1>10 DEF ChainOf
    <3>2. HhPrev \in [Tid -> OrNone]
      BY LinkTypes DEF HashInv
    <3>3. Linked(next, buckets[bkt_i + 1].hh_head, HhNext,
                 [HhPrev EXCEPT ![buckets[bkt_i + 1].hh_head] = NoTid], c)
      BY <3>1, <3>2, LinkedHead
    <3>. QED BY <1>3, <1>4, <3>3
  <2>2. (bkt_i < tbl.num_buckets)'
    BY <1>2, <1>3
  <2>3. (next \subseteq InBkt(Members, bkt_i, tbl.num_buckets))'
    BY <1>3, <1>4, <1>9 DEF InBkt
  <2>4. (\A k \in bkt_i+1..tbl.num_buckets-1 :
           ChainOf(buckets[k], InBkt(Members, k, tbl.num_buckets), c))'
    <3>1. \A k \in bkt_i+1+1..nb-1 : k \in bkt_i+1..nb-1
      BY <1>2
    <3>2. \A k \in bkt_i+1+1..nb-1 : ChainOf(buckets[k], InBkt(Members, k, nb), c)
      BY <1>2, <1>7, <3>1 DEF GrowthOK
    <3>. QED BY <1>3, <1>4, <3>2 DEF ChainOf, InBkt
  <2>5. (\A k \in 0..2*tbl.num_buckets-1 :
           ChainOf(grown[k], InBkt(Members \ Waiting(next), k, 2 * tbl.num_buckets), c))'
    BY <1>2, <1>3, <1>4, <1>7, <1>11 DEF GrowthOK, ChainOf, InBkt
  <2>. QED BY <2>1, <2>2, <2>3, <2>4, <2>5 DEF GrowthOK
<1>13. LinksOK(r, c, m, next)'
  BY <1>1, <1>2, <1>3, <1>4, <1>12 DEF LinksOK, ListOK, ChainsOK
<1>. QED BY <1>5, <1>6, <1>13 DEF HashInv

LEMMA GrowEndInv ==
  ASSUME HashInv, GrowEnd
  PROVE  HashInv'
<1>. DEFINE nb == tbl.num_buckets
<1>1. PICK r \in [Tid -> Int], c \in [Tid -> Int], m \in Nat, rest \in SUBSET Tid :
        LinksOK(r, c, m, rest)
  BY DEF HashInv
<1>2. /\ Growing /\ thh = NoTid /\ bkt_i \in Nat /\ nb \in Nat \ {0} /\ bkt_i + 1 = nb
      /\ adding \in Members /\ gettime_data[adding] = 0 /\ head # NoTid
  <2>1. Growing /\ thh = NoTid /\ bkt_i + 1 = nb
    BY DEF GrowEnd, Growing
  <2>2. adding \in Members /\ gettime_data[adding] = 0
    BY <2>1 DEF HashInv, EntriesOK
  <2>3. head # NoTid
    BY <1>1, <2>2 DEF LinksOK, ListOK, Linked
  <2>. QED BY <2>1, <2>2, <2>3 DEF HashInv, HashTypeOK, Table
<1>3. /\ hash' = hash /\ head' = head /\ hh' = hh /\ gettime_data' = gettime_data
      /\ entry_count' = entry_count + 1 /\ buckets' = grown /\ adding' = NoTid
      /\ grown' = Empty(0) /\ bkt_i' = 0 /\ thh' = thh
  BY DEF GrowEnd
<1>4. /\ tbl' \in Table
      /\ tbl'.num_buckets = 2 * nb /\ tbl'.num_items = tbl.num_items /\ tbl'.tail = tbl.tail
      /\ tbl'.ideal_chain_maxlen = tbl.ideal_chain_maxlen
  <2>1. tbl \in Table
    BY DEF HashInv, HashTypeOK
  <2>. DEFINE ineff == IF tbl.nonideal_items > tbl.num_items \div 2 THEN tbl.ineff_expands + 1 ELSE 0
  <2>2. tbl' = [tbl EXCEPT !.num_buckets = 2 * @, !.ineff_expands = ineff,
                           !.noexpand = @ \/ ineff > 1]
    BY DEF GrowEnd
  <2>3. ineff \in Nat
    BY <2>1 DEF Table
  <2>. DEFINE gaveUp == tbl.noexpand \/ ineff > 1
  <2>4. gaveUp \in BOOLEAN
    OBVIOUS
  <2>5. tbl' = [tbl EXCEPT !.num_buckets = 2 * nb, !.ineff_expands = ineff, !.noexpand = gaveUp]
    BY <2>1, <2>2 DEF Table
  <2>6. 2 * nb \in Nat
    BY <1>2
  <2>. HIDE DEF ineff, gaveUp
  <2>. QED BY <2>1, <2>3, <2>4, <2>5, <2>6 DEF Table
<1>5. /\ Members' = Members /\ ListNext' = ListNext /\ ListPrev' = ListPrev
      /\ HhNext' = HhNext /\ HhPrev' = HhPrev
  BY <1>3 DEF Members, ListNext, ListPrev, HhNext, HhPrev
<1>6. ~Growing'
  BY <1>3, NotGrowing DEF Growing
<1>7. HashTypeOK'
  <2>1. grown \in [0..2*nb-1 -> Bucket]
    BY <1>2 DEF HashInv, HashTypeOK
  <2>2. buckets' \in [0..tbl'.num_buckets-1 -> Bucket]
    BY <1>3, <1>4, <2>1
  <2>3. entry_count' \in Nat /\ bkt_i' \in Nat
    BY <1>3 DEF HashInv, HashTypeOK
  <2>. QED BY <1>3, <1>4, <1>6, <2>2, <2>3 DEF HashInv, HashTypeOK, OrNone
<1>8. EntriesOK'
  <2>1. entry_count + 1 = Cardinality(Members)
    <3>1. Cardinality(Members \ {adding}) = Cardinality(Members) - 1
      BY <1>2, MembersTid, MembersFinite, FS_RemoveElement
    <3>2. entry_count = Cardinality(Members \ {adding}) /\ Cardinality(Members) \in Nat
      BY MembersTid, MembersFinite DEF HashInv, EntriesOK
    <3>. QED BY <3>1, <3>2
  <2>2. Members \ {NoTid} = Members
    BY MembersTid
  <2>3. \A t \in Members : hh[t].hashv = hash[t]
    BY DEF HashInv, EntriesOK
  <2>4. \A t \in Tid \ Members : gettime_data[t] = 0
    BY DEF HashInv, EntriesOK
  <2>5. 2 * nb > 0
    BY <1>2
  <2>. QED BY <1>2, <1>3, <1>4, <1>5, <1>6, <2>1, <2>2, <2>3, <2>4, <2>5 DEF EntriesOK
<1>9. GrowthOK(c, rest)
  BY <1>1 DEF LinksOK
<1>10. Members \ Waiting(rest) = Members
  <2>1. rest = {}
    BY <1>2, <1>9 DEF GrowthOK, Linked
  <2>2. ASSUME NEW t \in Members
        PROVE  ~(HASH_TO_BKT(hash[t], nb) > bkt_i)
    <3>1. hash[t] \in Nat
      BY MembersTid DEF HashInv, HashTypeOK
    <3>2. HASH_TO_BKT(hash[t], nb) \in 0..nb-1
      BY <1>2, <3>1, BktRange
    <3>. QED BY <1>2, <3>2
  <2>. QED BY <2>1, <2>2 DEF Waiting
<1>11. ChainsOK(c)'
  <2>1. \A k \in 0..2*nb-1 : ChainOf(grown[k], InBkt(Members, k, 2 * nb), c)
    BY <1>2, <1>9, <1>10 DEF GrowthOK
  <2>. QED BY <1>3, <1>4, <1>5, <2>1 DEF ChainsOK, ChainOf, InBkt
<1>12. LinksOK(r, c, m, rest)'
  BY <1>1, <1>3, <1>4, <1>5, <1>6, <1>11 DEF LinksOK, ListOK, GrowthOK
<1>. QED BY <1>7, <1>8, <1>12 DEF HashInv

(* What it is to put t in front of a chain, for the handles.               *)
LinkedIn(g, h, first, t) ==
  /\ g \in [Tid -> Handle]
  /\ g[t].hh_next = first /\ g[t].hh_prev = NoTid
  /\ \A e \in Tid : /\ g[e].tbl = h[e].tbl /\ g[e].hashv = h[e].hashv
                    /\ g[e].next = h[e].next /\ g[e].prev = h[e].prev
  /\ \A e \in Tid \ {t} : /\ g[e].hh_next = h[e].hh_next
                          /\ g[e].hh_prev = IF e = first THEN t ELSE h[e].hh_prev

LEMMA LinkInBktEffect ==
  ASSUME NEW h \in [Tid -> Handle], NEW first \in OrNone, NEW t \in Tid, NEW g,
         g = LinkInBkt(h, first, t)
  PROVE  LinkedIn(g, h, first, t)
<1>1. \A e \in Tid : g[e] = CASE e = t -> [h[e] EXCEPT !.hh_next = first, !.hh_prev = NoTid]
                              [] e # t /\ e = first -> [h[e] EXCEPT !.hh_prev = t]
                              [] OTHER -> h[e]
  BY DEF LinkInBkt
<1>2. g[t] = [h[t] EXCEPT !.hh_next = first, !.hh_prev = NoTid]
  BY <1>1
<1>3. h[t] \in Handle /\ t \in OrNone /\ NoTid \in OrNone
  BY DEF OrNone
<1>4. /\ g[t] \in Handle /\ g[t].hh_next = first /\ g[t].hh_prev = NoTid
      /\ g[t].tbl = h[t].tbl /\ g[t].hashv = h[t].hashv
      /\ g[t].next = h[t].next /\ g[t].prev = h[t].prev
  BY <1>2, <1>3 DEF Handle
<1>5. ASSUME NEW e \in Tid \ {t}
      PROVE  /\ g[e] \in Handle
             /\ g[e].tbl = h[e].tbl /\ g[e].hashv = h[e].hashv
             /\ g[e].next = h[e].next /\ g[e].prev = h[e].prev
             /\ g[e].hh_next = h[e].hh_next
             /\ g[e].hh_prev = IF e = first THEN t ELSE h[e].hh_prev
  <2>1. CASE e = first
    <3>1. g[e] = [h[e] EXCEPT !.hh_prev = t] /\ h[e] \in Handle
      BY <1>1, <2>1
    <3>. QED BY <1>3, <2>1, <3>1 DEF Handle
  <2>2. CASE e # first
    <3>1. g[e] = h[e] /\ h[e] \in Handle
      BY <1>1, <2>2
    <3>. QED BY <2>2, <3>1
  <2>. QED BY <2>1, <2>2
<1>6. g \in [Tid -> Handle]
  <2>1. DOMAIN g = Tid /\ g = [e \in Tid |-> g[e]]
    BY DEF LinkInBkt
  <2>. QED BY <1>4, <1>5, <2>1
<1>. QED BY <1>4, <1>5, <1>6 DEF LinkedIn

LEMMA RanksMore ==
  ASSUME NEW c, NEW m, Ranks(c, m), NEW t \in Tid, NEW q \in {m, -m}, NEW c1, c1 = [c EXCEPT ![t] = q]
  PROVE  /\ Ranks(c, m + 1) /\ Ranks(c1, m + 1)
         /\ c1[t] = q /\ \A e \in Tid \ {t} : c1[e] = c[e]
BY DEF Ranks

LEMMA GrowItemInv ==
  ASSUME HashInv, GrowItem
  PROVE  HashInv'
<1>. DEFINE nb == tbl.num_buckets
            n == 2 * nb
            k == NewBkt(hh[thh].hashv)
            b == grown[k]
<1>1. PICK r \in [Tid -> Int], c \in [Tid -> Int], m \in Nat, rest \in SUBSET Tid :
        LinksOK(r, c, m, rest)
  BY DEF HashInv
<1>2. /\ HashTypeOK /\ EntriesOK /\ GrowthOK(c, rest) /\ Ranks(r, m) /\ Ranks(c, m)
  BY <1>1 DEF HashInv, LinksOK
<1>3. Growing /\ thh # NoTid
  BY DEF GrowItem, Growing
<1>4. PICK t \in rest : t = thh
  BY <1>2, <1>3 DEF GrowthOK, Linked
<1>5. /\ bkt_i \in Nat /\ nb \in Nat \ {0} /\ bkt_i < nb /\ n \in Nat \ {0}
      /\ t \in Tid /\ t \in Members /\ hash[t] \in Nat /\ HASH_TO_BKT(hash[t], nb) = bkt_i
  <2>1. bkt_i \in Nat /\ nb \in Nat /\ bkt_i < nb /\ t \in InBkt(Members, bkt_i, nb)
    BY <1>2, <1>3, <1>4 DEF HashTypeOK, Table, GrowthOK
  <2>. QED BY <1>2, <2>1, MembersTid DEF InBkt, HashTypeOK
<1>6. k = HASH_TO_BKT(hash[t], n) /\ k \in 0..n-1
  BY <1>2, <1>4, <1>5, BktRange DEF NewBkt, EntriesOK
<1>7. /\ grown \in [0..n-1 -> Bucket] /\ b \in Bucket
  BY <1>2, <1>3, <1>6 DEF HashTypeOK
<1>8. NewMult(b) \in Nat
  BY <1>7 DEF NewMult, Bucket
<1>9. /\ hash' = hash /\ head' = head /\ gettime_data' = gettime_data
      /\ entry_count' = entry_count /\ buckets' = buckets /\ adding' = adding /\ bkt_i' = bkt_i
      /\ grown' = [grown EXCEPT ![k] =
                     [hh_head |-> t, count |-> b.count + 1, expand_mult |-> NewMult(b)]]
      /\ hh' = LinkInBkt(hh, b.hh_head, t)
      /\ thh' = hh[t].hh_next
  BY <1>4 DEF GrowItem
<1>10. /\ tbl' \in Table
       /\ tbl'.num_buckets = nb /\ tbl'.num_items = tbl.num_items /\ tbl'.tail = tbl.tail
       /\ tbl'.ideal_chain_maxlen = tbl.ideal_chain_maxlen
  <2>1. tbl \in Table
    BY <1>2 DEF HashTypeOK
  <2>. DEFINE nonideal == IF b.count + 1 > tbl.ideal_chain_maxlen THEN tbl.nonideal_items + 1
                          ELSE tbl.nonideal_items
  <2>2. nonideal \in Nat
    BY <2>1 DEF Table
  <2>3. tbl' = [tbl EXCEPT !.nonideal_items = nonideal]
    BY <2>1 DEF GrowItem, Table
  <2>. HIDE DEF nonideal
  <2>. QED BY <2>1, <2>2, <2>3 DEF Table
<1>. HIDE DEF k, b, n, nb
<1>11. /\ hh' \in [Tid -> Handle]
       /\ hh'[t].hh_next = b.hh_head /\ hh'[t].hh_prev = NoTid
       /\ \A e \in Tid : /\ hh'[e].tbl = hh[e].tbl /\ hh'[e].hashv = hh[e].hashv
                         /\ hh'[e].next = hh[e].next /\ hh'[e].prev = hh[e].prev
       /\ \A e \in Tid \ {t} : /\ hh'[e].hh_next = hh[e].hh_next
                               /\ hh'[e].hh_prev = IF e = b.hh_head THEN t ELSE hh[e].hh_prev
  <2>1. hh \in [Tid -> Handle] /\ b.hh_head \in OrNone
    BY <1>2, <1>7 DEF HashTypeOK, Bucket
  <2>2. hh' = LinkInBkt(hh, b.hh_head, t) /\ t \in Tid
    BY <1>5, <1>9
  <2>3. LinkedIn(hh', hh, b.hh_head, t)
    BY <2>1, <2>2, LinkInBktEffect
  <2>. QED BY <2>3 DEF LinkedIn
<1>12. Members' = Members /\ ListNext' = ListNext /\ ListPrev' = ListPrev
  BY <1>11 DEF Members, ListNext, ListPrev
<1>13. /\ HhNext'[t] = b.hh_head /\ HhPrev'[t] = NoTid
       /\ \A e \in Tid \ {t} : /\ HhNext'[e] = HhNext[e]
                               /\ HhPrev'[e] = IF e = b.hh_head THEN t ELSE HhPrev[e]
  BY <1>5, <1>11 DEF HhNext, HhPrev
<1>14. /\ grown' \in [0..n-1 -> Bucket]
       /\ grown'[k].hh_head = t /\ grown'[k].count = b.count + 1
       /\ \A j \in 0..n-1 : j # k => grown'[j] = grown[j]
  <2>. DEFINE b1 == [hh_head |-> t, count |-> b.count + 1, expand_mult |-> NewMult(b)]
  <2>1. b1 \in Bucket /\ b1.hh_head = t /\ b1.count = b.count + 1
    BY <1>5, <1>7, <1>8 DEF Bucket, OrNone
  <2>. HIDE DEF b1
  <2>2. grown' = [grown EXCEPT ![k] = b1]
    BY <1>9 DEF b1
  <2>. QED BY <1>6, <1>7, <2>1, <2>2
<1>15. HashTypeOK'
  <2>1. thh' \in OrNone
    BY <1>2, <1>5, <1>9 DEF HashTypeOK, Handle
  <2>2. grown' \in [0..2*tbl'.num_buckets-1 -> Bucket]
    BY <1>10, <1>14 DEF n
  <2>3. buckets' \in [0..tbl'.num_buckets-1 -> Bucket]
    BY <1>2, <1>9, <1>10 DEF HashTypeOK, nb
  <2>. QED BY <1>2, <1>9, <1>10, <1>11, <2>1, <2>2, <2>3 DEF HashTypeOK
<1>16. EntriesOK'
  <2>1. Growing' /\ adding # NoTid
    <3>1. DOMAIN grown' = 0..n-1
      BY <1>14
    <3>. QED BY <1>2, <1>3, <1>6, <3>1 DEF Growing, EntriesOK
  <2>2. head = NoTid => nb = 0
    BY <1>2 DEF EntriesOK, NoTable, nb
  <2>3. \A e \in Members : hh'[e].hashv = hash[e]
    BY <1>2, <1>11, MembersTid DEF EntriesOK
  <2>. QED BY <1>2, <1>5, <1>9, <1>10, <1>12, <2>1, <2>2, <2>3 DEF EntriesOK
<1>17. PICK moved \in SUBSET Tid : moved = Members \ Waiting(rest)
  BY MembersTid
<1>18. PICK rest1 \in SUBSET Tid : rest1 = rest \ {t}
  OBVIOUS
<1>19. /\ t \notin moved /\ Members \ Waiting(rest1)' = moved \cup {t}
       /\ rest \subseteq Waiting(rest) /\ rest \subseteq Members
  <2>1. t \in Waiting(rest) /\ rest \subseteq Waiting(rest) /\ rest \subseteq Members
    BY <1>2, <1>3, <1>4 DEF Waiting, GrowthOK, InBkt
  <2>2. Waiting(rest1)' = rest1 \cup {u \in Members : HASH_TO_BKT(hash[u], nb) > bkt_i}
    BY <1>9, <1>10, <1>12 DEF Waiting
  <2>3. Waiting(rest) = rest \cup {u \in Members : HASH_TO_BKT(hash[u], nb) > bkt_i}
    BY DEF Waiting, nb
  <2>4. ~(HASH_TO_BKT(hash[t], nb) > bkt_i)
    BY <1>5
  <2>. QED BY <1>5, <1>17, <1>18, <2>1, <2>2, <2>3, <2>4
<1>20. \A j \in 0..n-1 : ChainOf(grown[j], InBkt(moved, j, n), c)
  BY <1>2, <1>3, <1>17 DEF GrowthOK, n, nb
<1>21. /\ Linked(InBkt(moved, k, n), b.hh_head, HhNext, HhPrev, c)
       /\ b.count = Cardinality(InBkt(moved, k, n))
       /\ InBkt(moved, k, n) \in SUBSET Tid /\ t \notin InBkt(moved, k, n)
       /\ b.hh_head \in InBkt(moved, k, n) \cup {NoTid}
  BY <1>6, <1>19, <1>20 DEF ChainOf, b, InBkt, Linked
<1>22. PICK c1 \in [Tid -> Int] : c1 = [c EXCEPT ![t] = m]
  <2>1. [c EXCEPT ![t] = m] \in [Tid -> Int]
    OBVIOUS
  <2>. QED BY <2>1
<1>23. /\ Ranks(r, m + 1) /\ Ranks(c1, m + 1)
       /\ c1[t] = m /\ \A e \in Tid \ {t} : c1[e] = c[e]
  BY <1>2, <1>5, <1>22, RanksMore
<1>24. ASSUME NEW j \in 0..n-1
       PROVE  /\ Linked(InBkt(moved \cup {t}, j, n), grown'[j].hh_head, HhNext', HhPrev', c1)
              /\ grown'[j].count = Cardinality(InBkt(moved \cup {t}, j, n))
  <2>1. CASE j = k
    <3>1. InBkt(moved \cup {t}, j, n) = InBkt(moved, k, n) \cup {t}
      BY <1>6, <2>1 DEF InBkt
    <3>2. Linked(InBkt(moved, k, n) \cup {t}, t, HhNext', HhPrev', c1)
      <4>1. \A e \in InBkt(moved, k, n) :
              /\ HhNext'[e] = HhNext[e] /\ c1[e] = c[e]
              /\ HhPrev'[e] = IF e = b.hh_head THEN t ELSE HhPrev[e]
        BY <1>13, <1>21, <1>23
      <4>2. t \in Tid \ InBkt(moved, k, n)
        BY <1>5, <1>21
      <4>. QED BY <1>2, <1>13, <1>21, <1>23, <4>1, <4>2, LinkedPrepend
    <3>3. Cardinality(InBkt(moved, k, n) \cup {t}) = Cardinality(InBkt(moved, k, n)) + 1
      BY <1>21, MembersFinite, FS_AddElement
    <3>. QED BY <1>14, <1>21, <2>1, <3>1, <3>2, <3>3
  <2>2. CASE j # k
    <3>1. InBkt(moved \cup {t}, j, n) = InBkt(moved, j, n)
      BY <1>6, <2>2 DEF InBkt
    <3>2. \A e \in InBkt(moved, j, n) : e \in Tid \ {t} /\ e # b.hh_head
      <4>1. \A e \in InBkt(moved, j, n) : e \notin InBkt(moved, k, n) /\ e \in moved
        BY <2>2 DEF InBkt
      <4>. QED BY <1>19, <1>21, <4>1, MembersTid
    <3>3. Linked(InBkt(moved, j, n), grown[j].hh_head, HhNext, HhPrev, c)
          /\ grown[j].count = Cardinality(InBkt(moved, j, n))
      BY <1>20 DEF ChainOf
    <3>4. \A e \in InBkt(moved, j, n) :
            HhNext'[e] = HhNext[e] /\ HhPrev'[e] = HhPrev[e] /\ c1[e] = c[e]
      BY <1>13, <1>23, <3>2
    <3>5. InBkt(moved, j, n) \in SUBSET Tid
      BY DEF InBkt
    <3>6. Linked(InBkt(moved, j, n), grown[j].hh_head, HhNext', HhPrev', c1)
      BY <3>3, <3>4, <3>5, LinkedFrame
    <3>. QED BY <1>14, <2>2, <3>1, <3>3, <3>6
  <2>. QED BY <2>1, <2>2
<1>25. Linked(rest1, thh', HhNext', [HhPrev' EXCEPT ![thh'] = NoTid], c1)
  <2>. DEFINE prev == [HhPrev EXCEPT ![thh] = NoTid]
              prev1 == [HhPrev' EXCEPT ![thh'] = NoTid]
  <2>1. Linked(rest, t, HhNext, prev, c)
    BY <1>2, <1>3, <1>4 DEF GrowthOK
  <2>2. thh' = HhNext[t] /\ prev[t] = NoTid
    BY <1>4, <1>5, <1>9 DEF HhNext, HhPrev
  <2>3. \A e \in rest1 : e \in Tid \ {t} /\ e # b.hh_head
    BY <1>17, <1>18, <1>19, <1>21, MembersTid DEF InBkt
  <2>4. \A e \in rest1 : HhNext'[e] = HhNext[e] /\ HhPrev'[e] = HhPrev[e] /\ c1[e] = c[e]
    BY <1>13, <1>23, <2>3
  <2>5. ASSUME NEW e \in rest1
        PROVE  /\ HhNext'[e] = IF e = prev[t] THEN HhNext[t] ELSE HhNext[e]
               /\ prev1[e] = IF e = HhNext[t] THEN prev[t] ELSE prev[e]
    <3>1. e # NoTid /\ e # thh /\ e \in Tid
      BY <1>4, <2>3, TasksAssumption
    <3>2. prev[e] = HhPrev[e]
      BY <3>1 DEF HhPrev
    <3>3. prev1[e] = IF e = thh' THEN NoTid ELSE HhPrev'[e]
      BY <3>1 DEF HhPrev
    <3>. QED BY <2>2, <2>4, <3>1, <3>2, <3>3
  <2>. HIDE DEF prev, prev1
  <2>6. Linked(rest1, HhNext[t], HhNext', prev1, c)
    <3>1. LeavesOut(rest, t, t, HhNext, prev, HhNext[t], HhNext', prev1)
      BY <1>18, <2>5 DEF LeavesOut
    <3>. QED BY <1>2, <1>18, <2>1, <3>1, LinkedDelete
  <2>7. Linked(rest1, HhNext[t], HhNext', prev1, c1)
    BY <2>4, <2>6, LinkedFrame
  <2>. QED BY <2>2, <2>7 DEF prev1
<1>26. ASSUME NEW j \in bkt_i+1..nb-1
       PROVE  /\ Linked(InBkt(Members, j, nb), buckets[j].hh_head, HhNext', HhPrev', c1)
              /\ buckets[j].count = Cardinality(InBkt(Members, j, nb))
  <2>1. /\ Linked(InBkt(Members, j, nb), buckets[j].hh_head, HhNext, HhPrev, c)
        /\ buckets[j].count = Cardinality(InBkt(Members, j, nb))
    BY <1>2, <1>3 DEF GrowthOK, ChainOf, nb
  <2>2. ASSUME NEW e \in InBkt(Members, j, nb)
        PROVE  e \in Tid \ {t} /\ e # b.hh_head
    <3>1. e \in Members /\ HASH_TO_BKT(hash[e], nb) = j /\ j > bkt_i
      BY <1>5 DEF InBkt
    <3>2. e \in Waiting(rest)
      BY <3>1 DEF Waiting, nb
    <3>3. e # t
      BY <1>5, <3>1
    <3>. QED BY <1>17, <1>21, <3>1, <3>2, <3>3, MembersTid DEF InBkt
  <2>3. \A e \in InBkt(Members, j, nb) :
          HhNext'[e] = HhNext[e] /\ HhPrev'[e] = HhPrev[e] /\ c1[e] = c[e]
    BY <1>13, <1>23, <2>2
  <2>4. InBkt(Members, j, nb) \in SUBSET Tid
    BY MembersTid DEF InBkt
  <2>. QED BY <2>1, <2>3, <2>4, LinkedFrame
<1>27. GrowthOK(c1, rest1)'
  <2>1. (bkt_i < tbl.num_buckets)'
    BY <1>5, <1>9, <1>10
  <2>2. (rest1 \subseteq InBkt(Members, bkt_i, tbl.num_buckets))'
    BY <1>2, <1>3, <1>9, <1>10, <1>12, <1>18 DEF GrowthOK, InBkt, nb
  <2>3. (\A j \in bkt_i+1..tbl.num_buckets-1 :
           ChainOf(buckets[j], InBkt(Members, j, tbl.num_buckets), c1))'
    BY <1>9, <1>10, <1>12, <1>26 DEF ChainOf, InBkt
  <2>4. (\A j \in 0..2*tbl.num_buckets-1 :
           ChainOf(grown[j], InBkt(Members \ Waiting(rest1), j, 2 * tbl.num_buckets), c1))'
    BY <1>9, <1>10, <1>12, <1>19, <1>24 DEF ChainOf, InBkt, n
  <2>. QED BY <1>25, <2>1, <2>2, <2>3, <2>4 DEF GrowthOK
<1>28. ChainsOK(c1)'
  <2>1. DOMAIN grown' = 0..n-1
    BY <1>14
  <2>. QED BY <1>6, <2>1 DEF ChainsOK, Growing
<1>29. ListOK(r)'
  BY <1>1, <1>9, <1>10, <1>12 DEF LinksOK, ListOK
<1>30. LinksOK(r, c1, m + 1, rest1)'
  BY <1>23, <1>27, <1>28, <1>29 DEF LinksOK
<1>31. m + 1 \in Nat
  OBVIOUS
<1>. QED BY <1>15, <1>16, <1>30, <1>31 DEF HashInv

-----------------------------------------------------------------------------
(* What it is to append t to the list, for the handles.                    *)
Appended(g, t) ==
  /\ g \in [Tid -> Handle]
  /\ g[t].tbl = TRUE /\ g[t].hashv = hash[t] /\ g[t].prev = tbl.tail /\ g[t].next = NoTid
  /\ \A e \in Tid \ {t} :
       /\ g[e].tbl = hh[e].tbl /\ g[e].hashv = hh[e].hashv
       /\ g[e].hh_next = hh[e].hh_next /\ g[e].hh_prev = hh[e].hh_prev
       /\ g[e].prev = hh[e].prev
       /\ g[e].next = IF e = tbl.tail THEN t ELSE hh[e].next

LEMMA AppendEffect ==
  ASSUME HashTypeOK, NEW t \in Tid, NEW g, g = HASH_APPEND_LIST(hh, t)
  PROVE  Appended(g, t)
<1>1. \A e \in Tid :
        g[e] = CASE e = t -> [NoHandle EXCEPT !.tbl = TRUE, !.hashv = hash[t], !.prev = tbl.tail]
                 [] e # t /\ e = tbl.tail -> [hh[e] EXCEPT !.next = t]
                 [] OTHER -> hh[e]
  BY DEF HASH_APPEND_LIST
<1>2. g[t] = [NoHandle EXCEPT !.tbl = TRUE, !.hashv = hash[t], !.prev = tbl.tail]
  BY <1>1
<1>3. /\ hash[t] \in Nat /\ tbl.tail \in OrNone /\ t \in OrNone /\ NoTid \in OrNone
      /\ hh \in [Tid -> Handle]
  BY DEF HashTypeOK, Table, OrNone
<1>4. /\ g[t] \in Handle
      /\ g[t].tbl = TRUE /\ g[t].hashv = hash[t] /\ g[t].prev = tbl.tail /\ g[t].next = NoTid
  BY <1>2, <1>3 DEF Handle, NoHandle
<1>5. ASSUME NEW e \in Tid \ {t}
      PROVE  /\ g[e] \in Handle
             /\ g[e].tbl = hh[e].tbl /\ g[e].hashv = hh[e].hashv
             /\ g[e].hh_next = hh[e].hh_next /\ g[e].hh_prev = hh[e].hh_prev
             /\ g[e].prev = hh[e].prev
             /\ g[e].next = IF e = tbl.tail THEN t ELSE hh[e].next
  <2>1. CASE e = tbl.tail
    <3>1. g[e] = [hh[e] EXCEPT !.next = t] /\ hh[e] \in Handle
      BY <1>1, <1>3, <2>1
    <3>. QED BY <1>3, <2>1, <3>1 DEF Handle
  <2>2. CASE e # tbl.tail
    <3>1. g[e] = hh[e] /\ hh[e] \in Handle
      BY <1>1, <1>3, <2>2
    <3>. QED BY <2>2, <3>1
  <2>. QED BY <2>1, <2>2
<1>6. g \in [Tid -> Handle]
  <2>1. DOMAIN g = Tid /\ g = [e \in Tid |-> g[e]]
    BY DEF HASH_APPEND_LIST
  <2>. QED BY <1>4, <1>5, <2>1
<1>. QED BY <1>4, <1>5, <1>6 DEF Appended

(* The table and the buckets that an entry is added to: those that there   *)
(* are, or the first.                                                      *)
LEMMA AddTo ==
  ASSUME HashInv, adding = NoTid, NEW t \in Tid \ Members,
         NEW c, ChainsOK(c),
         NEW table, table = IF head = NoTid THEN HASH_MAKE_TABLE(t) ELSE [tbl EXCEPT !.tail = t],
         NEW old, old = IF head = NoTid THEN Empty(InitialBuckets) ELSE buckets
  PROVE  /\ table \in Table /\ table.tail = t /\ table.num_items = tbl.num_items
         /\ table.num_buckets \in Nat \ {0}
         /\ old \in [0..table.num_buckets-1 -> Bucket]
         /\ \A j \in 0..table.num_buckets-1 : ChainOf(old[j], InBkt(Members, j, table.num_buckets), c)
<1>1. HashTypeOK /\ EntriesOK /\ t \in OrNone
  BY DEF HashInv, OrNone
<1>2. CASE head = NoTid
  <2>1. tbl = NoTable /\ Members = {}
    <3>1. PICK r \in [Tid -> Int], d \in [Tid -> Int], m \in Nat, rest \in SUBSET Tid :
            LinksOK(r, d, m, rest)
      BY DEF HashInv
    <3>. QED BY <1>1, <1>2, <3>1 DEF EntriesOK, LinksOK, ListOK, Linked
  <2>2. table = [NoTable EXCEPT !.tail = t, !.num_buckets = InitialBuckets]
    BY <1>2 DEF HASH_MAKE_TABLE
  <2>3. InitialBuckets \in Nat \ {0}
    BY HashAssumption
  <2>4. /\ table \in Table /\ table.tail = t /\ table.num_items = tbl.num_items
        /\ table.num_buckets = InitialBuckets
    <3>1. NoTable \in Table /\ tbl.num_items = NoTable.num_items
      BY <2>1 DEF NoTable, Table, OrNone
    <3>2. table.num_items = NoTable.num_items
      BY <2>2 DEF NoTable
    <3>3. /\ table \in Table /\ table.tail = t /\ table.num_buckets = InitialBuckets
      BY <1>1, <2>2, <2>3, <3>1 DEF Table
    <3>. QED BY <3>1, <3>2, <3>3
  <2>5. /\ old \in [0..InitialBuckets-1 -> Bucket]
        /\ \A j \in 0..InitialBuckets-1 : old[j].hh_head = NoTid /\ old[j].count = 0
    BY <1>2, <2>3, EmptyBuckets
  <2>6. \A j \in 0..InitialBuckets-1 : InBkt(Members, j, InitialBuckets) = {}
    BY <2>1 DEF InBkt
  <2>7. \A j \in 0..InitialBuckets-1 : ChainOf(old[j], {}, c)
    BY <2>5, EmptyChain
  <2>. QED BY <2>3, <2>4, <2>5, <2>6, <2>7
<1>3. CASE head # NoTid
  <2>1. table = [tbl EXCEPT !.tail = t] /\ old = buckets /\ tbl \in Table
    BY <1>1, <1>3 DEF HashTypeOK
  <2>2. /\ table \in Table /\ table.tail = t /\ table.num_items = tbl.num_items
        /\ table.num_buckets = tbl.num_buckets
    BY <1>1, <2>1 DEF Table
  <2>3. tbl.num_buckets \in Nat \ {0}
    BY <1>1, <1>3, <2>1 DEF EntriesOK, Table
  <2>4. ~Growing
    BY <1>1 DEF EntriesOK
  <2>5. old \in [0..table.num_buckets-1 -> Bucket]
    BY <1>1, <2>1, <2>2 DEF HashTypeOK
  <2>. QED BY <2>1, <2>2, <2>3, <2>4, <2>5 DEF ChainsOK
<1>. QED BY <1>2, <1>3

LEMMA AddInv ==
  ASSUME HashInv, adding = NoTid, NEW t \in Tid \ Members, Add(t)
  PROVE  HashInv' /\ Members' = Members \cup {t}
<1>. DEFINE table == IF head = NoTid THEN HASH_MAKE_TABLE(t) ELSE [tbl EXCEPT !.tail = t]
            old == IF head = NoTid THEN Empty(InitialBuckets) ELSE buckets
            n == table.num_buckets
            k == HASH_TO_BKT(hash[t], n)
            b == [old[k] EXCEPT !.count = @ + 1, !.hh_head = t]
<1>1. PICK r \in [Tid -> Int], c \in [Tid -> Int], m \in Nat, rest \in SUBSET Tid :
        LinksOK(r, c, m, rest)
  BY DEF HashInv
<1>2. /\ HashTypeOK /\ EntriesOK /\ ListOK(r) /\ ChainsOK(c) /\ Ranks(r, m) /\ Ranks(c, m)
      /\ t \in OrNone /\ t # NoTid /\ t \in Tid
  BY <1>1, TasksAssumption DEF HashInv, LinksOK, OrNone
<1>3. /\ table \in Table /\ table.tail = t /\ table.num_items = tbl.num_items
      /\ n \in Nat \ {0}
      /\ old \in [0..n-1 -> Bucket]
      /\ \A j \in 0..n-1 : ChainOf(old[j], InBkt(Members, j, n), c)
  BY <1>2, AddTo
<1>4. hash[t] \in Nat /\ k \in 0..n-1
  <2>1. hash[t] \in Nat
    BY <1>2 DEF HashTypeOK
  <2>. QED BY <1>3, <2>1, BktRange
<1>5. /\ head' = IF head = NoTid THEN t ELSE head
      /\ hh' = LinkInBkt(HASH_APPEND_LIST(hh, t), old[k].hh_head, t)
      /\ gettime_data' = [gettime_data EXCEPT ![t] = 0]
      /\ tbl' = [table EXCEPT !.num_items = @ + 1]
      /\ buckets' = [old EXCEPT ![k] = b]
      /\ \/ adding' = t /\ entry_count' = entry_count
         \/ adding' = adding /\ entry_count' = entry_count + 1
      /\ hash' = hash /\ grown' = grown /\ bkt_i' = bkt_i /\ thh' = thh
  BY DEF Add
<1>. HIDE DEF table, old, k, b, n
<1>6. /\ tbl' \in Table /\ tbl'.num_buckets = n /\ tbl'.tail = t
      /\ tbl'.num_items = tbl.num_items + 1
  <2>1. table.num_items + 1 \in Nat /\ tbl' = [table EXCEPT !.num_items = table.num_items + 1]
    BY <1>3, <1>5 DEF Table
  <2>2. table.num_buckets = n
    BY DEF n
  <2>. QED BY <1>3, <2>1, <2>2 DEF Table
<1>7. /\ old[k] \in Bucket /\ b \in Bucket /\ b.hh_head = t /\ b.count = old[k].count + 1
  <2>1. old[k] \in Bucket
    BY <1>3, <1>4
  <2>2. b = [old[k] EXCEPT !.count = old[k].count + 1, !.hh_head = t] /\ old[k].count + 1 \in Nat
    BY <2>1 DEF Bucket, b
  <2>. QED BY <1>2, <2>1, <2>2 DEF Bucket
<1>8. /\ buckets' \in [0..n-1 -> Bucket]
      /\ buckets'[k] = b
      /\ \A j \in 0..n-1 : j # k => buckets'[j] = old[j]
  BY <1>3, <1>4, <1>5, <1>7
<1>. DEFINE first == old[k].hh_head
<1>9. /\ hh' \in [Tid -> Handle]
      /\ hh'[t].tbl = TRUE /\ hh'[t].hashv = hash[t] /\ hh'[t].prev = tbl.tail
      /\ hh'[t].next = NoTid /\ hh'[t].hh_next = first /\ hh'[t].hh_prev = NoTid
      /\ \A e \in Tid \ {t} :
           /\ hh'[e].tbl = hh[e].tbl /\ hh'[e].hashv = hh[e].hashv
           /\ hh'[e].prev = hh[e].prev
           /\ hh'[e].next = IF e = tbl.tail THEN t ELSE hh[e].next
           /\ hh'[e].hh_next = hh[e].hh_next
           /\ hh'[e].hh_prev = IF e = first THEN t ELSE hh[e].hh_prev
  <2>1. PICK g : g = HASH_APPEND_LIST(hh, t)
    OBVIOUS
  <2>2. Appended(g, t)
    BY <1>2, <2>1, AppendEffect
  <2>3. first \in OrNone /\ hh' = LinkInBkt(g, first, t)
    BY <1>5, <1>7, <2>1 DEF Bucket
  <2>4. LinkedIn(hh', g, first, t)
    <3>1. g \in [Tid -> Handle]
      BY <2>2 DEF Appended
    <3>. QED BY <1>2, <2>3, <3>1, LinkInBktEffect
  <2>. HIDE DEF first
  <2>. QED BY <1>2, <2>2, <2>4 DEF Appended, LinkedIn
<1>. HIDE DEF first
<1>10. Members' = Members \cup {t}
  BY <1>2, <1>9 DEF Members
<1>11. /\ ListNext'[t] = NoTid /\ ListPrev'[t] = tbl.tail
       /\ HhNext'[t] = first /\ HhPrev'[t] = NoTid
       /\ \A e \in Tid \ {t} :
            /\ ListNext'[e] = IF e = tbl.tail THEN t ELSE ListNext[e]
            /\ ListPrev'[e] = ListPrev[e]
            /\ HhNext'[e] = HhNext[e]
            /\ HhPrev'[e] = IF e = first THEN t ELSE HhPrev[e]
  BY <1>2, <1>9 DEF ListNext, ListPrev, HhNext, HhPrev
<1>12. ~Growing /\ ~Growing'
  BY <1>2, <1>5 DEF EntriesOK, Growing
<1>13. HashTypeOK'
  <2>1. adding' \in OrNone /\ entry_count' \in Nat
    BY <1>2, <1>5 DEF HashTypeOK
  <2>2. buckets' \in [0..tbl'.num_buckets-1 -> Bucket]
    BY <1>6, <1>8
  <2>3. gettime_data' \in [Tid -> Nat] /\ head' \in OrNone
    BY <1>2, <1>5 DEF HashTypeOK
  <2>. QED BY <1>2, <1>5, <1>6, <1>9, <1>12, <2>1, <2>2, <2>3 DEF HashTypeOK
<1>14. Cardinality(Members \cup {t}) = Cardinality(Members) + 1 /\ Cardinality(Members) \in Nat
  BY MembersTid, MembersFinite, FS_AddElement
<1>15. EntriesOK'
  <2>1. entry_count = Cardinality(Members)
    <3>1. Members \ {adding} = Members
      BY MembersTid
    <3>. QED BY <1>2, <3>1 DEF EntriesOK
  <2>2. entry_count' = Cardinality(Members' \ {adding'})
    <3>1. CASE adding' = t /\ entry_count' = entry_count
      <4>1. (Members \cup {t}) \ {t} = Members
        OBVIOUS
      <4>. QED BY <1>10, <2>1, <3>1, <4>1
    <3>2. CASE adding' = adding /\ entry_count' = entry_count + 1
      <4>1. (Members \cup {t}) \ {NoTid} = Members \cup {t}
        BY <1>2, MembersTid
      <4>. QED BY <1>10, <1>14, <2>1, <3>2, <4>1
    <3>. QED BY <1>5, <3>1, <3>2
  <2>3. \A e \in Members' : hh'[e].hashv = hash'[e]
    BY <1>2, <1>5, <1>9, <1>10, MembersTid DEF EntriesOK
  <2>4. \A e \in Tid \ Members' : gettime_data'[e] = 0
    BY <1>2, <1>5, <1>10 DEF EntriesOK, HashTypeOK
  <2>5. adding' # NoTid => adding' \in Members' /\ gettime_data'[adding'] = 0
    BY <1>2, <1>5, <1>10 DEF HashTypeOK
  <2>6. head' # NoTid /\ tbl'.num_buckets > 0
    BY <1>2, <1>3, <1>5, <1>6
  <2>. QED BY <1>12, <2>2, <2>3, <2>4, <2>5, <2>6 DEF EntriesOK
<1>. PICK q \in Int : q = -m
  OBVIOUS
<1>16. PICK r1 \in [Tid -> Int], c1 \in [Tid -> Int] :
         r1 = [r EXCEPT ![t] = q] /\ c1 = [c EXCEPT ![t] = m]
  <2>1. [r EXCEPT ![t] = q] \in [Tid -> Int] /\ [c EXCEPT ![t] = m] \in [Tid -> Int]
    OBVIOUS
  <2>. QED BY <2>1
<1>17. /\ Ranks(r1, m + 1) /\ Ranks(c1, m + 1) /\ m + 1 \in Nat
       /\ r1[t] = q /\ c1[t] = m
       /\ \A e \in Tid \ {t} : r1[e] = r[e] /\ c1[e] = c[e]
  <2>1. /\ Ranks(r1, m + 1) /\ r1[t] = q /\ \A e \in Tid \ {t} : r1[e] = r[e]
    <3>1. q \in {m, -m}
      OBVIOUS
    <3>. QED BY <1>2, <1>16, <3>1, RanksMore
  <2>2. /\ Ranks(c1, m + 1) /\ c1[t] = m /\ \A e \in Tid \ {t} : c1[e] = c[e]
    <3>1. m \in {m, -m}
      OBVIOUS
    <3>. QED BY <1>2, <1>16, <3>1, RanksMore
  <2>. QED BY <2>1, <2>2
<1>18. ListOK(r1)'
  <2>1. /\ Linked(Members, head, ListNext, ListPrev, r) /\ Ends(Members, ListNext, tbl.tail)
        /\ tbl.num_items = Cardinality(Members)
    BY <1>2 DEF ListOK
  <2>2. \A e \in Members : /\ ListNext'[e] = IF e = tbl.tail THEN t ELSE ListNext[e]
                           /\ ListPrev'[e] = ListPrev[e] /\ r1[e] = r[e]
    BY <1>11, <1>17, MembersTid
  <2>3. AppendsTo(Members, t, head, ListNext, ListPrev, r, tbl.tail, head', ListNext', ListPrev', r1)
    <3>1. \A e \in Members : r1[t] < r[e]
      BY <1>2, <1>17, MembersTid DEF Ranks
    <3>2. head' = IF head = NoTid THEN t ELSE head
      BY <1>5
    <3>. QED BY <1>11, <2>2, <3>1, <3>2 DEF AppendsTo
  <2>4. /\ Linked(Members \cup {t}, head', ListNext', ListPrev', r1)
        /\ Ends(Members \cup {t}, ListNext', t)
    BY <2>1, <2>3, MembersTid, LinkedAppend
  <2>5. tbl'.num_items = Cardinality(Members \cup {t})
    BY <1>6, <1>14, <2>1
  <2>. QED BY <1>6, <1>10, <2>4, <2>5 DEF ListOK
<1>19. /\ Linked(InBkt(Members, k, n), first, HhNext, HhPrev, c)
       /\ old[k].count = Cardinality(InBkt(Members, k, n))
       /\ InBkt(Members, k, n) \in SUBSET Tid /\ t \notin InBkt(Members, k, n)
       /\ first \in InBkt(Members, k, n) \cup {NoTid}
  BY <1>3, <1>4, MembersTid DEF ChainOf, first, InBkt, Linked
<1>20. ASSUME NEW j \in 0..n-1
       PROVE  /\ Linked(InBkt(Members \cup {t}, j, n), buckets'[j].hh_head, HhNext', HhPrev', c1)
              /\ buckets'[j].count = Cardinality(InBkt(Members \cup {t}, j, n))
  <2>1. CASE j = k
    <3>1. InBkt(Members \cup {t}, j, n) = InBkt(Members, k, n) \cup {t}
      BY <2>1 DEF InBkt, k
    <3>2. Linked(InBkt(Members, k, n) \cup {t}, t, HhNext', HhPrev', c1)
      <4>1. \A e \in InBkt(Members, k, n) :
              /\ HhNext'[e] = HhNext[e] /\ c1[e] = c[e]
              /\ HhPrev'[e] = IF e = first THEN t ELSE HhPrev[e]
        BY <1>11, <1>17, <1>19
      <4>2. t \in Tid \ InBkt(Members, k, n)
        BY <1>2, <1>19
      <4>. QED BY <1>2, <1>11, <1>17, <1>19, <4>1, <4>2, LinkedPrepend
    <3>3. Cardinality(InBkt(Members, k, n) \cup {t}) = Cardinality(InBkt(Members, k, n)) + 1
      BY <1>19, MembersFinite, FS_AddElement
    <3>. QED BY <1>7, <1>8, <1>19, <2>1, <3>1, <3>2, <3>3
  <2>2. CASE j # k
    <3>1. InBkt(Members \cup {t}, j, n) = InBkt(Members, j, n)
      BY <2>2 DEF InBkt, k
    <3>2. \A e \in InBkt(Members, j, n) : e \in Tid \ {t} /\ e # first
      <4>1. \A e \in InBkt(Members, j, n) : e \notin InBkt(Members, k, n) /\ e \in Members
        BY <2>2 DEF InBkt
      <4>. QED BY <1>19, <4>1, MembersTid
    <3>3. Linked(InBkt(Members, j, n), old[j].hh_head, HhNext, HhPrev, c)
          /\ old[j].count = Cardinality(InBkt(Members, j, n))
      BY <1>3 DEF ChainOf
    <3>4. \A e \in InBkt(Members, j, n) :
            HhNext'[e] = HhNext[e] /\ HhPrev'[e] = HhPrev[e] /\ c1[e] = c[e]
      BY <1>11, <1>17, <3>2
    <3>5. InBkt(Members, j, n) \in SUBSET Tid
      BY MembersTid DEF InBkt
    <3>6. Linked(InBkt(Members, j, n), old[j].hh_head, HhNext', HhPrev', c1)
      BY <3>3, <3>4, <3>5, LinkedFrame
    <3>. QED BY <1>8, <2>2, <3>1, <3>3, <3>6
  <2>. QED BY <2>1, <2>2
<1>21. ChainsOK(c1)'
  <2>1. tbl'.num_buckets = n /\ Members' = Members \cup {t}
    BY <1>6, <1>10
  <2>2. (\A j \in 0..tbl.num_buckets-1 :
           ChainOf(buckets[j], InBkt(Members, j, tbl.num_buckets), c1))'
    BY <1>5, <1>20, <2>1 DEF ChainOf, InBkt
  <2>. QED BY <2>2 DEF ChainsOK
<1>22. LinksOK(r1, c1, m + 1, rest)'
  BY <1>12, <1>17, <1>18, <1>21 DEF LinksOK, GrowthOK
<1>. QED BY <1>10, <1>13, <1>15, <1>17, <1>22 DEF HashInv

-----------------------------------------------------------------------------
(* What it is to unlink t, for the handles.                                *)
PastIt(g, t) ==
  /\ g \in [Tid -> Handle]
  /\ g[t].tbl = FALSE
  /\ \A e \in Tid \ {t} :
       /\ g[e].tbl = hh[e].tbl /\ g[e].hashv = hh[e].hashv
       /\ g[e].next = IF e = hh[t].prev THEN hh[t].next ELSE hh[e].next
       /\ g[e].prev = IF e = hh[t].next THEN hh[t].prev ELSE hh[e].prev
       /\ g[e].hh_next = IF e = hh[t].hh_prev THEN hh[t].hh_next ELSE hh[e].hh_next
       /\ g[e].hh_prev = IF e = hh[t].hh_next THEN hh[t].hh_prev ELSE hh[e].hh_prev

LEMMA UnlinkEffect ==
  ASSUME hh \in [Tid -> Handle], NEW t \in Tid, NEW g, g = Unlinked(hh, t)
  PROVE  PastIt(g, t)
<1>1. g[t] = NoHandle /\ NoHandle \in Handle /\ NoHandle.tbl = FALSE
  BY DEF Unlinked, NoHandle, Handle, OrNone
<1>2. ASSUME NEW e \in Tid \ {t}
      PROVE  /\ g[e] \in Handle
             /\ g[e].tbl = hh[e].tbl /\ g[e].hashv = hh[e].hashv
             /\ g[e].next = IF e = hh[t].prev THEN hh[t].next ELSE hh[e].next
             /\ g[e].prev = IF e = hh[t].next THEN hh[t].prev ELSE hh[e].prev
             /\ g[e].hh_next = IF e = hh[t].hh_prev THEN hh[t].hh_next ELSE hh[e].hh_next
             /\ g[e].hh_prev = IF e = hh[t].hh_next THEN hh[t].hh_prev ELSE hh[e].hh_prev
  <2>. DEFINE x == IF e = hh[t].prev THEN hh[t].next ELSE hh[e].next
              p == IF e = hh[t].next THEN hh[t].prev ELSE hh[e].prev
              hx == IF e = hh[t].hh_prev THEN hh[t].hh_next ELSE hh[e].hh_next
              hp == IF e = hh[t].hh_next THEN hh[t].hh_prev ELSE hh[e].hh_prev
  <2>1. hh[e] \in Handle /\ hh[t] \in Handle
    OBVIOUS
  <2>2. g[e] = [hh[e] EXCEPT !.next = x, !.prev = p, !.hh_next = hx, !.hh_prev = hp]
    BY <2>1 DEF Unlinked, Handle
  <2>3. x \in OrNone /\ p \in OrNone /\ hx \in OrNone /\ hp \in OrNone
    BY <2>1 DEF Handle
  <2>. HIDE DEF x, p, hx, hp
  <2>4. /\ g[e] \in Handle /\ g[e].tbl = hh[e].tbl /\ g[e].hashv = hh[e].hashv
        /\ g[e].next = x /\ g[e].prev = p /\ g[e].hh_next = hx /\ g[e].hh_prev = hp
    BY <2>1, <2>2, <2>3 DEF Handle
  <2>. QED BY <2>4 DEF x, p, hx, hp
<1>3. g \in [Tid -> Handle]
  <2>1. DOMAIN g = Tid /\ g = [e \in Tid |-> g[e]]
    BY DEF Unlinked
  <2>. QED BY <1>1, <1>2, <2>1
<1>. QED BY <1>1, <1>2, <1>3 DEF PastIt

LEMMA DeleteInv ==
  ASSUME HashInv, adding = NoTid, NEW t \in Members, delete_process(t)
  PROVE  HashInv' /\ Members' = Members \ {t}
<1>. DEFINE n == tbl.num_buckets
            k == HASH_TO_BKT(hh[t].hashv, n)
<1>1. PICK r \in [Tid -> Int], c \in [Tid -> Int], m \in Nat, rest \in SUBSET Tid :
        LinksOK(r, c, m, rest)
  BY DEF HashInv
<1>2. /\ HashTypeOK /\ EntriesOK /\ ListOK(r) /\ ChainsOK(c) /\ Ranks(r, m) /\ Ranks(c, m)
      /\ t \in Tid /\ ~Growing
  BY <1>1, MembersTid DEF HashInv, LinksOK, EntriesOK
<1>3. /\ Linked(Members, head, ListNext, ListPrev, r) /\ Ends(Members, ListNext, tbl.tail)
      /\ tbl.num_items = Cardinality(Members)
  BY <1>2 DEF ListOK
<1>4. head # NoTid /\ n \in Nat \ {0} /\ tbl \in Table
  BY <1>2, <1>3 DEF Linked, EntriesOK, HashTypeOK, Table
<1>5. hash[t] \in Nat /\ k = HASH_TO_BKT(hash[t], n) /\ k \in 0..n-1
  <2>1. hash[t] \in Nat /\ hh[t].hashv = hash[t]
    BY <1>2 DEF HashTypeOK, EntriesOK
  <2>. QED BY <1>4, <2>1, BktRange
<1>6. /\ IF hh[t].prev = NoTid /\ hh[t].next = NoTid THEN FreeTable ELSE Remove(t)
      /\ hh' = Unlinked(hh, t)
      /\ gettime_data' = [gettime_data EXCEPT ![t] = 0]
      /\ entry_count' = entry_count - 1
      /\ hash' = hash /\ adding' = adding /\ grown' = grown /\ bkt_i' = bkt_i /\ thh' = thh
  BY <1>2, FoundMembers DEF delete_process, growVars
<1>. HIDE DEF k, n
<1>7. PastIt(hh', t)
  BY <1>2, <1>6, UnlinkEffect DEF HashTypeOK
<1>8. Members' = Members \ {t}
  BY <1>2, <1>7 DEF PastIt, Members
<1>9. \A e \in Tid \ {t} :
        /\ ListNext'[e] = IF e = ListPrev[t] THEN ListNext[t] ELSE ListNext[e]
        /\ ListPrev'[e] = IF e = ListNext[t] THEN ListPrev[t] ELSE ListPrev[e]
        /\ HhNext'[e] = IF e = HhPrev[t] THEN HhNext[t] ELSE HhNext[e]
        /\ HhPrev'[e] = IF e = HhNext[t] THEN HhPrev[t] ELSE HhPrev[e]
  BY <1>2, <1>7 DEF PastIt, ListNext, ListPrev, HhNext, HhPrev
<1>10. Cardinality(Members \ {t}) = Cardinality(Members) - 1 /\ Cardinality(Members) \in Nat
       /\ Cardinality(Members \ {t}) \in Nat
  BY <1>2, MembersTid, MembersFinite, FS_RemoveElement
<1>. DEFINE head1 == IF t = head THEN ListNext[t] ELSE head
<1>11. /\ Linked(Members \ {t}, head1, ListNext', ListPrev', r)
       /\ \A last : Ends(Members, ListNext, last) =>
            Ends(Members \ {t}, ListNext', IF t = last THEN ListPrev[t] ELSE last)
  <2>1. LeavesOut(Members, t, head, ListNext, ListPrev, head1, ListNext', ListPrev')
    BY <1>9, MembersTid DEF LeavesOut
  <2>. HIDE DEF head1
  <2>. QED BY <1>2, <1>3, <2>1, MembersTid, LinkedDelete
<1>12. entry_count' = Cardinality(Members' \ {adding'}) /\ entry_count' \in Nat
  <2>1. Members \ {adding} = Members /\ (Members \ {t}) \ {adding} = Members \ {t}
    BY MembersTid
  <2>2. entry_count = Cardinality(Members)
    BY <1>2, <2>1 DEF EntriesOK
  <2>. QED BY <1>6, <1>8, <1>10, <2>1, <2>2
<1>13. /\ \A e \in Members' : hh'[e].hashv = hash'[e]
       /\ \A e \in Tid \ Members' : gettime_data'[e] = 0
       /\ adding' = NoTid /\ ~Growing'
       /\ gettime_data' \in [Tid -> Nat]
  <2>1. \A e \in Members' : hh'[e].hashv = hash'[e]
    BY <1>2, <1>6, <1>7, <1>8, MembersTid DEF PastIt, EntriesOK
  <2>2. gettime_data' \in [Tid -> Nat] /\ \A e \in Tid \ Members' : gettime_data'[e] = 0
    BY <1>2, <1>6, <1>8 DEF EntriesOK, HashTypeOK
  <2>. QED BY <1>2, <1>6, <2>1, <2>2 DEF Growing
<1>14. CASE hh[t].prev = NoTid /\ hh[t].next = NoTid
  <2>1. head' = NoTid /\ tbl' = NoTable /\ buckets' = Empty(0)
    BY <1>6, <1>14 DEF FreeTable
  <2>2. Members \ {t} = {}
    <3>1. ListPrev[t] = NoTid /\ ListNext[t] = NoTid
      BY <1>2, <1>14 DEF ListPrev, ListNext
    <3>2. t = head
      BY <1>3, <3>1 DEF Linked
    <3>. QED BY <1>11, <3>1, <3>2 DEF Linked
  <2>3. NoTable \in Table /\ NoTable.num_buckets = 0 /\ NoTable.num_items = 0 /\ NoTable.tail = NoTid
    BY DEF NoTable, Table, OrNone
  <2>4. buckets' \in [0..tbl'.num_buckets-1 -> Bucket]
    BY <2>1, <2>3, EmptyBuckets
  <2>5. HashTypeOK'
    BY <1>2, <1>6, <1>7, <1>12, <1>13, <2>1, <2>3, <2>4 DEF HashTypeOK, PastIt, OrNone
  <2>6. EntriesOK'
    BY <1>12, <1>13, <2>1 DEF EntriesOK
  <2>7. ListOK(r)'
    BY <1>8, <2>1, <2>2, <2>3, FS_EmptySet DEF ListOK, Linked, Ends
  <2>8. ChainsOK(c)'
    BY <2>1, <2>3 DEF ChainsOK
  <2>9. LinksOK(r, c, m, rest)'
    BY <1>2, <1>13, <2>7, <2>8 DEF LinksOK, GrowthOK
  <2>. QED BY <1>8, <2>5, <2>6, <2>9 DEF HashInv
<1>15. CASE ~(hh[t].prev = NoTid /\ hh[t].next = NoTid)
  <2>. DEFINE first == buckets[k].hh_head
              b == [buckets[k] EXCEPT !.count = @ - 1,
                                      !.hh_head = IF @ = t THEN HhNext[t] ELSE @]
  <2>1. /\ head' = IF ListPrev[t] = NoTid THEN ListNext[t] ELSE head
        /\ tbl' = [tbl EXCEPT !.tail = IF @ = t THEN ListPrev[t] ELSE @, !.num_items = @ - 1]
    BY <1>2, <1>6, <1>15 DEF Remove, ListPrev, ListNext
  <2>2. ListPrev[t] \in OrNone /\ ListNext[t] \in OrNone /\ HhNext[t] \in OrNone
    BY <1>2, LinkTypes
  <2>3. /\ ChainOf(buckets[k], InBkt(Members, k, n), c)
        /\ buckets \in [0..n-1 -> Bucket] /\ buckets[k] \in Bucket
    BY <1>2, <1>5 DEF ChainsOK, HashTypeOK, n
  <2>4. /\ InBkt(Members, k, n) \in SUBSET Tid /\ t \in InBkt(Members, k, n)
        /\ Linked(InBkt(Members, k, n), first, HhNext, HhPrev, c)
        /\ buckets[k].count = Cardinality(InBkt(Members, k, n))
        /\ HhNext[t] \in InBkt(Members, k, n) \cup {NoTid}
        /\ HhPrev[t] \in InBkt(Members, k, n) \cup {NoTid}
    BY <1>5, <2>3, MembersTid DEF ChainOf, InBkt, Linked
  <2>5. /\ Cardinality(InBkt(Members, k, n) \ {t}) = Cardinality(InBkt(Members, k, n)) - 1
        /\ Cardinality(InBkt(Members, k, n) \ {t}) \in Nat
    <3>1. InBkt(Members, k, n) \ {t} \in SUBSET Tid
      BY <2>4
    <3>. QED BY <2>4, <3>1, MembersFinite, FS_RemoveElement
  <2>6. /\ b \in Bucket /\ b.count = Cardinality(InBkt(Members, k, n) \ {t})
        /\ b.hh_head = IF t = first THEN HhNext[t] ELSE first
    <3>. DEFINE h == IF first = t THEN HhNext[t] ELSE first
                q == buckets[k].count - 1
    <3>1. b = [buckets[k] EXCEPT !.count = q, !.hh_head = h]
      BY <2>3 DEF Bucket
    <3>2. h \in OrNone /\ q \in Nat /\ q = Cardinality(InBkt(Members, k, n) \ {t})
      BY <2>2, <2>3, <2>4, <2>5 DEF Bucket
    <3>3. h = IF t = first THEN HhNext[t] ELSE first
      OBVIOUS
    <3>. HIDE DEF h, q, b
    <3>. QED BY <2>3, <3>1, <3>2, <3>3 DEF Bucket
  <2>7. buckets' = [buckets EXCEPT ![k] = b]
    <3>1. buckets' = [buckets EXCEPT ![k].count = @ - 1,
                                     ![k].hh_head = IF @ = t THEN hh[t].hh_next ELSE @]
      BY <1>6, <1>15 DEF Remove, k, n
    <3>2. hh[t].hh_next = HhNext[t]
      BY <1>2 DEF HhNext
    <3>. QED BY <1>5, <2>3, <3>1, <3>2 DEF Bucket
  <2>. HIDE DEF b, first
  <2>8. /\ buckets' \in [0..n-1 -> Bucket]
        /\ buckets'[k] = b
        /\ \A j \in 0..n-1 : j # k => buckets'[j] = buckets[j]
    BY <1>5, <2>3, <2>6, <2>7
  <2>9. /\ tbl' \in Table /\ tbl'.num_buckets = n
        /\ tbl'.num_items = Cardinality(Members \ {t})
        /\ tbl'.tail = IF t = tbl.tail THEN ListPrev[t] ELSE tbl.tail
    <3>. DEFINE tail == IF tbl.tail = t THEN ListPrev[t] ELSE tbl.tail
                items == tbl.num_items - 1
    <3>1. tbl' = [tbl EXCEPT !.tail = tail, !.num_items = items]
      BY <1>4, <2>1 DEF Table
    <3>2. tail \in OrNone /\ items \in Nat /\ items = Cardinality(Members \ {t})
      BY <1>3, <1>4, <1>10, <2>2 DEF Table
    <3>3. tail = IF t = tbl.tail THEN ListPrev[t] ELSE tbl.tail
      OBVIOUS
    <3>. HIDE DEF tail, items
    <3>. QED BY <1>4, <3>1, <3>2, <3>3 DEF Table, n
  <2>10. /\ head' = IF t = head THEN ListNext[t] ELSE head
         /\ head' # NoTid /\ head' \in OrNone
    <3>1. ListPrev[t] = NoTid <=> t = head
      BY <1>3 DEF Linked
    <3>2. ListPrev[t] = NoTid => ListNext[t] # NoTid
      BY <1>2, <1>15 DEF ListPrev, ListNext
    <3>. QED BY <1>2, <1>4, <2>1, <2>2, <3>1, <3>2 DEF HashTypeOK
  <2>11. HashTypeOK'
    <3>1. buckets' \in [0..tbl'.num_buckets-1 -> Bucket]
      BY <2>8, <2>9
    <3>. QED BY <1>2, <1>6, <1>7, <1>12, <1>13, <2>9, <2>10, <3>1 DEF HashTypeOK, PastIt
  <2>12. EntriesOK'
    BY <1>4, <1>12, <1>13, <2>9, <2>10 DEF EntriesOK
  <2>13. ListOK(r)'
    BY <1>3, <1>8, <1>11, <2>9, <2>10 DEF ListOK
  <2>14. ASSUME NEW j \in 0..n-1
         PROVE  /\ Linked(InBkt(Members \ {t}, j, n), buckets'[j].hh_head, HhNext', HhPrev', c)
                /\ buckets'[j].count = Cardinality(InBkt(Members \ {t}, j, n))
    <3>1. CASE j = k
      <4>1. InBkt(Members \ {t}, j, n) = InBkt(Members, k, n) \ {t}
        BY <3>1 DEF InBkt
      <4>2. LeavesOut(InBkt(Members, k, n), t, first, HhNext, HhPrev, b.hh_head, HhNext', HhPrev')
        BY <1>9, <2>4, <2>6 DEF LeavesOut
      <4>3. Linked(InBkt(Members, k, n) \ {t}, b.hh_head, HhNext', HhPrev', c)
        BY <1>2, <2>4, <4>2, LinkedDelete
      <4>. QED BY <2>6, <2>8, <3>1, <4>1, <4>3
    <3>2. CASE j # k
      <4>1. InBkt(Members \ {t}, j, n) = InBkt(Members, j, n)
        BY <1>5, <3>2 DEF InBkt
      <4>2. \A e \in InBkt(Members, j, n) :
              e \in Tid \ {t} /\ e # HhNext[t] /\ e # HhPrev[t]
        <5>1. \A e \in InBkt(Members, j, n) : e \notin InBkt(Members, k, n) /\ e \in Members
          BY <3>2 DEF InBkt
        <5>. QED BY <2>4, <5>1, MembersTid
      <4>3. Linked(InBkt(Members, j, n), buckets[j].hh_head, HhNext, HhPrev, c)
            /\ buckets[j].count = Cardinality(InBkt(Members, j, n))
        BY <1>2 DEF ChainsOK, ChainOf, n
      <4>4. \A e \in InBkt(Members, j, n) :
              HhNext'[e] = HhNext[e] /\ HhPrev'[e] = HhPrev[e] /\ c[e] = c[e]
        BY <1>9, <4>2
      <4>5. InBkt(Members, j, n) \in SUBSET Tid
        BY MembersTid DEF InBkt
      <4>6. Linked(InBkt(Members, j, n), buckets[j].hh_head, HhNext', HhPrev', c)
        BY <4>3, <4>4, <4>5, LinkedFrame
      <4>. QED BY <2>8, <3>2, <4>1, <4>3, <4>6
    <3>. QED BY <3>1, <3>2
  <2>15. ChainsOK(c)'
    <3>1. (\A j \in 0..tbl.num_buckets-1 :
             ChainOf(buckets[j], InBkt(Members, j, tbl.num_buckets), c))'
      BY <1>6, <1>8, <2>9, <2>14 DEF ChainOf, InBkt
    <3>. QED BY <3>1 DEF ChainsOK
  <2>16. LinksOK(r, c, m, rest)'
    BY <1>2, <1>13, <2>13, <2>15 DEF LinksOK, GrowthOK
  <2>. QED BY <1>8, <2>11, <2>12, <2>16 DEF HashInv
<1>. QED BY <1>14, <1>15

-----------------------------------------------------------------------------
LEMMA HashStep ==
  ASSUME HashInv, [HashNext]_hashVars
  PROVE  HashInv'
<1>1. CASE UNCHANGED hashVars
  BY <1>1, HashStutter
<1>2. ASSUME NEW t \in Tid, insert_process(t)
      PROVE  HashInv'
  <2>1. CASE find_process(t)
    BY <1>2, <2>1, HashStutter DEF insert_process
  <2>2. CASE ~find_process(t)
    <3>1. adding = NoTid /\ Add(t) /\ t \in Tid \ Members
      BY <1>2, <2>2, FoundMembers DEF insert_process
    <3>. QED BY <3>1, AddInv
  <2>. QED BY <2>1, <2>2
<1>3. ASSUME NEW t \in Tid, delete_process(t)
      PROVE  HashInv'
  <2>1. CASE ~find_process(t)
    BY <1>3, <2>1, HashStutter DEF delete_process
  <2>2. CASE find_process(t)
    <3>1. adding = NoTid /\ t \in Members
      BY <1>3, <2>2, FoundMembers DEF delete_process
    <3>. QED BY <1>3, <3>1, DeleteInv
  <2>. QED BY <2>1, <2>2
<1>. QED BY <1>1, <1>2, <1>3, TickInv, GrowBeginInv, GrowItemInv, GrowNextBucketInv, GrowEndInv
     DEF HashNext

LEMMA HashInvariance == HashSpec => []HashInv
<1>1. HashInv /\ [HashNext]_hashVars => HashInv'
  BY HashStep
<1>. QED BY HashInitInv, <1>1, PTL DEF HashSpec

(* The list that HASH_DELETE patches by its ends is linked both ways, and  *)
(* following it meets every entry once.                                    *)
THEOREM ListIsSound == HashSpec => []ListSound
<1>1. HashInv => ListSound
  <2>. SUFFICES ASSUME HashInv PROVE ListSound
    OBVIOUS
  <2>1. PICK r \in [Tid -> Int], c \in [Tid -> Int], m \in Nat, rest \in SUBSET Tid :
          LinksOK(r, c, m, rest)
    BY DEF HashInv
  <2>2. /\ Linked(Members, head, ListNext, ListPrev, r) /\ Ends(Members, ListNext, tbl.tail)
        /\ tbl.num_items = Cardinality(Members) /\ Ranks(r, m)
    BY <2>1 DEF LinksOK, ListOK
  <2>3. Walk(head, ListNext) = Members
    BY <2>2, MembersTid, LinkTypes, WalkAll DEF HashInv
  <2>4. \A e \in Members : ListNext[e] = hh[e].next /\ ListPrev[e] = hh[e].prev
    BY MembersTid DEF ListNext, ListPrev
  <2>5. head = NoTid <=> Members = {}
    BY <2>2, MembersTid DEF Linked
  <2>6. \A e, f \in Members : hh[e].next = f <=> hh[f].prev = e
    BY <2>2, <2>4 DEF Linked
  <2>7. \A e \in Members : /\ hh[e].prev = NoTid <=> e = head
                           /\ hh[e].next = NoTid <=> e = tbl.tail
    BY <2>2, <2>4 DEF Linked, Ends
  <2>. QED BY <2>2, <2>3, <2>5, <2>6, <2>7 DEF ListSound, ListNext
<1>. QED BY <1>1, HashInvariance, PTL

(* Each bucket holds the entries with its hash, and counts them.           *)
THEOREM ChainsAreSound == HashSpec => []ChainsSound
<1>1. HashInv => ChainsSound
  <2>. SUFFICES ASSUME HashInv, adding = NoTid, NEW k \in DOMAIN buckets
                PROVE  LET chain == Chain(buckets[k]) IN
                       /\ chain = {t \in Members : HASH_TO_BKT(hash[t], tbl.num_buckets) = k}
                       /\ buckets[k].count = Cardinality(chain)
                       /\ \A e \in chain : hh[e].hh_prev = NoTid <=> e = buckets[k].hh_head
                       /\ \A e, f \in chain : hh[e].hh_next = f <=> hh[f].hh_prev = e
    BY DEF ChainsSound
  <2>1. PICK r \in [Tid -> Int], c \in [Tid -> Int], m \in Nat, rest \in SUBSET Tid :
          LinksOK(r, c, m, rest)
    BY DEF HashInv
  <2>. DEFINE S == InBkt(Members, k, tbl.num_buckets)
  <2>2. S \in SUBSET Tid /\ S = {t \in Members : HASH_TO_BKT(hash[t], tbl.num_buckets) = k}
    BY MembersTid DEF InBkt
  <2>3. /\ Linked(S, buckets[k].hh_head, HhNext, HhPrev, c) /\ buckets[k].count = Cardinality(S)
        /\ Ranks(c, m)
    <3>1. k \in 0..tbl.num_buckets-1 /\ ~Growing
      BY DEF HashInv, HashTypeOK, EntriesOK
    <3>. QED BY <2>1, <3>1 DEF LinksOK, ChainsOK, ChainOf
  <2>. HIDE DEF S
  <2>4. Walk(buckets[k].hh_head, HhNext) = S
    BY <2>2, <2>3, LinkTypes, WalkAll DEF HashInv
  <2>5. Chain(buckets[k]) = S
    BY <2>4 DEF Chain, HhNext
  <2>6. \A e \in S : HhNext[e] = hh[e].hh_next /\ HhPrev[e] = hh[e].hh_prev
    BY <2>2 DEF HhNext, HhPrev
  <2>7. \A e \in S : hh[e].hh_prev = NoTid <=> e = buckets[k].hh_head
    BY <2>3, <2>6 DEF Linked
  <2>8. \A e, f \in S : hh[e].hh_next = f <=> hh[f].hh_prev = e
    BY <2>3, <2>6 DEF Linked
  <2>. QED BY <2>2, <2>3, <2>5, <2>7, <2>8
<1>. QED BY <1>1, HashInvariance, PTL

-----------------------------------------------------------------------------
(* In new buckets no chain is longer than its multiplier makes it.         *)
GrownBounded ==
  Growing =>
    /\ tbl.ideal_chain_maxlen > 0
    /\ \A k \in DOMAIN grown :
         grown[k].count <= (grown[k].expand_mult + 1) * tbl.ideal_chain_maxlen

BoundInv == HashInv /\ GrownBounded /\ ChainBounded

LEMMA TimesMore ==
  ASSUME NEW a \in Nat, NEW b \in Nat, NEW d \in Nat, b <= d
  PROVE  a * b <= a * d
<1>1. d - b \in Nat /\ a * d = a * b + a * (d - b)
  OBVIOUS
<1>2. a * (d - b) \in Nat /\ a * b \in Nat
  BY <1>1
<1>. QED BY <1>1, <1>2

LEMMA ShareMore ==
  ASSUME HashTypeOK, NEW a \in Nat
  PROVE  /\ Share \in Nat
         /\ a * Threshold <= a * Share
         /\ a * tbl.ideal_chain_maxlen <= a * Share
<1>1. Threshold \in Nat /\ tbl.ideal_chain_maxlen \in Nat
  BY HashAssumption DEF HashTypeOK, Table
<1>2. Share \in Nat /\ Threshold <= Share /\ tbl.ideal_chain_maxlen <= Share
  BY <1>1 DEF Share
<1>. QED BY <1>1, <1>2, TimesMore

(* One more entry in a new bucket.                                         *)
LEMMA OneMoreBounded ==
  ASSUME NEW count \in Nat, NEW mult \in Nat, NEW ideal \in Nat \ {0}, NEW mult1,
         count <= (mult + 1) * ideal,
         mult1 = IF count + 1 > ideal /\ count + 1 > mult * ideal THEN mult + 1 ELSE mult
  PROVE  count + 1 <= (mult1 + 1) * ideal
<1>1. mult * ideal \in Nat /\ (mult + 1) * ideal = mult * ideal + ideal
      /\ (mult + 1 + 1) * ideal = mult * ideal + ideal + ideal
  OBVIOUS
<1>2. CASE count + 1 > ideal /\ count + 1 > mult * ideal
  BY <1>1, <1>2
<1>3. CASE ~(count + 1 > ideal /\ count + 1 > mult * ideal)
  BY <1>1, <1>3
<1>. QED BY <1>2, <1>3

LEMMA AddBounded ==
  ASSUME BoundInv, adding = NoTid, NEW t \in Tid \ Members, Add(t)
  PROVE  ChainBounded'
<1>. DEFINE table == IF head = NoTid THEN HASH_MAKE_TABLE(t) ELSE [tbl EXCEPT !.tail = t]
            old == IF head = NoTid THEN Empty(InitialBuckets) ELSE buckets
            n == table.num_buckets
            k == HASH_TO_BKT(hash[t], n)
            b == [old[k] EXCEPT !.count = @ + 1, !.hh_head = t]
<1>. SUFFICES ASSUME adding' = NoTid, ~tbl'.noexpand, NEW j \in DOMAIN buckets'
              PROVE  buckets'[j].count <= (buckets'[j].expand_mult + 1) * Share'
  BY DEF ChainBounded
<1>1. HashInv /\ HashTypeOK /\ HashInv' /\ HashTypeOK'
  BY AddInv DEF BoundInv, HashInv
<1>2. PICK c : ChainsOK(c)
  BY <1>1 DEF HashInv, LinksOK
<1>3. /\ table \in Table /\ n \in Nat \ {0} /\ old \in [0..n-1 -> Bucket]
  BY <1>1, <1>2, AddTo
<1>4. k \in 0..n-1
  <2>1. hash[t] \in Nat
    BY <1>1 DEF HashTypeOK
  <2>. QED BY <1>3, <2>1, BktRange
<1>5. /\ tbl' = [table EXCEPT !.num_items = @ + 1]
      /\ buckets' = [old EXCEPT ![k] = b]
      /\ ~TooLong(b, table)
  <2>1. t # NoTid
    BY TasksAssumption
  <2>. QED BY <2>1 DEF Add
<1>6. tbl'.noexpand = table.noexpand /\ tbl'.ideal_chain_maxlen = table.ideal_chain_maxlen
  BY <1>3, <1>5 DEF Table
<1>. HIDE DEF table, old, n, k
<1>7. old[k] \in Bucket /\ b.count = old[k].count + 1 /\ b.expand_mult = old[k].expand_mult
  BY <1>3, <1>4 DEF Bucket
<1>. HIDE DEF b
<1>8. CASE j = k
  <2>1. buckets'[j] = b
    BY <1>3, <1>4, <1>5, <1>8
  <2>2. b.expand_mult + 1 \in Nat /\ b.count \in Nat /\ Threshold \in Nat
    BY <1>7, HashAssumption DEF Bucket
  <2>3. b.count <= (b.expand_mult + 1) * Threshold
    <3>1. (b.expand_mult + 1) * Threshold \in Nat
      BY <2>2
    <3>2. ~(b.count >= (b.expand_mult + 1) * Threshold)
      BY <1>5, <1>6 DEF TooLong
    <3>. QED BY <2>2, <3>1, <3>2
  <2>4. (b.expand_mult + 1) * Threshold <= (b.expand_mult + 1) * Share'
    <3>1. Threshold \in Nat /\ tbl'.ideal_chain_maxlen \in Nat
      BY <1>1, HashAssumption DEF HashTypeOK, Table
    <3>2. Share' \in Nat /\ Threshold <= Share'
      BY <3>1 DEF Share
    <3>. QED BY <2>2, <3>1, <3>2, TimesMore
  <2>5. (b.expand_mult + 1) * Threshold \in Nat /\ (b.expand_mult + 1) * Share' \in Nat
    <3>1. Share' \in Nat
      BY <1>1, HashAssumption DEF HashTypeOK, Table, Share
    <3>. QED BY <2>2, <3>1
  <2>. DEFINE x == (b.expand_mult + 1) * Threshold
              y == (b.expand_mult + 1) * Share'
  <2>6. b.count <= x /\ x <= y /\ b.count \in Nat /\ x \in Nat /\ y \in Nat
    BY <2>2, <2>3, <2>4, <2>5
  <2>. HIDE DEF x, y
  <2>7. b.count <= y
    BY <2>6
  <2>8. b.count <= (b.expand_mult + 1) * Share'
    BY <2>7 DEF y
  <2>. QED BY <2>1, <2>8
<1>9. CASE j # k
  <2>1. j \in 0..n-1 /\ buckets'[j] = old[j]
    BY <1>3, <1>4, <1>5, <1>9
  <2>2. CASE head = NoTid
    <3>1. InitialBuckets \in Nat /\ n = InitialBuckets /\ old = Empty(InitialBuckets)
      BY <2>2, HashAssumption DEF n, table, old, HASH_MAKE_TABLE, NoTable
    <3>2. old[j].count = 0 /\ old[j].expand_mult = 0
      BY <2>1, <3>1 DEF Empty
    <3>3. Share' \in Nat
      BY <1>1, HashAssumption DEF HashTypeOK, Table, Share
    <3>4. buckets'[j].count = 0 /\ buckets'[j].expand_mult = 0
      BY <2>1, <3>2
    <3>5. PICK s \in Nat : s = Share'
      BY <3>3
    <3>6. 0 <= (0 + 1) * s
      OBVIOUS
    <3>. QED BY <3>4, <3>5, <3>6
  <2>3. CASE head # NoTid
    <3>1. old = buckets /\ table.noexpand = tbl.noexpand
          /\ table.ideal_chain_maxlen = tbl.ideal_chain_maxlen
      BY <1>1, <2>3 DEF old, table, HashTypeOK, Table
    <3>2. Share' = Share
      BY <1>6, <3>1 DEF Share
    <3>3. j \in DOMAIN buckets /\ ~tbl.noexpand
      BY <1>3, <1>6, <2>1, <3>1
    <3>. QED BY <2>1, <3>1, <3>2, <3>3 DEF BoundInv, ChainBounded
  <2>. QED BY <2>2, <2>3
<1>. QED BY <1>8, <1>9

LEMMA DeleteBounded ==
  ASSUME BoundInv, adding = NoTid, NEW t \in Members, delete_process(t)
  PROVE  ChainBounded'
<1>. DEFINE n == tbl.num_buckets
            k == HASH_TO_BKT(hh[t].hashv, n)
<1>. SUFFICES ASSUME ~tbl'.noexpand, NEW j \in DOMAIN buckets'
              PROVE  buckets'[j].count <= (buckets'[j].expand_mult + 1) * Share'
  BY DEF ChainBounded
<1>1. HashInv /\ HashTypeOK /\ HashInv' /\ HashTypeOK'
  BY DeleteInv DEF BoundInv, HashInv
<1>2. IF hh[t].prev = NoTid /\ hh[t].next = NoTid THEN FreeTable ELSE Remove(t)
  BY <1>1, MembersTid, FoundMembers DEF delete_process
<1>3. ~FreeTable
  <2>1. FreeTable => DOMAIN buckets' = {}
    BY DEF FreeTable, Empty
  <2>. QED BY <2>1
<1>4. Remove(t)
  BY <1>2, <1>3
<1>5. tbl'.noexpand = tbl.noexpand /\ tbl'.ideal_chain_maxlen = tbl.ideal_chain_maxlen
  BY <1>1, <1>4 DEF Remove, HashTypeOK, Table
<1>6. Share' = Share /\ Share \in Nat
  BY <1>1, <1>5, HashAssumption DEF Share, HashTypeOK, Table
<1>7. /\ buckets \in [0..n-1 -> Bucket]
      /\ buckets' = [buckets EXCEPT ![k].count = @ - 1,
                                    ![k].hh_head = IF @ = t THEN hh[t].hh_next ELSE @]
  BY <1>1, <1>4 DEF Remove, HashTypeOK
<1>. HIDE DEF k, n
<1>8. /\ j \in DOMAIN buckets /\ buckets[j] \in Bucket
      /\ buckets'[j].expand_mult = buckets[j].expand_mult
      /\ buckets'[j].count \in {buckets[j].count, buckets[j].count - 1}
  BY <1>7 DEF Bucket
<1>9. buckets[j].count <= (buckets[j].expand_mult + 1) * Share
  BY <1>5, <1>8 DEF BoundInv, ChainBounded
<1>10. (buckets[j].expand_mult + 1) * Share \in Nat /\ buckets[j].count \in Nat
  BY <1>6, <1>8 DEF Bucket
<1>. DEFINE y == (buckets[j].expand_mult + 1) * Share
<1>11. /\ buckets[j].count <= y /\ y \in Nat
       /\ (buckets'[j].expand_mult + 1) * Share' = y
  BY <1>6, <1>8, <1>9, <1>10
<1>. HIDE DEF y
<1>. QED BY <1>8, <1>10, <1>11

LEMMA GrowBeginBounded ==
  ASSUME BoundInv, GrowBegin
  PROVE  GrownBounded'
<1>. DEFINE n == 2 * tbl.num_buckets
            ideal == (tbl.num_items \div n) + (IF tbl.num_items % n = 0 THEN 0 ELSE 1)
<1>1. HashInv /\ HashTypeOK /\ EntriesOK /\ HashInv' /\ HashTypeOK'
  BY GrowBeginInv DEF BoundInv, HashInv
<1>2. tbl' = [tbl EXCEPT !.ideal_chain_maxlen = ideal, !.nonideal_items = 0] /\ grown' = Empty(n)
  BY DEF GrowBegin
<1>3. tbl.num_items \in Nat \ {0} /\ n \in Nat \ {0}
  <2>1. PICK r : ListOK(r)
    BY <1>1 DEF HashInv, LinksOK
  <2>2. adding \in Members
    BY <1>1 DEF GrowBegin, EntriesOK
  <2>3. tbl.num_items = Cardinality(Members) /\ head # NoTid
    BY <2>1, <2>2 DEF ListOK, Linked
  <2>4. Cardinality(Members) # 0
    BY <2>2, MembersTid, MembersFinite, FS_EmptySet
  <2>5. tbl \in Table /\ tbl.num_buckets > 0
    BY <1>1, <2>3 DEF HashTypeOK, EntriesOK
  <2>. QED BY <2>3, <2>4, <2>5 DEF Table
<1>4. ideal \in Nat /\ ideal > 0
  <2>. DEFINE d == tbl.num_items \div n
              q == tbl.num_items % n
  <2>1. d \in Nat /\ q \in Nat /\ tbl.num_items = n * d + q
    BY <1>3
  <2>2. d = 0 => q # 0
    BY <1>3, <2>1
  <2>. HIDE DEF d, q
  <2>3. ideal = d + (IF q = 0 THEN 0 ELSE 1)
    BY DEF d, q
  <2>. QED BY <2>1, <2>2, <2>3
<1>5. tbl'.ideal_chain_maxlen = ideal
  BY <1>1, <1>2 DEF HashTypeOK, Table
<1>. HIDE DEF ideal, n
<1>6. ASSUME NEW k \in DOMAIN grown'
      PROVE  grown'[k].count <= (grown'[k].expand_mult + 1) * tbl'.ideal_chain_maxlen
  <2>1. grown'[k].count = 0 /\ grown'[k].expand_mult = 0
    BY <1>2, <1>6 DEF Empty
  <2>. QED BY <1>4, <1>5, <2>1
<1>. QED BY <1>4, <1>5, <1>6 DEF GrownBounded

LEMMA GrowItemBounded ==
  ASSUME BoundInv, GrowItem
  PROVE  GrownBounded'
<1>. DEFINE n == 2 * tbl.num_buckets
            k == NewBkt(hh[thh].hashv)
            b == grown[k]
            ideal == tbl.ideal_chain_maxlen
<1>1. HashInv /\ HashTypeOK /\ EntriesOK /\ HashInv' /\ HashTypeOK' /\ Growing
  BY GrowItemInv DEF BoundInv, HashInv, GrowItem, Growing
<1>2. /\ grown' = [grown EXCEPT ![k] =
                     [hh_head |-> thh, count |-> b.count + 1, expand_mult |-> NewMult(b)]]
      /\ tbl'.ideal_chain_maxlen = ideal
  BY <1>1 DEF GrowItem, HashTypeOK, Table
<1>3. grown \in [0..n-1 -> Bucket] /\ ideal \in Nat \ {0}
  <2>1. grown \in [0..n-1 -> Bucket]
    BY <1>1 DEF HashTypeOK
  <2>2. ideal \in Nat /\ ideal > 0
    BY <1>1 DEF BoundInv, GrownBounded, HashTypeOK, Table
  <2>. QED BY <2>1, <2>2
<1>4. \A j \in DOMAIN grown : grown[j].count <= (grown[j].expand_mult + 1) * ideal
  BY <1>1 DEF BoundInv, GrownBounded
<1>5. \A q : NewMult(q) = IF q.count + 1 > ideal /\ q.count + 1 > q.expand_mult * ideal
                          THEN q.expand_mult + 1 ELSE q.expand_mult
  BY DEF NewMult
<1>. HIDE DEF k, n, ideal, b
<1>6. ASSUME NEW j \in DOMAIN grown'
      PROVE  grown'[j].count <= (grown'[j].expand_mult + 1) * ideal
  <2>0. j \in DOMAIN grown /\ grown[j] \in Bucket
    BY <1>2, <1>3
  <2>1. CASE j = k
    <3>1. grown'[j].count = b.count + 1 /\ grown'[j].expand_mult = NewMult(b) /\ b = grown[j]
      BY <1>2, <2>0, <2>1 DEF b
    <3>2. b.count \in Nat /\ b.expand_mult \in Nat /\ b.count <= (b.expand_mult + 1) * ideal
      BY <1>4, <2>0, <3>1 DEF Bucket
    <3>3. b.count + 1 <= (NewMult(b) + 1) * ideal
      BY <1>3, <1>5, <3>2, OneMoreBounded
    <3>. QED BY <3>1, <3>3
  <2>2. CASE j # k
    BY <1>2, <1>4, <2>0, <2>2
  <2>. QED BY <2>1, <2>2
<1>. QED BY <1>2, <1>3, <1>6 DEF GrownBounded

LEMMA GrowEndBounded ==
  ASSUME BoundInv, GrowEnd
  PROVE  ChainBounded'
<1>. SUFFICES ASSUME NEW j \in DOMAIN buckets'
              PROVE  buckets'[j].count <= (buckets'[j].expand_mult + 1) * Share'
  BY DEF ChainBounded
<1>1. HashInv /\ HashTypeOK /\ Growing /\ HashInv' /\ HashTypeOK'
  BY GrowEndInv DEF BoundInv, HashInv, GrowEnd, Growing
<1>2. buckets' = grown /\ tbl'.ideal_chain_maxlen = tbl.ideal_chain_maxlen
  BY <1>1 DEF GrowEnd, HashTypeOK, Table
<1>3. j \in DOMAIN grown /\ grown[j] \in Bucket
  BY <1>1, <1>2 DEF HashTypeOK
<1>. DEFINE a == grown[j].expand_mult + 1
<1>4. Share' = Share
  BY <1>2 DEF Share
<1>5. grown[j].count <= a * tbl.ideal_chain_maxlen
  BY <1>1, <1>3 DEF BoundInv, GrownBounded
<1>6. a \in Nat /\ grown[j].count \in Nat
  BY <1>3 DEF Bucket
<1>. DEFINE x == a * tbl.ideal_chain_maxlen
            y == a * Share
<1>7. x <= y /\ x \in Nat /\ y \in Nat
  <2>1. tbl.ideal_chain_maxlen \in Nat /\ Share \in Nat
    BY <1>1, HashAssumption DEF HashTypeOK, Table, Share
  <2>. HIDE DEF a
  <2>. QED BY <1>1, <1>6, <2>1, ShareMore
<1>8. grown[j].count <= x
  BY <1>5
<1>. HIDE DEF x, y
<1>9. grown[j].count <= y
  BY <1>6, <1>7, <1>8
<1>. QED BY <1>2, <1>4, <1>9 DEF y

(* What both bounds are about.                                             *)
boundVars == <<tbl, buckets, grown, adding>>

LEMMA BoundFrame ==
  ASSUME GrownBounded, ChainBounded, UNCHANGED boundVars
  PROVE  GrownBounded' /\ ChainBounded'
<1>1. tbl' = tbl /\ buckets' = buckets /\ grown' = grown /\ adding' = adding
  BY DEF boundVars
<1>2. Growing' = Growing /\ Share' = Share
  BY <1>1 DEF Growing, Share
<1>. QED BY <1>1, <1>2 DEF GrownBounded, ChainBounded

LEMMA BoundInit == HashInit => BoundInv
<1>. SUFFICES ASSUME HashInit PROVE GrownBounded /\ ChainBounded
  BY HashInitInv DEF BoundInv
<1>1. DOMAIN buckets = {} /\ ~Growing
  BY NotGrowing DEF HashInit, HashEmpty, Growing
<1>. QED BY <1>1 DEF GrownBounded, ChainBounded

LEMMA BoundStep ==
  ASSUME BoundInv, [HashNext]_hashVars
  PROVE  BoundInv'
<1>1. HashInv /\ HashInv' /\ EntriesOK /\ EntriesOK' /\ GrownBounded /\ ChainBounded
  BY HashStep DEF BoundInv, HashInv
<1>2. adding' = NoTid => GrownBounded'
  BY <1>1 DEF EntriesOK, GrownBounded
<1>3. adding' # NoTid => ChainBounded'
  BY DEF ChainBounded
<1>4. CASE UNCHANGED boundVars
  BY <1>1, <1>4, BoundFrame DEF BoundInv
<1>5. CASE UNCHANGED hashVars
  BY <1>4, <1>5 DEF hashVars, growVars, boundVars
<1>6. ASSUME NEW t \in Tid, insert_process(t)
      PROVE  BoundInv'
  <2>1. CASE find_process(t)
    BY <1>5, <1>6, <2>1 DEF insert_process
  <2>2. CASE ~find_process(t)
    <3>1. adding = NoTid /\ Add(t) /\ t \in Tid \ Members
      BY <1>1, <1>6, <2>2, FoundMembers DEF insert_process
    <3>2. ChainBounded'
      BY <3>1, AddBounded
    <3>3. GrownBounded'
      BY <1>1, <3>1, NotGrowing DEF Add, EntriesOK, GrownBounded, Growing
    <3>. QED BY <1>1, <3>2, <3>3 DEF BoundInv
  <2>. QED BY <2>1, <2>2
<1>7. ASSUME NEW t \in Tid, delete_process(t)
      PROVE  BoundInv'
  <2>1. CASE ~find_process(t)
    BY <1>5, <1>7, <2>1 DEF delete_process
  <2>2. CASE find_process(t)
    <3>1. adding = NoTid /\ t \in Members /\ adding' = adding
      BY <1>1, <1>7, <2>2, FoundMembers DEF delete_process, growVars
    <3>. QED BY <1>1, <1>2, <1>7, <3>1, DeleteBounded DEF BoundInv
  <2>. QED BY <2>1, <2>2
<1>8. ASSUME NEW t \in Tid, Tick(t)
      PROVE  BoundInv'
  BY <1>4, <1>8 DEF Tick, growVars, boundVars
<1>9. CASE GrowBegin
  <2>1. adding' # NoTid
    BY <1>9 DEF GrowBegin
  <2>. QED BY <1>1, <1>3, <1>9, <2>1, GrowBeginBounded DEF BoundInv
<1>10. CASE GrowItem
  <2>1. adding' # NoTid
    BY <1>1, <1>10 DEF GrowItem, EntriesOK, Growing
  <2>. QED BY <1>1, <1>3, <1>10, <2>1, GrowItemBounded DEF BoundInv
<1>11. CASE GrowNextBucket
  BY <1>4, <1>11 DEF GrowNextBucket, boundVars
<1>12. CASE GrowEnd
  <2>1. adding' = NoTid
    BY <1>12 DEF GrowEnd
  <2>. QED BY <1>1, <1>2, <1>12, <2>1, GrowEndBounded DEF BoundInv
<1>. QED BY <1>5, <1>6, <1>7, <1>8, <1>9, <1>10, <1>11, <1>12 DEF HashNext

(* Unless the table has given up growing, no chain is out of proportion by *)
(* more than its multiplier says.                                          *)
THEOREM ChainsAreBounded == HashSpec => []ChainBounded
<1>1. HashInit => BoundInv
  BY BoundInit
<1>2. BoundInv /\ [HashNext]_hashVars => BoundInv'
  BY BoundStep
<1>3. BoundInv => ChainBounded
  BY DEF BoundInv
<1>. QED BY <1>1, <1>2, <1>3, PTL DEF HashSpec

-----------------------------------------------------------------------------
(* The set of ids that the table stands for.                               *)
MapSet == IF adding = NoTid THEN {t \in Tid : find_process(t)} ELSE Members \ {adding}

LEMMA MapMembers == HashInv => MapSet = Members \ {adding}
<1>. SUFFICES ASSUME HashInv PROVE MapSet = Members \ {adding}
  OBVIOUS
<1>1. CASE adding = NoTid
  BY <1>1, FoundMembers, MembersTid DEF MapSet
<1>2. CASE adding # NoTid
  BY <1>2 DEF MapSet
<1>. QED BY <1>1, <1>2

(* The operations of the map, with the variables it takes from the table.  *)
LEMMA MapDefs ==
  /\ Map!TableInit <=> MapSet = {} /\ gettime_data = [t \in Tid |-> 0] /\ entry_count = 0
  /\ MapSet' = MapSet /\ gettime_data' = gettime_data /\ entry_count' = entry_count
     => UNCHANGED Map!tableVars
  /\ Map!TableNext <=> \E t \in Tid :
       Map!insert_process(t) \/ Map!delete_process(t) \/ (t \in MapSet /\ Map!Tick(t))
  /\ \A t \in Tid :
       /\ t \notin MapSet /\ MapSet' = MapSet \cup {t} /\ entry_count' = entry_count + 1
          /\ gettime_data' = [gettime_data EXCEPT ![t] = 0]
          => Map!insert_process(t)
       /\ t \in MapSet /\ MapSet' = MapSet \ {t} /\ entry_count' = entry_count - 1
          /\ gettime_data' = [gettime_data EXCEPT ![t] = 0]
          => Map!delete_process(t)
       /\ MapSet' = MapSet /\ entry_count' = entry_count
          /\ gettime_data' = [gettime_data EXCEPT ![t] = @ + 1]
          => Map!Tick(t)
BY DEF MapSet, Map!TableInit, Map!tableVars, Map!TableNext, Map!find_process,
       Map!insert_process, Map!delete_process, Map!Tick

(* The growth moves entries; it makes and frees none.                      *)
LEMMA GrowKeeps ==
  ASSUME HashInv, GrowBegin \/ GrowItem \/ GrowNextBucket \/ GrowEnd
  PROVE  Members' = Members /\ gettime_data' = gettime_data
<1>1. CASE GrowItem
  <2>1. PICK first : hh' = LinkInBkt(hh, first, thh)
    BY <1>1 DEF GrowItem
  <2>2. ASSUME NEW e \in Tid PROVE hh'[e].tbl = hh[e].tbl
    <3>1. hh[e] \in Handle
      BY DEF HashInv, HashTypeOK
    <3>2. hh'[e] \in {[hh[e] EXCEPT !.hh_next = first, !.hh_prev = NoTid],
                      [hh[e] EXCEPT !.hh_prev = thh], hh[e]}
      BY <2>1 DEF LinkInBkt
    <3>. QED BY <3>1, <3>2 DEF Handle
  <2>. QED BY <1>1, <2>2 DEF GrowItem, Members
<1>2. CASE GrowBegin \/ GrowNextBucket \/ GrowEnd
  BY <1>2 DEF GrowBegin, GrowNextBucket, GrowEnd, Members
<1>. QED BY <1>1, <1>2

LEMMA MapStep ==
  ASSUME HashInv, [HashNext]_hashVars
  PROVE  [Map!TableNext]_(Map!tableVars)
<1>1. HashInv' /\ HashTypeOK /\ EntriesOK
  BY HashStep DEF HashInv
<1>2. MapSet = Members \ {adding} /\ MapSet' = Members' \ {adding'}
  <2>1. HashInv' => MapSet' = Members' \ {adding'}
    <3>1. (HashInv => MapSet = Members \ {adding})'
      BY MapMembers, PTL
    <3>. QED BY <3>1
  <2>. QED BY <1>1, <2>1, MapMembers
<1>3. CASE MapSet' = MapSet /\ gettime_data' = gettime_data /\ entry_count' = entry_count
  BY <1>3, MapDefs
<1>4. CASE UNCHANGED hashVars
  <2>1. hh' = hh /\ adding' = adding /\ gettime_data' = gettime_data /\ entry_count' = entry_count
    BY <1>4 DEF hashVars, growVars
  <2>. QED BY <1>2, <1>3, <2>1 DEF Members
<1>5. ASSUME NEW t \in Tid, insert_process(t)
      PROVE  [Map!TableNext]_(Map!tableVars)
  <2>1. CASE find_process(t)
    BY <1>4, <1>5, <2>1 DEF insert_process
  <2>2. CASE ~find_process(t)
    <3>1. adding = NoTid /\ Add(t) /\ t \in Tid \ Members
      BY <1>5, <2>2, FoundMembers DEF insert_process
    <3>2. Members' = Members \cup {t}
      BY <3>1, AddInv
    <3>3. gettime_data' = [gettime_data EXCEPT ![t] = 0]
      BY <3>1 DEF Add
    <3>4. \/ adding' = t /\ entry_count' = entry_count
          \/ adding' = NoTid /\ entry_count' = entry_count + 1
      BY <3>1 DEF Add
    <3>5. NoTid \notin Members /\ t # NoTid
      BY MembersTid
    <3>6. CASE adding' = t /\ entry_count' = entry_count
      <4>1. gettime_data[t] = 0
        BY <1>1, <3>1 DEF EntriesOK
      <4>2. gettime_data' = gettime_data
        BY <1>1, <3>3, <4>1 DEF HashTypeOK
      <4>3. MapSet' = MapSet
        BY <1>2, <3>1, <3>2, <3>5, <3>6
      <4>. QED BY <1>3, <3>6, <4>2, <4>3
    <3>7. CASE adding' = NoTid /\ entry_count' = entry_count + 1
      <4>1. t \notin MapSet /\ MapSet' = MapSet \cup {t}
        BY <1>2, <3>1, <3>2, <3>5, <3>7
      <4>2. Map!insert_process(t)
        BY <3>3, <3>7, <4>1, MapDefs
      <4>. QED BY <4>2, MapDefs
    <3>. QED BY <3>4, <3>6, <3>7
  <2>. QED BY <2>1, <2>2
<1>6. ASSUME NEW t \in Tid, delete_process(t)
      PROVE  [Map!TableNext]_(Map!tableVars)
  <2>1. CASE ~find_process(t)
    BY <1>4, <1>6, <2>1 DEF delete_process
  <2>2. CASE find_process(t)
    <3>1. adding = NoTid /\ t \in Members /\ adding' = adding
      BY <1>6, <2>2, FoundMembers DEF delete_process, growVars
    <3>2. Members' = Members \ {t}
      BY <1>6, <3>1, DeleteInv
    <3>3. gettime_data' = [gettime_data EXCEPT ![t] = 0] /\ entry_count' = entry_count - 1
      BY <1>6, <2>2 DEF delete_process
    <3>4. t \in MapSet /\ MapSet' = MapSet \ {t}
      BY <1>2, <3>1, <3>2, MembersTid
    <3>5. Map!delete_process(t)
      BY <3>3, <3>4, MapDefs
    <3>. QED BY <3>5, MapDefs
  <2>. QED BY <2>1, <2>2
<1>7. ASSUME NEW t \in Tid, Tick(t)
      PROVE  [Map!TableNext]_(Map!tableVars)
  <2>1. /\ adding = NoTid /\ adding' = adding /\ hh' = hh /\ entry_count' = entry_count
        /\ gettime_data' = [gettime_data EXCEPT ![t] = @ + 1]
    BY <1>7 DEF Tick, growVars
  <2>2. t \in Members
    BY <1>7, <2>1, FoundMembers DEF Tick
  <2>3. MapSet' = MapSet /\ t \in MapSet
    BY <1>2, <2>1, <2>2, MembersTid DEF Members
  <2>4. Map!Tick(t)
    BY <2>1, <2>3, MapDefs
  <2>. QED BY <2>3, <2>4, MapDefs
<1>8. CASE GrowBegin \/ GrowItem \/ GrowNextBucket
  <2>1. adding' = adding /\ entry_count' = entry_count
    BY <1>8 DEF GrowBegin, GrowItem, GrowNextBucket
  <2>. QED BY <1>2, <1>3, <1>8, <2>1, GrowKeeps
<1>9. CASE GrowEnd
  <2>1. adding' = NoTid /\ gettime_data' = gettime_data /\ entry_count' = entry_count + 1
    BY <1>9 DEF GrowEnd
  <2>2. adding \in Members /\ gettime_data[adding] = 0
    BY <1>1, <1>9 DEF EntriesOK, GrowEnd, Growing
  <2>3. Members' = Members
    BY <1>9, GrowKeeps
  <2>4. adding \in Tid /\ adding \notin MapSet /\ MapSet' = MapSet \cup {adding}
    BY <1>2, <2>1, <2>2, <2>3, MembersTid
  <2>5. gettime_data' = [gettime_data EXCEPT ![adding] = 0]
    BY <1>1, <2>1, <2>2 DEF HashTypeOK
  <2>6. Map!insert_process(adding)
    BY <2>1, <2>4, <2>5, MapDefs
  <2>. QED BY <2>4, <2>6, MapDefs
<1>. QED BY <1>4, <1>5, <1>6, <1>7, <1>8, <1>9 DEF HashNext

(* Whatever the hash function and the order of the operations, the table   *)
(* is the map that the rest of the program takes it for.                   *)
THEOREM TableRefines == HashSpec => TableIsMap
<1>1. HashInit => Map!TableInit
  <2>. SUFFICES ASSUME HashInit PROVE Map!TableInit
    OBVIOUS
  <2>1. MapSet = {}
    <3>1. Members = {}
      BY DEF HashInit, HashEmpty, Members, NoHandle
    <3>. QED BY <3>1, HashInitInv, MapMembers
  <2>. QED BY <2>1, MapDefs DEF HashInit, HashEmpty
<1>2. HashInv /\ [HashNext]_hashVars => [Map!TableNext]_(Map!tableVars)
  BY MapStep
<1>. QED BY <1>1, <1>2, HashInvariance, PTL DEF HashSpec, TableIsMap, Map!TableSpec
=============================================================================
