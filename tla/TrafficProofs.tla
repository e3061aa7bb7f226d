--------------------------- MODULE TrafficProofs ----------------------------
(***************************************************************************)
(* The two traffic publishers implement TrafficMeter, for any users,       *)
(* backends, connections and failures: a byte is in one place at a time,   *)
(* in a counter, in the deltas of a tick, billed, or lost.                 *)
(*                                                                         *)
(* The publishers add up bytes over sets of users and connections, so the  *)
(* first part is about sums: what SumFunctionOnSet computes for every      *)
(* finite set, by induction on the size of the set.                        *)
(***************************************************************************)
EXTENDS EntryTraffic, BackendTraffic, FiniteSetTheorems, WellFoundedInduction, TLAPS

-----------------------------------------------------------------------------
(* Sums.                                                                   *)

Picked(s) == CHOOSE x \in s : TRUE

SumStep(f, g, s) == IF s = {} THEN 0 ELSE f[Picked(s)] + g[s \ {Picked(s)}]

(* g sums f over the subsets of S.  *)
Adds(g, f, S) ==
    g = [s \in SUBSET S |-> SumStep(f, g, s)]

LEMMA SumIs ==
    ASSUME NEW f, NEW S
    PROVE  SumFunctionOnSet(f, S) = (CHOOSE g : Adds(g, f, S))[S]
BY DEF SumFunctionOnSet, FoldFunctionOnSet, MapThenFoldSet, Adds, SumStep, Picked

LEMMA Least ==
    ASSUME NEW T \in SUBSET Nat, T # {}
    PROVE  \E x \in T : \A y \in T : x <= y
<1>1. IsWellFoundedOn(OpToRel(<, Nat), Nat)
  BY NatLessThanWellFounded, Zenon
<1>. DEFINE R == OpToRel(<, Nat)
<1>3. \A x, y \in Nat : y < x => <<y, x>> \in R
  BY DEF OpToRel
<1>. HIDE DEF R
<1>2. \E x \in T : \A y \in T : ~(<<y, x>> \in R)
  <2>1. IsWellFoundedOn(R, Nat) BY <1>1, Zenon DEF R
  <2>. QED BY <2>1, WFMin, Zenon
<1>4. PICK x \in T : \A y \in T : ~(<<y, x>> \in R)
  BY <1>2
<1>5. \A y \in T : ~(y < x)
  BY <1>3, <1>4, Zenon
<1>. QED BY <1>4, <1>5

LEMMA NatInduced ==
    ASSUME NEW S \in SUBSET Nat, 0 \in S, \A n \in S : n + 1 \in S
    PROVE  S = Nat
<1>. SUFFICES ASSUME S # Nat PROVE FALSE
  OBVIOUS
<1>. DEFINE T == Nat \ S
<1>1. PICK x \in T : \A y \in T : x <= y
  BY Least, Zenon
<1>2. x # 0 /\ x - 1 \in Nat /\ x - 1 \notin T
  BY <1>1
<1>. QED BY <1>2


LEMMA PickedIn == ASSUME NEW s, s # {} PROVE Picked(s) \in s
BY DEF Picked

LEMMA Smaller ==
    ASSUME NEW S, IsFiniteSet(S), NEW s \in SUBSET S, s # {}, NEW x \in s
    PROVE  /\ s \ {x} \in SUBSET S
           /\ Cardinality(s) \in Nat /\ Cardinality(s \ {x}) \in Nat
           /\ Cardinality(s \ {x}) = Cardinality(s) - 1
<1>1. IsFiniteSet(s)
  BY FS_Subset
<1>2. IsFiniteSet(s \ {x}) /\ Cardinality(s \ {x}) = Cardinality(s) - 1
  BY <1>1, FS_RemoveElement
<1>3. Cardinality(s) \in Nat /\ Cardinality(s \ {x}) \in Nat
  BY <1>1, <1>2, FS_CardinalityType
<1>. QED  BY <1>2, <1>3

LEMMA SizeInduction ==
    ASSUME NEW S, IsFiniteSet(S), NEW P \in SUBSET (SUBSET S),
           {} \in P,
           \A s \in SUBSET S : s # {} /\ (\A t \in SUBSET S : Cardinality(t) < Cardinality(s) => t \in P) => s \in P
    PROVE  P = SUBSET S
<1>. DEFINE N == {n \in Nat : \A s \in SUBSET S : Cardinality(s) <= n => s \in P}
<1>1. \A s \in SUBSET S : Cardinality(s) \in Nat /\ (Cardinality(s) = 0 <=> s = {})
  BY FS_Subset, FS_CardinalityType, FS_EmptySet
<1>2. 0 \in N
  BY <1>1
<1>3. ASSUME NEW n \in N PROVE n + 1 \in N
  <2>1. ASSUME NEW s \in SUBSET S, Cardinality(s) <= n + 1 PROVE s \in P
    <3>1. \A t \in SUBSET S : Cardinality(t) < Cardinality(s) => t \in P
      BY <1>1, <1>3, <2>1
    <3>. QED  BY <3>1
  <2>. QED  BY <2>1, <1>3
<1>4. N = Nat
  <2>. HIDE DEF N
  <2>. QED  BY <1>2, <1>3, NatInduced, N \subseteq Nat DEF N
<1>. QED  BY <1>1, <1>4


LEMMA SumExists ==
    ASSUME NEW f, NEW S, IsFiniteSet(S)
    PROVE  \E g : Adds(g, f, S)
<1>. DEFINE Good(g, n) == \A s \in SUBSET S : Cardinality(s) <= n => g[s] = SumStep(f, g, s)
            N == {n \in Nat : \E g : Good(g, n)}
<1>1. \A s \in SUBSET S : Cardinality(s) \in Nat /\ (Cardinality(s) = 0 <=> s = {})
  BY FS_Subset, FS_CardinalityType, FS_EmptySet
<1>2. 0 \in N
  <2>1. Good([s \in SUBSET S |-> 0], 0)
    BY <1>1 DEF SumStep
  <2>. QED  BY <2>1
<1>3. ASSUME NEW n \in N PROVE n + 1 \in N
  <2>1. PICK g : Good(g, n)
    BY <1>3
  <2>. DEFINE h == [s \in SUBSET S |-> IF Cardinality(s) <= n THEN g[s] ELSE SumStep(f, g, s)]
  <2>2. ASSUME NEW s \in SUBSET S, Cardinality(s) <= n + 1 PROVE h[s] = SumStep(f, h, s)
    <3>1. h[s] = SumStep(f, g, s)
      BY <2>1
    <3>2. ASSUME s # {} PROVE h[s \ {Picked(s)}] = g[s \ {Picked(s)}]
      <4>1. s \ {Picked(s)} \in SUBSET S /\ Cardinality(s \ {Picked(s)}) <= n
        BY <2>2, <3>2, PickedIn, Smaller, n \in Nat
      <4>. QED  BY <4>1
    <3>. QED  BY <3>1, <3>2 DEF SumStep
  <2>3. Good(h, n + 1)
    BY <2>2, Zenon
  <2>4. n + 1 \in Nat
    BY <1>3
  <2>. HIDE DEF h, Good
  <2>. QED  BY <2>3, <2>4
<1>4. Cardinality(S) \in N
  <2>1. N \in SUBSET Nat
    OBVIOUS
  <2>. HIDE DEF N
  <2>2. N = Nat
    BY <1>2, <1>3, <2>1, NatInduced
  <2>. QED  BY <1>1, <2>2
<1>5. PICK g : Good(g, Cardinality(S))
  BY <1>4
<1>6. \A s \in SUBSET S : Cardinality(s) <= Cardinality(S)
  BY FS_Subset
<1>. DEFINE h == [s \in SUBSET S |-> g[s]]
<1>7. ASSUME NEW s \in SUBSET S PROVE h[s] = SumStep(f, h, s)
  BY <1>5, <1>6, Zenon DEF SumStep
<1>8. Adds(h, f, S)
  BY <1>7, Zenon DEF Adds
<1>. QED  BY <1>8

LEMMA SumUnique ==
    ASSUME NEW f, NEW S, IsFiniteSet(S), NEW T \in SUBSET S,
           NEW g, Adds(g, f, S), NEW h, Adds(h, f, T)
    PROVE  g[T] = h[T]
<1>. DEFINE P == {s \in SUBSET T : g[s] = h[s]}
<1>1. \A s \in SUBSET T : g[s] = SumStep(f, g, s) /\ h[s] = SumStep(f, h, s)
  BY DEF Adds
<1>2. {} \in P
  BY <1>1 DEF SumStep
<1>3. IsFiniteSet(T)
  BY FS_Subset
<1>4. ASSUME NEW s \in SUBSET T, s # {},
             \A t \in SUBSET T : Cardinality(t) < Cardinality(s) => t \in P
      PROVE  s \in P
  <2>1. s \ {Picked(s)} \in SUBSET T /\ Cardinality(s \ {Picked(s)}) < Cardinality(s)
    BY <1>3, <1>4, PickedIn, Smaller
  <2>2. g[s \ {Picked(s)}] = h[s \ {Picked(s)}]
    BY <1>4, <2>1
  <2>. QED  BY <1>1, <2>2 DEF SumStep
<1>5. P = SUBSET T
  <2>1. P \in SUBSET (SUBSET T)
    OBVIOUS
  <2>. HIDE DEF P
  <2>. QED  BY <1>2, <1>3, <1>4, <2>1, SizeInduction
<1>. QED  BY <1>5

LEMMA SumRec ==
    ASSUME NEW f, NEW S, IsFiniteSet(S)
    PROVE  SumFunctionOnSet(f, S) =
               IF S = {} THEN 0
               ELSE f[Picked(S)] + SumFunctionOnSet(f, S \ {Picked(S)})
<1>. DEFINE g == CHOOSE x : Adds(x, f, S)
            T == S \ {Picked(S)}
            h == CHOOSE x : Adds(x, f, T)
<1>1. Adds(g, f, S)
  BY SumExists
<1>2. Adds(h, f, T)
  BY SumExists, FS_Subset, Zenon
<1>3. SumFunctionOnSet(f, S) = g[S] /\ SumFunctionOnSet(f, T) = h[T]
  BY SumIs
<1>. HIDE DEF g, h
<1>4. g[T] = h[T]
  BY <1>1, <1>2, SumUnique
<1>5. g[S] = SumStep(f, g, S)
  BY <1>1 DEF Adds
<1>. QED  BY <1>3, <1>4, <1>5 DEF SumStep


LEMMA SumEmpty ==
    ASSUME NEW f
    PROVE  SumFunctionOnSet(f, {}) = 0
BY SumRec, FS_EmptySet

LEMMA SumNat ==
    ASSUME NEW f, NEW S, IsFiniteSet(S), \A x \in S : f[x] \in Nat
    PROVE  SumFunctionOnSet(f, S) \in Nat
<1>. DEFINE P == {s \in SUBSET S : SumFunctionOnSet(f, s) \in Nat}
<1>1. {} \in P
  BY SumEmpty
<1>2. ASSUME NEW s \in SUBSET S, s # {},
             \A t \in SUBSET S : Cardinality(t) < Cardinality(s) => t \in P
      PROVE  s \in P
  <2>1. /\ Picked(s) \in s /\ s \ {Picked(s)} \in SUBSET S
        /\ Cardinality(s \ {Picked(s)}) < Cardinality(s)
    BY <1>2, PickedIn, Smaller
  <2>2. SumFunctionOnSet(f, s) = f[Picked(s)] + SumFunctionOnSet(f, s \ {Picked(s)})
    BY <1>2, SumRec, FS_Subset
  <2>. QED  BY <1>2, <2>1, <2>2
<1>3. P \in SUBSET (SUBSET S)
  OBVIOUS
<1>4. P = SUBSET S
  <2>. HIDE DEF P
  <2>. QED  BY <1>1, <1>2, <1>3, SizeInduction
<1>. QED  BY <1>4

LEMMA SumPlus ==
    ASSUME NEW f, NEW g, NEW h, NEW S, IsFiniteSet(S),
           \A x \in S : f[x] \in Nat /\ g[x] \in Nat /\ h[x] = f[x] + g[x]
    PROVE  SumFunctionOnSet(h, S) = SumFunctionOnSet(f, S) + SumFunctionOnSet(g, S)
<1>. DEFINE P == {s \in SUBSET S :
         SumFunctionOnSet(h, s) = SumFunctionOnSet(f, s) + SumFunctionOnSet(g, s)}
<1>1. {} \in P
  BY SumEmpty
<1>2. ASSUME NEW s \in SUBSET S, s # {},
             \A t \in SUBSET S : Cardinality(t) < Cardinality(s) => t \in P
      PROVE  s \in P
  <2>. DEFINE x == Picked(s)
              t == s \ {x}
  <2>1. x \in S /\ t \in SUBSET S /\ Cardinality(t) < Cardinality(s)
    BY <1>2, PickedIn, Smaller
  <2>2. IsFiniteSet(s) /\ IsFiniteSet(t)
    BY <2>1, FS_Subset
  <2>3. /\ SumFunctionOnSet(f, s) = f[x] + SumFunctionOnSet(f, t)
        /\ SumFunctionOnSet(g, s) = g[x] + SumFunctionOnSet(g, t)
        /\ SumFunctionOnSet(h, s) = h[x] + SumFunctionOnSet(h, t)
    BY <1>2, <2>2, SumRec
  <2>4. SumFunctionOnSet(f, t) \in Nat /\ SumFunctionOnSet(g, t) \in Nat
    BY <2>1, <2>2, SumNat
  <2>5. SumFunctionOnSet(h, t) = SumFunctionOnSet(f, t) + SumFunctionOnSet(g, t)
    BY <1>2, <2>1
  <2>. HIDE DEF x, t
  <2>. QED  BY <2>1, <2>3, <2>4, <2>5
<1>3. P \in SUBSET (SUBSET S)
  OBVIOUS
<1>4. P = SUBSET S
  <2>. HIDE DEF P
  <2>. QED  BY <1>1, <1>2, <1>3, SizeInduction
<1>. QED  BY <1>4

LEMMA SumAtMost ==
    ASSUME NEW f, NEW g, NEW S, IsFiniteSet(S),
           \A x \in S : f[x] \in Nat /\ g[x] \in Nat /\ f[x] <= g[x]
    PROVE  SumFunctionOnSet(f, S) <= SumFunctionOnSet(g, S)
<1>. DEFINE d == [x \in S |-> g[x] - f[x]]
<1>1. \A x \in S : d[x] \in Nat /\ g[x] = f[x] + d[x]
  OBVIOUS
<1>. HIDE DEF d
<1>2. SumFunctionOnSet(g, S) = SumFunctionOnSet(f, S) + SumFunctionOnSet(d, S)
  BY <1>1, SumPlus
<1>3. SumFunctionOnSet(f, S) \in Nat /\ SumFunctionOnSet(d, S) \in Nat
  BY <1>1, SumNat
<1>. QED  BY <1>2, <1>3

LEMMA SumZero ==
    ASSUME NEW f, NEW S, IsFiniteSet(S), \A x \in S : f[x] = 0
    PROVE  SumFunctionOnSet(f, S) = 0
<1>1. SumFunctionOnSet(f, S) = SumFunctionOnSet(f, S) + SumFunctionOnSet(f, S)
  BY SumPlus
<1>2. SumFunctionOnSet(f, S) \in Nat
  BY SumNat
<1>3. \A n \in Nat : n = n + n => n = 0
  OBVIOUS
<1>. QED  BY <1>1, <1>2, <1>3, Zenon

LEMMA SumEqual ==
    ASSUME NEW f, NEW g, NEW S, IsFiniteSet(S),
           \A x \in S : f[x] \in Nat /\ f[x] = g[x]
    PROVE  SumFunctionOnSet(f, S) = SumFunctionOnSet(g, S)
<1>1. SumFunctionOnSet(f, S) \in Nat /\ SumFunctionOnSet(g, S) \in Nat
  BY SumNat
<1>2. SumFunctionOnSet(f, S) <= SumFunctionOnSet(g, S) /\ SumFunctionOnSet(g, S) <= SumFunctionOnSet(f, S)
  BY SumAtMost
<1>. QED  BY <1>1, <1>2


LEMMA SumElement ==
    ASSUME NEW f, NEW S, IsFiniteSet(S), \A y \in S : f[y] \in Nat, NEW x \in S
    PROVE  SumFunctionOnSet(f, S) = f[x] + SumFunctionOnSet(f, S \ {x})
<1>. DEFINE P == {s \in SUBSET S : \A z \in s :
         SumFunctionOnSet(f, s) = f[z] + SumFunctionOnSet(f, s \ {z})}
<1>1. {} \in P
  OBVIOUS
<1>2. ASSUME NEW s \in SUBSET S, s # {},
             \A t \in SUBSET S : Cardinality(t) < Cardinality(s) => t \in P
      PROVE  s \in P
  <2>. DEFINE y == Picked(s)
  <2>1. y \in s /\ s \ {y} \in SUBSET S /\ Cardinality(s \ {y}) < Cardinality(s)
    BY <1>2, PickedIn, Smaller
  <2>2. \A t \in SUBSET S : IsFiniteSet(t) /\ SumFunctionOnSet(f, t) \in Nat
    BY FS_Subset, SumNat
  <2>3. SumFunctionOnSet(f, s) = f[y] + SumFunctionOnSet(f, s \ {y})
    BY <1>2, <2>2, SumRec
  <2>. SUFFICES ASSUME NEW z \in s, z # y
                PROVE  SumFunctionOnSet(f, s) = f[z] + SumFunctionOnSet(f, s \ {z})
    BY <2>3
  <2>. HIDE DEF y
  <2>4. Cardinality(s \ {z}) < Cardinality(s) /\ s \ {z} \in SUBSET S
    BY <1>2, Smaller
  <2>5. s \ {y} \in P
    BY <1>2, <2>1
  <2>6. SumFunctionOnSet(f, s \ {y}) = f[z] + SumFunctionOnSet(f, (s \ {y}) \ {z})
    BY <2>5
  <2>7. SumFunctionOnSet(f, s \ {z}) = f[y] + SumFunctionOnSet(f, (s \ {z}) \ {y})
    BY <1>2, <2>1, <2>4
  <2>8. (s \ {y}) \ {z} = (s \ {z}) \ {y} /\ (s \ {z}) \ {y} \in SUBSET S
    OBVIOUS
  <2>9. f[z] \in Nat /\ f[y] \in Nat /\ SumFunctionOnSet(f, (s \ {z}) \ {y}) \in Nat
    BY <2>1, <2>2, <2>8
  <2>. QED  BY <2>3, <2>6, <2>7, <2>8, <2>9
<1>3. P \in SUBSET (SUBSET S)
  OBVIOUS
<1>4. P = SUBSET S
  <2>. HIDE DEF P
  <2>. QED  BY <1>1, <1>2, <1>3, SizeInduction
<1>. QED  BY <1>4

LEMMA SumWithin ==
    ASSUME NEW f, NEW h, NEW S, IsFiniteSet(S), NEW T \in SUBSET S,
           \A x \in T : f[x] \in Nat,
           \A x \in S : h[x] = IF x \in T THEN f[x] ELSE 0
    PROVE  SumFunctionOnSet(f, T) = SumFunctionOnSet(h, S)
<1>. DEFINE P == {s \in SUBSET S : SumFunctionOnSet(h, s) = SumFunctionOnSet(f, s \cap T)}
<1>1. {} \in P
  <2>1. {} \cap T = {}
    OBVIOUS
  <2>. QED  BY <2>1, SumEmpty
<1>2. ASSUME NEW s \in SUBSET S, s # {},
             \A t \in SUBSET S : Cardinality(t) < Cardinality(s) => t \in P
      PROVE  s \in P
  <2>. DEFINE y == Picked(s)
  <2>1. y \in s /\ s \ {y} \in SUBSET S /\ Cardinality(s \ {y}) < Cardinality(s)
    BY <1>2, PickedIn, Smaller
  <2>2. IsFiniteSet(s) /\ IsFiniteSet(s \cap T)
    BY FS_Subset
  <2>3. SumFunctionOnSet(h, s) = h[y] + SumFunctionOnSet(h, s \ {y})
    BY <1>2, <2>2, SumRec
  <2>. HIDE DEF y
  <2>4. SumFunctionOnSet(h, s \ {y}) = SumFunctionOnSet(f, (s \ {y}) \cap T)
    BY <1>2, <2>1
  <2>5. CASE y \in T
    <3>1. (s \ {y}) \cap T = (s \cap T) \ {y} /\ y \in s \cap T
      BY <2>1, <2>5
    <3>2. SumFunctionOnSet(f, s \cap T) = f[y] + SumFunctionOnSet(f, (s \cap T) \ {y})
      BY <2>2, <3>1, SumElement
    <3>. QED  BY <2>1, <2>3, <2>4, <2>5, <3>1, <3>2
  <2>6. CASE y \notin T
    <3>1. (s \ {y}) \cap T = s \cap T
      BY <2>6
    <3>2. SumFunctionOnSet(f, s \cap T) \in Nat
      BY <2>2, SumNat
    <3>. QED  BY <2>1, <2>3, <2>4, <2>6, <3>1, <3>2
  <2>. QED  BY <2>5, <2>6
<1>3. P \in SUBSET (SUBSET S)
  OBVIOUS
<1>4. P = SUBSET S
  <2>. HIDE DEF P
  <2>. QED  BY <1>1, <1>2, <1>3, SizeInduction
<1>5. S \cap T = T
  OBVIOUS
<1>. QED  BY <1>4, <1>5
-----------------------------------------------------------------------------
(* BackendPublisher.                                                       *)

(* What is billed, counted and in a tick was carried.                      *)
Accounted == \A u \in StatUsers : userBilled[u] + counter[u] + round.deltas[u] <= served[u]

StatsInv ==
    /\ counter \in [StatUsers -> Nat]
    /\ served \in [StatUsers -> Nat]
    /\ userBilled \in [StatUsers -> Nat]
    /\ round \in [pc: {"idle", "live", "node", "users"}, deltas: [StatUsers -> Nat]]
    /\ Accounted

LEMMA StatsInitInv == StatsInit => StatsInv
BY DEF StatsInit, StatsInv, Accounted, NoTraffic, Idle

LEMMA StatsStepInv ==
    ASSUME StatsInv, [StatsNext]_statsVars
    PROVE  StatsInv'
<1> USE DEF StatsInv, Accounted, NoTraffic, Idle
<1>1. CASE UNCHANGED statsVars
  BY <1>1 DEF statsVars
<1>2. CASE \E u \in StatUsers : XrayCarries(u)
  BY <1>2 DEF XrayCarries
<1>3. CASE XrayLosesCounters \/ QueryAnswerLost
  BY <1>3 DEF XrayLosesCounters, QueryAnswerLost
<1>4. CASE Query
  BY <1>4 DEF Query
<1>5. CASE PublishLive \/ PublishLiveFails
  BY <1>5 DEF PublishLive, PublishLiveFails, AfterLive
<1>6. CASE PublishNode \/ PublishNodeFails
  BY <1>6 DEF PublishNode, PublishNodeFails
<1>7. CASE PublishUsers
  BY <1>7 DEF PublishUsers
<1>8. CASE PublishUsersFails \/ PublisherCrashes
  BY <1>8 DEF PublishUsersFails, PublisherCrashes
<1>9. QED
  BY <1>1, <1>2, <1>3, <1>4, <1>5, <1>6, <1>7, <1>8 DEF StatsNext

(* Only Xray carries bytes, and only the users' message bills them.        *)
LEMMA StatsStepRefines ==
    ASSUME StatsInv, [StatsNext]_statsVars
    PROVE  [UserMeter!Next]_<<served, userBilled>>
<1> USE DEF StatsInv, Accounted
<1>1. CASE UNCHANGED statsVars
  BY <1>1 DEF statsVars
<1>2. CASE \E u \in StatUsers : XrayCarries(u)
  BY <1>2 DEF XrayCarries, UserMeter!Next, UserMeter!Carries
<1>3. CASE PublishUsers
  BY <1>3 DEF PublishUsers, UserMeter!Next, UserMeter!Bills
<1>4. CASE \/ XrayLosesCounters \/ Query \/ QueryAnswerLost
           \/ PublishLive \/ PublishLiveFails \/ PublishNode \/ PublishNodeFails
           \/ PublishUsersFails \/ PublisherCrashes
  BY <1>4 DEF XrayLosesCounters, Query, QueryAnswerLost, PublishLive, PublishLiveFails,
              PublishNode, PublishNodeFails, PublishUsersFails, PublisherCrashes
<1>5. QED
  BY <1>1, <1>2, <1>3, <1>4 DEF StatsNext

(* The totals of a node: the users that are not probes.                    *)
LEMMA TotalNat ==
    ASSUME NEW f \in [StatUsers -> Nat]
    PROVE  Total(f) \in Nat
<1>1. IsFiniteSet(StatUsers \ Probes) /\ \A u \in StatUsers \ Probes : f[u] \in Nat
  BY StatUsersAssumption, FS_Subset
<1>. QED  BY <1>1, SumNat DEF Total

LEMMA TotalPlus ==
    ASSUME NEW f \in [StatUsers -> Nat], NEW g \in [StatUsers -> Nat],
           NEW h \in [StatUsers -> Nat], \A u \in StatUsers \ Probes : h[u] = f[u] + g[u]
    PROVE  Total(h) = Total(f) + Total(g)
<1>1. IsFiniteSet(StatUsers \ Probes)
  BY StatUsersAssumption, FS_Subset
<1>2. \A u \in StatUsers \ Probes : f[u] \in Nat /\ g[u] \in Nat /\ h[u] = f[u] + g[u]
  OBVIOUS
<1>. QED  BY <1>1, <1>2, SumPlus DEF Total

LEMMA TotalAtMost ==
    ASSUME NEW f \in [StatUsers -> Nat], NEW g \in [StatUsers -> Nat],
           \A u \in StatUsers \ Probes : f[u] <= g[u]
    PROVE  Total(f) <= Total(g)
<1>1. IsFiniteSet(StatUsers \ Probes)
  BY StatUsersAssumption, FS_Subset
<1>2. \A u \in StatUsers \ Probes : f[u] \in Nat /\ g[u] \in Nat /\ f[u] <= g[u]
  OBVIOUS
<1>. QED  BY <1>1, <1>2, SumAtMost DEF Total

LEMMA TotalNothing == Total(NoTraffic) = 0
<1>1. IsFiniteSet(StatUsers \ Probes) /\ \A u \in StatUsers \ Probes : NoTraffic[u] = 0
  BY StatUsersAssumption, FS_Subset DEF NoTraffic
<1>. QED  BY <1>1, SumZero DEF Total

(* What the node's total does not hold yet: the counters, and the deltas   *)
(* of a tick that has not sent it.                                         *)
Unsent(bytes, r) ==
    [u \in StatUsers |-> bytes[u] + IF r.pc \in {"live", "node"} THEN r.deltas[u] ELSE 0]

(* The users' deltas that the node's total already holds.                  *)
Ahead(r) == IF r.pc = "users" THEN r.deltas ELSE NoTraffic

NodeInv ==
    /\ nodeBilled \in Nat
    /\ Total(userBilled) + Total(Ahead(round)) <= nodeBilled
    /\ nodeBilled + Total(Unsent(counter, round)) <= Total(served)

RoundType == [pc: {"idle", "live", "node", "users"}, deltas: [StatUsers -> Nat]]

LEMMA NodeTypes ==
    ASSUME NEW bytes \in [StatUsers -> Nat], NEW r \in RoundType
    PROVE  /\ Unsent(bytes, r) \in [StatUsers -> Nat] /\ Total(Unsent(bytes, r)) \in Nat
           /\ Ahead(r) \in [StatUsers -> Nat] /\ Total(Ahead(r)) \in Nat
<1>1. Unsent(bytes, r) \in [StatUsers -> Nat] /\ Ahead(r) \in [StatUsers -> Nat]
  BY DEF Unsent, Ahead, NoTraffic, RoundType
<1>. QED  BY <1>1, TotalNat

(* A step that publishes nothing and moves nothing back.                   *)
LEMMA NodeKept ==
    ASSUME StatsInv, StatsInv', NodeInv, UNCHANGED <<served, userBilled, nodeBilled>>,
           \A u \in StatUsers : Unsent(counter', round')[u] <= Unsent(counter, round)[u],
           \A u \in StatUsers : Ahead(round')[u] <= Ahead(round)[u]
    PROVE  NodeInv'
<1>1. /\ Unsent(counter, round) \in [StatUsers -> Nat] /\ Ahead(round) \in [StatUsers -> Nat]
      /\ Total(Unsent(counter, round)) \in Nat /\ Total(Ahead(round)) \in Nat
  BY NodeTypes DEF StatsInv, RoundType
<1>2. /\ Unsent(counter', round') \in [StatUsers -> Nat] /\ Ahead(round') \in [StatUsers -> Nat]
      /\ Total(Unsent(counter', round')) \in Nat /\ Total(Ahead(round')) \in Nat
  BY NodeTypes DEF StatsInv, RoundType
<1>3. Total(Unsent(counter', round')) <= Total(Unsent(counter, round))
  BY <1>1, <1>2, TotalAtMost
<1>4. Total(Ahead(round')) <= Total(Ahead(round))
  BY <1>1, <1>2, TotalAtMost
<1>5. Total(userBilled) \in Nat /\ Total(served) \in Nat
  BY TotalNat DEF StatsInv
<1>. QED  BY <1>1, <1>2, <1>3, <1>4, <1>5 DEF NodeInv

LEMMA NodeStepInv ==
    ASSUME StatsInv, StatsInv', NodeInv, [StatsNext]_statsVars
    PROVE  NodeInv'
<1>1. CASE UNCHANGED statsVars
  BY <1>1 DEF statsVars, NodeInv
<1>2. ASSUME NEW u \in StatUsers, XrayCarries(u)
      PROVE  NodeInv'
  <2>. DEFINE One == [v \in StatUsers |-> IF v = u THEN 1 ELSE 0]
  <2>1. UNCHANGED <<round, userBilled, nodeBilled>>
    BY <1>2 DEF XrayCarries
  <2>2. /\ One \in [StatUsers -> Nat]
        /\ \A v \in StatUsers : served'[v] = served[v] + One[v]
        /\ \A v \in StatUsers : Unsent(counter', round')[v] = Unsent(counter, round)[v] + One[v]
    BY <1>2 DEF XrayCarries, StatsInv, Unsent
  <2>. HIDE DEF One
  <2>3. /\ Unsent(counter, round) \in [StatUsers -> Nat]
        /\ Unsent(counter', round') \in [StatUsers -> Nat]
    BY NodeTypes DEF StatsInv, RoundType
  <2>4. Total(served') = Total(served) + Total(One)
    BY <2>2, TotalPlus DEF StatsInv
  <2>5. Total(Unsent(counter', round')) = Total(Unsent(counter, round)) + Total(One)
    BY <2>2, <2>3, TotalPlus
  <2>6. /\ Total(served) \in Nat /\ Total(One) \in Nat
        /\ Total(Unsent(counter, round)) \in Nat
    BY <2>2, <2>3, TotalNat DEF StatsInv
  <2>. QED  BY <2>1, <2>4, <2>5, <2>6 DEF NodeInv
<1>3. CASE XrayLosesCounters \/ QueryAnswerLost
  BY <1>3, NodeKept DEF XrayLosesCounters, QueryAnswerLost, StatsInv, Unsent, NoTraffic, Ahead
<1>4. CASE Query
  BY <1>4, NodeKept DEF Query, StatsInv, Unsent, NoTraffic, Ahead
<1>5. CASE PublishLive \/ PublishLiveFails
  BY <1>5, NodeKept DEF PublishLive, PublishLiveFails, AfterLive, Idle, StatsInv, Unsent,
                        NoTraffic, Ahead
<1>6. CASE PublishNode \/ PublishNodeFails
  <2>1. /\ round.pc = "node" /\ UNCHANGED <<counter, served, userBilled>>
        /\ nodeBilled' \in {nodeBilled, nodeBilled + Total(round.deltas)}
        /\ \/ round' = Idle
           \/ /\ round' = [round EXCEPT !.pc = "users"]
              /\ nodeBilled' = nodeBilled + Total(round.deltas)
    BY <1>6 DEF PublishNode, PublishNodeFails
  <2>2. /\ Unsent(counter, round) \in [StatUsers -> Nat]
        /\ Unsent(counter', round') \in [StatUsers -> Nat]
        /\ round.deltas \in [StatUsers -> Nat]
    BY NodeTypes DEF StatsInv, RoundType
  <2>3. \A u \in StatUsers :
            Unsent(counter, round)[u] = Unsent(counter', round')[u] + round.deltas[u]
    BY <2>1, <2>2 DEF StatsInv, Unsent, Idle
  <2>4. Total(Unsent(counter, round)) = Total(Unsent(counter', round')) + Total(round.deltas)
    BY <2>2, <2>3, TotalPlus
  <2>5. /\ Total(served) \in Nat /\ Total(userBilled) \in Nat /\ Total(round.deltas) \in Nat
        /\ Total(Unsent(counter', round')) \in Nat
    BY <2>2, TotalNat DEF StatsInv
  <2>6. Ahead(round) = NoTraffic
    BY <2>1 DEF Ahead
  <2>7. \/ Ahead(round') = NoTraffic
        \/ Ahead(round') = round.deltas /\ nodeBilled' = nodeBilled + Total(round.deltas)
    BY <2>1 DEF Ahead, Idle, StatsInv
  <2>. QED  BY <2>1, <2>4, <2>5, <2>6, <2>7, TotalNothing DEF NodeInv
<1>7. CASE PublishUsers
  <2>1. /\ round.pc = "users" /\ round' = Idle /\ UNCHANGED <<counter, served, nodeBilled>>
        /\ \A u \in StatUsers \ Probes : userBilled'[u] = userBilled[u] + round.deltas[u]
    BY <1>7 DEF PublishUsers, StatsInv
  <2>2. Ahead(round) = round.deltas /\ Ahead(round') = NoTraffic
    BY <2>1 DEF Ahead, Idle
  <2>3. Total(userBilled') = Total(userBilled) + Total(round.deltas)
    BY <2>1, TotalPlus DEF StatsInv
  <2>4. Unsent(counter', round') = Unsent(counter, round)
    BY <2>1 DEF Unsent, Idle
  <2>5. Total(userBilled') \in Nat
    BY TotalNat DEF StatsInv
  <2>. QED  BY <2>1, <2>2, <2>3, <2>4, <2>5, TotalNothing DEF NodeInv
<1>8. CASE PublishUsersFails \/ PublisherCrashes
  BY <1>8, NodeKept DEF PublishUsersFails, PublisherCrashes, Idle, StatsInv, Unsent,
                        NoTraffic, Ahead
<1>. QED  BY <1>1, <1>2, <1>3, <1>4, <1>5, <1>6, <1>7, <1>8 DEF StatsNext

LEMMA NodeInitInv == StatsInit => NodeInv
<1>. SUFFICES ASSUME StatsInit PROVE NodeInv
  OBVIOUS
<1>1. Unsent(counter, round) = NoTraffic /\ Ahead(round) = NoTraffic
  BY DEF StatsInit, Unsent, Ahead, Idle, NoTraffic
<1>. QED  BY <1>1, TotalNothing DEF StatsInit, NodeInv

(* The publisher keeps its types.                                          *)
THEOREM StatsTypes == StatsSpec => []StatsTypeOK
<1>. DEFINE TInv == StatsInv /\ NodeInv /\ live \subseteq StatUsers \ Probes
<1>1. StatsInit => TInv
  BY StatsInitInv, NodeInitInv DEF StatsInit
<1>2. TInv /\ [StatsNext]_statsVars => TInv'
  <2>. SUFFICES ASSUME TInv, [StatsNext]_statsVars PROVE TInv'
    OBVIOUS
  <2>1. (live \subseteq StatUsers \ Probes)'
    BY DEF statsVars, StatsNext, XrayCarries, XrayLosesCounters, Query, QueryAnswerLost,
           PublishLive, PublishLiveFails, PublishNode, PublishNodeFails, PublishUsers,
           PublishUsersFails, PublisherCrashes
  <2>. QED  BY <2>1, StatsStepInv, NodeStepInv
<1>3. TInv => StatsTypeOK
  BY DEF StatsInv, NodeInv, StatsTypeOK
<1>. QED  BY <1>1, <1>2, <1>3, PTL DEF StatsSpec

(* Per user, the deltas BackendPublisher publishes were carried and are    *)
(* published at most once, and the node's total covers them, whatever is   *)
(* lost between Xray and the control plane (tick).                         *)
THEOREM BackendIsMetered == StatsSpec => BackendTrafficMetered
<1>. DEFINE BInv == StatsInv /\ NodeInv
<1>1. StatsInit => BInv /\ UserMeter!Init
  BY StatsInitInv, NodeInitInv DEF StatsInit, NoTraffic, UserMeter!Init
<1>2. BInv /\ [StatsNext]_statsVars => BInv'
  BY StatsStepInv, NodeStepInv
<1>3. BInv /\ [StatsNext]_statsVars => [UserMeter!Next]_<<served, userBilled>>
  BY StatsStepRefines
<1>4. BInv => NodeCoversUsers
  <2>. SUFFICES ASSUME BInv PROVE NodeCoversUsers
    OBVIOUS
  <2>1. Total(Unsent(counter, round)) \in Nat /\ Total(Ahead(round)) \in Nat
    BY NodeTypes DEF StatsInv, RoundType
  <2>2. Total(userBilled) \in Nat /\ Total(served) \in Nat
    BY TotalNat DEF StatsInv
  <2>. QED  BY <2>1, <2>2 DEF NodeInv, NodeCoversUsers
<1>. QED  BY <1>1, <1>2, <1>3, <1>4, PTL DEF StatsSpec, UserMeter!Spec, BackendTrafficMetered

-----------------------------------------------------------------------------
(* Publisher, of an entry node.                                            *)

(* The bytes of the sessions cs on backend b, and what a tick that knows   *)
(* last would count of them, as functions of all sessions.                 *)
On(c, b) == c.pc = "relaying" /\ c.backend = b

DeltaIn(c, last) ==
    IF c.id \in DOMAIN last /\ c.bytes >= last[c.id] THEN c.bytes - last[c.id] ELSE 0

BytesOf(cs, b) == [s \in Sessions |-> IF On(cs[s], b) THEN cs[s].bytes ELSE 0]

DeltaOf(cs, last, b) == [s \in Sessions |-> IF On(cs[s], b) THEN DeltaIn(cs[s], last) ELSE 0]

SumAll(f) == SumFunctionOnSet(f, Sessions)

(* What can be counted of a session.                                       *)
Countable(cs, last) ==
    /\ \A s \in Sessions : cs[s].pc = "relaying" => cs[s].bytes \in Nat
    /\ \A i \in DOMAIN last : last[i] \in Nat

LEMMA CountedTypes ==
    ASSUME NEW cs, NEW last, Countable(cs, last), NEW b
    PROVE  /\ BytesOf(cs, b) \in [Sessions -> Nat] /\ SumAll(BytesOf(cs, b)) \in Nat
           /\ DeltaOf(cs, last, b) \in [Sessions -> Nat] /\ SumAll(DeltaOf(cs, last, b)) \in Nat
<1>1. BytesOf(cs, b) \in [Sessions -> Nat]
  BY DEF Countable, BytesOf, On
<1>2. DeltaOf(cs, last, b) \in [Sessions -> Nat]
  BY DEF Countable, DeltaOf, DeltaIn, On
<1>. QED  BY <1>1, <1>2, SumNat, SessionsAssumption DEF SumAll

LEMMA CountedSums ==
    ASSUME NEW cs, NEW last, Countable(cs, last), NEW b
    PROVE  LET on == {s \in {t \in Sessions : cs[t].pc = "relaying"} : cs[s].backend = b} IN
           /\ SumFunction([s \in on |-> cs[s].bytes]) = SumAll(BytesOf(cs, b))
           /\ SumFunction([s \in on |-> DeltaIn(cs[s], last)]) = SumAll(DeltaOf(cs, last, b))
<1>. DEFINE on == {s \in {t \in Sessions : cs[t].pc = "relaying"} : cs[s].backend = b}
            f == [s \in on |-> cs[s].bytes]
            g == [s \in on |-> DeltaIn(cs[s], last)]
<1>1. on \in SUBSET Sessions /\ DOMAIN f = on /\ DOMAIN g = on
  OBVIOUS
<1>2. /\ \A s \in on : f[s] \in Nat
      /\ \A s \in Sessions : BytesOf(cs, b)[s] = IF s \in on THEN f[s] ELSE 0
  BY DEF Countable, BytesOf, On
<1>3. /\ \A s \in on : g[s] \in Nat
      /\ \A s \in Sessions : DeltaOf(cs, last, b)[s] = IF s \in on THEN g[s] ELSE 0
  BY DEF Countable, DeltaOf, DeltaIn, On
<1>. HIDE DEF on, f, g
<1>4. SumFunctionOnSet(f, on) = SumAll(BytesOf(cs, b))
  BY <1>1, <1>2, SumWithin, SessionsAssumption DEF SumAll
<1>5. SumFunctionOnSet(g, on) = SumAll(DeltaOf(cs, last, b))
  BY <1>1, <1>3, SumWithin, SessionsAssumption DEF SumAll
<1>6. SumFunction(f) = SumAll(BytesOf(cs, b)) /\ SumFunction(g) = SumAll(DeltaOf(cs, last, b))
  BY <1>1, <1>4, <1>5, Zenon DEF SumFunction
<1>. QED  BY <1>6 DEF on, f, g

(* Sessions: what a dial has left to try, and IDs that are used once.      *)
Trying(c) == c.pc = "dialing" => c.cands # <<>> /\ c.left # <<>>

ConnInv ==
    /\ conns \in [Sessions -> SessionType]
    /\ \A s \in Sessions : Trying(conns[s])
    /\ nextID \in 0..MaxConns
    /\ \A s \in Sessions : conns[s].pc = "relaying" => conns[s].id <= nextID
    /\ \A s, t \in Sessions :
           conns[s].pc = "relaying" /\ conns[t].pc = "relaying" /\ conns[s].id = conns[t].id
           => s = t

LEMMA SessionIs ==
    ASSUME NEW c \in SessionType
    PROVE  /\ c.pc = "admitted" => c.client \in Clients
           /\ c.pc = "dialing" =>
                  /\ c.cands \in Seq(Backends) /\ c.left \in Seq(Backends)
                  /\ c = [pc |-> "dialing", cands |-> c.cands, left |-> c.left]
           /\ c.pc = "dialed" => c.backend \in Backends
           /\ c.pc = "relaying" =>
                  c \in [pc: {"relaying"}, backend: Backends, id: 1..MaxConns,
                         bytes: 0..MaxBytes, legs: SUBSET Legs, shut: BOOLEAN]
BY DEF SessionType, Closed

LEMMA OrderIs ==
    ASSUME NEW cands \in SUBSET Backends, cands # {}, NEW order \in Orders(cands)
    PROVE  order \in Seq(Backends) /\ order # <<>>
<1>1. IsFiniteSet(cands)
  BY SessionsAssumption, FS_Subset
<1>2. Cardinality(cands) \in Nat /\ Cardinality(cands) # 0
  BY <1>1, FS_CardinalityType, FS_EmptySet
<1>3. order \in [1..Cardinality(cands) -> cands]
  BY DEF Orders, Bijection, Injection
<1>. QED  BY <1>2, <1>3

(* What a step of a connection's handler does to its session: the table of *)
(* active connections gains it, changes it, loses it, or is not concerned. *)
Unconcerned(c, d) ==
    c.pc # "relaying" /\ d.pc # "relaying" /\ UNCHANGED <<nextID, meterVars>>

Gains(c, d) ==
    /\ c.pc # "relaying" /\ d.pc = "relaying" /\ d.bytes = 0
    /\ nextID' = nextID + 1 /\ nextID' \in 0..MaxConns /\ d.id = nextID'
    /\ UNCHANGED meterVars

Changes(c, d) ==
    /\ c.pc = "relaying" /\ d.pc = "relaying" /\ d.id = c.id /\ d.backend = c.backend
    /\ d.bytes \in {c.bytes, c.bytes + 1}
    /\ UNCHANGED <<nextID, meterVars>>

Loses(c, d) ==
    /\ c.pc = "relaying" /\ d.pc # "relaying"
    /\ ended' = [ended EXCEPT ![c.backend] = @ + c.bytes]
    /\ UNCHANGED <<nextID, lastConn, tick, billed, routingStats>>

HandlerTo(s, d) ==
    /\ conns' = [conns EXCEPT ![s] = d] /\ Trying(d)
    /\ \/ Unconcerned(conns[s], d) \/ Gains(conns[s], d)
       \/ Changes(conns[s], d) \/ Loses(conns[s], d)

LEMMA DialEffect ==
    ASSUME ConnInv, ProxyTypeOK, NEW s \in Sessions,
           \/ \E u \in Clients : Admitted(s, u)
           \/ PicksBackends(s) \/ DialWorks(s) \/ DialFails(s) \/ DialDeadline(s)
    PROVE  \E d \in SessionType : HandlerTo(s, d)
<1>. DEFINE c == conns[s]
<1>1. c \in SessionType /\ Trying(c)
  BY DEF ConnInv
<1>2. Closed \in SessionType /\ Closed.pc = "closed"
  BY DEF SessionType, Closed
<1>3. ASSUME NEW u \in Clients, Admitted(s, u)
      PROVE  \E d \in SessionType : HandlerTo(s, d)
  <2>. DEFINE d == [pc |-> "admitted", client |-> u]
  <2>1. d \in SessionType /\ d.pc = "admitted"
    BY DEF SessionType
  <2>2. c.pc = "closed" /\ conns' = [conns EXCEPT ![s] = d] /\ UNCHANGED <<nextID, meterVars>>
    BY <1>2, <1>3, Zenon DEF Admitted, Moves
  <2>. HIDE DEF d
  <2>3. HandlerTo(s, d)
    BY <2>1, <2>2 DEF HandlerTo, Unconcerned, Trying
  <2>. QED  BY <2>1, <2>3
<1>4. CASE PicksBackends(s)
  <2>1. c.pc = "admitted" /\ UNCHANGED <<nextID, meterVars>>
    BY <1>4, Zenon DEF PicksBackends
  <2>2. ASSUME Moves(s, Closed)
        PROVE  HandlerTo(s, Closed)
    BY <1>2, <2>1, <2>2 DEF Moves, HandlerTo, Unconcerned, Trying
  <2>3. ASSUME NEW order \in Orders(ConnBackends(c.client)), ConnBackends(c.client) # {},
               Moves(s, [pc |-> "dialing", cands |-> order, left |-> order])
        PROVE  \E d \in SessionType : HandlerTo(s, d)
    <3>. DEFINE d == [pc |-> "dialing", cands |-> order, left |-> order]
    <3>1. ConnBackends(c.client) \in SUBSET Backends
      BY DEF ProxyTypeOK, ConnBackends
    <3>2. order \in Seq(Backends) /\ order # <<>>
      BY <2>3, <3>1, OrderIs, ZenonT(40)
    <3>3. d \in SessionType /\ d.pc = "dialing" /\ Trying(d)
      BY <3>2 DEF SessionType, Trying
    <3>4. conns' = [conns EXCEPT ![s] = d]
      BY <2>3 DEF Moves
    <3>. HIDE DEF d
    <3>5. HandlerTo(s, d)
      BY <2>1, <3>3, <3>4 DEF HandlerTo, Unconcerned
    <3>. QED  BY <3>3, <3>5
  <2>4. \/ Moves(s, Closed)
        \/ \E order \in Orders(ConnBackends(c.client)) :
              /\ ConnBackends(c.client) # {}
              /\ Moves(s, [pc |-> "dialing", cands |-> order, left |-> order])
    BY <1>4, Zenon DEF PicksBackends
  <2>. QED  BY <1>2, <2>2, <2>3, <2>4, Zenon
<1>5. CASE DialWorks(s)
  <2>. DEFINE d == [pc |-> "dialed", backend |-> Head(c.left)]
  <2>1. c.pc = "dialing" /\ UNCHANGED <<nextID, meterVars>> /\ conns' = [conns EXCEPT ![s] = d]
    BY <1>5 DEF DialWorks, Moves
  <2>2. Head(c.left) \in Backends
    BY <1>1, <2>1, SessionIs, SMTT(30) DEF Trying
  <2>3. d \in SessionType /\ d.pc = "dialed"
    BY <2>2, Zenon DEF SessionType
  <2>. HIDE DEF d
  <2>4. HandlerTo(s, d)
    BY <2>1, <2>3 DEF HandlerTo, Unconcerned, Trying
  <2>. QED  BY <2>3, <2>4
<1>6. CASE DialFails(s)
  <2>. DEFINE left == IF Len(c.left) = 1 THEN c.cands ELSE Tail(c.left)
              d == [c EXCEPT !.left = left]
  <2>1. c.pc = "dialing" /\ UNCHANGED <<nextID, meterVars>> /\ conns' = [conns EXCEPT ![s] = d]
    BY <1>6 DEF DialFails, Moves
  <2>2. /\ c.cands \in Seq(Backends) /\ c.cands # <<>>
        /\ c = [pc |-> "dialing", cands |-> c.cands, left |-> c.left]
    BY <1>1, <2>1, SessionIs DEF Trying
  <2>3. c.left \in Seq(Backends) /\ c.left # <<>>
    BY <1>1, <2>1, SessionIs DEF Trying
  <2>4. left \in Seq(Backends) /\ left # <<>>
    <3>1. CASE Len(c.left) = 1
      BY <2>2, <3>1
    <3>2. CASE Len(c.left) # 1
      <4>1. Tail(c.left) \in Seq(Backends) /\ Len(Tail(c.left)) = Len(c.left) - 1
        BY <2>3
      <4>2. Len(c.left) \in Nat /\ Len(c.left) # 0
        BY <2>3
      <4>3. \A t \in Seq(Backends) : Len(t) # 0 => t # <<>>
        OBVIOUS
      <4>4. Len(Tail(c.left)) # 0
        BY <3>2, <4>1, <4>2
      <4>5. left = Tail(c.left)
        BY <3>2
      <4>. QED  BY <4>1, <4>3, <4>4, <4>5, Zenon
    <3>. QED  BY <3>1, <3>2, Zenon
  <2>. HIDE DEF left
  <2>5. d = [pc |-> "dialing", cands |-> c.cands, left |-> left]
    BY <2>2
  <2>6. d \in SessionType /\ d.pc = "dialing" /\ Trying(d)
    BY <2>2, <2>4, <2>5 DEF SessionType, Trying
  <2>. HIDE DEF d
  <2>7. HandlerTo(s, d)
    BY <2>1, <2>6 DEF HandlerTo, Unconcerned
  <2>. QED  BY <2>6, <2>7
<1>7. CASE DialDeadline(s)
  <2>1. HandlerTo(s, Closed)
    BY <1>2, <1>7 DEF DialDeadline, Moves, HandlerTo, Unconcerned, Trying
  <2>. QED  BY <1>2, <2>1, ZenonT(40)
<1>. QED  BY <1>3, <1>4, <1>5, <1>6, <1>7

LEMMA RelayEffect ==
    ASSUME ConnInv, NEW s \in Sessions,
           Registers(s) \/ Carries(s) \/ (\E leg \in Legs : LegEnds(s, leg)) \/ Unregisters(s)
    PROVE  \E d \in SessionType : HandlerTo(s, d)
<1>. DEFINE c == conns[s]
            RelayType == [pc: {"relaying"}, backend: Backends, id: 1..MaxConns,
                          bytes: 0..MaxBytes, legs: SUBSET Legs, shut: BOOLEAN]
<1>1. c \in SessionType
  BY DEF ConnInv
<1>2. RelayType \subseteq SessionType /\ \A d \in RelayType : Trying(d)
  BY DEF SessionType, Trying
<1>3. CASE Registers(s)
  <2>1. c.pc = "dialed" /\ nextID < MaxConns
    BY <1>3, Zenon DEF Registers
  <2>2. c.backend \in Backends /\ nextID + 1 \in 1..MaxConns /\ 0 \in 0..MaxBytes
    BY <1>1, <2>1, SessionIs, BoundsAssumption DEF ConnInv
  <2>3. PICK d \in RelayType :
            d = [pc |-> "relaying", backend |-> c.backend, id |-> nextID + 1,
                 bytes |-> 0, legs |-> Legs, shut |-> FALSE]
    BY <2>2, Zenon
  <2>4. conns' = [conns EXCEPT ![s] = d] /\ nextID' = nextID + 1 /\ UNCHANGED meterVars
    BY <1>3, <2>3, Zenon DEF Registers, Moves
  <2>5. Gains(c, d)
    BY <2>1, <2>2, <2>3, <2>4 DEF Gains, ConnInv
  <2>. QED  BY <1>2, <2>4, <2>5, ZenonT(40) DEF HandlerTo
<1>4. CASE Carries(s)
  <2>1. /\ c.pc = "relaying" /\ c.bytes < MaxBytes /\ UNCHANGED <<nextID, meterVars>>
        /\ conns' = [conns EXCEPT ![s] = [c EXCEPT !.bytes = @ + 1]]
    BY <1>4 DEF Carries, Moves, Active
  <2>2. c \in RelayType
    BY <1>1, <2>1, SessionIs
  <2>3. PICK d \in RelayType : d = [c EXCEPT !.bytes = @ + 1]
    <3>1. c.bytes + 1 \in 0..MaxBytes
      BY <2>1, <2>2, BoundsAssumption
    <3>. QED  BY <2>2, <3>1, Zenon
  <2>4. Changes(c, d)
    BY <2>1, <2>2, <2>3 DEF Changes
  <2>. QED  BY <1>2, <2>1, <2>3, <2>4, Zenon DEF HandlerTo
<1>5. ASSUME NEW leg \in Legs, LegEnds(s, leg)
      PROVE  \E d \in SessionType : HandlerTo(s, d)
  <2>1. PICK shut \in BOOLEAN : shut = (c.shut \/ ~CloseWrite)
    BY Zenon
  <2>2. /\ c.pc = "relaying" /\ UNCHANGED <<nextID, meterVars>>
        /\ conns' = [conns EXCEPT ![s] = [c EXCEPT !.legs = @ \ {leg}, !.shut = shut]]
    BY <1>5, <2>1, Zenon DEF LegEnds, Moves, Active
  <2>3. c \in RelayType
    BY <1>1, <2>2, SessionIs
  <2>4. PICK d \in RelayType : d = [c EXCEPT !.legs = @ \ {leg}, !.shut = shut]
    BY <2>3, Zenon
  <2>5. Changes(c, d)
    BY <2>2, <2>3, <2>4 DEF Changes
  <2>. QED  BY <1>2, <2>2, <2>4, <2>5, Zenon DEF HandlerTo
<1>6. CASE Unregisters(s)
  <2>1. Closed \in SessionType /\ Closed.pc = "closed"
    BY Zenon DEF SessionType, Closed
  <2>2. Loses(c, Closed) /\ conns' = [conns EXCEPT ![s] = Closed]
    BY <1>6, <2>1 DEF Unregisters, Moves, Active, Loses
  <2>. QED  BY <2>1, <2>2, ZenonT(40) DEF HandlerTo, Trying
<1>. QED  BY <1>3, <1>4, <1>5, <1>6

LEMMA HandlerKeepsConns ==
    ASSUME ConnInv, NEW s \in Sessions, NEW d \in SessionType, HandlerTo(s, d)
    PROVE  ConnInv'
<1>1. /\ conns' = [conns EXCEPT ![s] = d] /\ Trying(d)
      /\ nextID' \in {nextID, nextID + 1} /\ nextID' \in 0..MaxConns
    BY DEF HandlerTo, Unconcerned, Gains, Changes, Loses, ConnInv
<1>2. conns' \in [Sessions -> SessionType] /\ \A t \in Sessions : Trying(conns'[t])
  BY <1>1, Zenon DEF ConnInv
<1>3. ASSUME d.pc = "relaying"
      PROVE  /\ d.id <= nextID'
             /\ \A t \in Sessions \ {s} : conns[t].pc = "relaying" => conns[t].id # d.id
  <2>1. CASE Gains(conns[s], d)
    <3>1. \A t \in Sessions : conns[t].pc = "relaying" => conns[t].id \in Nat
      BY SessionIs, BoundsAssumption DEF ConnInv
    <3>. QED  BY <2>1, <3>1 DEF Gains, ConnInv
  <2>2. CASE Changes(conns[s], d)
    BY <2>2 DEF Changes, ConnInv
  <2>. QED  BY <1>3, <2>1, <2>2 DEF HandlerTo, Unconcerned, Loses
<1>4. ASSUME NEW t \in Sessions, conns[t].pc = "relaying"
      PROVE  conns[t].id <= nextID'
  BY <1>1, <1>4, SessionIs, BoundsAssumption DEF ConnInv
<1>5. \A t \in Sessions : conns'[t] = IF t = s THEN d ELSE conns[t]
  BY <1>1 DEF ConnInv
<1>. QED  BY <1>1, <1>2, <1>3, <1>4, <1>5 DEF ConnInv

-----------------------------------------------------------------------------
(* Nothing is billed that was not carried: what is billed, in a tick, and  *)
(* still to be counted of the open connections.                            *)

LastType(last) ==
    DOMAIN last \subseteq 1..MaxConns /\ \A i \in DOMAIN last : last[i] \in 0..MaxBytes

TickType == [pc: {"idle", "publishing"}, deltas: [Backends -> Nat]]

Billable(b, cs, last, t, e, bl) ==
    bl[b] + t.deltas[b] + SumAll(DeltaOf(cs, last, b)) <= e[b] + SumAll(BytesOf(cs, b))

MeterInv ==
    /\ LastType(lastConn)
    /\ tick \in TickType /\ (tick.pc = "idle" => tick.deltas = NoBytes)
    /\ ended \in [Backends -> Nat] /\ billed \in [Backends -> Nat]
    /\ routingStats \in [Backends -> Nat]
    /\ \A b \in Backends : Billable(b, conns, lastConn, tick, ended, billed)

(* The sessions can be counted, now and in the next state.                 *)
LEMMA ConnsCountable ==
    ASSUME NEW cs \in [Sessions -> SessionType], NEW last, LastType(last)
    PROVE  Countable(cs, last)
<1>1. ASSUME NEW s \in Sessions, cs[s].pc = "relaying" PROVE cs[s].bytes \in Nat
  BY <1>1, SessionIs, BoundsAssumption
<1>. QED  BY <1>1, BoundsAssumption DEF Countable, LastType

LEMMA SumSpike ==
    ASSUME NEW s \in Sessions, NEW n \in Nat
    PROVE  SumAll([t \in Sessions |-> IF t = s THEN n ELSE 0]) = n
<1>. DEFINE f == [t \in Sessions |-> IF t = s THEN n ELSE 0]
<1>1. f[s] = n /\ (\A t \in Sessions : f[t] \in Nat) /\ (\A t \in Sessions \ {s} : f[t] = 0)
  OBVIOUS
<1>. HIDE DEF f
<1>2. SumFunctionOnSet(f, Sessions) = f[s] + SumFunctionOnSet(f, Sessions \ {s})
  BY <1>1, SumElement, SessionsAssumption
<1>3. SumFunctionOnSet(f, Sessions \ {s}) = 0
  BY <1>1, SumZero, FS_Subset, SessionsAssumption
<1>. QED  BY <1>1, <1>2, <1>3 DEF SumAll, f

(* Two functions that differ in one session.                               *)
LEMMA SumGrows ==
    ASSUME NEW f \in [Sessions -> Nat], NEW g \in [Sessions -> Nat],
           NEW s \in Sessions, NEW n \in Nat,
           \A t \in Sessions \ {s} : g[t] = f[t], g[s] = f[s] + n
    PROVE  SumAll(g) = SumAll(f) + n
<1>. DEFINE h == [t \in Sessions |-> IF t = s THEN n ELSE 0]
<1>1. \A t \in Sessions : f[t] \in Nat /\ h[t] \in Nat /\ g[t] = f[t] + h[t]
  OBVIOUS
<1>2. SumAll(h) = n
  BY SumSpike
<1>. HIDE DEF h
<1>. QED  BY <1>1, <1>2, SumPlus, SessionsAssumption DEF SumAll

LEMMA SumGrowsAtMost ==
    ASSUME NEW f \in [Sessions -> Nat], NEW g \in [Sessions -> Nat],
           NEW s \in Sessions, NEW n \in Nat,
           \A t \in Sessions \ {s} : g[t] = f[t], g[s] <= f[s] + n
    PROVE  SumAll(g) <= SumAll(f) + n
<1>. DEFINE h == [f EXCEPT ![s] = f[s] + n]
<1>1. h \in [Sessions -> Nat] /\ h[s] = f[s] + n /\ \A t \in Sessions \ {s} : h[t] = f[t]
  OBVIOUS
<1>. HIDE DEF h
<1>2. SumAll(h) = SumAll(f) + n
  BY <1>1, SumGrows
<1>3. \A t \in Sessions : g[t] \in Nat /\ h[t] \in Nat /\ g[t] <= h[t]
  BY <1>1
<1>4. SumAll(g) <= SumAll(h)
  BY <1>3, SumAtMost, SessionsAssumption DEF SumAll
<1>. QED  BY <1>2, <1>4

(* Bytes are carried by the connection that moves and stay carried when it *)
(* ends; no other step of a handler changes what was carried.              *)
LEMMA HandlerMeters ==
    ASSUME ConnInv, ConnInv', MeterInv,
           NEW s \in Sessions, NEW d \in SessionType, HandlerTo(s, d)
    PROVE  /\ MeterInv' /\ billed' = billed
           /\ \A b \in Backends : ended[b] + SumAll(BytesOf(conns, b)) <=
                                  ended'[b] + SumAll(BytesOf(conns', b))
<1>. DEFINE c == conns[s]
<1>1. /\ \A t \in Sessions : conns'[t] = IF t = s THEN d ELSE conns[t]
      /\ UNCHANGED <<lastConn, tick, billed, routingStats>>
  BY DEF HandlerTo, Unconcerned, Gains, Changes, Loses, ConnInv, meterVars
<1>2. LastType(lastConn)
  BY DEF MeterInv
<1>3. Countable(conns, lastConn) /\ Countable(conns', lastConn)
  BY <1>2, ConnsCountable DEF ConnInv
<1>4. c.pc = "relaying" => c.bytes \in Nat /\ c.backend \in Backends
  BY SessionIs, BoundsAssumption DEF ConnInv
<1>5. ended \in [Backends -> Nat] /\ tick.deltas \in [Backends -> Nat] /\ billed \in [Backends -> Nat]
  BY Zenon DEF MeterInv, TickType
<1>6. ended' \in [Backends -> Nat]
  BY <1>4, <1>5, SMTT(30) DEF HandlerTo, Unconcerned, Gains, Changes, Loses, meterVars
<1>7. ASSUME NEW b \in Backends
      PROVE  /\ Billable(b, conns', lastConn, tick, ended', billed)
             /\ ended[b] + SumAll(BytesOf(conns, b)) <= ended'[b] + SumAll(BytesOf(conns', b))
  <2>. DEFINE B == BytesOf(conns, b)
              C == BytesOf(conns', b)
              D == DeltaOf(conns, lastConn, b)
              E == DeltaOf(conns', lastConn, b)
  <2>1. /\ B \in [Sessions -> Nat] /\ SumAll(B) \in Nat /\ D \in [Sessions -> Nat] /\ SumAll(D) \in Nat
        /\ C \in [Sessions -> Nat] /\ SumAll(C) \in Nat /\ E \in [Sessions -> Nat] /\ SumAll(E) \in Nat
    BY <1>3, CountedTypes, Zenon
  <2>2. \A t \in Sessions \ {s} : C[t] = B[t] /\ E[t] = D[t]
    BY <1>1, Zenon DEF BytesOf, DeltaOf
  <2>3. /\ B[s] = IF On(c, b) THEN c.bytes ELSE 0
        /\ C[s] = IF On(d, b) THEN d.bytes ELSE 0
        /\ D[s] = IF On(c, b) THEN DeltaIn(c, lastConn) ELSE 0
        /\ E[s] = IF On(d, b) THEN DeltaIn(d, lastConn) ELSE 0
    BY <1>1, Zenon DEF BytesOf, DeltaOf
  <2>4. /\ ended[b] \in Nat /\ ended'[b] \in Nat /\ billed[b] \in Nat /\ tick.deltas[b] \in Nat
        /\ billed[b] + tick.deltas[b] + SumAll(D) <= ended[b] + SumAll(B)
    BY <1>5, <1>6, Zenon DEF MeterInv, Billable
  <2>. SUFFICES /\ billed[b] + tick.deltas[b] + SumAll(E) <= ended'[b] + SumAll(C)
                /\ ended[b] + SumAll(B) <= ended'[b] + SumAll(C)
    BY Zenon DEF Billable
  <2>. HIDE DEF B, C, D, E
  <2>5. CASE Loses(c, d)
    <3>. DEFINE n == IF On(c, b) THEN c.bytes ELSE 0
    <3>1. n \in Nat /\ B[s] = C[s] + n /\ E[s] <= D[s] + 0 /\ ended'[b] = ended[b] + n
      BY <1>4, <1>5, <2>1, <2>3, <2>5, SMTT(30) DEF Loses, On
    <3>. HIDE DEF n
    <3>2. SumAll(B) = SumAll(C) + n
      BY <2>1, <2>2, <3>1, SumGrows, Zenon
    <3>3. SumAll(E) <= SumAll(D) + 0
      BY <2>1, <2>2, <3>1, SumGrowsAtMost, Zenon
    <3>. QED  BY <2>1, <2>4, <3>1, <3>2, <3>3, SMTT(30)
  <2>6. CASE Unconcerned(c, d) \/ Gains(c, d) \/ Changes(c, d)
    <3>1. ended' = ended
      BY <2>6, Zenon DEF Unconcerned, Gains, Changes, meterVars
    <3>2. PICK n \in Nat : C[s] = B[s] + n /\ E[s] <= D[s] + n
      <4>1. CASE Unconcerned(c, d)
        BY <2>3, <4>1 DEF Unconcerned, On
      <4>2. CASE Gains(c, d)
        <5>1. C[s] = 0 /\ B[s] = 0 /\ D[s] = 0
          BY <2>3, <4>2, Zenon DEF Gains, On
        <5>2. E[s] = 0
          BY <1>2, <2>3, <4>2, BoundsAssumption, SMTT(30) DEF Gains, DeltaIn, LastType
        <5>. QED  BY <5>1, <5>2, SMTT(30)
      <4>3. CASE Changes(c, d)
        <5>1. /\ c.bytes \in Nat /\ c.backend \in Backends /\ d.id = c.id
              /\ d.bytes \in {c.bytes, c.bytes + 1} /\ (On(d, b) <=> On(c, b))
          BY <1>4, <4>3, Zenon DEF Changes, On
        <5>2. DeltaIn(d, lastConn) <= DeltaIn(c, lastConn) + (d.bytes - c.bytes)
          BY <1>2, <5>1, BoundsAssumption DEF DeltaIn, LastType
        <5>3. d.bytes - c.bytes \in Nat
          BY <5>1, SMTT(30)
        <5>4. CASE On(c, b)
          BY <2>3, <5>1, <5>2, <5>3, <5>4, SMTT(30)
        <5>5. CASE ~On(c, b)
          BY <2>3, <5>1, <5>5
        <5>. QED  BY <5>4, <5>5, Zenon
      <4>. QED  BY <2>6, <4>1, <4>2, <4>3, Zenon
    <3>3. SumAll(C) = SumAll(B) + n
      BY <2>1, <2>2, <3>2, SumGrows
    <3>4. SumAll(E) <= SumAll(D) + n
      BY <2>1, <2>2, <3>2, SumGrowsAtMost, ZenonT(40)
    <3>. QED  BY <2>1, <2>4, <3>1, <3>3, <3>4, SMTT(30)
  <2>. QED  BY <2>5, <2>6 DEF HandlerTo
<1>. QED  BY <1>1, <1>2, <1>6, <1>7, Zenon DEF MeterInv

LEMMA SumAllZero ==
    ASSUME NEW f, \A s \in Sessions : f[s] = 0
    PROVE  SumAll(f) = 0
BY SumZero, SessionsAssumption DEF SumAll

(* A tick counts every connection it sees up to where it is.               *)
LEMMA TickCounts ==
    ASSUME ConnInv, MeterInv, TickReads
    PROVE  /\ LastType(lastConn')
           /\ \A b \in Backends : SumAll(DeltaOf(conns, lastConn', b)) = 0
<1>. DEFINE At(i) == CHOOSE s \in Active : conns[s].id = i
            Ids == {conns[s].id : s \in Active}
<1>1. lastConn' = [i \in Ids |-> conns[At(i)].bytes]
  BY DEF TickReads
<1>2. \A s \in Active : conns[s].id \in 1..MaxConns /\ conns[s].bytes \in 0..MaxBytes
  BY SessionIs DEF ConnInv, Active
<1>3. \A i \in Ids : At(i) \in Active /\ conns[At(i)].id = i
  BY Zenon
<1>4. \A s \in Active : At(conns[s].id) = s
  BY <1>3 DEF ConnInv, Active
<1>. HIDE DEF At
<1>5. LastType(lastConn')
  BY <1>1, <1>2, <1>3 DEF LastType
<1>6. \A s \in Active : conns[s].id \in DOMAIN lastConn' /\ lastConn'[conns[s].id] = conns[s].bytes
  BY <1>1, <1>4
<1>7. \A s \in Active : DeltaIn(conns[s], lastConn') = 0
  BY <1>2, <1>6, BoundsAssumption DEF DeltaIn
<1>8. ASSUME NEW b \in Backends
      PROVE  SumAll(DeltaOf(conns, lastConn', b)) = 0
  <2>1. \A s \in Sessions : DeltaOf(conns, lastConn', b)[s] = 0
    BY <1>7, Zenon DEF DeltaOf, On, Active
  <2>. QED  BY <2>1, SumAllZero
<1>. QED  BY <1>5, <1>8

LEMMA PublisherMeters ==
    ASSUME ConnInv, MeterInv, PublisherStep
    PROVE  /\ ConnInv' /\ MeterInv' /\ conns' = conns /\ ended' = ended
           /\ \/ billed' = billed
              \/ \A b \in Backends :
                     billed'[b] \in billed[b]..(ended[b] + SumAll(BytesOf(conns, b)))
<1>1. conns' = conns /\ nextID' = nextID /\ ended' = ended
  BY DEF PublisherStep, TickReads, TickPublishes, TickPublishFails, PublisherRestarts, StatsTick
<1>2. ConnInv'
  BY <1>1 DEF ConnInv
<1>3. Countable(conns, lastConn)
  BY ConnsCountable DEF ConnInv, MeterInv
<1>4. /\ NoBytes \in [Backends -> Nat] /\ \A b \in Backends : NoBytes[b] = 0
  BY DEF NoBytes
<1>5. \A b \in Backends :
          /\ SumAll(BytesOf(conns, b)) \in Nat /\ SumAll(DeltaOf(conns, lastConn, b)) \in Nat
          /\ ended[b] \in Nat /\ billed[b] \in Nat /\ tick.deltas[b] \in Nat
  BY <1>3, CountedTypes, Zenon DEF MeterInv, TickType
<1>6. CASE TickReads
  <2>1. /\ tick.pc = "idle" /\ UNCHANGED <<billed, routingStats>>
    BY <1>6 DEF TickReads
  <2>2. LastType(lastConn') /\ \A b \in Backends : SumAll(DeltaOf(conns, lastConn', b)) = 0
    BY <1>6, TickCounts, Zenon
  <2>3. \A b \in Backends : DeltaOn(b) = SumAll(DeltaOf(conns, lastConn, b))
    BY <1>3, CountedSums, ZenonT(40) DEF DeltaOn, ActiveOn, Active, Delta, DeltaIn
  <2>4. \/ tick' = tick
        \/ tick' = [pc |-> "publishing", deltas |-> [b \in Backends |-> DeltaOn(b)]]
    BY <1>6, Zenon DEF TickReads
  <2>5. /\ tick' \in TickType /\ (tick'.pc = "idle" => tick'.deltas = NoBytes)
        /\ \A b \in Backends : tick'.deltas[b] <= SumAll(DeltaOf(conns, lastConn, b))
    <3>1. CASE tick' = tick
      BY <1>4, <1>5, <2>1, <3>1, SMTT(30) DEF MeterInv
    <3>2. CASE tick' = [pc |-> "publishing", deltas |-> [b \in Backends |-> DeltaOn(b)]]
      BY <1>5, <2>3, <3>2, SMTT(30) DEF TickType
    <3>. QED  BY <2>4, <3>1, <3>2
  <2>6. ASSUME NEW b \in Backends
        PROVE  Billable(b, conns, lastConn', tick', ended, billed)
    <3>1. billed[b] + tick.deltas[b] + SumAll(DeltaOf(conns, lastConn, b)) <=
              ended[b] + SumAll(BytesOf(conns, b))
      BY DEF MeterInv, Billable
    <3>2. tick.deltas[b] = 0 /\ tick'.deltas[b] \in Nat
      BY <1>4, <2>1, <2>5 DEF MeterInv, TickType
    <3>3. SumAll(DeltaOf(conns, lastConn', b)) = 0
      BY <2>2, Zenon
    <3>. QED  BY <1>5, <2>5, <3>1, <3>2, <3>3, SMTT(30) DEF Billable
  <2>. QED  BY <1>1, <1>2, <2>1, <2>2, <2>5, <2>6, Zenon DEF MeterInv
<1>7. CASE TickPublishes
  <2>1. /\ billed' = [b \in Backends |-> billed[b] + tick.deltas[b]]
        /\ tick' = [pc |-> "idle", deltas |-> NoBytes] /\ UNCHANGED <<lastConn, routingStats>>
    BY <1>7, Zenon DEF TickPublishes, TickOver
  <2>2. tick' \in TickType /\ tick'.deltas = NoBytes /\ billed' \in [Backends -> Nat]
    BY <1>4, <1>5, <2>1, SMTT(30) DEF TickType
  <2>3. ASSUME NEW b \in Backends
        PROVE  /\ Billable(b, conns, lastConn, tick', ended, billed')
               /\ billed'[b] \in billed[b]..(ended[b] + SumAll(BytesOf(conns, b)))
    <3>1. billed[b] + tick.deltas[b] + SumAll(DeltaOf(conns, lastConn, b)) <=
              ended[b] + SumAll(BytesOf(conns, b))
      BY DEF MeterInv, Billable
    <3>2. tick'.deltas[b] = 0 /\ billed'[b] = billed[b] + tick.deltas[b]
      BY <1>4, <2>1, <2>2, Zenon
    <3>. QED  BY <1>5, <3>1, <3>2, SMTT(30) DEF Billable
  <2>. QED  BY <1>1, <1>2, <2>1, <2>2, <2>3, Zenon DEF MeterInv
<1>8. CASE TickPublishFails \/ PublisherRestarts
  <2>1. /\ tick' = [pc |-> "idle", deltas |-> NoBytes] /\ UNCHANGED <<billed, routingStats>>
        /\ lastConn' = lastConn \/ lastConn' = <<>>
    BY <1>8 DEF TickPublishFails, PublisherRestarts, TickOver
  <2>2. tick' \in TickType /\ tick'.deltas = NoBytes
    BY <1>4, <2>1 DEF TickType
  <2>3. LastType(lastConn')
    BY <2>1 DEF LastType, MeterInv
  <2>4. ASSUME NEW b \in Backends
        PROVE  Billable(b, conns, lastConn', tick', ended, billed)
    <3>1. billed[b] + tick.deltas[b] + SumAll(DeltaOf(conns, lastConn, b)) <=
              ended[b] + SumAll(BytesOf(conns, b))
      BY DEF MeterInv, Billable
    <3>2. tick'.deltas[b] = 0
      BY <1>4, <2>2, Zenon
    <3>3. CASE lastConn' = lastConn
      BY <1>5, <3>1, <3>2, <3>3, SMTT(30) DEF Billable
    <3>4. CASE lastConn' = <<>>
      <4>1. \A s \in Sessions : DeltaOf(conns, <<>>, b)[s] = 0
        BY DEF DeltaOf, DeltaIn
      <4>2. SumAll(DeltaOf(conns, lastConn', b)) = 0
        BY <3>4, <4>1, SumAllZero, Zenon
      <4>. QED  BY <1>5, <3>1, <3>2, <4>2 DEF Billable
    <3>. QED  BY <2>1, <3>3, <3>4
  <2>. QED  BY <1>1, <1>2, <2>1, <2>2, <2>3, <2>4 DEF MeterInv
<1>9. CASE StatsTick
  <2>1. \A b \in Backends : Cardinality(ActiveOn(b)) \in Nat
    BY SessionsAssumption, FS_Subset, FS_CardinalityType DEF ActiveOn, Active
  <2>2. UNCHANGED <<lastConn, tick, billed>> /\ routingStats' \in [Backends -> Nat]
    BY <1>9, <2>1 DEF StatsTick
  <2>. QED  BY <1>1, <1>2, <2>2 DEF MeterInv
<1>. QED  BY <1>6, <1>7, <1>8, <1>9, Zenon DEF PublisherStep

(* Connections that die with the proxy keep what they carried.             *)
LEMMA RestartMeters ==
    ASSUME ConnInv, MeterInv, ProxyProcessRestarts
    PROVE  /\ ConnInv' /\ MeterInv' /\ billed' = billed
           /\ \A b \in Backends : ended[b] + SumAll(BytesOf(conns, b)) <=
                                  ended'[b] + SumAll(BytesOf(conns', b))
<1>1. /\ conns' = [s \in Sessions |-> Closed] /\ nextID' = 0
      /\ ended' = [b \in Backends |-> ended[b] + BytesOn(b)]
      /\ UNCHANGED <<lastConn, tick, billed, routingStats>>
  BY DEF ProxyProcessRestarts
<1>2. Closed \in SessionType /\ Closed.pc = "closed"
  BY Zenon DEF SessionType, Closed
<1>3. ConnInv'
  BY <1>1, <1>2, BoundsAssumption, SMTT(30) DEF ConnInv, Trying
<1>4. Countable(conns, lastConn)
  BY ConnsCountable DEF ConnInv, MeterInv
<1>5. \A b \in Backends : BytesOn(b) = SumAll(BytesOf(conns, b))
  BY <1>4, CountedSums, ZenonT(40) DEF BytesOn, ActiveOn, Active
<1>6. \A b \in Backends :
          /\ SumAll(BytesOf(conns, b)) \in Nat /\ SumAll(DeltaOf(conns, lastConn, b)) \in Nat
          /\ ended[b] \in Nat /\ billed[b] \in Nat /\ tick.deltas[b] \in Nat
  BY <1>4, CountedTypes DEF MeterInv, TickType
<1>7. ASSUME NEW b \in Backends
      PROVE  SumAll(BytesOf(conns', b)) = 0 /\ SumAll(DeltaOf(conns', lastConn, b)) = 0
  <2>1. \A s \in Sessions : BytesOf(conns', b)[s] = 0 /\ DeltaOf(conns', lastConn, b)[s] = 0
    BY <1>1, <1>2 DEF BytesOf, DeltaOf, On
  <2>. QED  BY <2>1, SumAllZero
<1>8. ended' \in [Backends -> Nat]
  BY <1>1, <1>5, <1>6, SMTT(30)
<1>9. ASSUME NEW b \in Backends
      PROVE  /\ Billable(b, conns', lastConn, tick, ended', billed)
             /\ ended[b] + SumAll(BytesOf(conns, b)) <= ended'[b] + SumAll(BytesOf(conns', b))
  <2>1. billed[b] + tick.deltas[b] + SumAll(DeltaOf(conns, lastConn, b)) <=
            ended[b] + SumAll(BytesOf(conns, b))
    BY DEF MeterInv, Billable
  <2>2. ended'[b] = ended[b] + SumAll(BytesOf(conns, b))
    BY <1>1, <1>5
  <2>. QED  BY <1>6, <1>7, <2>1, <2>2 DEF Billable
<1>. QED  BY <1>1, <1>3, <1>8, <1>9 DEF MeterInv

EntryInv == ProxyTypeOK /\ ConnInv /\ MeterInv

(* Every step carries bytes, bills some that were carried, or does neither.*)
LEMMA EntryStep ==
    ASSUME EntryInv, [TrafficNext]_<<proxyVars, trafficVars>>
    PROVE  /\ EntryInv'
           /\ \/ /\ billed' = billed
                 /\ \A b \in Backends : ended[b] + SumAll(BytesOf(conns, b)) <=
                                        ended'[b] + SumAll(BytesOf(conns', b))
              \/ /\ conns' = conns /\ ended' = ended
                 /\ \A b \in Backends :
                        billed'[b] \in billed[b]..(ended[b] + SumAll(BytesOf(conns, b)))
<1>. USE DEF EntryInv
<1>1. \A b \in Backends : ended[b] + SumAll(BytesOf(conns, b)) \in Nat
  BY ConnsCountable, CountedTypes, SMTT(30) DEF ConnInv, MeterInv
<1>2. CASE UNCHANGED <<proxyVars, trafficVars>>
  BY <1>1, <1>2, SMTT(30) DEF proxyVars, trafficVars, meterVars, ProxyTypeOK, ConnInv, MeterInv
<1>3. CASE ControlCall
  <2>1. UNCHANGED trafficVars
    BY <1>3 DEF ControlCall
  <2>2. ProxyTypeOK'
    BY <1>3, Zenon
       DEF ControlCall, ProxyTypeOK, AddUser, RemoveUser, SetUserBackends, SelectBackend,
                SetBackends
  <2>. QED  BY <1>1, <2>1, <2>2 DEF trafficVars, meterVars, ConnInv, MeterInv
<1>4. ASSUME NEW s \in Sessions, HandlerStep(s)
      PROVE  /\ EntryInv' /\ billed' = billed
             /\ \A b \in Backends : ended[b] + SumAll(BytesOf(conns, b)) <=
                                    ended'[b] + SumAll(BytesOf(conns', b))
  <2>1. UNCHANGED proxyVars
    BY <1>4, ZenonT(40)
       DEF HandlerStep, Admitted, PicksBackends, DialWorks, DialFails, DialDeadline,
                Registers, Carries, LegEnds, Unregisters
  <2>2. PICK d \in SessionType : HandlerTo(s, d)
    BY <1>4, DialEffect, RelayEffect DEF HandlerStep
  <2>3. ConnInv'
    BY <2>2, HandlerKeepsConns, Zenon
  <2>4. /\ MeterInv' /\ billed' = billed
        /\ \A b \in Backends : ended[b] + SumAll(BytesOf(conns, b)) <=
                               ended'[b] + SumAll(BytesOf(conns', b))
    BY <2>2, <2>3, HandlerMeters
  <2>. QED  BY <2>1, <2>3, <2>4 DEF proxyVars, ProxyTypeOK
<1>5. CASE \E b \in Backends : CoolsDown(b)
  BY <1>1, <1>5, SMTT(30) DEF CoolsDown, proxyVars, meterVars, ProxyTypeOK, ConnInv, MeterInv
<1>6. CASE PublisherStep
  <2>1. UNCHANGED proxyVars
    BY <1>6 DEF PublisherStep, TickReads, TickPublishes, TickPublishFails, PublisherRestarts,
                StatsTick
  <2>2. ProxyTypeOK'
    BY <2>1, Zenon DEF proxyVars, ProxyTypeOK
  <2>3. /\ ConnInv' /\ MeterInv' /\ conns' = conns /\ ended' = ended
        /\ \/ billed' = billed
           \/ \A b \in Backends :
                  billed'[b] \in billed[b]..(ended[b] + SumAll(BytesOf(conns, b)))
    BY <1>6, PublisherMeters, ZenonT(40)
  <2>. QED  BY <1>1, <2>2, <2>3, SMTT(30)
<1>7. CASE ProxyProcessRestarts
  <2>1. ProxyTypeOK'
    BY <1>7, MaxEpochAssumption DEF ProxyProcessRestarts, ProxyRestarts, ProxyTypeOK, NoRoutes
  <2>. QED  BY <1>7, <2>1, RestartMeters
<1>. QED  BY <1>2, <1>3, <1>4, <1>5, <1>6, <1>7, ZenonT(40) DEF TrafficNext

LEMMA EntryStart ==
    ASSUME TrafficInit
    PROVE  /\ EntryInv
           /\ \A b \in Backends : SumAll(BytesOf(conns, b)) = 0
<1>1. Closed \in SessionType /\ Closed.pc = "closed"
  BY Zenon DEF SessionType, Closed
<1>2. ConnInv
  BY <1>1, BoundsAssumption DEF TrafficInit, ConnInv, Trying
<1>3. ProxyTypeOK
  BY MaxEpochAssumption DEF TrafficInit, ProxyInit, ProxyTypeOK, NoRoutes
<1>4. ASSUME NEW b \in Backends
      PROVE  SumAll(BytesOf(conns, b)) = 0 /\ SumAll(DeltaOf(conns, lastConn, b)) = 0
  <2>1. \A s \in Sessions : BytesOf(conns, b)[s] = 0 /\ DeltaOf(conns, lastConn, b)[s] = 0
    BY <1>1 DEF TrafficInit, BytesOf, DeltaOf, On
  <2>. QED  BY <2>1, SumAllZero
<1>5. LastType(lastConn)
  BY DEF TrafficInit, LastType
<1>6. MeterInv
  BY <1>4, <1>5 DEF TrafficInit, MeterInv, TickType, NoBytes, Billable
<1>. QED  BY <1>2, <1>3, <1>4, <1>6 DEF EntryInv

LEMMA CarriedIs ==
    ASSUME NEW cs \in [Sessions -> SessionType], NEW last, LastType(last), NEW b
    PROVE  LET on == {s \in {t \in Sessions : cs[t].pc = "relaying"} : cs[s].backend = b} IN
           SumFunction([s \in on |-> cs[s].bytes]) = SumAll(BytesOf(cs, b))
BY ConnsCountable, CountedSums, Zenon

(* The entry publisher implements the abstract meter: per backend, what it *)
(* publishes was carried and is published once, for any connections,       *)
(* restarts and lost publishes (tick, publisher.go).                       *)
THEOREM EntryIsMetered == TrafficSpec => EntryTrafficMetered
<1>1. TrafficInit => EntryInv /\ Meter!Init
  <2>. SUFFICES ASSUME TrafficInit PROVE EntryInv /\ Meter!Init
    OBVIOUS
  <2>1. EntryInv /\ \A b \in Backends : SumAll(BytesOf(conns, b)) = 0
    BY EntryStart, Zenon
  <2>2. \A b \in Backends : BytesOn(b) = SumAll(BytesOf(conns, b))
    BY <2>1, CarriedIs, Zenon DEF EntryInv, ConnInv, MeterInv, BytesOn, ActiveOn, Active
  <2>. QED  BY <2>1, <2>2 DEF TrafficInit, Meter!Init, Carried, NoBytes
<1>2. EntryInv /\ [TrafficNext]_<<proxyVars, trafficVars>> => EntryInv'
  BY EntryStep, Zenon
<1>3. EntryInv /\ [TrafficNext]_<<proxyVars, trafficVars>> => [Meter!Next]_<<Carried, billed>>
  <2>. SUFFICES ASSUME EntryInv, [TrafficNext]_<<proxyVars, trafficVars>>
                PROVE  [Meter!Next]_<<Carried, billed>>
    BY Zenon
  <2>1. EntryInv'
    BY EntryStep, Zenon
  <2>2. \A b \in Backends : Carried[b] = ended[b] + SumAll(BytesOf(conns, b))
    BY CarriedIs, Zenon DEF EntryInv, ConnInv, MeterInv, Carried, BytesOn, ActiveOn, Active
  <2>3. \A b \in Backends : Carried'[b] = ended'[b] + SumAll(BytesOf(conns', b))
    BY <2>1, CarriedIs, SMTT(30) DEF EntryInv, ConnInv, MeterInv, Carried, BytesOn, ActiveOn, Active
  <2>4. \A b \in Backends : Carried[b] \in Nat /\ Carried'[b] \in Nat
    <3>1. Countable(conns, lastConn) /\ Countable(conns', lastConn')
      BY <2>1, ConnsCountable DEF EntryInv, ConnInv, MeterInv
    <3>2. \A b \in Backends : SumAll(BytesOf(conns, b)) \in Nat /\ SumAll(BytesOf(conns', b)) \in Nat
      BY <3>1, CountedTypes, Zenon
    <3>3. \A b \in Backends : ended[b] \in Nat /\ ended'[b] \in Nat
      BY <2>1 DEF EntryInv, MeterInv
    <3>. QED  BY <2>2, <2>3, <3>2, <3>3
  <2>5. CASE /\ billed' = billed
             /\ \A b \in Backends : ended[b] + SumAll(BytesOf(conns, b)) <=
                                    ended'[b] + SumAll(BytesOf(conns', b))
    BY <2>2, <2>3, <2>4, <2>5 DEF Meter!Next, Meter!Carries
  <2>6. CASE /\ conns' = conns /\ ended' = ended
             /\ \A b \in Backends :
                    billed'[b] \in billed[b]..(ended[b] + SumAll(BytesOf(conns, b)))
    <3>1. Carried' = Carried
      BY <2>6 DEF Carried, BytesOn, ActiveOn, Active
    <3>. QED  BY <2>2, <2>6, <3>1, Zenon DEF Meter!Next, Meter!Bills
  <2>. QED  BY <2>5, <2>6, EntryStep
<1>. QED  BY <1>1, <1>2, <1>3, PTL DEF TrafficSpec, EntryTrafficMetered, Meter!Spec

HealthType == [fails: 0..backendFailThreshold, cooling: BOOLEAN]

LEMMA HealthyIs == Healthy \in HealthType
<1>1. PICK no \in BOOLEAN : no = FALSE
  BY Zenon
<1>2. [fails |-> 0, cooling |-> no] \in HealthType
  BY DEF HealthType, backendFailThreshold
<1>. QED  BY <1>1, <1>2, Zenon DEF Healthy

LEMMA HealthStep ==
    ASSUME health \in [Backends -> HealthType], [TrafficNext]_<<proxyVars, trafficVars>>
    PROVE  health' \in [Backends -> HealthType]
<1>1. Healthy \in HealthType
  BY HealthyIs
<1>2. ASSUME NEW b PROVE markBackendSuccess(b) => health' \in [Backends -> HealthType]
  BY <1>1, Zenon DEF markBackendSuccess
<1>3. ASSUME NEW b, markBackendFailure(b) PROVE health' \in [Backends -> HealthType]
  <2>. SUFFICES ASSUME b \in Backends PROVE health' \in [Backends -> HealthType]
    BY <1>3, Zenon DEF markBackendFailure
  <2>. DEFINE fails == IF health[b].fails < backendFailThreshold
                       THEN health[b].fails + 1 ELSE backendFailThreshold
  <2>1. fails \in 0..backendFailThreshold
    BY DEF HealthType, backendFailThreshold
  <2>2. PICK cooling \in BOOLEAN :
            cooling = (health[b].cooling \/ fails = backendFailThreshold)
    BY Zenon
  <2>3. health' = [health EXCEPT ![b] = [fails |-> fails, cooling |-> cooling]]
    BY <1>3, <2>2, Zenon DEF markBackendFailure
  <2>. HIDE DEF fails
  <2>. QED  BY <2>1, <2>3 DEF HealthType
<1>4. CASE ProxyProcessRestarts
  BY <1>1, <1>4 DEF ProxyProcessRestarts
<1>5. ASSUME NEW b \in Backends, CoolsDown(b) PROVE health' \in [Backends -> HealthType]
  <2>1. PICK no \in BOOLEAN : no = FALSE
    BY Zenon
  <2>2. health' = [health EXCEPT ![b].cooling = no]
    BY <1>5, <2>1, Zenon DEF CoolsDown
  <2>. QED  BY <2>2 DEF HealthType
<1>6. ASSUME NEW s \in Sessions, HandlerStep(s) PROVE health' \in [Backends -> HealthType]
  BY <1>2, <1>3, <1>6, Zenon DEF HandlerStep, Admitted, PicksBackends, DialWorks, DialFails,
                          DialDeadline, Registers, Carries, LegEnds, Unregisters
<1>7. CASE ControlCall \/ PublisherStep \/ UNCHANGED <<proxyVars, trafficVars>>
  BY <1>7, Zenon DEF ControlCall, PublisherStep, TickReads, TickPublishes, TickPublishFails,
              PublisherRestarts, StatsTick, trafficVars
<1>. QED  BY <1>4, <1>5, <1>6, <1>7 DEF TrafficNext

(* The entry's data plane keeps its types: connection IDs and counters     *)
(* stay within their bounds, a dial always has a backend to try.           *)
THEOREM TrafficTypes == TrafficSpec => []TrafficTypeOK
<1>. DEFINE TInv == EntryInv /\ health \in [Backends -> HealthType]
<1>1. TrafficInit => TInv
  <2>2. TrafficInit => health \in [Backends -> HealthType]
    BY HealthyIs, Zenon DEF TrafficInit
  <2>. QED  BY <2>2, EntryStart
<1>2. TInv /\ [TrafficNext]_<<proxyVars, trafficVars>> => TInv'
  BY EntryStep, HealthStep, Zenon
<1>3. TInv => TrafficTypeOK
  <2>. SUFFICES ASSUME TInv PROVE TrafficTypeOK
    OBVIOUS
  <2>1. health \in [Backends -> [fails: 0..backendFailThreshold, cooling: BOOLEAN]]
    BY DEF HealthType
  <2>2. /\ ProxyTypeOK /\ \A s \in Sessions : conns[s] \in SessionType
        /\ nextID \in 0..MaxConns
        /\ DOMAIN lastConn \subseteq 1..MaxConns
        /\ \A i \in DOMAIN lastConn : lastConn[i] \in 0..MaxBytes
    BY DEF EntryInv, ConnInv, MeterInv, LastType
  <2>3. \A b \in Backends : {tick.deltas[b], ended[b], billed[b], routingStats[b]} \subseteq Nat
    BY DEF EntryInv, MeterInv, TickType
  <2>. QED  BY <2>1, <2>2, <2>3 DEF TrafficTypeOK
<1>. QED  BY <1>1, <1>2, <1>3, PTL DEF TrafficSpec
=============================================================================
