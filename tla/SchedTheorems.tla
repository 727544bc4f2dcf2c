---------------------------- MODULE SchedTheorems ----------------------------
(***************************************************************************)
(* What the operators of module Sched return, for every number of          *)
(* descriptors and whatever the reasons for waiting are.                   *)
(***************************************************************************)
EXTENDS Sched, FiniteSetTheorems, WellFoundedInduction, TLAPS

(* A non-empty set of naturals has a least element.                        *)
LEMMA NatMinimum ==
  ASSUME NEW T, T \subseteq Nat, T # {}
  PROVE  \E x \in T : \A y \in T : x <= y
  <1> DEFINE R == OpToRel(<, Nat)
  <1>1. IsWellFoundedOn(R, Nat)
    BY NatLessThanWellFounded
  <1> HIDE DEF R
  <1>2. \E x \in T : \A y \in T : ~ (<<y, x>> \in R)
    BY <1>1, WFMin
  <1>3. R = {ss \in Nat \X Nat : ss[1] < ss[2]}
    BY Zenon DEF R, OpToRel
  <1>4. \A x, y \in Nat : y < x => <<y, x>> \in R
    BY <1>3
  <1>5. PICK x \in T : \A y \in T : ~ (<<y, x>> \in R)
    BY <1>2
  <1>6. ASSUME NEW y \in T PROVE x <= y
    <2>1. x \in Nat /\ y \in Nat
      OBVIOUS
    <2>2. ~ (y < x)
      BY <1>4, <1>5, <2>1
    <2>3. QED
      BY <2>1, <2>2
  <1>7. QED
    BY <1>6

(* The scan of pnext() answers a candidate, or the process it started from.*)
LEMMA RoundRobinIn ==
  ASSUME NEW S \in SUBSET Procs, NEW i \in Procs
  PROVE  RoundRobin(S, i) \in S \cup {i}
  BY DEF RoundRobin

(* With a candidate other than i the scan does not answer i: pnextany()    *)
(* never lets a dying process succeed itself.                              *)
LEMMA RoundRobinOther ==
  ASSUME NEW S \in SUBSET Procs, NEW i \in Procs, NEW k \in S, k # i
  PROVE  RoundRobin(S, i) \in S \ {i}
  <1>1. \A j \in S : Distance(i, j) \in Nat
    BY NPAssumption DEF Procs, Distance
  <1> DEFINE T == {Distance(i, j) : j \in S}
  <1>2. \E x \in T : \A y \in T : x <= y
    <2>1. T \subseteq Nat /\ T # {}
      BY <1>1
    <2> HIDE DEF T
    <2>2. QED BY <2>1, NatMinimum
  <1>3. \E j \in S : Nearest(S, i, j)
    BY <1>2 DEF Nearest
  <1>4. RoundRobin(S, i) \in S /\ Nearest(S, i, RoundRobin(S, i))
    BY <1>3 DEF RoundRobin
  <1>5. Distance(i, k) < Distance(i, i)
    BY NPAssumption DEF Procs, Distance
  <1>6. RoundRobin(S, i) # i
    <2>1. Distance(i, RoundRobin(S, i)) <= Distance(i, k)
      BY <1>4 DEF Nearest
    <2>2. Distance(i, k) \in Int /\ Distance(i, i) \in Int
      BY NPAssumption DEF Procs, Distance
    <2>3. QED BY <2>1, <2>2, <1>5
  <1>7. QED BY <1>4, <1>6

(* The descriptors are finitely many.                                      *)
LEMMA ProcsFinite ==
  /\ IsFiniteSet(Procs)
  /\ \A S \in SUBSET Procs : IsFiniteSet(S) /\ Cardinality(S) \in Nat
  <1>1. IsFiniteSet(Procs)
    BY NPAssumption, FS_Interval DEF Procs
  <1>2. QED
    BY <1>1, FS_Subset, FS_CardinalityType

(* Two live processes make pnlive at least 2.                              *)
LEMMA TwoLive ==
  ASSUME NEW p \in Live, NEW q \in Live, p # q
  PROVE  pnlive >= 2
  <1>1. Live \in SUBSET Procs /\ {p, q} \in SUBSET Live
    BY DEF Live
  <1>2. Cardinality({p, q}) = 2
    <2>1. IsFiniteSet({p}) /\ Cardinality({p}) = 1
      BY FS_Singleton
    <2>2. Cardinality({p} \cup {q}) = 2
      BY <2>1, FS_AddElement
    <2>3. {p} \cup {q} = {p, q}
      OBVIOUS
    <2>4. QED BY <2>2, <2>3
  <1>3. IsFiniteSet(Live) /\ Cardinality(Live) \in Nat
    BY <1>1, ProcsFinite
  <1>4. Cardinality({p, q}) <= Cardinality(Live)
    BY <1>1, <1>3, FS_Subset
  <1>5. QED BY <1>2, <1>3, <1>4 DEF pnlive

(* And when pnlive is at least 2 there is another one.                     *)
LEMMA AnotherLive ==
  ASSUME NEW p \in Live, pnlive >= 2
  PROVE  \E q \in Live : q # p
  <1>1. SUFFICES ASSUME \A q \in Live : q = p PROVE FALSE
    OBVIOUS
  <1>2. Live = {p}
    BY <1>1
  <1>3. Cardinality({p}) = 1
    BY FS_Singleton
  <1>4. QED BY <1>2, <1>3 DEF pnlive

(* Every operator on the wait list returns a wait list.                    *)
LEMMA ReleasedType ==
  ASSUME NEW W, Run \in W, NEW x \in WaitLists(W), NEW S \in SUBSET Procs
  PROVE  Released(x, S) \in WaitLists(W)
  <1>1. Cardinality(S) \in Int
    BY ProcsFinite
  <1>2. QED BY <1>1 DEF Released, WaitLists

LEMMA pblockType ==
  ASSUME NEW W, NEW x \in WaitLists(W), NEW p \in Procs, NEW w \in W
  PROVE  pblock(x, p, w) \in WaitLists(W)
  BY DEF pblock, WaitLists

LEMMA punblkType ==
  ASSUME NEW W, Run \in W, NEW x \in WaitLists(W), NEW p \in Procs
  PROVE  punblk(x, p) \in WaitLists(W)
  BY ReleasedType DEF punblk

LEMMA pwakeType ==
  ASSUME NEW W, Run \in W, NEW x \in WaitLists(W), NEW w
  PROVE  pwake(x, w) \in WaitLists(W)
  <1>1. {p \in Live : x.on[p] = w} \in SUBSET Procs
    BY DEF Live
  <1>2. QED BY <1>1, ReleasedType DEF pwake

LEMMA pwscanType ==
  ASSUME NEW W, Run \in W, NEW x \in WaitLists(W), NEW E
  PROVE  pwscan(x, E) \in WaitLists(W)
  <1>1. {p \in Live : x.on[p] \in E} \in SUBSET Procs
    BY DEF Live
  <1>2. QED BY <1>1, ReleasedType DEF pwscan

(* A successor of a live process is live, with or without waiters.         *)
LEMMA pnextLive ==
  ASSUME NEW x, NEW i \in Live
  PROVE  pnext(x, i) \in Live
  <1>1. {p \in Live : x.on[p] = Run} \in SUBSET Procs /\ i \in Procs
    BY DEF Live
  <1>2. QED BY <1>1, RoundRobinIn DEF pnext

LEMMA pnextanyOther ==
  ASSUME NEW i \in Live, pnlive >= 2
  PROVE  pnextany(i) \in Live \ {i}
  <1>1. Live \in SUBSET Procs /\ i \in Procs
    BY DEF Live
  <1>2. PICK k \in Live : k # i
    BY AnotherLive
  <1>3. QED BY <1>1, <1>2, RoundRobinOther DEF pnextany

-----------------------------------------------------------------------------
(* The counter.  Exact says that pnwait is the number of blocked processes;*)
(* Thinned, that some of them have been released and nothing else changed. *)
Exact(x) == x.count = Cardinality(Blocked(x))

Thinned(x, y) == \A p \in Procs : y.on[p] \in {x.on[p], Run}

(* Thinning a list blocks nobody new.                                      *)
LEMMA ThinnedBlocked ==
  ASSUME NEW x, NEW y, Thinned(x, y)
  PROVE  Blocked(y) \subseteq Blocked(x)
  BY DEF Thinned, Blocked

(* Releasing blocked processes subtracts each of them once.                *)
LEMMA ReleasedExact ==
  ASSUME NEW W, NEW x \in WaitLists(W), Exact(x), NEW S \in SUBSET Blocked(x)
  PROVE  /\ Exact(Released(x, S))
         /\ Thinned(x, Released(x, S))
         /\ \A p \in Procs : Released(x, S).on[p] = IF p \in S THEN Run ELSE x.on[p]
  <1> DEFINE y == Released(x, S)
  <1>1. Blocked(y) = Blocked(x) \ S
    BY DEF Released, Blocked
  <1>2. IsFiniteSet(Blocked(x)) /\ Cardinality(Blocked(x)) \in Nat
    BY ProcsFinite DEF Blocked
  <1>3. Cardinality(Blocked(x) \ S) = Cardinality(Blocked(x)) - Cardinality(S)
    <2>1. Blocked(x) \cap S = S
      OBVIOUS
    <2>2. QED BY <1>2, <2>1, FS_Difference
  <1>4. y.count = x.count - Cardinality(S)
    BY DEF Released
  <1>5. Exact(y)
    BY <1>1, <1>3, <1>4 DEF Exact
  <1>6. \A p \in Procs : y.on[p] = IF p \in S THEN Run ELSE x.on[p]
    BY DEF Released
  <1> HIDE DEF y
  <1>7. Thinned(x, y)
    BY <1>6 DEF Thinned
  <1>8. QED BY <1>5, <1>6, <1>7 DEF y

(* A process that blocks is counted once.                                  *)
LEMMA pblockExact ==
  ASSUME NEW W, NEW x \in WaitLists(W), Exact(x), NEW p \in Procs, NEW w, w # Run
  PROVE  /\ Exact(pblock(x, p, w))
         /\ Blocked(pblock(x, p, w)) = Blocked(x) \cup {p}
         /\ \A q \in Procs : pblock(x, p, w).on[q] = IF q = p THEN w ELSE x.on[q]
  <1> DEFINE y == pblock(x, p, w)
  <1>1. x.on \in [Procs -> W] /\ x.count \in Int
    BY DEF WaitLists
  <1>2. \A q \in Procs : y.on[q] = IF q = p THEN w ELSE x.on[q]
    BY <1>1 DEF pblock
  <1>3. Blocked(y) = Blocked(x) \cup {p}
    BY <1>2 DEF Blocked
  <1>4. IsFiniteSet(Blocked(x)) /\ Cardinality(Blocked(x)) \in Nat
    BY ProcsFinite DEF Blocked
  <1>5. Cardinality(Blocked(y)) =
          IF p \in Blocked(x) THEN Cardinality(Blocked(x)) ELSE Cardinality(Blocked(x)) + 1
    BY <1>3, <1>4, FS_AddElement
  <1>6. y.count = IF p \in Blocked(x) THEN x.count ELSE x.count + 1
    BY DEF pblock, Blocked
  <1>7. Exact(y)
    BY <1>5, <1>6 DEF Exact
  <1>8. QED BY <1>2, <1>3, <1>7

(* punblk() of a process that is not blocked subtracts nothing.            *)
LEMMA punblkExact ==
  ASSUME NEW W, NEW x \in WaitLists(W), Exact(x), NEW p \in Procs
  PROVE  /\ Exact(punblk(x, p))
         /\ Thinned(x, punblk(x, p))
         /\ punblk(x, p).on[p] = Run
         /\ \A q \in Procs \ {p} : punblk(x, p).on[q] = x.on[q]
  <1>1. CASE x.on[p] = Run
    BY <1>1 DEF punblk, Thinned
  <1>2. CASE x.on[p] # Run
    <2>1. {p} \in SUBSET Blocked(x) /\ punblk(x, p) = Released(x, {p})
      BY <1>2 DEF Blocked, punblk
    <2>2. QED BY <2>1, ReleasedExact
  <1>3. QED BY <1>1, <1>2

(* The sweeps return at once when the counter is zero: nobody is missed,   *)
(* because only live processes are blocked and the counter is exact.       *)
LEMMA ZeroMeansNobody ==
  ASSUME NEW x, Exact(x), x.count = 0
  PROVE  \A p \in Procs : x.on[p] = Run
  <1>1. IsFiniteSet(Blocked(x)) /\ Cardinality(Blocked(x)) = 0
    BY ProcsFinite DEF Blocked, Exact
  <1>2. Blocked(x) = {}
    BY <1>1, FS_EmptySet
  <1>3. QED BY <1>2 DEF Blocked

(* pwake() releases exactly those that wait for w.                         *)
LEMMA pwakeExact ==
  ASSUME NEW W, NEW x \in WaitLists(W), Exact(x), Blocked(x) \subseteq Live,
         NEW w, w # Run
  PROVE  /\ Exact(pwake(x, w))
         /\ Thinned(x, pwake(x, w))
         /\ \A p \in Procs : pwake(x, w).on[p] = IF x.on[p] = w THEN Run ELSE x.on[p]
  <1>1. CASE x.count = 0
    <2>1. pwake(x, w) = x
      BY <1>1 DEF pwake
    <2>2. \A p \in Procs : x.on[p] = Run
      BY <1>1, ZeroMeansNobody
    <2>3. QED BY <2>1, <2>2 DEF Thinned
  <1>2. CASE x.count # 0
    <2> DEFINE S == {p \in Live : x.on[p] = w}
    <2>1. S \in SUBSET Blocked(x) /\ pwake(x, w) = Released(x, S)
      BY <1>2 DEF pwake, Blocked, Live
    <2>2. \A p \in Procs : p \in S <=> x.on[p] = w
      BY DEF Blocked
    <2> HIDE DEF S
    <2>3. QED BY <2>1, <2>2, ReleasedExact
  <1>3. QED BY <1>1, <1>2

(* The sweep only thins.                                                   *)
LEMMA pwscanExact ==
  ASSUME NEW W, NEW x \in WaitLists(W), Exact(x), NEW E, Run \notin E
  PROVE  Exact(pwscan(x, E)) /\ Thinned(x, pwscan(x, E))
  <1>1. CASE x.count = 0
    BY <1>1 DEF pwscan, Thinned
  <1>2. CASE x.count # 0
    <2> DEFINE S == {p \in Live : x.on[p] \in E}
    <2>1. S \in SUBSET Blocked(x) /\ pwscan(x, E) = Released(x, S)
      BY <1>2 DEF pwscan, Blocked, Live
    <2> HIDE DEF S
    <2>2. QED BY <2>1, ReleasedExact
  <1>3. QED BY <1>1, <1>2

=============================================================================
