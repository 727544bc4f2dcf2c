------------------------------ MODULE ProcProofs ------------------------------
(***************************************************************************)
(* The process kernel, for every number of descriptors, slots and consoles,*)
(* every set of calls programs make and of answers operators give: its     *)
(* types, and mutual exclusion by the file-system lock.                    *)
(***************************************************************************)
EXTENDS Proc, SchedTheorems, TLAPS

-----------------------------------------------------------------------------
(* What the operators of module PagePool return, for every number of slots *)
(* and of owners n.                                                        *)
LEMMA pginitType ==
  ASSUME NEW n \in Nat
  PROVE  pginit \in Pools(n)
  BY NSLOTAssumption DEF pginit, Pools, Slots, Pages

(* pgalloc answers a free slot or the refusal.                             *)
LEMMA pgfirstFree ==
  ASSUME NEW m, pgfirst(m) # 0
  PROVE  pgfirst(m) \in Slots /\ m.own[pgfirst(m)] = 0
  <1>1. PICK s \in FreeSlots(m) : \A t \in FreeSlots(m) : s <= t
    BY DEF pgfirst
  <1>2. pgfirst(m) \in FreeSlots(m)
    BY <1>1 DEF pgfirst
  <1>3. QED BY <1>2 DEF FreeSlots

LEMMA pgallocType ==
  ASSUME NEW n \in Nat, NEW m \in Pools(n), NEW cur \in 0 .. n - 1
  PROVE  pgalloc(m, cur) \in Pools(n)
  <1>1. cur + 1 \in 0 .. n
    OBVIOUS
  <1>2. QED BY <1>1, pgfirstFree DEF pgalloc, Pools

LEMMA pgfreeType ==
  ASSUME NEW n \in Nat, NEW m \in Pools(n), NEW s
  PROVE  pgfree(m, s) \in Pools(n)
  <1>1. CASE Owned(m, s)
    <2> DEFINE own == [m.own EXCEPT ![s] = 0]
               hld == [m.hld EXCEPT ![s] = FALSE]
    <2>1. own \in [Slots -> 0 .. n] /\ hld \in [Slots -> BOOLEAN]
      <3>1. m.own \in [Slots -> 0 .. n] /\ m.hld \in [Slots -> BOOLEAN]
        BY DEF Pools
      <3>2. own \in [Slots -> 0 .. n]
        <4>1. 0 \in 0 .. n
          OBVIOUS
        <4>2. ASSUME NEW f \in [Slots -> 0 .. n]
              PROVE  [f EXCEPT ![s] = 0] \in [Slots -> 0 .. n]
          BY <4>1
        <4>3. QED BY <3>1, <4>2
      <3>3. hld \in [Slots -> BOOLEAN]
        BY <3>1
      <3>4. QED BY <3>2, <3>3
    <2>2. pgfree(m, s) = [own |-> own, hld |-> hld, pg |-> m.pg, tpa |-> m.tpa]
      BY <1>1 DEF pgfree, Pools
    <2>3. QED BY <2>1, <2>2 DEF Pools
  <1>2. CASE ~ Owned(m, s)
    BY <1>2 DEF pgfree
  <1>3. QED BY <1>1, <1>2

LEMMA pgholdType ==
  ASSUME NEW n \in Nat, NEW m \in Pools(n), NEW s, NEW b \in BOOLEAN
  PROVE  pghold(m, s, b) \in Pools(n)
  BY DEF pghold, Owned, Pools

LEMMA pgtpaswapType ==
  ASSUME NEW n \in Nat, NEW m \in Pools(n), NEW s
  PROVE  pgtpaswap(m, s) \in Pools(n)
  BY DEF pgtpaswap, Owned, Pools

LEMMA pgtparestType ==
  ASSUME NEW n \in Nat, NEW m \in Pools(n)
  PROVE  pgtparest(m) \in Pools(n)
  <1>1. 0 \in Pages
    BY NSLOTAssumption DEF Pages
  <1>2. QED BY <1>1 DEF pgtparest, Pools

LEMMA pgrelprocType ==
  ASSUME NEW n \in Nat, NEW m \in Pools(n), NEW cur
  PROVE  pgrelproc(m, cur) \in Pools(n)
  BY DEF pgrelproc, Pools

LEMMA pgrelallType ==
  ASSUME NEW n \in Nat, NEW m \in Pools(n), NEW cur
  PROVE  pgrelall(m, cur) \in Pools(n)
  BY pgtparestType, pgrelprocType DEF pgrelall

-----------------------------------------------------------------------------
(* The pool, field by field.                                               *)

(* Every slot points at a page of its own, none at the one that is the     *)
(* TPA, and a slot nobody owns parks nobody.                               *)
Apart(m) ==
  /\ \A s, t \in Slots : s # t => m.pg[s] # m.pg[t]
  /\ \A s \in Slots : m.pg[s] # m.tpa

Sound(m) == Apart(m) /\ \A s \in Slots : m.own[s] = 0 => ~ m.hld[s]

LEMMA pginitSound == Sound(pginit)
  BY NSLOTAssumption DEF Sound, Apart, pginit, Slots

LEMMA PoolFields ==
  ASSUME NEW n \in Nat, NEW m \in Pools(n)
  PROVE  /\ m.own \in [Slots -> 0 .. n] /\ m.hld \in [Slots -> BOOLEAN]
         /\ m.pg \in [Slots -> Pages] /\ m.tpa \in Pages
  BY DEF Pools

(* pgalloc() takes the slot pgfirst() names for cur.                       *)
LEMMA pgallocIs ==
  ASSUME NEW n \in Nat, NEW m \in Pools(n), NEW cur \in 0 .. n - 1, Sound(m),
         pgfirst(m) # 0
  PROVE  LET s == pgfirst(m)
             y == pgalloc(m, cur)
         IN  /\ s \in Slots /\ m.own[s] = 0 /\ ~ m.hld[s]
             /\ y.hld = m.hld /\ y.pg = m.pg /\ y.tpa = m.tpa /\ Sound(y)
             /\ \A t \in Slots : y.own[t] = IF t = s THEN cur + 1 ELSE m.own[t]
  <1> DEFINE s == pgfirst(m)
             y == pgalloc(m, cur)
  <1>1. s \in Slots /\ m.own[s] = 0 /\ ~ m.hld[s]
    BY pgfirstFree DEF Sound
  <1>2. y = [m EXCEPT !.own[s] = cur + 1]
    BY DEF pgalloc
  <1> HIDE DEF s, y
  <1>3. y.hld = m.hld /\ y.pg = m.pg /\ y.tpa = m.tpa
    BY <1>2 DEF Pools
  <1>4. \A t \in Slots : y.own[t] = IF t = s THEN cur + 1 ELSE m.own[t]
    BY <1>2 DEF Pools
  <1>5. Sound(y)
    BY <1>1, <1>3, <1>4 DEF Sound, Apart
  <1>6. QED BY <1>1, <1>3, <1>4, <1>5 DEF s, y

(* pgfree() of a slot somebody owns, whoever calls it.                     *)
LEMMA pgfreeIs ==
  ASSUME NEW n \in Nat, NEW m \in Pools(n), NEW s \in Slots, m.own[s] # 0, Sound(m)
  PROVE  LET y == pgfree(m, s)
         IN  /\ y.pg = m.pg /\ y.tpa = m.tpa /\ Sound(y)
             /\ \A t \in Slots : /\ y.own[t] = IF t = s THEN 0 ELSE m.own[t]
                                /\ y.hld[t] = IF t = s THEN FALSE ELSE m.hld[t]
  <1> DEFINE y == pgfree(m, s)
  <1>1. y = [m EXCEPT !.own[s] = 0, !.hld[s] = FALSE]
    BY DEF pgfree, Owned
  <1> HIDE DEF y
  <1>2. y.pg = m.pg /\ y.tpa = m.tpa
    BY <1>1 DEF Pools
  <1>3. \A t \in Slots : y.own[t] = IF t = s THEN 0 ELSE m.own[t]
    BY <1>1 DEF Pools
  <1>4. \A t \in Slots : y.hld[t] = IF t = s THEN FALSE ELSE m.hld[t]
    <2>1. y.hld = [m.hld EXCEPT ![s] = FALSE]
      BY <1>1 DEF Pools
    <2>2. m.hld \in [Slots -> BOOLEAN]
      BY PoolFields
    <2>3. QED BY <2>1, <2>2
  <1>5. Sound(y)
    BY <1>2, <1>3, <1>4 DEF Sound, Apart
  <1>6. QED BY <1>2, <1>3, <1>4, <1>5 DEF y

(* pghold() of a slot somebody owns, to park an image and to let it go.    *)
LEMMA pgholdParks ==
  ASSUME NEW n \in Nat, NEW m \in Pools(n), NEW s \in Slots, m.own[s] # 0, Sound(m)
  PROVE  LET y == pghold(m, s, TRUE)
         IN  /\ y.own = m.own /\ y.pg = m.pg /\ y.tpa = m.tpa /\ Sound(y)
             /\ y.hld[s] /\ \A t \in Slots \ {s} : y.hld[t] = m.hld[t]
  <1> DEFINE y == pghold(m, s, TRUE)
  <1>1. y = [m EXCEPT !.hld[s] = TRUE]
    BY DEF pghold, Owned
  <1> HIDE DEF y
  <1>2. y.own = m.own /\ y.pg = m.pg /\ y.tpa = m.tpa
    BY <1>1 DEF Pools
  <1>3. y.hld[s] /\ \A t \in Slots \ {s} : y.hld[t] = m.hld[t]
    <2>1. y.hld = [m.hld EXCEPT ![s] = TRUE]
      BY <1>1 DEF Pools
    <2>2. m.hld \in [Slots -> BOOLEAN]
      BY PoolFields
    <2>3. QED BY <2>1, <2>2
  <1>4. Sound(y)
    BY <1>2, <1>3 DEF Sound, Apart
  <1>5. QED BY <1>2, <1>3, <1>4 DEF y

LEMMA pgholdFrees ==
  ASSUME NEW n \in Nat, NEW m \in Pools(n), NEW s \in Slots, m.own[s] # 0, Sound(m)
  PROVE  LET y == pghold(m, s, FALSE)
         IN  /\ y.own = m.own /\ y.pg = m.pg /\ y.tpa = m.tpa /\ Sound(y)
             /\ ~ y.hld[s] /\ \A t \in Slots \ {s} : y.hld[t] = m.hld[t]
  <1> DEFINE y == pghold(m, s, FALSE)
  <1>1. y = [m EXCEPT !.hld[s] = FALSE]
    BY DEF pghold, Owned
  <1> HIDE DEF y
  <1>2. y.own = m.own /\ y.pg = m.pg /\ y.tpa = m.tpa
    BY <1>1 DEF Pools
  <1>3. ~ y.hld[s] /\ \A t \in Slots \ {s} : y.hld[t] = m.hld[t]
    <2>1. y.hld = [m.hld EXCEPT ![s] = FALSE]
      BY <1>1 DEF Pools
    <2>2. m.hld \in [Slots -> BOOLEAN]
      BY PoolFields
    <2>3. QED BY <2>1, <2>2
  <1>4. Sound(y)
    BY <1>2, <1>3 DEF Sound, Apart
  <1>5. QED BY <1>2, <1>3, <1>4 DEF y

(* pgtpaswap(): two pages change places, and nothing else does.            *)
LEMMA pgtpaswapIs ==
  ASSUME NEW n \in Nat, NEW m \in Pools(n), NEW s \in Slots, m.own[s] # 0, Sound(m)
  PROVE  LET y == pgtpaswap(m, s)
         IN  /\ y.own = m.own /\ y.hld = m.hld /\ y.tpa = m.pg[s] /\ Sound(y)
             /\ \A t \in Slots : y.pg[t] = IF t = s THEN m.tpa ELSE m.pg[t]
  <1> DEFINE y == pgtpaswap(m, s)
  <1>1. y = [m EXCEPT !.tpa = m.pg[s], !.pg[s] = m.tpa]
    BY DEF pgtpaswap, Owned
  <1> HIDE DEF y
  <1>2. y.own = m.own /\ y.hld = m.hld /\ y.tpa = m.pg[s]
    BY <1>1 DEF Pools
  <1>3. \A t \in Slots : y.pg[t] = IF t = s THEN m.tpa ELSE m.pg[t]
    BY <1>1 DEF Pools
  <1>4. Sound(y)
    BY <1>2, <1>3 DEF Sound, Apart
  <1>5. QED BY <1>2, <1>3, <1>4 DEF y

(* pgtparest() exchanges two pages too, or none.                           *)
LEMMA pgtparestIs ==
  ASSUME NEW n \in Nat, NEW m \in Pools(n), Sound(m)
  PROVE  LET y == pgtparest(m) IN y.own = m.own /\ y.hld = m.hld /\ Sound(y)
  <1> DEFINE s == CHOOSE t \in Slots : m.pg[t] = 0
             y == [m EXCEPT !.tpa = 0, !.pg[s] = m.tpa]
  <1>1. CASE m.tpa = 0 \/ ~ \E t \in Slots : m.pg[t] = 0
    BY <1>1 DEF pgtparest
  <1>2. CASE ~ (m.tpa = 0 \/ ~ \E t \in Slots : m.pg[t] = 0)
    <2>1. s \in Slots /\ m.pg[s] = 0
      BY <1>2
    <2>2. pgtparest(m) = y
      BY <1>2 DEF pgtparest
    <2> HIDE DEF s
    <2>3. y.own = m.own /\ y.hld = m.hld /\ y.tpa = 0
      BY DEF Pools
    <2>4. \A t \in Slots : y.pg[t] = IF t = s THEN m.tpa ELSE m.pg[t]
      BY DEF Pools
    <2> HIDE DEF y
    <2>5. Sound(y)
      BY <1>2, <2>1, <2>3, <2>4 DEF Sound, Apart
    <2>6. QED BY <2>2, <2>3, <2>5
  <1>3. QED BY <1>1, <1>2

(* pgrelproc() frees what cur owns and parks nobody.                       *)
LEMMA pgrelprocIs ==
  ASSUME NEW n \in Nat, NEW m \in Pools(n), NEW cur, Sound(m)
  PROVE  LET y == pgrelproc(m, cur)
         IN  /\ y.hld = m.hld /\ y.pg = m.pg /\ y.tpa = m.tpa /\ Sound(y)
             /\ \A t \in Slots : y.own[t] = IF m.own[t] = cur + 1 /\ ~ m.hld[t]
                                           THEN 0 ELSE m.own[t]
  <1> DEFINE y == pgrelproc(m, cur)
  <1>1. y.hld = m.hld /\ y.pg = m.pg /\ y.tpa = m.tpa
    BY DEF pgrelproc, Pools
  <1>2. \A t \in Slots : y.own[t] = IF m.own[t] = cur + 1 /\ ~ m.hld[t]
                                  THEN 0 ELSE m.own[t]
    BY DEF pgrelproc, Pools
  <1> HIDE DEF y
  <1>3. Sound(y)
    BY <1>1, <1>2 DEF Sound, Apart
  <1>4. QED BY <1>1, <1>2, <1>3 DEF y

(* pgone() and procdead() at a death: the page behind slot s becomes the   *)
(* TPA, and the slot, which parks nobody any more, is given back.          *)
LEMMA pgReturnIs ==
  ASSUME NEW n \in Nat, NEW m \in Pools(n), NEW s \in Slots, m.own[s] # 0, Sound(m)
  PROVE  LET y == pgfree(pghold(pgtpaswap(m, s), s, FALSE), s)
         IN  /\ y.tpa = m.pg[s] /\ Sound(y)
             /\ \A t \in Slots : /\ y.pg[t] = IF t = s THEN m.tpa ELSE m.pg[t]
                                /\ y.own[t] = IF t = s THEN 0 ELSE m.own[t]
             /\ ~ y.hld[s] /\ \A t \in Slots \ {s} : y.hld[t] = m.hld[t]
  <1> DEFINE sw == pgtpaswap(m, s)
             ho == pghold(sw, s, FALSE)
             y == pgfree(ho, s)
  <1>1. /\ sw \in Pools(n) /\ sw.own = m.own /\ sw.hld = m.hld /\ sw.tpa = m.pg[s]
        /\ Sound(sw) /\ \A t \in Slots : sw.pg[t] = IF t = s THEN m.tpa ELSE m.pg[t]
    BY pgtpaswapIs, pgtpaswapType
  <1> HIDE DEF sw
  <1>2. /\ ho.own = sw.own /\ ho.pg = sw.pg /\ ho.tpa = sw.tpa /\ Sound(ho)
        /\ ~ ho.hld[s] /\ \A t \in Slots \ {s} : ho.hld[t] = sw.hld[t]
    <2>1. sw \in Pools(n) /\ sw.own[s] # 0 /\ Sound(sw)
      BY <1>1
    <2>2. QED BY <2>1, pgholdFrees
  <1>3. ho \in Pools(n)
    BY <1>1, pgholdType
  <1> HIDE DEF ho
  <1>4. /\ y.pg = ho.pg /\ y.tpa = ho.tpa /\ Sound(y)
        /\ \A t \in Slots : /\ y.own[t] = IF t = s THEN 0 ELSE ho.own[t]
                           /\ y.hld[t] = IF t = s THEN FALSE ELSE ho.hld[t]
    <2>1. ho \in Pools(n) /\ ho.own[s] # 0 /\ Sound(ho)
      BY <1>1, <1>2, <1>3
    <2>2. QED BY <2>1, pgfreeIs
  <1> HIDE DEF y
  <1>5. \A t \in Slots : /\ y.pg[t] = IF t = s THEN m.tpa ELSE m.pg[t]
                         /\ y.own[t] = IF t = s THEN 0 ELSE m.own[t]
    BY <1>1, <1>2, <1>4
  <1>6. ~ y.hld[s] /\ \A t \in Slots \ {s} : y.hld[t] = m.hld[t]
    BY <1>1, <1>2, <1>4
  <1>7. y.tpa = m.pg[s]
    BY <1>1, <1>2, <1>4
  <1>8. /\ y.tpa = m.pg[s] /\ Sound(y)
        /\ \A t \in Slots : /\ y.pg[t] = IF t = s THEN m.tpa ELSE m.pg[t]
                           /\ y.own[t] = IF t = s THEN 0 ELSE m.own[t]
        /\ ~ y.hld[s] /\ \A t \in Slots \ {s} : y.hld[t] = m.hld[t]
    BY <1>4, <1>5, <1>6, <1>7
  <1>9. QED BY <1>8 DEF y, ho, sw

-----------------------------------------------------------------------------

(* The inductive invariant.  The types need the lock's part of it: that a  *)
(* creation in progress has a descriptor of its own.                       *)
IInv == TypeOK /\ LockInv

LEMMA Constants ==
  /\ 0 \in Procs /\ 0 \in Cons /\ 0 \in Pages /\ NP \in Nat
  /\ \A p \in Procs : p \in 0 .. NP - 1
  /\ Run \in Waits /\ Wait("LOCK", 0) \in Waits
  /\ \A c \in Cons : Wait("CATT", c) \in Waits /\ Wait("CON", c) \in Waits
  /\ \A p \in Procs : Wait("TICK", p) \in Waits
  BY NPAssumption, NCONAssumption, NSLOTAssumption
     DEF Procs, Cons, Pages, Waits

-----------------------------------------------------------------------------
(* The initial state.                                                      *)

LEMMA InitInv == Init => IInv
  <1> SUFFICES ASSUME Init PROVE IInv
    OBVIOUS
  <1> USE DEF Init
  <1>1. SchedTypes
    BY Constants DEF SchedTypes, States, WaitLists
  <1>2. CallTypes
    BY Constants DEF CallTypes, Sites, Ctxs, Jobs
  <1>3. LockTypes
    BY Constants DEF LockTypes
  <1>4. PageTypes
    BY Constants, pginitType DEF PageTypes, Images
  <1>5. ConTypes
    BY Constants DEF ConTypes
  <1>6. LockInv
    BY Constants DEF LockInv, Live, ClaimsHeld, LockExcludes, InRegion
  <1>7. QED BY <1>1, <1>2, <1>3, <1>4, <1>5, <1>6 DEF IInv, TypeOK

-----------------------------------------------------------------------------
(* The pieces actions are made of.                                         *)

LEMMA LiveProcs == Live \in SUBSET Procs
  BY DEF Live

(* The lock's invariant reads five variables, and of a process only its    *)
(* context and whether it is at the lock.                                  *)
LEMMA LockInvKept ==
  ASSUME LockInv, pcur' \in Live, UNCHANGED <<pd_state, lk>>,
         \A p \in Procs : ctx'[p] = ctx[p] /\ job'[p] = job[p]
                          /\ (at'[p] = "lock" <=> at[p] = "lock")
  PROVE  LockInv'
  BY DEF LockInv, Live, ClaimsHeld, LockExcludes, InRegion

LEMMA ResumeTypes ==
  ASSUME IInv, NEW n \in Live, Resume(n)
  PROVE  /\ pcur' = n
         /\ pool' \in Pools(NP)
         /\ pd_seg' \in [Procs -> {0} \cup Slots]
  <1>1. /\ pool \in Pools(NP) /\ pcur \in Procs /\ n \in Procs
        /\ pd_seg \in [Procs -> {0} \cup Slots]
    BY LiveProcs DEF IInv, TypeOK, PageTypes, SchedTypes
  <1>2. CASE n # pcur /\ pd_seg[n] # 0
    <2>1. pool' \in Pools(NP)
      BY <1>1, <1>2, Constants, pgtpaswapType DEF Resume
    <2>2. pd_seg' = [pd_seg EXCEPT ![pcur] = pd_seg[n], ![n] = 0]
      BY <1>2 DEF Resume
    <2>3. pd_seg[n] \in {0} \cup Slots
      BY <1>1
    <2>4. pd_seg' \in [Procs -> {0} \cup Slots]
      BY <1>1, <2>2, <2>3
    <2>5. QED BY <2>1, <2>4 DEF Resume
  <1>3. CASE ~ (n # pcur /\ pd_seg[n] # 0)
    BY <1>1, <1>3 DEF Resume
  <1>4. QED BY <1>2, <1>3

LEMMA AwakeType ==
  ASSUME IInv
  PROVE  Awake \in WaitLists(Waits)
  BY Constants, punblkType DEF Awake, IInv, TypeOK, SchedTypes

(* After a wait some live process runs, with whatever it blocked on in the *)
(* list and the page swap done.                                            *)
LEMMA pwaitTypes ==
  ASSUME IInv, NEW w \in Waits, pwait(w)
  PROVE  /\ pcur' \in Live
         /\ waits' \in WaitLists(Waits)
         /\ pool' \in Pools(NP)
         /\ pd_seg' \in [Procs -> {0} \cup Slots]
  <1> DEFINE x == pblock(waits, pcur, w)
             y == IF pnlive < 2 \/ pnoyld THEN x ELSE pwscan(x, Events)
             n == IF pnlive < 2 \/ pnoyld THEN pcur ELSE pnext(y, pcur)
  <1>1. pcur \in Live /\ pcur \in Procs /\ waits \in WaitLists(Waits)
    BY DEF IInv, LockInv, TypeOK, SchedTypes
  <1>2. x \in WaitLists(Waits)
    BY <1>1, pblockType
  <1> HIDE DEF x
  <1>3. y \in WaitLists(Waits)
    BY <1>2, Constants, pwscanType
  <1> HIDE DEF y
  <1>4. n \in Live
    BY <1>1, pnextLive
  <1> HIDE DEF n
  <1>5. waits' = (IF n = pcur THEN punblk(y, pcur) ELSE y) /\ Resume(n)
    BY DEF pwait, n, x, y
  <1>6. waits' \in WaitLists(Waits)
    BY <1>1, <1>3, <1>5, Constants, punblkType
  <1>7. QED BY <1>4, <1>5, <1>6, ResumeTypes

(* A step that only waits keeps the invariant.                             *)
LEMMA WaitingStep ==
  ASSUME IInv, NEW w \in Waits, pwait(w),
         ctx' = ctx, at' \in [Procs -> Sites],
         \A p \in Procs : at'[p] = "lock" <=> at[p] = "lock",
         UNCHANGED <<pd_state, arg, job, due, lockVars, conVars, seglist,
                     pd_mrtseg, image, input>>
  PROVE  IInv'
  <1>1. /\ pcur' \in Live
        /\ waits' \in WaitLists(Waits)
        /\ pool' \in Pools(NP)
        /\ pd_seg' \in [Procs -> {0} \cup Slots]
    BY pwaitTypes
  <1>2. LockInv'
    BY <1>1, LockInvKept DEF IInv, lockVars
  <1>3. SchedTypes' /\ CallTypes'
    BY <1>1, LiveProcs DEF IInv, TypeOK, SchedTypes, CallTypes
  <1>4. LockTypes' /\ PageTypes' /\ ConTypes'
    BY <1>1 DEF IInv, TypeOK, LockTypes, PageTypes, ConTypes, lockVars, conVars
  <1>5. QED BY <1>2, <1>3, <1>4 DEF IInv, TypeOK

LEMMA GotoTypes ==
  ASSUME IInv, NEW c \in Ctxs, NEW s \in Sites, Goto(c, s)
  PROVE  /\ ctx' \in [Procs -> Ctxs] /\ at' \in [Procs -> Sites]
         /\ ctx'[pcur] = c /\ at'[pcur] = s
         /\ \A p \in Procs \ {pcur} : ctx'[p] = ctx[p] /\ at'[p] = at[p]
  BY DEF Goto, IInv, TypeOK, SchedTypes, CallTypes

(* A step of the running process from one point of its calls to another    *)
(* that neither takes nor leaves the lock.                                 *)
LEMMA CallStep ==
  ASSUME IInv, NEW c \in Ctxs, NEW s \in Sites, Goto(c, s),
         (c \in {"fs", "load"} /\ s # "lock") <=> InRegion(pcur),
         c = "load" <=> ctx[pcur] = "load",
         waits' \in WaitLists(Waits),
         arg' \in [Procs -> Cons], due' \in SUBSET Procs,
         UNCHANGED <<pcur, pd_state, job, lockVars, pageVars>>,
         ConTypes'
  PROVE  IInv'
  <1> USE GotoTypes
  <1>1. SchedTypes' /\ CallTypes'
    BY DEF IInv, TypeOK, SchedTypes, CallTypes
  <1>2. LockTypes' /\ PageTypes'
    BY DEF IInv, TypeOK, LockTypes, PageTypes, lockVars, pageVars
  <1>3. pcur' \in Live' /\ Live' = Live /\ lk' = lk
    BY DEF IInv, LockInv, Live, lockVars
  <1>4. \A p \in Procs : InRegion(p)' <=> InRegion(p)
    BY DEF InRegion
  <1>5. LockExcludes'
    BY <1>3, <1>4, LiveProcs DEF IInv, LockInv, LockExcludes, LockTypes
  <1>6. \A p \in Procs : ctx'[p] = "load" <=> ctx[p] = "load"
    OBVIOUS
  <1>7. ClaimsHeld'
    BY <1>6 DEF IInv, LockInv, ClaimsHeld
  <1>8. \A p \in Procs' \ Live' : ctx'[p] = "user"
    BY <1>3, LiveProcs DEF IInv, LockInv, Procs
  <1>9. QED BY <1>1, <1>2, <1>3, <1>5, <1>7, <1>8 DEF IInv, TypeOK, LockInv

LEMMA ConTypesKept ==
  ASSUME IInv, UNCHANGED <<pd_con, pd_chome, pd_sess>>,
         pd_catt' \in [Procs -> SUBSET Cons], input' \in SUBSET Cons
  PROVE  ConTypes'
  BY DEF IInv, TypeOK, ConTypes

-----------------------------------------------------------------------------
(* One lemma per action.                                                   *)

LEMMA EntersCall ==
  ASSUME IInv, FsCall \/ FsError \/ Attach \/ ReadConsole \/ Delay
  PROVE  IInv'
  <1> USE DEF schedVars, conVars
  <1>1. /\ pcur \in Procs /\ arg \in [Procs -> Cons] /\ due \in SUBSET Procs
        /\ waits \in WaitLists(Waits) /\ concur \in Cons
        /\ [arg EXCEPT ![pcur] = concur] \in [Procs -> Cons]
    BY DEF IInv, TypeOK, SchedTypes, CallTypes, ConTypes, concur
  <1>2. ConTypes'
    BY ConTypesKept DEF FsCall, FsError, Attach, ReadConsole, Delay, IInv, TypeOK,
                        ConTypes
  <1>3. CASE FsCall
    BY <1>1, <1>2, <1>3, CallStep DEF FsCall, InUser, InRegion, Ctxs, Sites
  <1>4. CASE FsError
    BY <1>1, <1>2, <1>4, CallStep DEF FsError, Inside, InRegion, Ctxs, Sites
  <1>5. CASE Attach
    BY <1>1, <1>2, <1>5, CallStep DEF Attach, InUser, InRegion, Ctxs, Sites
  <1>6. CASE ReadConsole
    BY <1>1, <1>2, <1>6, CallStep DEF ReadConsole, InUser, InRegion, Ctxs, Sites
  <1>7. CASE Delay
    BY <1>1, <1>2, <1>7, CallStep DEF Delay, InUser, InRegion, Ctxs, Sites
  <1>8. QED BY <1>3, <1>4, <1>5, <1>6, <1>7

LEMMA InsideCall ==
  ASSUME IInv, ConTake \/ GetcAgain \/ GetcReturn \/ Retry \/ DelayEnd
  PROVE  IInv'
  <1>1. /\ pcur \in Procs /\ arg \in [Procs -> Cons] /\ due \in SUBSET Procs
        /\ Awake \in WaitLists(Waits) /\ input \in SUBSET Cons
        /\ arg[pcur] \in Cons /\ ctx[pcur] \in Ctxs
        /\ pd_catt \in [Procs -> SUBSET Cons]
    BY AwakeType DEF IInv, TypeOK, SchedTypes, CallTypes, ConTypes
  <1>2. CASE ConTake
    <2>1. ConTypes'
      BY <1>1, <1>2, ConTypesKept DEF ConTake
    <2> DEFINE c == IF ctx[pcur] = "xdos" THEN "user" ELSE ctx[pcur]
               s == IF ctx[pcur] = "xdos" THEN "run" ELSE "getc"
    <2>2. c \in Ctxs /\ s \in Sites /\ Goto(c, s)
      BY <1>1, <1>2 DEF ConTake, Ctxs, Sites
    <2>3. /\ (c \in {"fs", "load"} /\ s # "lock") <=> InRegion(pcur)
          /\ c = "load" <=> ctx[pcur] = "load"
      BY <1>2 DEF ConTake, InRegion
    <2> HIDE DEF c, s
    <2>4. /\ UNCHANGED <<pcur, pd_state, arg, job, due, lockVars, pageVars>>
          /\ waits' \in WaitLists(Waits)
      BY <1>1, <1>2 DEF ConTake
    <2>5. QED
      BY <1>1, <2>1, <2>2, <2>3, <2>4, CallStep
  <1>3. CASE GetcAgain
    <2>1. Goto(ctx[pcur], "getc")
      BY <1>1, <1>3 DEF GetcAgain, Goto, IInv, TypeOK, CallTypes
    <2>2. ConTypes'
      BY <1>1, <1>3, ConTypesKept DEF GetcAgain, conVars
    <2>3. QED
      BY <1>1, <1>3, <2>1, <2>2, CallStep DEF GetcAgain, InRegion, Sites
  <1>4. CASE GetcReturn
    <2>1. ConTypes'
      BY <1>1, <1>4, ConTypesKept DEF GetcReturn, GetcTakes, conVars
    <2>2. QED
      BY <1>1, <1>4, <2>1, CallStep DEF GetcReturn, InRegion, Ctxs, Sites
  <1>5. CASE Retry
    <2>1. ConTypes'
      BY <1>1, <1>5, ConTypesKept DEF Retry, GetcTakes, conVars
    <2>2. QED
      BY <1>1, <1>5, <2>1, CallStep DEF Retry, GetcTakes, InRegion, Sites
  <1>6. CASE DelayEnd
    <2>1. ConTypes'
      BY <1>1, <1>6, ConTypesKept DEF DelayEnd, conVars
    <2>2. QED
      BY <1>1, <1>6, <2>1, CallStep DEF DelayEnd, InRegion, Ctxs, Sites
  <1>7. QED BY <1>2, <1>3, <1>4, <1>5, <1>6

LEMMA Waiting ==
  ASSUME IInv, LockWait \/ ConWait \/ GetcWait \/ DelayWait
  PROVE  IInv'
  <1> USE DEF callVars
  <1>1. /\ pcur \in Procs /\ at \in [Procs -> Sites]
        /\ arg[pcur] \in Cons /\ concur \in Cons
    BY DEF IInv, TypeOK, SchedTypes, CallTypes, ConTypes, concur
  <1>2. CASE LockWait
    BY <1>1, <1>2, Constants, WaitingStep DEF LockWait
  <1>3. CASE ConWait
    BY <1>1, <1>3, Constants, WaitingStep DEF ConWait
  <1>4. CASE GetcWait
    <2>1. /\ at' \in [Procs -> Sites]
          /\ \A p \in Procs : at'[p] = "lock" <=> at[p] = "lock"
      BY <1>1, <1>4 DEF GetcWait, Sites
    <2>2. QED
      BY <1>1, <1>4, <2>1, Constants, WaitingStep DEF GetcWait
  <1>5. CASE DelayWait
    BY <1>1, <1>5, Constants, WaitingStep DEF DelayWait
  <1>6. QED BY <1>2, <1>3, <1>4, <1>5

LEMMA Preemption ==
  ASSUME IInv, Preempt
  PROVE  IInv'
  <1> DEFINE y == pwscan(waits, Events)
  <1>1. y \in WaitLists(Waits) /\ pnext(y, pcur) \in Live
    BY Constants, pwscanType, pnextLive DEF IInv, LockInv, TypeOK, SchedTypes
  <1>2. waits' = y /\ Resume(pnext(y, pcur))
    BY DEF Preempt
  <1>3. /\ pcur' \in Live
        /\ pool' \in Pools(NP)
        /\ pd_seg' \in [Procs -> {0} \cup Slots]
    BY <1>1, <1>2, ResumeTypes
  <1>4. LockInv'
    BY <1>3, LockInvKept DEF IInv, Preempt, lockVars, callVars
  <1>5. SchedTypes' /\ CallTypes'
    BY <1>1, <1>2, <1>3, LiveProcs
       DEF Preempt, IInv, TypeOK, SchedTypes, CallTypes, callVars
  <1>6. LockTypes' /\ PageTypes' /\ ConTypes'
    BY <1>3 DEF Preempt, IInv, TypeOK, LockTypes, PageTypes, ConTypes, lockVars,
                conVars
  <1>7. QED BY <1>4, <1>5, <1>6 DEF IInv, TypeOK

(* Steps that stay where they are and touch neither the lock nor the       *)
(* descriptors.                                                            *)
LEMMA QuietStep ==
  ASSUME IInv, UNCHANGED <<pcur, pd_state, at, ctx, arg, job, lockVars>>,
         waits' \in WaitLists(Waits), due' \in SUBSET Procs,
         PageTypes', ConTypes'
  PROVE  IInv'
  <1>1. LockInv'
    BY LockInvKept DEF IInv, LockInv, lockVars
  <1>2. SchedTypes' /\ CallTypes' /\ LockTypes'
    BY DEF IInv, TypeOK, SchedTypes, CallTypes, LockTypes, lockVars
  <1>3. QED BY <1>1, <1>2 DEF IInv, TypeOK

(* A hand-over leaves a wait list, and gives consoles only.                *)
LEMMA pconhandTypes ==
  ASSUME NEW x \in WaitLists(Waits), NEW S \in SUBSET Cons, pcur \in Procs,
         NEW catt \in [Procs -> SUBSET Cons], pconhand(x, S, catt)
  PROVE  waits' \in WaitLists(Waits) /\ pd_catt' \in [Procs -> SUBSET Cons]
  <1>1. \A c \in S : Heir(x, c) \in Procs
    <2>1. ASSUME NEW c \in S
          PROVE  Seekers(x, c) \in SUBSET Procs
      BY DEF Seekers, Live
    <2>2. QED BY <2>1, RoundRobinIn DEF Heir
  <1>2. {Heir(x, c) : c \in Wanted(x, S)} \in SUBSET Procs
    BY <1>1 DEF Wanted
  <1>3. waits' \in WaitLists(Waits)
    BY <1>2, Constants, ReleasedType DEF pconhand
  <1>4. ASSUME NEW p \in Procs
        PROVE  catt[p] \cup {c \in Wanted(x, S) : Heir(x, c) = p} \in SUBSET Cons
    BY DEF Wanted
  <1>5. pd_catt' \in [Procs -> SUBSET Cons]
    BY <1>4 DEF pconhand
  <1>6. QED BY <1>3, <1>5

LEMMA ConsoleQuiet ==
  ASSUME IInv,
         \/ Detach
         \/ \E p \in Procs, c \in Cons : Assign(p, c)
         \/ \E c \in Cons : Key(c)
         \/ \E p \in Procs : Deadline(p)
  PROVE  IInv'
  <1> USE DEF callVars, schedVars
  <1>1. /\ pcur \in Procs /\ waits \in WaitLists(Waits) /\ due \in SUBSET Procs
        /\ concur \in Cons /\ pd_catt \in [Procs -> SUBSET Cons]
        /\ input \in SUBSET Cons /\ PageTypes /\ ConTypes
    BY DEF IInv, TypeOK, SchedTypes, CallTypes, ConTypes, concur
  <1>2. UNCHANGED pageVars => PageTypes'
    BY <1>1 DEF PageTypes, pageVars
  <1>3. CASE Detach
    <2> DEFINE catt == [pd_catt EXCEPT ![pcur] = @ \ {concur}]
    <2>1. catt \in [Procs -> SUBSET Cons] /\ {concur} \in SUBSET Cons
      BY <1>1
    <2>2. pconhand(waits, {concur}, catt)
      BY <1>3 DEF Detach
    <2> HIDE DEF catt
    <2>3. waits' \in WaitLists(Waits) /\ pd_catt' \in [Procs -> SUBSET Cons]
      BY <1>1, <2>1, <2>2, pconhandTypes
    <2>4. ConTypes'
      BY <1>1, <1>3, <2>3, ConTypesKept DEF Detach
    <2>5. QED
      BY <1>1, <1>2, <1>3, <2>3, <2>4, QuietStep DEF Detach
  <1>4. ASSUME NEW p \in Procs, NEW c \in Cons, Assign(p, c) PROVE IInv'
    <2>1. ConTypes'
      BY <1>1, <1>4 DEF Assign, ConTypes
    <2>2. QED BY <1>1, <1>2, <1>4, <2>1, QuietStep DEF Assign
  <1>5. ASSUME NEW c \in Cons, Key(c) PROVE IInv'
    <2>1. ConTypes'
      BY <1>1, <1>5 DEF Key, ConTypes, conVars
    <2>2. QED BY <1>1, <1>2, <1>5, <2>1, QuietStep DEF Key
  <1>6. ASSUME NEW p \in Procs, Deadline(p) PROVE IInv'
    <2>1. ConTypes'
      BY <1>1, <1>6 DEF Deadline, ConTypes, conVars
    <2>2. QED BY <1>1, <1>2, <1>6, <2>1, QuietStep DEF Deadline
  <1>7. QED BY <1>3, <1>4, <1>5, <1>6

LEMMA Segments ==
  ASSUME IInv, GetSegment \/ pmrtseg \/ \E s \in Slots : PutSegment(s)
  PROVE  IInv'
  <1> USE DEF callVars, schedVars
  <1>1. /\ pcur \in Procs /\ waits \in WaitLists(Waits) /\ due \in SUBSET Procs
        /\ PageTypes /\ ConTypes /\ pool \in Pools(NP)
    BY DEF IInv, TypeOK, SchedTypes, CallTypes, PageTypes
  <1>2. UNCHANGED <<conVars, input>> => ConTypes'
    BY <1>1 DEF ConTypes, conVars
  <1>3. pgfirst(pool) # 0 => pgfirst(pool) \in Slots
    BY pgfirstFree
  <1>4. pgalloc(pool, pcur) \in Pools(NP)
    BY <1>1, Constants, pgallocType
  <1>5. ASSUME NEW g PROVE [image EXCEPT ![g] = Data(pcur)] \in [Pages -> Images]
    BY <1>1 DEF PageTypes, Images
  <1>6. CASE GetSegment
    <2>1. PageTypes'
      BY <1>1, <1>3, <1>4, <1>5, <1>6 DEF GetSegment, PageTypes
    <2>2. QED BY <1>1, <1>2, <1>6, <2>1, QuietStep DEF GetSegment
  <1>7. CASE pmrtseg
    <2>1. PageTypes'
      BY <1>1, <1>3, <1>4, <1>5, <1>7 DEF pmrtseg, PageTypes
    <2>2. QED BY <1>1, <1>2, <1>7, <2>1, QuietStep DEF pmrtseg
  <1>8. ASSUME NEW s \in Slots, PutSegment(s) PROVE IInv'
    <2>1. pgfree(pool, s) \in Pools(NP)
      BY <1>1, Constants, pgfreeType
    <2>2. PageTypes'
      BY <1>1, <1>8, <2>1 DEF PutSegment, PageTypes
    <2>3. QED BY <1>1, <1>2, <1>8, <2>2, QuietStep DEF PutSegment
  <1>9. QED BY <1>6, <1>7, <1>8

-----------------------------------------------------------------------------
(* The lock.                                                               *)

(* A process at the lock that finds it free finds it with depth 0: it does *)
(* not hold it, and it takes it past another holder only when it is alone  *)
(* alive, while a holder is alive too.                                     *)
LEMMA FreeMeansFree ==
  ASSUME IInv, at[pcur] = "lock", LockFree
  PROVE  lk.dep = 0
  <1>1. SUFFICES ASSUME lk.dep # 0 PROVE FALSE
    OBVIOUS
  <1>2. lk.own \in Live /\ InRegion(lk.own) /\ pcur \in Live
    BY <1>1 DEF IInv, LockInv, LockExcludes, TypeOK, LockTypes
  <1>3. lk.own # pcur
    BY <1>2 DEF InRegion
  <1>4. pnlive >= 2
    BY <1>2, <1>3, TwoLive
  <1>5. pnlive \in Nat
    BY ProcsFinite, LiveProcs DEF pnlive
  <1>6. QED BY <1>1, <1>3, <1>4, <1>5 DEF LockFree

(* Taking the lock, from the loop of plock() into the region.              *)
LEMMA AcquireStep ==
  ASSUME IInv, NEW c \in {"fs", "load"}, ctx[pcur] = c, at[pcur] = "lock",
         LockFree, plock, Goto(c, "run"), UNCHANGED <<pcur, pd_state, job>>
  PROVE  LockInv' /\ lk' \in [own : Procs \cup {-1}, dep : Nat]
  <1>1. lk.dep = 0 /\ lk' = [own |-> pcur, dep |-> 1]
    BY FreeMeansFree DEF plock
  <1>2. /\ c \in Ctxs /\ "run" \in Sites /\ pcur \in Live /\ pcur \in Procs
    BY DEF Ctxs, Sites, IInv, LockInv, TypeOK, SchedTypes
  <1>3. /\ ctx'[pcur] = c /\ at'[pcur] = "run"
        /\ \A p \in Procs \ {pcur} : ctx'[p] = ctx[p] /\ at'[p] = at[p]
    BY <1>2, GotoTypes
  <1>4. \A p \in Procs : ctx'[p] = ctx[p]
    BY <1>3
  <1>5. \A p \in Procs : ~ InRegion(p)
    BY <1>1 DEF IInv, LockInv, LockExcludes
  <1>6. LockExcludes'
    BY <1>1, <1>2, <1>3, <1>5 DEF LockExcludes, InRegion, Live
  <1>7. ClaimsHeld'
    BY <1>4 DEF IInv, LockInv, ClaimsHeld
  <1>8. QED
    BY <1>1, <1>2, <1>4, <1>6, <1>7 DEF IInv, LockInv, Live

(* Leaving the region: nobody else was in it, and the wait list is one.    *)
LEMMA ReleaseStep ==
  ASSUME IInv, InRegion(pcur), lk.dep = 1, NEW x \in WaitLists(Waits), punlock(x)
  PROVE  /\ lk' = [own |-> -1, dep |-> 0]
         /\ waits' \in WaitLists(Waits)
         /\ \A p \in Procs \ {pcur} : ~ InRegion(p)
  <1>1. lk' = [own |-> -1, dep |-> 0] /\ waits' = pwake(x, Wait("LOCK", 0))
    BY DEF punlock
  <1>2. waits' \in WaitLists(Waits)
    BY <1>1, Constants, pwakeType
  <1>3. pcur \in Procs
    BY DEF IInv, TypeOK, SchedTypes
  <1>4. \A p \in Procs \ {pcur} : ~ InRegion(p)
    BY <1>3 DEF IInv, LockInv, LockExcludes
  <1>5. QED BY <1>1, <1>2, <1>4

LEMMA Locking ==
  ASSUME IInv, FsAcquire \/ FsNest \/ FsUnnest \/ FsReturn
  PROVE  IInv'
  <1> USE DEF callVars, schedVars
  <1>1. /\ pcur \in Procs /\ pcur \in Live /\ waits \in WaitLists(Waits)
        /\ due \in SUBSET Procs /\ arg \in [Procs -> Cons]
        /\ job \in [Procs -> Jobs] /\ pd_state \in [Procs -> States]
        /\ lk \in [own : Procs \cup {-1}, dep : Nat] /\ pnoyld \in BOOLEAN
        /\ PageTypes /\ ConTypes /\ LockInv /\ SchedTypes /\ CallTypes
    BY DEF IInv, LockInv, TypeOK, SchedTypes, CallTypes, LockTypes
  <1>2. UNCHANGED pageVars => PageTypes'
    BY <1>1 DEF PageTypes, pageVars
  <1>3. UNCHANGED <<conVars, input>> => ConTypes'
    BY <1>1 DEF ConTypes, conVars
  <1>4. CASE FsAcquire
    <2>1. LockInv' /\ lk' \in [own : Procs \cup {-1}, dep : Nat]
      BY <1>4, AcquireStep DEF FsAcquire
    <2>2. at' \in [Procs -> Sites] /\ ctx' \in [Procs -> Ctxs]
      BY <1>4, GotoTypes DEF FsAcquire, Ctxs, Sites
    <2>3. SchedTypes' /\ CallTypes' /\ LockTypes'
      BY <1>1, <1>4, <2>1, <2>2, AwakeType
         DEF FsAcquire, SchedTypes, CallTypes, LockTypes
    <2>4. QED BY <1>2, <1>3, <1>4, <2>1, <2>3 DEF FsAcquire, IInv, TypeOK
  <1>5. CASE FsNest
    <2>1. InRegion(pcur)
      BY <1>5 DEF FsNest, Inside, InRegion
    <2>2. lk.own = pcur /\ lk' = [own |-> pcur, dep |-> lk.dep + 1]
      BY <1>1, <1>5, <2>1 DEF FsNest, plock, LockInv, LockExcludes
    <2>3. LockTypes' /\ lk'.dep > 0 /\ lk'.own = lk.own /\ lk.dep > 0
      BY <1>1, <1>5, <2>1, <2>2 DEF FsNest, LockTypes, LockInv, LockExcludes
    <2>4. LockInv'
      BY <1>1, <1>5, <2>3 DEF FsNest, LockInv, LockExcludes, ClaimsHeld, Live,
                              InRegion
    <2>5. SchedTypes' /\ CallTypes'
      BY <1>1, <1>5 DEF FsNest, SchedTypes, CallTypes
    <2>6. QED BY <1>2, <1>3, <1>5, <2>3, <2>4, <2>5 DEF FsNest, IInv, TypeOK
  <1>6. CASE FsUnnest
    <2>1. lk' = [lk EXCEPT !.dep = @ - 1] /\ waits' = waits /\ lk.dep > 1
      BY <1>1, <1>6 DEF FsUnnest, punlock
    <2>2. LockTypes' /\ lk'.dep > 0 /\ lk'.own = lk.own /\ lk.dep > 0
      BY <1>1, <1>6, <2>1 DEF FsUnnest, LockTypes
    <2>3. LockInv'
      BY <1>1, <1>6, <2>2 DEF FsUnnest, LockInv, LockExcludes, ClaimsHeld, Live,
                              InRegion
    <2>4. SchedTypes' /\ CallTypes'
      BY <1>1, <1>6, <2>1 DEF FsUnnest, SchedTypes, CallTypes
    <2>5. QED BY <1>2, <1>3, <1>6, <2>2, <2>3, <2>4 DEF FsUnnest, IInv, TypeOK
  <1>7. CASE FsReturn
    <2>1. InRegion(pcur) /\ lk.dep = 1 /\ punlock(waits) /\ Goto("user", "run")
      BY <1>7 DEF FsReturn, Inside, InRegion
    <2>2. /\ lk' = [own |-> -1, dep |-> 0] /\ waits' \in WaitLists(Waits)
          /\ \A p \in Procs \ {pcur} : ~ InRegion(p)
      BY <1>1, <2>1, ReleaseStep
    <2>3. /\ at' \in [Procs -> Sites] /\ ctx' \in [Procs -> Ctxs]
          /\ ctx'[pcur] = "user"
          /\ \A p \in Procs \ {pcur} : ctx'[p] = ctx[p] /\ at'[p] = at[p]
      BY <2>1, GotoTypes DEF Ctxs, Sites
    <2>4. SchedTypes' /\ CallTypes' /\ LockTypes'
      BY <1>1, <1>7, <2>2, <2>3 DEF FsReturn, SchedTypes, CallTypes, LockTypes
    <2>5. LockExcludes'
      BY <2>2, <2>3 DEF LockExcludes, InRegion
    <2>6. ClaimsHeld'
      BY <1>1, <1>7, <2>3 DEF FsReturn, LockInv, ClaimsHeld
    <2>7. LockInv'
      BY <1>1, <1>7, <2>3, <2>5, <2>6 DEF FsReturn, LockInv, Live
    <2>8. QED BY <1>2, <1>3, <1>7, <2>4, <2>7 DEF FsReturn, IInv, TypeOK
  <1>8. QED BY <1>4, <1>5, <1>6, <1>7

-----------------------------------------------------------------------------
(* Creation.                                                               *)

LEMMA FreeSlotIsFree ==
  ASSUME Unclaimed # {}
  PROVE  FreeSlot \in Procs /\ pd_state[FreeSlot] = "FREE"
  <1>1. Unclaimed \subseteq Nat
    BY NPAssumption DEF Procs, Unclaimed
  <1>2. \E q \in Unclaimed : \A r \in Unclaimed : q <= r
    BY <1>1, NatMinimum
  <1>3. FreeSlot \in Unclaimed
    BY <1>2 DEF FreeSlot
  <1>4. QED BY <1>3 DEF Unclaimed

LEMMA Claiming ==
  ASSUME IInv, NEW con \in {-1} \cup Cons, NEW sess \in BOOLEAN, Claim(con, sess)
  PROVE  IInv'
  <1> DEFINE kid == FreeSlot
  <1>1. /\ pcur \in Procs /\ pcur \in Live /\ SchedTypes /\ CallTypes /\ PageTypes
        /\ LockInv /\ pool \in Pools(NP) /\ pd_state \in [Procs -> States]
        /\ job \in [Procs -> Jobs]
    BY DEF IInv, LockInv, TypeOK, SchedTypes, CallTypes, PageTypes
  <1>2. kid \in Procs /\ pd_state[kid] = "FREE"
    BY FreeSlotIsFree DEF Claim
  <1> HIDE DEF kid
  <1>3. /\ pd_state' = [pd_state EXCEPT ![kid] = "RSVD"]
        /\ job' = [job EXCEPT ![pcur] = [kid |-> kid, seg |-> pgfirst(pool),
                                         con |-> con, sess |-> sess]]
        /\ pgfirst(pool) \in Slots /\ pool' = pgalloc(pool, pcur)
        /\ Goto("load", "lock") /\ ctx[pcur] = "user"
        /\ UNCHANGED <<pcur, waits, arg, due, lk, pnoyld, pd_seg, seglist,
                       pd_mrtseg, image, conVars, input>>
    BY pgfirstFree DEF Claim, kid, InUser, lockVars
  <1>4. /\ at' \in [Procs -> Sites] /\ ctx' \in [Procs -> Ctxs]
        /\ ctx'[pcur] = "load" /\ at'[pcur] = "lock"
        /\ \A p \in Procs \ {pcur} : ctx'[p] = ctx[p] /\ at'[p] = at[p]
    BY <1>3, GotoTypes DEF Ctxs, Sites
  <1>5. Live' = Live
    BY <1>1, <1>2, <1>3 DEF Live
  <1>6. SchedTypes'
    BY <1>1, <1>3 DEF SchedTypes, States
  <1>7. CallTypes'
    BY <1>1, <1>2, <1>3, <1>4 DEF CallTypes, Jobs
  <1>8. LockTypes' /\ ConTypes'
    BY <1>3 DEF IInv, TypeOK, LockTypes, ConTypes, conVars
  <1>9. PageTypes'
    <2>1. pool' \in Pools(NP)
      BY <1>1, <1>3, Constants, pgallocType
    <2>2. QED BY <1>1, <1>3, <2>1 DEF PageTypes
  <1>10. ClaimsHeld'
    <2>1. \A p \in Procs \ {pcur} : ctx'[p] = "load" =>
             /\ job'[p] = job[p] /\ job[p].kid \in Procs /\ job[p].kid # kid
             /\ pd_state'[job[p].kid] = "RSVD"
      BY <1>1, <1>2, <1>3, <1>4 DEF LockInv, ClaimsHeld
    <2>2. job'[pcur].kid = kid /\ pd_state'[kid] = "RSVD"
      BY <1>1, <1>2, <1>3
    <2>3. \A p, q \in Procs \ {pcur} :
             ctx'[p] = "load" /\ ctx'[q] = "load" /\ p # q =>
               job'[p].kid # job'[q].kid
      BY <1>1, <2>1, <1>4 DEF LockInv, ClaimsHeld
    <2>4. QED BY <1>2, <2>1, <2>2, <2>3 DEF ClaimsHeld
  <1>11. \A p \in Procs : InRegion(p)' <=> InRegion(p)
    BY <1>3, <1>4 DEF InRegion
  <1>12. LockExcludes'
    BY <1>1, <1>3, <1>5, <1>11, LiveProcs DEF LockInv, LockExcludes
  <1>13. LockInv'
    BY <1>1, <1>3, <1>4, <1>5, <1>10, <1>12 DEF LockInv
  <1>14. QED BY <1>6, <1>7, <1>8, <1>9, <1>13 DEF IInv, TypeOK

LEMMA Beginning ==
  ASSUME IInv, LoadBegin
  PROVE  IInv'
  <1>1. /\ pcur \in Procs /\ SchedTypes /\ CallTypes /\ PageTypes /\ ConTypes
        /\ pool \in Pools(NP) /\ image \in [Pages -> Images]
        /\ job[pcur].kid \in Procs /\ job[pcur].seg \in {0} \cup Slots
    BY DEF LoadBegin, IInv, LockInv, ClaimsHeld, TypeOK, SchedTypes, CallTypes,
           PageTypes, Jobs, NoJob
  <1>2. LockInv' /\ lk' \in [own : Procs \cup {-1}, dep : Nat]
    BY AcquireStep DEF LoadBegin
  <1>3. at' \in [Procs -> Sites] /\ ctx' \in [Procs -> Ctxs]
    BY GotoTypes DEF LoadBegin, Ctxs, Sites
  <1>4. SchedTypes' /\ CallTypes' /\ LockTypes'
    BY <1>1, <1>2, <1>3, AwakeType
       DEF LoadBegin, SchedTypes, CallTypes, LockTypes
  <1>5. PageTypes'
    <2>1. pool' \in Pools(NP)
      BY <1>1, Constants, pgtpaswapType DEF LoadBegin
    <2>2. image' = [image EXCEPT ![pool'.tpa] = Tpa(job[pcur].kid)]
          /\ Tpa(job[pcur].kid) \in Images
      BY <1>1 DEF LoadBegin, Images
    <2>3. image' \in [Pages -> Images]
      BY <1>1, <2>2
    <2>4. pd_seg' \in [Procs -> {0} \cup Slots]
      BY <1>1 DEF LoadBegin, PageTypes
    <2>5. QED BY <1>1, <2>1, <2>3, <2>4 DEF LoadBegin, PageTypes
  <1>6. ConTypes'
    BY <1>1 DEF LoadBegin, ConTypes, conVars
  <1>7. QED BY <1>2, <1>4, <1>5, <1>6 DEF IInv, TypeOK

(* The end of a load: the descriptor the creation claimed becomes s, and   *)
(* its creator goes back to its program.                                   *)
LEMMA LoadedStep ==
  ASSUME IInv, Inside("load"), lk' = [own |-> -1, dep |-> 0],
         \A p \in Procs \ {pcur} : ~ InRegion(p),
         NEW s \in {"LIVE", "FREE"},
         pd_state' = [pd_state EXCEPT ![job[pcur].kid] = s],
         job' = [job EXCEPT ![pcur] = NoJob], pcur' = pcur,
         ctx'[pcur] = "user",
         \A p \in Procs \ {pcur} : \/ ctx'[p] = ctx[p] /\ at'[p] = at[p]
                                   \/ ctx'[p] = "user"
  PROVE  LockInv'
  <1> DEFINE kid == job[pcur].kid
  <1>1. /\ pcur \in Procs /\ pcur \in Live /\ pd_state \in [Procs -> States]
        /\ job \in [Procs -> Jobs] /\ LockInv
        /\ kid \in Procs /\ pd_state[kid] = "RSVD" /\ ctx[pcur] = "load"
    BY DEF IInv, LockInv, TypeOK, SchedTypes, CallTypes, ClaimsHeld, Inside, Live
  <1>2. kid # pcur /\ ctx[kid] = "user" /\ pcur \in Live'
    BY <1>1 DEF LockInv, Live
  <1>3. \A p \in Procs \ Live' : ctx'[p] = "user"
    BY <1>1, <1>2 DEF LockInv, Live
  <1>4. ClaimsHeld'
    <2>1. ASSUME NEW p \in Procs, ctx'[p] = "load"
          PROVE  /\ p # pcur /\ ctx[p] = "load" /\ job'[p] = job[p]
                 /\ job[p].kid # kid
      BY <1>1, <2>1 DEF LockInv, ClaimsHeld
    <2>2. \A p \in Procs : ctx'[p] = "load" => job'[p].kid \in Procs
                                               /\ pd_state'[job'[p].kid] = "RSVD"
      BY <1>1, <2>1 DEF LockInv, ClaimsHeld
    <2>3. \A p, q \in Procs : ctx'[p] = "load" /\ ctx'[q] = "load" /\ p # q =>
             job'[p].kid # job'[q].kid
      BY <1>1, <2>1 DEF LockInv, ClaimsHeld
    <2>4. QED BY <2>2, <2>3 DEF ClaimsHeld
  <1>5. LockExcludes'
    BY DEF LockExcludes, InRegion
  <1>6. QED BY <1>2, <1>3, <1>4, <1>5 DEF LockInv

LEMMA Loading ==
  ASSUME IInv, LoadOk \/ LoadFail
  PROVE  IInv'
  <1> DEFINE kid == job[pcur].kid
             seg == job[pcur].seg
             con == IF job[pcur].con < 0 THEN pd_con[pcur] ELSE job[pcur].con
             x   == [waits EXCEPT !.on[kid] = Run]
  <1>1. Inside("load") /\ lk.dep = 1 /\ InRegion(pcur)
    BY DEF LoadOk, LoadFail, Unload, Inside, InRegion
  <1>2. /\ pcur \in Procs /\ pcur \in Live /\ pd_state \in [Procs -> States]
        /\ waits \in WaitLists(Waits) /\ pool \in Pools(NP)
        /\ pd_seg \in [Procs -> {0} \cup Slots] /\ job \in [Procs -> Jobs]
        /\ pd_con \in [Procs -> Cons] /\ NoJob \in Jobs
        /\ SchedTypes /\ CallTypes /\ PageTypes /\ ConTypes
    BY DEF IInv, LockInv, TypeOK, SchedTypes, CallTypes, PageTypes, ConTypes, Jobs
  <1>3. /\ job[pcur] # NoJob => /\ seg \in Slots /\ job[pcur].sess \in BOOLEAN
                                /\ job[pcur].con \in {-1} \cup Cons
        /\ kid \in Procs
    BY <1>1, <1>2 DEF IInv, LockInv, ClaimsHeld, Inside, Jobs
  <1>4. /\ seg \in Slots /\ job[pcur].sess \in BOOLEAN /\ con \in Cons
    <2>1. job[pcur] # NoJob
      BY <1>3, NPAssumption DEF NoJob, Procs
    <2>2. \A c \in Cons : ~ (c < 0)
      BY NCONAssumption DEF Cons
    <2>3. QED BY <1>2, <1>3, <2>1, <2>2
  <1>5. x \in WaitLists(Waits)
    <2>1. waits.on \in [Procs -> Waits] /\ waits.count \in Int
      BY <1>2 DEF WaitLists
    <2>2. [waits.on EXCEPT ![kid] = Run] \in [Procs -> Waits]
      BY <2>1, Constants
    <2>3. x = [on |-> [waits.on EXCEPT ![kid] = Run], count |-> waits.count]
      BY <1>2 DEF WaitLists
    <2>4. QED BY <2>1, <2>2, <2>3 DEF WaitLists
  <1>6. [job EXCEPT ![pcur] = NoJob] \in [Procs -> Jobs]
    BY <1>2
  <1> HIDE DEF kid, seg, con, x
  <1>7. CASE LoadOk
    <2>1. /\ punlock(x)
          /\ pool' = pghold(pgtpaswap(pool, seg), seg, TRUE)
          /\ pnoyld' = FALSE
          /\ job' = [job EXCEPT ![pcur] = NoJob]
          /\ pd_seg' = [pd_seg EXCEPT ![pcur] = 0, ![kid] = seg]
          /\ pd_state' = [pd_state EXCEPT ![kid] = "LIVE"]
          /\ pd_con' = [pd_con EXCEPT ![kid] = con]
          /\ pd_chome' = [pd_chome EXCEPT ![kid] = con]
          /\ pd_sess' = [pd_sess EXCEPT ![kid] = job[pcur].sess]
          /\ ctx' = [ctx EXCEPT ![pcur] = "user", ![kid] = "user"]
          /\ at' = [at EXCEPT ![pcur] = "run", ![kid] = "run"]
          /\ UNCHANGED <<pcur, arg, due, seglist, pd_mrtseg, image, pd_catt, input>>
      BY <1>7 DEF LoadOk, Inherited, Unload, kid, seg, con, x
    <2>2. /\ lk' = [own |-> -1, dep |-> 0] /\ waits' \in WaitLists(Waits)
          /\ \A p \in Procs \ {pcur} : ~ InRegion(p)
      BY <1>1, <1>5, <2>1, ReleaseStep
    <2>3. /\ at' \in [Procs -> Sites] /\ ctx' \in [Procs -> Ctxs]
          /\ ctx'[pcur] = "user"
          /\ \A p \in Procs \ {pcur} : \/ ctx'[p] = ctx[p] /\ at'[p] = at[p]
                                       \/ ctx'[p] = "user"
      BY <1>2, <1>3, <2>1 DEF CallTypes, Ctxs, Sites
    <2>4. LockInv'
      BY <1>1, <2>1, <2>2, <2>3, LoadedStep DEF kid
    <2>5. SchedTypes' /\ LockTypes'
      BY <1>2, <2>1, <2>2 DEF SchedTypes, LockTypes, States
    <2>6. CallTypes'
      BY <1>2, <1>6, <2>1, <2>3 DEF CallTypes
    <2>7. PageTypes'
      <3>1. pool' \in Pools(NP)
        BY <1>2, <2>1, Constants, pgholdType, pgtpaswapType
      <3>2. pd_seg' \in [Procs -> {0} \cup Slots]
        BY <1>2, <1>4, <2>1
      <3>3. QED BY <1>2, <2>1, <3>1, <3>2 DEF PageTypes
    <2>8. ConTypes'
      BY <1>2, <1>4, <2>1 DEF ConTypes
    <2>9. QED BY <2>4, <2>5, <2>6, <2>7, <2>8 DEF IInv, TypeOK
  <1>8. CASE LoadFail
    <2>1. /\ punlock(waits)
          /\ pool' = pgfree(pgtpaswap(pool, seg), seg)
          /\ pnoyld' = FALSE
          /\ job' = [job EXCEPT ![pcur] = NoJob]
          /\ pd_seg' = [pd_seg EXCEPT ![pcur] = 0]
          /\ pd_state' = [pd_state EXCEPT ![kid] = "FREE"]
          /\ Goto("user", "run")
          /\ UNCHANGED <<pcur, arg, due, seglist, pd_mrtseg, image, conVars, input>>
      BY <1>8 DEF LoadFail, Unload, kid, seg
    <2>2. /\ lk' = [own |-> -1, dep |-> 0] /\ waits' \in WaitLists(Waits)
          /\ \A p \in Procs \ {pcur} : ~ InRegion(p)
      BY <1>1, <1>2, <2>1, ReleaseStep
    <2>3. /\ at' \in [Procs -> Sites] /\ ctx' \in [Procs -> Ctxs]
          /\ ctx'[pcur] = "user"
          /\ \A p \in Procs \ {pcur} : ctx'[p] = ctx[p] /\ at'[p] = at[p]
      BY <2>1, GotoTypes DEF Ctxs, Sites
    <2>4. LockInv'
      BY <1>1, <2>1, <2>2, <2>3, LoadedStep DEF kid
    <2>5. SchedTypes' /\ LockTypes'
      BY <1>2, <2>1, <2>2 DEF SchedTypes, LockTypes, States
    <2>6. CallTypes'
      BY <1>2, <1>6, <2>1, <2>3 DEF CallTypes
    <2>7. PageTypes'
      <3>1. pool' \in Pools(NP)
        BY <1>2, <2>1, Constants, pgfreeType, pgtpaswapType
      <3>2. QED BY <1>2, <2>1, <3>1, Constants DEF PageTypes
    <2>8. ConTypes'
      BY <1>2, <2>1 DEF ConTypes, conVars
    <2>9. QED BY <2>4, <2>5, <2>6, <2>7, <2>8 DEF IInv, TypeOK
  <1>9. QED BY <1>7, <1>8

-----------------------------------------------------------------------------
(* Endings.                                                                *)

LEMMA GiveBackTypes ==
  ASSUME IInv, GiveBack
  PROVE  /\ waits' \in WaitLists(Waits) /\ CallTypes'
         /\ LockTypes' /\ pd_mrtseg' \in [Procs -> {0} \cup Slots]
         /\ seglist' \in [Procs -> SUBSET Slots]
         /\ input' \in SUBSET Cons => ConTypes'
  <1> DEFINE catt == [pd_catt EXCEPT ![pcur] = @ \ Surrendered]
  <1>1. /\ pcur \in Procs /\ CallTypes /\ LockTypes /\ PageTypes /\ ConTypes
        /\ pd_catt \in [Procs -> SUBSET Cons] /\ Awake \in WaitLists(Waits)
    BY AwakeType DEF IInv, TypeOK, SchedTypes, ConTypes
  <1>2. Dropped \in WaitLists(Waits)
    BY <1>1, Constants, pwakeType DEF Dropped
  <1>3. /\ catt \in [Procs -> SUBSET Cons]
        /\ Surrendered \in SUBSET Cons
    BY <1>1 DEF Surrendered
  <1>4. pconhand(Dropped, Surrendered, catt)
    BY DEF GiveBack
  <1> HIDE DEF catt
  <1>5. waits' \in WaitLists(Waits) /\ pd_catt' \in [Procs -> SUBSET Cons]
    BY <1>1, <1>2, <1>3, <1>4, pconhandTypes
  <1>6. CallTypes'
    <2>1. at' \in [Procs -> Sites] /\ ctx' \in [Procs -> Ctxs]
      BY GotoTypes DEF GiveBack, Ctxs, Sites
    <2>2. job' \in [Procs -> Jobs]
      BY <1>1 DEF GiveBack, CallTypes, Jobs
    <2>3. arg' \in [Procs -> Cons] /\ due' \in SUBSET Procs
      BY <1>1 DEF GiveBack, CallTypes
    <2>4. QED BY <2>1, <2>2, <2>3 DEF CallTypes
  <1>7. LockTypes'
    BY <1>1 DEF GiveBack, LockTypes
  <1>8. /\ pd_mrtseg' \in [Procs -> {0} \cup Slots]
        /\ seglist' \in [Procs -> SUBSET Slots]
    BY <1>1 DEF GiveBack, PageTypes
  <1>9. input' \in SUBSET Cons => ConTypes'
    BY <1>1, <1>5 DEF GiveBack, ConTypes
  <1>10. QED BY <1>5, <1>6, <1>7, <1>8, <1>9

(* Whatever point a program ends at, nobody is left in a region without    *)
(* the lock, and the lock is not left with the dead.                       *)
LEMMA GiveBackLock ==
  ASSUME IInv, GiveBack, pcur' \in Live',
         \/ pd_state' = pd_state
         \/ pd_state' = [pd_state EXCEPT ![pcur] = "FREE"]
  PROVE  LockInv'
  <1>1. /\ pcur \in Procs /\ pd_state[pcur] = "LIVE" /\ LockInv /\ LockTypes
        /\ job \in [Procs -> Jobs] /\ pd_state \in [Procs -> States]
    BY DEF IInv, LockInv, TypeOK, SchedTypes, CallTypes, Live
  <1>2. /\ ctx'[pcur] = "user"
        /\ \A p \in Procs \ {pcur} : ctx'[p] = ctx[p] /\ at'[p] = at[p]
    BY GotoTypes DEF GiveBack, Ctxs, Sites
  <1>3. \A p \in Procs \ {pcur} : job'[p] = job[p] /\ pd_state'[p] = pd_state[p]
    BY <1>1 DEF GiveBack
  <1>4. \A p \in Procs \ Live' : ctx'[p] = "user"
    BY <1>1, <1>2, <1>3 DEF LockInv, Live
  <1>5. ClaimsHeld'
    <2>1. ASSUME NEW p \in Procs, ctx'[p] = "load"
          PROVE  /\ p # pcur /\ ctx[p] = "load" /\ job'[p] = job[p]
                 /\ job[p].kid \in Procs /\ job[p].kid # pcur
                 /\ pd_state'[job[p].kid] = "RSVD"
      BY <1>1, <1>2, <1>3, <2>1 DEF LockInv, ClaimsHeld
    <2>2. \A p, q \in Procs : ctx'[p] = "load" /\ ctx'[q] = "load" /\ p # q =>
             job'[p].kid # job'[q].kid
      BY <1>1, <2>1 DEF LockInv, ClaimsHeld
    <2>3. QED BY <2>1, <2>2 DEF ClaimsHeld
  <1>6. \A p \in Procs : InRegion(p)' <=> p # pcur /\ InRegion(p)
    BY <1>1, <1>2 DEF InRegion
  <1>7. LockExcludes'
    <2>1. CASE lk.dep # 0 /\ lk.own = pcur
      <3>1. lk' = [own |-> -1, dep |-> 0]
        BY <2>1 DEF GiveBack
      <3>2. \A p \in Procs \ {pcur} : ~ InRegion(p)
        BY <1>1, <2>1 DEF LockInv, LockExcludes
      <3>3. QED BY <1>6, <3>1, <3>2 DEF LockExcludes
    <2>2. CASE ~ (lk.dep # 0 /\ lk.own = pcur)
      <3>1. lk' = lk
        BY <2>2 DEF GiveBack
      <3>2. \A p \in Procs : InRegion(p)' => lk.dep > 0 /\ lk.own = p
        BY <1>1, <1>6 DEF LockInv, LockExcludes
      <3>3. ASSUME lk.dep > 0 PROVE lk'.own \in Live' /\ InRegion(lk.own)'
        <4>1. lk.own \in Live /\ InRegion(lk.own)
          BY <1>1, <3>3 DEF LockInv, LockExcludes
        <4>2. lk.own \in Procs \ {pcur}
          BY <1>1, <2>2, <3>3, <4>1 DEF Live, LockTypes
        <4>3. pd_state'[lk.own] = "LIVE"
          BY <1>3, <4>1, <4>2 DEF Live
        <4>4. InRegion(lk.own)'
          BY <1>6, <3>1, <4>1, <4>2
        <4>5. QED BY <3>1, <4>2, <4>3, <4>4 DEF Live
      <3>4. QED BY <3>1, <3>2, <3>3 DEF LockExcludes
    <2>3. QED BY <2>1, <2>2
  <1>8. QED BY <1>4, <1>5, <1>7 DEF LockInv

LEMMA Ending ==
  ASSUME IInv, WarmBoot, input' \in SUBSET Cons
  PROVE  IInv'
  <1>1. /\ pcur \in Procs /\ pcur \in Live /\ pd_state \in [Procs -> States]
        /\ pool \in Pools(NP) /\ pd_seg \in [Procs -> {0} \cup Slots]
        /\ image \in [Pages -> Images] /\ SchedTypes /\ PageTypes
    BY DEF IInv, LockInv, TypeOK, SchedTypes, PageTypes
  <1>2. GiveBack
    BY DEF WarmBoot, Reload, Die
  <1>3. /\ waits' \in WaitLists(Waits) /\ CallTypes' /\ LockTypes' /\ ConTypes'
        /\ pd_mrtseg' \in [Procs -> {0} \cup Slots]
        /\ seglist' \in [Procs -> SUBSET Slots]
    BY <1>2, GiveBackTypes
  <1>4. \A m \in Pools(NP) : \A s : pgfree(m, s) \in Pools(NP)
    BY Constants, pgfreeType
  <1>5. CASE Reload
    <2>1. pool' \in Pools(NP)
      BY <1>1, <1>4, <1>5, Constants, pgrelallType DEF Reload
    <2>2. image' \in [Pages -> Images]
      BY <1>1, <1>5, <2>1 DEF Reload, Images
    <2>3. PageTypes'
      BY <1>1, <1>3, <1>5, <2>1, <2>2 DEF Reload, PageTypes
    <2>4. SchedTypes'
      BY <1>1, <1>3, <1>5 DEF Reload, SchedTypes
    <2>5. LockInv'
      BY <1>1, <1>2, <1>5, GiveBackLock DEF Reload, Live
    <2>6. QED BY <1>3, <2>3, <2>4, <2>5 DEF IInv, TypeOK
  <1>6. CASE Die
    <2> DEFINE nxt == pnextany(pcur)
               seg == pd_seg[nxt]
               rel == pgrelproc(pgfree(pool, pd_mrtseg[pcur]), pcur)
    <2>1. nxt \in Live \ {pcur}
      <3>1. pnlive >= 2
        <4>1. pnlive \in Nat
          BY ProcsFinite, LiveProcs DEF pnlive
        <4>2. QED BY <1>6, <4>1 DEF Die, Stays
      <3>2. QED BY <1>1, <3>1, pnextanyOther
    <2>2. rel \in Pools(NP)
      BY <1>1, <1>4, Constants, pgrelprocType
    <2> HIDE DEF nxt, rel
    <2>3. pgfree(pghold(pgtpaswap(rel, seg), seg, FALSE), seg) \in Pools(NP)
      BY <2>2, <1>4, Constants, pgtpaswapType, pgholdType
    <2>4. /\ pool' = pgfree(pghold(pgtpaswap(rel, seg), seg, FALSE), seg)
          /\ pd_seg' = [pd_seg EXCEPT ![nxt] = 0, ![pcur] = 0]
          /\ pd_state' = [pd_state EXCEPT ![pcur] = "FREE"]
          /\ pcur' = nxt /\ image' = image
      BY <1>6 DEF Die, nxt, rel
    <2>5. PageTypes'
      BY <1>1, <1>3, <2>3, <2>4 DEF PageTypes
    <2>6. SchedTypes'
      BY <1>1, <1>3, <2>1, <2>4, LiveProcs DEF SchedTypes, States
    <2>7. pcur' \in Live'
      BY <1>1, <2>1, <2>4 DEF Live
    <2>8. LockInv'
      BY <1>2, <2>4, <2>7, GiveBackLock
    <2>9. QED BY <1>3, <2>5, <2>6, <2>8 DEF IInv, TypeOK
  <1>7. QED BY <1>5, <1>6 DEF WarmBoot

-----------------------------------------------------------------------------
(* Every step keeps the invariant.                                         *)

LEMMA Inductive == IInv /\ [Next]_vars => IInv'
  <1> SUFFICES ASSUME IInv, [Next]_vars PROVE IInv'
    OBVIOUS
  <1>1. CASE UNCHANGED vars
    BY <1>1 DEF vars, schedVars, callVars, lockVars, pageVars, conVars, IInv,
                TypeOK, SchedTypes, CallTypes, LockTypes, PageTypes, ConTypes,
                LockInv, ClaimsHeld, LockExcludes, InRegion, Live
  <1>2. CASE Preempt
    BY <1>2, Preemption
  <1>3. CASE Lock
    BY <1>3, EntersCall, Waiting, Locking DEF Lock
  <1>4. CASE Console
    BY <1>4, EntersCall, InsideCall, Waiting, ConsoleQuiet DEF Console
  <1>5. CASE Timed
    BY <1>5, EntersCall, InsideCall, Waiting DEF Timed
  <1>6. CASE Memory
    BY <1>6, Segments DEF Memory
  <1>7. CASE Life
    <2>1. input \in SUBSET Cons
      BY DEF IInv, TypeOK, ConTypes
    <2>2. CASE pcreate
      BY <2>2, Claiming DEF pcreate
    <2>3. ASSUME NEW c \in Cons, psession(c) PROVE IInv'
      BY <2>3, Claiming DEF psession
    <2>4. CASE Exit
      BY <2>1, <2>4, Ending DEF Exit
    <2>5. CASE Abort
      BY <2>1, <2>5, Ending DEF Abort, GetcTakes
    <2>6. CASE LoadBegin \/ LoadOk \/ LoadFail
      BY <2>6, Beginning, Loading
    <2>7. QED BY <1>7, <2>2, <2>3, <2>4, <2>5, <2>6 DEF Life
  <1>8. CASE World
    BY <1>8, ConsoleQuiet DEF World
  <1>9. QED
    BY <1>1, <1>2, <1>3, <1>4, <1>5, <1>6, <1>7, <1>8 DEF Next, Running

(* The kernel's types hold throughout, whatever programs and operators do. *)
THEOREM TypesCorrect == Spec => []TypeOK
  <1>1. IInv => TypeOK
    BY DEF IInv
  <1>2. QED BY InitInv, Inductive, <1>1, PTL DEF Spec

(* Mutual exclusion: plock(), punlock(), plkdrop() and pcrgen() keep one    *)
(* live process in a locked region, the one lkown names, for any number of *)
(* processes -- error prompts answered or given up included.               *)
THEOREM LockIsExclusive == Spec => []LockExcludes
  <1>1. IInv => LockExcludes
    BY DEF IInv, LockInv
  <1>2. QED BY InitInv, Inductive, <1>1, PTL DEF Spec

=============================================================================
