--------------------------- MODULE ProcInvariants ----------------------------
(***************************************************************************)
(* The process kernel, for every number of descriptors and slots.          *)
(*                                                                         *)
(* First the wait list, whatever programs and operators do: the counter is *)
(* exact, and no wake-up of the file-system lock is lost.  Then the        *)
(* ownership of consoles, through the deaths of background programs.  Then *)
(* the pages: every live image is where its descriptor says, programs keep *)
(* their segments, and no slot leaks.                                      *)
(*                                                                         *)
(* The part on pages has two hypotheses, each the absence of one thing the *)
(* code does not defend itself against: nobody gives up at an error prompt *)
(* inside a load ("abort" is no answer there; run load_abort shows what it *)
(* does), and programs free the segments they were given and no others     *)
(* (pgfree() does not ask whose a slot is).                                *)
(***************************************************************************)
EXTENDS ProcProofs

LockWait0 == Wait("LOCK", 0)

(* Who waits for the lock is in the loop of plock(), and the lock is held. *)
LockSeekers ==
  \A p \in Procs : waits.on[p] = LockWait0 => at[p] = "lock" /\ lk.dep > 0

(* The inductive invariant of the wait list.  The counter is exact because *)
(* every handler that unblocks a process knows it blocked; the lock's part *)
(* needs the place of the waiter, for a warm boot to find it elsewhere.    *)
WInv == WaitCount /\ LockSeekers

WI == IInv /\ WInv

LEMMA WaitFacts ==
  ASSUME WI
  PROVE  /\ pcur \in Procs /\ pcur \in Live
         /\ waits \in WaitLists(Waits) /\ Exact(waits) /\ Blocked(waits) \subseteq Live
         /\ \A p \in Procs \ Live : waits.on[p] = Run
         /\ lk.dep \in Nat
  BY DEF WI, IInv, LockInv, TypeOK, SchedTypes, LockTypes, WInv, WaitCount, Exact,
         Blocked

LEMMA WaitKinds ==
  /\ LockWait0 # Run /\ Run \notin Events /\ LockWait0 \in Waits
  /\ \A c : Wait("CATT", c) # Run /\ Wait("CATT", c) # LockWait0
  /\ \A c : Wait("CON", c) # Run /\ Wait("CON", c) # LockWait0
  /\ \A p : Wait("TICK", p) # Run /\ Wait("TICK", p) # LockWait0
  /\ \A c, d : Wait("CATT", c) = Wait("CATT", d) => c = d
  /\ \A c, d : Wait("CATT", c) # Wait("CON", d) /\ Wait("CATT", c) # Wait("TICK", d)
  BY DEF LockWait0, Wait, Run, Events, Waits

(* A step that ends with an exact list, thinner than some list whose       *)
(* blocked processes are alive after the step.                             *)
LEMMA WStep ==
  ASSUME Exact(waits)', Blocked(waits)' \subseteq Live', LockSeekers'
  PROVE  WInv'
  BY DEF WInv, WaitCount, Exact

(* pwait(): whatever the sweep and the choice of the next process, the     *)
(* list is the old one with the running process added, thinned.            *)
LEMMA pwaitThins ==
  ASSUME WI, NEW w \in Waits, w # Run, pwait(w)
  PROVE  /\ Exact(waits') /\ Blocked(waits') \subseteq Live
         /\ \A q \in Procs : waits'.on[q] \in {Run, IF q = pcur THEN w ELSE waits.on[q]}
  <1> DEFINE x == pblock(waits, pcur, w)
             y == IF pnlive < 2 \/ pnoyld THEN x ELSE pwscan(x, Events)
             z == IF pnlive < 2 \/ pnoyld \/ pnext(y, pcur) = pcur
                  THEN punblk(y, pcur) ELSE y
  <1>1. /\ x \in WaitLists(Waits) /\ Exact(x)
        /\ Blocked(x) = Blocked(waits) \cup {pcur}
        /\ \A q \in Procs : x.on[q] = IF q = pcur THEN w ELSE waits.on[q]
    BY WaitFacts, pblockType, pblockExact
  <1>2. waits' = z
    BY DEF pwait
  <1> HIDE DEF x
  <1>3. y \in WaitLists(Waits) /\ Exact(y) /\ Thinned(x, y)
    <2>1. pwscan(x, Events) \in WaitLists(Waits)
      BY <1>1, Constants, pwscanType
    <2>2. Exact(pwscan(x, Events)) /\ Thinned(x, pwscan(x, Events))
      BY <1>1, WaitKinds, pwscanExact
    <2>3. Thinned(x, x)
      BY DEF Thinned
    <2>4. QED BY <1>1, <2>1, <2>2, <2>3
  <1>4. Exact(punblk(y, pcur)) /\ Thinned(y, punblk(y, pcur))
    BY <1>3, WaitFacts, punblkExact
  <1> HIDE DEF y
  <1>5. Exact(z) /\ Thinned(x, z)
    BY <1>3, <1>4 DEF Thinned
  <1> HIDE DEF z
  <1>6. Blocked(z) \subseteq Live
    BY <1>1, <1>5, ThinnedBlocked, WaitFacts
  <1>7. \A q \in Procs : z.on[q] \in {Run, IF q = pcur THEN w ELSE waits.on[q]}
    BY <1>1, <1>5 DEF Thinned
  <1>8. QED BY <1>2, <1>5, <1>6, <1>7

LEMMA AwakeThins ==
  ASSUME WI
  PROVE  /\ Awake \in WaitLists(Waits) /\ Exact(Awake)
         /\ Awake.on[pcur] = Run /\ Blocked(Awake) \subseteq Live
         /\ \A q \in Procs \ {pcur} : Awake.on[q] = waits.on[q]
  <1>1. Exact(Awake) /\ Thinned(waits, Awake) /\ Awake.on[pcur] = Run
    BY WaitFacts, punblkExact DEF Awake
  <1>2. \A q \in Procs \ {pcur} : Awake.on[q] = waits.on[q]
    BY WaitFacts, punblkExact DEF Awake
  <1>3. Blocked(Awake) \subseteq Live
    BY <1>1, WaitFacts, ThinnedBlocked
  <1>4. QED BY <1>1, <1>2, <1>3, AwakeType DEF WI

-----------------------------------------------------------------------------
(* One lemma per group of actions.                                         *)

(* The list is left alone and so is the lock, or it stays held.            *)
LEMMA WUnchanged ==
  ASSUME WI, UNCHANGED <<pcur, waits>>, Live \subseteq Live', lk'.dep >= lk.dep,
         lk'.dep \in Nat,
         \A p \in Procs : at[p] = "lock" => at'[p] = "lock" \/ waits.on[p] # LockWait0
  PROVE  WInv'
  <1>1. Exact(waits)' /\ Blocked(waits)' \subseteq Live'
    BY WaitFacts DEF Exact, Blocked
  <1>2. LockSeekers'
    BY WaitFacts DEF WI, WInv, LockSeekers
  <1>3. QED BY <1>1, <1>2, WStep

(* The running process goes on from a wait, or comes out of plock().       *)
LEMMA WAwake ==
  ASSUME WI, waits' = Awake, UNCHANGED pd_state, lk'.dep >= lk.dep,
         lk'.dep \in Nat,
         \A p \in Procs \ {pcur} : at'[p] = at[p]
  PROVE  WInv'
  <1>1. Exact(waits)' /\ Blocked(waits)' \subseteq Live'
    BY AwakeThins DEF Exact, Blocked, Live
  <1>2. LockSeekers'
    BY AwakeThins, WaitFacts, WaitKinds DEF WI, WInv, LockSeekers
  <1>3. QED BY <1>1, <1>2, WStep

LEMMA WaitsKept ==
  ASSUME WI,
         \/ FsCall \/ FsNest \/ FsUnnest \/ FsError \/ Attach \/ ReadConsole
         \/ Delay \/ GetSegment \/ pmrtseg \/ pcreate
         \/ (\E s \in Slots : PutSegment(s)) \/ (\E c \in Cons : psession(c))
         \/ (\E p \in Procs, c \in Cons : Assign(p, c))
         \/ (\E c \in Cons : Key(c)) \/ (\E p \in Procs : Deadline(p))
  PROVE  WInv'
  <1> USE DEF callVars, schedVars, lockVars
  <1>1. /\ pcur \in Procs /\ lk.dep \in Nat /\ lk \in [own : Procs \cup {-1}, dep : Nat]
        /\ at \in [Procs -> Sites] /\ pd_state \in [Procs -> States]
    BY DEF WI, IInv, TypeOK, SchedTypes, CallTypes, LockTypes
  <1>2. UNCHANGED pd_state => Live \subseteq Live'
    BY DEF Live
  <1>3. lk' = lk => lk'.dep >= lk.dep /\ lk'.dep \in Nat
    BY <1>1
  <1>4. at[pcur] = "run" => waits.on[pcur] # LockWait0
    BY <1>1 DEF WI, WInv, LockSeekers
  <1>5. CASE FsCall
    <2>1. \A p \in Procs : at[p] = "lock" => at'[p] = "lock"
      BY <1>1, <1>5 DEF FsCall, Goto
    <2>2. QED BY <1>2, <1>3, <1>5, <2>1, WUnchanged DEF FsCall
  <1>6. CASE FsNest
    <2>1. lk'.dep = lk.dep + 1
      BY <1>6 DEF FsNest, plock
    <2>2. QED BY <1>1, <1>2, <1>6, <2>1, WUnchanged DEF FsNest
  <1>7. CASE FsUnnest
    <2>1. waits' = waits /\ lk'.dep = lk.dep - 1 /\ lk.dep > 1
      BY <1>1, <1>7 DEF FsUnnest, punlock
    <2>2. Exact(waits)' /\ Blocked(waits)' \subseteq Live'
      BY <2>1, <1>2, <1>7, WaitFacts DEF FsUnnest, Exact, Blocked
    <2>3. LockSeekers'
      BY <1>1, <1>7, <2>1 DEF FsUnnest, WI, WInv, LockSeekers
    <2>4. QED BY <2>2, <2>3, WStep
  <1>8. CASE FsError
    BY <1>1, <1>2, <1>3, <1>4, <1>8, WUnchanged DEF FsError, Inside, Goto
  <1>9. CASE Attach \/ ReadConsole \/ Delay
    BY <1>1, <1>2, <1>3, <1>4, <1>9, WUnchanged
       DEF Attach, ReadConsole, Delay, InUser, Goto
  <1>10. CASE GetSegment \/ pmrtseg \/ \E s \in Slots : PutSegment(s)
    BY <1>2, <1>3, <1>10, WUnchanged DEF GetSegment, pmrtseg, PutSegment
  <1>11. CASE pcreate \/ \E c \in Cons : psession(c)
    <2>1. PICK con, sess : Claim(con, sess)
      BY <1>11 DEF pcreate, psession
    <2>2. FreeSlot \in Procs /\ pd_state[FreeSlot] = "FREE"
      BY <2>1, FreeSlotIsFree DEF Claim
    <2>3. Live \subseteq Live'
      BY <1>1, <2>1, <2>2 DEF Claim, Live
    <2>4. QED BY <1>1, <1>3, <1>4, <2>1, <2>3, WUnchanged DEF Claim, InUser, Goto
  <1>12. CASE \/ \E p \in Procs, c \in Cons : Assign(p, c)
              \/ \E c \in Cons : Key(c)
              \/ \E p \in Procs : Deadline(p)
    BY <1>2, <1>3, <1>12, WUnchanged DEF Assign, Key, Deadline
  <1>13. QED BY <1>5, <1>6, <1>7, <1>8, <1>9, <1>10, <1>11, <1>12

LEMMA WaitsOver ==
  ASSUME WI,
         \/ FsAcquire \/ LoadBegin \/ ConTake \/ GetcAgain \/ GetcReturn \/ Retry
         \/ DelayEnd
  PROVE  WInv'
  <1> USE DEF lockVars
  <1>1. /\ pcur \in Procs /\ lk.dep \in Nat /\ at \in [Procs -> Sites]
    BY DEF WI, IInv, TypeOK, SchedTypes, CallTypes, LockTypes
  <1>2. lk' = lk => lk'.dep >= lk.dep /\ lk'.dep \in Nat
    BY <1>1
  <1>3. CASE FsAcquire \/ LoadBegin
    <2>1. lk'.dep = lk.dep + 1
      BY <1>3 DEF FsAcquire, LoadBegin, plock
    <2>2. QED BY <1>1, <1>3, <2>1, WAwake DEF FsAcquire, LoadBegin, Goto
  <1>4. CASE ConTake
    BY <1>1, <1>2, <1>4, WAwake DEF ConTake, Goto
  <1>5. CASE GetcAgain \/ GetcReturn \/ Retry \/ DelayEnd
    BY <1>1, <1>2, <1>5, WAwake DEF GetcAgain, GetcReturn, Retry, DelayEnd, Goto
  <1>6. QED BY <1>3, <1>4, <1>5

(* A trip round a waiting loop.                                            *)
LEMMA WaitsAdded ==
  ASSUME WI, LockWait \/ ConWait \/ GetcWait \/ DelayWait
  PROVE  WInv'
  <1> USE DEF callVars, lockVars
  <1>1. /\ pcur \in Procs /\ at \in [Procs -> Sites] /\ arg[pcur] \in Cons
        /\ concur \in Cons /\ lk \in [own : Procs \cup {-1}, dep : Nat]
    BY DEF WI, IInv, TypeOK, SchedTypes, CallTypes, ConTypes, LockTypes, concur
  <1>2. PICK w \in Waits : /\ w # Run /\ pwait(w)
                           /\ w = LockWait0 => at[pcur] = "lock" /\ lk.dep > 0
    <2>1. CASE LockWait
      <3>1. at[pcur] = "lock" /\ lk.dep > 0 /\ pwait(LockWait0)
        BY <1>1, <2>1 DEF LockWait, LockFree, LockWait0
      <3>2. QED BY <3>1, WaitKinds
    <2>2. CASE ConWait
      <3>1. pwait(Wait("CATT", arg[pcur]))
        BY <2>2 DEF ConWait
      <3>2. QED BY <1>1, <3>1, WaitKinds, Constants
    <2>3. CASE GetcWait
      <3>1. pwait(Wait("CON", concur))
        BY <2>3 DEF GetcWait
      <3>2. QED BY <1>1, <3>1, WaitKinds, Constants
    <2>4. CASE DelayWait
      <3>1. pwait(Wait("TICK", pcur))
        BY <2>4 DEF DelayWait
      <3>2. QED BY <1>1, <3>1, WaitKinds, Constants
    <2>5. QED BY <2>1, <2>2, <2>3, <2>4
  <1>3. /\ Exact(waits') /\ Blocked(waits') \subseteq Live
        /\ \A q \in Procs : waits'.on[q] \in {Run, IF q = pcur THEN w ELSE waits.on[q]}
    BY <1>2, pwaitThins
  <1>4. /\ UNCHANGED <<pd_state, lk>>
        /\ \A q \in Procs : at[q] = "lock" => at'[q] = "lock"
    BY <1>1 DEF LockWait, ConWait, GetcWait, DelayWait
  <1>5. Exact(waits)' /\ Blocked(waits)' \subseteq Live'
    BY <1>3, <1>4 DEF Exact, Blocked, Live
  <1>6. LockSeekers'
    BY <1>2, <1>3, <1>4, WaitKinds DEF WI, WInv, LockSeekers
  <1>7. QED BY <1>5, <1>6, WStep

LEMMA WaitsSwept ==
  ASSUME WI, Preempt
  PROVE  WInv'
  <1>1. /\ waits' = pwscan(waits, Events)
        /\ UNCHANGED <<pd_state, at, lk>>
    BY DEF Preempt, callVars, lockVars
  <1>2. Exact(waits') /\ Thinned(waits, waits')
    BY <1>1, WaitFacts, WaitKinds, pwscanExact
  <1>3. Blocked(waits') \subseteq Live
    BY <1>2, ThinnedBlocked, WaitFacts
  <1>4. Exact(waits)' /\ Blocked(waits)' \subseteq Live'
    BY <1>1, <1>2, <1>3 DEF Exact, Blocked, Live
  <1>5. LockSeekers'
    BY <1>1, <1>2, WaitKinds DEF Thinned, WI, WInv, LockSeekers
  <1>6. QED BY <1>4, <1>5, WStep

(* The outermost UNLOCK wakes everyone who waits for the lock.             *)
LEMMA LockWoken ==
  ASSUME NEW x \in WaitLists(Waits), Exact(x), Blocked(x) \subseteq Live,
         NEW y, y = pwake(x, LockWait0)
  PROVE  /\ y \in WaitLists(Waits) /\ Exact(y) /\ Thinned(x, y)
         /\ Blocked(y) \subseteq Live
         /\ \A p \in Procs : y.on[p] # LockWait0
  <1>1. y \in WaitLists(Waits)
    BY Constants, pwakeType
  <1>2. /\ Exact(y) /\ Thinned(x, y)
        /\ \A p \in Procs : y.on[p] = IF x.on[p] = LockWait0 THEN Run ELSE x.on[p]
    BY WaitKinds, pwakeExact
  <1>3. QED BY <1>1, <1>2, WaitKinds, ThinnedBlocked

LEMMA WaitsReleased ==
  ASSUME WI, FsReturn \/ LoadOk \/ LoadFail
  PROVE  WInv'
  <1>1. /\ ctx[pcur] = "load" => /\ job[pcur].kid \in Procs
                                 /\ pd_state[job[pcur].kid] = "RSVD"
        /\ pd_state \in [Procs -> States]
    BY DEF WI, IInv, LockInv, ClaimsHeld, TypeOK, SchedTypes
  <1>2. lk.dep = 1 /\ punlock(waits) /\ Live \subseteq Live'
    <2>1. CASE FsReturn
      BY <2>1 DEF FsReturn, Live
    <2>2. CASE LoadFail
      BY <1>1, <2>2 DEF LoadFail, Unload, Inside, Live
    <2>3. CASE LoadOk
      <3> DEFINE kid == job[pcur].kid
      <3>1. kid \in Procs \ Live /\ punlock([waits EXCEPT !.on[kid] = Run])
        BY <1>1, <2>3 DEF LoadOk, Unload, Inside, Live
      <3>2. waits.on[kid] = Run
        BY <3>1, WaitFacts
      <3>3. [waits EXCEPT !.on[kid] = Run] = waits
        <4> HIDE DEF kid
        <4>1. waits = [on |-> waits.on, count |-> waits.count]
              /\ waits.on \in [Procs -> Waits]
          BY WaitFacts DEF WaitLists
        <4>2. [waits.on EXCEPT ![kid] = Run] = waits.on
          BY <3>1, <3>2, <4>1
        <4>3. QED BY <4>1, <4>2
      <3>4. QED BY <1>1, <2>3, <3>1, <3>3 DEF LoadOk, Unload, Inside, Live
    <2>4. QED BY <2>1, <2>2, <2>3
  <1>3. waits' = pwake(waits, LockWait0)
    BY <1>2 DEF punlock, LockWait0
  <1>4. /\ Exact(waits') /\ Blocked(waits') \subseteq Live
        /\ \A p \in Procs : waits'.on[p] # LockWait0
    BY <1>3, WaitFacts, LockWoken
  <1>5. Exact(waits)' /\ Blocked(waits)' \subseteq Live'
    BY <1>2, <1>4 DEF Exact, Blocked
  <1>6. LockSeekers'
    BY <1>4 DEF LockSeekers, LockWait0
  <1>7. QED BY <1>5, <1>6, WStep

-----------------------------------------------------------------------------
(* The hand-over of consoles.                                              *)

(* pconhand() finds an heir among those who wait for the console.          *)
LEMMA HeirSeeks ==
  ASSUME NEW x, NEW c, Seekers(x, c) # {}, pcur \in Procs
  PROVE  Heir(x, c) \in Seekers(x, c)
  <1>1. Seekers(x, c) \in SUBSET Procs
    BY DEF Seekers, Live
  <1>2. CASE \E k \in Seekers(x, c) : k # pcur
    BY <1>1, <1>2, RoundRobinOther DEF Heir
  <1>3. CASE Seekers(x, c) = {pcur}
    BY <1>1, <1>3, RoundRobinIn DEF Heir
  <1>4. QED BY <1>2, <1>3

LEMMA pconhandThins ==
  ASSUME NEW x \in WaitLists(Waits), Exact(x), Blocked(x) \subseteq Live,
         NEW S, NEW catt, pconhand(x, S, catt), pcur \in Procs
  PROVE  /\ Exact(waits') /\ Thinned(x, waits') /\ Blocked(waits') \subseteq Blocked(x)
         /\ \A p \in Procs : waits'.on[p] =
              IF \E c \in Wanted(x, S) : Heir(x, c) = p THEN Run ELSE x.on[p]
  <1> DEFINE H == {Heir(x, c) : c \in Wanted(x, S)}
  <1>1. H \in SUBSET Blocked(x)
    <2>1. ASSUME NEW c \in Wanted(x, S) PROVE Heir(x, c) \in Blocked(x)
      <3>1. Heir(x, c) \in Seekers(x, c)
        BY HeirSeeks DEF Wanted
      <3>2. QED BY <3>1, WaitKinds DEF Seekers, Blocked, Live
    <2>2. QED BY <2>1
  <1>2. waits' = Released(x, H)
    BY DEF pconhand
  <1>3. \A p : p \in H <=> \E c \in Wanted(x, S) : Heir(x, c) = p
    OBVIOUS
  <1> HIDE DEF H
  <1>4. /\ Exact(waits') /\ Thinned(x, waits')
        /\ \A p \in Procs : waits'.on[p] = IF p \in H THEN Run ELSE x.on[p]
    BY <1>1, <1>2, ReleasedExact
  <1>5. QED BY <1>3, <1>4, ThinnedBlocked

LEMMA WaitsHanded ==
  ASSUME WI, Detach
  PROVE  WInv'
  <1>1. pconhand(waits, {concur}, [pd_catt EXCEPT ![pcur] = @ \ {concur}])
    BY DEF Detach
  <1>2. Exact(waits') /\ Thinned(waits, waits') /\ Blocked(waits') \subseteq Live
    BY <1>1, WaitFacts, pconhandThins
  <1>3. UNCHANGED <<pd_state, at, lk>>
    BY DEF Detach, callVars, lockVars
  <1>4. Exact(waits)' /\ Blocked(waits)' \subseteq Live'
    BY <1>2, <1>3 DEF Exact, Blocked, Live
  <1>5. LockSeekers'
    BY <1>2, <1>3, WaitKinds DEF Thinned, WI, WInv, LockSeekers
  <1>6. QED BY <1>4, <1>5, WStep

(* plkdrop(): the program that ends is off the list, and if it held the    *)
(* lock nobody waits for it any more.                                      *)
LEMMA DroppedThins ==
  ASSUME WI
  PROVE  /\ Dropped \in WaitLists(Waits) /\ Exact(Dropped)
         /\ Blocked(Dropped) \subseteq Live \ {pcur}
         /\ \A p \in Procs : Dropped.on[p] \in {Run, waits.on[p]}
         /\ \A p \in Procs : Dropped.on[p] = LockWait0 =>
              waits.on[p] = LockWait0 /\ p # pcur /\ ~ (lk.dep # 0 /\ lk.own = pcur)
         /\ \A p \in Procs \ {pcur} :
              waits.on[p] # LockWait0 => Dropped.on[p] = waits.on[p]
  <1>1. CASE lk.dep # 0 /\ lk.own = pcur
    <2>1. Dropped = pwake(Awake, LockWait0)
      BY <1>1 DEF Dropped, LockWait0
    <2>2. /\ Dropped \in WaitLists(Waits) /\ Exact(Dropped)
          /\ Thinned(Awake, Dropped)
          /\ \A p \in Procs : Dropped.on[p] # LockWait0
      BY <2>1, AwakeThins, LockWoken
    <2>3. \A p \in Procs : Dropped.on[p] = IF Awake.on[p] = LockWait0 THEN Run
                                           ELSE Awake.on[p]
      BY <2>1, AwakeThins, WaitKinds, pwakeExact
    <2>4. Blocked(Dropped) \subseteq Live \ {pcur}
      BY <2>2, AwakeThins, ThinnedBlocked DEF Thinned, Blocked
    <2>5. QED BY <2>2, <2>3, <2>4, AwakeThins DEF Thinned
  <1>2. CASE ~ (lk.dep # 0 /\ lk.own = pcur)
    <2>1. Dropped = Awake
      BY <1>2 DEF Dropped
    <2>2. Blocked(Awake) \subseteq Live \ {pcur}
      BY AwakeThins DEF Blocked
    <2>3. QED BY <1>2, <2>1, <2>2, AwakeThins, WaitFacts, WaitKinds
  <1>3. QED BY <1>1, <1>2

LEMMA WaitsEnded ==
  ASSUME WI, WarmBoot
  PROVE  WInv'
  <1>1. GiveBack
    BY DEF WarmBoot, Reload, Die
  <1>2. /\ pconhand(Dropped, Surrendered, [pd_catt EXCEPT ![pcur] = @ \ Surrendered])
        /\ lk' = IF lk.dep # 0 /\ lk.own = pcur THEN [own |-> -1, dep |-> 0] ELSE lk
        /\ at' = [at EXCEPT ![pcur] = "run"]
    BY <1>1 DEF GiveBack, Goto
  <1>3. Exact(waits') /\ Thinned(Dropped, waits') /\ Blocked(waits') \subseteq Blocked(Dropped)
    BY <1>2, DroppedThins, WaitFacts, pconhandThins
  <1>4. Live \ {pcur} \subseteq Live'
    <2>1. pd_state \in [Procs -> States]
      BY DEF WI, IInv, TypeOK, SchedTypes
    <2>2. pd_state' = pd_state \/ pd_state' = [pd_state EXCEPT ![pcur] = "FREE"]
      BY DEF WarmBoot, Reload, Die
    <2>3. QED BY <2>1, <2>2 DEF Live
  <1>5. Exact(waits)' /\ Blocked(waits)' \subseteq Live'
    BY <1>3, <1>4, DroppedThins DEF Exact, Blocked
  <1>6. LockSeekers'
    <2>1. ASSUME NEW p \in Procs, waits'.on[p] = LockWait0
          PROVE  at'[p] = "lock" /\ lk'.dep > 0
      <3>1. Dropped.on[p] = LockWait0
        BY <1>3, <2>1, WaitKinds DEF Thinned
      <3>2. waits.on[p] = LockWait0 /\ p # pcur /\ ~ (lk.dep # 0 /\ lk.own = pcur)
        BY <3>1, DroppedThins
      <3>3. at[p] = "lock" /\ lk.dep > 0 /\ lk' = lk
        BY <1>2, <3>2 DEF WI, WInv, LockSeekers
      <3>4. at'[p] = at[p]
        BY <1>2, <3>2 DEF WI, IInv, TypeOK, CallTypes
      <3>5. QED BY <3>3, <3>4
    <2>2. QED BY <2>1 DEF LockSeekers, LockWait0
  <1>7. QED BY <1>5, <1>6, WStep

-----------------------------------------------------------------------------
LEMMA WInit == Init => WInv
  <1> SUFFICES ASSUME Init PROVE WInv
    OBVIOUS
  <1>1. waits = [on |-> [p \in Procs |-> Run], count |-> 0]
    BY DEF Init
  <1>2. Blocked(waits) = {}
    BY <1>1 DEF Blocked
  <1>3. waits.count = Cardinality(Blocked(waits))
    BY <1>1, <1>2, FS_EmptySet
  <1>4. QED BY <1>1, <1>2, <1>3, WaitKinds DEF WInv, WaitCount, LockSeekers

LEMMA WInductive == WI /\ [Next]_vars => WI'
  <1> SUFFICES ASSUME WI, [Next]_vars PROVE WInv'
    BY Inductive DEF WI
  <1>1. CASE UNCHANGED vars
    BY <1>1, WUnchanged, WaitFacts
       DEF vars, schedVars, callVars, lockVars, Live
  <1>2. CASE Preempt
    BY <1>2, WaitsSwept
  <1>3. CASE Lock
    BY <1>3, WaitsKept, WaitsOver, WaitsAdded, WaitsReleased DEF Lock
  <1>4. CASE Console
    BY <1>4, WaitsKept, WaitsOver, WaitsAdded, WaitsHanded DEF Console
  <1>5. CASE Timed
    BY <1>5, WaitsKept, WaitsOver, WaitsAdded DEF Timed
  <1>6. CASE Memory
    BY <1>6, WaitsKept DEF Memory
  <1>7. CASE Life
    BY <1>7, WaitsKept, WaitsOver, WaitsReleased, WaitsEnded DEF Life, Exit, Abort
  <1>8. CASE World
    BY <1>8, WaitsKept DEF World
  <1>9. QED
    BY <1>1, <1>2, <1>3, <1>4, <1>5, <1>6, <1>7, <1>8 DEF Next, Running

(* pnwait counts the blocked processes exactly, and nothing dead is on the *)
(* list, through every hand-over, death and resumption of a waiter: the    *)
(* early returns of pwake() and pwscan() never miss anybody.               *)
THEOREM CounterIsExact == Spec => []WaitCount
  <1>1. WI => WaitCount
    BY DEF WI, WInv
  <1>2. Init => WI
    BY InitInv, WInit DEF WI
  <1>3. QED BY <1>1, <1>2, WInductive, PTL DEF Spec

(* No wake-up of the file-system lock is lost: whoever waits for it waits  *)
(* for another process, which holds it -- also after the holder was given  *)
(* up at an error prompt, or ended inside a load.                          *)
THEOREM NoLockWakeupLost == Spec => []LockWaiters
  <1>1. WI => LockWaiters
    BY DEF WI, IInv, LockInv, LockExcludes, InRegion, WInv, LockSeekers, LockWaiters,
           LockWait0
  <1>2. Init => WI
    BY InitInv, WInit DEF WI
  <1>3. QED BY <1>1, <1>2, WInductive, PTL DEF Spec

-----------------------------------------------------------------------------
(* The ownership of consoles, for every mix of sessions (fn 142) and        *)
(* background programs (fn 144), deaths included.  A program that dies at  *)
(* home leaves the bit of its home console in its descriptor, and whoever  *)
(* is created there next owns that console too (run stale_owner).          *)

(* Somebody alive will give the console up, or a dead program kept it.     *)
Served(c) == Owners(c) # {} \/ LeftByTheDead(c)

(* The dead own their home consoles at most, and who waits for a console   *)
(* does not own it, and is not the only one to remember it.                *)
CInv ==
  /\ \A p \in Procs \ Live : pd_catt[p] \subseteq {pd_chome[p]}
  /\ \A p \in Procs, c \in Cons :
        waits.on[p] = Wait("CATT", c) => c \notin pd_catt[p] /\ Served(c)

(* No two live processes own a console: this one needs CleanDescriptors.   *)
OwnersApart == \A p, q \in Live : p # q => pd_catt[p] \cap pd_catt[q] = {}

CI == WI /\ CInv

LEMMA CFacts ==
  ASSUME CI
  PROVE  /\ pcur \in Procs /\ pcur \in Live /\ Live \subseteq Procs
         /\ pd_state \in [Procs -> States] /\ pd_catt \in [Procs -> SUBSET Cons]
         /\ pd_chome \in [Procs -> Cons] /\ job \in [Procs -> Jobs]
         /\ ctx \in [Procs -> Ctxs] /\ at \in [Procs -> Sites] /\ arg[pcur] \in Cons
         /\ waits \in WaitLists(Waits) /\ concur \in Cons
  BY LiveProcs DEF CI, WI, IInv, LockInv, TypeOK, SchedTypes, CallTypes, ConTypes, concur

(* The steps that give or take no console and no life.                     *)
LEMMA CKept ==
  ASSUME CI, UNCHANGED <<pd_state, pd_catt, pd_chome>>,
         \A p \in Procs : \/ waits'.on[p] \in {Run, waits.on[p]}
                          \/ \A c \in Cons : waits'.on[p] = Wait("CATT", c) =>
                                c \notin pd_catt[p] /\ Owners(c) # {}
  PROVE  CInv' /\ (OwnersApart => OwnersApart')
  <1>1. Live' = Live /\ \A c : Served(c)' = Served(c)
    BY DEF Live, Owners, Served, LeftByTheDead, Procs
  <1>2. \A p \in Procs, c \in Cons :
           waits'.on[p] = Wait("CATT", c) => c \notin pd_catt[p] /\ Served(c)
    BY WaitKinds DEF CI, CInv, Served
  <1>3. QED BY <1>1, <1>2 DEF CI, CInv, OwnersApart, Procs, Cons, Live

LEMMA ConsolesUntouched ==
  ASSUME CI,
         \/ FsCall \/ FsNest \/ FsUnnest \/ FsReturn \/ FsError \/ FsAcquire
         \/ Attach \/ ReadConsole \/ Delay \/ DelayEnd \/ GetSegment \/ pmrtseg
         \/ GetcAgain \/ GetcReturn \/ Retry \/ LoadBegin \/ Preempt
         \/ (\E s \in Slots : PutSegment(s))
         \/ (\E p \in Procs, c \in Cons : Assign(p, c))
         \/ (\E c \in Cons : Key(c)) \/ (\E p \in Procs : Deadline(p))
  PROVE  CInv' /\ (OwnersApart => OwnersApart')
  <1> USE DEF schedVars, callVars, conVars
  <1>1. UNCHANGED <<pd_state, pd_catt, pd_chome>>
    BY DEF FsCall, FsNest, FsUnnest, FsReturn, FsError, FsAcquire, Attach, ReadConsole,
           Delay, DelayEnd, GetSegment, pmrtseg, GetcAgain, GetcReturn, Retry, LoadBegin,
           Preempt, PutSegment, Assign, Key, Deadline
  <1>2. \A p \in Procs : waits'.on[p] \in {Run, waits.on[p]}
    <2>1. CASE \/ FsCall \/ FsNest \/ FsUnnest \/ FsError \/ Attach \/ ReadConsole
               \/ Delay \/ GetSegment \/ pmrtseg
               \/ (\E s \in Slots : PutSegment(s))
               \/ (\E p \in Procs, c \in Cons : Assign(p, c))
               \/ (\E c \in Cons : Key(c)) \/ (\E p \in Procs : Deadline(p))
      <3>1. waits' = waits
        <4>1. CASE FsUnnest
          BY <4>1, WaitFacts DEF FsUnnest, punlock, CI
        <4>2. CASE ~ FsUnnest
          BY <2>1, <4>2 DEF FsCall, FsNest, FsError, Attach, ReadConsole, Delay, GetSegment,
                   pmrtseg, PutSegment, Assign, Key, Deadline
        <4>3. QED BY <4>1, <4>2
      <3>2. QED BY <3>1
    <2>2. CASE \/ FsAcquire \/ DelayEnd \/ GetcAgain \/ GetcReturn \/ Retry \/ LoadBegin
      <3>1. waits' = Awake
        BY <2>2 DEF FsAcquire, DelayEnd, GetcAgain, GetcReturn, Retry, LoadBegin
      <3>2. QED BY <3>1, AwakeThins DEF CI
    <2>3. CASE FsReturn
      <3>1. waits' = pwake(waits, LockWait0)
        BY <2>3 DEF FsReturn, punlock, LockWait0
      <3>2. QED BY <3>1, WaitFacts, LockWoken DEF CI, Thinned
    <2>4. CASE Preempt
      <3>1. waits' = pwscan(waits, Events)
        BY <2>4 DEF Preempt
      <3>2. Thinned(waits, waits')
        BY <3>1, WaitFacts, WaitKinds, pwscanExact DEF CI
      <3>3. QED BY <3>2 DEF Thinned
    <2>5. QED BY <2>1, <2>2, <2>3, <2>4
  <1>3. QED BY <1>1, <1>2, CKept

LEMMA SeekersWait ==
  ASSUME CI, LockWait \/ ConWait \/ GetcWait \/ DelayWait
  PROVE  CInv' /\ (OwnersApart => OwnersApart')
  <1> USE DEF callVars, conVars
  <1>1. UNCHANGED <<pd_state, pd_catt, pd_chome>>
    BY DEF LockWait, ConWait, GetcWait, DelayWait
  <1>2. PICK w \in Waits : /\ w # Run /\ pwait(w)
                           /\ \A c \in Cons : w = Wait("CATT", c) =>
                                c \notin pd_catt[pcur] /\ Owners(c) # {}
    <2>1. CASE LockWait
      BY <2>1, WaitKinds DEF LockWait, LockWait0
    <2>2. CASE ConWait
      <3> DEFINE d == arg[pcur]
      <3>1. pwait(Wait("CATT", d)) /\ d \notin pd_catt[pcur] /\ Owners(d) # {}
        BY <2>2 DEF ConWait, Mine
      <3>2. /\ Wait("CATT", d) \in Waits /\ Wait("CATT", d) # Run
            /\ \A c : Wait("CATT", d) = Wait("CATT", c) => c = d
        BY CFacts, WaitKinds, Constants
      <3> HIDE DEF d
      <3>3. QED BY <3>1, <3>2
    <2>3. CASE GetcWait
      <3>1. pwait(Wait("CON", concur))
        BY <2>3 DEF GetcWait
      <3>2. Wait("CON", concur) \in Waits /\ Wait("CON", concur) # Run
        BY CFacts, WaitKinds, Constants
      <3>3. \A c : Wait("CATT", c) # Wait("CON", concur)
        BY WaitKinds
      <3>4. QED BY <3>1, <3>2, <3>3
    <2>4. CASE DelayWait
      <3>1. pwait(Wait("TICK", pcur))
        BY <2>4 DEF DelayWait
      <3>2. Wait("TICK", pcur) \in Waits /\ Wait("TICK", pcur) # Run
        BY CFacts, WaitKinds, Constants
      <3>3. \A c : Wait("CATT", c) # Wait("TICK", pcur)
        BY WaitKinds
      <3>4. QED BY <3>1, <3>2, <3>3
    <2>5. QED BY <2>1, <2>2, <2>3, <2>4
  <1>3. \A q \in Procs : waits'.on[q] \in {Run, IF q = pcur THEN w ELSE waits.on[q]}
    BY <1>2, pwaitThins DEF CI
  <1>4. \A p \in Procs : \/ waits'.on[p] \in {Run, waits.on[p]}
                         \/ \A c \in Cons : waits'.on[p] = Wait("CATT", c) =>
                               c \notin pd_catt[p] /\ Owners(c) # {}
    BY <1>2, <1>3, WaitKinds
  <1>5. QED BY <1>1, <1>4, CKept

(* pconatt() takes a console nobody owns, or one it owns already.          *)
LEMMA ConsoleTaken ==
  ASSUME CI, ConTake
  PROVE  CInv' /\ (OwnersApart => OwnersApart')
  <1> DEFINE c == arg[pcur]
  <1>1. /\ c \in pd_catt[pcur] \/ Owners(c) = {}
        /\ pd_catt' = [pd_catt EXCEPT ![pcur] = @ \cup {c}]
        /\ waits' = Awake /\ UNCHANGED <<pd_state, pd_chome>>
    BY DEF ConTake, Mine
  <1>2. /\ pd_catt'[pcur] = pd_catt[pcur] \cup {c}
        /\ \A p \in Procs \ {pcur} : pd_catt'[p] = pd_catt[p]
    BY <1>1, CFacts
  <1>3. Live' = Live /\ \A d : Served(d) => Served(d)'
    BY <1>1, <1>2, CFacts DEF Live, Owners, Served, LeftByTheDead, Procs
  <1>4. OwnersApart => OwnersApart'
    <2> SUFFICES ASSUME OwnersApart, NEW p \in Live, NEW q \in Live, p # q
                 PROVE  pd_catt'[p] \cap pd_catt'[q] = {}
      BY <1>3 DEF OwnersApart
    <2>1. \A r \in Live \ {pcur} : c \notin pd_catt[r]
      BY <1>1, CFacts DEF OwnersApart, Owners
    <2>2. QED BY <1>2, <2>1, CFacts DEF OwnersApart
  <1>5. ASSUME NEW p \in Procs, NEW d \in Cons, waits'.on[p] = Wait("CATT", d)
        PROVE  d \notin pd_catt'[p] /\ Served(d)'
    <2>1. p # pcur /\ waits.on[p] = Wait("CATT", d)
      BY <1>1, <1>5, AwakeThins, WaitKinds DEF CI
    <2>2. d \notin pd_catt[p] /\ Served(d)
      BY <2>1 DEF CI, CInv
    <2>3. QED BY <1>2, <1>3, <2>1, <2>2
  <1>6. \A p \in Procs \ Live' : pd_catt'[p] \subseteq {pd_chome'[p]}
    BY <1>1, <1>2, <1>3, CFacts DEF CI, CInv
  <1>7. CInv'
    BY <1>5, <1>6 DEF CInv, Procs, Cons
  <1>8. QED BY <1>4, <1>7

(* A program that detaches, ends or dies gives up the consoles in S.       *)
LEMMA ConsolesGiven ==
  ASSUME CI, NEW x \in WaitLists(Waits), Exact(x), Blocked(x) \subseteq Live,
         \A p \in Procs : x.on[p] \in {Run, waits.on[p]},
         NEW S \in SUBSET pd_catt[pcur],
         \A p \in Procs, c \in S : waits.on[p] = Wait("CATT", c) => x.on[p] = waits.on[p],
         pconhand(x, S, [pd_catt EXCEPT ![pcur] = @ \ S]),
         UNCHANGED pd_chome,
         \/ Live' = Live
         \/ Live' = Live \ {pcur} /\ pd_catt[pcur] \ S \subseteq {pd_chome[pcur]}
  PROVE  CInv' /\ (OwnersApart => OwnersApart')
  <1> DEFINE catt == [pd_catt EXCEPT ![pcur] = @ \ S]
             Heired(p) == {c \in Wanted(x, S) : Heir(x, c) = p}
  <1>1. \A p \in Procs : waits'.on[p] = IF Heired(p) # {} THEN Run ELSE x.on[p]
    BY CFacts, pconhandThins
  <1>2. /\ \A p \in Procs \ {pcur} : catt[p] = pd_catt[p]
        /\ catt[pcur] = pd_catt[pcur] \ S
    BY CFacts
  <1>3. \A p \in Procs : pd_catt'[p] = catt[p] \cup Heired(p)
    BY DEF pconhand
  <1>4. ASSUME NEW c \in Wanted(x, S)
        PROVE  c \in S /\ Heir(x, c) \in Live \ {pcur} /\ Heir(x, c) \in Procs
    <2>1. /\ c \in S /\ c \in Cons /\ Heir(x, c) \in Live /\ Heir(x, c) \in Procs
          /\ x.on[Heir(x, c)] = Wait("CATT", c)
      BY CFacts, HeirSeeks DEF Wanted, Seekers
    <2>2. waits.on[Heir(x, c)] = Wait("CATT", c)
      BY <2>1, WaitKinds
    <2>3. c \notin pd_catt[Heir(x, c)] /\ c \in pd_catt[pcur]
      BY <2>1, <2>2 DEF CI, CInv
    <2>4. QED BY <2>1, <2>3
  <1> HIDE DEF catt
  <1>5. Heired(pcur) = {} /\ \A p \in Procs \ Live : Heired(p) = {}
    BY <1>4
  <1>6. /\ Live' \subseteq Live /\ Live \ {pcur} \subseteq Live'
        /\ Live' \subseteq Procs /\ Procs' = Procs
    BY CFacts DEF Procs
  <1>7. ASSUME NEW p \in Procs \ Live' PROVE pd_catt'[p] \subseteq {pd_chome'[p]}
    <2>1. CASE p = pcur
      <3>1. Heired(pcur) = {} /\ pcur \notin Live' /\ pcur \in Live
        BY <1>5, <1>7, <2>1, CFacts
      <3>2. pd_catt[pcur] \ S \subseteq {pd_chome[pcur]} /\ pd_chome' = pd_chome
        BY <3>1
      <3> HIDE DEF Heired
      <3>3. pd_catt'[pcur] = pd_catt[pcur] \ S
        BY <1>2, <1>3, <3>1, CFacts
      <3>4. QED BY <2>1, <3>2, <3>3
    <2>2. CASE p # pcur
      <3>1. p \in Procs \ Live
        BY <1>6, <1>7, <2>2
      <3>2. Heired(p) = {}
        BY <1>5, <3>1
      <3> HIDE DEF Heired
      <3>3. pd_catt'[p] = pd_catt[p]
        BY <1>2, <1>3, <2>2, <3>1, <3>2
      <3>4. QED BY <3>1, <3>3 DEF CI, CInv
    <2>3. QED BY <2>1, <2>2
  <1>8. ASSUME OwnersApart, NEW p \in Live', NEW q \in Live', p # q
        PROVE  pd_catt'[p] \cap pd_catt'[q] = {}
    <2>1. \A r \in Live, t \in Live' : Heired(r) \cap catt[t] = {}
      <3> SUFFICES ASSUME NEW r \in Live, NEW t \in Live', NEW c \in Heired(r)
                   PROVE  c \notin catt[t]
        OBVIOUS
      <3>1. c \in S /\ c \in pd_catt[pcur]
        BY <1>4
      <3>2. CASE t = pcur
        BY <1>2, <3>1, <3>2
      <3>3. CASE t # pcur
        BY <1>2, <1>6, <1>8, <3>1, <3>3, CFacts DEF OwnersApart
      <3>4. QED BY <3>2, <3>3
    <2>2. catt[p] \cap catt[q] = {}
      BY <1>2, <1>6, <1>8, CFacts DEF OwnersApart
    <2>3. Heired(p) \cap Heired(q) = {}
      BY <1>8
    <2>4. p \in Live /\ q \in Live /\ p \in Procs /\ q \in Procs
      BY <1>6, <1>8
    <2>5. /\ Heired(p) \cap catt[q] = {} /\ Heired(q) \cap catt[p] = {}
          /\ pd_catt'[p] = catt[p] \cup Heired(p) /\ pd_catt'[q] = catt[q] \cup Heired(q)
      BY <1>3, <1>8, <2>1, <2>4
    <2> HIDE DEF Heired
    <2>6. QED BY <2>2, <2>3, <2>5
  <1>9. ASSUME NEW p \in Procs, NEW d \in Cons, waits'.on[p] = Wait("CATT", d)
        PROVE  d \notin pd_catt'[p] /\ Served(d)'
    <2>1. Heired(p) = {} /\ x.on[p] = Wait("CATT", d) /\ waits.on[p] = Wait("CATT", d)
      BY <1>1, <1>9, WaitKinds
    <2>2. d \notin pd_catt[p] /\ Served(d)
      BY <2>1 DEF CI, CInv
    <2>3. d \notin pd_catt'[p]
      BY <1>2, <1>3, <2>1, <2>2
    <2>4. CASE d \in S
      <3>1. p \in Live
        BY <2>1, WaitFacts, WaitKinds DEF CI
      <3>2. d \in Wanted(x, S)
        BY <2>1, <2>4, <3>1 DEF Wanted, Seekers
      <3>3. d \in pd_catt'[Heir(x, d)] /\ Heir(x, d) \in Live'
        BY <1>3, <1>4, <1>6, <3>2
      <3>4. QED BY <2>3, <3>3 DEF Owners, Served
    <2>5. CASE d \notin S
      <3>1. \A o \in Procs : d \in pd_catt[o] => d \in pd_catt'[o]
        BY <1>2, <1>3, <2>5, CFacts
      <3>2. CASE \E o \in Live' : d \in pd_catt[o]
        BY <1>6, <2>3, <3>1, <3>2 DEF Owners, Served
      <3>3. CASE pcur \notin Live' /\ d \in pd_catt[pcur]
        <4>1. d = pd_chome[pcur] /\ pcur \in Procs \ Live'
          BY <2>5, <3>3, CFacts
        <4>2. LeftByTheDead(d)'
          BY <1>6, <3>1, <3>3, <4>1 DEF LeftByTheDead
        <4>3. QED BY <2>3, <4>2 DEF Served
      <3>4. CASE LeftByTheDead(d)
        <4>1. PICK o \in Procs \ Live : d \in pd_catt[o] /\ pd_chome[o] = d
          BY <3>4 DEF LeftByTheDead
        <4>2. LeftByTheDead(d)'
          BY <1>6, <3>1, <4>1 DEF LeftByTheDead
        <4>3. QED BY <2>3, <4>2 DEF Served
      <3>5. QED BY <1>6, <2>2, <3>2, <3>3, <3>4 DEF Served, Owners
    <2>6. QED BY <2>4, <2>5
  <1>10. CInv'
    BY <1>6, <1>7, <1>9 DEF CInv, Cons
  <1>11. OwnersApart => OwnersApart'
    BY <1>8 DEF OwnersApart
  <1>12. QED BY <1>10, <1>11

LEMMA ConsolesHanded ==
  ASSUME CI, Detach \/ WarmBoot
  PROVE  CInv' /\ (OwnersApart => OwnersApart')
  <1>1. CASE Detach
    <2>1. /\ {concur} \in SUBSET pd_catt[pcur]
          /\ pconhand(waits, {concur}, [pd_catt EXCEPT ![pcur] = @ \ {concur}])
          /\ UNCHANGED <<pd_state, pd_chome>>
      BY <1>1 DEF Detach
    <2>2. Live' = Live
      BY <2>1 DEF Live
    <2>3. QED BY <2>1, <2>2, WaitFacts, ConsolesGiven DEF CI
  <1>2. CASE WarmBoot
    <2>1. GiveBack
      BY <1>2 DEF WarmBoot, Reload, Die
    <2>2. /\ pconhand(Dropped, Surrendered, [pd_catt EXCEPT ![pcur] = @ \ Surrendered])
          /\ UNCHANGED pd_chome
      BY <2>1 DEF GiveBack
    <2>3. Live' = Live \/ Live' = Live \ {pcur}
      <3>1. CASE Reload
        BY <3>1 DEF Reload, Live
      <3>2. CASE Die
        BY <3>2, CFacts DEF Die, Live, Procs
      <3>3. QED BY <1>2, <3>1, <3>2 DEF WarmBoot
    <2>4. /\ Surrendered \in SUBSET pd_catt[pcur]
          /\ pd_catt[pcur] \ Surrendered \subseteq {pd_chome[pcur]}
      BY DEF Surrendered
    <2>5. \A p \in Procs, c \in Surrendered :
             waits.on[p] = Wait("CATT", c) => Dropped.on[p] = waits.on[p]
      <3>1. \A c \in Surrendered : waits.on[pcur] # Wait("CATT", c)
        BY <2>4, CFacts DEF CI, CInv
      <3>2. QED BY <3>1, DroppedThins, WaitKinds DEF CI
    <2>6. /\ Dropped \in WaitLists(Waits) /\ Exact(Dropped) /\ Blocked(Dropped) \subseteq Live
          /\ \A p \in Procs : Dropped.on[p] \in {Run, waits.on[p]}
      BY DroppedThins DEF CI
    <2>7. QED BY <2>2, <2>3, <2>4, <2>5, <2>6, ConsolesGiven
  <1>3. QED BY <1>1, <1>2

(* A creation claims a descriptor, and later makes it live or lets it go.  *)
(* pcrgen() leaves the ownership in it alone: a clean descriptor becomes a *)
(* process with no console, any other one a second owner.                  *)
LEMMA ProcessMade ==
  ASSUME CI, LoadOk \/ LoadFail \/ pcreate \/ \E c \in Cons : psession(c)
  PROVE  CInv' /\ (OwnersApart /\ CleanDescriptors => OwnersApart')
  <1> DEFINE Claims == pcreate \/ \E c \in Cons : psession(c)
             kid == job[pcur].kid
  <1>1. ~ Claims => ctx[pcur] = "load" /\ kid \in Procs \ {pcur} /\ kid \notin Live
    BY CFacts DEF LoadOk, LoadFail, Unload, Inside, CI, WI, IInv, LockInv, ClaimsHeld, Live
  <1>2. UNCHANGED pd_catt
    BY DEF LoadOk, LoadFail, pcreate, psession, Claim, conVars
  <1>3. \A p \in Procs : waits'.on[p] \in {Run, waits.on[p]}
    <2>1. CASE LoadOk
      <3>1. waits' = pwake([waits EXCEPT !.on[kid] = Run], LockWait0)
        BY <2>1, WaitFacts DEF LoadOk, Unload, punlock, LockWait0
      <3>2. waits.on \in [Procs -> Waits]
        BY CFacts DEF WaitLists
      <3>3. QED BY <3>1, <3>2 DEF pwake, Released
    <2>2. CASE LoadFail
      <3>1. waits' = pwake(waits, LockWait0)
        BY <2>2, WaitFacts DEF LoadFail, Unload, punlock, LockWait0
      <3>2. QED BY <3>1, WaitFacts, LockWoken DEF CI, Thinned
    <2>3. CASE Claims
      BY <2>3 DEF pcreate, psession, Claim
    <2>4. QED BY <2>1, <2>2, <2>3
  <1>4. /\ Live' = IF LoadOk THEN Live \cup {kid} ELSE Live
        /\ \A p \in Procs : ~ (LoadOk /\ p = kid) => pd_chome'[p] = pd_chome[p]
    <2>1. CASE Claims
      <3>1. FreeSlot \in Procs /\ pd_state[FreeSlot] = "FREE"
        BY <2>1, FreeSlotIsFree DEF pcreate, psession, Claim
      <3>2. pd_state' = [pd_state EXCEPT ![FreeSlot] = "RSVD"] /\ UNCHANGED pd_chome
        BY <2>1 DEF pcreate, psession, Claim, conVars
      <3>3. ~ LoadOk
        BY <2>1 DEF LoadOk, Unload, Inside, pcreate, psession, Claim, InUser
      <3>4. QED BY <3>1, <3>2, <3>3, CFacts DEF Live, Procs
    <2>2. CASE LoadOk
      <3>1. /\ pd_state' = [pd_state EXCEPT ![kid] = "LIVE"]
            /\ \A p \in Procs \ {kid} : pd_chome'[p] = pd_chome[p]
        BY <2>2, CFacts DEF LoadOk
      <3>2. kid \in Procs
        BY <2>2, <1>1, CFacts DEF LoadOk, Unload, Inside, pcreate, psession, Claim, InUser
      <3> HIDE DEF kid
      <3>3. QED BY <2>2, <3>1, <3>2, CFacts DEF Live, Procs
    <2>3. CASE LoadFail /\ ~ LoadOk /\ ~ Claims
      <3>1. pd_state' = [pd_state EXCEPT ![kid] = "FREE"] /\ UNCHANGED pd_chome
        BY <2>3 DEF LoadFail, conVars
      <3>2. kid \in Procs /\ kid \notin Live
        BY <1>1, <2>3
      <3> HIDE DEF kid
      <3>3. QED BY <2>3, <3>1, <3>2, CFacts DEF Live, Procs
    <2>4. QED BY <2>1, <2>2, <2>3
  <1>5. LoadOk => kid \in Procs \ Live
    BY <1>1 DEF LoadOk, Unload, Inside, pcreate, psession, Claim, InUser
  <1>6. LoadOk /\ CleanDescriptors => pd_catt[kid] = {}
    BY CFacts DEF LoadOk, Unload, Inside, CleanDescriptors
  <1> HIDE DEF kid
  <1>7. Live \subseteq Live' /\ Live' \subseteq Procs /\ Procs' = Procs
    BY <1>4, <1>5, CFacts DEF Procs
  <1>8. ASSUME NEW c, Served(c) PROVE Served(c)'
    <2>1. CASE Owners(c) # {}
      BY <1>2, <1>7, <2>1 DEF Owners, Served
    <2>2. CASE LeftByTheDead(c)
      <3>1. PICK q \in Procs \ Live : c \in pd_catt[q] /\ pd_chome[q] = c
        BY <2>2 DEF LeftByTheDead
      <3>2. CASE q \in Live'
        BY <1>2, <3>1, <3>2 DEF Owners, Served
      <3>3. CASE q \notin Live'
        <4>1. pd_chome'[q] = c
          BY <1>4, <3>1, <3>3
        <4>2. QED BY <1>2, <1>7, <3>1, <3>3, <4>1 DEF LeftByTheDead, Served
      <3>4. QED BY <3>2, <3>3
    <2>3. QED BY <1>8, <2>1, <2>2 DEF Served
  <1>9. ASSUME NEW p \in Procs, NEW c \in Cons, waits'.on[p] = Wait("CATT", c)
        PROVE  c \notin pd_catt'[p] /\ Served(c)'
    <2>1. waits.on[p] = Wait("CATT", c)
      BY <1>3, <1>9, WaitKinds
    <2>2. c \notin pd_catt[p] /\ Served(c)
      BY <2>1 DEF CI, CInv
    <2>3. QED BY <1>2, <1>8, <2>2
  <1>10. ASSUME NEW p \in Procs \ Live' PROVE pd_catt'[p] \subseteq {pd_chome'[p]}
    <2>1. p \notin Live /\ pd_chome'[p] = pd_chome[p]
      BY <1>4, <1>7, <1>10
    <2>2. QED BY <1>2, <1>10, <2>1 DEF CI, CInv
  <1>11. CInv'
    BY <1>7, <1>9, <1>10 DEF CInv, Cons
  <1>12. ASSUME OwnersApart, CleanDescriptors PROVE OwnersApart'
    <2>1. CASE LoadOk
      <3>1. Live' = Live \cup {kid} /\ pd_catt[kid] = {}
        BY <1>4, <1>6, <1>12, <2>1
      <3>2. QED BY <1>2, <1>12, <3>1 DEF OwnersApart
    <2>2. CASE ~ LoadOk
      BY <1>2, <1>4, <1>12, <2>2 DEF OwnersApart
    <2>3. QED BY <2>1, <2>2
  <1>13. QED BY <1>11, <1>12

-----------------------------------------------------------------------------
LEMMA CInit == Init => CInv /\ OwnersApart
  <1> SUFFICES ASSUME Init PROVE CInv /\ OwnersApart
    OBVIOUS
  <1>1. \A p \in Procs : waits.on[p] = Run /\ pd_catt[p] = {}
    BY DEF Init
  <1>2. QED BY <1>1, WaitKinds, LiveProcs DEF CInv, OwnersApart

(* One step keeps the places of the seekers always, and the owners apart   *)
(* when no creation has a descriptor that still owns a console.            *)
LEMMA CInductive ==
  CI /\ [Next]_vars => CI' /\ (OwnersApart /\ CleanDescriptors => OwnersApart')
  <1> SUFFICES ASSUME CI, [Next]_vars
               PROVE  CInv' /\ (OwnersApart /\ CleanDescriptors => OwnersApart')
    BY WInductive DEF CI
  <1>1. CASE UNCHANGED vars
    BY <1>1, CKept DEF vars, schedVars, callVars, conVars
  <1>2. CASE Preempt
    BY <1>2, ConsolesUntouched
  <1>3. CASE Lock
    BY <1>3, ConsolesUntouched, SeekersWait DEF Lock
  <1>4. CASE Console
    BY <1>4, ConsolesUntouched, SeekersWait, ConsoleTaken, ConsolesHanded DEF Console
  <1>5. CASE Timed
    BY <1>5, ConsolesUntouched, SeekersWait DEF Timed
  <1>6. CASE Memory
    BY <1>6, ConsolesUntouched DEF Memory
  <1>7. CASE Life
    BY <1>7, ConsolesUntouched, ConsolesHanded, ProcessMade DEF Life, Exit, Abort
  <1>8. CASE World
    BY <1>8, ConsolesUntouched DEF World
  <1>9. QED
    BY <1>1, <1>2, <1>3, <1>4, <1>5, <1>6, <1>7, <1>8 DEF Next, Running

(* Whatever programs do, die and are created: whoever waits for a console  *)
(* in pconatt() waits for another live process's, whose Detach, warm boot  *)
(* or death will look for it, or for one that somebody who died at home    *)
(* there never gave up.                                                    *)
THEOREM SeekersAreServed == Spec => []SeekersHaveOwner
  <1>1. CI => SeekersHaveOwner
    <2> SUFFICES ASSUME CI, NEW p \in Live \ {pcur}, waits.on[p].why = "CATT"
                 PROVE  \/ Owners(waits.on[p].obj) \ {p} # {}
                        \/ LeftByTheDead(waits.on[p].obj)
      BY DEF SeekersHaveOwner
    <2>1. waits.on[p] \in Waits /\ p \in Procs
      BY CFacts DEF WaitLists
    <2>2. PICK c \in Cons : waits.on[p] = Wait("CATT", c)
      BY <2>1 DEF Waits, Wait, Run
    <2>3. c \notin pd_catt[p] /\ Served(c) /\ waits.on[p].obj = c
      BY <2>1, <2>2 DEF CI, CInv, Wait
    <2>4. QED BY <2>3 DEF Owners, Served
  <1>2. Init => CI
    BY InitInv, WInit, CInit DEF CI, WI
  <1>3. CI /\ [Next]_vars => CI'
    BY CInductive
  <1>4. QED BY <1>1, <1>2, <1>3, PTL DEF Spec

(* The consoles of any mix of sessions and background programs, deaths     *)
(* included, as long as no creation is given a descriptor whose last user  *)
(* died owning a console: one owner for each, and nobody waits for one     *)
(* that nobody has.                                                        *)
THEOREM ConsolesStayOwned == Spec /\ []CleanDescriptors => []ConsolesOwned
  <1>1. OwnersApart => OneOwner
    <2> SUFFICES ASSUME OwnersApart, NEW c \in Cons PROVE Cardinality(Owners(c)) <= 1
      BY DEF OneOwner
    <2>1. \A p, q \in Owners(c) : p = q
      BY DEF OwnersApart, Owners
    <2>2. CASE Owners(c) = {}
      <3>1. Cardinality({}) = 0
        BY FS_EmptySet
      <3>2. QED BY <2>2, <3>1
    <2>3. CASE Owners(c) # {}
      <3>1. PICK p : Owners(c) = {p}
        BY <2>1, <2>3
      <3>2. Cardinality({p}) = 1
        BY FS_Singleton
      <3>3. QED BY <3>1, <3>2
    <2>4. QED BY <2>2, <2>3
  <1>2. Init => CI /\ OwnersApart
    BY InitInv, WInit, CInit DEF CI, WI
  <1>3. (CI /\ OwnersApart) /\ CleanDescriptors /\ [Next]_vars => (CI /\ OwnersApart)'
    BY CInductive
  <1>4. Spec /\ []CleanDescriptors => []OwnersApart
    BY <1>2, <1>3, PTL DEF Spec
  <1>5. SeekersHaveOwner /\ OneOwner => ConsolesOwned
    BY DEF ConsolesOwned
  <1>6. QED BY <1>1, <1>4, <1>5, SeekersAreServed, PTL
-----------------------------------------------------------------------------
InLoad(p) == ctx[p] = "load" /\ at[p] # "lock"

Given(p) == seglist[p] \cup ({pd_mrtseg[p]} \ {0})

(* A load is the running process's, and yielding is off during it alone.   *)
YieldInv ==
  /\ \A p \in Procs : InLoad(p) => p = pcur
  /\ pnoyld <=> InLoad(pcur)

(* The parked sit on held slots of their own.  Held is what protects them  *)
(* from the death of the slot's owner, who is whoever created them.        *)
ParkInv ==
  /\ \A p \in Live : pd_seg[p] # 0 /\ ~ InLoad(p) => pool.hld[pd_seg[p]]
  /\ \A p, q \in Live : p # q /\ pd_seg[p] # 0 => pd_seg[p] # pd_seg[q]

(* A program's segments are its own; a descriptor that is not live has none*)
GivenInv ==
  /\ SegmentsKept
  /\ \A p \in Procs : pd_mrtseg[p] \notin seglist[p]
  /\ \A p \in Procs \ Live : Given(p) = {}

(* The slot of a creation in progress is its creator's, parks nobody yet,  *)
(* and during the load holds the creator's own page.                       *)
JobInv ==
  \A p \in Procs :
    IF ctx[p] = "load"
    THEN LET s == job[p].seg
         IN  /\ s \in Slots /\ pool.own[s] = p + 1 /\ ~ pool.hld[s]
             /\ s \notin Given(p)
             /\ InLoad(p) => pd_seg[p] = s /\ image[pool.tpa] = Tpa(job[p].kid)
    ELSE job[p] = NoJob

RsvdInv ==
  \A p \in Procs : pd_state[p] = "RSVD" => \E q \in Live : ctx[q] = "load" /\ job[q].kid = p

PInv == /\ YieldInv /\ Sound(pool) /\ ParkInv /\ GivenInv /\ JobInv /\ RsvdInv
        /\ ImagesIntact /\ PoolAccounted

PI == IInv /\ PInv

LEMMA PTypes ==
  ASSUME PI
  PROVE  /\ pcur \in Procs /\ pcur \in Live /\ Live \subseteq Procs /\ NP \in Nat
         /\ pd_state \in [Procs -> States] /\ pool \in Pools(NP) /\ Sound(pool)
         /\ pool.own \in [Slots -> 0 .. NP] /\ pool.hld \in [Slots -> BOOLEAN]
         /\ pool.pg \in [Slots -> Pages] /\ pool.tpa \in Pages
         /\ pd_seg \in [Procs -> {0} \cup Slots] /\ 0 \notin Slots
         /\ seglist \in [Procs -> SUBSET Slots]
         /\ pd_mrtseg \in [Procs -> {0} \cup Slots]
         /\ image \in [Pages -> Images] /\ job \in [Procs -> Jobs]
         /\ ctx \in [Procs -> Ctxs] /\ at \in [Procs -> Sites] /\ pnoyld \in BOOLEAN
         /\ \A p, q \in Procs : p + 1 = q + 1 => p = q
         /\ \A p \in Procs : p + 1 # 0
  <1>1. pool \in Pools(NP) /\ NP \in Nat
    BY NPAssumption DEF PI, IInv, TypeOK, PageTypes
  <1>2. 0 \notin Slots /\ \A p \in Procs : p + 1 # 0
    BY NPAssumption, NSLOTAssumption DEF Slots, Procs
  <1>3. \A p, q \in Procs : p + 1 = q + 1 => p = q
    BY NPAssumption DEF Procs
  <1>4. QED
    BY <1>1, <1>2, <1>3, PoolFields, LiveProcs
       DEF PI, PInv, IInv, LockInv, TypeOK, SchedTypes, CallTypes, LockTypes, PageTypes

LEMMA CallsTyped ==
  ASSUME IInv
  PROVE  /\ pcur \in Procs /\ pcur \in Live /\ ctx \in [Procs -> Ctxs]
         /\ at \in [Procs -> Sites] /\ job \in [Procs -> Jobs]
  BY DEF IInv, LockInv, TypeOK, SchedTypes, CallTypes

(* What the invariant says of one process, in the form the steps use it.   *)
LEMMA PFacts ==
  ASSUME PI
  PROVE  /\ \A p \in Live \ {pcur} : /\ pd_seg[p] \in Slots /\ pool.hld[pd_seg[p]]
                                     /\ pool.own[pd_seg[p]] # 0 /\ ~ InLoad(p)
                                     /\ image[pool.pg[pd_seg[p]]] = Tpa(p)
         /\ ~ pnoyld => /\ pd_seg[pcur] = 0 /\ image[pool.tpa] = Tpa(pcur)
                        /\ \A p \in Procs : ~ InLoad(p)
         /\ pnoyld => /\ pd_seg[pcur] \in Slots /\ pd_seg[pcur] = job[pcur].seg
                      /\ ctx[pcur] = "load"
                      /\ image[pool.pg[pd_seg[pcur]]] = Tpa(pcur)
         /\ \A p \in Procs : \A s \in Given(p) :
              /\ p \in Live /\ s \in Slots /\ pool.own[s] = p + 1 /\ ~ pool.hld[s]
              /\ image[pool.pg[s]] = Data(p)
         /\ \A p \in Procs : ctx[p] = "load" => p \in Live
  <1>1. \A p \in Live \ {pcur} : pd_seg[p] \in Slots /\ ~ InLoad(p)
    BY PTypes DEF PI, PInv, YieldInv, ImagesIntact
  <1>2. \A p \in Live \ {pcur} : /\ pool.hld[pd_seg[p]] /\ pool.own[pd_seg[p]] # 0
                                 /\ image[pool.pg[pd_seg[p]]] = Tpa(p)
    BY <1>1, PTypes DEF PI, PInv, ParkInv, ImagesIntact, Page, Sound
  <1>3. ~ pnoyld => /\ pd_seg[pcur] = 0 /\ image[pool.tpa] = Tpa(pcur)
                    /\ \A p \in Procs : ~ InLoad(p)
    BY PTypes DEF PI, PInv, YieldInv, ImagesIntact, Page
  <1>4. pnoyld => /\ pd_seg[pcur] \in Slots /\ pd_seg[pcur] = job[pcur].seg
                  /\ ctx[pcur] = "load"
                  /\ image[pool.pg[pd_seg[pcur]]] = Tpa(pcur)
    BY PTypes DEF PI, PInv, YieldInv, ImagesIntact, Page, JobInv, InLoad
  <1>5. \A p \in Procs : \A s \in Given(p) :
          /\ p \in Live /\ s \in Slots /\ pool.own[s] = p + 1 /\ ~ pool.hld[s]
          /\ image[pool.pg[s]] = Data(p)
    <2>1. ASSUME NEW p \in Procs, NEW s \in Given(p) PROVE p \in Live /\ s \in Slots
      BY PTypes DEF PI, PInv, GivenInv, Given
    <2>2. QED BY <2>1 DEF PI, PInv, GivenInv, SegmentsKept, Given
  <1>6. \A p \in Procs : ctx[p] = "load" => p \in Live
    BY DEF PI, IInv, LockInv
  <1>7. QED BY <1>1, <1>2, <1>3, <1>4, <1>5, <1>6

-----------------------------------------------------------------------------
(* Steps that touch no page.                                               *)

LEMMA PKept ==
  ASSUME PI, UNCHANGED <<pcur, pd_state, job, pnoyld, pageVars>>,
         \A p \in Procs : (ctx'[p] = "load" <=> ctx[p] = "load")
                          /\ (InLoad(p)' <=> InLoad(p))
  PROVE  PInv'
  <1>1. Live' = Live /\ \A p : Given(p)' = Given(p) /\ Page(p)' = Page(p)
                               /\ Uses(p)' = Uses(p)
    BY DEF Live, Given, Page, Uses, pageVars
  <1>2. YieldInv'
    BY PTypes DEF PI, PInv, YieldInv
  <1>3. Sound(pool)' /\ ParkInv'
    BY <1>1, PTypes DEF PI, PInv, ParkInv, Sound, Apart, pageVars
  <1>4. GivenInv'
    BY <1>1 DEF PI, PInv, GivenInv, SegmentsKept, pageVars
  <1>5. JobInv'
    BY <1>1 DEF PI, PInv, JobInv, pageVars
  <1>6. RsvdInv'
    BY <1>1, LiveProcs DEF PI, PInv, RsvdInv
  <1>7. ImagesIntact' /\ PoolAccounted'
    BY <1>1 DEF PI, PInv, ImagesIntact, PoolAccounted, pageVars
  <1>8. QED BY <1>2, <1>3, <1>4, <1>5, <1>6, <1>7 DEF PInv

(* The calls that have nothing to do with pages or with loads.             *)
Elsewhere ==
  \/ FsCall \/ FsNest \/ FsUnnest \/ FsReturn \/ FsError \/ FsAcquire
  \/ Attach \/ ReadConsole \/ ConTake \/ Delay \/ DelayEnd \/ Detach
  \/ GetcAgain \/ GetcReturn \/ Retry
  \/ (\E p \in Procs, c \in Cons : Assign(p, c))
  \/ (\E c \in Cons : Key(c)) \/ (\E p \in Procs : Deadline(p))

LEMMA LoadsUntouched ==
  ASSUME IInv, Elsewhere
  PROVE  /\ UNCHANGED <<pcur, pd_state, job, pnoyld, pageVars>>
         /\ \A p \in Procs : (ctx'[p] = "load" <=> ctx[p] = "load")
                            /\ (InLoad(p)' <=> InLoad(p))
  <1> USE DEF schedVars, callVars, lockVars
  <1>1. UNCHANGED <<pcur, pd_state, job, pnoyld, pageVars>>
    BY DEF Elsewhere, FsCall, FsNest, FsUnnest, FsReturn, FsError, FsAcquire, Attach,
           ReadConsole, ConTake, Delay, DelayEnd, Detach, GetcAgain, GetcReturn, Retry,
           Assign, Key, Deadline
  <1>2. /\ \A p \in Procs \ {pcur} : ctx'[p] = ctx[p] /\ at'[p] = at[p]
        /\ ctx'[pcur] = "load" <=> ctx[pcur] = "load"
        /\ ctx[pcur] = "load" => (at'[pcur] # "lock" <=> at[pcur] # "lock")
    <2>1. CASE \/ FsCall \/ FsReturn \/ FsError \/ FsAcquire \/ Attach \/ ReadConsole
               \/ Delay \/ DelayEnd \/ GetcReturn
      BY <2>1, CallsTyped
         DEF FsCall, FsReturn, FsError, FsAcquire, Attach, ReadConsole, Delay, DelayEnd,
             GetcReturn, Goto, InUser, Inside
    <2>2. CASE ConTake \/ Retry
      BY <2>2, CallsTyped DEF ConTake, Retry, GetcTakes, Goto
    <2>3. CASE GetcAgain
      BY <2>3, CallsTyped DEF GetcAgain
    <2>4. CASE \/ FsNest \/ FsUnnest \/ Detach \/ (\E p \in Procs, c \in Cons : Assign(p, c))
               \/ (\E c \in Cons : Key(c)) \/ (\E p \in Procs : Deadline(p))
      BY <2>4 DEF FsNest, FsUnnest, Detach, Assign, Key, Deadline
    <2>5. QED BY <2>1, <2>2, <2>3, <2>4 DEF Elsewhere
  <1>3. \A p \in Procs : (ctx'[p] = "load" <=> ctx[p] = "load")
                         /\ (InLoad(p)' <=> InLoad(p))
    BY <1>2 DEF InLoad
  <1>4. QED BY <1>1, <1>3

LEMMA PagesUntouched ==
  ASSUME PI, Elsewhere
  PROVE  PInv'
  BY LoadsUntouched, PKept DEF PI

-----------------------------------------------------------------------------
(* Switching.                                                              *)

(* pgone() and pgtpaswap(): the page of the one that goes and the page of  *)
(* the one that comes change places, and each descriptor says so.          *)
LEMMA Switched ==
  ASSUME PI, NEW n \in Live, n # pcur, ~ pnoyld, Resume(n),
         UNCHANGED <<pd_state, ctx, job, pnoyld, seglist, pd_mrtseg, image>>,
         \A p \in Procs : at'[p] = "lock" <=> at[p] = "lock"
  PROVE  PInv'
  <1> DEFINE s == pd_seg[n]
  <1>1. /\ s \in Slots /\ pool.hld[s] /\ pool.own[s] # 0 /\ n \in Procs
        /\ image[pool.pg[s]] = Tpa(n) /\ image[pool.tpa] = Tpa(pcur)
        /\ pd_seg[pcur] = 0 /\ \A p \in Procs : ~ InLoad(p)
    BY PFacts, PTypes
  <1>2. pool' = pgtpaswap(pool, s) /\ pcur' = n
        /\ pd_seg' = [pd_seg EXCEPT ![pcur] = s, ![n] = 0]
    BY <1>1, PTypes DEF Resume
  <1>3. /\ pool'.own = pool.own /\ pool'.hld = pool.hld
        /\ pool'.tpa = pool.pg[s] /\ Sound(pool')
        /\ \A t \in Slots : pool'.pg[t] = IF t = s THEN pool.tpa ELSE pool.pg[t]
    BY <1>1, <1>2, PTypes, pgtpaswapIs
  <1>4. /\ pd_seg'[pcur] = s /\ pd_seg'[n] = 0
        /\ \A p \in Procs \ {pcur, n} : pd_seg'[p] = pd_seg[p]
    BY <1>1, <1>2, PTypes
  <1> HIDE DEF s
  <1>5. /\ Live' = Live /\ \A p : Given(p)' = Given(p)
        /\ \A p \in Procs : ~ InLoad(p)' /\ (ctx'[p] = "load" <=> ctx[p] = "load")
    BY <1>1 DEF Live, Given, InLoad
  <1>6. \A p \in Live \ {pcur, n} : pd_seg[p] \in Slots /\ pd_seg[p] # s
                                    /\ pool.hld[pd_seg[p]]
                                    /\ image[pool.pg[pd_seg[p]]] = Tpa(p)
    <2>1. ASSUME NEW p \in Live \ {pcur, n} PROVE pd_seg[p] # s
      <3>1. \A q, r \in Live : q # r /\ pd_seg[q] # 0 => pd_seg[q] # pd_seg[r]
        BY DEF PI, PInv, ParkInv
      <3>2. p \in Live /\ p # n /\ pd_seg[p] # 0
        BY PFacts, PTypes
      <3>3. QED BY <3>1, <3>2 DEF s
    <2>2. QED BY <2>1, PFacts
  <1>7. \A p \in Procs : \A t \in Given(p) : t # s
    BY <1>1, PFacts
  <1>8. YieldInv'
    BY <1>1, <1>2, <1>5 DEF PI, PInv, YieldInv
  <1>9. ParkInv'
    <2>1. ASSUME NEW p \in Live, pd_seg'[p] # 0 PROVE pool.hld[pd_seg'[p]]
      <3>1. CASE p \in {pcur, n}
        BY <1>1, <1>4, <2>1, <3>1
      <3>2. CASE p \notin {pcur, n}
        BY <1>4, <1>6, <3>2, PTypes
      <3>3. QED BY <3>1, <3>2
    <2>2. \A p, q \in Live : p # q /\ pd_seg[p] # 0 => pd_seg[p] # pd_seg[q]
      BY DEF PI, PInv, ParkInv
    <2>3. ASSUME NEW p \in Live, NEW q \in Live, p # q, pd_seg'[p] # 0
          PROVE  pd_seg'[p] # pd_seg'[q]
      <3>1. p # n /\ p \in Procs /\ q \in Procs
        BY <1>4, <2>3, PTypes
      <3>2. CASE p = pcur
        BY <1>1, <1>4, <1>6, <2>3, <3>1, <3>2, PTypes
      <3>3. CASE p # pcur
        BY <1>1, <1>4, <1>6, <2>2, <2>3, <3>1, <3>3, PTypes
      <3>4. QED BY <3>2, <3>3
    <2>4. QED BY <1>3, <1>5, <2>1, <2>3 DEF ParkInv
  <1>10. GivenInv'
    <2>1. ASSUME NEW p \in Live, NEW t \in Given(p)
          PROVE  pool'.own[t] = p + 1 /\ ~ pool'.hld[t] /\ image'[pool'.pg[t]] = Data(p)
      <3>1. p \in Procs
        BY PTypes
      <3>2. QED BY <1>3, <1>7, <3>1, PFacts
    <2>2. SegmentsKept'
      BY <1>5, <2>1 DEF SegmentsKept, Given
    <2>3. QED BY <1>5, <2>2 DEF PI, PInv, GivenInv
  <1>11. JobInv'
    BY <1>3, <1>5 DEF PI, PInv, JobInv
  <1>12. RsvdInv'
    BY <1>5, LiveProcs DEF PI, PInv, RsvdInv
  <1>13. ImagesIntact'
    BY <1>1, <1>2, <1>3, <1>4, <1>5, <1>6, PTypes DEF ImagesIntact, Page
  <1>14. PoolAccounted'
    <2>1. ASSUME NEW t \in Slots, pool'.own[t] # 0
          PROVE  \E p \in Live' : t \in Uses(p)'
      <3>1. PICK p \in Live : t \in Uses(p)
        BY <1>3, <2>1 DEF PI, PInv, PoolAccounted
      <3>2. CASE t = s
        BY <1>4, <1>5, <3>2, PTypes DEF Uses
      <3>3. CASE t # s
        BY <1>1, <1>4, <1>5, <3>1, <3>3, PTypes DEF Uses, s
      <3>4. QED BY <3>2, <3>3
    <2>2. QED BY <2>1 DEF PoolAccounted
  <1>15. QED
    BY <1>3, <1>8, <1>9, <1>10, <1>11, <1>12, <1>13, <1>14 DEF PInv

(* Every wait and every preemption resumes somebody; with yielding off a   *)
(* wait is refused, and goes on with the one who is running.               *)
LEMMA Switches ==
  ASSUME PI, LockWait \/ ConWait \/ GetcWait \/ DelayWait \/ Preempt
  PROVE  PInv'
  <1> USE DEF callVars, lockVars
  <1>1. /\ UNCHANGED <<pd_state, ctx, job, pnoyld, seglist, pd_mrtseg, image>>
        /\ \A p \in Procs : at'[p] = "lock" <=> at[p] = "lock"
    <2>1. CASE LockWait \/ ConWait \/ DelayWait \/ Preempt
      BY <2>1 DEF LockWait, ConWait, DelayWait, Preempt
    <2>2. CASE GetcWait
      BY <2>2, PTypes DEF GetcWait
    <2>3. QED BY <2>1, <2>2
  <1>2. PICK n : n \in Live /\ Resume(n) /\ (n # pcur => ~ pnoyld)
    <2>1. CASE Preempt
      <3>1. ~ pnoyld
        BY <2>1 DEF Preempt, InUser, PI, PInv, YieldInv, InLoad
      <3>2. Resume(pnext(pwscan(waits, Events), pcur))
        BY <2>1 DEF Preempt
      <3>3. QED BY <3>1, <3>2, PTypes, pnextLive
    <2>2. CASE LockWait \/ ConWait \/ GetcWait \/ DelayWait
      <3>1. PICK w : pwait(w)
        BY <2>2 DEF LockWait, ConWait, GetcWait, DelayWait
      <3> DEFINE y == IF pnlive < 2 \/ pnoyld THEN pblock(waits, pcur, w)
                      ELSE pwscan(pblock(waits, pcur, w), Events)
                 n == IF pnlive < 2 \/ pnoyld THEN pcur ELSE pnext(y, pcur)
      <3>2. Resume(n)
        BY <3>1 DEF pwait
      <3>3. n # pcur => ~ pnoyld
        OBVIOUS
      <3> HIDE DEF y
      <3>4. n \in Live
        BY PTypes, pnextLive
      <3>5. QED BY <3>2, <3>3, <3>4
    <2>3. QED BY <2>1, <2>2
  <1>3. CASE n # pcur
    BY <1>1, <1>2, <1>3, Switched
  <1>4. CASE n = pcur
    <2>1. UNCHANGED <<pcur, pool, pd_seg>>
      BY <1>2, <1>4 DEF Resume
    <2>2. \A p \in Procs : (ctx'[p] = "load" <=> ctx[p] = "load")
                           /\ (InLoad(p)' <=> InLoad(p))
      BY <1>1 DEF InLoad
    <2>3. QED BY <1>1, <2>1, <2>2, PKept DEF pageVars
  <1>5. QED BY <1>3, <1>4

-----------------------------------------------------------------------------
(* Segments that programs take and give back.                              *)

(* A slot that was free goes to the running program, which is in no load,  *)
(* and the page behind it is nobody's image.                               *)
LEMMA SlotTaken ==
  ASSUME PI, ~ pnoyld, pgfirst(pool) # 0
  PROVE  LET s == pgfirst(pool)
             y == pgalloc(pool, pcur)
         IN  /\ s \in Slots /\ y.hld = pool.hld /\ y.pg = pool.pg /\ y.tpa = pool.tpa
             /\ Sound(y) /\ pool.own[s] = 0 /\ ~ pool.hld[s]
             /\ \A t \in Slots : y.own[t] = IF t = s THEN pcur + 1 ELSE pool.own[t]
             /\ \A p \in Live : pd_seg[p] # s /\ Page(p) # pool.pg[s]
             /\ \A p \in Procs : s \notin Given(p)
             /\ \A p \in Procs : \A t \in Given(p) : pool.pg[t] # pool.pg[s]
             /\ \A p \in Procs : ctx[p] = "load" => job[p].seg # s
             /\ pool.pg[s] \in Pages
  <1> DEFINE s == pgfirst(pool)
             y == pgalloc(pool, pcur)
  <1>1. /\ s \in Slots /\ y.hld = pool.hld /\ y.pg = pool.pg /\ y.tpa = pool.tpa
        /\ Sound(y) /\ pool.own[s] = 0 /\ ~ pool.hld[s]
        /\ \A t \in Slots : y.own[t] = IF t = s THEN pcur + 1 ELSE pool.own[t]
    BY PTypes, Constants, pgallocIs
  <1> HIDE DEF s, y
  <1>2. \A p \in Live : pd_seg[p] # s /\ Page(p) # pool.pg[s]
    BY <1>1, PFacts, PTypes DEF Page, Sound, Apart
  <1>3. \A p \in Procs : \A t \in Given(p) : t # s /\ pool.pg[t] # pool.pg[s]
    BY <1>1, PFacts, PTypes DEF Sound, Apart
  <1>4. \A p \in Procs : ctx[p] = "load" => job[p].seg # s
    BY <1>1, PTypes DEF PI, PInv, JobInv
  <1>5. QED BY <1>1, <1>2, <1>3, <1>4, PTypes DEF s, y

LEMMA SegmentGot ==
  ASSUME PI, GetSegment \/ pmrtseg
  PROVE  PInv'
  <1> USE DEF schedVars, callVars, lockVars
  <1> DEFINE s == pgfirst(pool)
  <1>1. /\ ctx[pcur] = "user" /\ ~ pnoyld /\ s # 0 /\ pool' = pgalloc(pool, pcur)
        /\ image' = [image EXCEPT ![pool.pg[s]] = Data(pcur)]
        /\ UNCHANGED <<pcur, pd_state, ctx, at, job, pnoyld, pd_seg>>
        /\ \/ /\ seglist' = [seglist EXCEPT ![pcur] = @ \cup {s}]
              /\ UNCHANGED pd_mrtseg
           \/ /\ pd_mrtseg[pcur] = 0 /\ pd_mrtseg' = [pd_mrtseg EXCEPT ![pcur] = s]
              /\ UNCHANGED seglist
    BY DEF GetSegment, pmrtseg, InUser, PI, PInv, YieldInv, InLoad
  <1>2. /\ s \in Slots /\ pool'.hld = pool.hld /\ pool'.pg = pool.pg
        /\ pool'.tpa = pool.tpa /\ Sound(pool') /\ pool.own[s] = 0 /\ ~ pool.hld[s]
        /\ \A t \in Slots : pool'.own[t] = IF t = s THEN pcur + 1 ELSE pool.own[t]
        /\ \A p \in Live : pd_seg[p] # s /\ Page(p) # pool.pg[s]
        /\ \A p \in Procs : s \notin Given(p)
        /\ \A p \in Procs : \A t \in Given(p) : pool.pg[t] # pool.pg[s]
        /\ \A p \in Procs : ctx[p] = "load" => job[p].seg # s
        /\ pool.pg[s] \in Pages
    BY <1>1, SlotTaken
  <1> HIDE DEF s
  <1>3. /\ Live' = Live /\ \A p : InLoad(p)' = InLoad(p)
        /\ \A p \in Procs : Page(p)' = Page(p)
    BY <1>1, <1>2 DEF Live, InLoad, Page
  <1>4. \A p \in Procs : Given(p)' = IF p = pcur THEN Given(p) \cup {s} ELSE Given(p)
    BY <1>1, <1>2, PTypes DEF Given
  <1>5. /\ image'[pool.pg[s]] = Data(pcur)
        /\ \A g \in Pages : g # pool.pg[s] => image'[g] = image[g]
    BY <1>1, <1>2, PTypes
  <1>6. YieldInv'
    BY <1>1, <1>3 DEF PI, PInv, YieldInv
  <1>7. ParkInv'
    BY <1>1, <1>2, <1>3 DEF PI, PInv, ParkInv
  <1>8. GivenInv'
    <2>1. SegmentsKept'
      <3>1. ASSUME NEW p \in Live, NEW t \in Given(p)'
            PROVE  pool'.own[t] = p + 1 /\ ~ pool'.hld[t] /\ image'[pool'.pg[t]] = Data(p)
        <4>1. CASE t = s
          <5>1. p = pcur
            BY <1>2, <1>4, <3>1, <4>1, PTypes
          <5>2. QED BY <1>2, <1>5, <4>1, <5>1
        <4>2. CASE t # s
          <5>1. t \in Given(p) /\ p \in Procs
            <6>1. p \in Procs
              BY PTypes
            <6>2. Given(p)' = Given(p) \/ Given(p)' = Given(p) \cup {s}
              BY <1>4, <6>1
            <6>3. QED BY <3>1, <4>2, <6>1, <6>2
          <5>2. t \in Slots /\ pool.pg[t] \in Pages /\ pool.pg[t] # pool.pg[s]
            BY <1>2, <5>1, PFacts, PTypes
          <5>3. QED BY <1>2, <1>5, <4>2, <5>1, <5>2, PFacts
        <4>3. QED BY <4>1, <4>2
      <3>2. QED BY <1>3, <3>1 DEF SegmentsKept, Given
    <2>2. \A p \in Procs : pd_mrtseg'[p] \notin seglist'[p]
      <3>1. \A p \in Procs : s \notin seglist[p] /\ s # pd_mrtseg[p]
        BY <1>2, PTypes DEF Given
      <3>2. \A p \in Procs : pd_mrtseg[p] \notin seglist[p]
        BY DEF PI, PInv, GivenInv
      <3>3. CASE seglist' = [seglist EXCEPT ![pcur] = @ \cup {s}] /\ UNCHANGED pd_mrtseg
        BY <3>1, <3>2, <3>3, PTypes
      <3>4. CASE pd_mrtseg' = [pd_mrtseg EXCEPT ![pcur] = s] /\ UNCHANGED seglist
        BY <3>1, <3>2, <3>4, PTypes
      <3>5. QED BY <1>1, <3>3, <3>4
    <2>3. \A p \in Procs \ Live' : Given(p)' = {}
      BY <1>3, <1>4, PTypes DEF PI, PInv, GivenInv
    <2>4. QED BY <2>1, <2>2, <2>3 DEF GivenInv
  <1>9. JobInv'
    <2>1. \A p \in Procs : ctx[p] = "load" => p # pcur /\ ~ InLoad(p)
      BY <1>1, PTypes DEF PI, PInv, YieldInv
    <2>2. QED BY <1>1, <1>2, <1>3, <1>4, <2>1 DEF PI, PInv, JobInv
  <1>10. RsvdInv'
    BY <1>1, <1>3 DEF PI, PInv, RsvdInv
  <1>11. ImagesIntact'
    <2>1. \A p \in Live : Page(p) \in Pages
      BY PTypes DEF Page
    <2>2. QED BY <1>1, <1>2, <1>3, <1>5, <2>1, PTypes DEF PI, PInv, ImagesIntact
  <1>12. PoolAccounted'
    <2>1. ASSUME NEW t \in Slots, pool'.own[t] # 0
          PROVE  \E p \in Live' : t \in Uses(p)'
      <3>1. CASE t = s
        BY <1>1, <1>3, <3>1, PTypes DEF Uses
      <3>2. CASE t # s
        <4>1. PICK p \in Live : t \in Uses(p)
          BY <1>2, <2>1, <3>2 DEF PI, PInv, PoolAccounted
        <4>2. t \in Uses(p)'
          BY <1>1, <1>2, <2>1, <3>2, <4>1, PTypes DEF Uses
        <4>3. QED BY <1>3, <4>1, <4>2
      <3>3. QED BY <3>1, <3>2
    <2>2. QED BY <2>1 DEF PoolAccounted
  <1>13. QED
    BY <1>2, <1>6, <1>7, <1>8, <1>9, <1>10, <1>11, <1>12 DEF PInv

(* A program that gives back a segment of its own takes nobody's page and  *)
(* no page in transit.                                                     *)
LEMMA SegmentPut ==
  ASSUME PI, "anyfree" \notin Calls, NEW s \in Slots, PutSegment(s)
  PROVE  PInv'
  <1> USE DEF schedVars, callVars, lockVars
  <1>1. /\ ctx[pcur] = "user" /\ ~ pnoyld /\ s \in Given(pcur) /\ s \in seglist[pcur]
        /\ pool' = pgfree(pool, s)
        /\ seglist' = [seglist EXCEPT ![pcur] = @ \ {s}]
        /\ UNCHANGED <<pcur, pd_state, ctx, at, job, pnoyld, pd_seg, pd_mrtseg, image>>
    BY DEF PutSegment, InUser, PI, PInv, YieldInv, InLoad, Given
  <1>2. pool.own[s] = pcur + 1 /\ ~ pool.hld[s] /\ pool.own[s] # 0
    BY <1>1, PFacts, PTypes
  <1>3. /\ pool'.pg = pool.pg /\ pool'.tpa = pool.tpa /\ Sound(pool')
        /\ \A t \in Slots : /\ pool'.own[t] = IF t = s THEN 0 ELSE pool.own[t]
                           /\ pool'.hld[t] = IF t = s THEN FALSE ELSE pool.hld[t]
    <2>1. pool \in Pools(NP) /\ NP \in Nat /\ Sound(pool)
      BY PTypes
    <2>2. QED BY <1>1, <1>2, <2>1, pgfreeIs
  <1>4. /\ Live' = Live /\ \A p : InLoad(p)' = InLoad(p)
        /\ \A p \in Procs : Page(p)' = Page(p)
    BY <1>1, <1>3 DEF Live, InLoad, Page
  <1>5. \A p \in Procs : Given(p)' = IF p = pcur THEN Given(p) \ {s} ELSE Given(p)
    <2>1. pd_mrtseg[pcur] # s
      BY <1>1, PTypes DEF PI, PInv, GivenInv
    <2>2. QED BY <1>1, <2>1, PTypes DEF Given
  <1>6. \A p \in Live : pd_seg[p] # s
    BY <1>1, <1>2, PFacts, PTypes
  <1>7. \A p \in Procs \ {pcur} : \A t \in Given(p) : t # s
    BY <1>2, PFacts, PTypes
  <1>8. YieldInv'
    BY <1>1, <1>4 DEF PI, PInv, YieldInv
  <1>9. ParkInv'
    BY <1>1, <1>3, <1>4, <1>6, PTypes DEF PI, PInv, ParkInv
  <1>10. GivenInv'
    <2>1. ASSUME NEW p \in Live, NEW t \in Given(p)'
          PROVE  pool'.own[t] = p + 1 /\ ~ pool'.hld[t] /\ image'[pool'.pg[t]] = Data(p)
      <3>1. p \in Procs
        BY PTypes
      <3>2. t \in Given(p) /\ t # s
        BY <1>5, <1>7, <2>1, <3>1
      <3>3. /\ t \in Slots /\ pool.own[t] = p + 1 /\ ~ pool.hld[t]
            /\ image[pool.pg[t]] = Data(p)
        BY <3>1, <3>2, PFacts
      <3>4. /\ pool'.own[t] = pool.own[t] /\ pool'.hld[t] = pool.hld[t]
            /\ pool'.pg[t] = pool.pg[t]
        BY <1>3, <3>2, <3>3
      <3>5. QED BY <1>1, <3>3, <3>4
    <2>2. SegmentsKept'
      BY <1>4, <2>1 DEF SegmentsKept, Given
    <2>3. \A p \in Procs : pd_mrtseg'[p] \notin seglist'[p]
      BY <1>1, PTypes DEF PI, PInv, GivenInv
    <2>4. QED BY <1>4, <1>5, <2>2, <2>3, PTypes DEF PI, PInv, GivenInv
  <1>11. JobInv'
    <2>1. \A p \in Procs : ctx[p] = "load" => p # pcur /\ ~ InLoad(p)
      BY <1>1, PTypes DEF PI, PInv, YieldInv
    <2>2. \A p \in Procs : ctx[p] = "load" => job[p].seg # s
      BY <1>2, <2>1, PTypes DEF PI, PInv, JobInv
    <2>3. QED BY <1>1, <1>3, <1>4, <1>5, <2>1, <2>2 DEF PI, PInv, JobInv
  <1>12. RsvdInv'
    BY <1>1, <1>4 DEF PI, PInv, RsvdInv
  <1>13. ImagesIntact'
    BY <1>1, <1>4, PTypes DEF PI, PInv, ImagesIntact
  <1>14. PoolAccounted'
    <2>1. ASSUME NEW t \in Slots, pool'.own[t] # 0
          PROVE  \E p \in Live' : t \in Uses(p)'
      <3>1. t # s
        BY <1>3, <2>1
      <3>2. PICK p \in Live : t \in Uses(p)
        BY <1>3, <2>1, <3>1 DEF PI, PInv, PoolAccounted
      <3>3. t \in Uses(p)'
        BY <1>1, <3>1, <3>2, PTypes DEF Uses
      <3>4. QED BY <1>4, <3>2, <3>3
    <2>2. QED BY <2>1 DEF PoolAccounted
  <1>15. QED
    BY <1>3, <1>8, <1>9, <1>10, <1>11, <1>12, <1>13, <1>14 DEF PInv

-----------------------------------------------------------------------------
(* Creation.                                                               *)

LEMMA Claimed ==
  ASSUME PI, NEW con, NEW sess, Claim(con, sess)
  PROVE  PInv'
  <1> USE DEF lockVars
  <1> DEFINE s == pgfirst(pool)
             k == FreeSlot
  <1>1. /\ ctx[pcur] = "user" /\ ~ pnoyld /\ s # 0 /\ pool' = pgalloc(pool, pcur)
        /\ pd_state' = [pd_state EXCEPT ![k] = "RSVD"]
        /\ job' = [job EXCEPT ![pcur] = [kid |-> k, seg |-> s, con |-> con, sess |-> sess]]
        /\ ctx' = [ctx EXCEPT ![pcur] = "load"] /\ at' = [at EXCEPT ![pcur] = "lock"]
        /\ UNCHANGED <<pcur, pnoyld, pd_seg, seglist, pd_mrtseg, image>>
    BY DEF Claim, InUser, Goto, PI, PInv, YieldInv, InLoad
  <1>2. k \in Procs /\ pd_state[k] = "FREE"
    BY FreeSlotIsFree DEF Claim
  <1>3. /\ s \in Slots /\ pool'.hld = pool.hld /\ pool'.pg = pool.pg
        /\ pool'.tpa = pool.tpa /\ Sound(pool') /\ pool.own[s] = 0 /\ ~ pool.hld[s]
        /\ \A t \in Slots : pool'.own[t] = IF t = s THEN pcur + 1 ELSE pool.own[t]
        /\ \A p \in Live : pd_seg[p] # s
        /\ \A p \in Procs : s \notin Given(p)
        /\ \A p \in Procs : ctx[p] = "load" => job[p].seg # s
    BY <1>1, SlotTaken
  <1> HIDE DEF s, k
  <1>4. /\ ctx'[pcur] = "load" /\ at'[pcur] = "lock"
        /\ job'[pcur].kid = k /\ job'[pcur].seg = s
        /\ \A p \in Procs \ {pcur} : ctx'[p] = ctx[p] /\ at'[p] = at[p] /\ job'[p] = job[p]
    BY <1>1, PTypes
  <1>5. /\ Live' = Live /\ \A p \in Procs : ~ InLoad(p) /\ ~ InLoad(p)'
        /\ \A p \in Procs : Page(p)' = Page(p)
        /\ \A p \in Procs : Given(p)' = Given(p)
    <2>1. Live' = Live
      BY <1>1, <1>2, PTypes DEF Live
    <2>2. \A p \in Procs : ~ InLoad(p)
      BY <1>1, PFacts
    <2>3. \A p \in Procs : ~ InLoad(p)'
      BY <1>4, <2>2 DEF InLoad
    <2>4. QED BY <1>1, <1>3, <2>1, <2>2, <2>3 DEF Page, Given
  <1>6. YieldInv'
    <2>1. ~ InLoad(pcur)'
      BY <1>1, <1>4 DEF InLoad
    <2>2. QED BY <1>1, <1>5, <2>1 DEF YieldInv
  <1>7. ParkInv'
    BY <1>1, <1>3, <1>5, PTypes DEF PI, PInv, ParkInv
  <1>8. GivenInv'
    <2>1. ASSUME NEW p \in Live, NEW t \in Given(p)
          PROVE  pool'.own[t] = p + 1 /\ ~ pool'.hld[t] /\ image'[pool'.pg[t]] = Data(p)
      BY <1>1, <1>3, PFacts, PTypes
    <2>2. SegmentsKept'
      BY <1>1, <1>5, <2>1 DEF SegmentsKept, Given
    <2>3. QED BY <1>1, <1>5, <2>2 DEF PI, PInv, GivenInv
  <1>9. JobInv'
    <2>1. ASSUME NEW p \in Procs, ctx'[p] = "load"
          PROVE  /\ job'[p].seg \in Slots /\ pool'.own[job'[p].seg] = p + 1
                 /\ ~ pool'.hld[job'[p].seg] /\ job'[p].seg \notin Given(p)
      <3>1. CASE p = pcur
        BY <1>3, <1>4, <3>1
      <3>2. CASE p # pcur
        BY <1>3, <1>4, <2>1, <3>2 DEF PI, PInv, JobInv
      <3>3. QED BY <3>1, <3>2
    <2>2. \A p \in Procs : ctx'[p] # "load" => job'[p] = NoJob
      BY <1>4 DEF PI, PInv, JobInv
    <2>3. QED BY <1>5, <2>1, <2>2 DEF JobInv
  <1>10. RsvdInv'
    <2>1. ASSUME NEW p \in Procs, pd_state'[p] = "RSVD"
          PROVE  \E q \in Live : ctx'[q] = "load" /\ job'[q].kid = p
      <3>1. CASE p = k
        BY <1>4, <3>1, PTypes
      <3>2. CASE p # k
        <4>1. PICK q \in Live : ctx[q] = "load" /\ job[q].kid = p
          BY <1>1, <2>1, <3>2, PTypes DEF PI, PInv, RsvdInv
        <4>2. q # pcur /\ q \in Procs
          BY <1>1, <4>1, PTypes
        <4>3. QED BY <1>4, <4>1, <4>2
      <3>3. QED BY <3>1, <3>2
    <2>2. QED BY <1>5, <2>1 DEF RsvdInv
  <1>11. ImagesIntact'
    BY <1>1, <1>5, PTypes DEF PI, PInv, ImagesIntact
  <1>12. PoolAccounted'
    <2>1. ASSUME NEW t \in Slots, pool'.own[t] # 0
          PROVE  \E p \in Live' : t \in Uses(p)'
      <3>1. CASE t = s
        <4>1. s \in Uses(pcur)'
          BY <1>1, <1>4 DEF Uses
        <4>2. QED BY <1>1, <1>5, <3>1, <4>1, PTypes
      <3>2. CASE t # s
        <4>1. PICK p \in Live : t \in Uses(p)
          BY <1>3, <2>1, <3>2 DEF PI, PInv, PoolAccounted
        <4>2. job[pcur] = NoJob
          BY <1>1, PTypes DEF PI, PInv, JobInv
        <4>3. t # 0
          BY <2>1, PTypes
        <4>4. t \in Uses(p)'
          BY <1>1, <1>4, <4>1, <4>2, <4>3, PTypes DEF Uses, NoJob
        <4>5. QED BY <1>5, <4>1, <4>4
      <3>3. QED BY <3>1, <3>2
    <2>2. QED BY <2>1 DEF PoolAccounted
  <1>13. QED
    BY <1>3, <1>6, <1>7, <1>8, <1>9, <1>10, <1>11, <1>12 DEF PInv

(* pcrgen() has the lock: the child's page becomes the TPA, the creator's  *)
(* goes behind the slot, and yielding goes off.                            *)
LEMMA LoadBegun ==
  ASSUME PI, LoadBegin
  PROVE  PInv'
  <1> DEFINE s == job[pcur].seg
             k == job[pcur].kid
  <1>1. /\ ctx[pcur] = "load" /\ at[pcur] = "lock" /\ ~ pnoyld /\ pnoyld' = TRUE
        /\ pool' = pgtpaswap(pool, s) /\ pd_seg' = [pd_seg EXCEPT ![pcur] = s]
        /\ image' = [image EXCEPT ![pool'.tpa] = Tpa(k)]
        /\ ctx' = [ctx EXCEPT ![pcur] = "load"] /\ at' = [at EXCEPT ![pcur] = "run"]
        /\ UNCHANGED <<pcur, pd_state, job, seglist, pd_mrtseg>>
    BY DEF LoadBegin, Goto, PI, PInv, YieldInv, InLoad
  <1>2. /\ s \in Slots /\ pool.own[s] = pcur + 1 /\ ~ pool.hld[s] /\ pool.own[s] # 0
        /\ s \notin Given(pcur) /\ job'[pcur].seg = s
        /\ pd_seg[pcur] = 0 /\ image[pool.tpa] = Tpa(pcur)
    BY <1>1, PFacts, PTypes DEF PI, PInv, JobInv
  <1> HIDE DEF s
  <1>3. /\ pool'.own = pool.own /\ pool'.hld = pool.hld
        /\ pool'.tpa = pool.pg[s] /\ Sound(pool')
        /\ \A t \in Slots : pool'.pg[t] = IF t = s THEN pool.tpa ELSE pool.pg[t]
    <2>1. pool \in Pools(NP) /\ NP \in Nat /\ Sound(pool)
      BY PTypes
    <2>2. QED BY <1>1, <1>2, <2>1, pgtpaswapIs
  <1>4. /\ pd_seg'[pcur] = s /\ \A p \in Procs \ {pcur} : pd_seg'[p] = pd_seg[p]
        /\ ctx' = ctx /\ at'[pcur] = "run"
        /\ \A p \in Procs \ {pcur} : at'[p] = at[p]
    BY <1>1, PTypes
  <1>5. /\ Live' = Live /\ \A p \in Procs : Given(p)' = Given(p)
        /\ \A p \in Procs : InLoad(p)' <=> p = pcur
    <2>1. Live' = Live /\ \A p \in Procs : Given(p)' = Given(p)
      BY <1>1 DEF Live, Given
    <2>2. \A p \in Procs : ~ InLoad(p)
      BY <1>1, PFacts
    <2>3. QED BY <1>1, <1>4, <2>1, <2>2 DEF InLoad
  <1>6. /\ image'[pool.pg[s]] = Tpa(k)
        /\ \A g \in Pages : g # pool.pg[s] => image'[g] = image[g]
    BY <1>1, <1>2, <1>3, PTypes
  <1>7. \A p \in Live \ {pcur} : pd_seg[p] # s
    BY <1>2, PFacts
  <1>8. YieldInv'
    <2>1. InLoad(pcur)'
      BY <1>1, <1>4 DEF InLoad
    <2>2. QED BY <1>1, <1>5, <2>1 DEF YieldInv
  <1>9. ParkInv'
    <2>1. \A p, q \in Live : p # q /\ pd_seg[p] # 0 => pd_seg[p] # pd_seg[q]
      BY DEF PI, PInv, ParkInv
    <2>2. ASSUME NEW p \in Live, NEW q \in Live, p # q, pd_seg'[p] # 0
          PROVE  pd_seg'[p] # pd_seg'[q]
      BY <1>2, <1>4, <1>7, <2>1, <2>2, PTypes
    <2>3. ASSUME NEW p \in Live, ~ InLoad(p)', pd_seg'[p] # 0
          PROVE  pool'.hld[pd_seg'[p]]
      <3>1. p # pcur /\ p \in Procs
        BY <1>5, <2>3, PTypes
      <3>2. QED BY <1>3, <1>4, <3>1, PFacts
    <2>4. QED BY <1>5, <2>2, <2>3 DEF ParkInv
  <1>10. GivenInv'
    <2>1. ASSUME NEW p \in Live, NEW t \in Given(p)
          PROVE  pool'.own[t] = p + 1 /\ ~ pool'.hld[t] /\ image'[pool'.pg[t]] = Data(p)
      <3>1. /\ p \in Procs /\ t \in Slots /\ pool.own[t] = p + 1 /\ ~ pool.hld[t]
            /\ image[pool.pg[t]] = Data(p)
        BY PFacts, PTypes
      <3>2. t # s
        BY <1>2, <3>1, PTypes
      <3>3. pool.pg[t] \in Pages /\ pool.pg[t] # pool.pg[s]
        BY <1>2, <3>1, <3>2, PTypes DEF Sound, Apart
      <3>4. QED BY <1>3, <1>6, <3>1, <3>2, <3>3
    <2>2. SegmentsKept'
      BY <1>5, <2>1, LiveProcs DEF SegmentsKept, Given
    <2>3. QED BY <1>1, <1>5, <2>2 DEF PI, PInv, GivenInv
  <1>11. JobInv'
    <2>1. ASSUME NEW p \in Procs, InLoad(p)'
          PROVE  pd_seg'[p] = job[p].seg /\ image'[pool'.tpa] = Tpa(job[p].kid)
      BY <1>3, <1>4, <1>5, <1>6, <2>1 DEF s, k
    <2>2. QED BY <1>1, <1>3, <1>4, <1>5, <2>1 DEF PI, PInv, JobInv
  <1>12. RsvdInv'
    BY <1>1, <1>4, <1>5 DEF PI, PInv, RsvdInv
  <1>13. ImagesIntact'
    <2>1. ASSUME NEW p \in Live
          PROVE  pd_seg'[p] # 0 /\ image'[pool'.pg[pd_seg'[p]]] = Tpa(p)
      <3>1. CASE p = pcur
        <4>1. pool'.pg[s] = pool.tpa /\ pool.tpa \in Pages /\ pool.tpa # pool.pg[s]
          BY <1>2, <1>3, PTypes DEF Sound, Apart
        <4>2. QED BY <1>2, <1>4, <1>6, <3>1, <4>1, PTypes
      <3>2. CASE p # pcur
        <4>1. /\ p \in Procs /\ pd_seg[p] \in Slots /\ pd_seg[p] # s
              /\ image[pool.pg[pd_seg[p]]] = Tpa(p) /\ pd_seg'[p] = pd_seg[p]
          BY <1>4, <1>7, <3>2, PFacts, PTypes
        <4>2. pool.pg[pd_seg[p]] \in Pages /\ pool.pg[pd_seg[p]] # pool.pg[s]
          BY <1>2, <4>1, PTypes DEF Sound, Apart
        <4>3. QED BY <1>3, <1>6, <4>1, <4>2, PTypes
      <3>3. QED BY <3>1, <3>2
    <2>2. QED BY <1>1, <1>5, <2>1 DEF ImagesIntact, Page
  <1>14. PoolAccounted'
    <2>1. ASSUME NEW t \in Slots, pool'.own[t] # 0
          PROVE  \E p \in Live' : t \in Uses(p)'
      <3>1. PICK p \in Live : t \in Uses(p)
        BY <1>3, <2>1 DEF PI, PInv, PoolAccounted
      <3>2. t # 0 /\ p \in Procs
        BY PTypes
      <3>3. t \in Uses(p)'
        BY <1>1, <1>2, <1>4, <3>1, <3>2 DEF Uses
      <3>4. QED BY <1>5, <3>1, <3>3
    <2>2. QED BY <2>1 DEF PoolAccounted
  <1>15. QED
    BY <1>3, <1>8, <1>9, <1>10, <1>11, <1>12, <1>13, <1>14 DEF PInv

(* The two ends of a load.  The swap brings the creator's page back; then  *)
(* the child's slot is held for the child, or freed.                       *)
LEMMA LoadEnded ==
  ASSUME PI, LoadOk \/ LoadFail
  PROVE  PInv'
  <1> DEFINE s == job[pcur].seg
             k == job[pcur].kid
             m == pgtpaswap(pool, s)
  <1>1. /\ ctx[pcur] = "load" /\ at[pcur] = "run" /\ pnoyld /\ pnoyld' = FALSE
        /\ job' = [job EXCEPT ![pcur] = NoJob]
        /\ UNCHANGED <<pcur, seglist, pd_mrtseg, image>>
        /\ LoadOk \/ LoadFail
        /\ LoadOk => /\ pool' = pghold(m, s, TRUE)
                     /\ pd_seg' = [pd_seg EXCEPT ![pcur] = 0, ![k] = s]
                     /\ pd_state' = [pd_state EXCEPT ![k] = "LIVE"]
                     /\ ctx' = [ctx EXCEPT ![pcur] = "user", ![k] = "user"]
        /\ LoadFail => /\ pool' = pgfree(m, s)
                       /\ pd_seg' = [pd_seg EXCEPT ![pcur] = 0]
                       /\ pd_state' = [pd_state EXCEPT ![k] = "FREE"]
                       /\ ctx' = [ctx EXCEPT ![pcur] = "user"]
    BY DEF LoadOk, LoadFail, Unload, Inside, Goto, PI, PInv, YieldInv, InLoad
  <1>2. /\ s \in Slots /\ pool.own[s] = pcur + 1 /\ ~ pool.hld[s] /\ pool.own[s] # 0
        /\ s \notin Given(pcur) /\ pd_seg[pcur] = s
        /\ image[pool.tpa] = Tpa(k) /\ image[pool.pg[s]] = Tpa(pcur)
    BY <1>1, PFacts, PTypes DEF PI, PInv, JobInv, InLoad
  <1>3. /\ k \in Procs /\ k # pcur /\ pd_state[k] = "RSVD" /\ k \notin Live
        /\ ctx[k] = "user"
        /\ \A p \in Procs : p # pcur /\ ctx[p] = "load" => job[p].kid # k
    BY <1>1, PTypes DEF PI, IInv, LockInv, ClaimsHeld, Live
  <1>4. /\ m \in Pools(NP) /\ m.own = pool.own /\ m.hld = pool.hld
        /\ m.tpa = pool.pg[s] /\ Sound(m) /\ m.own[s] # 0
        /\ \A t \in Slots : m.pg[t] = IF t = s THEN pool.tpa ELSE pool.pg[t]
    <2>1. pool \in Pools(NP) /\ NP \in Nat /\ Sound(pool)
      BY PTypes
    <2>2. QED BY <1>2, <2>1, pgtpaswapIs, pgtpaswapType
  <1> HIDE DEF s, k, m
  <1>5. /\ pool'.pg = m.pg /\ pool'.tpa = m.tpa /\ Sound(pool')
        /\ \A t \in Slots \ {s} : pool'.own[t] = pool.own[t] /\ pool'.hld[t] = pool.hld[t]
        /\ LoadOk => pool'.hld[s] /\ pool'.own[s] = pool.own[s]
        /\ LoadFail => pool'.own[s] = 0
    <2>1. /\ NP \in Nat /\ m \in Pools(NP) /\ s \in Slots /\ m.own[s] # 0 /\ Sound(m)
      BY <1>2, <1>4, PTypes
    <2>0. /\ LoadOk => pd_state'[k] = "LIVE"
          /\ LoadFail => pd_state'[k] = "FREE"
      BY <1>1, <1>3, PTypes
    <2>2. CASE LoadOk
      <3>1. pool' = pghold(m, s, TRUE)
        BY <1>1, <2>2
      <3>2. /\ pool'.own = m.own /\ pool'.pg = m.pg /\ pool'.tpa = m.tpa /\ Sound(pool')
            /\ pool'.hld[s] /\ \A t \in Slots \ {s} : pool'.hld[t] = m.hld[t]
        BY <2>1, <3>1, pgholdParks
      <3>3. ~ LoadFail
        BY <2>0, <2>2
      <3>4. QED BY <1>2, <1>4, <3>1, <3>2, <3>3
    <2>3. CASE LoadFail
      <3>1. pool' = pgfree(m, s)
        BY <1>1, <2>3
      <3>2. /\ pool'.pg = m.pg /\ pool'.tpa = m.tpa /\ Sound(pool')
            /\ \A t \in Slots : /\ pool'.own[t] = IF t = s THEN 0 ELSE m.own[t]
                               /\ pool'.hld[t] = IF t = s THEN FALSE ELSE m.hld[t]
        BY <2>1, <3>1, pgfreeIs
      <3>3. ~ LoadOk
        BY <2>0, <2>3
      <3>4. QED BY <1>2, <1>4, <3>2, <3>3
    <2>4. QED BY <1>1, <2>2, <2>3
  <1>6. /\ ctx'[pcur] = "user" /\ ctx'[k] = "user" /\ pd_seg'[pcur] = 0
        /\ \A p \in Procs \ {pcur, k} : ctx'[p] = ctx[p] /\ pd_seg'[p] = pd_seg[p]
        /\ \A p \in Procs \ {pcur} : job'[p] = job[p]
        /\ job'[pcur] = NoJob
        /\ \A p \in Procs \ {k} : pd_state'[p] = pd_state[p]
        /\ LoadOk => pd_seg'[k] = s /\ pd_state'[k] = "LIVE"
        /\ LoadFail => pd_state'[k] = "FREE"
        /\ pd_state'[k] # "RSVD"
    BY <1>1, <1>3, PTypes
  <1>7. /\ LoadOk => Live' = Live \cup {k}
        /\ LoadFail => Live' = Live
        /\ \A p \in Procs : Given(p)' = Given(p)
        /\ \A p \in Procs : ~ InLoad(p)'
    <2>1. LoadOk => Live' = Live \cup {k}
      BY <1>3, <1>6 DEF Live
    <2>2. LoadFail => Live' = Live
      BY <1>3, <1>6 DEF Live
    <2>3. \A p \in Procs : Given(p)' = Given(p)
      BY <1>1 DEF Given
    <2>4. \A p \in Procs : ctx'[p] = "load" => ~ InLoad(p) /\ p # pcur /\ p # k
      BY <1>1, <1>6 DEF PI, PInv, YieldInv
    <2>5. \A p \in Procs \ {pcur, k} : at'[p] = at[p]
      BY PTypes DEF LoadOk, LoadFail, Goto, k
    <2>6. QED BY <1>6, <2>1, <2>2, <2>3, <2>4, <2>5 DEF InLoad
  <1>8. \A p \in Live \ {pcur} : /\ pd_seg[p] # s /\ p # k /\ pd_seg'[p] = pd_seg[p]
                                /\ p \in Procs
    BY <1>2, <1>3, <1>6, PFacts, PTypes
  <1>9. YieldInv'
    <2>1. ~ InLoad(pcur)'
      BY <1>1, <1>6 DEF InLoad
    <2>2. QED BY <1>1, <1>7, <2>1 DEF YieldInv
  <1>10. ParkInv'
    <2>1. \A p, q \in Live : p # q /\ pd_seg[p] # 0 => pd_seg[p] # pd_seg[q]
      BY DEF PI, PInv, ParkInv
    <2>2. \A p \in Live \ {pcur} : pd_seg'[p] # s /\ pd_seg'[p] # 0 /\ pool'.hld[pd_seg'[p]]
      BY <1>5, <1>8, PFacts, PTypes
    <2>3. \A p, q \in Live : p # q /\ pd_seg'[p] # 0 => pd_seg'[p] # pd_seg'[q]
      BY <1>6, <1>8, <2>1, <2>2
    <2>4. CASE LoadOk
      <3>1. Live' = Live \cup {k} /\ pd_seg'[k] = s /\ pool'.hld[s]
        BY <1>5, <1>6, <1>7, <2>4
      <3>2. \A p \in Live : pd_seg'[p] # s
        BY <1>2, <1>6, <2>2, PTypes
      <3>3. \A p, q \in Live' : p # q /\ pd_seg'[p] # 0 => pd_seg'[p] # pd_seg'[q]
        BY <2>3, <3>1, <3>2
      <3>4. \A p \in Live' : pd_seg'[p] # 0 => pool'.hld[pd_seg'[p]]
        BY <1>6, <2>2, <3>1
      <3>5. QED BY <3>3, <3>4 DEF ParkInv
    <2>5. CASE LoadFail
      <3>1. \A p \in Live' : pd_seg'[p] # 0 => pool'.hld[pd_seg'[p]]
        BY <1>6, <1>7, <2>2, <2>5
      <3>2. QED BY <1>7, <2>3, <2>5, <3>1 DEF ParkInv
    <2>6. QED BY <1>1, <2>4, <2>5
  <1>11. GivenInv'
    <2>1. ASSUME NEW p \in Procs, NEW t \in Given(p)
          PROVE  pool'.own[t] = p + 1 /\ ~ pool'.hld[t] /\ image'[pool'.pg[t]] = Data(p)
      <3>1. /\ t \in Slots /\ pool.own[t] = p + 1 /\ ~ pool.hld[t]
            /\ image[pool.pg[t]] = Data(p)
        BY PFacts
      <3>2. t # s
        BY <1>2, <3>1, PTypes
      <3>3. QED BY <1>1, <1>4, <1>5, <3>1, <3>2
    <2>2. Live' \subseteq Procs /\ Live \subseteq Live'
      BY <1>1, <1>3, <1>7, PTypes
    <2>3. SegmentsKept'
      BY <1>7, <2>1, <2>2 DEF SegmentsKept, Given
    <2>4. QED BY <1>1, <1>7, <2>2, <2>3 DEF PI, PInv, GivenInv
  <1>12. JobInv'
    <2>1. ASSUME NEW p \in Procs, ctx'[p] = "load"
          PROVE  /\ job'[p].seg \in Slots /\ pool'.own[job'[p].seg] = p + 1
                 /\ ~ pool'.hld[job'[p].seg] /\ job'[p].seg \notin Given(p)
      <3>1. p # pcur /\ p # k /\ ctx[p] = "load" /\ job'[p] = job[p]
        BY <1>6, <2>1
      <3>2. /\ job[p].seg \in Slots /\ pool.own[job[p].seg] = p + 1
            /\ ~ pool.hld[job[p].seg] /\ job[p].seg \notin Given(p)
        BY <3>1 DEF PI, PInv, JobInv
      <3>3. job[p].seg # s
        BY <1>2, <3>1, <3>2, PTypes
      <3>4. QED BY <1>5, <3>1, <3>2, <3>3
    <2>2. \A p \in Procs : ctx'[p] # "load" => job'[p] = NoJob
      BY <1>3, <1>6 DEF PI, PInv, JobInv
    <2>3. QED BY <1>7, <2>1, <2>2 DEF JobInv
  <1>13. RsvdInv'
    <2>1. ASSUME NEW p \in Procs, pd_state'[p] = "RSVD"
          PROVE  \E q \in Live' : ctx'[q] = "load" /\ job'[q].kid = p
      <3>1. p # k /\ pd_state[p] = "RSVD"
        BY <1>6, <2>1
      <3>2. PICK q \in Live : ctx[q] = "load" /\ job[q].kid = p
        BY <3>1 DEF PI, PInv, RsvdInv
      <3>3. q # pcur
        BY <3>1, <3>2 DEF k
      <3>4. QED BY <1>1, <1>6, <1>7, <1>8, <3>2, <3>3
    <2>2. QED BY <2>1 DEF RsvdInv
  <1>14. ImagesIntact'
    <2>1. image'[pool'.tpa] = Tpa(pcur)
      BY <1>1, <1>2, <1>4, <1>5
    <2>2. ASSUME NEW p \in Live' \ {pcur}
          PROVE  pd_seg'[p] # 0 /\ image'[pool'.pg[pd_seg'[p]]] = Tpa(p)
      <3>1. CASE p = k
        <4>1. LoadOk
          BY <1>1, <1>3, <1>7, <3>1
        <4>2. QED BY <1>1, <1>2, <1>4, <1>5, <1>6, <3>1, <4>1, PTypes
      <3>2. CASE p # k
        <4>1. p \in Live \ {pcur}
          BY <1>1, <1>7, <3>2
        <4>2. QED BY <1>1, <1>4, <1>5, <1>8, <4>1, PFacts, PTypes
      <3>3. QED BY <3>1, <3>2
    <2>3. QED BY <1>1, <1>6, <2>1, <2>2 DEF ImagesIntact, Page
  <1>15. PoolAccounted'
    <2>1. ASSUME NEW t \in Slots, pool'.own[t] # 0
          PROVE  \E p \in Live' : t \in Uses(p)'
      <3>1. CASE t = s
        <4>1. LoadOk
          BY <1>1, <1>5, <2>1, <3>1
        <4>2. \A p \in Procs : p = k => p \in Live' /\ s \in Uses(p)'
          BY <1>6, <1>7, <4>1 DEF Uses
        <4>3. QED BY <1>3, <3>1, <4>2
      <3>2. CASE t # s
        <4>1. PICK p \in Live : t \in Uses(p)
          BY <1>5, <2>1, <3>2 DEF PI, PInv, PoolAccounted
        <4>2. p \in Procs /\ t # 0 /\ p # k
          BY <1>3, <4>1, PTypes
        <4>3. CASE p = pcur
          <5>1. t \in {pd_mrtseg[p]} \cup seglist[p]
            BY <1>2, <3>2, <4>1, <4>3 DEF Uses, s
          <5>2. QED BY <1>1, <1>7, <4>1, <5>1 DEF Uses
        <4>4. CASE p # pcur
          <5>1. Uses(p)' = Uses(p)
            BY <1>1, <1>6, <4>2, <4>4 DEF Uses
          <5>2. QED BY <1>1, <1>7, <4>1, <5>1
        <4>5. QED BY <4>3, <4>4
      <3>3. QED BY <3>1, <3>2
    <2>2. QED BY <2>1 DEF PoolAccounted
  <1>16. QED
    BY <1>5, <1>9, <1>10, <1>11, <1>12, <1>13, <1>14, <1>15 DEF PInv

-----------------------------------------------------------------------------
(* Endings.                                                                *)

(* What pmrtrel() and pgrelproc() leave of the pool: the held slots, and   *)
(* the others' segments.                                                   *)
LEMMA Emptied ==
  ASSUME PI, ctx[pcur] # "load", NEW m, m = pgfree(pool, pd_mrtseg[pcur])
  PROVE  /\ m \in Pools(NP) /\ Sound(m) /\ m.pg = pool.pg /\ m.tpa = pool.tpa
         /\ \A t \in Slots : m.hld[t] = pool.hld[t]
         /\ \A t \in Slots : m.own[t] = IF t = pd_mrtseg[pcur] THEN 0 ELSE pool.own[t]
  <1> DEFINE s == pd_mrtseg[pcur]
  <1>1. pool \in Pools(NP) /\ NP \in Nat /\ Sound(pool) /\ s \in {0} \cup Slots
        /\ pool.hld \in [Slots -> BOOLEAN] /\ 0 \notin Slots
    BY PTypes
  <1>2. m \in Pools(NP)
    BY <1>1, pgfreeType
  <1>3. CASE s = 0
    <2>1. m = pool
      BY <1>1, <1>3 DEF pgfree, Owned
    <2>2. QED BY <1>1, <1>2, <1>3, <2>1
  <1>4. CASE s # 0
    <2>1. s \in Given(pcur)
      BY <1>4 DEF Given
    <2>2. s \in Slots /\ pool.own[s] # 0 /\ ~ pool.hld[s]
      BY <2>1, PFacts, PTypes
    <2>3. m = pgfree(pool, s)
      OBVIOUS
    <2> HIDE DEF s
    <2>4. /\ m.pg = pool.pg /\ m.tpa = pool.tpa /\ Sound(m)
          /\ \A t \in Slots : /\ m.own[t] = IF t = s THEN 0 ELSE pool.own[t]
                             /\ m.hld[t] = IF t = s THEN FALSE ELSE pool.hld[t]
      <3>1. LET y == pgfree(pool, s)
            IN  /\ y.pg = pool.pg /\ y.tpa = pool.tpa /\ Sound(y)
                /\ \A t \in Slots : /\ y.own[t] = IF t = s THEN 0 ELSE pool.own[t]
                                   /\ y.hld[t] = IF t = s THEN FALSE ELSE pool.hld[t]
        BY <1>1, <2>2, pgfreeIs
      <3>2. QED BY <2>3, <3>1
    <2>5. \A t \in Slots : m.hld[t] = pool.hld[t]
      BY <1>1, <2>2, <2>4
    <2>6. QED BY <1>2, <2>4, <2>5 DEF s
  <1>5. QED BY <1>3, <1>4

(* What every ending leaves of the running process: nothing it was given,  *)
(* no creation, and what it owned goes unless it parks a live image.       *)
LEMMA EndFacts ==
  ASSUME PI, ctx[pcur] # "load", GiveBack
  PROVE  /\ ~ pnoyld /\ pnoyld' = pnoyld /\ job' = job /\ ctx'[pcur] = "user"
         /\ \A p \in Procs \ {pcur} : ctx'[p] = ctx[p] /\ at'[p] = at[p]
         /\ \A p \in Procs : Given(p)' = IF p = pcur THEN {} ELSE Given(p)
         /\ \A p \in Procs : ~ InLoad(p) /\ ~ InLoad(p)'
         /\ \A p \in Procs : pd_mrtseg'[p] \notin seglist'[p]
         /\ \A p \in Procs \ {pcur} : pd_mrtseg'[p] = pd_mrtseg[p] /\ seglist'[p] = seglist[p]
         /\ job[pcur] = NoJob /\ pd_seg[pcur] = 0
  <1>1. /\ pd_mrtseg' = [pd_mrtseg EXCEPT ![pcur] = 0]
        /\ seglist' = [seglist EXCEPT ![pcur] = {}]
        /\ job' = [job EXCEPT ![pcur] = NoJob] /\ pnoyld' = pnoyld
        /\ ctx' = [ctx EXCEPT ![pcur] = "user"] /\ at' = [at EXCEPT ![pcur] = "run"]
    BY DEF GiveBack, Goto
  <1>2. ~ pnoyld /\ pd_seg[pcur] = 0 /\ \A p \in Procs : ~ InLoad(p)
    BY PFacts
  <1>3. job[pcur] = NoJob
    BY PTypes DEF PI, PInv, JobInv
  <1>4. job' = job /\ ctx'[pcur] = "user"
        /\ \A p \in Procs \ {pcur} : ctx'[p] = ctx[p] /\ at'[p] = at[p]
    BY <1>1, <1>3, PTypes
  <1>5. \A p \in Procs : ~ InLoad(p)'
    BY <1>2, <1>4 DEF InLoad
  <1>6. /\ pd_mrtseg'[pcur] = 0 /\ seglist'[pcur] = {}
        /\ \A p \in Procs \ {pcur} : pd_mrtseg'[p] = pd_mrtseg[p] /\ seglist'[p] = seglist[p]
    BY <1>1, PTypes
  <1>7. \A p \in Procs : Given(p)' = IF p = pcur THEN {} ELSE Given(p)
    BY <1>6 DEF Given
  <1>8. \A p \in Procs : pd_mrtseg'[p] \notin seglist'[p]
    BY <1>6 DEF PI, PInv, GivenInv
  <1>9. QED BY <1>1, <1>2, <1>3, <1>4, <1>5, <1>6, <1>7, <1>8

(* A slot that is still allocated after an ending was used by a process    *)
(* that still uses it.                                                     *)
LEMMA EndAccounted ==
  ASSUME PI, ctx[pcur] # "load", NEW t \in Slots, pool.own[t] # 0,
         t # pd_mrtseg[pcur], ~ (pool.own[t] = pcur + 1 /\ ~ pool.hld[t])
  PROVE  \E p \in Live \ {pcur} : t \in Uses(p)
  <1>1. PICK p \in Live : t \in Uses(p)
    BY DEF PI, PInv, PoolAccounted
  <1>2. p # pcur
    <2>1. SUFFICES ASSUME p = pcur PROVE FALSE
      OBVIOUS
    <2>2. job[pcur] = NoJob /\ pd_seg[pcur] = 0 /\ t # 0
      BY PFacts, PTypes DEF PI, PInv, JobInv, YieldInv, InLoad
    <2>3. t \in seglist[pcur]
      BY <1>1, <2>1, <2>2 DEF Uses, NoJob
    <2>4. t \in Given(pcur)
      BY <2>3 DEF Given
    <2>5. QED BY <2>4, PFacts, PTypes
  <1>3. QED BY <1>1, <1>2

LEMMA Reloaded ==
  ASSUME PI, ctx[pcur] # "load", Reload
  PROVE  PInv'
  <1> DEFINE m == pgfree(pool, pd_mrtseg[pcur])
             r == IF pgheld(m) THEN m ELSE pgtparest(m)
  <1>1. /\ GiveBack /\ pool' = pgrelproc(r, pcur)
        /\ image' = [image EXCEPT ![pool'.tpa] = Tpa(pcur)]
        /\ UNCHANGED <<pcur, pd_state, pd_seg>>
    BY DEF Reload, pgrelall
  <1>2. /\ m \in Pools(NP) /\ Sound(m) /\ m.pg = pool.pg /\ m.tpa = pool.tpa
        /\ \A t \in Slots : m.hld[t] = pool.hld[t]
        /\ \A t \in Slots : m.own[t] = IF t = pd_mrtseg[pcur] THEN 0 ELSE pool.own[t]
    BY Emptied
  <1> HIDE DEF m
  <1>3. /\ r \in Pools(NP) /\ Sound(r) /\ r.own = m.own /\ r.hld = m.hld
        /\ pgheld(m) => r = m
    BY <1>2, PTypes, pgtparestIs, pgtparestType
  <1> HIDE DEF r
  <1>4. /\ pool'.hld = r.hld /\ pool'.pg = r.pg /\ pool'.tpa = r.tpa /\ Sound(pool')
        /\ \A t \in Slots : pool'.own[t] = IF r.own[t] = pcur + 1 /\ ~ r.hld[t]
                                          THEN 0 ELSE r.own[t]
    BY <1>1, <1>3, PTypes, pgrelprocIs
  <1>5. \A t \in Slots :
           /\ pool'.hld[t] = pool.hld[t]
           /\ pool'.own[t] = IF t = pd_mrtseg[pcur] \/ (pool.own[t] = pcur + 1 /\ ~ pool.hld[t])
                             THEN 0 ELSE pool.own[t]
    BY <1>2, <1>3, <1>4, PTypes
  <1>6. /\ Live' = Live
        /\ ~ pnoyld /\ pnoyld' = pnoyld /\ job' = job /\ ctx'[pcur] = "user"
        /\ \A p \in Procs \ {pcur} : ctx'[p] = ctx[p]
        /\ \A p \in Procs : Given(p)' = IF p = pcur THEN {} ELSE Given(p)
        /\ \A p \in Procs : ~ InLoad(p) /\ ~ InLoad(p)'
        /\ \A p \in Procs : pd_mrtseg'[p] \notin seglist'[p]
        /\ \A p \in Procs \ {pcur} : pd_mrtseg'[p] = pd_mrtseg[p] /\ seglist'[p] = seglist[p]
        /\ job[pcur] = NoJob /\ pd_seg[pcur] = 0
    BY <1>1, EndFacts DEF Live
  <1>7. ASSUME NEW p \in Live, p # pcur
        PROVE  /\ pool'.pg = pool.pg /\ pool'.tpa = pool.tpa /\ p \in Procs
               /\ pd_seg[p] \in Slots /\ pool.hld[pd_seg[p]] /\ image[pool.pg[pd_seg[p]]] = Tpa(p)
    <2>1. /\ p \in Procs /\ pd_seg[p] \in Slots /\ pool.hld[pd_seg[p]]
          /\ pool.own[pd_seg[p]] # 0 /\ image[pool.pg[pd_seg[p]]] = Tpa(p)
      BY <1>7, PFacts, PTypes
    <2>2. pd_seg[p] # pd_mrtseg[pcur]
      <3>1. pd_mrtseg[pcur] # 0 => ~ pool.hld[pd_mrtseg[pcur]]
        BY PFacts, PTypes DEF Given
      <3>2. QED BY <2>1, <3>1, PTypes
    <2>3. pgheld(m)
      BY <1>2, <2>1, <2>2 DEF pgheld
    <2>4. QED BY <1>2, <1>3, <1>4, <2>1, <2>3
  <1>8. /\ image'[pool'.tpa] = Tpa(pcur)
        /\ \A g \in Pages : g # pool'.tpa => image'[g] = image[g]
    <2>1. pool' \in Pools(NP)
      BY <1>1, <1>3, PTypes, pgrelprocType
    <2>2. pool'.tpa \in Pages
      BY <2>1, PTypes, PoolFields
    <2>3. QED BY <1>1, <2>2, PTypes
  <1>9. YieldInv'
    <2>1. ~ InLoad(pcur)'
      BY <1>1, <1>6 DEF InLoad
    <2>2. QED BY <1>1, <1>6, <2>1 DEF YieldInv
  <1>10. ParkInv'
    <2>1. \A p \in Live : pd_seg[p] # 0 => pool'.hld[pd_seg[p]]
      BY <1>5, <1>6, <1>7, PTypes
    <2>2. QED BY <1>1, <1>6, <2>1 DEF PI, PInv, ParkInv
  <1>11. ASSUME NEW p \in Live, p # pcur, NEW t \in Given(p)
         PROVE  /\ pool'.own[t] = p + 1 /\ ~ pool'.hld[t] /\ image'[pool'.pg[t]] = Data(p)
    <2>1. /\ t \in Slots /\ pool.own[t] = p + 1 /\ ~ pool.hld[t] /\ p \in Procs
          /\ image[pool.pg[t]] = Data(p)
      BY PFacts, PTypes
    <2>2. t # pd_mrtseg[pcur]
      <3>1. pd_mrtseg[pcur] # 0 => pool.own[pd_mrtseg[pcur]] = pcur + 1
        BY PFacts, PTypes DEF Given
      <3>2. QED BY <1>11, <2>1, <3>1, PTypes
    <2>3. pool'.own[t] = p + 1 /\ ~ pool'.hld[t]
      BY <1>5, <1>11, <2>1, <2>2, PTypes
    <2>4. pool'.pg[t] = pool.pg[t] /\ pool.pg[t] \in Pages /\ pool.pg[t] # pool'.tpa
      BY <1>7, <1>11, <2>1, PTypes DEF Sound, Apart
    <2>5. QED BY <1>8, <2>1, <2>3, <2>4
  <1>12. GivenInv'
    <2>1. \A p \in Live : p # pcur => \A t \in Given(p)' :
             pool'.own[t] = p + 1 /\ ~ pool'.hld[t] /\ image'[pool'.pg[t]] = Data(p)
      BY <1>6, <1>11, PTypes
    <2>2. \A p \in Live : p = pcur => Given(p)' = {}
      BY <1>6, PTypes
    <2>3. SegmentsKept'
      BY <1>6, <2>1, <2>2 DEF SegmentsKept, Given
    <2>4. \A p \in Procs \ Live' : Given(p)' = {}
      BY <1>6 DEF PI, PInv, GivenInv
    <2>5. QED BY <1>6, <2>3, <2>4 DEF GivenInv
  <1>13. ASSUME NEW p \in Procs, ctx'[p] = "load"
         PROVE  /\ p \in Live /\ p # pcur /\ ctx[p] = "load"
                /\ job[p].seg \in Slots /\ pool'.own[job[p].seg] = p + 1
                /\ ~ pool'.hld[job[p].seg] /\ job[p].seg \notin Given(p)
    <2>1. p # pcur /\ ctx[p] = "load" /\ p \in Live
      BY <1>6, <1>13, PFacts
    <2>2. /\ job[p].seg \in Slots /\ pool.own[job[p].seg] = p + 1
          /\ ~ pool.hld[job[p].seg] /\ job[p].seg \notin Given(p)
      BY <2>1 DEF PI, PInv, JobInv
    <2>3. job[p].seg # pd_mrtseg[pcur]
      <3>1. pd_mrtseg[pcur] # 0 => pool.own[pd_mrtseg[pcur]] = pcur + 1
        BY PFacts, PTypes DEF Given
      <3>2. QED BY <2>1, <2>2, <3>1, PTypes
    <2>4. QED BY <1>5, <2>1, <2>2, <2>3, PTypes
  <1>14. JobInv'
    <2>1. \A p \in Procs : ctx'[p] # "load" => job'[p] = NoJob
      BY <1>6 DEF PI, PInv, JobInv
    <2>2. \A p \in Procs : ctx'[p] = "load" => Given(p)' = Given(p)
      BY <1>6
    <2>3. QED BY <1>6, <1>13, <2>1, <2>2 DEF JobInv
  <1>15. RsvdInv'
    <2>1. ASSUME NEW p \in Procs, pd_state[p] = "RSVD"
          PROVE  \E q \in Live : ctx'[q] = "load" /\ job'[q].kid = p
      <3>1. PICK q \in Live : ctx[q] = "load" /\ job[q].kid = p
        BY <2>1 DEF PI, PInv, RsvdInv
      <3>2. q # pcur /\ q \in Procs
        BY <3>1, PTypes
      <3>3. QED BY <1>6, <3>1, <3>2
    <2>2. QED BY <1>1, <1>6, <2>1 DEF RsvdInv
  <1>16. ImagesIntact'
    <2>1. ASSUME NEW p \in Live, p # pcur
          PROVE  pd_seg[p] # 0 /\ image'[pool'.pg[pd_seg[p]]] = Tpa(p)
      <3>1. pool.pg[pd_seg[p]] \in Pages /\ pool.pg[pd_seg[p]] # pool.tpa
        BY <1>7, <2>1, PTypes DEF Sound, Apart
      <3>2. QED BY <1>7, <1>8, <2>1, <3>1, PTypes
    <2>2. QED BY <1>1, <1>6, <1>8, <2>1 DEF ImagesIntact, Page
  <1>17. PoolAccounted'
    <2>1. ASSUME NEW t \in Slots, pool'.own[t] # 0
          PROVE  \E p \in Live' : t \in Uses(p)'
      <3>1. /\ pool.own[t] # 0 /\ t # pd_mrtseg[pcur]
            /\ ~ (pool.own[t] = pcur + 1 /\ ~ pool.hld[t])
        BY <1>5, <2>1
      <3>2. PICK p \in Live \ {pcur} : t \in Uses(p)
        BY <3>1, EndAccounted
      <3>3. Uses(p)' = Uses(p)
        BY <1>1, <1>6, <3>2, PTypes DEF Uses
      <3>4. QED BY <1>6, <3>2, <3>3
    <2>2. QED BY <2>1 DEF PoolAccounted
  <1>18. QED
    BY <1>4, <1>9, <1>10, <1>12, <1>14, <1>15, <1>16, <1>17 DEF PInv

(* What a death leaves of the pool: the successor's page is the TPA, its   *)
(* slot is free, and so is what the dead program was given.                *)
LEMMA DiedPool ==
  ASSUME PI, ctx[pcur] # "load", NEW s \in Slots, pool.own[s] # 0, pool.hld[s]
  PROVE  LET rel == pgrelproc(pgfree(pool, pd_mrtseg[pcur]), pcur)
             y == pgfree(pghold(pgtpaswap(rel, s), s, FALSE), s)
         IN  /\ y.tpa = pool.pg[s] /\ Sound(y)
             /\ \A t \in Slots :
                  /\ y.pg[t] = IF t = s THEN pool.tpa ELSE pool.pg[t]
                  /\ y.own[t] = IF \/ t = s \/ t = pd_mrtseg[pcur]
                                   \/ (pool.own[t] = pcur + 1 /\ ~ pool.hld[t])
                                THEN 0 ELSE pool.own[t]
             /\ ~ y.hld[s] /\ \A t \in Slots \ {s} : y.hld[t] = pool.hld[t]
  <1> DEFINE m == pgfree(pool, pd_mrtseg[pcur])
             rel == pgrelproc(m, pcur)
             y == pgfree(pghold(pgtpaswap(rel, s), s, FALSE), s)
  <1>1. /\ m \in Pools(NP) /\ Sound(m) /\ m.pg = pool.pg /\ m.tpa = pool.tpa
        /\ \A t \in Slots : m.hld[t] = pool.hld[t]
        /\ \A t \in Slots : m.own[t] = IF t = pd_mrtseg[pcur] THEN 0 ELSE pool.own[t]
    BY Emptied
  <1> HIDE DEF m
  <1>2. NP \in Nat /\ pcur \in Procs /\ pcur + 1 # 0
    BY PTypes
  <1>3. s # pd_mrtseg[pcur]
    <2>1. pd_mrtseg[pcur] # 0 => ~ pool.hld[pd_mrtseg[pcur]]
      BY PFacts, PTypes DEF Given
    <2>2. QED BY <2>1, PTypes
  <1>4. /\ rel \in Pools(NP) /\ rel.hld = m.hld /\ rel.pg = m.pg /\ rel.tpa = m.tpa
        /\ Sound(rel)
        /\ \A t \in Slots : rel.own[t] = IF m.own[t] = pcur + 1 /\ ~ m.hld[t]
                                         THEN 0 ELSE m.own[t]
    BY <1>1, <1>2, pgrelprocIs, pgrelprocType
  <1> HIDE DEF rel
  <1>5. rel.own[s] # 0
    BY <1>1, <1>3, <1>4
  <1>6. /\ y.tpa = rel.pg[s] /\ Sound(y)
        /\ \A t \in Slots : /\ y.pg[t] = IF t = s THEN rel.tpa ELSE rel.pg[t]
                           /\ y.own[t] = IF t = s THEN 0 ELSE rel.own[t]
        /\ ~ y.hld[s] /\ \A t \in Slots \ {s} : y.hld[t] = rel.hld[t]
    <2>1. rel \in Pools(NP) /\ Sound(rel) /\ rel.own[s] # 0 /\ NP \in Nat
      BY <1>2, <1>4, <1>5
    <2>2. QED BY ONLY <2>1, pgReturnIs, s \in Slots
  <1> HIDE DEF y
  <1>7. /\ y.tpa = pool.pg[s]
        /\ \A t \in Slots : y.pg[t] = IF t = s THEN pool.tpa ELSE pool.pg[t]
    BY <1>1, <1>4, <1>6
  <1>8. ~ y.hld[s] /\ \A t \in Slots \ {s} : y.hld[t] = pool.hld[t]
    BY <1>1, <1>4, <1>6
  <1>9. \A t \in Slots : y.own[t] = IF \/ t = s \/ t = pd_mrtseg[pcur]
                                       \/ (pool.own[t] = pcur + 1 /\ ~ pool.hld[t])
                                    THEN 0 ELSE pool.own[t]
    <2>1. ASSUME NEW t \in Slots
          PROVE  y.own[t] = IF \/ t = s \/ t = pd_mrtseg[pcur]
                               \/ (pool.own[t] = pcur + 1 /\ ~ pool.hld[t])
                            THEN 0 ELSE pool.own[t]
      <3>1. y.own[t] = IF t = s THEN 0 ELSE rel.own[t]
        BY <1>6
      <3>2. rel.own[t] = IF m.own[t] = pcur + 1 /\ ~ pool.hld[t] THEN 0 ELSE m.own[t]
        BY <1>1, <1>4
      <3>3. m.own[t] = IF t = pd_mrtseg[pcur] THEN 0 ELSE pool.own[t]
        BY <1>1
      <3>4. QED BY <1>2, <3>1, <3>2, <3>3
    <2>2. QED BY <2>1
  <1>10. /\ y.tpa = pool.pg[s] /\ Sound(y)
         /\ \A t \in Slots :
              /\ y.pg[t] = IF t = s THEN pool.tpa ELSE pool.pg[t]
              /\ y.own[t] = IF \/ t = s \/ t = pd_mrtseg[pcur]
                               \/ (pool.own[t] = pcur + 1 /\ ~ pool.hld[t])
                            THEN 0 ELSE pool.own[t]
         /\ ~ y.hld[s] /\ \A t \in Slots \ {s} : y.hld[t] = pool.hld[t]
    BY <1>6, <1>7, <1>8, <1>9
  <1>11. QED BY <1>10 DEF y, rel, m

LEMMA Died ==
  ASSUME PI, ctx[pcur] # "load", Die
  PROVE  PInv'
  <1> DEFINE n == pnextany(pcur)
             s == pd_seg[n]
             rel == pgrelproc(pgfree(pool, pd_mrtseg[pcur]), pcur)
  <1>1. /\ GiveBack /\ pcur' = n /\ image' = image
        /\ pool' = pgfree(pghold(pgtpaswap(rel, s), s, FALSE), s)
        /\ pd_seg' = [pd_seg EXCEPT ![n] = 0, ![pcur] = 0]
        /\ pd_state' = [pd_state EXCEPT ![pcur] = "FREE"]
    BY DEF Die
  <1>2. n \in Live \ {pcur}
    <2>1. pnlive \in Nat
      BY ProcsFinite, LiveProcs DEF pnlive
    <2>2. pnlive >= 2
      BY <2>1 DEF Die, Stays
    <2>3. QED BY <2>2, PTypes, pnextanyOther
  <1> HIDE DEF n
  <1>3. /\ s \in Slots /\ pool.hld[s] /\ pool.own[s] # 0 /\ n \in Procs /\ n # pcur
        /\ image[pool.pg[s]] = Tpa(n)
    BY <1>2, PFacts, PTypes
  <1> HIDE DEF s
  <1>4. /\ pool'.tpa = pool.pg[s] /\ Sound(pool')
        /\ \A t \in Slots :
             /\ pool'.pg[t] = IF t = s THEN pool.tpa ELSE pool.pg[t]
             /\ pool'.own[t] = IF \/ t = s \/ t = pd_mrtseg[pcur]
                                  \/ (pool.own[t] = pcur + 1 /\ ~ pool.hld[t])
                               THEN 0 ELSE pool.own[t]
        /\ ~ pool'.hld[s] /\ \A t \in Slots \ {s} : pool'.hld[t] = pool.hld[t]
    <2> DEFINE y == pgfree(pghold(pgtpaswap(rel, s), s, FALSE), s)
    <2>1. /\ y.tpa = pool.pg[s] /\ Sound(y)
          /\ \A t \in Slots :
               /\ y.pg[t] = IF t = s THEN pool.tpa ELSE pool.pg[t]
               /\ y.own[t] = IF \/ t = s \/ t = pd_mrtseg[pcur]
                                \/ (pool.own[t] = pcur + 1 /\ ~ pool.hld[t])
                             THEN 0 ELSE pool.own[t]
          /\ ~ y.hld[s] /\ \A t \in Slots \ {s} : y.hld[t] = pool.hld[t]
      BY <1>3, DiedPool
    <2>2. pool' = y
      BY <1>1
    <2> HIDE DEF y
    <2>3. QED BY <2>1, <2>2
  <1>5. /\ ~ pnoyld /\ pnoyld' = pnoyld /\ job' = job /\ ctx'[pcur] = "user"
        /\ \A p \in Procs \ {pcur} : ctx'[p] = ctx[p]
        /\ \A p \in Procs : Given(p)' = IF p = pcur THEN {} ELSE Given(p)
        /\ \A p \in Procs : ~ InLoad(p)' /\ pd_mrtseg'[p] \notin seglist'[p]
        /\ \A p \in Procs \ {pcur} : pd_mrtseg'[p] = pd_mrtseg[p] /\ seglist'[p] = seglist[p]
    BY <1>1, EndFacts
  <1>6. /\ Live' = Live \ {pcur} /\ pd_seg'[n] = 0
        /\ \A p \in Procs \ {pcur, n} : pd_seg'[p] = pd_seg[p]
        /\ \A p \in Procs \ {pcur} : pd_state'[p] = pd_state[p]
        /\ pd_state'[pcur] = "FREE"
    BY <1>1, <1>3, PTypes DEF Live
  <1>7. ASSUME NEW p \in Live, p # pcur, p # n
        PROVE  /\ p \in Procs /\ pd_seg[p] \in Slots /\ pd_seg[p] # s
               /\ pool.hld[pd_seg[p]] /\ image[pool.pg[pd_seg[p]]] = Tpa(p)
    <2>1. \A q, r \in Live : q # r /\ pd_seg[q] # 0 => pd_seg[q] # pd_seg[r]
      BY DEF PI, PInv, ParkInv
    <2>2. p \in Live \ {pcur} /\ pd_seg[p] # 0 /\ n \in Live
      BY <1>2, <1>7, PFacts, PTypes
    <2>3. pd_seg[p] # s
      BY <1>7, <2>1, <2>2 DEF s
    <2>4. QED BY <2>2, <2>3, PFacts, PTypes
  <1>8. ASSUME NEW p \in Procs, p # pcur, NEW t \in Slots,
               pool.own[t] = p + 1, ~ pool.hld[t]
        PROVE  t # s /\ pool'.own[t] = p + 1 /\ ~ pool'.hld[t] /\ pool'.pg[t] = pool.pg[t]
    <2>1. t # s
      BY <1>3, <1>8
    <2>2. pd_mrtseg[pcur] # 0 => pool.own[pd_mrtseg[pcur]] = pcur + 1
      BY PFacts, PTypes DEF Given
    <2>3. t # pd_mrtseg[pcur]
      BY <1>8, <2>2, PTypes
    <2>4. p + 1 # pcur + 1 /\ p + 1 # 0
      BY <1>8, PTypes
    <2>5. QED BY <1>4, <1>8, <2>1, <2>3, <2>4
  <1>9. YieldInv'
    <2>1. ~ InLoad(pcur)'
      BY <1>1, <1>2, <1>3, <1>5 DEF InLoad
    <2>2. QED BY <1>5, <2>1 DEF YieldInv
  <1>10. ParkInv'
    <2>1. ASSUME NEW p \in Live', pd_seg'[p] # 0
          PROVE  p \in Live /\ p # pcur /\ p # n /\ pd_seg'[p] = pd_seg[p]
      BY <1>6, <2>1, PTypes
    <2>2. \A p \in Live' : pd_seg'[p] # 0 => pool'.hld[pd_seg'[p]]
      BY <1>4, <1>7, <2>1
    <2>3. ASSUME NEW p \in Live', NEW q \in Live', p # q, pd_seg'[p] # 0
          PROVE  pd_seg'[p] # pd_seg'[q]
      <3>1. CASE pd_seg'[q] = 0
        BY <2>3, <3>1
      <3>2. CASE pd_seg'[q] # 0
        BY <2>1, <2>3, <3>2 DEF PI, PInv, ParkInv
      <3>3. QED BY <3>1, <3>2
    <2>4. QED BY <2>2, <2>3 DEF ParkInv
  <1>11. GivenInv'
    <2>1. ASSUME NEW p \in Live', NEW t \in Given(p)'
          PROVE  pool'.own[t] = p + 1 /\ ~ pool'.hld[t] /\ image'[pool'.pg[t]] = Data(p)
      <3>1. p \in Procs /\ p # pcur
        BY <1>6, PTypes
      <3>2. Given(p)' = Given(p)
        BY <1>5, <3>1
      <3>3. /\ t \in Slots /\ pool.own[t] = p + 1 /\ ~ pool.hld[t]
            /\ image[pool.pg[t]] = Data(p)
        BY <2>1, <3>1, <3>2, PFacts
      <3>4. QED BY <1>1, <1>8, <3>1, <3>3
    <2>2. SegmentsKept'
      BY <2>1 DEF SegmentsKept, Given
    <2>3. \A p \in Procs \ Live' : Given(p)' = {}
      BY <1>5, <1>6 DEF PI, PInv, GivenInv
    <2>4. QED BY <1>5, <2>2, <2>3 DEF GivenInv
  <1>12. JobInv'
    <2>1. ASSUME NEW p \in Procs, ctx'[p] = "load"
          PROVE  /\ job[p].seg \in Slots /\ pool'.own[job[p].seg] = p + 1
                 /\ ~ pool'.hld[job[p].seg] /\ job[p].seg \notin Given(p)
      <3>1. p # pcur /\ ctx[p] = "load"
        BY <1>5, <2>1
      <3>2. /\ job[p].seg \in Slots /\ pool.own[job[p].seg] = p + 1
            /\ ~ pool.hld[job[p].seg] /\ job[p].seg \notin Given(p)
        BY <3>1 DEF PI, PInv, JobInv
      <3>3. QED BY <1>8, <3>1, <3>2
    <2>2. \A p \in Procs : ctx'[p] # "load" => job'[p] = NoJob
      BY <1>5 DEF PI, PInv, JobInv
    <2>3. \A p \in Procs : ctx'[p] = "load" => Given(p)' = Given(p)
      BY <1>5
    <2>4. QED BY <1>5, <2>1, <2>2, <2>3 DEF JobInv
  <1>13. RsvdInv'
    <2>1. ASSUME NEW p \in Procs, pd_state'[p] = "RSVD"
          PROVE  \E q \in Live' : ctx'[q] = "load" /\ job'[q].kid = p
      <3>1. p # pcur /\ pd_state[p] = "RSVD"
        BY <1>6, <2>1
      <3>2. PICK q \in Live : ctx[q] = "load" /\ job[q].kid = p
        BY <3>1 DEF PI, PInv, RsvdInv
      <3>3. q # pcur /\ q \in Procs
        BY <3>2, PTypes
      <3>4. QED BY <1>5, <1>6, <3>2, <3>3
    <2>2. QED BY <2>1 DEF RsvdInv
  <1>14. ImagesIntact'
    <2>1. ASSUME NEW p \in Live', p # n
          PROVE  pd_seg'[p] # 0 /\ image'[pool'.pg[pd_seg'[p]]] = Tpa(p)
      <3>1. p \in Live /\ p # pcur /\ p \in Procs
        BY <1>6, PTypes
      <3>2. pd_seg'[p] = pd_seg[p]
        BY <1>6, <2>1, <3>1
      <3>3. /\ pd_seg[p] \in Slots /\ pd_seg[p] # s /\ image[pool.pg[pd_seg[p]]] = Tpa(p)
        BY <1>7, <2>1, <3>1
      <3>4. pd_seg[p] # 0 /\ pool'.pg[pd_seg[p]] = pool.pg[pd_seg[p]]
        BY <1>4, <3>3, PTypes
      <3>5. QED BY <1>1, <3>2, <3>3, <3>4
    <2>2. image'[pool'.tpa] = Tpa(n)
      BY <1>1, <1>3, <1>4
    <2>3. QED BY <1>1, <1>5, <1>6, <2>1, <2>2 DEF ImagesIntact, Page
  <1>15. PoolAccounted'
    <2>1. ASSUME NEW t \in Slots, pool'.own[t] # 0
          PROVE  \E p \in Live' : t \in Uses(p)'
      <3>1. /\ t # s /\ pool.own[t] # 0 /\ t # pd_mrtseg[pcur]
            /\ ~ (pool.own[t] = pcur + 1 /\ ~ pool.hld[t])
        BY <1>4, <2>1
      <3>2. PICK p \in Live \ {pcur} : t \in Uses(p)
        BY <3>1, EndAccounted
      <3>3. p \in Procs /\ t # 0
        BY <3>2, PTypes
      <3>4. t \in Uses(p)'
        <4>1. CASE p = n
          BY <1>1, <1>5, <3>1, <3>2, <3>3, <4>1, PTypes DEF Uses, s
        <4>2. CASE p # n
          BY <1>1, <1>5, <1>6, <3>2, <3>3, <4>2 DEF Uses
        <4>3. QED BY <4>1, <4>2
      <3>5. QED BY <1>6, <3>2, <3>4
    <2>2. QED BY <2>1 DEF PoolAccounted
  <1>16. QED
    BY <1>4, <1>9, <1>10, <1>11, <1>12, <1>13, <1>14, <1>15 DEF PInv

-----------------------------------------------------------------------------
(* Every step keeps the invariant.                                         *)

LEMMA PInit == Init => PInv
  <1> SUFFICES ASSUME Init PROVE PInv
    OBVIOUS
  <1>1. /\ pcur = 0 /\ pcur \in Procs /\ Live = {0} /\ pool = pginit /\ ~ pnoyld
        /\ \A p \in Procs : /\ pd_state[p] \in {"LIVE", "FREE"} /\ ctx[p] = "user"
                            /\ job[p] = NoJob /\ pd_seg[p] = 0 /\ Given(p) = {}
                            /\ seglist[p] = {}
        /\ image[0] = Tpa(0)
    <2>1. 0 \in Procs /\ 0 \in Pages
      BY NPAssumption, NSLOTAssumption DEF Procs, Pages
    <2>2. QED BY <2>1 DEF Init, Live, Given
  <1>2. \A p \in Procs : ~ InLoad(p)
    BY <1>1 DEF InLoad
  <1>3. YieldInv /\ RsvdInv /\ JobInv
    BY <1>1, <1>2 DEF YieldInv, RsvdInv, JobInv
  <1>4. Sound(pool)
    BY <1>1, pginitSound
  <1>5. ParkInv
    BY <1>1 DEF ParkInv
  <1>6. GivenInv
    BY <1>1 DEF GivenInv, SegmentsKept, Given
  <1>7. ImagesIntact
    BY <1>1 DEF ImagesIntact, Page, pginit
  <1>8. PoolAccounted
    BY <1>1 DEF PoolAccounted, pginit
  <1>9. QED BY <1>3, <1>4, <1>5, <1>6, <1>7, <1>8 DEF PInv

(* A program ends from user mode, or at a prompt, which by the hypothesis  *)
(* is never one inside a load.                                             *)
LEMMA Ended ==
  ASSUME PI, "abort" \notin LoadAnswers, Exit \/ Abort
  PROVE  PInv'
  <1>1. ctx[pcur] # "load"
    BY DEF Exit, Abort, InUser, Replies
  <1>2. WarmBoot
    BY DEF Exit, Abort
  <1>3. QED BY <1>1, <1>2, Reloaded, Died DEF WarmBoot

LEMMA PInductive ==
  ASSUME "anyfree" \notin Calls, "abort" \notin LoadAnswers
  PROVE  PI /\ [Next]_vars => PI'
  <1> SUFFICES ASSUME PI, [Next]_vars PROVE PInv'
    BY Inductive DEF PI
  <1>1. CASE UNCHANGED vars
    <2>1. UNCHANGED <<pcur, pd_state, job, pnoyld, pageVars, ctx, at>>
      BY <1>1 DEF vars, schedVars, callVars, lockVars
    <2>2. QED BY <2>1, PKept DEF InLoad
  <1>2. CASE Preempt
    BY <1>2, Switches
  <1>3. CASE Lock
    BY <1>3, PagesUntouched, Switches DEF Lock, Elsewhere
  <1>4. CASE Console
    BY <1>4, PagesUntouched, Switches DEF Console, Elsewhere
  <1>5. CASE Timed
    BY <1>5, PagesUntouched, Switches DEF Timed, Elsewhere
  <1>6. CASE Memory
    BY <1>6, SegmentGot, SegmentPut DEF Memory
  <1>7. CASE Life
    BY <1>7, Claimed, LoadBegun, LoadEnded, Ended DEF Life, pcreate, psession
  <1>8. CASE World
    BY <1>8, PagesUntouched DEF World, Elsewhere
  <1>9. QED
    BY <1>1, <1>2, <1>3, <1>4, <1>5, <1>6, <1>7, <1>8 DEF Next, Running

(* Every live process's image is on the page its descriptor says, through  *)
(* every switch, load, refusal, warm boot and death: pgtpaswap() keeps the *)
(* pages apart, and pghold() keeps a parked page from whoever owns it.     *)
THEOREM ImagesAreKept ==
  ASSUME "anyfree" \notin Calls, "abort" \notin LoadAnswers
  PROVE  Spec => []ImagesIntact
  <1>1. PI => ImagesIntact
    BY DEF PI, PInv
  <1>2. Init => PI
    BY InitInv, PInit DEF PI
  <1>3. QED BY <1>1, <1>2, PInductive, PTL DEF Spec

(* What pgalloc() gave a program, its debugger's segment included, is the  *)
(* program's and holds its data until the program frees it or ends, even   *)
(* when another process's pgrelproc() or pgtparest() runs in the meantime. *)
THEOREM SegmentsAreKept ==
  ASSUME "anyfree" \notin Calls, "abort" \notin LoadAnswers
  PROVE  Spec => []SegmentsKept
  <1>1. PI => SegmentsKept
    BY DEF PI, PInv, GivenInv
  <1>2. Init => PI
    BY InitInv, PInit DEF PI
  <1>3. QED BY <1>1, <1>2, PInductive, PTL DEF Spec

(* No slot of the pool leaks: one that pgown[] says is taken is used by a  *)
(* live process or by a creation of one, also after failed loads and after *)
(* the death of the process that had it allocated.                         *)
THEOREM NoSlotLeaks ==
  ASSUME "anyfree" \notin Calls, "abort" \notin LoadAnswers
  PROVE  Spec => []PoolAccounted
  <1>1. PI => PoolAccounted
    BY DEF PI, PInv
  <1>2. Init => PI
    BY InitInv, PInit DEF PI
  <1>3. QED BY <1>1, <1>2, PInductive, PTL DEF Spec

(* Two creations that overlap, one parked at the lock while the other      *)
(* runs, claim different descriptors and different slots of the pool, and  *)
(* pcrgen() leaves no descriptor reserved behind.                          *)
THEOREM CreationsAreApart ==
  ASSUME "anyfree" \notin Calls, "abort" \notin LoadAnswers
  PROVE  Spec => []ClaimsDisjoint
  <1>1. PI => ClaimsDisjoint
    <2> SUFFICES ASSUME PI PROVE ClaimsDisjoint
      OBVIOUS
    <2>1. \A p \in Procs : pd_state[p] = "RSVD" =>
             \E q \in Live : ctx[q] = "load" /\ job[q].kid = p
      BY DEF PI, PInv, RsvdInv
    <2>2. ASSUME NEW p \in Live, NEW q \in Live, ctx[p] = "load", ctx[q] = "load", p # q
          PROVE  job[p].kid # job[q].kid /\ job[p].seg # job[q].seg
      <3>1. p \in Procs /\ q \in Procs /\ p + 1 # q + 1
        BY <2>2, PTypes
      <3>2. job[p].kid # job[q].kid
        BY <2>2, <3>1 DEF PI, IInv, LockInv, ClaimsHeld
      <3>3. pool.own[job[p].seg] = p + 1 /\ pool.own[job[q].seg] = q + 1
        BY <2>2, <3>1 DEF PI, PInv, JobInv
      <3>4. QED BY <3>1, <3>2, <3>3
    <2>3. QED BY <2>1, <2>2 DEF ClaimsDisjoint
  <1>2. Init => PI
    BY InitInv, PInit DEF PI
  <1>3. QED BY <1>1, <1>2, PInductive, PTL DEF Spec

-----------------------------------------------------------------------------
(* Yielding alone asks less: whoever frees whatever, YieldInv holds.       *)

LEMMA SwitchKept ==
  ASSUME IInv, YieldInv, UNCHANGED <<pcur, pnoyld>>,
         \A p \in Procs : InLoad(p)' <=> InLoad(p)
  PROVE  YieldInv'
  BY CallsTyped DEF YieldInv

(* Only the running process enters and leaves a load; inside, its waits    *)
(* are refused, and the tick preempts programs, not calls.                 *)
LEMMA YieldInductive ==
  ASSUME "abort" \notin LoadAnswers
  PROVE  IInv /\ YieldInv /\ [Next]_vars => YieldInv'
  <1> SUFFICES ASSUME IInv, YieldInv, [Next]_vars PROVE YieldInv'
    OBVIOUS
  <1> USE DEF schedVars, callVars, lockVars
  <1>1. CASE UNCHANGED vars
    BY <1>1, SwitchKept DEF vars, InLoad
  <1>2. CASE Elsewhere
    BY <1>2, LoadsUntouched, SwitchKept
  <1>3. CASE Memory
    <2>1. UNCHANGED <<pcur, pnoyld, ctx, at>>
      BY <1>3 DEF Memory, GetSegment, pmrtseg, PutSegment
    <2>2. QED BY <2>1, SwitchKept DEF InLoad
  <1>4. CASE LockWait \/ ConWait \/ GetcWait \/ DelayWait \/ Preempt
    <2>1. /\ UNCHANGED <<ctx, pnoyld>> /\ (pcur' # pcur => ~ pnoyld)
          /\ \A p \in Procs : at'[p] = "lock" <=> at[p] = "lock"
      <3>1. CASE Preempt
        <4>1. ~ pnoyld
          BY <3>1 DEF Preempt, InUser, YieldInv, InLoad
        <4>2. QED BY <3>1, <4>1 DEF Preempt
      <3>2. CASE LockWait \/ ConWait \/ DelayWait
        BY <3>2 DEF LockWait, ConWait, DelayWait, pwait, Resume
      <3>3. CASE GetcWait
        BY <3>3, CallsTyped DEF GetcWait, pwait, Resume
      <3>4. QED BY <1>4, <3>1, <3>2, <3>3
    <2>2. \A p \in Procs : InLoad(p)' <=> InLoad(p)
      BY <2>1 DEF InLoad
    <2>3. CASE pcur' = pcur
      BY <2>1, <2>2, <2>3, SwitchKept
    <2>4. CASE pcur' # pcur
      <3>1. ~ pnoyld /\ \A p \in Procs : ~ InLoad(p)
        BY <2>1, <2>4, CallsTyped DEF YieldInv
      <3>2. pcur' \in Procs
        BY <1>4, Inductive, CallsTyped DEF IInv, TypeOK, SchedTypes, Next, Running, Lock,
           Console, Timed
      <3>3. ~ InLoad(pcur)'
        BY <2>1, <3>1, <3>2 DEF InLoad
      <3>4. QED BY <2>1, <2>2, <3>1, <3>3 DEF YieldInv
    <2>5. QED BY <2>3, <2>4
  <1>5. CASE pcreate \/ \E c \in Cons : psession(c)
    <2>1. PICK con, sess : Claim(con, sess)
      BY <1>5 DEF pcreate, psession
    <2>2. /\ ctx' = [ctx EXCEPT ![pcur] = "load"] /\ at' = [at EXCEPT ![pcur] = "lock"]
          /\ ctx[pcur] = "user" /\ UNCHANGED <<pcur, pnoyld>>
      BY <2>1 DEF Claim, InUser, Goto
    <2>3. \A p \in Procs : InLoad(p)' <=> InLoad(p)
      BY <2>2, CallsTyped DEF InLoad
    <2>4. QED BY <2>2, <2>3, SwitchKept
  <1>6. CASE LoadBegin
    <2>1. /\ ctx[pcur] = "load" /\ at[pcur] = "lock" /\ pnoyld' = TRUE /\ pcur' = pcur
          /\ ctx' = [ctx EXCEPT ![pcur] = "load"] /\ at' = [at EXCEPT ![pcur] = "run"]
      BY <1>6 DEF LoadBegin, Goto
    <2>2. \A p \in Procs : InLoad(p)' <=> p = pcur
      BY <2>1, CallsTyped DEF InLoad, YieldInv
    <2>3. InLoad(pcur)'
      BY <2>1, CallsTyped DEF InLoad
    <2>4. QED BY <2>1, <2>2, <2>3 DEF YieldInv
  <1>7. CASE LoadOk \/ LoadFail
    <2>1. /\ pnoyld' = FALSE /\ pcur' = pcur /\ ctx'[pcur] = "user"
          /\ \A p \in Procs \ {pcur} : InLoad(p)' => InLoad(p)
      <3>1. CASE LoadFail
        BY <3>1, CallsTyped DEF LoadFail, Unload, Goto, InLoad
      <3>2. CASE LoadOk
        <4>1. /\ pnoyld' = FALSE /\ pcur' = pcur
              /\ ctx' = [ctx EXCEPT ![pcur] = "user", ![job[pcur].kid] = "user"]
              /\ at' = [at EXCEPT ![pcur] = "run", ![job[pcur].kid] = "run"]
          BY <3>2 DEF LoadOk, Unload
        <4>2. QED BY <4>1, CallsTyped DEF InLoad
      <3>3. QED BY <1>7, <3>1, <3>2
    <2>2. QED BY <2>1, CallsTyped DEF YieldInv, InLoad
  <1>8. CASE Exit \/ Abort
    <2>1. GiveBack /\ ctx[pcur] # "load"
      BY <1>8 DEF Exit, Abort, InUser, Replies, WarmBoot, Reload, Die
    <2>2. /\ pnoyld' = pnoyld /\ ctx' = [ctx EXCEPT ![pcur] = "user"]
          /\ at' = [at EXCEPT ![pcur] = "run"]
      BY <2>1 DEF GiveBack, Goto
    <2>3. ~ pnoyld /\ \A p \in Procs : ~ InLoad(p)
      BY <2>1, CallsTyped DEF YieldInv, InLoad
    <2>4. \A p \in Procs : ~ InLoad(p)'
      BY <2>2, <2>3, CallsTyped DEF InLoad
    <2>5. pcur' \in Procs
      BY <1>8, Inductive DEF IInv, TypeOK, SchedTypes, Next, Running, Life
    <2>6. ~ InLoad(pcur)'
      BY <2>4, <2>5 DEF InLoad
    <2>7. QED BY <2>2, <2>3, <2>4, <2>6 DEF YieldInv
  <1>9. QED
    BY <1>1, <1>2, <1>3, <1>4, <1>5, <1>6, <1>7, <1>8
       DEF Next, Running, World, Lock, Console, Timed, Life, Elsewhere

(* pnoyld is set only while the running process is inside pcrgen() with a  *)
(* child's page mapped: a creation turns yielding on again whether the     *)
(* load succeeds or fails, whatever programs do to the pool meanwhile.     *)
THEOREM YieldingComesBack ==
  ASSUME "abort" \notin LoadAnswers
  PROVE  Spec => []NoyldOnlyInLoad
  <1>1. YieldInv => NoyldOnlyInLoad
    BY DEF YieldInv, InLoad, NoyldOnlyInLoad
  <1>2. Init => IInv /\ YieldInv
    BY InitInv, PInit DEF PInv
  <1>3. IInv /\ YieldInv /\ [Next]_vars => IInv' /\ YieldInv'
    BY Inductive, YieldInductive
  <1>4. QED BY <1>1, <1>2, <1>3, PTL DEF Spec

=============================================================================
