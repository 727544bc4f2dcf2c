----------------------------- MODULE XdosProofs -----------------------------
(***************************************************************************)
(* The queues of xdos.c implement bounded FIFO queues, and no wake-up of   *)
(* its flags and queues is lost, for every number of processes, flags and  *)
(* queues, every depth and every set of messages.                          *)
(***************************************************************************)
EXTENDS Xdos, SchedTheorems, SequenceTheorems

AnyMsg  == Msgs \cup {NoCall.msg}
AnyName == Names \cup {FreeQueue.name}

(* One slot of the queue table: where the ring stands.                     *)
Slots == [used : BOOLEAN, name : AnyName, ndep : 1 .. DEPTH, cnt : Nat,
          in : Nat, out : Nat, buf : [0 .. DEPTH - 1 -> AnyMsg], made : Nat]

Ring(q) == /\ q.cnt <= q.ndep
           /\ q.out < q.ndep
           /\ q.in = Cell(q, q.cnt)

Rings == DOMAIN xq = Queues /\ \A i \in Queues : xq[i] \in Slots /\ Ring(xq[i])

(* The calls.  Only the running process is between a test of its queue and *)
(* what follows it, so the queue of such a call is there.                  *)
Calls ==
  /\ pcur \in Procs
  /\ DOMAIN call = Procs /\ DOMAIN at = Procs
  /\ \A p \in Procs :
       /\ at[p] \in {"read", "readw", "write", "writew"} => call[p].obj \in Queues
       /\ at[p] \in {"write", "writew"} => call[p].msg \in Msgs
       /\ at[p] \in {"read", "write"} => p = pcur /\ xq[call[p].obj].used

RInv == Rings /\ Calls

-----------------------------------------------------------------------------
(* The ring as a sequence.                                                 *)

LEMMA CellInside ==
  ASSUME NEW q \in Slots, Ring(q), NEW k \in 0 .. q.ndep
  PROVE  Cell(q, k) \in 0 .. q.ndep - 1
  BY XdosAssumption DEF Slots, Ring, Cell

(* Different cells hold different positions.                               *)
LEMMA CellsDiffer ==
  ASSUME NEW q \in Slots, Ring(q), NEW k \in 0 .. q.ndep - 1, q.cnt < q.ndep,
         k < q.cnt
  PROVE  Cell(q, k) # Cell(q, q.cnt)
  BY XdosAssumption DEF Slots, Ring, Cell

(* Advance() is the next cell.                                             *)
LEMMA AdvanceCell ==
  ASSUME NEW q \in Slots, Ring(q), NEW k \in 0 .. q.ndep - 1
  PROVE  Advance(q, Cell(q, k)) = Cell(q, k + 1)
  BY XdosAssumption DEF Slots, Ring, Cell, Advance

LEMMA ContentsSeq ==
  ASSUME NEW q \in Slots, Ring(q)
  PROVE  /\ Contents(q) \in Seq(AnyMsg)
         /\ Len(Contents(q)) = q.cnt
         /\ \A k \in 1 .. q.cnt : Contents(q)[k] = q.buf[Cell(q, k - 1)]
  <1>1. q.cnt \in Nat
    BY DEF Slots
  <1>2. \A k \in 1 .. q.cnt : q.buf[Cell(q, k - 1)] \in AnyMsg
    <2>1. TAKE k \in 1 .. q.cnt
    <2>2. k - 1 \in 0 .. q.ndep
      BY XdosAssumption DEF Slots, Ring
    <2>3. Cell(q, k - 1) \in 0 .. DEPTH - 1
      BY <2>2, CellInside, XdosAssumption DEF Slots
    <2>4. q.buf \in [0 .. DEPTH - 1 -> AnyMsg]
      BY DEF Slots
    <2> QED BY <2>3, <2>4
  <1>3. Contents(q) \in [1 .. q.cnt -> AnyMsg]
    BY <1>2 DEF Contents
  <1>4. Contents(q) \in Seq(AnyMsg) /\ Len(Contents(q)) = q.cnt
    BY <1>1, <1>3, SeqDef, LenProperties
  <1>5. \A k \in 1 .. q.cnt : Contents(q)[k] = q.buf[Cell(q, k - 1)]
    BY DEF Contents
  <1> QED BY <1>4, <1>5

(* What writing a message and taking one do to a slot.                     *)
Put(q, m) == [q EXCEPT !.buf[q.in] = m, !.in = Advance(q, q.in), !.cnt = @ + 1]
Got(q)    == [q EXCEPT !.out = Advance(q, q.out), !.cnt = @ - 1]

LEMMA PutAppends ==
  ASSUME NEW q \in Slots, Ring(q), NEW m \in Msgs, q.cnt < q.ndep
  PROVE  /\ Put(q, m) \in Slots /\ Ring(Put(q, m))
         /\ Contents(Put(q, m)) = Append(Contents(q), m)
         /\ Put(q, m).used = q.used /\ Put(q, m).ndep = q.ndep
  <1>1. q.ndep \in 1 .. DEPTH /\ q.cnt \in Nat /\ q.in \in Nat /\ q.out \in Nat
    BY DEF Slots
  <1>2. q.in = Cell(q, q.cnt)
    BY DEF Ring
  <1>3. q.in \in 0 .. DEPTH - 1 /\ q.in < q.ndep
    BY <1>1, <1>2, CellInside, XdosAssumption
  <1>4. q.cnt \in 0 .. q.ndep - 1
    BY <1>1
  <1>5. PICK e \in Nat : e = Advance(q, q.in) /\ e = Cell(q, q.cnt + 1)
    <2>1. Advance(q, q.in) = Cell(q, q.cnt + 1)
      BY <1>2, <1>4, AdvanceCell
    <2>2. Advance(q, q.in) \in Nat
      BY <1>1 DEF Advance
    <2> QED BY <2>1, <2>2
  <1>6. PICK b : b = [q.buf EXCEPT ![q.in] = m]
    OBVIOUS
  <1>7. b \in [0 .. DEPTH - 1 -> AnyMsg]
    <2>1. q.buf \in [0 .. DEPTH - 1 -> AnyMsg] /\ m \in AnyMsg
      BY DEF Slots, AnyMsg
    <2> QED BY <2>1, <1>6
  <1>8. PICK r : r = [q EXCEPT !.buf = b, !.in = e, !.cnt = @ + 1]
    OBVIOUS
  <1>9. r = Put(q, m)
    BY <1>5, <1>6, <1>8 DEF Put
  <1>10. /\ r.used = q.used /\ r.ndep = q.ndep /\ r.out = q.out
         /\ r.cnt = q.cnt + 1 /\ r.in = e /\ r.buf = b
    BY <1>8 DEF Slots
  <1>11. r \in Slots
    <2>1. PICK n \in Nat : n = q.cnt + 1
      BY <1>1
    <2>2. r = [q EXCEPT !.buf = b, !.in = e, !.cnt = n]
      BY <1>8, <2>1
    <2> DEFINE B == [0 .. DEPTH - 1 -> AnyMsg]
    <2>3. b \in B
      BY <1>7
    <2> HIDE DEF B
    <2>4. Slots = [used : BOOLEAN, name : AnyName, ndep : 1 .. DEPTH, cnt : Nat,
                   in : Nat, out : Nat, buf : B, made : Nat]
      BY DEF Slots, B
    <2> QED BY <2>2, <2>3, <2>4
  <1>12. \A k \in Int : Cell(r, k) = Cell(q, k)
    BY <1>10 DEF Cell
  <1>13. Ring(r)
    BY <1>1, <1>5, <1>10, <1>12 DEF Ring
  <1>14. Contents(r) = Append(Contents(q), m)
    <2>1. /\ Contents(q) \in Seq(AnyMsg) /\ Len(Contents(q)) = q.cnt
          /\ Contents(r) \in Seq(AnyMsg) /\ Len(Contents(r)) = q.cnt + 1
          /\ m \in AnyMsg
      BY <1>10, <1>11, <1>13, ContentsSeq DEF AnyMsg
    <2>2. Append(Contents(q), m) \in Seq(AnyMsg)
      BY <2>1
    <2>3. Len(Append(Contents(q), m)) = q.cnt + 1
      BY <2>1
    <2>4. ASSUME NEW k \in 1 .. q.cnt + 1
          PROVE  Contents(r)[k] = Append(Contents(q), m)[k]
      <3>1. Contents(r)[k] = b[Cell(r, k - 1)]
        BY <1>10, <1>11, <1>13, ContentsSeq
      <3>2. Cell(r, k - 1) = Cell(q, k - 1)
        BY <1>1, <1>12
      <3>3. CASE k = q.cnt + 1
        <4>1. Cell(q, k - 1) = q.in
          <5>1. k - 1 = q.cnt
            BY <1>1, <3>3
          <5> QED BY <5>1, <1>2
        <4>2. b[q.in] = m
          <5>1. q.buf \in [0 .. DEPTH - 1 -> AnyMsg]
            BY DEF Slots
          <5> QED BY <5>1, <1>3, <1>6
        <4>3. Append(Contents(q), m)[k] = m
          BY <2>1, <3>3
        <4> QED BY <3>1, <3>2, <4>1, <4>2, <4>3
      <3>4. CASE k \in 1 .. q.cnt
        <4>1. PICK j \in Int : j = k - 1
          BY <1>1, <3>4
        <4>2. j \in 0 .. q.ndep - 1 /\ j < q.cnt /\ j \in 0 .. q.ndep
          BY <1>1, <3>4, <4>1
        <4>3. Cell(q, j) # q.in
          BY <1>2, <4>2, CellsDiffer
        <4>4. Cell(q, j) \in 0 .. DEPTH - 1
          BY <1>1, <4>2, CellInside, XdosAssumption
        <4>5. b[Cell(q, j)] = q.buf[Cell(q, j)]
          <5>1. q.buf \in [0 .. DEPTH - 1 -> AnyMsg]
            BY DEF Slots
          <5> QED BY <5>1, <1>6, <4>3, <4>4
        <4>6. Append(Contents(q), m)[k] = Contents(q)[k]
          BY <1>1, <2>1, <3>4
        <4>7. Contents(q)[k] = q.buf[Cell(q, j)]
          BY <3>4, <4>1, ContentsSeq
        <4> QED BY <3>1, <3>2, <4>1, <4>5, <4>6, <4>7
      <3>5. k = q.cnt + 1 \/ k \in 1 .. q.cnt
        BY <1>1
      <3> QED BY <3>3, <3>4, <3>5
    <2> QED BY <2>1, <2>2, <2>3, <2>4, SeqEqual
  <1> QED BY <1>9, <1>10, <1>11, <1>13, <1>14

LEMMA GotIsTail ==
  ASSUME NEW q \in Slots, Ring(q), q.cnt # 0
  PROVE  /\ Got(q) \in Slots /\ Ring(Got(q))
         /\ Contents(q) # <<>>
         /\ Head(Contents(q)) = q.buf[q.out]
         /\ Contents(Got(q)) = Tail(Contents(q))
         /\ Got(q).used = q.used /\ Got(q).ndep = q.ndep
  <1>1. q.ndep \in 1 .. DEPTH /\ q.cnt \in Nat \ {0} /\ q.in \in Nat /\ q.out \in Nat
    BY DEF Slots
  <1>2. Cell(q, 0) = q.out /\ Advance(q, q.out) = Cell(q, 1)
    BY <1>1 DEF Ring, Cell, Advance
  <1>3. Cell(q, 1) \in 0 .. q.ndep - 1
    BY <1>1, CellInside
  <1>4. PICK e \in Nat : e = Advance(q, q.out) /\ e < q.ndep
    BY <1>1, <1>2, <1>3
  <1>5. PICK r : r = [q EXCEPT !.out = e, !.cnt = @ - 1]
    OBVIOUS
  <1>6. r = Got(q)
    BY <1>4, <1>5 DEF Got
  <1>7. /\ r.used = q.used /\ r.ndep = q.ndep /\ r.out = e
        /\ r.cnt = q.cnt - 1 /\ r.in = q.in /\ r.buf = q.buf
    BY <1>5 DEF Slots
  <1>8. r \in Slots
    <2>1. q.cnt - 1 \in Nat
      BY <1>1
    <2> QED BY <1>4, <1>5, <2>1 DEF Slots
  <1>9. \A k \in 0 .. q.ndep - 1 : Cell(r, k) = Cell(q, k + 1)
    BY <1>1, <1>4, <1>7 DEF Cell, Advance, Ring
  <1>10. Ring(r)
    BY <1>1, <1>4, <1>7, <1>9 DEF Ring
  <1>11. /\ Contents(q) \in Seq(AnyMsg) /\ Len(Contents(q)) = q.cnt
         /\ Contents(r) \in Seq(AnyMsg) /\ Len(Contents(r)) = q.cnt - 1
    BY <1>7, <1>8, <1>10, ContentsSeq
  <1>12. Contents(q) # <<>>
    BY <1>1, <1>11, EmptySeq
  <1>13. Head(Contents(q)) = q.buf[q.out]
    <2>1. 1 \in 1 .. q.cnt /\ 1 - 1 = 0
      BY <1>1
    <2>2. Contents(q)[1] = q.buf[Cell(q, 1 - 1)]
      BY <2>1, ContentsSeq
    <2> QED BY <1>2, <1>11, <1>12, <2>1, <2>2, HeadTailProperties
  <1>14. Contents(r) = Tail(Contents(q))
    <2>1. /\ Tail(Contents(q)) \in Seq(AnyMsg) /\ Len(Tail(Contents(q))) = q.cnt - 1
          /\ \A k \in 1 .. q.cnt - 1 : Tail(Contents(q))[k] = Contents(q)[k + 1]
      BY <1>11, <1>12, HeadTailProperties
    <2>2. ASSUME NEW k \in 1 .. q.cnt - 1
          PROVE  Contents(r)[k] = Tail(Contents(q))[k]
      <3>1. /\ k - 1 \in 0 .. q.ndep - 1 /\ k + 1 \in 1 .. q.cnt
            /\ (k - 1) + 1 = k /\ (k + 1) - 1 = k
        BY <1>1 DEF Ring
      <3>2. Contents(r)[k] = q.buf[Cell(r, k - 1)]
        BY <1>7, <1>8, <1>10, ContentsSeq
      <3>3. Cell(r, k - 1) = Cell(q, k)
        BY <1>9, <3>1
      <3>4. Contents(q)[k + 1] = q.buf[Cell(q, (k + 1) - 1)]
        BY <3>1, ContentsSeq
      <3> QED BY <2>1, <3>1, <3>2, <3>3, <3>4
    <2> QED BY <1>11, <2>1, <2>2, SeqEqual
  <1> QED BY <1>6, <1>7, <1>8, <1>10, <1>12, <1>13, <1>14

-----------------------------------------------------------------------------
(* The table as the state of FifoQueues.                                   *)

Chan == [i \in Queues |-> IF xq[i].used THEN Contents(xq[i]) ELSE <<>>]
Room == [i \in Queues |-> IF xq[i].used THEN xq[i].ndep ELSE 0]

Still == UNCHANGED <<Chan, Room, last>>

(* The step that changes one slot i of the table to r.                     *)
LEMMA OneSlot ==
  ASSUME RInv, NEW i \in Queues, NEW r, xq' = [xq EXCEPT ![i] = r],
         r \in Slots, Ring(r)
  PROVE  /\ Rings'
         /\ Chan' = [Chan EXCEPT ![i] = IF r.used THEN Contents(r) ELSE <<>>]
         /\ Room' = [Room EXCEPT ![i] = IF r.used THEN r.ndep ELSE 0]
  <1>1. DOMAIN xq' = Queues /\ \A j \in Queues : xq'[j] = IF j = i THEN r ELSE xq[j]
    BY DEF RInv, Rings
  <1>2. Rings'
    BY <1>1 DEF RInv, Rings
  <1>3. Chan' = [Chan EXCEPT ![i] = IF r.used THEN Contents(r) ELSE <<>>]
    BY <1>1 DEF Chan
  <1>4. Room' = [Room EXCEPT ![i] = IF r.used THEN r.ndep ELSE 0]
    BY <1>1 DEF Room
  <1> QED BY <1>2, <1>3, <1>4

(* The step in which the running process ends up at s with the call c.     *)
LEMMA CallsKept ==
  ASSUME RInv, NEW s, NEW c, pcur' \in Procs,
         at' = [at EXCEPT ![pcur] = s], call' = [call EXCEPT ![pcur] = c],
         s \in {"read", "readw", "write", "writew"} => c.obj \in Queues,
         s \in {"write", "writew"} => c.msg \in Msgs,
         s \in {"read", "write"} => pcur' = pcur /\ xq'[c.obj].used
  PROVE  Calls'
  <1>1. /\ DOMAIN at' = Procs /\ DOMAIN call' = Procs
        /\ \A p \in Procs : /\ at'[p] = IF p = pcur THEN s ELSE at[p]
                            /\ call'[p] = IF p = pcur THEN c ELSE call[p]
    BY DEF RInv, Calls
  <1>2. ASSUME NEW p \in Procs
        PROVE  /\ at'[p] \in {"read", "readw", "write", "writew"} => call'[p].obj \in Queues
               /\ at'[p] \in {"write", "writew"} => call'[p].msg \in Msgs
               /\ at'[p] \in {"read", "write"} => p = pcur' /\ xq'[call'[p].obj].used
    <2>1. CASE p = pcur
      BY <1>1, <2>1
    <2>2. CASE p # pcur
      BY <1>1, <2>2 DEF RInv, Calls
    <2> QED BY <2>1, <2>2
  <1> QED BY <1>1, <1>2 DEF Calls

LEMMA SuccessorIn ==
  ASSUME pcur \in Procs, NEW x
  PROVE  Successor(x) \in Procs /\ pnext(x, pcur) \in Procs /\ pnextany(pcur) \in Procs
  <1>1. Live \in SUBSET Procs /\ {p \in Live : x.on[p] = Run} \in SUBSET Procs
    BY DEF Live
  <1> QED BY <1>1, RoundRobinIn DEF Successor, pnext, pnextany

-----------------------------------------------------------------------------
(* The steps.                                                              *)

LEMMA QuietTable ==
  ASSUME RInv, UNCHANGED <<xq, last>>
  PROVE  Rings' /\ Still
  BY DEF RInv, Rings, Still, Chan, Room

(* A return to the program.                                                *)
LEMMA Returns ==
  ASSUME RInv, NEW r, Return(r), pcur' = pcur
  PROVE  Calls'
  BY CallsKept DEF Return, RInv, Calls

LEMMA Parks ==
  ASSUME RInv, NEW w, NEW s, Park(w, s),
         s \in {"readw", "writew"} => at[pcur] \in {"read", "readw", "write", "writew"},
         s = "writew" => at[pcur] \in {"write", "writew"},
         s \notin {"read", "write"}
  PROVE  Calls'
  <1>1. pcur \in Procs /\ DOMAIN call = Procs /\ DOMAIN at = Procs
    BY DEF RInv, Calls
  <1>2. pcur' \in Procs /\ at' = [at EXCEPT ![pcur] = s] /\ call' = call
    BY <1>1, SuccessorIn DEF Park
  <1>3. ASSUME NEW p \in Procs
        PROVE  /\ at'[p] \in {"read", "readw", "write", "writew"} => call'[p].obj \in Queues
               /\ at'[p] \in {"write", "writew"} => call'[p].msg \in Msgs
               /\ at'[p] \notin {"read", "write"}
    <2>1. CASE p = pcur
      BY <1>1, <1>2, <2>1 DEF RInv, Calls
    <2>2. CASE p # pcur
      BY <1>1, <1>2, <2>2 DEF RInv, Calls
    <2> QED BY <2>1, <2>2
  <1> QED BY <1>1, <1>2, <1>3 DEF Calls

(* A step of a program that is in none of these calls.                     *)
LEMMA Switches ==
  ASSUME RInv, InUser, UNCHANGED <<at, call, xq>>, pcur' \in Procs
  PROVE  Calls'
  BY DEF RInv, Calls, InUser

LEMMA FlagStep ==
  ASSUME RInv, FlagCalls
  PROVE  RInv' /\ Still
  <1>1. Rings' /\ Still
    BY QuietTable DEF FlagCalls, FlagTaken, FlagBlocks, FlagWait, FlagSet
  <1> SUFFICES Calls'
    BY <1>1 DEF RInv
  <1>2. CASE FlagTaken
    BY <1>2, Returns DEF FlagTaken
  <1>3. CASE FlagBlocks
    BY <1>3, Returns, Parks DEF FlagBlocks, Refuse
  <1>4. ASSUME NEW n \in Flags, FlagWait(n) PROVE Calls'
    <2>1. CASE \E r : Return(r)
      BY <1>4, <2>1, Returns DEF FlagWait
    <2>2. CASE Enter("flag", [NoCall EXCEPT !.obj = n])
      BY <1>4, <2>2, CallsKept DEF FlagWait, Enter, RInv, Calls
    <2> QED BY <1>4, <2>1, <2>2 DEF FlagWait
  <1>5. ASSUME NEW n \in Flags, FlagSet(n) PROVE Calls'
    BY <1>5, Returns DEF FlagSet
  <1> QED BY <1>2, <1>3, <1>4, <1>5 DEF FlagCalls

LEMMA FirstFreeIs ==
  ASSUME \E i \in Queues : ~ xq[i].used
  PROVE  FirstFree \in Queues /\ ~ xq[FirstFree].used
  <1> DEFINE T == {j \in Queues : ~ xq[j].used}
  <1>1. T \subseteq Nat /\ T # {}
    BY XdosAssumption DEF Queues
  <1>2. PICK j \in T : \A k \in T : j <= k
    BY <1>1, NatMinimum
  <1> QED BY <1>2 DEF FirstFree

LEMMA Makes ==
  ASSUME RInv, NEW n \in Names, NEW d \in 1 .. DEPTH, xqmakef(n, d)
  PROVE  RInv' /\ \E i \in Queues : Fifo!Make(i, d)
  <1>1. PICK i : i = FirstFree
    OBVIOUS
  <1>2. i \in Queues /\ ~ xq[i].used
    BY <1>1, FirstFreeIs DEF xqmakef
  <1>3. PICK r : r = [xq[i] EXCEPT !.used = TRUE, !.name = n, !.ndep = d, !.cnt = 0,
                                   !.in = 0, !.out = 0, !.made = @ + 1]
    OBVIOUS
  <1>4. xq' = [xq EXCEPT ![i] = r]
    BY <1>1, <1>3 DEF xqmakef
  <1>5. xq[i] \in Slots
    BY <1>2 DEF RInv, Rings
  <1>6. r \in Slots /\ r.used /\ r.ndep = d /\ r.cnt = 0 /\ r.out = 0 /\ r.in = 0
    <2>1. n \in AnyName
      BY DEF AnyName
    <2>2. PICK k \in Nat : k = xq[i].made + 1
      BY <1>5 DEF Slots
    <2>3. r = [xq[i] EXCEPT !.used = TRUE, !.name = n, !.ndep = d, !.cnt = 0,
                            !.in = 0, !.out = 0, !.made = k]
      BY <1>3, <2>2
    <2> DEFINE B == [0 .. DEPTH - 1 -> AnyMsg]
    <2>4. Slots = [used : BOOLEAN, name : AnyName, ndep : 1 .. DEPTH, cnt : Nat,
                   in : Nat, out : Nat, buf : B, made : Nat]
      BY DEF Slots
    <2> HIDE DEF B
    <2> QED BY <1>5, <2>1, <2>3, <2>4
  <1>7. Ring(r)
    BY <1>6, XdosAssumption DEF Ring, Cell
  <1>8. Contents(r) = <<>>
    BY <1>6, <1>7, ContentsSeq, EmptySeq
  <1>9. /\ Rings' /\ Chan' = [Chan EXCEPT ![i] = <<>>] /\ Room' = [Room EXCEPT ![i] = d]
    BY <1>2, <1>4, <1>6, <1>7, <1>8, OneSlot
  <1>10. Chan' = Chan /\ Room[i] = 0
    BY <1>2, <1>9 DEF Chan, Room
  <1>11. Calls'
    BY Returns DEF xqmakef
  <1>12. Fifo!Make(i, d)
    BY <1>9, <1>10 DEF Fifo!Make, Chan, Room, xqmakef
  <1> QED BY <1>2, <1>9, <1>11, <1>12 DEF RInv

LEMMA Deletes ==
  ASSUME RInv, NEW n, xqdelf(n)
  PROVE  RInv' /\ \E i \in Queues : Fifo!Delete(i)
  <1>1. PICK i \in Named(n) : xq' = [xq EXCEPT ![i].used = FALSE]
    BY DEF xqdelf
  <1>2. i \in Queues /\ xq[i].used
    BY <1>1 DEF Named
  <1>3. xq[i] \in Slots /\ Ring(xq[i])
    BY <1>2 DEF RInv, Rings
  <1>4. PICK r : r = [xq[i] EXCEPT !.used = FALSE]
    OBVIOUS
  <1>5. xq' = [xq EXCEPT ![i] = r]
    BY <1>1, <1>4
  <1>6. r \in Slots /\ ~ r.used
    BY <1>3, <1>4 DEF Slots
  <1>7. Ring(r)
    BY <1>3, <1>4 DEF Slots, Ring, Cell
  <1>8. Rings' /\ Chan' = [Chan EXCEPT ![i] = <<>>] /\ Room' = [Room EXCEPT ![i] = 0]
    BY <1>2, <1>5, <1>6, <1>7, OneSlot
  <1>9. Room[i] # 0
    BY <1>2, <1>3 DEF Room, Slots
  <1>10. Calls'
    BY Returns DEF xqdelf
  <1>11. Fifo!Delete(i)
    BY <1>8, <1>9 DEF Fifo!Delete, Chan, Room, xqdelf
  <1> QED BY <1>2, <1>8, <1>10, <1>11 DEF RInv

LEMMA Takes ==
  ASSUME RInv, ReadTakes
  PROVE  RInv' /\ \E i \in Queues : Fifo!Get(i)
  <1>1. PICK i : i = Mine
    OBVIOUS
  <1>2. i \in Queues /\ xq[i].used /\ xq[i] \in Slots /\ Ring(xq[i]) /\ xq[i].cnt # 0
    BY <1>1 DEF RInv, Rings, Calls, Mine, ReadTakes
  <1>3. xq' = [xq EXCEPT ![i] = Got(xq[i])]
    BY <1>1 DEF ReadTakes, Got
  <1>4. PICK r : r = Got(xq[i])
    OBVIOUS
  <1>5. /\ r \in Slots /\ Ring(r) /\ r.used /\ r.ndep = xq[i].ndep
        /\ Contents(xq[i]) # <<>>
        /\ Head(Contents(xq[i])) = xq[i].buf[xq[i].out]
        /\ Contents(r) = Tail(Contents(xq[i]))
    BY <1>2, <1>4, GotIsTail
  <1>6. /\ Rings' /\ Chan' = [Chan EXCEPT ![i] = Contents(r)]
        /\ Room' = [Room EXCEPT ![i] = r.ndep]
    BY <1>2, <1>3, <1>4, <1>5, OneSlot
  <1>7. Room' = Room /\ Chan[i] = Contents(xq[i])
    BY <1>2, <1>5, <1>6 DEF Room, Chan
  <1>8. last' = [from |-> i, msg |-> Head(Chan[i])]
    BY <1>1, <1>5, <1>7 DEF ReadTakes
  <1>9. Chan' = [Chan EXCEPT ![i] = Tail(@)]
    BY <1>5, <1>6, <1>7
  <1>10. Fifo!Get(i)
    BY <1>5, <1>7, <1>8, <1>9 DEF Fifo!Get, Chan, Room
  <1>11. Calls'
    BY Returns DEF ReadTakes
  <1> QED BY <1>2, <1>6, <1>10, <1>11 DEF RInv

LEMMA Puts ==
  ASSUME RInv, WritePuts
  PROVE  RInv' /\ \E i \in Queues, m \in Msgs : Fifo!Put(i, m)
  <1>1. PICK i, m : i = Mine /\ m = call[pcur].msg
    OBVIOUS
  <1>2. /\ i \in Queues /\ m \in Msgs /\ xq[i].used /\ xq[i] \in Slots /\ Ring(xq[i])
        /\ xq[i].cnt < xq[i].ndep
    BY <1>1 DEF RInv, Rings, Calls, Mine, WritePuts
  <1>3. xq' = [xq EXCEPT ![i] = Put(xq[i], m)]
    BY <1>1 DEF WritePuts, Put
  <1>4. PICK r : r = Put(xq[i], m)
    OBVIOUS
  <1>5. /\ r \in Slots /\ Ring(r) /\ r.used /\ r.ndep = xq[i].ndep
        /\ Contents(r) = Append(Contents(xq[i]), m)
    BY <1>2, <1>4, PutAppends
  <1>6. /\ Rings' /\ Chan' = [Chan EXCEPT ![i] = Contents(r)]
        /\ Room' = [Room EXCEPT ![i] = r.ndep]
    BY <1>2, <1>3, <1>4, <1>5, OneSlot
  <1>7. Room' = Room /\ Chan[i] = Contents(xq[i]) /\ Room[i] = xq[i].ndep
    BY <1>2, <1>5, <1>6 DEF Room, Chan
  <1>8. Len(Chan[i]) < Room[i]
    BY <1>2, <1>7, ContentsSeq
  <1>9. Chan' = [Chan EXCEPT ![i] = Append(@, m)]
    BY <1>5, <1>6, <1>7
  <1>10. Fifo!Put(i, m)
    BY <1>7, <1>8, <1>9 DEF Fifo!Put, Chan, Room, WritePuts
  <1>11. Calls'
    BY Returns DEF WritePuts
  <1> QED BY <1>2, <1>6, <1>10, <1>11 DEF RInv

LEMMA BlockStep ==
  ASSUME RInv, ReadBlocks \/ WriteBlocks
  PROVE  RInv' /\ Still
  <1>1. Rings' /\ Still
    BY QuietTable DEF ReadBlocks, WriteBlocks, QueueBlocks
  <1> SUFFICES Calls'
    BY <1>1 DEF RInv
  <1>2. PICK w, why : /\ QueueBlocks(w, why)
                      /\ \/ w = "readw" /\ at[pcur] = "read"
                         \/ w = "writew" /\ at[pcur] = "write"
    BY DEF ReadBlocks, WriteBlocks
  <1>3. CASE Return("fail") /\ pcur' = pcur
    BY <1>3, Returns
  <1>4. CASE Park(Wait(why, Mine), w)
    BY <1>2, <1>4, Parks
  <1>5. CASE Refuse(Wait(why, Mine))
    BY <1>5, Returns DEF Refuse
  <1> QED BY <1>2, <1>3, <1>4, <1>5 DEF QueueBlocks

LEMMA BackStep ==
  ASSUME RInv, NEW s, NEW w, QueueBack(s, w),
         <<s, w>> \in {<<"read", "readw">>, <<"write", "writew">>}
  PROVE  RInv' /\ Still
  <1>1. Rings' /\ Still
    BY QuietTable DEF QueueBack
  <1>2. CASE xq[Mine].used
    <2>1. DOMAIN call = Procs /\ pcur \in Procs /\ pcur' = pcur /\ call' = call
      BY <1>2 DEF QueueBack, RInv, Calls
    <2>2. at' = [at EXCEPT ![pcur] = s] /\ xq' = xq
      BY <1>2 DEF QueueBack
    <2>3. ASSUME NEW p \in Procs
          PROVE  /\ at'[p] \in {"read", "readw", "write", "writew"} => call'[p].obj \in Queues
                 /\ at'[p] \in {"write", "writew"} => call'[p].msg \in Msgs
                 /\ at'[p] \in {"read", "write"} => p = pcur' /\ xq'[call'[p].obj].used
      BY <1>2, <2>1, <2>2 DEF QueueBack, RInv, Calls, Mine
    <2> QED BY <1>1, <2>1, <2>2, <2>3 DEF RInv, Calls
  <1>3. CASE Return("fail")
    BY <1>1, <1>3, Returns DEF QueueBack, RInv
  <1> QED BY <1>2, <1>3 DEF QueueBack

LEMMA QueueStep ==
  ASSUME RInv, QueueCalls
  PROVE  RInv' /\ (Still \/ Fifo!Next)
  <1>1. ASSUME NEW n \in Names, xqdelf(n) PROVE RInv' /\ Fifo!Next
    BY <1>1, Deletes DEF Fifo!Next
  <1>2. ASSUME NEW n \in Names, NEW d \in 1 .. DEPTH, xqmakef(n, d)
        PROVE  RInv' /\ Fifo!Next
    BY <1>2, Makes DEF Fifo!Next
  <1>3. ASSUME NEW s \in {"read", "write"}, NEW i \in Queues, NEW c, NEW m,
               QueueCall(s, i, c, m), s = "write" => m \in Msgs
        PROVE  RInv' /\ Still
    BY <1>3, QuietTable, CallsKept DEF QueueCall, Enter, RInv, Calls
  <1>4. CASE ReadTakes
    BY <1>4, Takes DEF Fifo!Next
  <1>5. CASE WritePuts
    BY <1>5, Puts DEF Fifo!Next
  <1>6. CASE ReadBlocks \/ WriteBlocks
    BY <1>6, BlockStep
  <1>7. CASE QueueBack("read", "readw") \/ QueueBack("write", "writew")
    BY <1>7, BackStep
  <1> QED BY <1>1, <1>2, <1>3, <1>4, <1>5, <1>6, <1>7 DEF QueueCalls

LEMMA StepImplements ==
  ASSUME RInv, [Next]_vars
  PROVE  RInv' /\ (Still \/ Fifo!Next)
  <1>1. CASE UNCHANGED vars
    BY <1>1 DEF vars, RInv, Rings, Calls, Still, Chan, Room
  <1>2. CASE FlagCalls
    BY <1>2, FlagStep
  <1>3. CASE QueueCalls
    BY <1>3, QueueStep
  <1>4. CASE Preempt
    <2>1. pcur' \in Procs
      BY <1>4, SuccessorIn DEF Preempt, RInv, Calls
    <2> QED BY <1>4, <2>1, Switches, QuietTable DEF Preempt, RInv
  <1>5. CASE Console
    BY <1>5, Parks, QuietTable DEF Console, RInv
  <1>6. CASE ConsoleDone
    BY <1>6, Returns, QuietTable DEF ConsoleDone, RInv
  <1>7. CASE Exit
    <2>1. pcur' \in Procs
      BY <1>7, SuccessorIn DEF Exit, RInv, Calls
    <2> QED BY <1>7, <2>1, Switches, QuietTable DEF Exit, RInv
  <1>8. ASSUME NEW p \in Procs, Launch(p) PROVE RInv' /\ Still
    <2>1. pcur' \in Procs
      BY <1>8 DEF Launch, RInv, Calls
    <2> QED BY <1>8, <2>1, Switches, QuietTable DEF Launch, RInv
  <1> QED BY <1>1, <1>2, <1>3, <1>4, <1>5, <1>6, <1>7, <1>8 DEF Next

LEMMA InitImplements == Init => RInv /\ Fifo!Init
  <1> SUFFICES ASSUME Init PROVE RInv /\ Fifo!Init
    OBVIOUS
  <1>1. FreeQueue \in Slots /\ Ring(FreeQueue) /\ ~ FreeQueue.used
    <2>1. NoCall.msg = CHOOSE m \in Msgs : TRUE
      BY DEF NoCall
    <2> QED BY <2>1, XdosAssumption DEF FreeQueue, Slots, AnyMsg, AnyName, Ring, Cell
  <1>2. Rings
    BY <1>1 DEF Init, Rings
  <1>3. Calls
    BY NPAssumption DEF Init, Calls, Procs
  <1>4. Fifo!Init
    BY <1>1, XdosAssumption DEF Init, Fifo!Init, Queues
  <1> QED BY <1>2, <1>3, <1>4 DEF RInv

(* XDOS 134-140 are bounded first-in first-out queues for any number of    *)
(* processes, queues, messages and any depth: what is written is delivered *)
(* once, in order, to one reader, whoever waits, is refused or deletes.    *)
THEOREM RingsImplementFifo == Spec => RingsAreFifo
  <1>1. RInv /\ [Next]_vars => RInv' /\ [Fifo!Next]_<<Chan, Room, last>>
    BY StepImplements DEF Still
  <1> QED BY <1>1, InitImplements, PTL DEF Spec, RingsAreFifo, Fifo!Spec, Chan, Room

-----------------------------------------------------------------------------
(* The wake-ups.  Whoever is blocked is at the site that blocked it, waits *)
(* for what that call waits for, and waits for it in vain: this holds of   *)
(* the running process too, which pnextany() may resume without a wake-up. *)

XWaits == {Run, Wait("CON", 0)} \cup {Wait("FLAG", n) : n \in Flags}
          \cup {Wait("QRD", i) : i \in Queues} \cup {Wait("QWR", i) : i \in Queues}

Reason(p) ==
  \/ waits.on[p] = Run
  \/ /\ at[p] = "flag" /\ waits.on[p] = Wait("FLAG", call[p].obj)
     /\ xflag[call[p].obj] = "CLEAR"
  \/ /\ at[p] = "readw" /\ waits.on[p] = Wait("QRD", call[p].obj)
     /\ xq[call[p].obj].used /\ xq[call[p].obj].cnt = 0
  \/ /\ at[p] = "writew" /\ waits.on[p] = Wait("QWR", call[p].obj)
     /\ xq[call[p].obj].used /\ xq[call[p].obj].cnt = xq[call[p].obj].ndep
  \/ at[p] = "away" /\ waits.on[p] = Wait("CON", 0)

WInv ==
  /\ waits \in WaitLists(XWaits) /\ Exact(waits)
  /\ pcur \in Live
  /\ \A p \in Procs \ Live : at[p] = "run"
  /\ \A p \in Procs : Reason(p)

(* A process in the loop of xflgwt() is the one xfwait stands for.         *)
InFlag(p, n) == at[p] = "flag" /\ call[p].obj = n

FInv ==
  /\ xflag \in [Flags -> {"SET", "CLEAR"}]
  /\ xfwait \in [Flags -> {0, 1}]
  /\ \A p \in Procs : at[p] = "flag" => call[p].obj \in Flags
  /\ \A n \in Flags : xfwait[n] = 1 <=> \E p \in Procs : InFlag(p, n)
  /\ \A n \in Flags : \A p, q \in Procs : InFlag(p, n) /\ InFlag(q, n) => p = q

XI == RInv /\ WInv /\ FInv

LEMMA WaitsDiffer ==
  \A n, m : /\ Wait("FLAG", n) # Run /\ Wait("QRD", n) # Run /\ Wait("QWR", n) # Run
            /\ Wait("CON", n) # Run
            /\ Wait("FLAG", n) # Wait("QRD", m) /\ Wait("FLAG", n) # Wait("QWR", m)
            /\ Wait("QRD", n) # Wait("QWR", m) /\ Wait("CON", n) # Wait("FLAG", m)
            /\ Wait("CON", n) # Wait("QRD", m) /\ Wait("CON", n) # Wait("QWR", m)
            /\ (Wait("FLAG", n) = Wait("FLAG", m) => n = m)
            /\ (Wait("QRD", n) = Wait("QRD", m) => n = m)
            /\ (Wait("QWR", n) = Wait("QWR", m) => n = m)
  BY DEF Wait, Run

LEMMA XFacts ==
  ASSUME XI
  PROVE  /\ pcur \in Procs /\ pcur \in Live /\ Live \subseteq Procs
         /\ DOMAIN at = Procs /\ DOMAIN call = Procs
         /\ waits \in WaitLists(XWaits) /\ Exact(waits) /\ Blocked(waits) \subseteq Live
         /\ \A p \in Procs : at[p] \notin {"flag", "readw", "writew", "away"} =>
                              waits.on[p] = Run
  <1>1. /\ pcur \in Procs /\ pcur \in Live /\ Live \subseteq Procs
        /\ DOMAIN at = Procs /\ DOMAIN call = Procs
        /\ waits \in WaitLists(XWaits) /\ Exact(waits)
    BY DEF XI, RInv, Calls, WInv, Live
  <1>2. \A p \in Procs : at[p] \notin {"flag", "readw", "writew", "away"} =>
                         waits.on[p] = Run
    BY DEF XI, WInv, Reason
  <1>3. Blocked(waits) \subseteq Live
    BY <1>2 DEF XI, WInv, Blocked
  <1>4. QED BY <1>1, <1>2, <1>3

(* A step of the running process that only thins the list elsewhere, and   *)
(* wakes whom it gives what he waits for.                                  *)
LEMMA WKept ==
  ASSUME XI, waits' \in WaitLists(XWaits), Exact(waits'), pcur' \in Live',
         \A p \in Procs \ Live' : at'[p] = "run",
         \A p \in Procs : p # pcur =>
            /\ at'[p] = at[p] /\ call'[p] = call[p]
            /\ waits'.on[p] \in {waits.on[p], Run}
            /\ \/ waits'.on[p] = Run \/ waits.on[p] = Run
               \/ /\ at[p] = "flag" => xflag'[call[p].obj] = xflag[call[p].obj]
                  /\ at[p] \in {"readw", "writew"} =>
                       /\ xq'[call[p].obj].used = xq[call[p].obj].used
                       /\ xq'[call[p].obj].cnt = xq[call[p].obj].cnt
                       /\ xq'[call[p].obj].ndep = xq[call[p].obj].ndep,
         \A p \in Procs : p = pcur => Reason(p)'
  PROVE  WInv'
  <1>1. ASSUME NEW p \in Procs PROVE Reason(p)'
    <2>1. CASE p = pcur
      BY <2>1
    <2>2. CASE p # pcur /\ waits'.on[p] = Run
      BY <2>2 DEF Reason
    <2>3. CASE p # pcur /\ waits'.on[p] # Run
      <3>1. Reason(p) /\ waits'.on[p] = waits.on[p] /\ at'[p] = at[p] /\ call'[p] = call[p]
        BY <2>3 DEF XI, WInv
      <3>2. CASE at[p] = "flag"
        BY <2>3, <3>1, <3>2 DEF Reason
      <3>3. CASE at[p] \in {"readw", "writew"}
        BY <2>3, <3>1, <3>3 DEF Reason
      <3>4. CASE at[p] \notin {"flag", "readw", "writew"}
        BY <2>3, <3>1, <3>4 DEF Reason
      <3>5. QED BY <3>2, <3>3, <3>4
    <2>4. QED BY <2>1, <2>2, <2>3
  <1>2. QED BY <1>1 DEF WInv

LEMMA FKept ==
  ASSUME XI, xflag' \in [Flags -> {"SET", "CLEAR"}], UNCHANGED xfwait,
         \A p \in Procs : /\ at'[p] = "flag" <=> at[p] = "flag"
                          /\ at[p] = "flag" => call'[p] = call[p]
  PROVE  FInv'
  <1>1. \A p \in Procs, n \in Flags : InFlag(p, n)' <=> InFlag(p, n)
    BY DEF InFlag
  <1>2. QED BY <1>1 DEF XI, FInv

(* Whoever comes back from a wait is off the list, and nobody else is.     *)
LEMMA XAwake ==
  ASSUME XI
  PROVE  /\ Awake \in WaitLists(XWaits) /\ Exact(Awake) /\ Awake.on[pcur] = Run
         /\ Blocked(Awake) \subseteq Live
         /\ \A p \in Procs : p # pcur => Awake.on[p] = waits.on[p]
  <1>1. Run \in XWaits
    BY DEF XWaits
  <1>2. /\ Awake \in WaitLists(XWaits) /\ Exact(Awake) /\ Awake.on[pcur] = Run
        /\ \A p \in Procs : p # pcur => Awake.on[p] = waits.on[p]
    BY <1>1, XFacts, punblkExact, punblkType DEF Awake
  <1>3. Blocked(Awake) \subseteq Live
    BY <1>2, XFacts DEF Blocked
  <1>4. QED BY <1>2, <1>3

(* A wake-up takes exactly those who wait for w off a list.                *)
LEMMA XWoken ==
  ASSUME XI, NEW x \in WaitLists(XWaits), Exact(x), Blocked(x) \subseteq Live,
         NEW w, w # Run
  PROVE  LET y == pwake(x, w)
         IN  /\ y \in WaitLists(XWaits) /\ Exact(y) /\ Blocked(y) \subseteq Live
             /\ \A p \in Procs : y.on[p] = IF x.on[p] = w THEN Run ELSE x.on[p]
  <1>1. Run \in XWaits
    BY DEF XWaits
  <1>2. /\ pwake(x, w) \in WaitLists(XWaits) /\ Exact(pwake(x, w))
        /\ Thinned(x, pwake(x, w))
        /\ \A p \in Procs : pwake(x, w).on[p] = IF x.on[p] = w THEN Run ELSE x.on[p]
    BY <1>1, pwakeExact, pwakeType
  <1>3. QED BY <1>2, ThinnedBlocked

(* pwait() blocks the caller on w, and its sweep takes others off.         *)
LEMMA XParked ==
  ASSUME XI, NEW w \in XWaits \ {Run}, NEW E \in Polled
  PROVE  LET x == Parked(w, E)
         IN  /\ x \in WaitLists(XWaits) /\ Exact(x) /\ Successor(x) \in Live
             /\ x.on[pcur] \in {w, Run}
             /\ \A p \in Procs : p # pcur => x.on[p] \in {waits.on[p], Run}
  <1> DEFINE b == pblock(waits, pcur, w)
             x == Parked(w, E)
  <1>1. /\ b \in WaitLists(XWaits) /\ Exact(b)
        /\ \A p \in Procs : b.on[p] = IF p = pcur THEN w ELSE waits.on[p]
    BY XFacts, pblockExact, pblockType
  <1>2. Run \in XWaits /\ Run \notin E
    BY WaitsDiffer DEF XWaits, Polled
  <1> HIDE DEF b
  <1>3. x \in WaitLists(XWaits) /\ Exact(x) /\ Thinned(b, x)
    <2>1. CASE pnlive < 2
      BY <1>1, <2>1 DEF Parked, Swept, Thinned, b
    <2>2. CASE ~ (pnlive < 2)
      <3>1. x = pwscan(b, E)
        BY <2>2 DEF Parked, Swept, b
      <3>2. QED BY <1>1, <1>2, <3>1, pwscanExact, pwscanType
    <2>3. QED BY <2>1, <2>2
  <1> HIDE DEF x
  <1>4. Successor(x) \in Live
    BY XFacts, pnextLive DEF Successor
  <1>5. QED BY <1>1, <1>3, <1>4, XFacts DEF Thinned, x

(* The steps in which the running process goes on.                         *)
LEMMA WStays ==
  ASSUME XI, UNCHANGED <<pcur, pd_state>>,
         waits' \in WaitLists(XWaits), Exact(waits'), waits'.on[pcur] = Run,
         \A p \in Procs : p # pcur =>
            /\ at'[p] = at[p] /\ call'[p] = call[p]
            /\ waits'.on[p] \in {waits.on[p], Run}
            /\ \/ waits'.on[p] = Run \/ waits.on[p] = Run
               \/ /\ at[p] = "flag" => xflag'[call[p].obj] = xflag[call[p].obj]
                  /\ at[p] \in {"readw", "writew"} =>
                       /\ xq'[call[p].obj].used = xq[call[p].obj].used
                       /\ xq'[call[p].obj].cnt = xq[call[p].obj].cnt
                       /\ xq'[call[p].obj].ndep = xq[call[p].obj].ndep
  PROVE  WInv'
  <1>1. Live' = Live /\ pcur \in Live
    BY XFacts DEF Live
  <1>2. \A p \in Procs \ Live' : at'[p] = "run"
    BY <1>1, XFacts DEF XI, WInv
  <1>3. \A p \in Procs : p = pcur => Reason(p)'
    BY DEF Reason
  <1>4. QED BY <1>1, <1>2, <1>3, WKept

LEMMA WParks ==
  ASSUME XI, NEW w \in XWaits \ {Run}, NEW s, Park(w, s), UNCHANGED <<pd_state, xflag, xq>>,
         \A p \in Procs : p = pcur /\ waits'.on[p] = w => Reason(p)'
  PROVE  WInv'
  <1>1. PICK E \in Polled : /\ pcur' = Successor(Parked(w, E)) /\ waits' = Parked(w, E)
                           /\ at' = [at EXCEPT ![pcur] = s] /\ call' = call
    BY DEF Park
  <1>2. /\ waits' \in WaitLists(XWaits) /\ Exact(waits') /\ pcur' \in Live
        /\ waits'.on[pcur] \in {w, Run}
        /\ \A p \in Procs : p # pcur => waits'.on[p] \in {waits.on[p], Run}
    BY <1>1, XParked
  <1>3. Live' = Live /\ \A p \in Procs : p # pcur => at'[p] = at[p]
    BY <1>1, XFacts DEF Live
  <1>4. \A p \in Procs \ Live' : at'[p] = "run"
    BY <1>3, XFacts DEF XI, WInv
  <1>5. \A p \in Procs : p = pcur => Reason(p)'
    BY <1>2 DEF Reason
  <1>6. QED BY <1>1, <1>2, <1>3, <1>4, <1>5, WKept

(* A wait nobody can end: the call fails, off the list again.              *)
LEMMA WRefuses ==
  ASSUME XI, NEW w \in XWaits \ {Run}, Refuse(w), UNCHANGED <<pd_state, xflag, xq>>
  PROVE  WInv'
  <1>1. PICK E \in Polled : waits' = punblk(Parked(w, E), pcur)
    BY DEF Refuse
  <1>2. /\ Parked(w, E) \in WaitLists(XWaits) /\ Exact(Parked(w, E))
        /\ \A p \in Procs : p # pcur => Parked(w, E).on[p] \in {waits.on[p], Run}
    BY XParked
  <1>3. Run \in XWaits
    BY DEF XWaits
  <1>4. /\ waits' \in WaitLists(XWaits) /\ Exact(waits') /\ waits'.on[pcur] = Run
        /\ \A p \in Procs : p # pcur => waits'.on[p] \in {waits.on[p], Run}
    <2>1. PICK x : x = Parked(w, E)
      OBVIOUS
    <2>2. /\ waits' = punblk(x, pcur) /\ x \in WaitLists(XWaits) /\ Exact(x)
          /\ pcur \in Procs
      BY <1>1, <1>2, <2>1, XFacts
    <2>3. /\ waits' \in WaitLists(XWaits) /\ Exact(waits') /\ waits'.on[pcur] = Run
          /\ \A p \in Procs \ {pcur} : waits'.on[p] = x.on[p]
      BY <1>3, <2>2, punblkExact, punblkType
    <2>4. QED BY <1>2, <2>1, <2>3
  <1>5. /\ pcur' = pcur
        /\ \A p \in Procs : p # pcur => at'[p] = at[p] /\ call'[p] = call[p]
    BY XFacts DEF Refuse, Return
  <1>6. QED BY <1>4, <1>5, WStays

(* The waiter of flag n leaves the loop.                                   *)
LEMMA FlagLeft ==
  ASSUME XI, NEW n \in Flags, InFlag(pcur, n), xflag' \in [Flags -> {"SET", "CLEAR"}],
         xfwait' = [xfwait EXCEPT ![n] = 0],
         \A p \in Procs : /\ p = pcur => at'[p] # "flag"
                          /\ p # pcur => at'[p] = at[p] /\ call'[p] = call[p]
  PROVE  FInv'
  <1>1. \A p \in Procs, m \in Flags : InFlag(p, m)' <=> InFlag(p, m) /\ p # pcur
    BY DEF InFlag
  <1>2. \A p \in Procs : InFlag(p, n) => p = pcur
    BY XFacts DEF XI, FInv
  <1>3. \A m \in Flags : m # n => ~ InFlag(pcur, m)
    BY DEF InFlag
  <1>4. xfwait' \in [Flags -> {0, 1}] /\ xfwait'[n] = 0
        /\ \A m \in Flags : m # n => xfwait'[m] = xfwait[m]
    BY DEF XI, FInv
  <1>5. \A m \in Flags : xfwait'[m] = 1 <=> \E p \in Procs : InFlag(p, m)'
    BY <1>1, <1>2, <1>3, <1>4, XFacts DEF XI, FInv
  <1>6. \A p \in Procs : at'[p] = "flag" => call'[p].obj \in Flags
    BY DEF XI, FInv
  <1>7. \A m \in Flags : \A p, q \in Procs : InFlag(p, m)' /\ InFlag(q, m)' => p = q
    BY <1>1 DEF XI, FInv
  <1>8. QED BY <1>4, <1>5, <1>6, <1>7 DEF FInv

LEMMA XFlagStep ==
  ASSUME XI, FlagCalls
  PROVE  WInv' /\ FInv'
  <1>1. CASE FlagTaken \/ FlagBlocks
    <2>1. PICK n : n = call[pcur].obj
      OBVIOUS
    <2>2. n \in Flags /\ InFlag(pcur, n) /\ at[pcur] = "flag"
      BY <1>1, <2>1, XFacts DEF FlagTaken, FlagBlocks, InFlag, XI, FInv
    <2>3. xflag \in [Flags -> {"SET", "CLEAR"}]
      BY DEF XI, FInv
    <2>4. Wait("FLAG", n) \in XWaits \ {Run}
      BY <2>2, WaitsDiffer DEF XWaits
    <2>5. CASE FlagTaken
      <3>1. /\ xflag' = [xflag EXCEPT ![n] = "CLEAR"] /\ xflag[n] = "SET"
            /\ xfwait' = [xfwait EXCEPT ![n] = 0] /\ waits' = Awake
            /\ UNCHANGED <<pcur, pd_state, xq>>
        BY <2>1, <2>5 DEF FlagTaken
      <3>2. \A p \in Procs : /\ p = pcur => at'[p] # "flag"
                             /\ p # pcur => at'[p] = at[p] /\ call'[p] = call[p]
        BY <2>5, XFacts DEF FlagTaken, Return
      <3>3. xflag' \in [Flags -> {"SET", "CLEAR"}]
            /\ \A m \in Flags : m # n => xflag'[m] = xflag[m]
        BY <2>3, <3>1
      <3>4. ASSUME NEW p \in Procs, at[p] = "flag", waits.on[p] # Run
            PROVE  xflag'[call[p].obj] = xflag[call[p].obj]
        BY <3>1, <3>3, <3>4 DEF XI, WInv, FInv, Reason
      <3>5. WInv'
        BY <3>1, <3>2, <3>4, XAwake, WStays
      <3>6. QED BY <2>2, <3>1, <3>2, <3>3, <3>5, FlagLeft
    <2>6. CASE FlagBlocks
      <3>1. xflag[n] = "CLEAR" /\ UNCHANGED <<pd_state, xflag, xq>>
        BY <2>1, <2>2, <2>3, <2>6 DEF FlagBlocks
      <3>2. CASE Park(Wait("FLAG", n), "flag") /\ UNCHANGED xfwait
        <4>1. \A p \in Procs : at'[p] = "flag" <=> at[p] = "flag"
          BY <2>2, <3>2, XFacts DEF Park
        <4>2. call' = call
          BY <3>2 DEF Park
        <4>3. \A p \in Procs : p = pcur /\ waits'.on[p] = Wait("FLAG", n) => Reason(p)'
          BY <2>1, <2>2, <3>1, <4>1, <4>2 DEF Reason
        <4>4. QED BY <2>3, <2>4, <3>1, <3>2, <4>1, <4>2, <4>3, WParks, FKept
      <3>3. CASE Refuse(Wait("FLAG", n)) /\ xfwait' = [xfwait EXCEPT ![n] = 0]
        <4>1. \A p \in Procs : /\ p = pcur => at'[p] # "flag"
                               /\ p # pcur => at'[p] = at[p] /\ call'[p] = call[p]
          BY <3>3, XFacts DEF Refuse, Return
        <4>2. QED BY <2>2, <2>3, <2>4, <3>1, <3>3, <4>1, WRefuses, FlagLeft
      <3>4. QED BY <2>1, <2>6, <3>2, <3>3 DEF FlagBlocks
    <2>7. QED BY <1>1, <2>5, <2>6
  <1>2. ASSUME NEW n \in Flags, FlagWait(n) PROVE WInv' /\ FInv'
    <2>1. /\ at[pcur] = "run" /\ waits.on[pcur] = Run
          /\ UNCHANGED <<pcur, pd_state, waits, xq>> /\ waits' \in WaitLists(XWaits)
          /\ Exact(waits')
      BY <1>2, XFacts DEF FlagWait, InUser
    <2>2. \A p \in Procs : p # pcur => at'[p] = at[p] /\ call'[p] = call[p]
      BY <1>2, XFacts DEF FlagWait, Return, Enter
    <2>3. xflag' \in [Flags -> {"SET", "CLEAR"}]
          /\ \A m \in Flags : xflag[m] # "SET" => xflag'[m] = xflag[m]
      BY <1>2 DEF FlagWait, XI, FInv
    <2>4. ASSUME NEW p \in Procs, at[p] = "flag", waits.on[p] # Run
          PROVE  xflag'[call[p].obj] = xflag[call[p].obj]
      BY <2>3, <2>4 DEF XI, WInv, FInv, Reason
    <2>5. WInv'
      BY <2>1, <2>2, <2>4, WStays
    <2>6. CASE UNCHANGED xfwait /\ \E r : Return(r)
      <3>1. \A p \in Procs : at'[p] = "flag" <=> at[p] = "flag"
        BY <2>1, <2>6, XFacts DEF Return
      <3>2. QED BY <2>1, <2>2, <2>3, <2>5, <2>6, <3>1, FKept
    <2>7. CASE /\ xfwait[n] = 0 /\ xfwait' = [xfwait EXCEPT ![n] = 1]
               /\ Enter("flag", [NoCall EXCEPT !.obj = n])
      <3>1. at'[pcur] = "flag" /\ call'[pcur].obj = n
        BY <2>7, XFacts DEF Enter, NoCall
      <3>2. \A p \in Procs : ~ InFlag(p, n)
        BY <2>7 DEF XI, FInv
      <3>3. \A p \in Procs, m \in Flags :
               InFlag(p, m)' <=> IF p = pcur THEN m = n ELSE InFlag(p, m)
        BY <2>2, <3>1 DEF InFlag
      <3>4. \A m \in Flags : ~ InFlag(pcur, m)
        BY <2>1 DEF InFlag
      <3>5. xfwait' \in [Flags -> {0, 1}] /\ xfwait'[n] = 1
            /\ \A m \in Flags : m # n => xfwait'[m] = xfwait[m]
        BY <2>7 DEF XI, FInv
      <3>6. \A m \in Flags : xfwait'[m] = 1 <=> \E p \in Procs : InFlag(p, m)'
        <4>1. TAKE m \in Flags
        <4>2. CASE m = n
          BY <3>3, <3>5, <4>2, XFacts
        <4>3. CASE m # n
          <5>1. \A p \in Procs : InFlag(p, m)' <=> InFlag(p, m)
            BY <3>3, <3>4, <4>3
          <5>2. QED BY <3>5, <4>3, <5>1 DEF XI, FInv
        <4>4. QED BY <4>2, <4>3
      <3>7. \A p \in Procs : at'[p] = "flag" => call'[p].obj \in Flags
        BY <2>2, <3>1 DEF XI, FInv
      <3>8. \A m \in Flags : \A p, q \in Procs : InFlag(p, m)' /\ InFlag(q, m)' => p = q
        BY <3>2, <3>3 DEF XI, FInv
      <3>9. QED BY <2>3, <2>5, <3>5, <3>6, <3>7, <3>8 DEF FInv
    <2>8. xfwait[n] # 0 \/ xfwait[n] = 0
      OBVIOUS
    <2>9. QED BY <1>2, <2>6, <2>7, <2>8 DEF FlagWait
  <1>3. ASSUME NEW n \in Flags, FlagSet(n) PROVE WInv' /\ FInv'
    <2>1. /\ at[pcur] = "run" /\ waits.on[pcur] = Run
          /\ UNCHANGED <<pcur, pd_state, xq, xfwait>> /\ \E r : Return(r)
          /\ xflag \in [Flags -> {"SET", "CLEAR"}]
      BY <1>3, XFacts DEF FlagSet, InUser, XI, FInv
    <2>2. /\ \A p \in Procs : p # pcur => at'[p] = at[p] /\ call'[p] = call[p]
          /\ \A p \in Procs : at'[p] = "flag" <=> at[p] = "flag"
      BY <2>1, XFacts DEF Return
    <2>3. CASE UNCHANGED <<xflag, waits>>
      BY <2>1, <2>2, <2>3, XFacts, WStays, FKept
    <2>4. CASE /\ xflag' = [xflag EXCEPT ![n] = "SET"]
               /\ waits' = pwake(waits, Wait("FLAG", n))
      <3>1. /\ waits' \in WaitLists(XWaits) /\ Exact(waits')
            /\ \A p \in Procs : waits'.on[p] = IF waits.on[p] = Wait("FLAG", n)
                                               THEN Run ELSE waits.on[p]
        BY <2>4, XFacts, XWoken, WaitsDiffer
      <3>2. xflag' \in [Flags -> {"SET", "CLEAR"}] /\ \A m \in Flags : m # n => xflag'[m] = xflag[m]
        BY <2>1, <2>4
      <3>3. ASSUME NEW p \in Procs, at[p] = "flag", waits.on[p] # Run, waits'.on[p] # Run
            PROVE  xflag'[call[p].obj] = xflag[call[p].obj]
        <4>1. waits.on[p] = Wait("FLAG", call[p].obj) /\ waits.on[p] # Wait("FLAG", n)
          BY <3>1, <3>3 DEF XI, WInv, Reason
        <4>2. call[p].obj \in Flags /\ call[p].obj # n
          BY <3>3, <4>1 DEF XI, FInv
        <4>3. QED BY <3>2, <4>2
      <3>4. waits'.on[pcur] = Run
        BY <2>1, <3>1, XFacts
      <3>5. WInv'
        BY <2>1, <2>2, <3>1, <3>3, <3>4, WStays
      <3>6. QED BY <2>1, <2>2, <3>2, <3>5, FKept
    <2>5. QED BY <1>3, <2>3, <2>4 DEF FlagSet
  <1>4. QED BY <1>1, <1>2, <1>3 DEF FlagCalls

(* The queue calls leave flags alone, and no process is in xflgwt() and in *)
(* one of them at once.                                                    *)
LEMMA FlagsApart ==
  ASSUME XI, UNCHANGED <<xflag, xfwait>>, at[pcur] # "flag", NEW s, s # "flag",
         at' = [at EXCEPT ![pcur] = s],
         \A p \in Procs : p # pcur => call'[p] = call[p]
  PROVE  FInv'
  <1>1. \A p \in Procs : /\ at'[p] = "flag" <=> at[p] = "flag"
                         /\ at[p] = "flag" => call'[p] = call[p]
    BY XFacts
  <1>2. xflag' \in [Flags -> {"SET", "CLEAR"}]
    BY DEF XI, FInv
  <1>3. QED BY <1>1, <1>2, FKept

(* A call that returns, with the table changed in slot i only, and only    *)
(* those off the list that the change concerns.                            *)
LEMMA QueueReturns ==
  ASSUME XI, UNCHANGED <<pcur, pd_state, xflag, xfwait>>, at[pcur] # "flag",
         NEW r, Return(r), NEW i \in Queues, NEW q, xq' = [xq EXCEPT ![i] = q],
         waits' \in WaitLists(XWaits), Exact(waits'), waits'.on[pcur] = Run,
         \A p \in Procs : p # pcur =>
            /\ waits'.on[p] \in {waits.on[p], Run}
            /\ waits'.on[p] # Run => waits.on[p] \notin {Wait("QRD", i), Wait("QWR", i)}
  PROVE  WInv' /\ FInv'
  <1>1. /\ at' = [at EXCEPT ![pcur] = "run"]
        /\ \A p \in Procs : p # pcur => at'[p] = at[p] /\ call'[p] = call[p]
    BY XFacts DEF Return
  <1>2. ASSUME NEW p \in Procs, p # pcur, at[p] \in {"readw", "writew"},
               waits'.on[p] # Run
        PROVE  xq'[call[p].obj] = xq[call[p].obj]
    <2>1. waits.on[p] # Run /\ waits.on[p] \notin {Wait("QRD", i), Wait("QWR", i)}
      BY <1>2
    <2>2. call[p].obj # i /\ call[p].obj \in Queues
      BY <1>2, <2>1 DEF XI, WInv, Reason, RInv, Calls
    <2>3. QED BY <2>2 DEF XI, RInv, Rings
  <1>3. WInv'
    BY <1>1, <1>2, WStays
  <1>4. QED BY <1>1, <1>3, FlagsApart

LEMMA XMakes ==
  ASSUME XI, NEW n, NEW d, xqmakef(n, d)
  PROVE  WInv' /\ FInv'
  <1>1. PICK i, q : i = FirstFree /\ xq' = [xq EXCEPT ![i] = q]
    BY DEF xqmakef
  <1>2. i \in Queues /\ ~ xq[i].used
    BY <1>1, FirstFreeIs DEF xqmakef
  <1>3. /\ at[pcur] = "run" /\ waits.on[pcur] = Run /\ Return("ok")
        /\ UNCHANGED <<pcur, pd_state, waits, xflag, xfwait>>
    BY XFacts DEF xqmakef, InUser
  <1>4. \A p \in Procs : waits.on[p] \notin {Wait("QRD", i), Wait("QWR", i)}
    BY <1>2, WaitsDiffer DEF XI, WInv, Reason
  <1>5. waits' \in WaitLists(XWaits) /\ Exact(waits') /\ waits'.on[pcur] = Run
    BY <1>3, XFacts
  <1>6. QED BY <1>1, <1>2, <1>3, <1>4, <1>5, QueueReturns

LEMMA XDeletes ==
  ASSUME XI, NEW n, xqdelf(n)
  PROVE  WInv' /\ FInv'
  <1>1. PICK i \in Named(n) :
           /\ xq' = [xq EXCEPT ![i].used = FALSE]
           /\ waits' = pwake(pwake(waits, Wait("QRD", i)), Wait("QWR", i))
    BY DEF xqdelf
  <1>2. PICK q : xq' = [xq EXCEPT ![i] = q]
    BY <1>1
  <1>3. PICK x : x = pwake(waits, Wait("QRD", i))
    OBVIOUS
  <1>4. /\ i \in Queues /\ at[pcur] = "run" /\ waits.on[pcur] = Run /\ Return("ok")
        /\ UNCHANGED <<pcur, pd_state, xflag, xfwait>>
    BY XFacts DEF xqdelf, InUser, Named
  <1>5. /\ x \in WaitLists(XWaits) /\ Exact(x) /\ Blocked(x) \subseteq Live
        /\ \A p \in Procs : x.on[p] = IF waits.on[p] = Wait("QRD", i) THEN Run
                                       ELSE waits.on[p]
    BY <1>3, XFacts, XWoken, WaitsDiffer
  <1>6. /\ waits' \in WaitLists(XWaits) /\ Exact(waits')
        /\ \A p \in Procs : waits'.on[p] = IF x.on[p] = Wait("QWR", i) THEN Run ELSE x.on[p]
    BY <1>1, <1>3, <1>5, XWoken, WaitsDiffer
  <1>7. /\ waits'.on[pcur] = Run
        /\ \A p \in Procs :
             /\ waits'.on[p] \in {waits.on[p], Run}
             /\ waits'.on[p] # Run => waits.on[p] \notin {Wait("QRD", i), Wait("QWR", i)}
    BY <1>4, <1>5, <1>6, XFacts, WaitsDiffer
  <1>8. QED BY <1>2, <1>4, <1>6, <1>7, QueueReturns

(* A reader or a writer that gets through wakes the other side; its own    *)
(* side is empty of waiters, for the queue is neither empty nor full.      *)
LEMMA XMoves ==
  ASSUME XI, ReadTakes \/ WritePuts
  PROVE  WInv' /\ FInv'
  <1>1. PICK i : i = Mine
    OBVIOUS
  <1>2. /\ i \in Queues /\ at[pcur] \in {"read", "write"} /\ Return("ok")
        /\ UNCHANGED <<pcur, pd_state, xflag, xfwait>>
    BY <1>1 DEF ReadTakes, WritePuts, XI, RInv, Calls, Mine
  <1>3. PICK q : xq' = [xq EXCEPT ![i] = q]
    BY <1>1 DEF ReadTakes, WritePuts
  <1>4. PICK w : /\ w \in {Wait("QWR", i), Wait("QRD", i)} /\ waits' = pwake(Awake, w)
                 /\ \A p \in Procs : waits.on[p] \in {Wait("QRD", i), Wait("QWR", i)} =>
                                      waits.on[p] = w
    <2>1. CASE ReadTakes
      <3>1. waits' = pwake(Awake, Wait("QWR", i)) /\ xq[i].cnt # 0
        BY <1>1, <2>1 DEF ReadTakes
      <3>2. \A p \in Procs : waits.on[p] # Wait("QRD", i)
        BY <3>1, WaitsDiffer DEF XI, WInv, Reason
      <3>3. QED BY <3>1, <3>2
    <2>2. CASE WritePuts
      <3>1. waits' = pwake(Awake, Wait("QRD", i)) /\ xq[i].cnt < xq[i].ndep
            /\ xq[i].ndep \in Int
        BY <1>1, <1>2, <2>2 DEF WritePuts, XI, RInv, Rings, Slots
      <3>2. \A p \in Procs : waits.on[p] # Wait("QWR", i)
        BY <3>1, WaitsDiffer DEF XI, WInv, Reason
      <3>3. QED BY <3>1, <3>2
    <2>3. QED BY <2>1, <2>2
  <1>5. /\ waits' \in WaitLists(XWaits) /\ Exact(waits')
        /\ \A p \in Procs : waits'.on[p] = IF Awake.on[p] = w THEN Run ELSE Awake.on[p]
    <2>1. w # Run
      BY <1>4, WaitsDiffer
    <2>2. QED BY <1>4, <2>1, XAwake, XWoken
  <1>6. waits'.on[pcur] = Run
    BY <1>5, XAwake, XFacts
  <1>7. \A p \in Procs : p # pcur =>
           /\ waits'.on[p] \in {waits.on[p], Run}
           /\ waits'.on[p] # Run => waits.on[p] \notin {Wait("QRD", i), Wait("QWR", i)}
    BY <1>4, <1>5, XAwake
  <1>8. QED BY <1>2, <1>3, <1>5, <1>6, <1>7, QueueReturns

LEMMA XBlocks ==
  ASSUME XI, ReadBlocks \/ WriteBlocks
  PROVE  WInv' /\ FInv'
  <1>1. PICK i : i = Mine
    OBVIOUS
  <1>2. /\ i \in Queues /\ xq[i].used /\ xq[i] \in Slots /\ xq[i].cnt <= xq[i].ndep
        /\ at[pcur] \in {"read", "write"} /\ waits.on[pcur] = Run /\ i = call[pcur].obj
    BY <1>1, XFacts DEF ReadBlocks, WriteBlocks, XI, RInv, Calls, Rings, Ring, Mine
  <1>3. PICK w, why :
           /\ QueueBlocks(w, why)
           /\ \/ w = "readw" /\ why = "QRD" /\ xq[i].cnt = 0
              \/ w = "writew" /\ why = "QWR" /\ xq[i].cnt = xq[i].ndep
    <2>1. xq[i].cnt \in Int /\ xq[i].ndep \in Int
      BY <1>2 DEF Slots
    <2>2. CASE ReadBlocks
      BY <1>1, <2>2 DEF ReadBlocks
    <2>3. CASE WriteBlocks
      <3>1. QueueBlocks("writew", "QWR") /\ xq[i].cnt = xq[i].ndep
        BY <1>1, <1>2, <2>1, <2>3 DEF WriteBlocks
      <3>2. QED BY <3>1
    <2>4. QED BY <2>2, <2>3
  <1>4. UNCHANGED <<pd_state, xflag, xfwait, xq>>
    BY <1>3 DEF QueueBlocks
  <1>5. Wait(why, i) \in XWaits \ {Run}
    BY <1>2, <1>3, WaitsDiffer DEF XWaits
  <1>6. CASE Return("fail") /\ UNCHANGED <<pcur, waits>>
    <2>1. /\ at' = [at EXCEPT ![pcur] = "run"]
          /\ \A p \in Procs : p # pcur => at'[p] = at[p] /\ call'[p] = call[p]
      BY <1>6, XFacts DEF Return
    <2>2. waits' \in WaitLists(XWaits) /\ Exact(waits') /\ waits'.on[pcur] = Run
      BY <1>2, <1>6, XFacts
    <2>3. WInv'
      BY <1>4, <1>6, <2>1, <2>2, WStays
    <2>4. QED BY <1>2, <1>4, <2>1, <2>3, FlagsApart
  <1>7. CASE Park(Wait(why, i), w)
    <2>1. at' = [at EXCEPT ![pcur] = w] /\ call' = call /\ at'[pcur] = w
      BY <1>7, XFacts DEF Park
    <2>2. \A p \in Procs : p = pcur /\ waits'.on[p] = Wait(why, i) => Reason(p)'
      BY <1>2, <1>3, <1>4, <2>1 DEF Reason
    <2>3. WInv'
      BY <1>4, <1>5, <1>7, <2>2, WParks
    <2>4. QED BY <1>2, <1>3, <1>4, <2>1, <2>3, FlagsApart
  <1>8. CASE Refuse(Wait(why, i))
    <2>1. /\ at' = [at EXCEPT ![pcur] = "run"]
          /\ \A p \in Procs : p # pcur => call'[p] = call[p]
      BY <1>8, XFacts DEF Refuse, Return
    <2>2. QED BY <1>2, <1>4, <1>5, <1>8, <2>1, WRefuses, FlagsApart
  <1>9. QED BY <1>1, <1>3, <1>6, <1>7, <1>8 DEF QueueBlocks

LEMMA XQueueStep ==
  ASSUME XI, QueueCalls
  PROVE  WInv' /\ FInv'
  <1>1. ASSUME NEW n \in Names, xqdelf(n) PROVE WInv' /\ FInv'
    BY <1>1, XDeletes
  <1>2. ASSUME NEW n \in Names, NEW d \in 1 .. DEPTH, xqmakef(n, d) PROVE WInv' /\ FInv'
    BY <1>2, XMakes
  <1>3. ASSUME NEW s \in {"read", "write"}, NEW i, NEW c, NEW m, QueueCall(s, i, c, m)
        PROVE  WInv' /\ FInv'
    <2>1. /\ at[pcur] = "run" /\ waits.on[pcur] = Run /\ s # "flag"
          /\ UNCHANGED <<pcur, pd_state, waits, xflag, xfwait, xq>>
          /\ at' = [at EXCEPT ![pcur] = s]
          /\ \A p \in Procs : p # pcur => at'[p] = at[p] /\ call'[p] = call[p]
      BY <1>3, XFacts DEF QueueCall, Enter, InUser
    <2>2. waits' \in WaitLists(XWaits) /\ Exact(waits') /\ waits'.on[pcur] = Run
      BY <2>1, XFacts
    <2>3. WInv'
      BY <2>1, <2>2, WStays
    <2>4. QED BY <2>1, <2>3, FlagsApart
  <1>4. ASSUME NEW s, NEW w, QueueBack(s, w),
               <<s, w>> \in {<<"read", "readw">>, <<"write", "writew">>}
        PROVE  WInv' /\ FInv'
    <2>1. PICK e : e # "flag" /\ at' = [at EXCEPT ![pcur] = e]
      BY <1>4 DEF QueueBack, Return
    <2>2. /\ at[pcur] # "flag" /\ UNCHANGED <<pcur, pd_state, xflag, xfwait, xq>>
          /\ \A p \in Procs : p # pcur => at'[p] = at[p] /\ call'[p] = call[p]
      BY <1>4, <2>1, XFacts DEF QueueBack, Return
    <2>3. /\ waits' \in WaitLists(XWaits) /\ Exact(waits') /\ waits'.on[pcur] = Run
          /\ \A p \in Procs : p # pcur => waits'.on[p] = waits.on[p]
      BY <1>4, XAwake DEF QueueBack
    <2>4. WInv'
      BY <2>2, <2>3, WStays
    <2>5. QED BY <2>1, <2>2, <2>4, FlagsApart
  <1>5. QED BY <1>1, <1>2, <1>3, <1>4, XMoves, XBlocks DEF QueueCalls

(* The steps of a program outside the calls: a switch, a launch, an end.   *)
LEMMA XSwitches ==
  ASSUME XI, InUser, UNCHANGED <<at, call, xflag, xfwait, xq>>,
         waits' \in WaitLists(XWaits), Exact(waits'), Thinned(waits, waits'),
         pcur' \in Live', Live \ {pcur} \subseteq Live'
  PROVE  WInv' /\ FInv'
  <1>1. waits.on[pcur] = Run /\ at[pcur] = "run"
    BY XFacts DEF InUser
  <1>2. \A p \in Procs \ Live' : at'[p] = "run"
    BY <1>1 DEF XI, WInv
  <1>3. \A p \in Procs : waits'.on[p] \in {waits.on[p], Run}
    BY DEF Thinned
  <1>4. \A p \in Procs : p = pcur => waits'.on[p] = Run
    BY <1>1, <1>3
  <1>5. \A p \in Procs : p = pcur => Reason(p)'
    BY <1>4 DEF Reason
  <1>6. WInv'
    BY <1>2, <1>3, <1>5, WKept
  <1>7. xflag' \in [Flags -> {"SET", "CLEAR"}]
    BY DEF XI, FInv
  <1>8. QED BY <1>6, <1>7, FKept

LEMMA XOtherStep ==
  ASSUME XI, Preempt \/ Console \/ ConsoleDone \/ Exit \/ \E p \in Procs : Launch(p)
  PROVE  WInv' /\ FInv'
  <1>1. /\ waits \in WaitLists(XWaits) /\ Exact(waits) /\ Thinned(waits, waits)
        /\ pcur \in Procs /\ pcur \in Live /\ Live \subseteq Procs
    BY XFacts DEF Thinned
  <1>2. CASE Preempt
    <2>1. PICK E \in Polled : /\ waits' = pwscan(waits, E)
                              /\ pcur' = pnext(pwscan(waits, E), pcur)
      BY <1>2 DEF Preempt
    <2>2. Run \in XWaits /\ Run \notin E
      BY WaitsDiffer DEF XWaits, Polled
    <2>3. /\ pwscan(waits, E) \in WaitLists(XWaits) /\ Exact(pwscan(waits, E))
          /\ Thinned(waits, pwscan(waits, E))
      BY <1>1, <2>2, pwscanExact, pwscanType
    <2>4. pcur' \in Live
      BY <1>1, <2>1, pnextLive
    <2>5. Live' = Live /\ InUser /\ UNCHANGED <<at, call, xflag, xfwait, xq>>
      BY <1>2 DEF Preempt, Live
    <2>6. QED BY <2>1, <2>3, <2>4, <2>5, XSwitches
  <1>3. CASE Console
    <2>1. Wait("CON", 0) \in XWaits \ {Run} /\ at[pcur] # "flag"
      BY <1>3, WaitsDiffer DEF XWaits, Console, InUser
    <2>2. Park(Wait("CON", 0), "away") /\ UNCHANGED <<pd_state, xflag, xfwait, xq>>
      BY <1>3 DEF Console
    <2>3. at' = [at EXCEPT ![pcur] = "away"] /\ call' = call /\ at'[pcur] = "away"
      BY <2>2, XFacts DEF Park
    <2>4. \A p \in Procs : p = pcur /\ waits'.on[p] = Wait("CON", 0) => Reason(p)'
      BY <2>3 DEF Reason
    <2>5. WInv'
      BY <2>1, <2>2, <2>4, WParks
    <2>6. QED BY <2>1, <2>2, <2>3, <2>5, FlagsApart
  <1>4. CASE ConsoleDone
    <2>1. /\ UNCHANGED <<pcur, pd_state, xflag, xfwait, xq>> /\ at[pcur] # "flag"
          /\ at' = [at EXCEPT ![pcur] = "run"]
          /\ \A p \in Procs : p # pcur => at'[p] = at[p] /\ call'[p] = call[p]
      BY <1>4, XFacts DEF ConsoleDone, Return
    <2>2. /\ waits' \in WaitLists(XWaits) /\ Exact(waits') /\ waits'.on[pcur] = Run
          /\ \A p \in Procs : p # pcur => waits'.on[p] = waits.on[p]
      BY <1>4, XAwake DEF ConsoleDone
    <2>3. WInv'
      BY <2>1, <2>2, WStays
    <2>4. QED BY <2>1, <2>3, FlagsApart
  <1>5. CASE Exit
    <2>1. InUser /\ UNCHANGED <<waits, at, call, xflag, xfwait, xq>> /\ pnlive >= 2
          /\ pcur' = pnextany(pcur) /\ pd_state' = [pd_state EXCEPT ![pcur] = "FREE"]
      BY <1>5 DEF Exit
    <2>2. pcur' \in Live \ {pcur}
      BY <1>1, <2>1, pnextanyOther
    <2>3. Live \ {pcur} \subseteq Live'
      BY <2>1 DEF Live
    <2>4. QED BY <1>1, <2>1, <2>2, <2>3, XSwitches
  <1>6. CASE \E p \in Procs : Launch(p)
    <2>1. PICK p \in Procs : Launch(p)
      BY <1>6
    <2>2. InUser /\ UNCHANGED <<pcur, waits, at, call, xflag, xfwait, xq>>
          /\ pd_state' = [pd_state EXCEPT ![p] = "LIVE"]
      BY <2>1 DEF Launch
    <2>3. Live \subseteq Live'
      BY <2>2 DEF Live
    <2>4. QED BY <1>1, <2>2, <2>3, XSwitches
  <1>7. QED BY <1>2, <1>3, <1>4, <1>5, <1>6

LEMMA XInductive == XI /\ [Next]_vars => XI'
  <1> SUFFICES ASSUME XI, [Next]_vars PROVE XI'
    OBVIOUS
  <1>1. RInv'
    BY StepImplements DEF XI
  <1>2. CASE UNCHANGED vars
    <2>1. WInv'
      BY <1>2 DEF vars, XI, WInv, Reason, Exact, Blocked, Live
    <2>2. FInv'
      BY <1>2 DEF vars, XI, FInv, InFlag
    <2>3. QED BY <1>1, <2>1, <2>2 DEF XI
  <1>3. CASE Next
    <2>1. WInv' /\ FInv'
      BY <1>3, XFlagStep, XQueueStep, XOtherStep DEF Next
    <2>2. QED BY <1>1, <2>1 DEF XI
  <1>4. QED BY <1>2, <1>3

LEMMA XInit == Init => XI
  <1> SUFFICES ASSUME Init PROVE XI
    OBVIOUS
  <1>1. RInv
    BY InitImplements
  <1>2. WInv
    <2>1. waits \in WaitLists(XWaits) /\ \A p \in Procs : waits.on[p] = Run
      BY DEF Init, WaitLists, XWaits
    <2>2. Blocked(waits) = {} /\ waits.count = 0
      BY <2>1 DEF Init, Blocked
    <2>3. Exact(waits)
      BY <2>2, FS_EmptySet DEF Exact
    <2>4. Live = Procs /\ pcur \in Live
      BY NPAssumption DEF Init, Live, Procs
    <2>5. QED BY <2>1, <2>3, <2>4 DEF WInv, Reason
  <1>3. FInv
    BY DEF Init, FInv, InFlag
  <1>4. QED BY <1>1, <1>2, <1>3 DEF XI

(* A process blocked in XDOS 132, 137 or 139 is never left waiting for     *)
(* what has happened: while it is off the rotation its flag is clear and   *)
(* waited for, its queue is there and empty, or full.  Sets, reads,        *)
(* writes and deletions each wake all those they concern, for any number   *)
(* of processes, flags and queues.                                         *)
THEOREM NobodyMissesAWakeup == Spec => []NoLostWakeup
  <1>1. ASSUME XI PROVE NoLostWakeup
    <2>1. ASSUME NEW p \in Procs
          PROVE  LET w == waits.on[p]
                 IN  /\ w.why = "FLAG" => xflag[w.obj] = "CLEAR" /\ xfwait[w.obj] = 1
                     /\ w.why = "QRD" => xq[w.obj].used /\ xq[w.obj].cnt = 0
                     /\ w.why = "QWR" => xq[w.obj].used /\ xq[w.obj].cnt = xq[w.obj].ndep
      <3>1. Reason(p)
        BY <1>1 DEF XI, WInv
      <3>2. \A k : /\ Run.why = "RUN" /\ Wait("CON", 0).why = "CON"
                   /\ Wait("FLAG", k).why = "FLAG" /\ Wait("FLAG", k).obj = k
                   /\ Wait("QRD", k).why = "QRD" /\ Wait("QRD", k).obj = k
                   /\ Wait("QWR", k).why = "QWR" /\ Wait("QWR", k).obj = k
        BY DEF Run, Wait
      <3>3. at[p] = "flag" => xfwait[call[p].obj] = 1
        BY <1>1 DEF XI, FInv, InFlag
      <3>4. QED BY <3>1, <3>2, <3>3 DEF Reason
    <2>2. QED BY <2>1 DEF NoLostWakeup
  <1>2. QED BY <1>1, XInit, XInductive, PTL DEF Spec

(* xfwait[n] counts the callers in the loop of xflgwt() on flag n, and     *)
(* there is never a second one: however calls, refusals, preemptions and   *)
(* ends of programs interleave, for any number of processes and flags.     *)
THEOREM FlagsHaveOneWaiter == Spec => []OneFlagWaiter
  <1>1. ASSUME XI PROVE OneFlagWaiter
    <2>1. ASSUME NEW n \in Flags
          PROVE  xfwait[n] = Cardinality({p \in Live : at[p] = "flag" /\ call[p].obj = n})
      <3> DEFINE S == {p \in Live : at[p] = "flag" /\ call[p].obj = n}
      <3>1. /\ xfwait[n] \in {0, 1}
            /\ xfwait[n] = 1 <=> \E p \in Procs : InFlag(p, n)
            /\ \A p, q \in Procs : InFlag(p, n) /\ InFlag(q, n) => p = q
        BY <1>1 DEF XI, FInv
      <3>2. \A p \in Procs : InFlag(p, n) <=> p \in S
        BY <1>1 DEF XI, WInv, InFlag, Live
      <3>3. S \subseteq Procs
        BY DEF Live
      <3> HIDE DEF S
      <3>4. CASE xfwait[n] = 0
        <4>1. S = {}
          BY <3>1, <3>2, <3>3, <3>4
        <4>2. QED BY <3>4, <4>1, FS_EmptySet DEF S
      <3>5. CASE xfwait[n] = 1
        <4>1. PICK p \in Procs : InFlag(p, n)
          BY <3>1, <3>5
        <4>2. S = {p}
          BY <3>1, <3>2, <3>3, <4>1
        <4>3. QED BY <3>5, <4>2, FS_Singleton DEF S
      <3>6. QED BY <3>1, <3>4, <3>5
    <2>2. QED BY <2>1 DEF OneFlagWaiter
  <1>2. QED BY <1>1, XInit, XInductive, PTL DEF Spec

=============================================================================
