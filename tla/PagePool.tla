------------------------------ MODULE PagePool ------------------------------
(***************************************************************************)
(* The segment pool of src/bios/pgalloc.c, as operators on one record:     *)
(*   own[s]  0, or the owning process's index plus one      (pgown)        *)
(*   hld[s]  s parks a live process's 64 KB image            (pghld)       *)
(*   pg[s]   the physical page slot s points at              (pgpg)        *)
(*   tpa     the physical page the TPA segment points at     (tpaphys)     *)
(* Slots are 1..NSLOT and stand for the logical segments PGSEG(i); 0 is    *)
(* the refusal.  Physical page 0 is the one crt.s gives the TPA.           *)
(***************************************************************************)
EXTENDS Integers

CONSTANT NSLOT          \* pgnslot, what the machine's RAM can back

ASSUME NSLOTAssumption == NSLOT \in Nat

Slots == 1 .. NSLOT
Pages == 0 .. NSLOT

pginit == [own |-> [s \in Slots |-> 0],
           hld |-> [s \in Slots |-> FALSE],
           pg  |-> [s \in Slots |-> s],
           tpa |-> 0]

(* The pools whose slots are owned by the processes 0 .. n-1.              *)
Pools(n) == [own : [Slots -> 0 .. n], hld : [Slots -> BOOLEAN],
             pg  : [Slots -> Pages],  tpa : Pages]

Owned(m, s) == s \in Slots /\ m.own[s] # 0

FreeSlots(m) == {s \in Slots : m.own[s] = 0}

(* The slot pgalloc would answer, 0 when the pool is empty.                *)
pgfirst(m) ==
  IF \E s \in FreeSlots(m) : \A t \in FreeSlots(m) : s <= t
  THEN CHOOSE s \in FreeSlots(m) : \A t \in FreeSlots(m) : s <= t
  ELSE 0

pgalloc(m, cur) ==
  IF pgfirst(m) = 0 THEN m ELSE [m EXCEPT !.own[pgfirst(m)] = cur + 1]

pgfree(m, s) ==
  IF Owned(m, s) THEN [m EXCEPT !.own[s] = 0, !.hld[s] = FALSE] ELSE m

pghold(m, s, b) == IF Owned(m, s) THEN [m EXCEPT !.hld[s] = b] ELSE m

pgheld(m) == \E s \in Slots : m.own[s] # 0 /\ m.hld[s]

pgtpaswap(m, s) ==
  IF Owned(m, s) THEN [m EXCEPT !.tpa = m.pg[s], !.pg[s] = m.tpa] ELSE m

(* Put the TPA back on its boot page, whichever slot that page went to.    *)
pgtparest(m) ==
  IF m.tpa = 0 \/ ~ \E s \in Slots : m.pg[s] = 0
  THEN m
  ELSE LET s == CHOOSE t \in Slots : m.pg[t] = 0
       IN  [m EXCEPT !.tpa = 0, !.pg[s] = m.tpa]

pgrelproc_nothing(m, cur) == m

pgrelproc_anyones(m, cur) ==
  LET unheld == {s \in Slots : ~ m.hld[s]}
  IN  [m EXCEPT !.own = [s \in Slots |-> IF s \in unheld THEN 0 ELSE m.own[s]]]

pgrelproc(m, cur) ==
  LET mine == {s \in Slots : m.own[s] = cur + 1 /\ ~ m.hld[s]}
  IN  [m EXCEPT !.own = [s \in Slots |-> IF s \in mine THEN 0 ELSE m.own[s]]]

pgrelall_always_restores(m, cur) == pgrelproc(pgtparest(m), cur)

pgrelall(m, cur) == pgrelproc(IF pgheld(m) THEN m ELSE pgtparest(m), cur)

=============================================================================
