-------------------------------- MODULE Xdos --------------------------------
(***************************************************************************)
(* Flags and queues of src/bdos/xdos.c (XDOS 132-140) over the wait list   *)
(* of the kernel.  A call runs without interruption until it parks, so the *)
(* loop of each waiting call is cut where it parks: at = "flag", "read" or *)
(* "write" is the top of the loop, "readw" and "writew" the test of q_used *)
(* after the wait.  Programs start, end, wait for the console and are      *)
(* preempted as in module Proc, of which only the scheduling is kept.      *)
(***************************************************************************)
EXTENDS Sched, Sequences

CONSTANTS NFLAG,        \* XNFLAG
          NQ,           \* XNQ, queue slots
          DEPTH,        \* XQDEPTH, the deepest queue
          Names, Msgs,  \* queue names, messages
          MaxMakes      \* bound: how often one slot is made into a queue

ASSUME XdosAssumption == /\ NFLAG \in Nat /\ NQ \in Nat
                         /\ DEPTH \in Nat \ {0} /\ MaxMakes \in Nat \ {0}

Flags  == 0 .. NFLAG - 1
Queues == 0 .. NQ - 1

VARIABLES at,           \* where each process is
          call,         \* the arguments of the call in progress
          ret,          \* what the call that returned last answered
          xflag, xfwait,
          xq,           \* the queue table
          last          \* the last message delivered (history)

vars == <<pcur, pd_state, waits, at, call, ret, xflag, xfwait, xq, last>>

NoCall == [obj |-> 0, cond |-> FALSE, msg |-> CHOOSE m \in Msgs : TRUE, made |-> 0]

(* `made' counts the queues that have lived in the slot: the identity of   *)
(* the one there now, which the code does not record.                      *)
FreeQueue == [used |-> FALSE, name |-> CHOOSE n \in Names : TRUE, ndep |-> 1,
              cnt |-> 0, in |-> 0, out |-> 0,
              buf |-> [k \in 0 .. DEPTH - 1 |-> CHOOSE m \in Msgs : TRUE],
              made |-> 0]

Init ==
  /\ pcur = 0
  /\ pd_state = [p \in Procs |-> "LIVE"]
  /\ waits = [on |-> [p \in Procs |-> Run], count |-> 0]
  /\ at = [p \in Procs |-> "run"]
  /\ call = [p \in Procs |-> NoCall]
  /\ ret = "ok"
  /\ xflag = [n \in Flags |-> "CLEAR"]
  /\ xfwait = [n \in Flags |-> 0]
  /\ xq = [i \in Queues |-> FreeQueue]
  /\ last = [from |-> -1, msg |-> NoCall.msg]

-----------------------------------------------------------------------------
(* pwait(): `ran' tells whether somebody else ran.  When nobody did the    *)
(* call goes on at once and pcur is unchanged.  Characters arrive whenever *)
(* they like: E is what the sweep finds.                                   *)
Swept(x, E) == IF pnlive < 2 THEN x ELSE pwscan(x, E)

Successor(x) == IF pnlive < 2 THEN pcur ELSE pnext(x, pcur)

Polled == SUBSET {Wait("CON", 0)}

Parked(w, E) == Swept(pblock(waits, pcur, w), E)

Return(r) == /\ at' = [at EXCEPT ![pcur] = "run"]
             /\ call' = [call EXCEPT ![pcur] = NoCall]
             /\ ret' = r

(* The process parks at site s and another one runs.                       *)
Park(w, s) ==
  \E E \in Polled :
    LET x == Parked(w, E)
    IN  /\ Successor(x) # pcur
        /\ pcur' = Successor(x)
        /\ waits' = x
        /\ at' = [at EXCEPT ![pcur] = s]
        /\ UNCHANGED <<call, ret>>

(* Nobody else can run: the wait answers FALSE and the call fails.         *)
Refuse(w) ==
  \E E \in Polled :
    LET x == Parked(w, E)
    IN  /\ Successor(x) = pcur
        /\ waits' = punblk(x, pcur)
        /\ Return("fail")
        /\ UNCHANGED pcur

Enter(s, c) == /\ at' = [at EXCEPT ![pcur] = s]
               /\ call' = [call EXCEPT ![pcur] = c]

InUser == at[pcur] = "run"

Awake == punblk(waits, pcur)

-----------------------------------------------------------------------------
(* Flags: XDOS 132 and 133.                                                *)

FlagWait(n) ==
  /\ InUser
  /\ IF xflag[n] = "SET"
     THEN /\ xflag' = [xflag EXCEPT ![n] = "CLEAR"] /\ Return("ok")
          /\ UNCHANGED xfwait
     ELSE IF xfwait[n] # 0
     THEN Return("fail") /\ UNCHANGED <<xflag, xfwait>>
     ELSE /\ xfwait' = [xfwait EXCEPT ![n] = 1]
          /\ Enter("flag", [NoCall EXCEPT !.obj = n])
          /\ UNCHANGED <<xflag, ret>>
  /\ UNCHANGED <<pcur, pd_state, waits, xq, last>>

FlagTaken ==            \* the loop of xflgwt() finds the flag set
  LET n == call[pcur].obj
  IN  /\ at[pcur] = "flag"
      /\ xflag[n] = "SET"
      /\ xflag' = [xflag EXCEPT ![n] = "CLEAR"]
      /\ xfwait' = [xfwait EXCEPT ![n] = 0]
      /\ waits' = Awake
      /\ Return("ok")
      /\ UNCHANGED <<pcur, pd_state, xq, last>>

FlagBlocks_keeps_waiter ==
  LET n == call[pcur].obj
  IN  /\ at[pcur] = "flag"
      /\ xflag[n] # "SET"
      /\ Park(Wait("FLAG", n), "flag") \/ Refuse(Wait("FLAG", n))
      /\ UNCHANGED <<pd_state, xflag, xfwait, xq, last>>

FlagBlocks ==           \* and here it does not
  LET n == call[pcur].obj
  IN  /\ at[pcur] = "flag"
      /\ xflag[n] # "SET"
      /\ \/ Park(Wait("FLAG", n), "flag") /\ UNCHANGED xfwait
         \/ Refuse(Wait("FLAG", n)) /\ xfwait' = [xfwait EXCEPT ![n] = 0]
      /\ UNCHANGED <<pd_state, xflag, xq, last>>

FlagSet(n) ==
  /\ InUser
  /\ IF xflag[n] = "SET" /\ xfwait[n] = 0
     THEN Return("fail") /\ UNCHANGED <<xflag, waits>>
     ELSE /\ xflag' = [xflag EXCEPT ![n] = "SET"]
          /\ waits' = pwake(waits, Wait("FLAG", n))
          /\ Return("ok")
  /\ UNCHANGED <<pcur, pd_state, xfwait, xq, last>>

-----------------------------------------------------------------------------
(* Queues: XDOS 134-140.                                                   *)

Named(n) == {i \in Queues : xq[i].used /\ xq[i].name = n}

FirstFree == CHOOSE i \in Queues :
               /\ ~ xq[i].used
               /\ \A j \in Queues : ~ xq[j].used => i <= j

xqmakef(n, d) ==
  /\ InUser
  /\ Named(n) = {}
  /\ \E i \in Queues : ~ xq[i].used
  /\ xq[FirstFree].made < MaxMakes
  /\ xq' = [xq EXCEPT ![FirstFree] =
              [xq[FirstFree] EXCEPT !.used = TRUE, !.name = n, !.ndep = d,
                        !.cnt = 0, !.in = 0, !.out = 0, !.made = @ + 1]]
  /\ Return("ok")
  /\ UNCHANGED <<pcur, pd_state, waits, xflag, xfwait, last>>

xqdelf_readers_only(n) ==
  /\ InUser
  /\ \E i \in Named(n) :
       /\ xq' = [xq EXCEPT ![i].used = FALSE]
       /\ waits' = pwake(waits, Wait("QRD", i))
  /\ Return("ok")
  /\ UNCHANGED <<pcur, pd_state, xflag, xfwait, last>>

xqdelf(n) ==
  /\ InUser
  /\ \E i \in Named(n) :
       /\ xq' = [xq EXCEPT ![i].used = FALSE]
       /\ waits' = pwake(pwake(waits, Wait("QRD", i)), Wait("QWR", i))
  /\ Return("ok")
  /\ UNCHANGED <<pcur, pd_state, xflag, xfwait, last>>

(* 137-140: a call on a queue that exists; any other id fails at once.     *)
QueueCall(s, i, c, m) ==
  /\ InUser
  /\ xq[i].used
  /\ Enter(s, [obj |-> i, cond |-> c, msg |-> m, made |-> xq[i].made])
  /\ UNCHANGED <<pcur, pd_state, waits, ret, xflag, xfwait, xq, last>>

Mine == call[pcur].obj

(* The end of the ring after position k of queue q.                        *)
Advance(q, k) == IF k + 1 >= q.ndep THEN 0 ELSE k + 1

ReadTakes ==
  LET q == xq[Mine]
  IN  /\ at[pcur] = "read"
      /\ q.cnt # 0
      /\ last' = [from |-> Mine, msg |-> q.buf[q.out]]
      /\ xq' = [xq EXCEPT ![Mine].out = Advance(q, q.out), ![Mine].cnt = @ - 1]
      /\ waits' = pwake(Awake, Wait("QWR", Mine))
      /\ Return("ok")
      /\ UNCHANGED <<pcur, pd_state, xflag, xfwait>>

WritePuts_overfills ==
  LET q == xq[Mine]
  IN  /\ at[pcur] = "write"
      /\ q.cnt <= q.ndep
      /\ xq' = [xq EXCEPT ![Mine].buf[q.in] = call[pcur].msg,
                          ![Mine].in = Advance(q, q.in), ![Mine].cnt = @ + 1]
      /\ waits' = pwake(Awake, Wait("QRD", Mine))
      /\ Return("ok")
      /\ UNCHANGED <<pcur, pd_state, xflag, xfwait, last>>

WritePuts ==
  LET q == xq[Mine]
  IN  /\ at[pcur] = "write"
      /\ q.cnt < q.ndep
      /\ xq' = [xq EXCEPT ![Mine].buf[q.in] = call[pcur].msg,
                          ![Mine].in = Advance(q, q.in), ![Mine].cnt = @ + 1]
      /\ waits' = pwake(Awake, Wait("QRD", Mine))
      /\ Return("ok")
      /\ UNCHANGED <<pcur, pd_state, xflag, xfwait, last>>

(* The loop of xqread() or xqwrite() waits for the event why; w is the test *)
(* behind the wait.  Conditional calls never wait.                         *)
QueueBlocks(w, why) ==
  /\ IF call[pcur].cond
     THEN Return("fail") /\ UNCHANGED <<pcur, waits>>
     ELSE Park(Wait(why, Mine), w) \/ Refuse(Wait(why, Mine))
  /\ UNCHANGED <<pd_state, xflag, xfwait, xq, last>>

ReadBlocks ==
  at[pcur] = "read" /\ xq[Mine].cnt = 0 /\ QueueBlocks("readw", "QRD")

WriteBlocks ==
  at[pcur] = "write" /\ xq[Mine].cnt >= xq[Mine].ndep /\ QueueBlocks("writew", "QWR")

(* Back from the wait: the queue has been deleted, or the loop goes on.    *)
QueueBack(s, w) ==
  /\ at[pcur] = w
  /\ waits' = Awake
  /\ IF xq[Mine].used
     THEN at' = [at EXCEPT ![pcur] = s] /\ UNCHANGED <<call, ret>>
     ELSE Return("fail")
  /\ UNCHANGED <<pcur, pd_state, xflag, xfwait, xq, last>>

-----------------------------------------------------------------------------
(* The rest of a program's life: see module Proc.                          *)

Preempt ==
  /\ InUser
  /\ pnlive >= 2
  /\ \E E \in Polled : /\ waits' = pwscan(waits, E)
                       /\ pcur' = pnext(pwscan(waits, E), pcur)
  /\ UNCHANGED <<pd_state, at, call, ret, xflag, xfwait, xq, last>>

Console ==              \* a console read that finds nothing
  /\ InUser \/ at[pcur] = "away"
  /\ Park(Wait("CON", 0), "away")
  /\ UNCHANGED <<pd_state, xflag, xfwait, xq, last>>

ConsoleDone ==
  /\ at[pcur] = "away"
  /\ waits' = Awake
  /\ Return("ok")
  /\ UNCHANGED <<pcur, pd_state, xflag, xfwait, xq, last>>

Launch(p) ==
  /\ InUser
  /\ pd_state[p] = "FREE"
  /\ pd_state' = [pd_state EXCEPT ![p] = "LIVE"]
  /\ UNCHANGED <<pcur, waits, at, call, ret, xflag, xfwait, xq, last>>

Exit ==
  /\ InUser
  /\ pnlive >= 2 /\ pcur # 0
  /\ pd_state' = [pd_state EXCEPT ![pcur] = "FREE"]
  /\ pcur' = pnextany(pcur)
  /\ UNCHANGED <<waits, at, call, ret, xflag, xfwait, xq, last>>

FlagCalls == FlagTaken \/ FlagBlocks \/ \E n \in Flags : (FlagWait(n) \/ FlagSet(n))

QueueCalls ==
  \/ \E n \in Names : xqdelf(n) \/ \E d \in 1 .. DEPTH : xqmakef(n, d)
  \/ \E i \in Queues, c \in BOOLEAN :
        \/ QueueCall("read", i, c, NoCall.msg)
        \/ \E m \in Msgs : QueueCall("write", i, c, m)
  \/ ReadTakes \/ WritePuts \/ ReadBlocks \/ WriteBlocks
  \/ QueueBack("read", "readw") \/ QueueBack("write", "writew")

Next == \/ FlagCalls \/ QueueCalls \/ Preempt \/ Console \/ ConsoleDone \/ Exit
        \/ \E p \in Procs : Launch(p)

Spec == Init /\ [][Next]_vars

-----------------------------------------------------------------------------
(* Properties.                                                             *)

(* No lost wake-up: a process out of the rotation waits for something that *)
(* has not happened yet -- its flag is clear, its queue empty or full --   *)
(* and whose queue is still there.                                         *)
NoLostWakeup ==
  \A p \in Procs \ {pcur} :
    LET w == waits.on[p]
    IN  /\ w.why = "FLAG" => xflag[w.obj] = "CLEAR" /\ xfwait[w.obj] = 1
        /\ w.why = "QRD" => xq[w.obj].used /\ xq[w.obj].cnt = 0
        /\ w.why = "QWR" => xq[w.obj].used /\ xq[w.obj].cnt = xq[w.obj].ndep

(* A flag has one waiter, and xfwait says so: no refusal, hand-over or     *)
(* refused wait leaves it set without a waiter or clear with one.          *)
OneFlagWaiter ==
  \A n \in Flags :
    xfwait[n] = Cardinality({p \in Live : at[p] = "flag" /\ call[p].obj = n})

(* A process blocked in 137 or 139 on a queue that is deleted fails: it    *)
(* never completes on another queue that took the slot meanwhile.          *)
SameQueue ==
  [][ReadTakes \/ WritePuts => xq[Mine].made = call[pcur].made]_vars

-----------------------------------------------------------------------------
(* What the ring of q_buf, q_in, q_out and q_cnt stands for: a bounded     *)
(* first-in first-out queue, module FifoQueues.                            *)

Cell(q, k) == LET c == q.out + k IN IF c < q.ndep THEN c ELSE c - q.ndep

Contents(q) == [k \in 1 .. q.cnt |-> q.buf[Cell(q, k - 1)]]

Fifo == INSTANCE FifoQueues WITH
          Ids <- Queues, Messages <- Msgs, MaxLen <- DEPTH,
          queue <- [i \in Queues |-> IF xq[i].used THEN Contents(xq[i]) ELSE <<>>],
          bound <- [i \in Queues |-> IF xq[i].used THEN xq[i].ndep ELSE 0],
          taken <- last

(* The rings implement it: every message written is delivered once, in     *)
(* order, to one reader, whatever waits, wake-ups and refusals go on.      *)
RingsAreFifo == Fifo!Spec

=============================================================================
