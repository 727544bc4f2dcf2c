-------------------------------- MODULE Proc --------------------------------
(***************************************************************************)
(* The process kernel of the BDOS (src/bdos/proc.c): process creation and  *)
(* death, the page swap that gives each process the one TPA segment in     *)
(* turn, the recursive file-system lock, console ownership, and the        *)
(* dispatcher that joins them.                                             *)
(*                                                                         *)
(* A process is in user mode or inside one BDOS call.  `ctx' says which    *)
(* call and `at' how far it has got:                                       *)
(*    at = "run"    executing, or parked at the gate when ctx = "user"     *)
(*    at = "lock"   in the loop of plock()                                 *)
(*    at = "catt"   in the loop of pconatt()                               *)
(*    at = "getc"   in getch(), about to wait for a character              *)
(*    at = "gotc"   in getch(), back from that wait                        *)
(*    at = "tick"   in the loop of xdelay()                                *)
(* The kernel never preempts a process inside the BDOS (trap.s ttick_      *)
(* wants an empty supervisor stack), so the running process may be cut     *)
(* into steps anywhere: only pcur moves until it parks.  The outside world *)
(* moves between any two steps: characters arrive, deadlines pass.         *)
(*                                                                         *)
(* The initial state is the one padopt() makes: process 0 is the TPA and   *)
(* the only live process.                                                  *)
(***************************************************************************)
EXTENDS Sched, PagePool

CONSTANTS NCON,         \* bconcnt(): the machine's consoles
          Calls,        \* the calls a run lets programs make, see CallNames
          Answers,      \* what an operator may answer at an error prompt
          LoadAnswers,  \* the same, while pcrgen is loading a child
          MaxDepth      \* bound: nesting of LOCK inside one BDOS call

ASSUME NCONAssumption == NCON \in Nat \ {0}
ASSUME AnswersAssumption == /\ Answers \subseteq {"retry", "abort"}
                            /\ LoadAnswers \subseteq {"retry", "abort"}
ASSUME MaxDepthAssumption == MaxDepth \in Nat \ {0}

Cons == 0 .. NCON - 1

CallNames ==
  {"launch", "session",         \* fn 144, fn 142
   "fs", "error", "loaderror",  \* disk calls; disk errors that ask the operator
   "read", "attach", "assign",  \* console input; XDOS 146-147; XDOS 148-149
   "delay",                     \* XDOS 141
   "memory", "anyfree",         \* XDOS 128-130; freeing what one does not hold
   "debugger"}                  \* BIOS 18 for a stock program

ASSUME CallsAssumption == Calls \subseteq CallNames

VARIABLES at, ctx,      \* where each process is, see above
          arg,          \* the console a pconatt() in progress was called with
          job,          \* what a pcrgen() in progress has claimed
          lk,           \* lkown, lkdep
          pnoyld,       \* no yielding: the descriptors do not describe the machine
          pool,         \* the segment pool
          pd_seg,       \* slot parking the image, 0 while it is the TPA
          pd_con, pd_chome, pd_catt, pd_sess,
          seglist,      \* segments each program was given by 128/129 and keeps
          pd_mrtseg,    \* the debugger's segment, 0 when none
          image,        \* what each physical page holds (history)
          input,        \* consoles with a character waiting
          due           \* processes whose xdelay() deadline has passed

schedVars == <<pcur, pd_state, waits>>
callVars  == <<at, ctx, arg, job, due>>
lockVars  == <<lk, pnoyld>>
pageVars  == <<pool, pd_seg, seglist, pd_mrtseg, image>>
conVars   == <<pd_con, pd_chome, pd_catt, pd_sess>>
vars == <<schedVars, callVars, lockVars, pageVars, conVars, input>>

NoJob == [kid |-> -1, seg |-> 0, con |-> -1, sess |-> FALSE]

Ctxs  == {"user", "xdos", "conin", "fs", "load"}
Sites == {"run", "lock", "catt", "getc", "gotc", "tick"}

(* What a page can hold: nothing that matters, a process's TPA image, or   *)
(* the data a program keeps in a segment it asked for.                     *)
Nothing == <<"none", 0>>
Tpa(p)  == <<"tpa", p>>
Data(p) == <<"seg", p>>

Init ==
  /\ pcur = 0
  /\ pd_state = [p \in Procs |-> IF p = 0 THEN "LIVE" ELSE "FREE"]
  /\ waits = [on |-> [p \in Procs |-> Run], count |-> 0]
  /\ at = [p \in Procs |-> "run"]
  /\ ctx = [p \in Procs |-> "user"]
  /\ arg = [p \in Procs |-> 0]
  /\ job = [p \in Procs |-> NoJob]
  /\ due = {}
  /\ lk = [own |-> 0, dep |-> 0]
  /\ pnoyld = FALSE
  /\ pool = pginit
  /\ pd_seg = [p \in Procs |-> 0]
  /\ seglist = [p \in Procs |-> {}]
  /\ pd_mrtseg = [p \in Procs |-> 0]
  /\ image = [g \in Pages |-> IF g = 0 THEN Tpa(0) ELSE Nothing]
  /\ pd_con = [p \in Procs |-> 0]
  /\ pd_chome = [p \in Procs |-> 0]
  /\ pd_catt = [p \in Procs |-> {}]
  /\ pd_sess = [p \in Procs |-> FALSE]
  /\ input = {}

-----------------------------------------------------------------------------
(* The dispatcher.                                                         *)

concur == pd_con[pcur]

Events_without_ticks == {Wait("CON", c) : c \in input}

(* The wait conditions that hold now, for pwscan().                        *)
Events == {Wait("CON", c) : c \in input} \cup {Wait("TICK", p) : p \in due}

InUser == ctx[pcur] = "user" /\ at[pcur] = "run"

Inside(c) == ctx[pcur] = c /\ at[pcur] = "run"

Goto(c, s) == /\ ctx' = [ctx EXCEPT ![pcur] = c]
              /\ at' = [at EXCEPT ![pcur] = s]

(* pgone(): process n gets the machine, and the TPA if it is parked.       *)
Resume(n) ==
  /\ pcur' = n
  /\ IF n # pcur /\ pd_seg[n] # 0
     THEN /\ pool' = pgtpaswap(pool, pd_seg[n])
          /\ pd_seg' = [pd_seg EXCEPT ![pcur] = pd_seg[n], ![n] = 0]
     ELSE UNCHANGED <<pool, pd_seg>>

(* pwait(): block, sweep, give the machine to the next runnable process.   *)
(* When there is none the wait is over at once and pcur goes on.           *)
pwait(w) ==
  LET x == pblock(waits, pcur, w)
      y == IF pnlive < 2 \/ pnoyld THEN x ELSE pwscan(x, Events)
      n == IF pnlive < 2 \/ pnoyld THEN pcur ELSE pnext(y, pcur)
  IN  /\ waits' = IF n = pcur THEN punblk(y, pcur) ELSE y
      /\ Resume(n)

(* The wait list as the running process finds it once pwait() returns.     *)
Awake == punblk(waits, pcur)

(* pdisp(): the timer found pcur in user mode with its slice spent.        *)
Preempt ==
  /\ InUser
  /\ pnlive >= 2
  /\ LET y == pwscan(waits, Events)
     IN  waits' = y /\ Resume(pnext(y, pcur))
  /\ UNCHANGED <<pd_state, callVars, lockVars, conVars, seglist, pd_mrtseg,
                 image, input>>

-----------------------------------------------------------------------------
(* The file-system lock.                                                   *)

FsCall ==               \* a BDOS call reaches an outermost LOCK
  /\ "fs" \in Calls
  /\ InUser
  /\ Goto("fs", "lock")
  /\ UNCHANGED <<schedVars, arg, job, due, lockVars, pageVars, conVars, input>>

LockFree == lk.dep = 0 \/ lk.own = pcur \/ pnlive < 2

plock == lk' = [own |-> pcur, dep |-> lk.dep + 1]

punlock_flat(x) ==
  /\ lk' = [own |-> -1, dep |-> 0]
  /\ waits' = pwake(x, Wait("LOCK", 0))

punlock(x) ==           \* the lock and the wait list after it
  IF lk.dep <= 1
  THEN lk' = [own |-> -1, dep |-> 0] /\ waits' = pwake(x, Wait("LOCK", 0))
  ELSE lk' = [lk EXCEPT !.dep = @ - 1] /\ waits' = x

LockWait ==             \* one trip round the loop of plock()
  /\ at[pcur] = "lock"
  /\ ~ LockFree
  /\ pwait(Wait("LOCK", 0))
  /\ UNCHANGED <<pd_state, callVars, lockVars, conVars, seglist, pd_mrtseg,
                 image, input>>

FsAcquire ==
  /\ ctx[pcur] = "fs" /\ at[pcur] = "lock"
  /\ LockFree
  /\ plock
  /\ Goto("fs", "run")
  /\ waits' = Awake
  /\ UNCHANGED <<pcur, pd_state, arg, job, due, pnoyld, pageVars, conVars,
                 input>>

FsNest ==               \* a LOCK inside a locked region
  /\ Inside("fs") \/ Inside("load")
  /\ lk.dep < MaxDepth
  /\ plock
  /\ UNCHANGED <<schedVars, callVars, pnoyld, pageVars, conVars, input>>

FsUnnest ==             \* the matching UNLOCK
  /\ Inside("fs") \/ Inside("load")
  /\ lk.dep > 1
  /\ punlock(waits)
  /\ UNCHANGED <<pcur, pd_state, callVars, pnoyld, pageVars, conVars, input>>

FsReturn ==             \* the outermost UNLOCK, and the call returns
  /\ Inside("fs")
  /\ lk.dep = 1
  /\ punlock(waits)
  /\ Goto("user", "run")
  /\ UNCHANGED <<pcur, pd_state, arg, job, due, pnoyld, pageVars, conVars,
                 input>>

(* A disk error inside the region: error() asks the operator.              *)
FsError ==
  /\ \/ Inside("fs") /\ "error" \in Calls
     \/ Inside("load") /\ "loaderror" \in Calls
  /\ Goto(ctx[pcur], "catt")
  /\ arg' = [arg EXCEPT ![pcur] = concur]
  /\ UNCHANGED <<schedVars, job, due, lockVars, pageVars, conVars, input>>

-----------------------------------------------------------------------------
(* Console ownership.                                                      *)

Owners_running(c) == {p \in Live : c \in pd_catt[p] /\ waits.on[p] = Run}

Owners(c) == {p \in Live : c \in pd_catt[p]}

Attach ==               \* XDOS 146
  /\ "attach" \in Calls
  /\ InUser
  /\ Goto("xdos", "catt")
  /\ arg' = [arg EXCEPT ![pcur] = concur]
  /\ UNCHANGED <<schedVars, job, due, lockVars, pageVars, conVars, input>>

ReadConsole ==          \* a call that reads a character
  /\ "read" \in Calls
  /\ InUser
  /\ Goto("conin", "catt")
  /\ arg' = [arg EXCEPT ![pcur] = concur]
  /\ UNCHANGED <<schedVars, job, due, lockVars, pageVars, conVars, input>>

Mine(c) == c \in pd_catt[pcur] \/ Owners(c) = {}

ConTake ==              \* pconatt() succeeds
  /\ at[pcur] = "catt"
  /\ Mine(arg[pcur])
  /\ pd_catt' = [pd_catt EXCEPT ![pcur] = @ \cup {arg[pcur]}]
  /\ waits' = Awake
  /\ IF ctx[pcur] = "xdos" THEN Goto("user", "run") ELSE Goto(ctx[pcur], "getc")
  /\ UNCHANGED <<pcur, pd_state, arg, job, due, lockVars, pageVars,
                 pd_con, pd_chome, pd_sess, input>>

ConWait ==              \* one trip round the loop of pconatt()
  /\ at[pcur] = "catt"
  /\ ~ Mine(arg[pcur])
  /\ pwait(Wait("CATT", arg[pcur]))
  /\ UNCHANGED <<pd_state, callVars, lockVars, conVars, seglist, pd_mrtseg,
                 image, input>>

(* pconhand(), for each console of S at once: a waiter waits for one       *)
(* console only, so the hand-overs do not meet.                            *)
Seekers(x, c) == {p \in Live : x.on[p] = Wait("CATT", c)}

Heir(x, c) == RoundRobin(Seekers(x, c), pcur)

Wanted(x, S) == {c \in S : Seekers(x, c) # {}}

pconhand(x, S, catt) ==
  /\ waits' = Released(x, {Heir(x, c) : c \in Wanted(x, S)})
  /\ pd_catt' = [p \in Procs |->
                   catt[p] \cup {c \in Wanted(x, S) : Heir(x, c) = p}]

Detach ==               \* XDOS 147
  /\ InUser
  /\ concur \in pd_catt[pcur]
  /\ pconhand(waits, {concur}, [pd_catt EXCEPT ![pcur] = @ \ {concur}])
  /\ UNCHANGED <<pcur, pd_state, callVars, lockVars, pageVars, pd_con,
                 pd_chome, pd_sess, input>>

(* XDOS 148 for oneself and 149 for any process by name.                   *)
Assign(p, c) ==
  /\ "assign" \in Calls
  /\ InUser
  /\ p \in Live
  /\ pd_con' = [pd_con EXCEPT ![p] = c]
  /\ UNCHANGED <<schedVars, callVars, lockVars, pageVars, pd_chome, pd_catt,
                 pd_sess, input>>

GetcWait ==             \* getch(): nothing buffered, wait for this console
  /\ at[pcur] = "getc"
  /\ pnlive >= 2
  /\ pwait(Wait("CON", concur))
  /\ at' = [at EXCEPT ![pcur] = "gotc"]
  /\ UNCHANGED <<pd_state, ctx, arg, job, due, lockVars, conVars, seglist,
                 pd_mrtseg, image, input>>

GetcAgain ==            \* woken, and no character after all
  /\ at[pcur] = "gotc"
  /\ concur \notin input
  /\ waits' = Awake
  /\ at' = [at EXCEPT ![pcur] = "getc"]
  /\ UNCHANGED <<pcur, pd_state, ctx, arg, job, due, lockVars, pageVars,
                 conVars, input>>

(* getch() has a character: after the wait, or, with nobody else alive,    *)
(* out of the BIOS, which waits for it itself.                             *)
GetcTakes ==
  /\ at[pcur] = "gotc" \/ (at[pcur] = "getc" /\ pnlive < 2)
  /\ concur \in input
  /\ input' = input \ {concur}

GetcReturn ==           \* the call returns the character
  /\ ctx[pcur] = "conin"
  /\ GetcTakes
  /\ waits' = Awake
  /\ Goto("user", "run")
  /\ UNCHANGED <<pcur, pd_state, arg, job, due, lockVars, pageVars, conVars>>

Replies == IF ctx[pcur] = "load" THEN LoadAnswers ELSE Answers

Retry ==                \* the operator answers the prompt: go on
  /\ ctx[pcur] \in {"fs", "load"}
  /\ "retry" \in Replies
  /\ GetcTakes
  /\ waits' = Awake
  /\ Goto(ctx[pcur], "run")
  /\ UNCHANGED <<pcur, pd_state, arg, job, due, lockVars, pageVars, conVars>>

-----------------------------------------------------------------------------
(* Timed waits: XDOS 141.                                                  *)

Delay ==
  /\ "delay" \in Calls
  /\ InUser
  /\ Goto("xdos", "tick")
  /\ due' = due \ {pcur}
  /\ UNCHANGED <<schedVars, arg, job, lockVars, pageVars, conVars, input>>

DelayWait ==
  /\ at[pcur] = "tick"
  /\ pcur \notin due
  /\ pwait(Wait("TICK", pcur))
  /\ UNCHANGED <<pd_state, callVars, lockVars, conVars, seglist, pd_mrtseg,
                 image, input>>

DelayEnd ==
  /\ ctx[pcur] = "xdos" /\ at[pcur] = "tick"
  /\ pcur \in due
  /\ due' = due \ {pcur}
  /\ waits' = Awake
  /\ Goto("user", "run")
  /\ UNCHANGED <<pcur, pd_state, arg, job, lockVars, pageVars, conVars, input>>

-----------------------------------------------------------------------------
(* Segments programs ask for: XDOS 128-130 and BIOS 25, and slot 4 of the  *)
(* memory region table (pmrtseg).                                          *)

GetSegment ==
  /\ "memory" \in Calls
  /\ InUser
  /\ LET s == pgfirst(pool)
     IN  /\ s # 0
         /\ pool' = pgalloc(pool, pcur)
         /\ seglist' = [seglist EXCEPT ![pcur] = @ \cup {s}]
         /\ image' = [image EXCEPT ![pool.pg[s]] = Data(pcur)]
  /\ UNCHANGED <<schedVars, callVars, lockVars, pd_seg, pd_mrtseg, conVars,
                 input>>

(* A program frees what it was given; with "anyfree" also what it was      *)
(* given once, or never.                                                   *)
PutSegment(s) ==
  /\ "memory" \in Calls
  /\ InUser
  /\ s \in seglist[pcur] \/ "anyfree" \in Calls
  /\ pool' = pgfree(pool, s)
  /\ seglist' = [seglist EXCEPT ![pcur] = @ \ {s}]
  /\ UNCHANGED <<schedVars, callVars, lockVars, pd_seg, pd_mrtseg, image,
                 conVars, input>>

pmrtseg ==
  /\ "debugger" \in Calls
  /\ InUser
  /\ pd_mrtseg[pcur] = 0
  /\ LET s == pgfirst(pool)
     IN  /\ s # 0
         /\ pool' = pgalloc(pool, pcur)
         /\ pd_mrtseg' = [pd_mrtseg EXCEPT ![pcur] = s]
         /\ image' = [image EXCEPT ![pool.pg[s]] = Data(pcur)]
  /\ UNCHANGED <<schedVars, callVars, lockVars, pd_seg, seglist, conVars, input>>

-----------------------------------------------------------------------------
(* Creation: fn 144 (console inherited) and fn 142 (a session on console   *)
(* con).  pcrgen() claims a descriptor and a page, takes the lock -- where *)
(* it may be parked -- and loads the child with its page mapped as the TPA.*)
(* A refusal for want of a descriptor or a page changes nothing.           *)

Unclaimed_by_the_living == {p \in Procs : pd_state[p] # "LIVE"}

Unclaimed == {p \in Procs : pd_state[p] = "FREE"}

FreeSlot == CHOOSE p \in Unclaimed : \A q \in Unclaimed : p <= q

Claim(con, sess) ==
  /\ InUser
  /\ Unclaimed # {}
  /\ pgfirst(pool) # 0
  /\ pd_state' = [pd_state EXCEPT ![FreeSlot] = "RSVD"]
  /\ pool' = pgalloc(pool, pcur)
  /\ job' = [job EXCEPT ![pcur] = [kid |-> FreeSlot, seg |-> pgfirst(pool),
                                   con |-> con, sess |-> sess]]
  /\ Goto("load", "lock")
  /\ UNCHANGED <<pcur, waits, arg, due, lockVars, pd_seg, seglist, pd_mrtseg,
                 image, conVars, input>>

pcreate == "launch" \in Calls /\ Claim(-1, FALSE)

psession(con) == "session" \in Calls /\ con \in Cons \ {0} /\ Claim(con, TRUE)

LoadBegin ==
  /\ ctx[pcur] = "load" /\ at[pcur] = "lock"
  /\ LockFree
  /\ plock
  /\ waits' = Awake
  /\ pnoyld' = TRUE
  /\ pool' = pgtpaswap(pool, job[pcur].seg)
  /\ pd_seg' = [pd_seg EXCEPT ![pcur] = job[pcur].seg]
  /\ image' = [image EXCEPT ![pool'.tpa] = Tpa(job[pcur].kid)]
  /\ Goto("load", "run")
  /\ UNCHANGED <<pcur, pd_state, arg, job, due, seglist, pd_mrtseg, conVars,
                 input>>

Unload_stays_off(newpool, x) ==
  /\ Inside("load")
  /\ lk.dep = 1
  /\ UNCHANGED pnoyld
  /\ pool' = newpool
  /\ punlock(x)
  /\ job' = [job EXCEPT ![pcur] = NoJob]

(* The child's page goes back behind its slot and the lock is let go.      *)
Unload(newpool, x) ==
  /\ Inside("load")
  /\ lk.dep = 1
  /\ pnoyld' = FALSE
  /\ pool' = newpool
  /\ punlock(x)
  /\ job' = [job EXCEPT ![pcur] = NoJob]

Inherited_never(con) == con

Inherited(con) == IF con < 0 THEN pd_con[pcur] ELSE con

LoadOk ==
  LET kid == job[pcur].kid
      seg == job[pcur].seg
      con == Inherited(job[pcur].con)
  IN  /\ Unload(pghold(pgtpaswap(pool, seg), seg, TRUE),
                [waits EXCEPT !.on[kid] = Run])
      /\ pd_seg' = [pd_seg EXCEPT ![pcur] = 0, ![kid] = seg]
      /\ pd_state' = [pd_state EXCEPT ![kid] = "LIVE"]
      /\ pd_con' = [pd_con EXCEPT ![kid] = con]
      /\ pd_chome' = [pd_chome EXCEPT ![kid] = con]
      /\ pd_sess' = [pd_sess EXCEPT ![kid] = job[pcur].sess]
      /\ ctx' = [ctx EXCEPT ![pcur] = "user", ![kid] = "user"]
      /\ at' = [at EXCEPT ![pcur] = "run", ![kid] = "run"]
      /\ UNCHANGED <<pcur, arg, due, seglist, pd_mrtseg, image, pd_catt, input>>

LoadFail ==             \* no such file, a bad header, a second split program
  /\ Unload(pgfree(pgtpaswap(pool, job[pcur].seg), job[pcur].seg), waits)
  /\ pd_seg' = [pd_seg EXCEPT ![pcur] = 0]
  /\ pd_state' = [pd_state EXCEPT ![job[pcur].kid] = "FREE"]
  /\ Goto("user", "run")
  /\ UNCHANGED <<pcur, arg, due, seglist, pd_mrtseg, image, conVars, input>>

-----------------------------------------------------------------------------
(* The end of a program: warm boot, procdead() first.                      *)

(* plkdrop(), pmrtrel() and pconrel(): what every ending gives back.       *)
Dropped_silently == Awake

Dropped == IF lk.dep # 0 /\ lk.own = pcur
           THEN pwake(Awake, Wait("LOCK", 0)) ELSE Awake

Stays == pnlive < 2 \/ pcur = 0 \/ pd_sess[pcur]

Surrendered_by_who_stays == IF Stays THEN pd_catt[pcur] \ {pd_chome[pcur]} ELSE {}

(* pconrel() keeps the home console, whether its owner stays or dies.      *)
Surrendered == pd_catt[pcur] \ {pd_chome[pcur]}

GiveBack ==
  /\ lk' = IF lk.dep # 0 /\ lk.own = pcur THEN [own |-> -1, dep |-> 0] ELSE lk
  /\ pd_mrtseg' = [pd_mrtseg EXCEPT ![pcur] = 0]
  /\ seglist' = [seglist EXCEPT ![pcur] = {}]
  /\ pconhand(Dropped, Surrendered, [pd_catt EXCEPT ![pcur] = @ \ Surrendered])
  /\ job' = [job EXCEPT ![pcur] = NoJob]
  /\ due' = due \ {pcur}
  /\ Goto("user", "run")
  /\ UNCHANGED <<arg, pnoyld, pd_con, pd_chome, pd_sess>>

(* Process 0 and every session: the CCP is loaded again, over its own TPA. *)
Reload ==
  /\ Stays
  /\ GiveBack
  /\ pool' = pgrelall(pgfree(pool, pd_mrtseg[pcur]), pcur)
  /\ image' = [image EXCEPT ![pool'.tpa] = Tpa(pcur)]
  /\ UNCHANGED <<pcur, pd_state, pd_seg>>

(* Any other process dies: its page leaves the TPA with the successor's    *)
(* arrival and goes back to the pool.                                      *)
Die ==
  LET nxt == pnextany(pcur)
      seg == pd_seg[nxt]
      rel == pgrelproc(pgfree(pool, pd_mrtseg[pcur]), pcur)
  IN  /\ ~ Stays
      /\ GiveBack
      /\ pool' = pgfree(pghold(pgtpaswap(rel, seg), seg, FALSE), seg)
      /\ pd_seg' = [pd_seg EXCEPT ![nxt] = 0, ![pcur] = 0]
      /\ pd_state' = [pd_state EXCEPT ![pcur] = "FREE"]
      /\ pcur' = nxt
      /\ UNCHANGED image

WarmBoot == Reload \/ Die

Exit ==                 \* fn 0, or ^C
  /\ InUser
  /\ WarmBoot
  /\ UNCHANGED input

Abort ==                \* the operator gives the program up at a prompt
  /\ ctx[pcur] \in {"fs", "load"}
  /\ "abort" \in Replies
  /\ GetcTakes
  /\ WarmBoot

-----------------------------------------------------------------------------
(* The world outside.                                                      *)

Key(c) ==
  /\ c \notin input
  /\ input' = input \cup {c}
  /\ UNCHANGED <<schedVars, callVars, lockVars, pageVars, conVars>>

Deadline(p) ==
  /\ at[p] = "tick" /\ p \notin due
  /\ due' = due \cup {p}
  /\ UNCHANGED <<schedVars, at, ctx, arg, job, lockVars, pageVars, conVars,
                 input>>

Lock == FsCall \/ LockWait \/ FsAcquire \/ FsNest \/ FsUnnest \/ FsReturn \/ FsError

Console == \/ Attach \/ Detach \/ ReadConsole \/ ConTake \/ ConWait
           \/ GetcWait \/ GetcAgain \/ GetcReturn \/ Retry
           \/ \E p \in Procs, c \in Cons : Assign(p, c)

Timed == Delay \/ DelayWait \/ DelayEnd

Memory == GetSegment \/ pmrtseg \/ \E s \in Slots : PutSegment(s)

Life == \/ pcreate \/ LoadBegin \/ LoadOk \/ LoadFail \/ Exit \/ Abort
        \/ \E c \in Cons : psession(c)

Running == Preempt \/ Lock \/ Console \/ Timed \/ Memory \/ Life

World == (\E c \in Cons : Key(c)) \/ (\E p \in Procs : Deadline(p))

Next == Running \/ World

Spec == Init /\ [][Next]_vars

-----------------------------------------------------------------------------
(* Properties.                                                             *)

Waits == {Run, Wait("LOCK", 0)}
         \cup {Wait("CATT", c) : c \in Cons} \cup {Wait("CON", c) : c \in Cons}
         \cup {Wait("TICK", p) : p \in Procs}

Jobs == {NoJob} \cup [kid : Procs, seg : Slots, con : {-1} \cup Cons, sess : BOOLEAN]

Images == {Nothing} \cup {Tpa(p) : p \in Procs} \cup {Data(p) : p \in Procs}

SchedTypes ==
  /\ pcur \in Procs
  /\ pd_state \in [Procs -> States]
  /\ waits \in WaitLists(Waits)

CallTypes ==
  /\ at \in [Procs -> Sites]
  /\ ctx \in [Procs -> Ctxs]
  /\ arg \in [Procs -> Cons]
  /\ job \in [Procs -> Jobs]
  /\ due \in SUBSET Procs

LockTypes ==
  /\ lk \in [own : Procs \cup {-1}, dep : Nat]
  /\ pnoyld \in BOOLEAN

PageTypes ==
  /\ pool \in Pools(NP)
  /\ pd_seg \in [Procs -> {0} \cup Slots]
  /\ seglist \in [Procs -> SUBSET Slots]
  /\ pd_mrtseg \in [Procs -> {0} \cup Slots]
  /\ image \in [Pages -> Images]

ConTypes ==
  /\ pd_con \in [Procs -> Cons]
  /\ pd_chome \in [Procs -> Cons]
  /\ pd_catt \in [Procs -> SUBSET Cons]
  /\ pd_sess \in [Procs -> BOOLEAN]
  /\ input \in SUBSET Cons

(* The types of the variables.  That a slot handed to a creation, a        *)
(* console handed over or a successor picked is one at all rests on the    *)
(* kernel's scans answering a member of what they scan.                    *)
TypeOK == SchedTypes /\ CallTypes /\ LockTypes /\ PageTypes /\ ConTypes

(* pnwait is exactly the number of blocked processes, and only live ones   *)
(* are blocked.  pwake() and pwscan() return at once when the counter is   *)
(* zero, so one decrement too many anywhere -- a hand-over, a death, a     *)
(* waiter that pnextany() resumed -- would leave a waiter nobody wakes.    *)
WaitCount ==
  /\ Blocked(waits) \subseteq Live
  /\ waits.count = Cardinality(Blocked(waits))

InRegion(p) == ctx[p] \in {"fs", "load"} /\ at[p] # "lock"

(* The file-system lock excludes: whoever is inside a locked region is its *)
(* one owner, and a held lock has a live owner inside a region -- also     *)
(* after that owner was blocked at a prompt, or given up by the operator.  *)
LockExcludes ==
  /\ \A p \in Procs : InRegion(p) => lk.dep > 0 /\ lk.own = p
  /\ lk.dep > 0 => lk.own \in Live /\ InRegion(lk.own)

(* No lost wake-up: a process sits out on PW_LOCK only while another one   *)
(* holds the lock.                                                         *)
LockWaiters ==
  \A p \in Procs : waits.on[p] = Wait("LOCK", 0) => lk.dep > 0 /\ lk.own # p

(* A creation has a reserved descriptor of its own in hand.                *)
ClaimsHeld ==
  /\ \A p \in Procs : ctx[p] = "load" => /\ job[p].kid \in Procs
                                         /\ pd_state[job[p].kid] = "RSVD"
  /\ \A p, q \in Procs :
        ctx[p] = "load" /\ ctx[q] = "load" /\ p # q => job[p].kid # job[q].kid

(* LockExcludes made inductive: the running process is live, a descriptor  *)
(* that is not live is in no call, and creations do not share descriptors, *)
(* so none of them resurrects a process that is inside a region.           *)
LockInv ==
  /\ pcur \in Live
  /\ \A p \in Procs \ Live : ctx[p] = "user"
  /\ ClaimsHeld
  /\ LockExcludes

Page(p) == IF pd_seg[p] = 0 THEN pool.tpa ELSE pool.pg[pd_seg[p]]

(* Every live process's 64 KB image is on the page its descriptor says,    *)
(* whatever was created, swapped, freed, restored or given to programs in  *)
(* the meantime; outside a load the running one alone is the TPA.          *)
ImagesIntact ==
  \A p \in Live : /\ image[Page(p)] = Tpa(p)
                  /\ pd_seg[p] = 0 <=> (p = pcur /\ ~ pnoyld)

(* A segment a program was given keeps its data until it gives it back or  *)
(* ends: no warm boot or death of another process takes it away.           *)
SegmentsKept ==
  \A p \in Live :
    \A s \in seglist[p] \cup ({pd_mrtseg[p]} \ {0}) :
      pool.own[s] = p + 1 /\ ~ pool.hld[s] /\ image[pool.pg[s]] = Data(p)

Uses(p) == {pd_seg[p], pd_mrtseg[p], job[p].seg} \cup seglist[p]

(* No slot leaks: an allocated slot parks a live process, belongs to a     *)
(* live program, or is in the hands of a creation in progress.             *)
PoolAccounted ==
  \A s \in Slots : pool.own[s] # 0 => \E p \in Live : s \in Uses(p)

(* Every reserved descriptor belongs to one creation in progress, so two   *)
(* creators never build in the same slot or on the same page.              *)
ClaimsDisjoint ==
  /\ \A p \in Procs : pd_state[p] = "RSVD" =>
        \E q \in Live : ctx[q] = "load" /\ job[q].kid = p
  /\ \A p, q \in Live :
        ctx[p] = "load" /\ ctx[q] = "load" /\ p # q =>
          job[p].kid # job[q].kid /\ job[p].seg # job[q].seg

(* Yielding is off only inside a load: a creation that ends by whatever    *)
(* road turns it on again.                                                 *)
NoyldOnlyInLoad == pnoyld => ctx[pcur] = "load" /\ at[pcur] # "lock"

(* A program that is no session keeps its home console through its death:  *)
(* pconrel() leaves the bit, and nobody is told.                           *)
LeftByTheDead(c) == \E q \in Procs \ Live : c \in pd_catt[q] /\ pd_chome[q] = c

(* A process sits out on a console only while another live process owns    *)
(* it, or one has died at home there; any other console of a program that  *)
(* detaches, ends or dies is not lost, pconhand() passes it on.            *)
SeekersHaveOwner ==
  \A p \in Live \ {pcur} :
    waits.on[p].why = "CATT" => LET c == waits.on[p].obj
                                IN  Owners(c) \ {p} # {} \/ LeftByTheDead(c)

(* At most one live process owns a console.                                *)
OneOwner == \A c \in Cons : Cardinality(Owners(c)) <= 1

(* The two together: pconhand() passes a console on to one who waits for   *)
(* it, and to one only.                                                    *)
ConsolesOwned == SeekersHaveOwner /\ OneOwner

(* No creation builds in a descriptor whose last user died owning its home *)
(* console.  It may happen, and the new process owns that console, too:    *)
(* pcrgen() leaves pd_catt as it finds it.                                 *)
CleanDescriptors ==
  \A p \in Live : ctx[p] = "load" => pd_catt[job[p].kid] = {}

(* Whoever holds the file-system lock at a prompt can be reached from the  *)
(* keyboard: it does not queue for a console whose only owners queue for   *)
(* the lock it holds.                                                      *)
LockOwnerReachable ==
  ~ \E q \in Live :
      /\ lk.dep > 0 /\ lk.own = q
      /\ waits.on[q].why = "CATT"
      /\ Owners(waits.on[q].obj) # {}
      /\ \A o \in Owners(waits.on[q].obj) : waits.on[o] = Wait("LOCK", 0)

-----------------------------------------------------------------------------
(* Liveness, under the fairness of module MCLive.                          *)

(* Round robin starves nobody: a process that is in the rotation runs.     *)
ReadyRuns ==
  \A p \in Procs : (pd_state[p] = "LIVE" /\ waits.on[p] = Run) ~> (pcur = p)

(* A delay ends: there is no tick interrupt that wakes anybody, so a       *)
(* process whose deadline has passed depends on some other process coming  *)
(* round to the sweep of pwscan(), or on being alone in the loop.          *)
DelayEnds ==
  \A p \in Procs : (at[p] = "tick" /\ p \in due) ~> (at[p] # "tick")

=============================================================================
