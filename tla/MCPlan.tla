------------------------------- MODULE MCPlan -------------------------------
(* Three plans for three processes, one in each behaviour: everybody takes  *)
(* slots of the pool; sessions read and their consoles are reassigned; and  *)
(* background programs, which die, claim consoles by attach.  In the last   *)
(* two process 0 creates the others, and in the last it starts no program   *)
(* in a descriptor whose last user died owning a console, see               *)
(* CleanDescriptors.                                                        *)
EXTENDS Proc

VARIABLE plan
planVars == <<plan, vars>>

Claims == Attach \/ Detach \/ ConTake \/ ConWait \/ \E c \in Cons : Assign(pcur, c)
Loads == LoadBegin \/ LoadOk \/ LoadFail

PlanInit == Init /\ plan \in {"memory", "sessions", "programs"}
PlanNext ==
  \/ plan = "memory" /\ (Preempt \/ Lock \/ Memory \/ Life) /\ UNCHANGED plan
  \/ plan = "sessions" /\ (Preempt \/ Lock \/ Console) /\ UNCHANGED plan
  \/ plan = "sessions" /\ (Loads \/ Exit \/ Abort) /\ UNCHANGED plan
  \/ plan = "sessions" /\ pcur = 0 /\ (\E c \in Cons : psession(c)) /\ UNCHANGED plan
  \/ plan = "programs" /\ (Preempt \/ LockWait \/ Claims \/ Loads \/ Exit) /\ UNCHANGED plan
  \/ plan = "programs" /\ pcur = 0 /\ pcreate /\ CleanDescriptors' /\ UNCHANGED plan
  \/ plan # "programs" /\ World /\ UNCHANGED plan
PlanSpec == PlanInit /\ [][PlanNext]_planVars
=============================================================================
