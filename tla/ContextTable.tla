---------------------------- MODULE ContextTable ----------------------------
(***************************************************************************)
(* The table of monitoring contexts and the spin lock around it            *)
(* (src/src/fpspy.c: find_monitoring_context, alloc_monitoring_context,    *)
(* free_monitoring_context).  A slot is free when its tid is 0.  Every     *)
(* memory access a second thread can observe is a step: taking the lock,   *)
(* testing a slot, writing a slot, releasing the lock.                     *)
(*                                                                         *)
(* A thread allocates a slot when it starts, looks itself up any number of *)
(* times, and frees the slot when it exits.  SIGALRM is not blocked while  *)
(* it does, and its handler looks the thread up too.                       *)
(***************************************************************************)
EXTENDS Integers

CONSTANTS
  Threads,   \* the threads that use the table
  NumSlots,  \* CONFIG_MAX_CONTEXTS
  Frees,     \* whether threads exit and free their slot
  Alarms,    \* whether a SIGALRM may arrive during a table operation
  MaxCalls   \* bound: operations a thread calls, its signal handler's included

ASSUME TableAssumption ==
  /\ NumSlots \in Nat \ {0}
  /\ Frees \in BOOLEAN /\ Alarms \in BOOLEAN
  /\ MaxCalls \in Nat
  /\ 0 \notin Threads

Slots == 1..NumSlots
NoTid == 0

VARIABLES
  context_lock,  \* whether the lock is taken
  tid,           \* slot -> the thread it holds, or NoTid
  pc,            \* thread -> its step within the operation, or "idle"
  op,            \* thread -> the operation
  i,             \* thread -> the loop index
  res,           \* thread -> the slot the operation will return, 0 for none
  owns,          \* thread -> the slot alloc_monitoring_context gave it
  saved,         \* thread -> the operation a SIGALRM has interrupted
  calls          \* thread -> operations called

vars == <<context_lock, tid, pc, op, i, res, owns, saved, calls>>

Ops == {"find", "alloc", "free"}
Critical == {"test", "claim", "clear", "release", "unlock"}
Steps == {"idle", "lock"} \cup Critical
Frames == [pc : Steps, op : Ops, i : Nat, res : {0} \cup Slots]
NoFrame == [pc |-> "idle", op |-> "find", i |-> 1, res |-> 0]

(* Every variable has its type; in particular the loop index of an         *)
(* operation stays within one of the table's bounds.                       *)
TypeOK ==
  /\ context_lock \in BOOLEAN
  /\ tid \in [Slots -> Threads \cup {NoTid}]
  /\ pc \in [Threads -> Steps]
  /\ op \in [Threads -> Ops]
  /\ i \in [Threads -> 1..(NumSlots + 1)]
  /\ res \in [Threads -> {0} \cup Slots]
  /\ owns \in [Threads -> {0} \cup Slots]
  /\ saved \in [Threads -> Frames]
  /\ calls \in [Threads -> Nat]

Init ==
  /\ context_lock = FALSE
  /\ tid = [s \in Slots |-> NoTid]
  /\ pc = [t \in Threads |-> "idle"]
  /\ op = [t \in Threads |-> "find"]
  /\ i = [t \in Threads |-> 1]
  /\ res = [t \in Threads |-> 0]
  /\ owns = [t \in Threads |-> 0]
  /\ saved = [t \in Threads |-> NoFrame]
  /\ calls = [t \in Threads |-> 0]

-----------------------------------------------------------------------------
(* A definition with an underscored suffix is a mutant of the one that     *)
(* follows it: a bug the properties must tell from the code.               *)
Goto(t, s) == pc' = [pc EXCEPT ![t] = s]

Begin_atZero(t, o) ==
  /\ op' = [op EXCEPT ![t] = o]
  /\ i' = [i EXCEPT ![t] = 0]
  /\ res' = [res EXCEPT ![t] = 0]
  /\ Goto(t, "lock")
Begin_skipsFirst(t, o) ==
  /\ op' = [op EXCEPT ![t] = o]
  /\ i' = [i EXCEPT ![t] = 2]
  /\ res' = [res EXCEPT ![t] = 0]
  /\ Goto(t, "lock")
Begin(t, o) ==
  /\ op' = [op EXCEPT ![t] = o]
  /\ i' = [i EXCEPT ![t] = 1]
  /\ res' = [res EXCEPT ![t] = 0]
  /\ Goto(t, "lock")

(* The thread's own calls: bringup_monitoring_context() allocates, the     *)
(* handlers look up, teardown_monitoring_context() frees.                  *)
Call(t, o) ==
  /\ pc[t] = "idle" /\ calls[t] < MaxCalls
  /\ CASE o = "alloc" -> owns[t] = 0 /\ calls[t] = 0
       [] o = "find"  -> calls[t] > 0
       [] o = "free"  -> Frees /\ owns[t] # 0
  /\ Begin(t, o)
  /\ calls' = [calls EXCEPT ![t] = @ + 1]
  /\ UNCHANGED <<context_lock, tid, owns, saved>>

(* A SIGALRM interrupts the operation and sigalrm_handler() calls          *)
(* find_monitoring_context(); one such signal at a time.  The process's    *)
(* timer is armed by the first thread that has a context.                  *)
Interrupt(t) ==
  /\ Alarms /\ \E u \in Threads : owns[u] # 0
  /\ pc[t] # "idle" /\ saved[t] = NoFrame /\ calls[t] < MaxCalls
  /\ saved' = [saved EXCEPT ![t] = [pc |-> pc[t], op |-> op[t], i |-> i[t], res |-> res[t]]]
  /\ Begin(t, "find")
  /\ calls' = [calls EXCEPT ![t] = @ + 1]
  /\ UNCHANGED <<context_lock, tid, owns>>

(* The compare-and-swap loop of lock_contexts() succeeds.                  *)
lock_contexts_plainStore(t) ==
  /\ pc[t] = "lock"
  /\ context_lock' = TRUE
  /\ Goto(t, "test")
  /\ UNCHANGED <<tid, op, i, res, owns, saved, calls>>
lock_contexts(t) ==
  /\ pc[t] = "lock" /\ ~context_lock
  /\ context_lock' = TRUE
  /\ Goto(t, "test")
  /\ UNCHANGED <<tid, op, i, res, owns, saved, calls>>

(* ... and spins while it does not.                                        *)
Spin(t) == pc[t] = "lock" /\ context_lock /\ UNCHANGED vars

(* One iteration of the loop: the slot looked for is found, or the next    *)
(* one is looked at, or the table is at its end.                           *)
Wanted_free(t) == NoTid
Wanted(t) == IF op[t] = "alloc" THEN NoTid ELSE t
Hit(o) == CASE o = "find" -> "unlock" [] o = "alloc" -> "claim" [] o = "free" -> "clear"
Test(t) ==
  /\ pc[t] = "test"
  /\ \/ /\ i[t] > NumSlots
        /\ Goto(t, "unlock")
        /\ UNCHANGED <<i, res>>
     \/ /\ i[t] \in Slots /\ tid[i[t]] = Wanted(t)
        /\ Goto(t, Hit(op[t]))
        /\ res' = [res EXCEPT ![t] = i[t]]
        /\ i' = i
     \/ /\ i[t] \in Slots /\ tid[i[t]] # Wanted(t)
        /\ i' = [i EXCEPT ![t] = @ + 1]
        /\ UNCHANGED <<pc, res>>
  /\ UNCHANGED <<context_lock, tid, op, owns, saved, calls>>

(* alloc_monitoring_context() takes the slot it found free.                *)
Claim(t) ==
  /\ pc[t] = "claim"
  /\ tid' = [tid EXCEPT ![i[t]] = t]
  /\ Goto(t, "unlock")
  /\ UNCHANGED <<context_lock, op, i, res, owns, saved, calls>>

(* free_monitoring_context() clears the slot, and releases the lock inside *)
(* the loop; the loop goes on.                                             *)
Clear_first(t) ==
  /\ pc[t] = "clear"
  /\ tid' = [tid EXCEPT ![1] = NoTid]
  /\ owns' = [owns EXCEPT ![t] = 0]
  /\ Goto(t, "release")
  /\ UNCHANGED <<context_lock, op, i, res, saved, calls>>
Clear(t) ==
  /\ pc[t] = "clear"
  /\ tid' = [tid EXCEPT ![i[t]] = NoTid]
  /\ owns' = [owns EXCEPT ![t] = 0]
  /\ Goto(t, "release")
  /\ UNCHANGED <<context_lock, op, i, res, saved, calls>>
Release(t) ==
  /\ pc[t] = "release"
  /\ context_lock' = FALSE
  /\ i' = [i EXCEPT ![t] = @ + 1]
  /\ Goto(t, "test")
  /\ UNCHANGED <<tid, op, res, owns, saved, calls>>

(* unlock_contexts() at the end of the operation, and its return: to the   *)
(* thread's code, or from the signal handler to the operation it has       *)
(* interrupted.                                                            *)
unlock_contexts_keepsLock(t) ==
  /\ pc[t] = "unlock"
  /\ owns' = IF op[t] = "alloc" THEN [owns EXCEPT ![t] = res[t]] ELSE owns
  /\ Goto(t, "idle")
  /\ UNCHANGED <<context_lock, tid, op, i, res, saved, calls>>
unlock_contexts(t) ==
  /\ pc[t] = "unlock"
  /\ context_lock' = FALSE
  /\ owns' = IF op[t] = "alloc" THEN [owns EXCEPT ![t] = res[t]] ELSE owns
  /\ pc' = [pc EXCEPT ![t] = saved[t].pc]
  /\ IF saved[t] = NoFrame
     THEN UNCHANGED <<op, i, res>>
     ELSE /\ op' = [op EXCEPT ![t] = saved[t].op]
          /\ i' = [i EXCEPT ![t] = saved[t].i]
          /\ res' = [res EXCEPT ![t] = saved[t].res]
  /\ saved' = [saved EXCEPT ![t] = NoFrame]
  /\ UNCHANGED <<tid, calls>>

-----------------------------------------------------------------------------
Step(t) ==
  \/ lock_contexts(t)
  \/ Test(t)
  \/ Claim(t)
  \/ Clear(t)
  \/ Release(t)
  \/ unlock_contexts(t)

(* Every thread is done with the calls it will make.                       *)
Quiet == (\A t \in Threads : pc[t] = "idle") /\ UNCHANGED vars

Next ==
  \/ \E t \in Threads : (\E o \in Ops : Call(t, o)) \/ Interrupt(t) \/ Step(t) \/ Spin(t)
  \/ Quiet

Spec == Init /\ [][Next]_vars

(* Every thread keeps executing the operation it is in.                    *)
FairSpec == Spec /\ \A t \in Threads : WF_vars(Step(t))

-----------------------------------------------------------------------------
(* Whether t is between a lock and its unlock, in the operation it runs or *)
(* in the one its signal handler has interrupted.                          *)
InCritical(t) == pc[t] \in Critical \/ saved[t].pc \in Critical

(* At most one thread is inside the table (lock_contexts,                  *)
(* unlock_contexts).                                                       *)
MutualExclusion ==
  \A t, u \in Threads : InCritical(t) /\ InCritical(u) => t = u

(* A thread that was given a slot keeps it until it frees it: no other     *)
(* thread is ever written over it (alloc_monitoring_context).              *)
KeepsContext ==
  \A t \in Threads : owns[t] # 0 /\ op[t] # "free" => tid[owns[t]] = t

(* A lookup by a thread that has a context returns it, whatever the other  *)
(* threads do meanwhile (find_monitoring_context).                         *)
FindsOwn ==
  \A t \in Threads :
    pc[t] = "unlock" /\ op[t] = "find" /\ owns[t] # 0 => res[t] = owns[t]

(* An allocation fails only when every slot is taken.                      *)
FailsOnlyWhenFull ==
  \A t \in Threads :
    pc[t] = "unlock" /\ op[t] = "alloc" /\ res[t] = 0 => \A s \in Slots : tid[s] # NoTid

(* Every operation returns.                                                *)
OperationsReturn == \A t \in Threads : pc[t] # "idle" ~> pc[t] = "idle"

-----------------------------------------------------------------------------
(* The operations implement ones that happen at an instant: a lookup when  *)
(* its loop ends, an allocation when it writes its slot or has seen the    *)
(* last one, a free when it clears its slot.  An answer is there from then *)
(* on until the operation returns; that of a free, which returns nothing,  *)
(* says who has cleared which slot, until the lock is released.            *)
Answering(p, o, r) ==
  IF (p = "unlock" /\ o # "free") \/ p = "release" THEN {<<o, r>>} ELSE {}
AnswersOf(t) ==
  Answering(pc[t], op[t], res[t]) \cup Answering(saved[t].pc, saved[t].op, saved[t].res)
Atomic == INSTANCE AtomicTable WITH answers <- [t \in Threads |-> AnswersOf(t)]

(* Every step is an operation of the atomic table or invisible, whatever   *)
(* SIGALRM handlers interrupt (find_, alloc_, free_monitoring_context).    *)
ImplementsAtomicTable == Atomic!Spec

=============================================================================
