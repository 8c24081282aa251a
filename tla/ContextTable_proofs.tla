------------------------ MODULE ContextTable_proofs -------------------------
(***************************************************************************)
(* Proofs about the table of monitoring contexts, for every number of      *)
(* threads, slots and calls, with or without alarms.                       *)
(*                                                                         *)
(* The frame of an operation is what a thread keeps of it: the step, the   *)
(* operation, the loop index and the result.  A thread has the frame it    *)
(* runs and, while its SIGALRM handler runs, the frame it interrupted.     *)
(***************************************************************************)
EXTENDS ContextTable, TLAPS

(* Indices are within the table, and a slot about to be written is one.    *)
IndexOK ==
  /\ \A t \in Threads : pc[t] \in {"claim", "clear", "release"} => i[t] \in Slots
  /\ \A t \in Threads :
       /\ saved[t].i \in 1..(NumSlots + 1)
       /\ saved[t].pc \in {"claim", "clear", "release"} => saved[t].i \in Slots
TypeInv == TypeOK /\ IndexOK

LEMMA TypeInvInit == Init => TypeInv
<1> SUFFICES ASSUME Init PROVE TypeInv
  OBVIOUS
<1>1. NoFrame \in Frames
  BY DEF NoFrame, Frames, Steps, Ops
<1>2. TypeOK
  <2>1. 1 \in 1..(NumSlots + 1)
    BY TableAssumption
  <2> QED
    BY <1>1, <2>1 DEF Init, TypeOK, NoTid, Steps, Ops
<1>3. IndexOK
  BY TableAssumption DEF Init, IndexOK, NoFrame
<1> QED
  BY <1>2, <1>3 DEF TypeInv

LEMMA TypeInvNext == TypeInv /\ [Next]_vars => TypeInv'
<1> SUFFICES ASSUME TypeInv, [Next]_vars PROVE TypeInv'
  OBVIOUS
<1> USE TableAssumption DEF TypeInv, TypeOK, IndexOK, Slots
<1>1. ASSUME NEW t \in Threads, NEW o \in Ops, Call(t, o) PROVE TypeInv'
  BY <1>1 DEF Call, Begin, Goto, Steps, Critical
<1>2. ASSUME NEW t \in Threads, Interrupt(t) PROVE TypeInv'
  BY <1>2 DEF Interrupt, Begin, Goto, Steps, Critical, Frames, Ops
<1>3. ASSUME NEW t \in Threads, lock_contexts(t) PROVE TypeInv'
  BY <1>3 DEF lock_contexts, Goto, Steps, Critical
<1>4. ASSUME NEW t \in Threads, Test(t) PROVE TypeInv'
  <2> DEFINE n == i[t]
  <2>0. n \in Nat /\ n >= 1 /\ n <= NumSlots + 1
    OBVIOUS
  <2>1. CASE n > NumSlots
    <3>1. pc' = [pc EXCEPT ![t] = "unlock"] /\ i' = i /\ res' = res
      BY <1>4, <2>1 DEF Test, Goto
    <3> QED
      BY <1>4, <3>1 DEF Test, Steps, Critical
  <2>2. CASE n \in Slots /\ tid[n] = Wanted(t)
    <3>1. pc' = [pc EXCEPT ![t] = Hit(op[t])] /\ i' = i /\ res' = [res EXCEPT ![t] = n]
      BY <1>4, <2>2 DEF Test, Goto
    <3>2. Hit(op[t]) \in Steps
      BY DEF Hit, Steps, Critical, Ops
    <3> QED
      BY <1>4, <2>2, <3>1, <3>2 DEF Test
  <2>3. CASE n \in Slots /\ tid[n] # Wanted(t)
    <3>1. pc' = pc /\ i' = [i EXCEPT ![t] = n + 1] /\ res' = res
      BY <1>4, <2>3 DEF Test
    <3>2. n + 1 \in 1..(NumSlots + 1)
      BY <2>0, <2>3
    <3>3. pc[t] = "test"
      BY <1>4 DEF Test
    <3> QED
      BY <1>4, <3>1, <3>2, <3>3 DEF Test
  <2> QED
    BY <2>0, <2>1, <2>2, <2>3
<1>5. ASSUME NEW t \in Threads, Claim(t) PROVE TypeInv'
  BY <1>5 DEF Claim, Goto, Steps, Critical
<1>6. ASSUME NEW t \in Threads, Clear(t) PROVE TypeInv'
  BY <1>6 DEF Clear, Goto, Steps, Critical
<1>7. ASSUME NEW t \in Threads, Release(t) PROVE TypeInv'
  <2>1. i[t] + 1 \in 1..(NumSlots + 1)
    BY <1>7 DEF Release
  <2>2. pc' = [pc EXCEPT ![t] = "test"] /\ i' = [i EXCEPT ![t] = i[t] + 1]
    BY <1>7 DEF Release, Goto
  <2> QED
    BY <1>7, <2>1, <2>2 DEF Release, Steps, Critical
<1>8. ASSUME NEW t \in Threads, unlock_contexts(t) PROVE TypeInv'
  <2>1. NoFrame \in Frames /\ NoFrame.i = 1 /\ NoFrame.pc = "idle"
    BY DEF NoFrame, Frames, Steps, Ops
  <2>2. saved[t] \in Frames
    OBVIOUS
  <2>3. saved[t].pc \in Steps /\ saved[t].op \in Ops /\ saved[t].res \in {0} \cup Slots
    BY <2>2 DEF Frames
  <2>4. TypeOK'
    BY <1>8, <2>1, <2>3 DEF unlock_contexts
  <2>5. IndexOK'
    BY <1>8, <2>1, <2>3 DEF unlock_contexts
  <2> QED
    BY <2>4, <2>5
<1>9. CASE UNCHANGED vars
  BY <1>9 DEF vars
<1>10. QED
  BY <1>1, <1>2, <1>3, <1>4, <1>5, <1>6, <1>7, <1>8, <1>9 DEF Next, Step, Spin, Quiet

(* The table, its lock and every frame keep their types; in particular no  *)
(* loop of find_, alloc_ or free_monitoring_context() leaves the table.    *)
THEOREM TypeCorrect == Spec => []TypeOK
<1>1. TypeInv => TypeOK
  BY DEF TypeInv
<1>2. QED
  BY TypeInvInit, TypeInvNext, <1>1, PTL DEF Spec

-----------------------------------------------------------------------------
(* Slots and what operations know of them.  All of it rests on one fact    *)
(* about the lock: no two threads are about to claim a slot.               *)

Claiming(t) == pc[t] = "claim" \/ saved[t].pc = "claim"
ClaimsAlone == \A t, u \in Threads : Claiming(t) /\ Claiming(u) => t = u

(* What an operation in progress knows of the slot it has found.           *)
FrameOK(t, p, o, n, r) ==
  /\ p \in {"lock", "test"} /\ o # "free" => r = 0
  /\ p = "claim" => o = "alloc" /\ r = n /\ tid[n] = NoTid
  /\ p = "clear" => tid[n] = t /\ r = n
  /\ p \in {"clear", "release"} => o = "free"
  /\ p = "unlock" /\ o = "alloc" /\ r # 0 => tid[r] = t
SlotInv ==
  \A t \in Threads :
    /\ owns[t] # 0 => tid[owns[t]] = t
    /\ FrameOK(t, pc[t], op[t], i[t], res[t])
    /\ FrameOK(t, saved[t].pc, saved[t].op, saved[t].i, saved[t].res)

(* Allocating is a thread's first call and is made once, and what a signal *)
(* handler runs on top of it is a lookup.                                  *)
AllocatesOnce(t) ==
  /\ calls[t] = 0 => pc[t] = "idle" /\ owns[t] = 0
  /\ pc[t] = "idle" => saved[t].pc = "idle"
  /\ saved[t].pc # "idle" => op[t] = "find"
  /\ pc[t] # "idle" /\ op[t] = "alloc" => owns[t] = 0
  /\ saved[t].pc # "idle" /\ saved[t].op = "alloc" => owns[t] = 0

(* A slot that holds a thread is the one it was given, or is about to be.  *)
AboutToReturn(t, s) ==
  \/ pc[t] = "unlock" /\ op[t] = "alloc" /\ res[t] = s
  \/ saved[t].pc = "unlock" /\ saved[t].op = "alloc" /\ saved[t].res = s
OneSlot(t) == \A s \in Slots : tid[s] = t => owns[t] = s \/ AboutToReturn(t, s)
SlotOnceInv == \A t \in Threads : AllocatesOnce(t) /\ OneSlot(t)

(* A lookup in progress has not passed over its thread's slot, and when it *)
(* is about to return it has found it or there is none.                    *)
LookupOK(t, p, o, n, r) ==
  /\ p = "lock" => n = 1
  /\ p = "test" /\ o = "find" => \A s \in Slots : s < n => tid[s] # t
  /\ p = "unlock" /\ o = "find" => IF r = 0 THEN \A s \in Slots : tid[s] # t ELSE tid[r] = t
LookupInv ==
  \A t \in Threads :
    /\ LookupOK(t, pc[t], op[t], i[t], res[t])
    /\ LookupOK(t, saved[t].pc, saved[t].op, saved[t].i, saved[t].res)

TableInv == TypeInv /\ SlotInv /\ SlotOnceInv /\ LookupInv

(* A slot that holds a thread keeps it until the thread clears it: Claim   *)
(* writes a slot that was free.                                            *)
LEMMA SlotInvNext ==
  ASSUME TypeInv, SlotInv, SlotOnceInv, ClaimsAlone, [Next]_vars PROVE SlotInv'
<1> USE TableAssumption DEF TypeInv, TypeOK, IndexOK, NoTid
<1>1. ASSUME NEW t \in Threads, NEW o \in Ops, Call(t, o) PROVE SlotInv'
  BY <1>1 DEF Call, Begin, Goto, SlotInv, FrameOK
<1>2. ASSUME NEW t \in Threads, Interrupt(t) PROVE SlotInv'
  <2>1. /\ saved'[t].pc = pc[t] /\ saved'[t].op = op[t] /\ saved'[t].i = i[t]
        /\ saved'[t].res = res[t] /\ pc'[t] = "lock" /\ res'[t] = 0
    BY <1>2 DEF Interrupt, Begin, Goto
  <2>2. ASSUME NEW u \in Threads \ {t}
        PROVE  /\ saved'[u] = saved[u] /\ pc'[u] = pc[u] /\ op'[u] = op[u]
               /\ i'[u] = i[u] /\ res'[u] = res[u]
    BY <1>2 DEF Interrupt, Begin, Goto
  <2>3. owns' = owns /\ tid' = tid
    BY <1>2 DEF Interrupt
  <2> QED
    BY <2>1, <2>2, <2>3 DEF SlotInv, FrameOK
<1>3. ASSUME NEW t \in Threads, lock_contexts(t) PROVE SlotInv'
  BY <1>3 DEF lock_contexts, Goto, SlotInv, FrameOK
<1>4. ASSUME NEW t \in Threads, Test(t) PROVE SlotInv'
  <2>1. /\ tid' = tid /\ op' = op /\ owns' = owns /\ saved' = saved
        /\ \A u \in Threads \ {t} : pc'[u] = pc[u] /\ i'[u] = i[u] /\ res'[u] = res[u]
    BY <1>4 DEF Test, Goto
  <2>2. CASE i[t] \in Slots /\ tid[i[t]] = Wanted(t)
    <3>1. pc'[t] = Hit(op[t]) /\ i'[t] = i[t] /\ res'[t] = i[t]
      BY <1>4, <2>2, SMTT(30) DEF Test, Goto, Slots
    <3>2. CASE op[t] = "alloc"
      <4>1. tid[i[t]] = NoTid /\ pc'[t] = "claim"
        BY <2>2, <3>1, <3>2 DEF Wanted, Hit
      <4> QED
        BY <2>1, <3>1, <3>2, <4>1 DEF SlotInv, FrameOK
    <3>3. CASE op[t] # "alloc"
      <4>1. /\ pc'[t] \in {"unlock", "clear"} /\ tid[i[t]] = t
            /\ pc'[t] = "clear" => op[t] = "free"
        BY <2>2, <3>1, <3>3 DEF Hit, Ops, Wanted
      <4> QED
        BY <2>1, <3>1, <3>3, <4>1 DEF SlotInv, FrameOK
    <3> QED
      BY <3>2, <3>3
  <2>3. CASE ~(i[t] \in Slots /\ tid[i[t]] = Wanted(t))
    <3>1. pc[t] = "test" /\ pc'[t] \in {"test", "unlock"} /\ res'[t] = res[t]
      BY <1>4, <2>3 DEF Test, Goto
    <3>2. op[t] # "free" => res[t] = 0
      BY <3>1 DEF SlotInv, FrameOK
    <3> QED
      BY <2>1, <3>1, <3>2 DEF SlotInv, FrameOK
  <2> QED
    BY <2>2, <2>3
<1>5. ASSUME NEW t \in Threads, Claim(t) PROVE SlotInv'
  <2>1. /\ tid' = [tid EXCEPT ![i[t]] = t] /\ pc' = [pc EXCEPT ![t] = "unlock"]
        /\ op' = op /\ i' = i /\ res' = res /\ owns' = owns /\ saved' = saved
    BY <1>5 DEF Claim, Goto
  <2>2. i[t] \in Slots /\ tid[i[t]] = 0 /\ op[t] = "alloc" /\ res[t] = i[t]
    BY <1>5 DEF Claim, SlotInv, FrameOK
  <2>3. tid'[res[t]] = t /\ \A s \in Slots : tid[s] # 0 => tid'[s] = tid[s]
    BY <2>1, <2>2
  <2>4. \A u \in Threads : owns'[u] # 0 => tid'[owns'[u]] = u
    BY <2>1, <2>3 DEF SlotInv
  <2>5. saved[t].pc = "idle"
    BY <1>5, <2>2 DEF Claim, SlotOnceInv, AllocatesOnce
  <2>6. \A u \in Threads : u # t => pc[u] # "claim" /\ saved[u].pc # "claim"
    BY <1>5 DEF Claim, ClaimsAlone, Claiming
  <2>7. ASSUME NEW u \in Threads, u # t
        PROVE  /\ FrameOK(u, pc[u], op[u], i[u], res[u])'
               /\ FrameOK(u, saved[u].pc, saved[u].op, saved[u].i, saved[u].res)'
    <3>1. /\ pc'[u] = pc[u] /\ pc[u] # "claim" /\ saved[u].pc # "claim"
          /\ saved[u] \in Frames
      BY <2>1, <2>6, <2>7
    <3> QED
      BY <2>1, <2>3, <2>7, <3>1 DEF SlotInv, FrameOK, Frames
  <2>8. /\ FrameOK(t, pc[t], op[t], i[t], res[t])'
        /\ FrameOK(t, saved[t].pc, saved[t].op, saved[t].i, saved[t].res)'
    BY <2>1, <2>2, <2>3, <2>5 DEF FrameOK
  <2> QED
    BY <2>4, <2>7, <2>8 DEF SlotInv
<1>6. ASSUME NEW t \in Threads, Clear(t) PROVE SlotInv'
  <2>1. /\ tid' = [tid EXCEPT ![i[t]] = NoTid] /\ pc' = [pc EXCEPT ![t] = "release"]
        /\ owns' = [owns EXCEPT ![t] = 0] /\ pc[t] = "clear"
        /\ op' = op /\ i' = i /\ res' = res /\ saved' = saved
    BY <1>6 DEF Clear, Goto
  <2>2. i[t] \in Slots /\ tid[i[t]] = t /\ op[t] = "free"
    BY <2>1 DEF SlotInv, FrameOK
  <2>3. saved[t].pc = "idle"
    BY <2>2 DEF SlotOnceInv, AllocatesOnce
  <2>4. \A s \in Slots : tid[s] # t => tid'[s] = tid[s]
    BY <2>1, <2>2
  <2>5. \A u \in Threads : owns'[u] # 0 => tid'[owns'[u]] = u
    BY <2>1, <2>4 DEF SlotInv
  <2>6. ASSUME NEW u \in Threads, u # t
        PROVE  /\ FrameOK(u, pc[u], op[u], i[u], res[u])'
               /\ FrameOK(u, saved[u].pc, saved[u].op, saved[u].i, saved[u].res)'
    <3>1. pc'[u] = pc[u] /\ saved[u] \in Frames /\ t # 0
      BY <2>1, <2>6
    <3> QED
      BY <2>1, <2>4, <2>6, <3>1 DEF SlotInv, FrameOK, Frames
  <2>7. /\ FrameOK(t, pc[t], op[t], i[t], res[t])'
        /\ FrameOK(t, saved[t].pc, saved[t].op, saved[t].i, saved[t].res)'
    BY <2>1, <2>2, <2>3 DEF FrameOK
  <2> QED
    BY <2>5, <2>6, <2>7 DEF SlotInv
<1>9. ASSUME NEW t \in Threads, Release(t) PROVE SlotInv'
  <2>1. /\ pc' = [pc EXCEPT ![t] = "test"] /\ i' = [i EXCEPT ![t] = i[t] + 1]
        /\ pc[t] = "release"
        /\ tid' = tid /\ op' = op /\ res' = res /\ owns' = owns /\ saved' = saved
    BY <1>9 DEF Release, Goto
  <2>2. op[t] = "free"
    BY <2>1 DEF SlotInv, FrameOK
  <2> QED
    BY <2>1, <2>2 DEF SlotInv, FrameOK
<1>7. ASSUME NEW t \in Threads, unlock_contexts(t) PROVE SlotInv'
  <2>1. NoFrame.pc = "idle"
    BY DEF NoFrame
  <2>2. /\ tid' = tid /\ saved' = [saved EXCEPT ![t] = NoFrame]
        /\ pc' = [pc EXCEPT ![t] = saved[t].pc]
        /\ owns' = IF op[t] = "alloc" THEN [owns EXCEPT ![t] = res[t]] ELSE owns
    BY <1>7 DEF unlock_contexts
  <2>3. \A u \in Threads \ {t} : op'[u] = op[u] /\ i'[u] = i[u] /\ res'[u] = res[u]
    BY <1>7 DEF unlock_contexts
  <2>4. \/ pc'[t] = "idle"
        \/ op'[t] = saved[t].op /\ i'[t] = saved[t].i /\ res'[t] = saved[t].res
    BY <1>7, <2>1, <2>2 DEF unlock_contexts
  <2>5. \A u \in Threads : owns'[u] # 0 => tid'[owns'[u]] = u
    BY <1>7, <2>2 DEF SlotInv, FrameOK, unlock_contexts
  <2>6. FrameOK(t, pc'[t], op'[t], i'[t], res'[t])
    BY <2>2, <2>4 DEF SlotInv, FrameOK
  <2> QED
    BY <2>1, <2>2, <2>3, <2>5, <2>6 DEF SlotInv, FrameOK
<1>8. CASE UNCHANGED vars
  BY <1>8 DEF vars, SlotInv, FrameOK
<1> QED
  BY <1>1, <1>2, <1>3, <1>4, <1>5, <1>6, <1>7, <1>8, <1>9 DEF Next, Step, Spin, Quiet

LEMMA SlotOnceNext ==
  ASSUME TypeInv, SlotInv, SlotOnceInv, [Next]_vars PROVE SlotOnceInv'
<1> USE TableAssumption DEF TypeInv, TypeOK, IndexOK, NoTid
<1> USE DEF SlotOnceInv, AllocatesOnce, OneSlot, AboutToReturn
<1>1. ASSUME NEW t \in Threads, NEW o \in Ops, Call(t, o) PROVE SlotOnceInv'
  <2>1. /\ pc' = [pc EXCEPT ![t] = "lock"] /\ op' = [op EXCEPT ![t] = o]
        /\ calls' = [calls EXCEPT ![t] = calls[t] + 1] /\ res' = [res EXCEPT ![t] = 0]
        /\ UNCHANGED <<context_lock, tid, owns, saved>>
        /\ pc[t] = "idle"
    BY <1>1 DEF Call, Begin, Goto
  <2>2. (o = "alloc" => owns[t] = 0 /\ calls[t] = 0)
    BY <1>1, o \in {"find", "alloc", "free"} DEF Call, Ops
  <2> QED
    BY <2>1, <2>2 DEF Ops
<1>2. ASSUME NEW t \in Threads, Interrupt(t) PROVE SlotOnceInv'
  <2>1. /\ saved'[t].pc = pc[t] /\ saved'[t].op = op[t]
        /\ saved'[t].res = res[t] /\ pc'[t] = "lock" /\ op'[t] = "find"
    BY <1>2 DEF Interrupt, Begin, Goto
  <2>2. ASSUME NEW u \in Threads \ {t}
        PROVE  /\ saved'[u] = saved[u] /\ pc'[u] = pc[u] /\ op'[u] = op[u]
               /\ res'[u] = res[u] /\ calls'[u] = calls[u]
    BY <1>2 DEF Interrupt, Begin, Goto
  <2>3. tid' = tid /\ owns' = owns /\ calls'[t] # 0 /\ saved[t].pc = "idle"
    BY <1>2 DEF Interrupt, NoFrame
  <2> QED
    BY <2>1, <2>2, <2>3
<1>3. ASSUME NEW t \in Threads, lock_contexts(t) PROVE SlotOnceInv'
  BY <1>3 DEF lock_contexts, Goto
<1>4. ASSUME NEW t \in Threads, Test(t) PROVE SlotOnceInv'
  <2>1. /\ tid' = tid /\ op' = op /\ saved' = saved /\ owns' = owns /\ calls' = calls
        /\ pc[t] = "test" /\ pc'[t] # "idle"
        /\ \A u \in Threads \ {t} : pc'[u] = pc[u] /\ res'[u] = res[u]
    BY <1>4 DEF Test, Goto, Hit, Ops
  <2> QED
    BY <2>1
<1>5. ASSUME NEW t \in Threads, Claim(t) PROVE SlotOnceInv'
  <2>1. /\ pc' = [pc EXCEPT ![t] = "unlock"] /\ op' = op /\ res' = res /\ owns' = owns
        /\ saved' = saved /\ calls' = calls /\ pc[t] = "claim"
        /\ tid' = [tid EXCEPT ![i[t]] = t]
    BY <1>5 DEF Claim, Goto
  <2>2. op[t] = "alloc" /\ res[t] = i[t] /\ i[t] \in Slots
    BY <2>1 DEF SlotInv, FrameOK
  <2>3. \A s \in Slots : tid[s] # t
    <3>1. AllocatesOnce(t) /\ OneSlot(t)
      OBVIOUS
    <3>2. owns[t] = 0 /\ saved[t].pc = "idle"
      BY <2>1, <2>2, <3>1
    <3> QED
      BY <2>1, <3>1, <3>2 DEF Slots
  <2>4. \A s \in Slots : tid'[s] = t => s = res[t]
    BY <2>1, <2>2, <2>3
  <2>5. \A u \in Threads \ {t} : \A s \in Slots : tid'[s] = u => tid[s] = u
    BY <2>1, <2>2
  <2> QED
    BY <2>1, <2>2, <2>4, <2>5
<1>6. ASSUME NEW t \in Threads, Clear(t) PROVE SlotOnceInv'
  <2>1. /\ tid' = [tid EXCEPT ![i[t]] = NoTid] /\ pc' = [pc EXCEPT ![t] = "release"]
        /\ owns' = [owns EXCEPT ![t] = 0] /\ pc[t] = "clear"
        /\ op' = op /\ res' = res /\ saved' = saved /\ calls' = calls
    BY <1>6 DEF Clear, Goto
  <2>2. i[t] \in Slots /\ tid[i[t]] = t /\ op[t] = "free"
    BY <2>1 DEF SlotInv, FrameOK
  <2>3. \A s \in Slots : tid[s] = t => s = i[t]
    <3>1. AllocatesOnce(t) /\ OneSlot(t)
      OBVIOUS
    <3>2. saved[t].pc = "idle"
      BY <2>2, <3>1
    <3>3. \A s \in Slots : tid[s] = t => owns[t] = s
      BY <2>2, <3>1, <3>2
    <3> QED
      BY <2>2, <3>3
  <2>4. \A s \in Slots : tid'[s] # t
    BY <2>1, <2>2, <2>3
  <2>5. \A u \in Threads \ {t} : \A s \in Slots : tid'[s] = u => tid[s] = u
    BY <2>1, <2>2
  <2> QED
    BY <2>1, <2>2, <2>4, <2>5
<1>9. ASSUME NEW t \in Threads, Release(t) PROVE SlotOnceInv'
  BY <1>9 DEF Release, Goto
<1>7. ASSUME NEW t \in Threads, unlock_contexts(t) PROVE SlotOnceInv'
  <2>1. NoFrame.pc = "idle"
    BY DEF NoFrame
  <2>2. /\ tid' = tid /\ calls' = calls /\ saved' = [saved EXCEPT ![t] = NoFrame]
        /\ pc' = [pc EXCEPT ![t] = saved[t].pc] /\ pc[t] = "unlock"
        /\ owns' = IF op[t] = "alloc" THEN [owns EXCEPT ![t] = res[t]] ELSE owns
    BY <1>7 DEF unlock_contexts
  <2>3. \A u \in Threads \ {t} : op'[u] = op[u] /\ res'[u] = res[u]
    BY <1>7 DEF unlock_contexts
  <2>4. \/ pc'[t] = "idle" /\ saved[t].pc = "idle"
        \/ op'[t] = saved[t].op /\ res'[t] = saved[t].res
    BY <1>7, <2>1, <2>2 DEF unlock_contexts
  <2>5. CASE op[t] = "alloc"
    <3>1. saved[t].pc = "idle" /\ owns[t] = 0 /\ pc'[t] = "idle"
      BY <2>2, <2>5
    <3>2. OneSlot(t)'
      BY <2>2, <2>5, <3>1 DEF Slots
    <3> QED
      BY <2>1, <2>2, <2>3, <2>5, <3>1, <3>2
  <2>6. CASE op[t] # "alloc"
    <3>1. OneSlot(t)' /\ AllocatesOnce(t)'
      BY <2>1, <2>2, <2>4, <2>6
    <3> QED
      BY <2>2, <2>3, <2>6, <3>1
  <2> QED
    BY <2>5, <2>6
<1>8. CASE UNCHANGED vars
  BY <1>8 DEF vars
<1> QED
  BY <1>1, <1>2, <1>3, <1>4, <1>5, <1>6, <1>7, <1>8, <1>9 DEF Next, Step, Spin, Quiet

LEMMA LookupInvNext ==
  ASSUME TypeInv, SlotInv, SlotOnceInv, LookupInv, [Next]_vars PROVE LookupInv'
<1> USE TableAssumption DEF TypeInv, TypeOK, IndexOK, NoTid
<1>1. ASSUME NEW t \in Threads, NEW o \in Ops, Call(t, o) PROVE LookupInv'
  BY <1>1 DEF Call, Begin, Goto, LookupInv, LookupOK
<1>2. ASSUME NEW t \in Threads, Interrupt(t) PROVE LookupInv'
  <2>1. /\ saved'[t].pc = pc[t] /\ saved'[t].op = op[t] /\ saved'[t].i = i[t]
        /\ saved'[t].res = res[t] /\ pc'[t] = "lock" /\ i'[t] = 1
    BY <1>2 DEF Interrupt, Begin, Goto
  <2>2. ASSUME NEW u \in Threads \ {t}
        PROVE  /\ saved'[u] = saved[u] /\ pc'[u] = pc[u] /\ op'[u] = op[u]
               /\ i'[u] = i[u] /\ res'[u] = res[u]
    BY <1>2 DEF Interrupt, Begin, Goto
  <2>3. tid' = tid
    BY <1>2 DEF Interrupt
  <2> QED
    BY <2>1, <2>2, <2>3 DEF LookupInv, LookupOK
<1>3. ASSUME NEW t \in Threads, lock_contexts(t) PROVE LookupInv'
  <2>1. i[t] = 1
    BY <1>3 DEF lock_contexts, LookupInv, LookupOK
  <2> QED
    BY <1>3, <2>1 DEF lock_contexts, Goto, LookupInv, LookupOK, Slots
<1>4. ASSUME NEW t \in Threads, Test(t) PROVE LookupInv'
  <2>1. /\ tid' = tid /\ op' = op /\ saved' = saved /\ pc[t] = "test"
        /\ \A u \in Threads \ {t} : pc'[u] = pc[u] /\ i'[u] = i[u] /\ res'[u] = res[u]
    BY <1>4 DEF Test, Goto
  <2>2. op[t] = "find" => res[t] = 0
    BY <2>1 DEF SlotInv, FrameOK
  <2>3. LookupOK(t, "test", op[t], i[t], res[t])
    BY <2>1 DEF LookupInv
  <2>4. CASE i[t] > NumSlots
    <3>1. pc'[t] = "unlock" /\ res'[t] = res[t]
      BY <1>4, <2>4 DEF Test, Goto, Slots
    <3>2. \A s \in Slots : s < i[t]
      BY <2>4 DEF Slots
    <3>3. LookupOK(t, pc'[t], op[t], i'[t], res'[t])
      BY <2>2, <2>3, <3>1, <3>2 DEF LookupOK
    <3> QED
      BY <2>1, <3>3 DEF LookupInv, LookupOK
  <2>5. CASE i[t] \in Slots /\ tid[i[t]] = Wanted(t)
    <3>1. pc'[t] = Hit(op[t]) /\ res'[t] = i[t] /\ i[t] # 0
      BY <1>4, <2>5, SMTT(30) DEF Test, Goto, Slots
    <3>2. LookupOK(t, pc'[t], op[t], i'[t], res'[t])
      BY <2>5, <3>1, Hit("find") = "unlock" DEF LookupOK, Hit, Wanted, Ops
    <3> QED
      BY <2>1, <3>2 DEF LookupInv, LookupOK
  <2>6. CASE i[t] \in Slots /\ tid[i[t]] # Wanted(t)
    <3>1. pc'[t] = "test" /\ i'[t] = i[t] + 1
      BY <1>4, <2>1, <2>6 DEF Test, Slots
    <3>2. \A s \in Slots : s < i[t] + 1 => s < i[t] \/ s = i[t]
      BY DEF Slots
    <3>3. LookupOK(t, pc'[t], op[t], i'[t], res'[t])
      BY <2>2, <2>3, <2>6, <3>1, <3>2 DEF LookupOK, Wanted
    <3> QED
      BY <2>1, <3>3 DEF LookupInv, LookupOK
  <2> QED
    BY <2>4, <2>5, <2>6 DEF Slots
<1>5. ASSUME NEW t \in Threads, Claim(t) \/ Clear(t) PROVE LookupInv'
  <2> DEFINE w == IF pc[t] = "claim" THEN t ELSE NoTid
  <2>1. /\ tid' = [tid EXCEPT ![i[t]] = w] /\ op' = op /\ i' = i /\ res' = res /\ saved' = saved
        /\ pc[t] \in {"claim", "clear"} /\ pc'[t] \in {"unlock", "release"}
        /\ \A u \in Threads \ {t} : pc'[u] = pc[u]
    BY <1>5 DEF Claim, Clear, Goto
  <2>2. i[t] \in Slots /\ tid[i[t]] \in {NoTid, t} /\ op[t] \in {"alloc", "free"}
    BY <2>1 DEF SlotInv, FrameOK
  <2>3. saved[t].pc = "idle"
    BY <2>2 DEF SlotOnceInv, AllocatesOnce
  <2>4. ASSUME NEW u \in Threads, u # t, NEW s \in Slots PROVE tid'[s] = u <=> tid[s] = u
    BY <2>1, <2>2, <2>4
  <2>5. ASSUME NEW u \in Threads, u # t
        PROVE  /\ LookupOK(u, pc[u], op[u], i[u], res[u])'
               /\ LookupOK(u, saved[u].pc, saved[u].op, saved[u].i, saved[u].res)'
    <3>1. pc'[u] = pc[u] /\ saved[u] \in Frames
      BY <2>1, <2>5
    <3> QED
      BY <2>1, <2>4, <2>5, <3>1 DEF LookupInv, LookupOK, Frames
  <2>6. /\ LookupOK(t, pc[t], op[t], i[t], res[t])'
        /\ LookupOK(t, saved[t].pc, saved[t].op, saved[t].i, saved[t].res)'
    BY <2>1, <2>2, <2>3 DEF LookupOK
  <2> QED
    BY <2>5, <2>6 DEF LookupInv
<1>6. ASSUME NEW t \in Threads, Release(t) PROVE LookupInv'
  <2>1. /\ pc' = [pc EXCEPT ![t] = "test"] /\ i' = [i EXCEPT ![t] = i[t] + 1]
        /\ pc[t] = "release" /\ tid' = tid /\ op' = op /\ res' = res /\ saved' = saved
    BY <1>6 DEF Release, Goto
  <2>2. op[t] = "free"
    BY <2>1 DEF SlotInv, FrameOK
  <2> QED
    BY <2>1, <2>2 DEF LookupInv, LookupOK
<1>7. ASSUME NEW t \in Threads, unlock_contexts(t) PROVE LookupInv'
  <2>1. NoFrame.pc = "idle"
    BY DEF NoFrame
  <2>2. /\ tid' = tid /\ saved' = [saved EXCEPT ![t] = NoFrame]
        /\ pc' = [pc EXCEPT ![t] = saved[t].pc]
    BY <1>7 DEF unlock_contexts
  <2>3. \A u \in Threads \ {t} : op'[u] = op[u] /\ i'[u] = i[u] /\ res'[u] = res[u]
    BY <1>7 DEF unlock_contexts
  <2>4. \/ pc'[t] = "idle"
        \/ op'[t] = saved[t].op /\ i'[t] = saved[t].i /\ res'[t] = saved[t].res
    BY <1>7, <2>1, <2>2 DEF unlock_contexts
  <2>5. LookupOK(t, pc'[t], op'[t], i'[t], res'[t])
    BY <2>2, <2>4 DEF LookupInv, LookupOK
  <2> QED
    BY <2>1, <2>2, <2>3, <2>5 DEF LookupInv, LookupOK
<1>8. CASE UNCHANGED vars
  BY <1>8 DEF vars, LookupInv, LookupOK
<1> QED
  BY <1>1, <1>2, <1>3, <1>4, <1>5, <1>6, <1>7, <1>8 DEF Next, Step, Spin, Quiet

LEMMA TableInvInit == Init => TableInv
<1> SUFFICES ASSUME Init PROVE TableInv
  OBVIOUS
<1>1. SlotInv
  BY DEF Init, SlotInv, FrameOK, NoFrame
<1>2. SlotOnceInv
  BY TableAssumption
  DEF Init, SlotOnceInv, AllocatesOnce, OneSlot, AboutToReturn, NoFrame, NoTid
<1>3. LookupInv
  BY DEF Init, LookupInv, LookupOK, NoFrame
<1> QED
  BY <1>1, <1>2, <1>3, TypeInvInit DEF TableInv

LEMMA TableInvNext == ASSUME TableInv, ClaimsAlone, [Next]_vars PROVE TableInv'
BY TypeInvNext, SlotInvNext, SlotOnceNext, LookupInvNext DEF TableInv

LEMMA TableInvKeeps == TableInv => KeepsContext
BY DEF TableInv, SlotInv, KeepsContext

LEMMA TableInvFinds == TableInv => FindsOwn
<1> SUFFICES ASSUME TableInv, NEW t \in Threads,
                    pc[t] = "unlock", op[t] = "find", owns[t] # 0
             PROVE  res[t] = owns[t]
  BY DEF FindsOwn
<1>1. owns[t] \in Slots /\ tid[owns[t]] = t /\ res[t] \in {0} \cup Slots
  BY DEF TableInv, TypeInv, TypeOK, SlotInv
<1>2. res[t] \in Slots /\ tid[res[t]] = t
  BY <1>1 DEF TableInv, LookupInv, LookupOK
<1>3. \A s \in Slots : ~AboutToReturn(t, s)
  BY DEF TableInv, SlotOnceInv, AllocatesOnce, AboutToReturn
<1> QED
  BY <1>1, <1>2, <1>3 DEF TableInv, SlotOnceInv, OneSlot

-----------------------------------------------------------------------------
(* The lock works as long as nobody releases it inside the loop of         *)
(* free_monitoring_context().                                              *)

(* A critical section is under the lock, there is one, and a thread whose  *)
(* handler has interrupted a critical section does not enter another.      *)
LockInv ==
  /\ \A t \in Threads : InCritical(t) => context_lock
  /\ MutualExclusion
  /\ \A t \in Threads : ~(pc[t] \in Critical /\ saved[t].pc \in Critical)

LEMMA LockInvInit == Init => LockInv
BY DEF Init, LockInv, MutualExclusion, InCritical, Critical, NoFrame

LEMMA LockInvNext ==
  ASSUME TypeInv, LockInv, [Next]_vars, \A t \in Threads : ~Release(t) PROVE LockInv'
<1> USE DEF TypeInv, TypeOK, LockInv, MutualExclusion, InCritical
<1>1. ASSUME NEW t \in Threads, NEW o \in Ops, Call(t, o) PROVE LockInv'
  BY <1>1 DEF Call, Begin, Goto, Critical
<1>2. ASSUME NEW t \in Threads, Interrupt(t) PROVE LockInv'
  <2>1. /\ pc' = [pc EXCEPT ![t] = "lock"] /\ context_lock' = context_lock
        /\ saved'[t].pc = pc[t] /\ \A u \in Threads \ {t} : saved'[u] = saved[u]
    BY <1>2 DEF Interrupt, Begin, Goto
  <2>2. "lock" \notin Critical
    BY DEF Critical
  <2>3. \A u \in Threads : InCritical(u)' => InCritical(u)
    BY <2>1, <2>2
  <2> QED
    BY <2>1, <2>2, <2>3
<1>3. ASSUME NEW t \in Threads, lock_contexts(t) PROVE LockInv'
  BY <1>3 DEF lock_contexts, Goto
<1>4. ASSUME NEW t \in Threads, Test(t) PROVE LockInv'
  <2>1. pc[t] \in Critical /\ \A o \in Ops : Hit(o) \in Critical
    BY <1>4 DEF Test, Critical, Hit, Ops
  <2>2. pc' = pc \/ \E p \in Critical : pc' = [pc EXCEPT ![t] = p]
    BY <1>4, <2>1 DEF Test, Goto, Critical
  <2> QED
    BY <1>4, <2>1, <2>2 DEF Test
<1>5. ASSUME NEW t \in Threads, Claim(t) PROVE LockInv'
  BY <1>5 DEF Claim, Goto, Critical
<1>6. ASSUME NEW t \in Threads, Clear(t) PROVE LockInv'
  BY <1>6 DEF Clear, Goto, Critical
<1>7. ASSUME NEW t \in Threads, unlock_contexts(t) PROVE LockInv'
  <2>1. NoFrame.pc \notin Critical
    BY DEF NoFrame, Critical
  <2>2. pc[t] \in Critical
    BY <1>7 DEF unlock_contexts, Critical
  <2>3. \A u \in Threads : ~InCritical(u)'
    BY <1>7, <2>1, <2>2 DEF unlock_contexts
  <2> QED
    BY <2>3
<1>8. CASE UNCHANGED vars
  BY <1>8 DEF vars
<1> QED
  BY <1>1, <1>2, <1>3, <1>4, <1>5, <1>6, <1>7, <1>8 DEF Next, Step, Spin, Quiet

LEMMA LockedClaims == LockInv => ClaimsAlone
BY DEF LockInv, MutualExclusion, ClaimsAlone, Claiming, InCritical, Critical

-----------------------------------------------------------------------------
(* A slot an allocation has seen taken stays taken: a failed one has seen  *)
(* them all.                                                               *)
AllocOK(p, o, n, r) ==
  /\ p = "test" /\ o = "alloc" => \A s \in Slots : s < n => tid[s] # NoTid
  /\ p = "unlock" /\ o = "alloc" /\ r = 0 => \A s \in Slots : tid[s] # NoTid
AllocInv ==
  \A t \in Threads :
    /\ AllocOK(pc[t], op[t], i[t], res[t])
    /\ AllocOK(saved[t].pc, saved[t].op, saved[t].i, saved[t].res)

(* Nobody clears a slot while another thread goes through them.            *)
Scans(p, o) == p \in {"test", "unlock"} /\ o = "alloc"
ClearsAlone ==
  \A t, u \in Threads :
    pc[u] = "clear" => ~Scans(pc[t], op[t]) /\ ~Scans(saved[t].pc, saved[t].op)

LEMMA AllocInvInit == Init => AllocInv
<1> SUFFICES ASSUME Init PROVE AllocInv
  OBVIOUS
<1> QED
  BY DEF Init, AllocInv, AllocOK, NoFrame

LEMMA AllocInvNext ==
  ASSUME TableInv, ClearsAlone, AllocInv, [Next]_vars PROVE AllocInv'
<1> USE TableAssumption DEF TableInv, TypeInv, TypeOK, IndexOK, NoTid
<1>1. ASSUME NEW t \in Threads, NEW o \in Ops, Call(t, o) PROVE AllocInv'
  BY <1>1 DEF Call, Begin, Goto, AllocInv, AllocOK
<1>2. ASSUME NEW t \in Threads, Interrupt(t) PROVE AllocInv'
  <2>1. /\ saved'[t].pc = pc[t] /\ saved'[t].op = op[t] /\ saved'[t].i = i[t]
        /\ saved'[t].res = res[t] /\ pc'[t] = "lock" /\ i'[t] = 1
    BY <1>2 DEF Interrupt, Begin, Goto
  <2>2. ASSUME NEW u \in Threads \ {t}
        PROVE  /\ saved'[u] = saved[u] /\ pc'[u] = pc[u] /\ op'[u] = op[u]
               /\ i'[u] = i[u] /\ res'[u] = res[u]
    BY <1>2 DEF Interrupt, Begin, Goto
  <2>3. tid' = tid
    BY <1>2 DEF Interrupt
  <2> QED
    BY <2>1, <2>2, <2>3 DEF AllocInv, AllocOK
<1>3. ASSUME NEW t \in Threads, lock_contexts(t) PROVE AllocInv'
  <2>1. i[t] = 1
    BY <1>3 DEF lock_contexts, LookupInv, LookupOK
  <2> QED
    BY <1>3, <2>1 DEF lock_contexts, Goto, AllocInv, AllocOK, Slots
<1>4. ASSUME NEW t \in Threads, Test(t) PROVE AllocInv'
  <2>1. /\ tid' = tid /\ op' = op /\ saved' = saved /\ pc[t] = "test"
        /\ \A u \in Threads \ {t} : pc'[u] = pc[u] /\ i'[u] = i[u] /\ res'[u] = res[u]
    BY <1>4 DEF Test, Goto
  <2>0. CASE op[t] # "alloc"
    BY <2>0, <2>1 DEF AllocInv, AllocOK
  <2>2. op[t] = "alloc" => res[t] = 0
    BY <2>1 DEF SlotInv, FrameOK
  <2>3. op[t] = "alloc" => AllocOK("test", op[t], i[t], 0)
    BY <2>1, <2>2 DEF AllocInv
  <2>4. CASE op[t] = "alloc" /\ i[t] > NumSlots
    <3>1. pc'[t] = "unlock" /\ res'[t] = 0
      BY <1>4, <2>2, <2>4 DEF Test, Goto, Slots
    <3>2. \A s \in Slots : s < i[t]
      BY <2>4 DEF Slots
    <3>3. AllocOK(pc'[t], op[t], i'[t], res'[t])
      BY <2>2, <2>3, <3>1, <3>2 DEF AllocOK
    <3> QED
      BY <2>1, <3>3 DEF AllocInv, AllocOK
  <2>5. CASE op[t] = "alloc" /\ i[t] \in Slots /\ tid[i[t]] = Wanted(t)
    <3>1. pc'[t] = Hit(op[t]) /\ res'[t] = i[t] /\ i[t] # 0
      BY <1>4, <2>5, SMTT(30) DEF Test, Goto, Slots
    <3>2. AllocOK(pc'[t], op[t], i'[t], res'[t])
      BY <2>2, <2>5, <3>1 DEF AllocOK, Hit, Wanted
    <3> QED
      BY <2>1, <3>2 DEF AllocInv, AllocOK
  <2>6. CASE op[t] = "alloc" /\ i[t] \in Slots /\ tid[i[t]] # Wanted(t)
    <3>1. pc'[t] = "test" /\ i'[t] = i[t] + 1 /\ res'[t] = 0
      BY <1>4, <2>1, <2>2, <2>6 DEF Test, Slots
    <3>2. \A s \in Slots : s < i[t] + 1 => s < i[t] \/ s = i[t]
      BY DEF Slots
    <3>3. AllocOK(pc'[t], op[t], i'[t], res'[t])
      BY <2>2, <2>3, <2>6, <3>1, <3>2 DEF AllocOK, Wanted
    <3> QED
      BY <2>1, <3>3 DEF AllocInv, AllocOK
  <2> QED
    BY <2>0, <2>4, <2>5, <2>6 DEF Slots
<1>5. ASSUME NEW t \in Threads, Claim(t) PROVE AllocInv'
  <2>1. /\ pc' = [pc EXCEPT ![t] = "unlock"] /\ op' = op /\ i' = i /\ res' = res
        /\ saved' = saved /\ pc[t] = "claim" /\ tid' = [tid EXCEPT ![i[t]] = t]
    BY <1>5 DEF Claim, Goto
  <2>2. op[t] = "alloc" /\ res[t] # 0
    BY <2>1 DEF SlotInv, FrameOK, Slots
  <2>3. \A s \in Slots : tid[s] # NoTid => tid'[s] # NoTid
    BY <2>1
  <2> QED
    BY <2>1, <2>2, <2>3 DEF AllocInv, AllocOK
<1>6. ASSUME NEW t \in Threads, Clear(t) PROVE AllocInv'
  <2>1. /\ pc' = [pc EXCEPT ![t] = "release"] /\ op' = op /\ saved' = saved /\ pc[t] = "clear"
    BY <1>6 DEF Clear, Goto
  <2> QED
    BY <2>1 DEF ClearsAlone, Scans, AllocInv, AllocOK
<1>9. ASSUME NEW t \in Threads, Release(t) PROVE AllocInv'
  <2>1. op[t] = "free"
    BY <1>9 DEF Release, SlotInv, FrameOK
  <2> QED
    BY <1>9, <2>1 DEF Release, Goto, AllocInv, AllocOK
<1>7. ASSUME NEW t \in Threads, unlock_contexts(t) PROVE AllocInv'
  <2>1. NoFrame.pc = "idle"
    BY DEF NoFrame
  <2>2. /\ tid' = tid /\ saved' = [saved EXCEPT ![t] = NoFrame]
        /\ pc' = [pc EXCEPT ![t] = saved[t].pc]
    BY <1>7 DEF unlock_contexts
  <2>3. \A u \in Threads \ {t} : op'[u] = op[u] /\ i'[u] = i[u] /\ res'[u] = res[u]
    BY <1>7 DEF unlock_contexts
  <2>4. \/ pc'[t] = "idle"
        \/ op'[t] = saved[t].op /\ i'[t] = saved[t].i /\ res'[t] = saved[t].res
    BY <1>7, <2>1, <2>2 DEF unlock_contexts
  <2>5. AllocOK(pc'[t], op'[t], i'[t], res'[t])
    BY <2>2, <2>4 DEF AllocInv, AllocOK
  <2> QED
    BY <2>1, <2>2, <2>3, <2>5 DEF AllocInv, AllocOK
<1>8. CASE UNCHANGED vars
  BY <1>8 DEF vars, AllocInv, AllocOK
<1> QED
  BY <1>1, <1>2, <1>3, <1>4, <1>5, <1>6, <1>7, <1>8, <1>9 DEF Next, Step, Spin, Quiet

-----------------------------------------------------------------------------
(* When no thread frees its slot the double release of                     *)
(* free_monitoring_context() cannot happen, and the lock always works.     *)

NoneFrees ==
  \A t \in Threads :
    /\ op[t] # "free" /\ pc[t] \notin {"clear", "release"}
    /\ saved[t].op # "free" /\ saved[t].pc \notin {"clear", "release"}

LEMMA NoneFreesNext ==
  ASSUME ~Frees, TypeInv, NoneFrees, [Next]_vars PROVE NoneFrees'
<1> USE DEF TypeInv, TypeOK, NoneFrees
<1>1. ASSUME NEW t \in Threads, NEW o \in Ops, Call(t, o) PROVE NoneFrees'
  <2>1. o # "free"
    BY <1>1 DEF Call
  <2> QED
    BY <1>1, <2>1 DEF Call, Begin, Goto
<1>2. ASSUME NEW t \in Threads, Interrupt(t) PROVE NoneFrees'
  BY <1>2 DEF Interrupt, Begin, Goto
<1>3. ASSUME NEW t \in Threads, lock_contexts(t) PROVE NoneFrees'
  BY <1>3 DEF lock_contexts, Goto
<1>4. ASSUME NEW t \in Threads, Test(t) PROVE NoneFrees'
  <2>1. Hit(op[t]) \in {"unlock", "claim"}
    BY DEF Hit, Ops
  <2>2. pc' = pc \/ \E p \in {"unlock", "claim"} : pc' = [pc EXCEPT ![t] = p]
    BY <1>4, <2>1 DEF Test, Goto
  <2> QED
    BY <1>4, <2>2 DEF Test
<1>5. ASSUME NEW t \in Threads, Claim(t) PROVE NoneFrees'
  BY <1>5 DEF Claim, Goto
<1>6. ASSUME NEW t \in Threads, Clear(t) \/ Release(t) PROVE NoneFrees'
  BY <1>6 DEF Clear, Release
<1>7. ASSUME NEW t \in Threads, unlock_contexts(t) PROVE NoneFrees'
  <2>1. NoFrame.op = "find" /\ NoFrame.pc = "idle"
    BY DEF NoFrame
  <2> QED
    BY <1>7, <2>1 DEF unlock_contexts
<1>8. CASE UNCHANGED vars
  BY <1>8 DEF vars
<1> QED
  BY <1>1, <1>2, <1>3, <1>4, <1>5, <1>6, <1>7, <1>8 DEF Next, Step, Spin, Quiet

LEMMA NoneFreesInit == Init => NoneFrees
<1> SUFFICES ASSUME Init PROVE NoneFrees
  OBVIOUS
<1> QED
  BY DEF Init, NoneFrees, NoFrame

LEMMA WithoutFrees == ASSUME ~Frees PROVE Spec => [](TableInv /\ LockInv /\ AllocInv)
<1> DEFINE I == TableInv /\ NoneFrees /\ LockInv /\ AllocInv
<1>1. Init => I
  BY TableInvInit, LockInvInit, NoneFreesInit, AllocInvInit
<1>2. I /\ [Next]_vars => I'
  <2> SUFFICES ASSUME I, [Next]_vars PROVE I'
    OBVIOUS
  <2>1. TypeInv /\ ClearsAlone /\ \A t \in Threads : ~Release(t)
    BY DEF TableInv, NoneFrees, ClearsAlone, Release
  <2> QED
    BY <2>1, LockedClaims, TableInvNext, NoneFreesNext, LockInvNext, AllocInvNext
<1> QED
  BY <1>1, <1>2, PTL DEF Spec

(* As long as no thread frees its slot, at most one thread is between      *)
(* lock_contexts() and unlock_contexts(), even when SIGALRM handlers       *)
(* interrupt table operations.                                             *)
THEOREM Exclusive == ASSUME ~Frees PROVE Spec => []MutualExclusion
<1>1. LockInv => MutualExclusion
  BY DEF LockInv
<1> QED
  BY WithoutFrees, <1>1, PTL

-----------------------------------------------------------------------------
(* When threads free their slots the lock may be released under another    *)
(* thread.  It takes three threads for harm: a thread that has freed its   *)
(* slot does not allocate again, so with two threads the allocations that  *)
(* could meet are made before anybody frees.                               *)

TwoThreads == \A t, u, v \in Threads : t = u \/ u = v \/ t = v

Allocating(t) ==
  \/ pc[t] # "idle" /\ op[t] = "alloc"
  \/ saved[t].pc # "idle" /\ saved[t].op = "alloc"

(* A thread has not been through a free, in which it releases the lock and *)
(* goes on.                                                                *)
Clearing(t) == pc[t] = "release" \/ saved[t].pc = "release"
NotFreed(t) == calls[t] = 0 \/ Allocating(t) \/ owns[t] # 0 \/ Clearing(t)

EarlyLock == (\A t \in Threads : NotFreed(t)) => LockInv
Emptied == \A t \in Threads : Clearing(t) => owns[t] = 0
EarlyInv == EarlyLock /\ Emptied

LEMMA ClearsOwn ==
  ASSUME TableInv, NEW t \in Threads, pc[t] = "clear" PROVE owns[t] # 0 /\ ~Allocating(t)
<1>1. i[t] \in Slots /\ tid[i[t]] = t /\ op[t] = "free"
  BY DEF TableInv, TypeInv, IndexOK, SlotInv, FrameOK
<1>2. saved[t].pc = "idle"
  BY <1>1 DEF TableInv, SlotOnceInv, AllocatesOnce
<1>3. owns[t] = i[t]
  BY <1>1, <1>2 DEF TableInv, SlotOnceInv, OneSlot, AboutToReturn
<1> QED
  BY <1>1, <1>2, <1>3 DEF Slots, Allocating

(* Nobody who has been through a free gets back to before it.              *)
LEMMA NeverBack ==
  ASSUME TableInv, [Next]_vars, NEW v \in Threads, NotFreed(v)' PROVE NotFreed(v)
<1> USE DEF TableInv, TypeInv, TypeOK, SlotOnceInv, AllocatesOnce, NotFreed, Allocating, Clearing
<1>1. ASSUME NEW t \in Threads, NEW o \in Ops, Call(t, o) PROVE NotFreed(v)
  <2>1. /\ pc[t] = "idle" /\ op' = [op EXCEPT ![t] = o] /\ saved' = saved /\ owns' = owns
        /\ pc' = [pc EXCEPT ![t] = "lock"] /\ calls' = [calls EXCEPT ![t] = calls[t] + 1]
    BY <1>1 DEF Call, Begin, Goto
  <2>2. o = "alloc" => calls[t] = 0
    BY <1>1, o \in {"find", "alloc", "free"} DEF Call, Ops
  <2>3. saved[t].pc = "idle"
    BY <2>1
  <2> QED
    BY <2>1, <2>2, <2>3
<1>2. ASSUME NEW t \in Threads, Interrupt(t) PROVE NotFreed(v)
  <2>1. /\ saved'[t].pc = pc[t] /\ saved'[t].op = op[t] /\ op'[t] = "find" /\ calls'[t] # 0
        /\ pc'[t] = "lock" /\ owns' = owns
    BY <1>2 DEF Interrupt, Begin, Goto
  <2>2. \A u \in Threads \ {t} : /\ saved'[u] = saved[u] /\ pc'[u] = pc[u] /\ op'[u] = op[u]
                                 /\ calls'[u] = calls[u]
    BY <1>2 DEF Interrupt, Begin, Goto
  <2> QED
    BY <2>1, <2>2
<1>3. ASSUME NEW t \in Threads, lock_contexts(t) \/ Test(t) \/ Claim(t) \/ Release(t)
      PROVE  NotFreed(v)
  <2>1. /\ pc[t] # "idle" /\ op' = op /\ saved' = saved /\ calls' = calls /\ owns' = owns
        /\ \A u \in Threads \ {t} : pc'[u] = pc[u]
    BY <1>3 DEF lock_contexts, Test, Claim, Release, Goto
  <2>2. pc'[t] # "release"
    BY <1>3 DEF lock_contexts, Test, Claim, Release, Goto, Hit, Ops
  <2> QED
    BY <2>1, <2>2
<1>6. ASSUME NEW t \in Threads, Clear(t) PROVE NotFreed(v)
  <2>1. /\ pc[t] = "clear" /\ op' = op /\ saved' = saved /\ calls' = calls
        /\ \A u \in Threads \ {t} : pc'[u] = pc[u] /\ owns'[u] = owns[u]
    BY <1>6 DEF Clear, Goto
  <2>2. owns[t] # 0
    BY <2>1, ClearsOwn
  <2> QED
    BY <2>1, <2>2
<1>4. ASSUME NEW t \in Threads, unlock_contexts(t) PROVE NotFreed(v)
  <2>1. /\ saved' = [saved EXCEPT ![t] = NoFrame] /\ pc' = [pc EXCEPT ![t] = saved[t].pc]
        /\ calls' = calls /\ \A u \in Threads \ {t} : op'[u] = op[u] /\ owns'[u] = owns[u]
        /\ saved[t] = NoFrame \/ op'[t] = saved[t].op
        /\ pc[t] = "unlock" /\ (op[t] # "alloc" => owns' = owns)
    BY <1>4 DEF unlock_contexts
  <2>2. NoFrame.pc = "idle"
    BY DEF NoFrame
  <2> QED
    BY <2>1, <2>2
<1>5. CASE UNCHANGED vars
  BY <1>5 DEF vars
<1> QED
  BY <1>1, <1>2, <1>3, <1>4, <1>5, <1>6 DEF Next, Step, Spin, Quiet

LEMMA EmptiedNext == ASSUME TableInv, Emptied, [Next]_vars PROVE Emptied'
<1> USE DEF TableInv, TypeInv, TypeOK, SlotOnceInv, AllocatesOnce, Emptied, Clearing
<1>1. ASSUME NEW t \in Threads, NEW o \in Ops, Call(t, o) PROVE Emptied'
  BY <1>1 DEF Call, Begin, Goto
<1>2. ASSUME NEW t \in Threads, Interrupt(t) PROVE Emptied'
  <2>1. /\ saved'[t].pc = pc[t] /\ pc'[t] = "lock" /\ owns' = owns
        /\ \A u \in Threads \ {t} : saved'[u] = saved[u] /\ pc'[u] = pc[u]
    BY <1>2 DEF Interrupt, Begin, Goto
  <2> QED
    BY <2>1
<1>3. ASSUME NEW t \in Threads, lock_contexts(t) \/ Test(t) \/ Claim(t) \/ Release(t)
      PROVE  Emptied'
  <2>1. /\ saved' = saved /\ owns' = owns /\ \A u \in Threads \ {t} : pc'[u] = pc[u]
    BY <1>3 DEF lock_contexts, Test, Claim, Release, Goto
  <2>2. pc'[t] # "release"
    BY <1>3 DEF lock_contexts, Test, Claim, Release, Goto, Hit, Ops
  <2> QED
    BY <2>1, <2>2
<1>4. ASSUME NEW t \in Threads, Clear(t) PROVE Emptied'
  BY <1>4 DEF Clear, Goto
<1>5. ASSUME NEW t \in Threads, unlock_contexts(t) PROVE Emptied'
  <2>1. /\ saved' = [saved EXCEPT ![t] = NoFrame] /\ pc' = [pc EXCEPT ![t] = saved[t].pc]
        /\ \A u \in Threads \ {t} : owns'[u] = owns[u]
        /\ pc[t] = "unlock" /\ (op[t] # "alloc" => owns' = owns)
    BY <1>5 DEF unlock_contexts
  <2>2. NoFrame.pc = "idle"
    BY DEF NoFrame
  <2>3. saved[t].pc = "release" => op[t] = "find"
    OBVIOUS
  <2> QED
    BY <2>1, <2>2, <2>3
<1>6. CASE UNCHANGED vars
  BY <1>6 DEF vars
<1> QED
  BY <1>1, <1>2, <1>3, <1>4, <1>5, <1>6 DEF Next, Step, Spin, Quiet

LEMMA EarlyLockNext == ASSUME TableInv, EarlyInv, [Next]_vars PROVE EarlyLock'
<1> SUFFICES ASSUME \A t \in Threads : NotFreed(t)' PROVE LockInv'
  BY DEF EarlyLock
<1>1. \A t \in Threads : NotFreed(t)
  BY NeverBack
<1>2. ASSUME NEW t \in Threads, Release(t) PROVE FALSE
  <2>1. /\ pc[t] = "release" /\ pc'[t] = "test" /\ op' = op /\ saved' = saved /\ calls' = calls
        /\ owns' = owns
    BY <1>2 DEF Release, Goto, TableInv, TypeInv, TypeOK
  <2>2. op[t] = "free" /\ owns[t] = 0
    BY <2>1 DEF TableInv, SlotInv, FrameOK, EarlyInv, Emptied, Clearing
  <2>3. calls[t] # 0 /\ saved[t].pc = "idle"
    BY <2>1, <2>2 DEF TableInv, SlotOnceInv, AllocatesOnce
  <2>4. ~NotFreed(t)'
    BY <2>1, <2>2, <2>3 DEF NotFreed, Allocating, Clearing
  <2> QED
    BY <2>4
<1> QED
  BY <1>1, <1>2, LockInvNext DEF EarlyInv, EarlyLock, TableInv

(* Two threads that have not freed, one of them allocating, exclude each   *)
(* other.                                                                  *)
LEMMA EarlyPair ==
  ASSUME TwoThreads, EarlyInv, NEW t \in Threads, NEW u \in Threads, t # u,
         NotFreed(t), NotFreed(u)
  PROVE  LockInv
<1>1. \A v \in Threads : v \in {t, u}
  BY DEF TwoThreads
<1> QED
  BY <1>1 DEF EarlyInv, EarlyLock

LEMMA EarlyClaims == ASSUME TwoThreads, TableInv, EarlyInv PROVE ClaimsAlone
<1> SUFFICES ASSUME NEW t \in Threads, NEW u \in Threads, Claiming(t), Claiming(u), t # u
             PROVE  FALSE
  BY DEF ClaimsAlone
<1>1. \A v \in {t, u} : NotFreed(v)
  BY DEF TableInv, SlotInv, FrameOK, Claiming, NotFreed, Allocating
<1> QED
  BY <1>1, EarlyPair, LockedClaims DEF ClaimsAlone

LEMMA EarlyClears == ASSUME TwoThreads, TableInv, EarlyInv PROVE ClearsAlone
<1> SUFFICES ASSUME NEW t \in Threads, NEW u \in Threads, pc[u] = "clear",
                    Scans(pc[t], op[t]) \/ Scans(saved[t].pc, saved[t].op)
             PROVE  FALSE
  BY DEF ClearsAlone
<1>1. Allocating(t) /\ InCritical(t)
  BY DEF Scans, Allocating, InCritical, Critical
<1>2. t # u /\ NotFreed(t) /\ NotFreed(u) /\ InCritical(u)
  BY <1>1, ClearsOwn DEF NotFreed, InCritical, Critical
<1> QED
  BY <1>1, <1>2, EarlyPair DEF LockInv, MutualExclusion

LEMMA WithTwoThreads == ASSUME TwoThreads PROVE Spec => [](TableInv /\ AllocInv)
<1> DEFINE I == TableInv /\ EarlyInv /\ AllocInv
<1>1. Init => I
  <2> SUFFICES ASSUME Init PROVE I
    OBVIOUS
  <2>1. Emptied
    BY DEF Init, Emptied, Clearing, NoFrame
  <2> QED
    BY <2>1, TableInvInit, LockInvInit, AllocInvInit DEF EarlyInv, EarlyLock
<1>2. I /\ [Next]_vars => I'
  <2> SUFFICES ASSUME I, [Next]_vars PROVE I'
    OBVIOUS
  <2>1. ClaimsAlone /\ ClearsAlone
    BY EarlyClaims, EarlyClears
  <2>2. TableInv'
    BY <2>1, TableInvNext
  <2>3. EarlyInv'
    BY EarlyLockNext, EmptiedNext DEF EarlyInv
  <2>4. AllocInv'
    BY <2>1, AllocInvNext
  <2> QED
    BY <2>2, <2>3, <2>4
<1> QED
  BY <1>1, <1>2, PTL DEF Spec

LEMMA TableInvAlways == ASSUME ~Frees \/ TwoThreads PROVE Spec => [](TableInv /\ AllocInv)
<1>1. CASE ~Frees
  BY <1>1, WithoutFrees, PTL
<1>2. CASE TwoThreads
  BY <1>2, WithTwoThreads
<1> QED
  BY <1>1, <1>2

(* No thread is ever written over another's slot, as long as no thread     *)
(* frees its slot, or in a target of two threads: it takes a third for the *)
(* double release in free_monitoring_context() to let two allocations meet *)
(* (table_double_unlock).                                                  *)
THEOREM ContextsAreKept == ASSUME ~Frees \/ TwoThreads PROVE Spec => []KeepsContext
BY TableInvAlways, TableInvKeeps, PTL

(* Under the same condition find_monitoring_context() called by a thread   *)
(* that has a context returns that context, in the thread's own code and   *)
(* in a signal handler that has interrupted a table operation, whatever    *)
(* the other threads do to the table meanwhile, locked or not.             *)
THEOREM LookupsFindOwn == ASSUME ~Frees \/ TwoThreads PROVE Spec => []FindsOwn
BY TableInvAlways, TableInvFinds, PTL

(* Under the same condition alloc_monitoring_context() returns no slot     *)
(* only when it has seen every one of them taken, and they still are.      *)
THEOREM FullWhenFails == ASSUME ~Frees \/ TwoThreads PROVE Spec => []FailsOnlyWhenFull
<1>1. AllocInv => FailsOnlyWhenFull
  BY DEF AllocInv, AllocOK, FailsOnlyWhenFull
<1> QED
  BY TableInvAlways, <1>1, PTL

-----------------------------------------------------------------------------
(* The table's operations happen at an instant.                            *)

Answers == [t \in Threads |-> AnswersOf(t)]
KeepsAnswers(t) == \A u \in Threads \ {t} : AnswersOf(u)' = AnswersOf(u)

LEMMA AnswersChange ==
  ASSUME NEW t \in Threads, KeepsAnswers(t)
  PROVE  Answers' = [Answers EXCEPT ![t] = AnswersOf(t)'] /\ Answers[t] = AnswersOf(t)
<1>1. Answers' = [u \in Threads |-> AnswersOf(u)']
  BY DEF Answers
<1> QED
  BY <1>1 DEF Answers, KeepsAnswers

LEMMA AnswersStay ==
  ASSUME NEW t \in Threads, KeepsAnswers(t), AnswersOf(t)' = AnswersOf(t), tid' = tid
  PROVE  UNCHANGED <<tid, Answers>>
<1>1. Answers' = [u \in Threads |-> AnswersOf(u)']
  BY DEF Answers
<1>2. \A u \in Threads : AnswersOf(u)' = AnswersOf(u)
  BY DEF KeepsAnswers
<1> QED
  BY <1>1, <1>2 DEF Answers

(* A step of t that leaves the frames of the others alone.                 *)
LEMMA OthersAnswers ==
  ASSUME NEW t \in Threads,
         \A u \in Threads \ {t} : /\ pc'[u] = pc[u] /\ op'[u] = op[u] /\ res'[u] = res[u]
                                  /\ saved'[u] = saved[u]
  PROVE  KeepsAnswers(t)
BY DEF KeepsAnswers, AnswersOf

(* In the code of t that allocates there is no slot of t yet.              *)
LEMMA AllocatorHasNone ==
  ASSUME TableInv, NEW t \in Threads, pc[t] \in {"test", "claim"}, op[t] = "alloc"
  PROVE  saved[t].pc = "idle" /\ \A s \in Slots : tid[s] # t
<1>1. saved[t].pc = "idle" /\ owns[t] = 0
  BY DEF TableInv, SlotOnceInv, AllocatesOnce
<1>2. ASSUME NEW s \in Slots, tid[s] = t PROVE FALSE
  <2>1. owns[t] = s \/ AboutToReturn(t, s)
    BY <1>2 DEF TableInv, SlotOnceInv, OneSlot
  <2> QED
    BY <1>1, <2>1 DEF AboutToReturn, Slots
<1> QED
  BY <1>1, <1>2

LEMMA AtomicTest ==
  ASSUME TableInv, AllocInv, NEW t \in Threads, Test(t)
  PROVE  Atomic!Next \/ UNCHANGED <<tid, Answers>>
<1> USE DEF TableInv, TypeInv, TypeOK, IndexOK
<1>0. /\ tid' = tid /\ op' = op /\ saved' = saved /\ pc[t] = "test"
      /\ \A u \in Threads \ {t} : pc'[u] = pc[u] /\ res'[u] = res[u]
  BY DEF Test, Goto
<1>1. KeepsAnswers(t)
  BY <1>0, OthersAnswers
<1>2. /\ Answers' = [Answers EXCEPT ![t] = AnswersOf(t)'] /\ Answers[t] = AnswersOf(t)
      /\ AnswersOf(t) = Answering(saved[t].pc, saved[t].op, saved[t].res)
  BY <1>0, <1>1, AnswersChange DEF AnswersOf, Answering
<1>3. CASE pc'[t] # "unlock" \/ op[t] = "free"
  <2>0. pc'[t] # "release"
    BY <1>0 DEF Test, Goto, Hit, Ops
  <2>1. AnswersOf(t)' = AnswersOf(t)
    BY <1>0, <1>2, <1>3, <2>0 DEF AnswersOf, Answering
  <2> QED
    BY <1>0, <1>1, <2>1, AnswersStay
<1>4. CASE pc'[t] = "unlock" /\ op[t] # "free"
  <2>1. AnswersOf(t)' = AnswersOf(t) \cup {<<op[t], res'[t]>>}
    BY <1>0, <1>2, <1>4 DEF AnswersOf, Answering
  <2>2. Atomic!Answer(t, op[t], res'[t])
    <3>1. Answers' = [Answers EXCEPT ![t] = Answers[t] \cup {<<op[t], res'[t]>>}]
      BY <1>2, <2>1
    <3> QED
      BY <3>1 DEF Atomic!Answer, Answers
  <2>3. op[t] # "free" => res[t] = 0
    BY <1>0 DEF SlotInv, FrameOK
  <2>4. CASE op[t] = "find"
    <3>1. LookupOK(t, "test", "find", i[t], 0)
      BY <1>0, <2>4, <2>3 DEF LookupInv
    <3>2. \/ i[t] > NumSlots /\ res'[t] = 0
          \/ i[t] \in Slots /\ tid[i[t]] = t /\ res'[t] = i[t]
      BY <1>0, <1>4, <2>3, <2>4 DEF Test, Goto, Wanted
    <3>3. CASE i[t] > NumSlots /\ res'[t] = 0
      <4>1. \A s \in Slots : s < i[t]
        BY <3>3, TableAssumption DEF Slots
      <4>2. Atomic!HasNone(t)
        BY <3>1, <4>1 DEF LookupOK, Atomic!HasNone, Atomic!Slots, Slots
      <4> QED
        BY <1>0, <2>2, <2>4, <3>3, <4>2 DEF Atomic!Find, Atomic!Next
    <3>4. CASE i[t] \in Slots /\ tid[i[t]] = t /\ res'[t] = i[t]
      <4>1. Atomic!Find(t)
        BY <1>0, <2>2, <2>4, <3>4 DEF Atomic!Find, Atomic!Slots, Slots
      <4> QED
        BY <4>1 DEF Atomic!Next
    <3> QED
      BY <3>2, <3>3, <3>4
  <2>5. CASE op[t] = "alloc"
    <3>1. i[t] > NumSlots /\ res'[t] = 0
      BY <1>0, <1>4, <2>3, <2>5 DEF Test, Goto, Hit
    <3>2. \A s \in Slots : s < i[t]
      BY <3>1, TableAssumption DEF Slots
    <3>3. \A s \in Slots : tid[s] # NoTid
      BY <1>0, <2>5, <3>2 DEF AllocInv, AllocOK
    <3>4. Atomic!HasNone(t) /\ Atomic!HasNone(0)
      BY <1>0, <2>5, <3>3, AllocatorHasNone DEF Atomic!HasNone, Atomic!Slots, Slots, NoTid
    <3> QED
      BY <1>0, <2>2, <2>5, <3>1, <3>4 DEF Atomic!AllocateFails, Atomic!Next
  <2> QED
    BY <1>4, <2>4, <2>5 DEF Ops
<1> QED
  BY <1>3, <1>4

LEMMA AtomicClaim ==
  ASSUME TableInv, NEW t \in Threads, Claim(t) PROVE Atomic!Next
<1>1. /\ tid' = [tid EXCEPT ![i[t]] = t] /\ pc' = [pc EXCEPT ![t] = "unlock"]
      /\ op' = op /\ res' = res /\ saved' = saved /\ pc[t] = "claim"
  BY DEF Claim, Goto
<1>2. i[t] \in Slots /\ tid[i[t]] = NoTid /\ op[t] = "alloc" /\ res[t] = i[t]
  BY <1>1 DEF TableInv, TypeInv, IndexOK, SlotInv, FrameOK
<1>3. KeepsAnswers(t) /\ pc'[t] = "unlock"
  BY <1>1, OthersAnswers DEF TableInv, TypeInv, TypeOK
<1>4. AnswersOf(t)' = AnswersOf(t) \cup {<<"alloc", i[t]>>}
  BY <1>1, <1>2, <1>3 DEF AnswersOf, Answering
<1>5. Answers' = [Answers EXCEPT ![t] = Answers[t] \cup {<<"alloc", i[t]>>}]
  BY <1>3, <1>4, AnswersChange
<1>6. Atomic!Answer(t, "alloc", i[t])
  BY <1>5 DEF Atomic!Answer, Answers
<1>7. Atomic!HasNone(t)
  BY <1>1, <1>2, AllocatorHasNone DEF Atomic!HasNone, Atomic!Slots, Slots
<1>8. Atomic!Allocate(t)
  BY <1>1, <1>2, <1>6, <1>7 DEF Atomic!Allocate, Atomic!Slots, Slots, NoTid
<1> QED
  BY <1>8 DEF Atomic!Next

LEMMA AtomicClear ==
  ASSUME TableInv, NEW t \in Threads, Clear(t) PROVE Atomic!Next
<1>1. /\ tid' = [tid EXCEPT ![i[t]] = NoTid] /\ pc' = [pc EXCEPT ![t] = "release"]
      /\ op' = op /\ res' = res /\ saved' = saved /\ pc[t] = "clear"
  BY DEF Clear, Goto
<1>2. i[t] \in Slots /\ tid[i[t]] = t /\ op[t] = "free" /\ res[t] = i[t]
  BY <1>1 DEF TableInv, TypeInv, IndexOK, SlotInv, FrameOK
<1>3. KeepsAnswers(t) /\ pc'[t] = "release"
  BY <1>1, OthersAnswers DEF TableInv, TypeInv, TypeOK
<1>4. AnswersOf(t)' = AnswersOf(t) \cup {<<"free", i[t]>>}
  BY <1>1, <1>2, <1>3 DEF AnswersOf, Answering
<1>5. Answers' = [Answers EXCEPT ![t] = Answers[t] \cup {<<"free", i[t]>>}]
  BY <1>3, <1>4, AnswersChange
<1>6. Atomic!Answer(t, "free", i[t])
  BY <1>5 DEF Atomic!Answer, Answers
<1>7. Atomic!Free(t)
  BY <1>1, <1>2, <1>6 DEF Atomic!Free, Atomic!Slots, Slots, NoTid
<1> QED
  BY <1>7 DEF Atomic!Next

LEMMA AtomicRelease ==
  ASSUME TableInv, NEW t \in Threads, Release(t) PROVE Atomic!Next
<1>1. /\ tid' = tid /\ op' = op /\ res' = res /\ saved' = saved
      /\ pc' = [pc EXCEPT ![t] = "test"] /\ pc[t] = "release"
  BY DEF Release, Goto
<1>2. op[t] = "free" /\ saved[t].pc = "idle"
  BY <1>1 DEF TableInv, SlotInv, FrameOK, SlotOnceInv, AllocatesOnce
<1>3. KeepsAnswers(t) /\ pc'[t] = "test"
  BY <1>1, OthersAnswers DEF TableInv, TypeInv, TypeOK
<1>4. AnswersOf(t) = {<<"free", res[t]>>} /\ AnswersOf(t)' = {}
  BY <1>1, <1>2, <1>3 DEF AnswersOf, Answering
<1>5. /\ <<"free", res[t]>> \in Answers[t]
      /\ Answers' = [Answers EXCEPT ![t] = Answers[t] \ {<<"free", res[t]>>}]
  BY <1>3, <1>4, AnswersChange
<1>6. Atomic!Return(t)
  BY <1>1, <1>5 DEF Atomic!Return, Answers
<1> QED
  BY <1>6 DEF Atomic!Next

(* An operation returns: its answer is gone, unless the operation that its *)
(* handler had interrupted has the same.                                   *)
LEMMA AtomicReturn ==
  ASSUME TableInv, NEW t \in Threads, unlock_contexts(t)
  PROVE  Atomic!Next \/ UNCHANGED <<tid, Answers>>
<1> DEFINE X == Answering("unlock", op[t], res[t])
           Y == Answering(saved[t].pc, saved[t].op, saved[t].res)
<1>1. /\ tid' = tid /\ pc[t] = "unlock" /\ pc' = [pc EXCEPT ![t] = saved[t].pc]
      /\ saved' = [saved EXCEPT ![t] = NoFrame]
      /\ saved[t] # NoFrame => op'[t] = saved[t].op /\ res'[t] = saved[t].res
      /\ \A u \in Threads \ {t} : op'[u] = op[u] /\ res'[u] = res[u]
  BY DEF unlock_contexts, TableInv, TypeInv, TypeOK
<1>2. KeepsAnswers(t)
  BY <1>1, OthersAnswers DEF TableInv, TypeInv, TypeOK
<1>3. saved'[t].pc = "idle" /\ pc'[t] = saved[t].pc /\ NoFrame.pc = "idle"
  BY <1>1 DEF TableInv, TypeInv, TypeOK, NoFrame
<1>4. AnswersOf(t) = X \cup Y /\ AnswersOf(t)' = Y
  BY <1>1, <1>3 DEF AnswersOf, Answering
<1>5. CASE X \subseteq Y
  BY <1>1, <1>2, <1>4, <1>5, AnswersStay
<1>6. CASE ~(X \subseteq Y)
  <2>1. PICK a \in X : a \notin Y
    BY <1>6
  <2>2. X = {a}
    BY <2>1 DEF Answering
  <2>3. a \in AnswersOf(t) /\ AnswersOf(t)' = AnswersOf(t) \ {a}
    BY <1>4, <2>1, <2>2
  <2>4. a \in Answers[t] /\ Answers' = [Answers EXCEPT ![t] = Answers[t] \ {a}]
    BY <1>2, <2>3, AnswersChange
  <2>5. Atomic!Return(t)
    BY <1>1, <2>4 DEF Atomic!Return, Answers
  <2> QED
    BY <2>5 DEF Atomic!Next
<1> QED
  BY <1>5, <1>6

LEMMA AtomicStep ==
  ASSUME TableInv, AllocInv, [Next]_vars PROVE Atomic!Next \/ UNCHANGED <<tid, Answers>>
<1> USE DEF TableInv, TypeInv, TypeOK
<1>1. ASSUME NEW t \in Threads, NEW o \in Ops, Call(t, o) PROVE UNCHANGED <<tid, Answers>>
  <2>1. /\ tid' = tid /\ saved' = saved /\ pc[t] = "idle" /\ pc'[t] = "lock"
        /\ \A u \in Threads \ {t} : pc'[u] = pc[u] /\ op'[u] = op[u] /\ res'[u] = res[u]
    BY <1>1 DEF Call, Begin, Goto
  <2>2. AnswersOf(t)' = AnswersOf(t)
    BY <2>1 DEF AnswersOf, Answering
  <2> QED
    BY <2>1, <2>2, OthersAnswers, AnswersStay
<1>2. ASSUME NEW t \in Threads, Interrupt(t) PROVE UNCHANGED <<tid, Answers>>
  <2>1. /\ tid' = tid /\ saved[t].pc = "idle" /\ pc'[t] = "lock"
        /\ saved'[t].pc = pc[t] /\ saved'[t].op = op[t] /\ saved'[t].res = res[t]
        /\ \A u \in Threads \ {t} : /\ pc'[u] = pc[u] /\ op'[u] = op[u] /\ res'[u] = res[u]
                                    /\ saved'[u] = saved[u]
    BY <1>2 DEF Interrupt, Begin, Goto, NoFrame
  <2>2. AnswersOf(t)' = AnswersOf(t)
    BY <2>1 DEF AnswersOf, Answering
  <2> QED
    BY <2>1, <2>2, OthersAnswers, AnswersStay
<1>3. ASSUME NEW t \in Threads, lock_contexts(t) PROVE UNCHANGED <<tid, Answers>>
  <2>1. /\ tid' = tid /\ saved' = saved /\ op' = op /\ res' = res
        /\ pc[t] = "lock" /\ pc'[t] = "test"
        /\ \A u \in Threads \ {t} : pc'[u] = pc[u]
    BY <1>3 DEF lock_contexts, Goto
  <2>2. AnswersOf(t)' = AnswersOf(t)
    BY <2>1 DEF AnswersOf, Answering
  <2> QED
    BY <2>1, <2>2, OthersAnswers, AnswersStay
<1>4. CASE UNCHANGED vars
  BY <1>4 DEF vars, Answers, AnswersOf
<1> QED
  BY <1>1, <1>2, <1>3, <1>4, AtomicTest, AtomicClaim, AtomicClear, AtomicRelease, AtomicReturn
  DEF Next, Step, Spin, Quiet

(* As long as no thread frees its slot, or in a target of two threads, the *)
(* table is what the rest of FPSpy takes it for: find_, alloc_ and         *)
(* free_monitoring_context(), with their lock, their loops and the SIGALRM *)
(* handlers that interrupt them, behave as if each happened at an instant. *)
THEOREM AtomicTableImplemented ==
  ASSUME ~Frees \/ TwoThreads PROVE Spec => ImplementsAtomicTable
<1> DEFINE answers == [t \in Threads |-> AnswersOf(t)]
<1>1. Init => Atomic!Init
  <2> SUFFICES ASSUME Init PROVE Atomic!Init
    OBVIOUS
  <2>1. \A t \in Threads : AnswersOf(t) = {}
    BY DEF Init, AnswersOf, Answering, NoFrame
  <2> QED
    BY <2>1 DEF Init, Atomic!Init, Atomic!Slots, Slots, NoTid
<1>2. TableInv /\ AllocInv /\ [Next]_vars => [Atomic!Next]_<<tid, answers>>
  BY AtomicStep DEF Answers
<1> QED
  BY <1>1, <1>2, TableInvAlways, PTL DEF Spec, ImplementsAtomicTable, Atomic!Spec

=============================================================================
