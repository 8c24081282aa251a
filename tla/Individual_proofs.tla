------------------------- MODULE Individual_proofs --------------------------
(***************************************************************************)
(* Proofs about individual mode, for every set of threads, every event     *)
(* limit, buffer length and sample period: the types, and that a monitored *)
(* thread's registers are what its state promises.                         *)
(***************************************************************************)
EXTENDS Individual, TLAPS

-----------------------------------------------------------------------------
(* What the handlers do to registers and contexts.                         *)

LEMMA WatchOK ==
  ASSUME NEW u \in Registers
  PROVE  /\ Watch(u) \in Registers
         /\ ~Watch(u).mask /\ ~Watch(u).tf /\ Watch(u).insn = u.insn
BY DEF Watch, arch_reset_trap_mode, SetRound, arch_unmask_fp_traps, arch_clear_fp_exceptions,
       Registers, Rounds

LEMMA StepOverOK ==
  ASSUME NEW u \in Registers
  PROVE  /\ StepOver(u) \in Registers
         /\ StepOver(u).mask /\ StepOver(u).tf /\ StepOver(u).insn = u.insn
BY DEF StepOver, arch_set_trap_mode, SetRound, arch_mask_fp_traps, arch_clear_fp_exceptions,
       Registers, Rounds

LEMMA QuiesceOK ==
  ASSUME NEW u \in Registers, origRound \in Rounds
  PROVE  /\ Quiesce(u) \in Registers
         /\ Quiesce(u).mask /\ ~Quiesce(u).tf /\ Quiesce(u).insn = u.insn
BY DEF Quiesce, arch_reset_trap_mode, SetRound, arch_mask_fp_traps, arch_clear_fp_exceptions,
       Registers

LEMMA FlipTrapsOK ==
  ASSUME NEW m \in Contexts, NEW u \in Registers
  PROVE  /\ FlipTraps(m, u) \in Registers
         /\ FlipTraps(m, u).mask = m.on /\ ~FlipTraps(m, u).tf
         /\ FlipTraps(m, u).insn = u.insn
BY DEF FlipTraps, arch_reset_trap_mode, arch_unmask_fp_traps, arch_mask_fp_traps,
       arch_clear_fp_exceptions, Registers, Contexts

LEMMA FlipSamplerOK ==
  ASSUME NEW m \in Contexts
  PROVE  /\ FlipSampler(m) \in Contexts
         /\ FlipSampler(m).state = m.state /\ FlipSampler(m).count = m.count
         /\ FlipSampler(m).inTrap = m.inTrap
         /\ FlipSampler(m).on = ~m.on /\ ~FlipSampler(m).delayed
BY DEF FlipSampler, Contexts

LEMMA CountedOK ==
  ASSUME NEW m \in Contexts
  PROVE  /\ Counted(m) \in Contexts
         /\ Counted(m).state = "AWAIT_FPE" /\ Counted(m).count = m.count + 1
         /\ Counted(m).inTrap = m.inTrap /\ Counted(m).on = m.on
         /\ Counted(m).delayed = m.delayed
<1>1. m.count \in Nat /\ m.count + 1 \in Nat
  BY DEF Contexts
<1> DEFINE c == m.count + 1
<1>2. Counted(m) = [m EXCEPT !.count = c, !.state = "AWAIT_FPE"]
  BY DEF Counted, Contexts
<1> HIDE DEF c
<1>3. c \in Nat
  BY <1>1 DEF c
<1>4. Counted(m) \in Contexts /\ Counted(m).count = c /\ Counted(m).state = "AWAIT_FPE"
  BY <1>2, <1>3 DEF Contexts, States
<1> QED
  BY <1>2, <1>4 DEF Contexts, c

LEMMA FreshOK ==
  ASSUME NEW d \in BOOLEAN
  PROVE  /\ FreshContext(d) \in Contexts
         /\ FreshContext(d).state = "INIT" /\ FreshContext(d).on
         /\ ~FreshContext(d).inTrap /\ FreshContext(d).delayed = d
BY DEF FreshContext, Contexts, States

(* push_trace_record() changes nothing of the context but its buffer.      *)
LEMMA PushOK ==
  ASSUME TypeOK, NEW t \in Threads, NEW m \in Contexts, NEW r \in Nat,
         push_trace_record(t, m, r)
  PROVE  /\ mc' \in [Threads -> Contexts]
         /\ file' \in [Threads -> Seq(Nat)]
         /\ mc'[t].state = m.state /\ mc'[t].count = m.count /\ mc'[t].inTrap = m.inTrap
         /\ mc'[t].on = m.on /\ mc'[t].delayed = m.delayed
         /\ \A u \in Threads \ {t} : mc'[u] = mc[u]
<1> DEFINE n == Buffered(m, r)
<1> DEFINE k == [n EXCEPT !.buf = <<>>]
<1>1. n \in Contexts /\ n = [m EXCEPT !.buf = Append(m.buf, r)]
  BY DEF Buffered, Contexts
<1>2. k \in Contexts
  <2>1. <<>> \in Seq(Nat)
    OBVIOUS
  <2> HIDE DEF n
  <2> QED
    BY <1>1, <2>1 DEF Contexts
<1>3. n.buf \in Seq(Nat) /\ file[t] \in Seq(Nat)
  BY <1>1 DEF Contexts, TypeOK
<1>4. file[t] \o n.buf \in Seq(Nat)
  BY <1>3
<1>5. CASE ~CreateMonitorFile
  BY <1>5 DEF push_trace_record, TypeOK
<1>6. CASE CreateMonitorFile /\ BufFull(n)
  <2>1. mc' = [mc EXCEPT ![t] = k] /\ file' = [file EXCEPT ![t] = file[t] \o n.buf]
    BY <1>6 DEF push_trace_record
  <2>2. /\ k.state = m.state /\ k.count = m.count /\ k.inTrap = m.inTrap
        /\ k.on = m.on /\ k.delayed = m.delayed
    BY <1>1 DEF Contexts
  <2> HIDE DEF k, n
  <2> QED
    BY <1>2, <1>4, <2>1, <2>2 DEF TypeOK
<1>7. CASE CreateMonitorFile /\ ~BufFull(n)
  <2>1. mc' = [mc EXCEPT ![t] = n] /\ file' = file
    BY <1>7 DEF push_trace_record
  <2>2. /\ n.state = m.state /\ n.count = m.count /\ n.inTrap = m.inTrap
        /\ n.on = m.on /\ n.delayed = m.delayed
    BY <1>1 DEF Contexts
  <2> HIDE DEF n
  <2> QED
    BY <1>1, <2>1, <2>2 DEF TypeOK
<1> QED
  BY <1>5, <1>6, <1>7

-----------------------------------------------------------------------------
(* Type correctness, one lemma per group of actions.                       *)

LEMMA DieType ==
  ASSUME TypeOK, NEW f \in {"leaked", "crashed", "hung", "unmonitored"}, Die(f) PROVE TypeOK'
BY DEF Die, TypeOK, tvars

LEMMA StepsOK ==
  /\ {"unborn", "boot", "install", "tramp", "kick", "user", "gone"} \subseteq Steps
  /\ AbortSteps \subseteq Steps /\ AlarmSteps \subseteq Steps /\ "none" \notin Steps
BY DEF Steps, AbortSteps, AlarmSteps

LEMMA EnterAbortType ==
  ASSUME TypeOK, NEW t \in Threads, NEW b \in Steps \cup {"none"}, EnterAbort(t, b)
  PROVE  pc' \in [Threads -> Steps] /\ back' \in [Threads -> Steps \cup {"none"}]
<1>1. "restoreFpe" \in Steps /\ "user" \in Steps
  BY DEF Steps, AbortSteps
<1> QED
  BY <1>1 DEF EnterAbort, TypeOK

LEMMA EditedType ==
  ASSUME TypeOK, NEW t \in Threads, NEW b, NEW v \in Registers
  PROVE  Edited(t, b, v) \in [Threads -> Registers]
BY DEF Edited, TypeOK

LEMMA UpdateSamplerType ==
  ASSUME TypeOK, NEW t \in Threads, NEW m \in Contexts, NEW u \in Registers, NEW b,
         update_sampler(t, m, u, b)
  PROVE  /\ mc' \in [Threads -> Contexts] /\ uc' \in [Threads -> Registers]
         /\ timer' \in BOOLEAN
<1>1. FlipTraps(m, u) \in Registers /\ FlipSampler(m) \in Contexts
  BY FlipTrapsOK, FlipSamplerOK
<1> QED
  BY <1>1, EditedType DEF update_sampler, TypeOK

LEMMA HandlerType ==
  ASSUME TypeOK, NEW t \in Threads, NEW u \in Registers, NEW b \in Steps, NEW a \in BOOLEAN,
         brk_trap_handler(t, u, b, a), pend' \in BOOLEAN, under' \in [Threads -> Steps]
  PROVE  TypeOK'
<1> USE DEF TypeOK
<1> DEFINE Parts == /\ mc' \in [Threads -> Contexts] /\ uc' \in [Threads -> Registers]
                    /\ pc' \in [Threads -> Steps]
                    /\ back' \in [Threads -> Steps \cup {"none"}]
                    /\ origRound' \in Rounds /\ timer' \in BOOLEAN
<1>0. origRound \in Rounds /\ mc[t] \in Contexts /\ u.rnd \in Rounds
  BY DEF Steps, Registers
<1>1. ASSUME BrkInit(t, u, b, a) PROVE Parts
  <2>1. [mc[t] EXCEPT !.state = "AWAIT_FPE"] \in Contexts
    BY <1>0 DEF Contexts, States
  <2>2. mc' = [mc EXCEPT ![t] = [mc[t] EXCEPT !.state = "AWAIT_FPE"]]
    BY <1>1 DEF BrkInit
  <2>3. Watch(u) \in Registers
    BY WatchOK
  <2>4. mc' \in [Threads -> Contexts]
    BY <2>1, <2>2
  <2> QED
    BY <1>0, <1>1, <2>3, <2>4, EditedType DEF BrkInit
<1>2. ASSUME BrkStepped(t, u, b, a) PROVE Parts
  <2> DEFINE m == Counted(mc[t])
  <2> DEFINE v == IF LimitReached(m.count) THEN Quiesce(u) ELSE Watch(u)
  <2>1. m \in Contexts
    BY <1>0, CountedOK
  <2>2. v \in Registers
    BY <1>0, WatchOK, QuiesceOK
  <2>3. \/ update_sampler(t, m, v, b)
        \/ mc' = [mc EXCEPT ![t] = m] /\ uc' = Edited(t, b, v) /\ timer' = a
    BY <1>2 DEF BrkStepped
  <2> HIDE DEF m, v
  <2>4. /\ mc' \in [Threads -> Contexts] /\ uc' \in [Threads -> Registers]
        /\ timer' \in BOOLEAN
    <3>1. CASE update_sampler(t, m, v, b)
      BY <2>1, <2>2, <3>1, UpdateSamplerType
    <3>2. CASE mc' = [mc EXCEPT ![t] = m] /\ uc' = Edited(t, b, v) /\ timer' = a
      BY <2>1, <2>2, <3>2, EditedType
    <3> QED
      BY <2>3, <3>1, <3>2
  <2> QED
    BY <1>0, <1>2, <2>4 DEF BrkStepped
<1>3. ASSUME BrkAborted(t, u, b, a) PROVE Parts
  BY <1>0, <1>3, QuiesceOK, EditedType DEF BrkAborted
<1>4. ASSUME BrkSurprise(t, u, b, a) PROVE Parts
  <2>1. [mc[t] EXCEPT !.inTrap = TRUE] \in Contexts
    BY <1>0 DEF Contexts
  <2>2. mc' = mc \/ mc' = [mc EXCEPT ![t] = [mc[t] EXCEPT !.inTrap = TRUE]]
    BY <1>4 DEF BrkSurprise
  <2>3. mc' \in [Threads -> Contexts]
    BY <2>1, <2>2
  <2>4. Quiesce(u) \in Registers
    BY <1>0, QuiesceOK
  <2>5. pc' \in [Threads -> Steps] /\ back' \in [Threads -> Steps \cup {"none"}]
    BY <1>4, EnterAbortType DEF BrkSurprise
  <2> QED
    BY <1>4, <2>3, <2>4, <2>5, EditedType DEF BrkSurprise
<1>5. Parts
  BY <1>1, <1>2, <1>3, <1>4 DEF brk_trap_handler
<1> QED
  BY <1>5 DEF brk_trap_handler

LEMMA BrkType ==
  ASSUME TypeOK, NEW t \in Threads, NEW u \in Registers, NEW p \in BOOLEAN, NEW b \in Steps,
         SigTrap(t, u, p, b)
  PROVE  TypeOK'
<1>1. timer \in BOOLEAN /\ under \in [Threads -> Steps]
  BY DEF TypeOK
<1> QED
  BY <1>1, DieType, HandlerType DEF SigTrap

LEMMA FaultType ==
  ASSUME TypeOK, NEW t \in Threads, NEW j \in {"fp", "intdiv"}, NEW n \in Nat,
         fp_trap_handler(t, j, n)
  PROVE  TypeOK'
<1> USE DEF TypeOK
<1>1. CASE ~Fault(t, j, n)
  BY <1>1, DieType DEF fp_trap_handler
<1>2. CASE Fault(t, j, n)
  <2> DEFINE u == [uc[t] EXCEPT !.insn = j, !.dirty = @ \/ j = "fp"]
  <2> DEFINE m == IF mc[t].state = "AWAIT_FPE" THEN [mc[t] EXCEPT !.state = "AWAIT_TRAP"]
                  ELSE mc[t]
  <2>1. mc[t] \in Contexts /\ uc[t] \in Registers
    OBVIOUS
  <2>2. m \in Contexts
    BY <2>1 DEF Contexts, States
  <2>3. u \in Registers
    BY <2>1 DEF Registers
  <2>4. push_trace_record(t, m, n) \/ (mc' = [mc EXCEPT ![t] = m] /\ file' = file)
    BY <1>2 DEF Fault
  <2>5. uc' = [uc EXCEPT ![t] = StepOver(u)] \/ uc' = [uc EXCEPT ![t] = Quiesce(u)]
    BY <1>2 DEF Fault
  <2>6. UNCHANGED <<pc, back>> \/ EnterAbort(t, "user")
    BY <1>2 DEF Fault
  <2> HIDE DEF m, u
  <2>7. mc' \in [Threads -> Contexts] /\ file' \in [Threads -> Seq(Nat)]
    BY <2>2, <2>4, PushOK
  <2>8. uc' \in [Threads -> Registers]
    <3>1. StepOver(u) \in Registers
      BY <2>3, StepOverOK
    <3>2. Quiesce(u) \in Registers
      BY <2>3, QuiesceOK
    <3> QED
      BY <2>5, <3>1, <3>2
  <2>9. pc' \in [Threads -> Steps] /\ back' \in [Threads -> Steps \cup {"none"}]
    BY <2>6, EnterAbortType, StepsOK
  <2> QED
    BY <1>2, <2>7, <2>8, <2>9 DEF Fault, gvars
<1> QED
  BY <1>1, <1>2

LEMMA TargetType ==
  ASSUME TypeOK, NEW t \in Threads, Target(t) PROVE TypeOK'
<1> USE DEF TypeOK
<1>0. Number(t) \in Nat /\ uc[t] \in Registers /\ mc[t] \in Contexts
  BY DEF Number
<1>1. CASE FpTraps(t)
  BY <1>0, <1>1, FaultType, DieType DEF FpTraps
<1>2. CASE FpSilent(t)
  <2>1. Executed(t) \in Registers
    BY <1>0 DEF Executed, Registers
  <2> QED
    BY <1>2, <2>1 DEF FpSilent, gvars
<1>3. CASE IntDivTraps(t)
  BY <1>0, <1>3, FaultType, DieType DEF IntDivTraps
<1>4. CASE TargetConflict(t)
  <2>1. arch_clear_fp_exceptions(arch_mask_fp_traps(uc[t])) \in Registers
    BY <1>0 DEF arch_clear_fp_exceptions, arch_mask_fp_traps, Registers
  <2>2. uc' \in [Threads -> Registers]
    BY <1>4, <2>1 DEF TargetConflict
  <2>3. pc' \in [Threads -> Steps] /\ back' \in [Threads -> Steps \cup {"none"}]
    BY <1>4, EnterAbortType DEF TargetConflict
  <2> QED
    BY <1>4, <2>2, <2>3 DEF TargetConflict, gvars
<1>5. ASSUME teardown_monitoring_context(t)
      PROVE  /\ mc' \in [Threads -> Contexts] /\ file' \in [Threads -> Seq(Nat)]
             /\ tracked' \in [Threads -> BOOLEAN] /\ leftDelayed' \in BOOLEAN
  <2>1. file[t] \in Seq(Nat) /\ mc[t].buf \in Seq(Nat) /\ <<>> \in Seq(Nat)
        /\ mc[t].delayed \in BOOLEAN
    BY <1>0 DEF Contexts
  <2>2. file[t] \o mc[t].buf \in Seq(Nat)
    BY <2>1
  <2>3. [mc[t] EXCEPT !.buf = <<>>, !.on = TRUE, !.delayed = FALSE] \in Contexts
    BY <1>0, <2>1 DEF Contexts
  <2>4. CASE tracked[t]
    <3>1. mc' = [mc EXCEPT ![t] = [mc[t] EXCEPT !.buf = <<>>, !.on = TRUE, !.delayed = FALSE]]
      BY <1>5, <2>4 DEF teardown_monitoring_context
    <3>2. mc' \in [Threads -> Contexts]
      BY <2>3, <3>1
    <3> QED
      BY <1>5, <2>1, <2>2, <2>4, <3>2 DEF teardown_monitoring_context
  <2>5. CASE ~tracked[t]
    BY <1>5, <2>5 DEF teardown_monitoring_context
  <2> QED
    BY <2>4, <2>5
<1>6. CASE ThreadExit(t)
  BY <1>5, <1>6 DEF ThreadExit
<1>7. CASE ProcessExit(t)
  BY <1>5, <1>7 DEF ProcessExit
<1>8. CASE Interrupted(t)
  BY <1>5, <1>8 DEF Interrupted
<1>9. CASE ThreadEnd(t)
  <2>1. HandlerRegisters \in Registers
    BY DEF HandlerRegisters, Registers, Rounds
  <2> QED
    BY <1>9, <2>1, StepsOK DEF ThreadEnd
<1>10. CASE \E u \in Threads : Create(t, u)
  BY <1>10, StepsOK DEF Create, gvars
<1> QED
  BY <1>1, <1>2, <1>3, <1>4, <1>6, <1>7, <1>8, <1>9, <1>10 DEF Target

LEMMA AlarmType ==
  ASSUME TypeOK, NEW t \in Threads, NEW a \in BOOLEAN,
         \/ sigalrm_handler(t, a)
         \/ Defer(t) /\ timer' = timer
         \/ update_sampler(t, mc[t], uc[t], "user")
  PROVE  /\ mc' \in [Threads -> Contexts] /\ uc' \in [Threads -> Registers]
         /\ timer' \in BOOLEAN
<1>0. uc[t] \in Registers /\ mc[t] \in Contexts /\ timer \in BOOLEAN
  BY DEF TypeOK
<1>1. [mc[t] EXCEPT !.delayed = TRUE] \in Contexts
  BY <1>0 DEF Contexts
<1>2. Defer(t) => mc' \in [Threads -> Contexts] /\ uc' \in [Threads -> Registers]
  <2>1. Defer(t) => /\ uc' = uc
                    /\ \/ mc' = mc
                       \/ mc' = [mc EXCEPT ![t] = [mc[t] EXCEPT !.delayed = TRUE]]
    BY DEF Defer
  <2> QED
    BY <1>1, <2>1 DEF TypeOK
<1> QED
  BY <1>0, <1>2, UpdateSamplerType DEF sigalrm_handler

LEMMA KernelType ==
  ASSUME TypeOK, NEW t \in Threads, Kernel(t) PROVE TypeOK'
<1>0. /\ uc[t] \in Registers /\ mc[t] \in Contexts /\ Executed(t) \in Registers
      /\ pc[t] \in Steps /\ pend \in BOOLEAN
  BY DEF Executed, Registers, TypeOK
<1>00. HandlerRegisters \in Registers
  BY DEF HandlerRegisters, Registers, Rounds
<1>1. CASE FpStepped(t)
  BY <1>0, <1>1, BrkType, StepsOK DEF FpStepped
<1>2. CASE DeliverTrap(t)
  BY <1>0, <1>00, <1>2, BrkType DEF DeliverTrap
<1>3. CASE Alarm(t)
  <2>1. CASE saAlrm # "fpspy"
    BY <1>3, <2>1, DieType DEF Alarm
  <2>2. CASE saAlrm = "fpspy"
    <3>1. /\ mc' \in [Threads -> Contexts] /\ uc' \in [Threads -> Registers]
          /\ timer' \in BOOLEAN
      BY <1>3, <2>2, AlarmType DEF Alarm
    <3> QED
      BY <1>3, <2>2, <3>1 DEF Alarm, TypeOK
  <2> QED
    BY <2>1, <2>2
<1>4. CASE AlarmTrapped(t)
  <2>1. PICK b \in Steps : brk_trap_handler(t, HandlerRegisters, b, FALSE)
    BY <1>4, StepsOK DEF AlarmTrapped, AlarmSteps
  <2>2. pend' \in BOOLEAN /\ under' \in [Threads -> Steps]
    BY <1>0, <1>4 DEF AlarmTrapped, TypeOK
  <2> QED
    BY <1>00, <2>1, <2>2, HandlerType
<1>5. CASE AlarmHangs(t) \/ TrapHangs(t)
  BY <1>5, DieType DEF AlarmHangs, TrapHangs
<1> QED
  BY <1>1, <1>2, <1>3, <1>4, <1>5 DEF Kernel

LEMMA ResumeType ==
  ASSUME TypeOK, NEW t \in Threads, AlarmResumes(t) PROVE TypeOK'
<1>1. timer \in BOOLEAN /\ pc[t] \in AlarmSteps
  BY DEF TypeOK, AlarmResumes
<1>2. /\ mc' \in [Threads -> Contexts] /\ uc' \in [Threads -> Registers]
      /\ timer' \in BOOLEAN
  BY <1>1, AlarmType DEF AlarmResumes, AlarmSteps
<1>3. pc' \in [Threads -> Steps] /\ under' \in [Threads -> Steps]
  BY StepsOK DEF TypeOK, AlarmResumes
<1> QED
  BY <1>2, <1>3 DEF TypeOK, AlarmResumes

LEMMA NewContextType ==
  ASSUME TypeOK, NEW t \in Threads, NewContext(t)
  PROVE  /\ mc' \in [Threads -> Contexts] /\ tracked' \in [Threads -> BOOLEAN]
         /\ timer' \in BOOLEAN
<1>1. \A d \in {FALSE, leftDelayed} : FreshContext(d) \in Contexts
  BY FreshOK DEF TypeOK
<1> QED
  BY <1>1 DEF NewContext, init_sampler, TypeOK

LEMMA AbortType ==
  ASSUME TypeOK, NEW t \in Threads, Abort(t) PROVE TypeOK'
<1> USE DEF TypeOK, At, Goto, Steps, AbortSteps
<1>1. CASE AbortRestoreFpe(t)
  BY <1>1 DEF AbortRestoreFpe
<1>2. CASE AbortMark(t)
  <2>1. [mc[t] EXCEPT !.state = "ABORT"] \in Contexts /\ AbortRecord \in Nat
    BY DEF Contexts, States, AbortRecord
  <2>2. mc' \in [Threads -> Contexts] /\ file' \in [Threads -> Seq(Nat)]
    BY <1>2, <2>1, PushOK DEF AbortMark
  <2> QED
    BY <1>2, <2>2 DEF AbortMark, gvars
<1>3. CASE AbortKick(t)
  <2>1. Quiesce(uc[t]) \in Registers
    BY QuiesceOK
  <2>2. uc' \in [Threads -> Registers]
    BY <1>3, <2>1 DEF AbortKick
  <2> QED
    BY <1>3, <2>2 DEF AbortKick, gvars
<1>4. CASE AbortRestoreTrap(t)
  BY <1>4 DEF AbortRestoreTrap
<1>5. CASE AbortSetAborted(t)
  BY <1>5 DEF AbortSetAborted, Return
<1> QED
  BY <1>1, <1>2, <1>3, <1>4, <1>5 DEF Abort

LEMMA TypeInit == Init => TypeOK
<1> SUFFICES ASSUME Init PROVE TypeOK
  OBVIOUS
<1>1. mc \in [Threads -> Contexts]
  BY FreshOK DEF Init
<1>2. uc \in [Threads -> Registers]
  BY DEF Init, Registers, Rounds
<1>3. file \in [Threads -> Seq(Nat)]
  BY DEF Init
<1> QED
  BY <1>1, <1>2, <1>3 DEF Init, TypeOK, Steps, Rounds

LEMMA TypeNext == ASSUME TypeOK, [Next]_vars PROVE TypeOK'
<1>0. Main \in Threads
  BY ConstantsAssumption
<1>1. CASE Boot
  <2>1. NewContext(Main)
    BY <1>1 DEF Boot
  <2> QED
    BY <1>0, <1>1, <2>1, NewContextType DEF Boot, TypeOK, Steps
<1>2. CASE Install
  BY <1>0, <1>2, ConstantsAssumption DEF Install, TypeOK, Steps
<1>3. ASSUME NEW t \in Threads, Target(t) \/ Kernel(t) \/ Abort(t) \/ AlarmResumes(t)
      PROVE  TypeOK'
  BY <1>3, TargetType, KernelType, AbortType, ResumeType
<1>4. ASSUME NEW t \in Threads, Tramp(t) PROVE TypeOK'
  <2>1. arch_clear_fp_exceptions(uc[t]) \in Registers
    BY DEF arch_clear_fp_exceptions, Registers, TypeOK
  <2>2. /\ mc' \in [Threads -> Contexts] /\ tracked' \in [Threads -> BOOLEAN]
        /\ timer' \in BOOLEAN
    BY <1>4, NewContextType DEF Tramp, TypeOK
  <2> QED
    BY <1>4, <2>1, <2>2 DEF Tramp, TypeOK, Steps
<1>5. ASSUME NEW t \in Threads, Kick(t) PROVE TypeOK'
  BY <1>5, BrkType, StepsOK DEF Kick, TypeOK
<1>7. CASE BootFails
  BY <1>7, DieType DEF BootFails
<1>6. CASE UNCHANGED vars
  BY <1>6 DEF vars, tvars, gvars, TypeOK
<1> QED
  BY <1>1, <1>2, <1>3, <1>4, <1>5, <1>6, <1>7 DEF Next, Terminated

(* The types of the state, for all values of the constants.                *)
THEOREM TypeCorrect == Spec => []TypeOK
BY TypeInit, TypeNext, PTL DEF Spec

-----------------------------------------------------------------------------
(* The inductive invariant behind TrapsMatchState.                         *)

(* A thread has no context before bringup_monitoring_context(), and a      *)
(* fresh one until its first SIGTRAP.                                      *)
FreshUntilKicked(t) ==
  /\ pc[t] \in {"boot", "install"} => t = Main /\ ~uc[t].tf
  /\ pc[t] \in {"unborn", "boot", "tramp"} => ~tracked[t]
  /\ pc[t] \in {"install", "kick"} => tracked[t] /\ mc[t].state = "INIT" /\ ~mc[t].inTrap

(* The dispositions are given back in the order of abort_operation().      *)
GivesBack(t) ==
  /\ pc[t] \in AbortSteps \ {"restoreFpe"} => saFpe = "old"
  /\ pc[t] = "setAborted" => saTrap = "old"

(* A thread on its way through abort_operation() does not single-step, and *)
(* is silent when it began in a handler or has kicked itself.  A SIGALRM   *)
(* may unmask its traps between the two if it began outside one.           *)
Aborting(t) ==
  tracked[t] /\ pc[t] \in AbortSteps =>
    /\ ~uc[t].tf
    /\ back[t] # "none" \/ pc[t] \in {"restoreTrap", "setAborted"} => uc[t].mask
    /\ pc[t] \notin {"restoreFpe", "mark"} => mc[t].state = "ABORT"
    /\ mc[t].inTrap => back[t] # "none"
SurprisedOnce(t) == tracked[t] /\ pc[t] = "user" /\ mc[t].inTrap => aborted

(* The sampler is ON before the first SIGTRAP and during every step-over.  *)
SamplerOn(t) ==
  /\ tracked[t] =>
       /\ mc[t].state = "INIT" => mc[t].on
       /\ pc[t] = "user" /\ mc[t].state = "AWAIT_TRAP" => mc[t].on
  /\ ~Timers => mc[t].on /\ ~mc[t].delayed
NoIntDiv(t) == "intdiv" \notin Inputs => uc[t].insn # "intdiv"

(* No handler has interrupted FPSpy's own code.                            *)
Unnested(t) == pc[t] \notin {"find", "switch", "defer"} /\ back[t] \in {"none", "user"}

ThreadInv(t) ==
  /\ FreshUntilKicked(t)
  /\ GivesBack(t)
  /\ Aborting(t)
  /\ SurprisedOnce(t)
  /\ SamplerOn(t)
  /\ NoIntDiv(t)
  /\ Unnested(t)
  /\ tracked[t] /\ pc[t] = "user" => RegistersMatch(t)

(* While bringup() runs there is one thread and nothing has aborted; an    *)
(* aborted process has given both dispositions back; without Poisson       *)
(* sampling no alarm is set or left over.                                  *)
Booting == pc[Main] \in {"boot", "install"}
GlobalInv ==
  /\ Booting => ~aborted /\ \A t \in Threads \ {Main} : pc[t] = "unborn"
  /\ aborted => saFpe = "old" /\ saTrap = "old"
  /\ ~Timers => ~timer /\ ~leftDelayed

TrapsInv == TypeOK /\ GlobalInv /\ \A t \in Threads : ThreadInv(t)

(* A step of t alone, after which what was aborted or given back still is. *)
Only(t) ==
  \A u \in Threads \ {t} :
    /\ mc'[u] = mc[u] /\ tracked'[u] = tracked[u] /\ uc'[u] = uc[u]
    /\ pc'[u] = pc[u] /\ back'[u] = back[u]
Monotone ==
  /\ aborted => aborted'
  /\ saFpe = "old" => saFpe' = "old"
  /\ saTrap = "old" => saTrap' = "old"

LEMMA Bystander ==
  ASSUME TrapsInv, Monotone, NEW u \in Threads,
         mc'[u] = mc[u], tracked'[u] = tracked[u], uc'[u] = uc[u],
         pc'[u] = pc[u], back'[u] = back[u]
  PROVE  ThreadInv(u)'
<1> USE DEF TrapsInv
<1>1. ThreadInv(u)
  OBVIOUS
<1> QED
  BY <1>1 DEF Monotone, ThreadInv, FreshUntilKicked, GivesBack, Aborting, SurprisedOnce,
     SamplerOn, NoIntDiv, Unnested, RegistersMatch, LimitReached, TypeOK

LEMMA Combine ==
  ASSUME TrapsInv, TypeOK', NEW t \in Threads, Only(t), Monotone, GlobalInv', ThreadInv(t)'
  PROVE  TrapsInv'
<1>1. ASSUME NEW u \in Threads \ {t} PROVE ThreadInv(u)'
  BY <1>1, Bystander DEF Only
<1> QED
  BY <1>1 DEF TrapsInv

LEMMA Unchanged ==
  ASSUME TrapsInv, TypeOK', UNCHANGED <<tvars, saFpe, saTrap, aborted>>,
         timer' = timer, leftDelayed' = leftDelayed
  PROVE  TrapsInv'
<1>1. GlobalInv'
  BY DEF TrapsInv, GlobalInv, Booting, tvars
<1>2. ASSUME NEW u \in Threads PROVE ThreadInv(u)'
  BY Bystander DEF Monotone, tvars
<1> QED
  BY <1>1, <1>2 DEF TrapsInv

LEMMA NotBooting ==
  ASSUME TrapsInv, NEW t \in Threads, pc[t] \notin {"unborn", "boot", "install"}
  PROVE  ~Booting
BY ConstantsAssumption DEF TrapsInv, GlobalInv, Booting

(* Facts about the acting thread that every case starts from.              *)
LEMMA Acting ==
  ASSUME TrapsInv, NEW t \in Threads
  PROVE  /\ ThreadInv(t) /\ TypeOK /\ GlobalInv
         /\ mc[t] \in Contexts /\ uc[t] \in Registers /\ tracked[t] \in BOOLEAN
         /\ mc[t].state \in States /\ mc[t].on \in BOOLEAN /\ mc[t].delayed \in BOOLEAN
         /\ mc[t].count \in Nat /\ origRound \in Rounds
<1>1. mc[t] \in Contexts /\ uc[t] \in Registers /\ tracked[t] \in BOOLEAN
  BY DEF TrapsInv, TypeOK
<1>2. /\ mc[t].state \in States /\ mc[t].on \in BOOLEAN /\ mc[t].delayed \in BOOLEAN
      /\ mc[t].count \in Nat
  BY <1>1 DEF Contexts
<1> QED
  BY <1>1, <1>2 DEF TrapsInv, TypeOK

LEMMA DieInv == ASSUME TrapsInv, TypeOK', NEW f, Die(f) PROVE TrapsInv'
BY Unchanged DEF Die

(* A handler that is to return to the target edits the thread's registers. *)
LEMMA EditedUser ==
  ASSUME NEW t, NEW v PROVE Edited(t, "user", v) = [uc EXCEPT ![t] = v]
BY DEF Edited, AlarmSteps

(* brk_trap_handler(), by a thread that executes the target or kicks       *)
(* itself for the first time.                                              *)
LEMMA BrkInv ==
  ASSUME TrapsInv, TypeOK', NEW t \in Threads, NEW u \in Registers, NEW p \in BOOLEAN,
         pc[t] \in {"user", "kick"}, "intdiv" \notin Inputs => u.insn # "intdiv",
         SigTrap(t, u, p, "user")
  PROVE  TrapsInv'
<1>1. CASE saTrap # "fpspy"
  BY <1>1, DieInv DEF SigTrap
<1>2. CASE saTrap = "fpspy"
  <2>1. /\ brk_trap_handler(t, u, "user", timer)
        /\ tracked' = tracked /\ saFpe' = saFpe /\ saTrap' = saTrap /\ aborted' = aborted
        /\ leftDelayed' = leftDelayed
    BY <1>2 DEF SigTrap, brk_trap_handler
  <2>2. ~aborted /\ ~Booting
    BY <1>2, NotBooting, Acting DEF GlobalInv
  <2>3. Monotone
    BY <2>1 DEF Monotone
  <2>4. ThreadInv(t) /\ TypeOK /\ GlobalInv /\ mc[t] \in Contexts /\ mc[t].on \in BOOLEAN
        /\ mc[t].count \in Nat /\ mc[t].delayed \in BOOLEAN
    BY Acting
  <2>5. CASE BrkInit(t, u, "user", timer)
    <3>1. /\ tracked[t] /\ mc[t].state = "INIT"
          /\ mc' = [mc EXCEPT ![t] = [mc[t] EXCEPT !.state = "AWAIT_FPE"]]
          /\ uc' = [uc EXCEPT ![t] = Watch(u)] /\ pc' = [pc EXCEPT ![t] = "user"]
          /\ back' = back /\ timer' = timer
      BY <2>5, EditedUser DEF BrkInit
    <3>2. /\ mc'[t].state = "AWAIT_FPE" /\ mc'[t].on = mc[t].on /\ pc'[t] = "user"
          /\ mc'[t].inTrap = mc[t].inTrap /\ mc'[t].delayed = mc[t].delayed
          /\ uc'[t] = Watch(u)
      BY <2>4, <3>1 DEF TypeOK, Contexts
    <3>3. ~uc'[t].mask /\ ~uc'[t].tf /\ uc'[t].insn = u.insn
      BY <3>2, WatchOK
    <3>4. mc[t].on /\ ~mc[t].inTrap
      BY <2>2, <2>4, <3>1 DEF ThreadInv, SamplerOn, SurprisedOnce, FreshUntilKicked
    <3>5. ThreadInv(t)'
      BY <2>1, <2>4, <3>1, <3>2, <3>3, <3>4
      DEF ThreadInv, FreshUntilKicked, GivesBack, Aborting, SurprisedOnce, SamplerOn, NoIntDiv,
        Unnested, RegistersMatch, AbortSteps
    <3>6. GlobalInv'
      BY <2>1, <2>2, <2>4, <3>1 DEF GlobalInv, Booting, TypeOK
    <3>7. Only(t)
      BY <2>1, <2>4, <3>1 DEF Only, TypeOK
    <3> QED
      BY <2>3, <3>5, <3>6, <3>7, Combine
  <2>6. CASE BrkStepped(t, u, "user", timer)
    <3> DEFINE m == Counted(mc[t])
    <3> DEFINE v == IF LimitReached(m.count) THEN Quiesce(u) ELSE Watch(u)
    <3>1. /\ tracked[t] /\ mc[t].state = "AWAIT_TRAP"
          /\ pc' = [pc EXCEPT ![t] = "user"] /\ back' = back
          /\ IF m.delayed
             THEN update_sampler(t, m, v, "user")
             ELSE mc' = [mc EXCEPT ![t] = m] /\ uc' = [uc EXCEPT ![t] = v] /\ timer' = timer
      BY <2>6, EditedUser DEF BrkStepped
    <3>2. pc[t] = "user"
      BY <2>4, <3>1 DEF ThreadInv, FreshUntilKicked
    <3>3. mc[t].on /\ (~Timers => ~mc[t].delayed) /\ ~mc[t].inTrap
      BY <2>2, <2>4, <3>1, <3>2 DEF ThreadInv, SamplerOn, SurprisedOnce
    <3>4. /\ m \in Contexts /\ m.state = "AWAIT_FPE" /\ m.on /\ ~m.inTrap
          /\ m.delayed = mc[t].delayed
      BY <2>4, <3>3, CountedOK
    <3>5. /\ v \in Registers /\ ~v.tf /\ v.insn = u.insn
          /\ v.mask => LimitReached(m.count)
      <4>1. CASE LimitReached(m.count)
        <5>1. v = Quiesce(u)
          BY <4>1
        <5> HIDE DEF m, v
        <5> QED
          BY <2>4, <4>1, <5>1, QuiesceOK DEF TypeOK
      <4>2. CASE ~LimitReached(m.count)
        <5>1. v = Watch(u)
          BY <4>2
        <5> HIDE DEF m, v
        <5> QED
          BY <4>2, <5>1, WatchOK
      <4> QED
        BY <4>1, <4>2
    <3> HIDE DEF m, v
    <3>6. CASE m.delayed
      <4>1. /\ mc' = [mc EXCEPT ![t] = FlipSampler(m)] /\ timer' = TRUE
            /\ uc' = [uc EXCEPT ![t] = FlipTraps(m, v)]
        BY <3>1, <3>6, EditedUser DEF update_sampler
      <4>2. mc'[t] = FlipSampler(m) /\ uc'[t] = FlipTraps(m, v) /\ pc'[t] = "user"
        BY <2>4, <3>1, <4>1 DEF TypeOK
      <4>3. /\ mc'[t].state = "AWAIT_FPE" /\ ~mc'[t].on /\ ~mc'[t].inTrap /\ ~mc'[t].delayed
        BY <3>4, <4>2, FlipSamplerOK
      <4>4. uc'[t].mask /\ ~uc'[t].tf /\ uc'[t].insn = u.insn
        BY <3>4, <3>5, <4>2, FlipTrapsOK
      <4>5. Timers
        BY <3>3, <3>4, <3>6
      <4>6. ThreadInv(t)'
        BY <2>1, <2>4, <3>1, <4>2, <4>3, <4>4, <4>5
        DEF ThreadInv, FreshUntilKicked, GivesBack, Aborting, SurprisedOnce, SamplerOn,
            NoIntDiv, Unnested, RegistersMatch, AbortSteps
      <4>7. GlobalInv'
        BY <2>1, <2>2, <2>4, <3>1, <4>5 DEF GlobalInv, Booting, TypeOK
      <4>8. Only(t)
        BY <2>1, <2>4, <3>1, <4>1 DEF Only, TypeOK
      <4> QED
        BY <2>3, <4>6, <4>7, <4>8, Combine
    <3>7. CASE ~m.delayed
      <4>1. mc' = [mc EXCEPT ![t] = m] /\ uc' = [uc EXCEPT ![t] = v] /\ timer' = timer
        BY <3>1, <3>7
      <4>2. mc'[t] = m /\ uc'[t] = v /\ pc'[t] = "user"
        BY <2>4, <3>1, <4>1 DEF TypeOK
      <4>3. ThreadInv(t)'
        BY <2>1, <2>4, <3>1, <3>4, <3>5, <3>7, <4>2
        DEF ThreadInv, FreshUntilKicked, GivesBack, Aborting, SurprisedOnce, SamplerOn,
            NoIntDiv, Unnested, RegistersMatch, AbortSteps
      <4>4. GlobalInv'
        BY <2>1, <2>2, <2>4, <3>1, <4>1 DEF GlobalInv, Booting, TypeOK
      <4>5. Only(t)
        BY <2>1, <2>4, <3>1, <4>1 DEF Only, TypeOK
      <4> QED
        BY <2>3, <4>3, <4>4, <4>5, Combine
    <3> QED
      BY <3>6, <3>7
  <2>7. CASE BrkAborted(t, u, "user", timer)
    <3>1. /\ tracked[t] /\ mc[t].state = "ABORT" /\ mc' = mc /\ back' = back
          /\ uc' = [uc EXCEPT ![t] = Quiesce(u)] /\ pc' = [pc EXCEPT ![t] = "user"]
          /\ timer' = timer
      BY <2>7, EditedUser DEF BrkAborted
    <3>2. uc'[t].mask /\ ~uc'[t].tf /\ uc'[t].insn = u.insn /\ pc'[t] = "user"
      BY <2>4, <3>1, QuiesceOK DEF TypeOK
    <3>3. ~mc[t].inTrap
      BY <2>2, <2>4, <3>1 DEF ThreadInv, SurprisedOnce, FreshUntilKicked
    <3>4. ThreadInv(t)'
      BY <2>1, <2>4, <3>1, <3>2, <3>3
      DEF ThreadInv, FreshUntilKicked, GivesBack, Aborting, SurprisedOnce, SamplerOn, NoIntDiv,
        Unnested, RegistersMatch, AbortSteps
    <3>5. GlobalInv'
      BY <2>1, <2>2, <2>4, <3>1 DEF GlobalInv, Booting, TypeOK
    <3>6. Only(t)
      BY <2>1, <2>4, <3>1 DEF Only, TypeOK
    <3> QED
      BY <2>3, <3>4, <3>5, <3>6, Combine
  <2>8. CASE BrkSurprise(t, u, "user", timer)
    <3>1. /\ uc' = [uc EXCEPT ![t] = Quiesce(u)] /\ timer' = timer
          /\ tracked[t] => mc[t].state = "AWAIT_FPE"
          /\ pc' = [pc EXCEPT ![t] = "restoreFpe"] /\ back' = [back EXCEPT ![t] = "user"]
      BY <2>2, <2>8, EditedUser DEF BrkSurprise, EnterAbort
    <3>2. mc' = IF tracked[t] THEN [mc EXCEPT ![t] = [mc[t] EXCEPT !.inTrap = TRUE]] ELSE mc
      BY <2>8 DEF BrkSurprise
    <3>3. /\ uc'[t].mask /\ ~uc'[t].tf /\ uc'[t].insn = u.insn
          /\ pc'[t] = "restoreFpe" /\ back'[t] = "user"
      BY <2>4, <3>1, QuiesceOK DEF TypeOK
    <3>4. mc'[t].state = mc[t].state /\ mc'[t].on = mc[t].on /\ mc'[t].delayed = mc[t].delayed
      BY <2>4, <3>2 DEF TypeOK, Contexts
    <3>5. ThreadInv(t)'
      BY <2>1, <2>4, <3>1, <3>3, <3>4
      DEF ThreadInv, FreshUntilKicked, GivesBack, Aborting, SurprisedOnce, SamplerOn, NoIntDiv,
        Unnested, AbortSteps
    <3>6. GlobalInv'
      BY <2>1, <2>2, <2>4, <3>1 DEF GlobalInv, Booting, TypeOK
    <3>7. Only(t)
      BY <2>1, <2>4, <3>1, <3>2 DEF Only, TypeOK
    <3> QED
      BY <2>3, <3>5, <3>6, <3>7, Combine
  <2> QED
    BY <2>1, <2>5, <2>6, <2>7, <2>8 DEF brk_trap_handler
<1> QED
  BY <1>1, <1>2

(* fp_trap_handler(), entered while it is installed, so that nothing has   *)
(* aborted; the sampler must be ON in a thread that waits for its SIGFPE.  *)
LEMMA FaultInv ==
  ASSUME TrapsInv, TypeOK', NEW t \in Threads, NEW j \in {"fp", "intdiv"}, NEW n \in Nat,
         pc[t] = "user", saFpe = "fpspy",
         tracked[t] /\ mc[t].state = "AWAIT_FPE" => mc[t].on,
         "intdiv" \notin Inputs => j # "intdiv",
         fp_trap_handler(t, j, n)
  PROVE  TrapsInv'
<1>1. CASE ~(tracked[t] /\ Fault(t, j, n))
  BY <1>1, DieInv DEF fp_trap_handler
<1>2. CASE tracked[t] /\ Fault(t, j, n)
  <2> DEFINE u == [uc[t] EXCEPT !.insn = j, !.dirty = @ \/ j = "fp"]
  <2> DEFINE m == IF mc[t].state = "AWAIT_FPE" THEN [mc[t] EXCEPT !.state = "AWAIT_TRAP"]
                  ELSE mc[t]
  <2>1. ThreadInv(t) /\ TypeOK /\ GlobalInv /\ mc[t] \in Contexts /\ uc[t] \in Registers
    BY Acting
  <2>2. ~aborted /\ ~Booting
    BY <2>1, NotBooting DEF GlobalInv
  <2>3. /\ m \in Contexts /\ m.on = mc[t].on /\ m.inTrap = mc[t].inTrap
        /\ m.delayed = mc[t].delayed
        /\ mc[t].state = "AWAIT_FPE" => m.state = "AWAIT_TRAP"
        /\ mc[t].state # "AWAIT_FPE" => m.state = mc[t].state
    BY <2>1 DEF Contexts, States
  <2>4. u \in Registers /\ u.insn = j
    BY <2>1 DEF Registers
  <2>5. push_trace_record(t, m, n) \/ (mc' = [mc EXCEPT ![t] = m] /\ file' = file)
    BY <1>2 DEF Fault
  <2>6. /\ tracked' = tracked /\ saFpe' = saFpe /\ saTrap' = saTrap /\ aborted' = aborted
        /\ timer' = timer /\ leftDelayed' = leftDelayed
    BY <1>2 DEF Fault, gvars
  <2>7. CASE mc[t].state = "AWAIT_FPE"
    <3>1. uc' = [uc EXCEPT ![t] = StepOver(u)] /\ pc' = pc /\ back' = back
      BY <1>2, <2>7 DEF Fault
    <3> HIDE DEF m, u
    <3>2. uc'[t].mask /\ uc'[t].tf /\ uc'[t].insn = j
      BY <2>1, <2>4, <3>1, StepOverOK DEF TypeOK
    <3>3. /\ mc'[t].state = "AWAIT_TRAP" /\ mc'[t].on = mc[t].on
          /\ mc'[t].inTrap = mc[t].inTrap /\ mc'[t].delayed = mc[t].delayed
          /\ \A w \in Threads \ {t} : mc'[w] = mc[w]
      BY <2>1, <2>3, <2>5, <2>7, PushOK DEF TypeOK
    <3>4. ThreadInv(t)'
      BY <1>2, <2>1, <2>6, <2>7, <3>1, <3>2, <3>3
      DEF ThreadInv, FreshUntilKicked, GivesBack, Aborting, SurprisedOnce, SamplerOn, NoIntDiv,
        Unnested, RegistersMatch, AbortSteps
    <3>5. GlobalInv'
      BY <2>1, <2>6, <3>1 DEF GlobalInv, Booting
    <3>6. Only(t) /\ Monotone
      BY <2>1, <2>6, <3>1, <3>3 DEF Only, Monotone, TypeOK
    <3> QED
      BY <3>4, <3>5, <3>6, Combine
  <2>8. CASE mc[t].state # "AWAIT_FPE"
    <3>1. /\ uc' = [uc EXCEPT ![t] = Quiesce(u)]
          /\ pc' = [pc EXCEPT ![t] = "restoreFpe"] /\ back' = [back EXCEPT ![t] = "user"]
      BY <1>2, <2>2, <2>8 DEF Fault, EnterAbort
    <3> HIDE DEF m, u
    <3>2. /\ uc'[t].mask /\ ~uc'[t].tf /\ uc'[t].insn = j
          /\ pc'[t] = "restoreFpe" /\ back'[t] = "user"
      BY <2>1, <2>4, <3>1, QuiesceOK DEF TypeOK
    <3>3. /\ mc'[t].state = mc[t].state /\ mc'[t].on = mc[t].on
          /\ mc'[t].inTrap = mc[t].inTrap /\ mc'[t].delayed = mc[t].delayed
          /\ \A w \in Threads \ {t} : mc'[w] = mc[w]
      BY <2>1, <2>3, <2>5, <2>8, PushOK DEF TypeOK
    <3>4. ~mc[t].inTrap
      BY <1>2, <2>1, <2>2 DEF ThreadInv, SurprisedOnce
    <3>5. ThreadInv(t)'
      BY <1>2, <2>1, <2>6, <3>2, <3>3, <3>4
      DEF ThreadInv, FreshUntilKicked, GivesBack, Aborting, SurprisedOnce, SamplerOn, NoIntDiv,
        Unnested, AbortSteps
    <3>6. GlobalInv'
      BY <2>1, <2>2, <2>6, <3>1 DEF GlobalInv, Booting, TypeOK
    <3>7. Only(t) /\ Monotone
      BY <2>1, <2>6, <3>1, <3>3 DEF Only, Monotone, TypeOK
    <3> QED
      BY <3>5, <3>6, <3>7, Combine
  <2> QED
    BY <2>7, <2>8
<1> QED
  BY <1>1, <1>2

LEMMA TargetInv ==
  ASSUME TrapsInv, TypeOK', "intdiv" \notin Inputs \/ ~Timers, NEW t \in Threads, Target(t)
  PROVE  TrapsInv'
<1>0. /\ ThreadInv(t) /\ TypeOK /\ GlobalInv /\ mc[t] \in Contexts /\ uc[t] \in Registers
      /\ mc[t].on \in BOOLEAN /\ Number(t) \in Nat
  BY Acting DEF Number, TypeOK
<1>1. CASE FpTraps(t)
  <2>1. pc[t] = "user" /\ ~uc[t].mask
    BY <1>1 DEF FpTraps, Running
  <2>2. tracked[t] /\ mc[t].state = "AWAIT_FPE" => mc[t].on
    BY <1>0, <2>1 DEF ThreadInv, RegistersMatch
  <2> QED
    BY <1>0, <1>1, <2>1, <2>2, FaultInv, DieInv DEF FpTraps, TypeOK
<1>2. CASE FpSilent(t)
  <2>1. /\ uc' = [uc EXCEPT ![t] = Executed(t)] /\ pc[t] = "user" /\ ~uc[t].tf
        /\ UNCHANGED <<mc, tracked, pc, back, gvars>>
    BY <1>2 DEF FpSilent, Running
  <2>2. uc'[t].mask = uc[t].mask /\ ~uc'[t].tf /\ uc'[t].insn = "none"
    BY <1>0, <2>1 DEF TypeOK, Executed, Registers
  <2>3. ThreadInv(t)'
    BY <1>0, <2>1, <2>2
    DEF ThreadInv, FreshUntilKicked, GivesBack, Aborting, SurprisedOnce, SamplerOn, NoIntDiv,
        Unnested, RegistersMatch, LimitReached, AbortSteps, gvars
  <2>4. GlobalInv' /\ Only(t) /\ Monotone
    BY <1>0, <2>1 DEF GlobalInv, Booting, Only, Monotone, gvars, TypeOK
  <2> QED
    BY <2>3, <2>4, Combine
<1>3. CASE IntDivTraps(t)
  <2>1. pc[t] = "user" /\ (uc[t].insn = "intdiv" \/ "intdiv" \in Inputs)
    BY <1>3 DEF IntDivTraps, Running, AtInsn
  <2>2. "intdiv" \in Inputs
    BY <1>0, <2>1 DEF ThreadInv, NoIntDiv
  <2>3. mc[t].on
    BY <1>0, <2>2 DEF ThreadInv, SamplerOn
  <2> QED
    BY <1>0, <1>3, <2>1, <2>2, <2>3, FaultInv, DieInv DEF IntDivTraps, TypeOK
<1>4. CASE TargetConflict(t)
  <2>1. /\ pc[t] = "user" /\ uc[t].insn = "none" /\ EnterAbort(t, "none")
        /\ UNCHANGED <<mc, tracked, gvars>>
    BY <1>4 DEF TargetConflict, InTarget, Running
  <2>2. ~Booting
    BY <2>1, NotBooting
  <2>3. CASE aborted
    <3>1. uc' = uc /\ back' = back /\ pc' = pc
      BY <1>0, <1>4, <2>1, <2>3 DEF TargetConflict, EnterAbort, TypeOK
    <3> QED
      BY <1>4, <2>1, <3>1, Unchanged DEF TargetConflict, tvars, gvars
  <2>4. CASE ~aborted
    <3>1. /\ uc' = [uc EXCEPT ![t] = arch_clear_fp_exceptions(arch_mask_fp_traps(uc[t]))]
          /\ pc' = [pc EXCEPT ![t] = "restoreFpe"] /\ back' = [back EXCEPT ![t] = "none"]
      BY <1>4, <2>4 DEF TargetConflict, EnterAbort
    <3>2. /\ uc'[t].tf = uc[t].tf /\ uc'[t].insn = "none"
          /\ pc'[t] = "restoreFpe" /\ back'[t] = "none"
      BY <1>0, <2>1, <3>1
      DEF TypeOK, arch_clear_fp_exceptions, arch_mask_fp_traps, Registers
    <3>3. tracked[t] => ~uc[t].tf /\ ~mc[t].inTrap
      BY <1>0, <2>1, <2>4
      DEF ThreadInv, SurprisedOnce, RegistersMatch, Contexts, States
    <3>4. ThreadInv(t)'
      BY <1>0, <2>1, <3>2, <3>3
      DEF ThreadInv, FreshUntilKicked, GivesBack, Aborting, SurprisedOnce, SamplerOn, NoIntDiv,
        Unnested, AbortSteps
    <3>5. GlobalInv'
      BY <1>0, <2>1, <2>2, <3>1 DEF GlobalInv, Booting, TypeOK, gvars
    <3>6. Only(t) /\ Monotone
      BY <1>0, <2>1, <3>1 DEF Only, Monotone, TypeOK, gvars
    <3> QED
      BY <3>4, <3>5, <3>6, Combine
  <2> QED
    BY <2>3, <2>4
<1>5. ASSUME teardown_monitoring_context(t), pc[t] = "user",
             UNCHANGED <<uc, pc, back, saFpe, saTrap, aborted, timer>>
      PROVE  TrapsInv'
  <2>1. ~tracked'[t] /\ \A w \in Threads \ {t} : mc'[w] = mc[w] /\ tracked'[w] = tracked[w]
    BY <1>0, <1>5 DEF teardown_monitoring_context, TypeOK
  <2>2. ~Timers => mc'[t].on /\ ~mc'[t].delayed
    <3> DEFINE m == [mc[t] EXCEPT !.buf = <<>>, !.on = TRUE, !.delayed = FALSE]
    <3>1. mc' = mc \/ mc' = [mc EXCEPT ![t] = m]
      BY <1>5 DEF teardown_monitoring_context
    <3>2. m.on /\ ~m.delayed
      BY <1>0 DEF Contexts
    <3>3. ~Timers => mc[t].on /\ ~mc[t].delayed
      BY <1>0 DEF ThreadInv, SamplerOn
    <3> HIDE DEF m
    <3> QED
      BY <1>0, <3>1, <3>2, <3>3 DEF TypeOK
  <2>3. ~Timers => ~leftDelayed'
    <3>1. leftDelayed' = leftDelayed \/ leftDelayed' = (leftDelayed \/ mc[t].delayed)
      BY <1>5 DEF teardown_monitoring_context
    <3>2. ~Timers => ~leftDelayed /\ ~mc[t].delayed
      BY <1>0 DEF GlobalInv, ThreadInv, SamplerOn
    <3> QED
      BY <3>1, <3>2
  <2>4. ~Booting
    BY <1>5, NotBooting
  <2>5. ThreadInv(t)'
    BY <1>0, <1>5, <2>1, <2>2
    DEF ThreadInv, FreshUntilKicked, GivesBack, Aborting, SurprisedOnce, SamplerOn, NoIntDiv,
        Unnested, AbortSteps
  <2>6. GlobalInv'
    BY <1>0, <1>5, <2>3, <2>4 DEF GlobalInv, Booting
  <2>7. Only(t) /\ Monotone
    BY <1>0, <1>5, <2>1 DEF Only, Monotone, TypeOK
  <2> QED
    BY <2>5, <2>6, <2>7, Combine
<1>6. CASE ThreadExit(t)
  BY <1>5, <1>6 DEF ThreadExit, InTarget, Running
<1>7. CASE ProcessExit(t)
  BY <1>5, <1>7 DEF ProcessExit, Running
<1>9. CASE Interrupted(t)
  BY <1>5, <1>9 DEF Interrupted, Running
<1>10. CASE ThreadEnd(t)
  <2>1. /\ pc[t] = "user" /\ uc' = [uc EXCEPT ![t] = HandlerRegisters]
        /\ pc' = [pc EXCEPT ![t] = "gone"]
        /\ UNCHANGED <<mc, tracked, back, saFpe, saTrap, aborted, timer, leftDelayed>>
    BY <1>10 DEF ThreadEnd, Running
  <2>2. pc'[t] = "gone" /\ uc'[t].insn = "none"
    BY <1>0, <2>1 DEF TypeOK, HandlerRegisters
  <2>3. ~Booting
    BY <2>1, NotBooting
  <2>4. ThreadInv(t)'
    BY <1>0, <2>1, <2>2
    DEF ThreadInv, FreshUntilKicked, GivesBack, Aborting, SurprisedOnce, SamplerOn, NoIntDiv,
        Unnested, AbortSteps
  <2>5. GlobalInv'
    BY <1>0, <2>1, <2>3, ConstantsAssumption DEF GlobalInv, Booting, TypeOK
  <2>6. Only(t) /\ Monotone
    BY <1>0, <2>1 DEF Only, Monotone, TypeOK
  <2> QED
    BY <2>4, <2>5, <2>6, Combine
<1>8. ASSUME NEW w \in Threads, Create(t, w) PROVE TrapsInv'
  <2>1. /\ pc[t] = "user" /\ pc[w] = "unborn" /\ uc[t].insn = "none"
        /\ pc' = [pc EXCEPT ![w] = IF aborted THEN "user" ELSE "tramp"]
        /\ uc' = [uc EXCEPT ![w] = uc[t]]
        /\ UNCHANGED <<mc, tracked, back, gvars>>
    BY <1>8 DEF Create, InTarget, Running
  <2>2. ~Booting
    BY <2>1, NotBooting
  <2>3. ThreadInv(w) /\ ~tracked[w]
    BY <2>1, Acting DEF ThreadInv, FreshUntilKicked
  <2>4. pc'[w] \in {"user", "tramp"} /\ uc'[w] = uc[t]
    BY <1>0, <2>1 DEF TypeOK
  <2>5. ThreadInv(w)'
    BY <2>1, <2>3, <2>4
    DEF ThreadInv, FreshUntilKicked, GivesBack, Aborting, SurprisedOnce, SamplerOn, NoIntDiv,
        Unnested, AbortSteps
  <2>6. GlobalInv'
    BY <1>0, <2>1, <2>2 DEF GlobalInv, Booting, TypeOK, gvars
  <2>7. Only(w) /\ Monotone
    BY <1>0, <2>1 DEF Only, Monotone, TypeOK, gvars
  <2> QED
    BY <2>5, <2>6, <2>7, Combine
<1> QED
  BY <1>1, <1>2, <1>3, <1>4, <1>6, <1>7, <1>8, <1>9, <1>10 DEF Target

LEMMA KernelInv ==
  ASSUME TrapsInv, TypeOK', ~nested', NEW t \in Threads, Kernel(t) PROVE TrapsInv'
<1>0. /\ ThreadInv(t) /\ TypeOK /\ GlobalInv /\ mc[t] \in Contexts /\ uc[t] \in Registers
      /\ mc[t].on \in BOOLEAN
  BY Acting
<1>1. CASE FpStepped(t)
  <2>1. Executed(t) \in Registers /\ Executed(t).insn = "none"
    BY <1>0 DEF Executed, Registers
  <2> QED
    BY <1>0, <1>1, <2>1, BrkInv DEF FpStepped, Running, TypeOK
<1>2. CASE DeliverTrap(t)
  <2>1. "intdiv" \notin Inputs => uc[t].insn # "intdiv"
    BY <1>0 DEF ThreadInv, NoIntDiv
  <2>2. pc[t] \notin AlarmSteps
    BY <1>0 DEF ThreadInv, Unnested, AlarmSteps
  <2>3. \/ pc[t] = "user" /\ SigTrap(t, uc[t], FALSE, "user")
        \/ Die("leaked")
    <3>1. SigTrap(t, uc[t], FALSE, pc[t])
      BY <1>2, <2>2 DEF DeliverTrap
    <3> QED
      BY <3>1 DEF SigTrap, brk_trap_handler
  <2> QED
    BY <1>0, <1>2, <2>1, <2>2, <2>3, BrkInv, DieInv DEF TypeOK
<1>3. CASE Alarm(t)
  <2>1. CASE saAlrm # "fpspy"
    BY <1>3, <2>1, DieInv DEF Alarm
  <2>2. CASE saAlrm = "fpspy"
    <3>1. /\ sigalrm_handler(t, FALSE) /\ timer /\ pc[t] \notin {"unborn", "gone"}
          /\ pc[t] \in AbortSteps => back[t] = "none"
          /\ UNCHANGED <<tracked, pc, back, saFpe, saTrap, aborted, leftDelayed>>
      BY <1>3, <2>2 DEF Alarm, AlarmOpen
    <3>2. Timers /\ Monotone
      BY <1>0, <3>1 DEF GlobalInv, Monotone
    <3>3. GlobalInv'
      BY <1>0, <3>1, <3>2 DEF GlobalInv, Booting
    <3>4. CASE tracked[t] /\ mc[t].state = "AWAIT_FPE"
      <4>1. /\ mc' = [mc EXCEPT ![t] = FlipSampler(mc[t])]
            /\ uc' = [uc EXCEPT ![t] = FlipTraps(mc[t], uc[t])]
        BY <3>1, <3>4, EditedUser DEF sigalrm_handler, AlarmSwitches, update_sampler
      <4>2. mc'[t] = FlipSampler(mc[t]) /\ uc'[t] = FlipTraps(mc[t], uc[t])
        BY <1>0, <4>1 DEF TypeOK
      <4>3. /\ mc'[t].state = "AWAIT_FPE" /\ mc'[t].on = ~mc[t].on
            /\ mc'[t].inTrap = mc[t].inTrap
        BY <1>0, <3>4, <4>2, FlipSamplerOK
      <4>4. uc'[t].mask = mc[t].on /\ ~uc'[t].tf /\ uc'[t].insn = uc[t].insn
        BY <1>0, <4>2, FlipTrapsOK
      <4>5. RegistersMatch(t)'
        BY <1>0, <4>3, <4>4 DEF RegistersMatch
      <4>6. ThreadInv(t)'
        BY <1>0, <3>1, <3>2, <3>4, <4>3, <4>4, <4>5
        DEF ThreadInv, FreshUntilKicked, GivesBack, Aborting, SurprisedOnce, SamplerOn, NoIntDiv,
        Unnested, AbortSteps
      <4>7. Only(t)
        BY <1>0, <3>1, <4>1 DEF Only, TypeOK
      <4> QED
        BY <3>2, <3>3, <4>6, <4>7, Combine
    <3>5. CASE ~(tracked[t] /\ mc[t].state = "AWAIT_FPE")
      <4>1. /\ uc' = uc
            /\ mc' = mc \/ mc' = [mc EXCEPT ![t] = [mc[t] EXCEPT !.delayed = TRUE]]
        BY <3>1, <3>5 DEF sigalrm_handler, AlarmSwitches, Defer
      <4>2. LET m == [mc[t] EXCEPT !.delayed = TRUE]
            IN  /\ m.state = mc[t].state /\ m.on = mc[t].on /\ m.inTrap = mc[t].inTrap
                /\ m.count = mc[t].count
        BY <1>0 DEF Contexts
      <4>3. /\ mc'[t].state = mc[t].state /\ mc'[t].on = mc[t].on
            /\ mc'[t].inTrap = mc[t].inTrap /\ mc'[t].count = mc[t].count
        BY <1>0, <4>1, <4>2 DEF TypeOK
      <4>4. ThreadInv(t)'
        BY <1>0, <3>1, <3>2, <4>1, <4>3
        DEF ThreadInv, FreshUntilKicked, GivesBack, Aborting, SurprisedOnce, SamplerOn, NoIntDiv,
        Unnested, RegistersMatch, LimitReached
      <4>5. Only(t)
        BY <1>0, <3>1, <4>1 DEF Only, TypeOK
      <4> QED
        BY <3>2, <3>3, <4>4, <4>5, Combine
    <3> QED
      BY <3>4, <3>5
  <2> QED
    BY <2>1, <2>2
<1>4. ASSUME AlarmTrapped(t) PROVE FALSE
  BY <1>4 DEF AlarmTrapped, brk_trap_handler
<1>5. CASE AlarmHangs(t) \/ TrapHangs(t)
  BY <1>5, DieInv DEF AlarmHangs, TrapHangs
<1> QED
  BY <1>1, <1>2, <1>3, <1>4, <1>5 DEF Kernel

LEMMA AbortInv ==
  ASSUME TrapsInv, TypeOK', NEW t \in Threads, Abort(t) PROVE TrapsInv'
<1>0. ThreadInv(t) /\ TypeOK /\ GlobalInv /\ mc[t] \in Contexts /\ uc[t] \in Registers
  BY Acting
<1>1. ~Booting
  BY NotBooting DEF Abort, At, AbortRestoreFpe, AbortMark, AbortKick, AbortRestoreTrap,
     AbortSetAborted
<1> USE DEF At, Goto
<1>2. CASE AbortRestoreFpe(t)
  <2>1. /\ pc[t] = "restoreFpe" /\ pc' = [pc EXCEPT ![t] = "mark"] /\ saFpe' = "old"
        /\ UNCHANGED <<mc, tracked, uc, back, saTrap, aborted, timer, leftDelayed>>
    BY <1>2 DEF AbortRestoreFpe
  <2>2. pc'[t] = "mark"
    BY <1>0, <2>1 DEF TypeOK
  <2>3. ThreadInv(t)'
    BY <1>0, <2>1, <2>2
    DEF ThreadInv, FreshUntilKicked, GivesBack, Aborting, SurprisedOnce, SamplerOn, NoIntDiv,
        Unnested, AbortSteps
  <2>4. GlobalInv' /\ Only(t) /\ Monotone
    BY <1>0, <1>1, <2>1 DEF GlobalInv, Booting, Only, Monotone, TypeOK
  <2> QED
    BY <2>3, <2>4, Combine
<1>3. CASE AbortMark(t)
  <2> DEFINE m == [mc[t] EXCEPT !.state = "ABORT"]
  <2>1. /\ pc[t] = "mark" /\ pc' = [pc EXCEPT ![t] = "abortKick"]
        /\ UNCHANGED <<tracked, uc, back, gvars>>
        /\ IF tracked[t] THEN push_trace_record(t, m, AbortRecord) ELSE UNCHANGED <<mc, file>>
    BY <1>3 DEF AbortMark
  <2>2. /\ m \in Contexts /\ m.state = "ABORT" /\ m.on = mc[t].on
        /\ m.inTrap = mc[t].inTrap /\ m.delayed = mc[t].delayed
    BY <1>0 DEF Contexts, States
  <2> HIDE DEF m
  <2>3. /\ tracked[t] => mc'[t].state = "ABORT"
        /\ mc'[t].on = mc[t].on
        /\ mc'[t].inTrap = mc[t].inTrap /\ mc'[t].delayed = mc[t].delayed
        /\ \A w \in Threads \ {t} : mc'[w] = mc[w]
    <3>1. CASE tracked[t]
      <4>1. AbortRecord \in Nat
        BY DEF AbortRecord
      <4> QED
        BY <1>0, <2>1, <2>2, <3>1, <4>1, PushOK
    <3>2. CASE ~tracked[t]
      BY <2>1, <3>2
    <3> QED
      BY <3>1, <3>2
  <2>4. pc'[t] = "abortKick"
    BY <1>0, <2>1 DEF TypeOK
  <2>5. ThreadInv(t)'
    BY <1>0, <2>1, <2>3, <2>4
    DEF ThreadInv, FreshUntilKicked, GivesBack, Aborting, SurprisedOnce, SamplerOn, NoIntDiv,
        Unnested, AbortSteps, gvars
  <2>6. GlobalInv' /\ Only(t) /\ Monotone
    BY <1>0, <1>1, <2>1, <2>3 DEF GlobalInv, Booting, Only, Monotone, TypeOK, gvars
  <2> QED
    BY <2>5, <2>6, Combine
<1>4. CASE AbortKick(t)
  <2>1. /\ pc[t] = "abortKick" /\ UNCHANGED <<mc, tracked, back, saFpe, saTrap, aborted>>
        /\ timer' = timer /\ leftDelayed' = leftDelayed
    BY <1>4 DEF AbortKick, gvars
  <2>2. tracked[t] => saFpe = "old" /\ mc[t].state = "ABORT" /\ ~uc[t].tf
    BY <1>0, <2>1 DEF ThreadInv, GivesBack, Aborting, AbortSteps
  <2>3. \/ UNCHANGED <<uc, pc>>
        \/ /\ pc' = [pc EXCEPT ![t] = "restoreTrap"] /\ uc' = uc
           /\ back[t] # "none" \/ (tracked[t] /\ mc[t].inTrap)
        \/ /\ pc' = [pc EXCEPT ![t] = "restoreTrap"]
           /\ uc' = [uc EXCEPT ![t] = Quiesce(uc[t])]
    BY <1>0, <1>4 DEF AbortKick, KickNeeded, TypeOK
  <2>4. CASE UNCHANGED <<uc, pc>>
    <3>1. ThreadInv(t)' /\ Only(t) /\ Monotone
      BY <1>0, <2>1, <2>4, Bystander DEF Only, Monotone
    <3>2. GlobalInv'
      BY <1>0, <2>1, <2>4 DEF GlobalInv, Booting
    <3> QED
      BY <3>1, <3>2, Combine
  <2>5. CASE pc' = [pc EXCEPT ![t] = "restoreTrap"]
    <3>1. pc'[t] = "restoreTrap"
      BY <1>0, <2>5 DEF TypeOK
    <3>2. /\ uc'[t].insn = uc[t].insn
          /\ tracked[t] => uc'[t].mask /\ ~uc'[t].tf
          /\ \A w \in Threads \ {t} : uc'[w] = uc[w]
      <4>1. CASE uc' = [uc EXCEPT ![t] = Quiesce(uc[t])]
        BY <1>0, <4>1, QuiesceOK DEF TypeOK
      <4>2. CASE uc' = uc /\ (back[t] # "none" \/ (tracked[t] /\ mc[t].inTrap))
        BY <1>0, <2>1, <4>2 DEF ThreadInv, Aborting, AbortSteps
      <4>3. CASE UNCHANGED <<uc, pc>>
        BY <2>1, <3>1, <4>3
      <4> QED
        BY <2>3, <4>1, <4>2, <4>3
    <3>3. ThreadInv(t)'
      BY <1>0, <2>1, <2>2, <3>1, <3>2
      DEF ThreadInv, FreshUntilKicked, GivesBack, Aborting, SurprisedOnce, SamplerOn, NoIntDiv,
        Unnested, AbortSteps
    <3>4. GlobalInv' /\ Only(t) /\ Monotone
      BY <1>0, <1>1, <2>1, <2>5, <3>2 DEF GlobalInv, Booting, Only, Monotone, TypeOK
    <3> QED
      BY <3>3, <3>4, Combine
  <2> QED
    BY <2>3, <2>4, <2>5
<1>5. CASE AbortRestoreTrap(t)
  <2>1. /\ pc[t] = "restoreTrap" /\ pc' = [pc EXCEPT ![t] = "setAborted"] /\ saTrap' = "old"
        /\ UNCHANGED <<mc, tracked, uc, back, saFpe, aborted, timer, leftDelayed>>
    BY <1>5 DEF AbortRestoreTrap
  <2>2. pc'[t] = "setAborted"
    BY <1>0, <2>1 DEF TypeOK
  <2>3. ThreadInv(t)'
    BY <1>0, <2>1, <2>2
    DEF ThreadInv, FreshUntilKicked, GivesBack, Aborting, SurprisedOnce, SamplerOn, NoIntDiv,
        Unnested, AbortSteps
  <2>4. GlobalInv' /\ Only(t) /\ Monotone
    BY <1>0, <1>1, <2>1 DEF GlobalInv, Booting, Only, Monotone, TypeOK
  <2> QED
    BY <2>3, <2>4, Combine
<1>6. CASE AbortSetAborted(t)
  <2>1. /\ pc[t] = "setAborted" /\ pc' = [pc EXCEPT ![t] = "user"] /\ aborted'
        /\ back' = [back EXCEPT ![t] = "none"]
        /\ UNCHANGED <<mc, tracked, uc, saFpe, saTrap, timer, leftDelayed>>
    BY <1>0, <1>6 DEF AbortSetAborted, Return, ThreadInv, Unnested
  <2>2. pc'[t] = "user" /\ back'[t] = "none" /\ saFpe = "old" /\ saTrap = "old"
    BY <1>0, <2>1 DEF TypeOK, ThreadInv, GivesBack, AbortSteps
  <2>3. tracked[t] => mc[t].state = "ABORT" /\ uc[t].mask /\ ~uc[t].tf
    BY <1>0, <2>1 DEF ThreadInv, Aborting, AbortSteps
  <2>4. ThreadInv(t)'
    BY <1>0, <2>1, <2>2, <2>3
    DEF ThreadInv, FreshUntilKicked, GivesBack, Aborting, SurprisedOnce, SamplerOn, NoIntDiv,
        Unnested, RegistersMatch, AbortSteps
  <2>5. GlobalInv' /\ Only(t) /\ Monotone
    BY <1>0, <1>1, <2>1, <2>2 DEF GlobalInv, Booting, Only, Monotone, TypeOK
  <2> QED
    BY <2>4, <2>5, Combine
<1> QED
  BY <1>2, <1>3, <1>4, <1>5, <1>6 DEF Abort

LEMMA NewContextOK ==
  ASSUME TrapsInv, NEW t \in Threads, NewContext(t)
  PROVE  /\ tracked' = [tracked EXCEPT ![t] = TRUE]
         /\ mc'[t].state = "INIT" /\ mc'[t].on /\ ~mc'[t].inTrap
         /\ ~Timers => ~mc'[t].delayed /\ ~timer'
         /\ \A w \in Threads \ {t} : mc'[w] = mc[w]
<1>0. TypeOK /\ GlobalInv
  BY DEF TrapsInv
<1>1. PICK d \in {FALSE, leftDelayed} : mc' = [mc EXCEPT ![t] = FreshContext(d)]
  BY DEF NewContext
<1>2. d \in BOOLEAN /\ (~Timers => ~d)
  <2>1. leftDelayed \in BOOLEAN /\ (~Timers => leftDelayed = FALSE)
    BY <1>0 DEF TypeOK, GlobalInv
  <2>2. d = FALSE \/ d = leftDelayed
    BY <1>1
  <2>3. CASE d = FALSE
    BY <2>3
  <2>4. CASE d = leftDelayed
    <3>1. d \in BOOLEAN
      BY <2>1, <2>4
    <3>2. ASSUME ~Timers PROVE d = FALSE
      BY <2>1, <2>4, <3>2
    <3> QED
      BY <3>1, <3>2
  <2> QED
    BY <2>2, <2>3, <2>4
<1>3. mc'[t] = FreshContext(d)
  BY <1>0, <1>1 DEF TypeOK
<1>4. /\ mc'[t].state = "INIT" /\ mc'[t].on /\ ~mc'[t].inTrap
      /\ mc'[t].delayed = d
  BY <1>2, <1>3, FreshOK
<1>5. ~Timers => ~timer'
  BY <1>0 DEF NewContext, init_sampler, GlobalInv
<1> QED
  BY <1>0, <1>1, <1>2, <1>4, <1>5 DEF NewContext, TypeOK

LEMMA BringupInv ==
  ASSUME TrapsInv, TypeOK', Boot \/ Install PROVE TrapsInv'
<1>0. /\ Main \in Threads /\ ThreadInv(Main) /\ TypeOK /\ GlobalInv
      /\ \A t \in Threads : ThreadInv(t)
  BY ConstantsAssumption DEF TrapsInv
<1>1. Booting /\ ~aborted /\ \A t \in Threads \ {Main} : pc[t] = "unborn"
  BY <1>0 DEF Boot, Install, Booting, GlobalInv
<1>2. CASE Boot
  <2>1. /\ NewContext(Main) /\ pc[Main] = "boot" /\ pc' = [pc EXCEPT ![Main] = "install"]
        /\ UNCHANGED <<uc, back, saFpe, saTrap, aborted, leftDelayed>>
    BY <1>2 DEF Boot
  <2>2. /\ mc'[Main].state = "INIT" /\ mc'[Main].on /\ ~mc'[Main].inTrap
        /\ ~Timers => ~mc'[Main].delayed /\ ~timer'
        /\ tracked' = [tracked EXCEPT ![Main] = TRUE]
        /\ \A w \in Threads \ {Main} : mc'[w] = mc[w]
    BY <1>0, <2>1, NewContextOK
  <2>3. pc'[Main] = "install" /\ tracked'[Main]
    BY <1>0, <2>1, <2>2 DEF TypeOK
  <2>4. ThreadInv(Main)'
    BY <1>0, <2>1, <2>2, <2>3
    DEF ThreadInv, FreshUntilKicked, GivesBack, Aborting, SurprisedOnce, SamplerOn, NoIntDiv,
        Unnested, AbortSteps
  <2>5. GlobalInv' /\ Only(Main) /\ Monotone
    BY <1>0, <1>1, <2>1, <2>2 DEF GlobalInv, Booting, Only, Monotone, TypeOK
  <2> QED
    BY <1>0, <2>4, <2>5, Combine
<1>3. CASE Install
  <2>1. /\ pc[Main] = "install"
        /\ pc' = [pc EXCEPT ![Main] = IF KickStart THEN "user" ELSE "kick"]
        /\ UNCHANGED <<mc, tracked, uc, back, aborted, timer, leftDelayed>>
    BY <1>3 DEF Install
  <2>2. pc'[Main] \in {"user", "kick"} /\ \A t \in Threads \ {Main} : pc'[t] = "unborn"
    BY <1>0, <1>1, <2>1 DEF TypeOK
  <2>3. ASSUME NEW t \in Threads PROVE ThreadInv(t)'
    <3>1. CASE t = Main
      BY <1>0, <2>1, <2>2, <3>1
      DEF ThreadInv, FreshUntilKicked, GivesBack, Aborting, SurprisedOnce, SamplerOn, NoIntDiv,
        Unnested, RegistersMatch, AbortSteps
    <3>2. CASE t # Main
      <4>1. ThreadInv(t) /\ pc[t] = "unborn" /\ pc'[t] = "unborn"
        BY <1>0, <1>1, <2>2, <3>2
      <4> QED
        BY <2>1, <4>1
        DEF ThreadInv, FreshUntilKicked, GivesBack, Aborting, SurprisedOnce, SamplerOn,
            NoIntDiv, Unnested, AbortSteps
    <3> QED
      BY <3>1, <3>2
  <2>4. GlobalInv'
    BY <1>0, <1>1, <2>1, <2>2 DEF GlobalInv, Booting
  <2> QED
    BY <2>3, <2>4 DEF TrapsInv
<1> QED
  BY <1>2, <1>3

LEMMA TrampInv ==
  ASSUME TrapsInv, TypeOK', NEW t \in Threads, Tramp(t) PROVE TrapsInv'
<1>0. ThreadInv(t) /\ TypeOK /\ GlobalInv /\ uc[t] \in Registers
  BY Acting
<1>1. /\ pc[t] = "tramp" /\ UNCHANGED <<back, saFpe, saTrap, aborted, leftDelayed>>
      /\ uc' = [uc EXCEPT ![t] = arch_clear_fp_exceptions(uc[t])]
  BY DEF Tramp
<1>2. ~Booting /\ ~tracked[t] /\ Monotone
  BY <1>0, <1>1, NotBooting DEF ThreadInv, FreshUntilKicked, Monotone
<1>3. uc'[t].insn = uc[t].insn /\ \A w \in Threads \ {t} : uc'[w] = uc[w]
  BY <1>0, <1>1 DEF TypeOK, arch_clear_fp_exceptions, Registers
<1>4. CASE NewContext(t) /\ pc' = [pc EXCEPT ![t] = "kick"]
  <2>1. /\ mc'[t].state = "INIT" /\ mc'[t].on /\ ~mc'[t].inTrap
        /\ ~Timers => ~mc'[t].delayed /\ ~timer'
        /\ tracked' = [tracked EXCEPT ![t] = TRUE]
        /\ \A w \in Threads \ {t} : mc'[w] = mc[w]
    BY <1>4, NewContextOK
  <2>2. pc'[t] = "kick" /\ tracked'[t]
    BY <1>0, <1>4, <2>1 DEF TypeOK
  <2>3. ThreadInv(t)'
    BY <1>0, <1>1, <1>3, <2>1, <2>2
    DEF ThreadInv, FreshUntilKicked, GivesBack, Aborting, SurprisedOnce, SamplerOn, NoIntDiv,
        Unnested, AbortSteps
  <2>4. GlobalInv' /\ Only(t)
    BY <1>0, <1>1, <1>2, <1>3, <1>4, <2>1 DEF GlobalInv, Booting, Only, TypeOK
  <2> QED
    BY <1>2, <2>3, <2>4, Combine
<1>5. CASE pc' = [pc EXCEPT ![t] = "user"] /\ UNCHANGED <<tracked, mc, timer>>
  <2>1. pc'[t] = "user" /\ ~tracked'[t]
    BY <1>0, <1>2, <1>5 DEF TypeOK
  <2>2. ThreadInv(t)'
    BY <1>0, <1>1, <1>3, <1>5, <2>1
    DEF ThreadInv, FreshUntilKicked, GivesBack, Aborting, SurprisedOnce, SamplerOn, NoIntDiv,
        Unnested, AbortSteps
  <2>3. GlobalInv' /\ Only(t)
    BY <1>0, <1>1, <1>2, <1>3, <1>5 DEF GlobalInv, Booting, Only, TypeOK
  <2> QED
    BY <1>2, <2>2, <2>3, Combine
<1> QED
  BY <1>4, <1>5 DEF Tramp

LEMMA TrapsInvInit == Init => TrapsInv
<1> SUFFICES ASSUME Init PROVE TrapsInv
  OBVIOUS
<1>1. TypeOK
  BY TypeInit
<1>2. GlobalInv
  BY ConstantsAssumption DEF Init, GlobalInv
<1>3. ASSUME NEW t \in Threads PROVE ThreadInv(t)
  <2>1. mc[t] = FreshContext(FALSE)
    BY DEF Init
  <2>2. mc[t].on /\ ~mc[t].delayed /\ mc[t].state = "INIT"
    BY <2>1, FreshOK
  <2>3. /\ ~tracked[t] /\ ~uc[t].tf /\ uc[t].insn = "none"
        /\ pc[t] = (IF t = Main THEN "boot" ELSE "unborn") /\ back[t] = "none"
    BY DEF Init
  <2> QED
    BY <2>2, <2>3
    DEF ThreadInv, FreshUntilKicked, GivesBack, Aborting, SurprisedOnce, SamplerOn, NoIntDiv,
        Unnested, AbortSteps
<1> QED
  BY <1>1, <1>2, <1>3 DEF TrapsInv

LEMMA TrapsInvNext ==
  ASSUME "intdiv" \notin Inputs \/ ~Timers, TrapsInv, ~nested', [Next]_vars PROVE TrapsInv'
<1>0. TypeOK'
  BY TypeNext DEF TrapsInv
<1>1. CASE Boot \/ Install
  BY <1>0, <1>1, BringupInv
<1>2. ASSUME NEW t \in Threads, Target(t) PROVE TrapsInv'
  BY <1>0, <1>2, TargetInv
<1>3. ASSUME NEW t \in Threads, Kernel(t) PROVE TrapsInv'
  BY <1>0, <1>3, KernelInv
<1>4. ASSUME NEW t \in Threads, Tramp(t) PROVE TrapsInv'
  BY <1>0, <1>4, TrampInv
<1>5. ASSUME NEW t \in Threads, Kick(t) PROVE TrapsInv'
  <2>1. uc[t] \in Registers /\ pend \in BOOLEAN /\ ThreadInv(t)
    BY DEF TrapsInv, TypeOK
  <2>2. "intdiv" \notin Inputs => uc[t].insn # "intdiv"
    BY <2>1 DEF ThreadInv, NoIntDiv
  <2> QED
    BY <1>0, <1>5, <2>1, <2>2, BrkInv DEF Kick
<1>6. ASSUME NEW t \in Threads, Abort(t) PROVE TrapsInv'
  BY <1>0, <1>6, AbortInv
<1>7. CASE UNCHANGED vars
  BY <1>0, <1>7, Unchanged DEF vars, tvars, gvars
<1>8. ASSUME NEW t \in Threads, AlarmResumes(t) PROVE FALSE
  <2>1. pc[t] \in AlarmSteps /\ ThreadInv(t)
    BY <1>8, Acting DEF AlarmResumes
  <2> QED
    BY <2>1 DEF ThreadInv, Unnested, AlarmSteps
<1>9. CASE BootFails
  BY <1>0, <1>9, DieInv DEF BootFails
<1> QED
  BY <1>1, <1>2, <1>3, <1>4, <1>5, <1>6, <1>7, <1>8, <1>9 DEF Next, Terminated

(* A nested handler is never forgotten.                                    *)
LEMMA NestedStays == ASSUME nested, [Next]_vars PROVE nested'
<1>1. ASSUME NEW f, Die(f) PROVE nested'
  BY <1>1 DEF Die
<1>2. ASSUME NEW t, NEW u, NEW b, NEW a, brk_trap_handler(t, u, b, a) PROVE nested'
  BY <1>2 DEF brk_trap_handler
<1>3. ASSUME NEW t, NEW u, NEW p, NEW b, SigTrap(t, u, p, b) PROVE nested'
  BY <1>1, <1>2, <1>3 DEF SigTrap
<1>4. ASSUME NEW t, NEW j, NEW n, fp_trap_handler(t, j, n) PROVE nested'
  BY <1>1, <1>4 DEF fp_trap_handler, Fault, gvars
<1>5. ASSUME NEW t \in Threads, Target(t) PROVE nested'
  BY <1>1, <1>4, <1>5
  DEF Target, FpTraps, FpSilent, IntDivTraps, TargetConflict, ThreadExit, ThreadEnd,
      ProcessExit, Interrupted, Create, gvars
<1>6. ASSUME NEW t \in Threads, Kernel(t) PROVE nested'
  BY <1>1, <1>2, <1>3, <1>6
  DEF Kernel, FpStepped, DeliverTrap, Alarm, AlarmTrapped, AlarmHangs, TrapHangs
<1>7. ASSUME NEW t \in Threads, Tramp(t) \/ Kick(t) \/ Abort(t) \/ AlarmResumes(t)
      PROVE  nested'
  BY <1>3, <1>7
  DEF Tramp, Kick, Abort, AbortRestoreFpe, AbortMark, AbortKick, AbortRestoreTrap,
      AbortSetAborted, AlarmResumes, gvars
<1> QED
  BY <1>1, <1>5, <1>6, <1>7 DEF Next, Boot, BootFails, Install, Terminated, vars, gvars

(* The registers of every monitored thread in the target's code match its  *)
(* state, whatever the threads, the sampler, the event limit and aborts    *)
(* do, as long as no SIGTRAP has interrupted FPSpy's own code.  Integer    *)
(* division errors together with Poisson sampling are excluded: they fault *)
(* while the sampler is OFF.                                               *)
THEOREM TrapsAlwaysMatch ==
  ASSUME "intdiv" \notin Inputs \/ ~Timers PROVE Spec => []TrapsMatchState
<1>1. (~nested => TrapsInv) => TrapsMatchState
  BY DEF TrapsInv, ThreadInv, TrapsMatchState
<1>2. ASSUME ~nested => TrapsInv, [Next]_vars PROVE (~nested => TrapsInv)'
  BY <1>2, TrapsInvNext, NestedStays
<1> QED
  BY TrapsInvInit, <1>1, <1>2, PTL DEF Spec

=============================================================================
