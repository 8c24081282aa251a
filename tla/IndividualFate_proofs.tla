------------------------ MODULE IndividualFate_proofs -----------------------
(***************************************************************************)
(* Proofs about individual mode: the two promises the code breaks in the   *)
(* runs limit_poisson and thread_abort, proved for the targets and options *)
(* with which it keeps them.                                               *)
(***************************************************************************)
EXTENDS IndividualTrace_proofs, FiniteSetTheorems

-----------------------------------------------------------------------------
(* The event limit, without Poisson sampling.                              *)

(* What thread t has counted, and that it is masked when it may not count  *)
(* any more.                                                               *)
Limited(t) ==
  /\ Events(t) <= MaxCount
  /\ mc[t].state = "INIT" => mc[t].count = 0
  /\ tracked[t] /\ mc[t].state = "AWAIT_FPE" /\ mc[t].count >= MaxCount => uc[t].mask
Logged == TrapsInv /\ LogInv
LimitInv == Logged /\ \A t \in Threads : Limited(t)

Limitable == MaxCount \in Nat \ {0} /\ ~Timers /\ Traceable

LEMMA LimitActing ==
  ASSUME LimitInv, NEW t \in Threads
  PROVE  /\ TypeOK /\ Limited(t) /\ ThreadInv(t) /\ GlobalInv
         /\ mc[t] \in Contexts /\ uc[t] \in Registers /\ origRound \in Rounds
         /\ mc[t].count \in Nat /\ mc[t].state \in States /\ Events(t) \in Nat
         /\ NonePending
BY Acting DEF LimitInv, Logged, LogInv, Events

LEMMA LimitCombine ==
  ASSUME LimitInv, Logged', NEW t \in Threads, Only(t), Limited(t)' PROVE LimitInv'
<1>1. ASSUME NEW u \in Threads \ {t} PROVE Limited(u)'
  BY <1>1 DEF LimitInv, Limited, Events, Only
<1> QED
  BY <1>1 DEF LimitInv

(* A step that does not touch contexts or registers, or that only masks.   *)
LEMMA LimitStill ==
  ASSUME LimitInv, Logged', UNCHANGED <<mc, tracked>>,
         \A u \in Threads : tracked[u] => uc'[u].mask = uc[u].mask \/ uc'[u].mask
  PROVE  LimitInv'
BY DEF LimitInv, Limited, Events

(* At the limit the thread that has stepped over its instruction is masked.*)
LEMMA LimitStepped ==
  ASSUME Limitable, LimitInv, NEW t \in Threads, NEW u \in Registers, NEW p \in BOOLEAN,
         SigTrap(t, u, p, "user"), saTrap = "fpspy", mc[t].state = "AWAIT_TRAP", tracked[t]
  PROVE  mc[t].count + 1 >= MaxCount => uc'[t].mask
<1>0. /\ TypeOK /\ mc[t] \in Contexts /\ ~mc[t].delayed /\ origRound \in Rounds
  BY LimitActing DEF ThreadInv, SamplerOn, Limitable
<1>1. BrkStepped(t, u, "user", timer)
  BY DEF SigTrap, brk_trap_handler, BrkInit, BrkStepped, BrkAborted, BrkSurprise
<1>2. ~Counted(mc[t]).delayed /\ Counted(mc[t]).count = mc[t].count + 1
  BY <1>0, CountedOK
<1>3. uc' = [uc EXCEPT ![t] = IF LimitReached(mc[t].count + 1) THEN Quiesce(u) ELSE Watch(u)]
  BY <1>1, <1>2, EditedUser DEF BrkStepped
<1>4. mc[t].count + 1 >= MaxCount => LimitReached(mc[t].count + 1)
  BY DEF LimitReached, Limitable
<1> QED
  BY <1>0, <1>3, <1>4, QuiesceOK DEF TypeOK

LEMMA LimitTrap ==
  ASSUME Limitable, LimitInv, Logged', NEW t \in Threads, NEW u \in Registers,
         NEW p \in BOOLEAN, SigTrap(t, u, p, "user")
  PROVE  LimitInv'
<1>0. /\ TypeOK /\ Limited(t) /\ mc[t].count \in Nat /\ origRound \in Rounds
  BY LimitActing
<1>1. CASE Die("leaked")
  BY <1>1, LimitStill DEF Die, tvars
<1>2. CASE ~Die("leaked")
  <2>1. /\ saTrap = "fpspy" /\ Only(t) /\ tracked' = tracked
        /\ Started(t, u) \/ SteppedOver(t, u) \/ Halted(t, u) \/ Surprised(t, u)
    BY <1>0, <1>2, SigTrapEffect DEF KeepsLogs
  <2>2. CASE Started(t, u)
    BY <1>0, <2>1, <2>2, LimitCombine DEF Started, Limited, Events, Limitable
  <2>3. CASE SteppedOver(t, u)
    <3>1. mc[t].count + 1 >= MaxCount => uc'[t].mask
      BY <2>1, <2>3, LimitStepped DEF SteppedOver
    <3> QED
      BY <1>0, <2>1, <2>3, <3>1, LimitCombine DEF SteppedOver, Limited, Events
  <2>4. CASE Halted(t, u)
    BY <1>0, <2>1, <2>4, LimitCombine DEF Halted, Limited, Events
  <2>5. CASE Surprised(t, u)
    <3>1. uc'[t].mask
      BY <1>0, <2>5, QuiesceOK DEF Surprised
    <3> QED
      BY <1>0, <2>1, <2>5, <3>1, LimitCombine DEF Surprised, KeepsContext, Limited, Events
  <2> QED
    BY <2>1, <2>2, <2>3, <2>4, <2>5
<1> QED
  BY <1>1, <1>2

(* The one step that counts: a SIGFPE of an unmasked thread, which has not *)
(* reached the limit.                                                      *)
LEMMA LimitFault ==
  ASSUME Limitable, LimitInv, Logged', NEW t \in Threads, FpTraps(t) PROVE LimitInv'
<1>0. TypeOK /\ Limited(t) /\ mc[t].count \in Nat /\ Number(t) \in Nat
  BY LimitActing DEF Number, TypeOK
<1>1. CASE \E f \in {"crashed", "leaked"} : Die(f)
  BY <1>1, LimitStill DEF Die, tvars
<1>2. CASE ~\E f \in {"crashed", "leaked"} : Die(f)
  <2>1. fp_trap_handler(t, "fp", Number(t)) /\ ~uc[t].mask
    BY <1>2 DEF FpTraps
  <2>2. Only(t) /\ Faulted(t, "fp", Number(t))
    BY <1>0, <1>2, <2>1, FaultEffect
  <2>3. CASE mc[t].state = "AWAIT_FPE"
    <3>1. mc[t].count < MaxCount
      BY <1>0, <2>1, <2>2, <2>3 DEF Limited, Faulted, Limitable
    <3> QED
      BY <1>0, <2>2, <2>3, <3>1, LimitCombine DEF Faulted, Limited, Events, Limitable
  <2>4. CASE mc[t].state # "AWAIT_FPE"
    BY <1>0, <2>2, <2>4, LimitCombine DEF Faulted, Limited, Events
  <2> QED
    BY <2>3, <2>4
<1> QED
  BY <1>1, <1>2

LEMMA LimitTarget ==
  ASSUME Limitable, LimitInv, Logged', NEW t \in Threads, Target(t) PROVE LimitInv'
<1>0. /\ TypeOK /\ Limited(t) /\ ThreadInv(t) /\ mc[t] \in Contexts /\ uc[t] \in Registers
      /\ mc[t].count \in Nat
  BY LimitActing
<1>1. CASE FpTraps(t)
  BY <1>1, LimitFault
<1>2. CASE FpSilent(t)
  <2>1. Executed(t).mask = uc[t].mask
    BY <1>0 DEF Executed, Registers
  <2> QED
    BY <1>0, <1>2, <2>1, LimitStill DEF FpSilent, TypeOK
<1>3. ~IntDivTraps(t)
  BY <1>0 DEF IntDivTraps, AtInsn, Limitable, Traceable, ThreadInv, NoIntDiv
<1>4. CASE TargetConflict(t)
  <2>1. /\ UNCHANGED <<mc, tracked>>
        /\ uc' = uc \/ uc' = [uc EXCEPT ![t] = arch_clear_fp_exceptions(arch_mask_fp_traps(uc[t]))]
    BY <1>4 DEF TargetConflict
  <2>2. arch_clear_fp_exceptions(arch_mask_fp_traps(uc[t])).mask
    BY <1>0 DEF arch_clear_fp_exceptions, arch_mask_fp_traps, Registers
  <2> QED
    BY <1>0, <2>1, <2>2, LimitStill DEF TypeOK
<1>5. CASE ThreadExit(t) \/ ProcessExit(t) \/ Interrupted(t)
  <2>1. teardown_monitoring_context(t) /\ UNCHANGED <<uc, pc, back>>
    BY <1>5 DEF ThreadExit, ProcessExit, Interrupted
  <2>2. /\ ~tracked'[t] /\ mc'[t].state = mc[t].state /\ mc'[t].count = mc[t].count
        /\ \A w \in Threads \ {t} : mc'[w] = mc[w] /\ tracked'[w] = tracked[w]
    BY <1>0, <2>1, TeardownEffect
  <2> QED
    BY <1>0, <2>1, <2>2, LimitCombine DEF Only, Limited, Events
<1>7. CASE ThreadEnd(t)
  BY <1>0, <1>7, LimitStill DEF ThreadEnd, HandlerRegisters, TypeOK
<1>6. ASSUME NEW w \in Threads, Create(t, w) PROVE LimitInv'
  <2>1. /\ UNCHANGED <<mc, tracked>> /\ pc[w] = "unborn" /\ uc' = [uc EXCEPT ![w] = uc[t]]
    BY <1>6 DEF Create
  <2>2. ~tracked[w]
    BY <2>1, LimitActing DEF ThreadInv, FreshUntilKicked
  <2> QED
    BY <1>0, <2>1, <2>2, LimitStill DEF TypeOK
<1> QED
  BY <1>1, <1>2, <1>3, <1>4, <1>5, <1>6, <1>7 DEF Target

LEMMA LimitKernel ==
  ASSUME Limitable, LimitInv, Logged', NEW t \in Threads, Kernel(t) PROVE LimitInv'
<1>0. TypeOK /\ uc[t] \in Registers /\ GlobalInv /\ NonePending
  BY LimitActing
<1>1. CASE FpStepped(t)
  <2>1. Executed(t) \in Registers
    BY <1>0 DEF Executed, Registers
  <2> QED
    BY <1>0, <1>1, <2>1, LimitTrap DEF FpStepped, TypeOK
<1>2. ~DeliverTrap(t) /\ ~AlarmTrapped(t) /\ ~TrapHangs(t)
  BY <1>0 DEF DeliverTrap, AlarmTrapped, TrapHangs, NonePending
<1>3. ~Alarm(t) /\ ~AlarmHangs(t)
  BY <1>0 DEF Alarm, AlarmHangs, AlarmOpen, GlobalInv, Limitable
<1> QED
  BY <1>1, <1>2, <1>3 DEF Kernel

LEMMA LimitAbort ==
  ASSUME LimitInv, Logged', NEW t \in Threads, Abort(t) PROVE LimitInv'
<1>0. /\ TypeOK /\ Limited(t) /\ mc[t] \in Contexts /\ uc[t] \in Registers
      /\ mc[t].count \in Nat /\ origRound \in Rounds
  BY LimitActing
<1>1. CASE AbortMark(t) /\ tracked[t]
  <2> DEFINE m == [mc[t] EXCEPT !.state = "ABORT"]
  <2>1. /\ push_trace_record(t, m, AbortRecord) /\ UNCHANGED <<tracked, uc, back>>
        /\ \A w \in Threads \ {t} : pc'[w] = pc[w]
    BY <1>0, <1>1 DEF AbortMark, Goto, TypeOK
  <2>2. m \in Contexts /\ m.state = "ABORT" /\ m.count = mc[t].count /\ AbortRecord \in Nat
    BY <1>0 DEF Contexts, States, AbortRecord
  <2> HIDE DEF m
  <2>3. /\ mc'[t].state = "ABORT" /\ mc'[t].count = mc[t].count
        /\ \A w \in Threads \ {t} : mc'[w] = mc[w]
    BY <1>0, <2>1, <2>2, PushOK
  <2> QED
    BY <1>0, <2>1, <2>3, LimitCombine, ConstantsAssumption DEF Only, Limited, Events
<1>2. CASE ~(AbortMark(t) /\ tracked[t])
  <2>1. /\ UNCHANGED <<mc, tracked>>
        /\ uc' = uc \/ uc' = [uc EXCEPT ![t] = Quiesce(uc[t])]
    BY <1>2 DEF Abort, AbortRestoreFpe, AbortMark, AbortKick, AbortRestoreTrap, AbortSetAborted
  <2> QED
    BY <1>0, <2>1, QuiesceOK, LimitStill DEF TypeOK
<1> QED
  BY <1>1, <1>2

LEMMA LimitBringup ==
  ASSUME Limitable, LimitInv, Logged', NEW t \in Threads, Tramp(t) \/ (t = Main /\ Boot)
  PROVE  LimitInv'
<1>0. TypeOK /\ Limited(t) /\ ThreadInv(t) /\ uc[t] \in Registers
  BY LimitActing
<1>1. /\ uc' = uc \/ uc' = [uc EXCEPT ![t] = arch_clear_fp_exceptions(uc[t])]
      /\ back' = back /\ \A w \in Threads \ {t} : pc'[w] = pc[w]
  BY <1>0 DEF Boot, Tramp, TypeOK
<1>2. \A w \in Threads \ {t} : uc'[w] = uc[w]
  BY <1>0, <1>1 DEF TypeOK
<1>3. ~tracked[t]
  BY <1>0 DEF Boot, Tramp, ThreadInv, FreshUntilKicked
<1>4. CASE NewContext(t)
  <2>1. /\ mc'[t].state = "INIT" /\ mc'[t].count = 0
        /\ \A w \in Threads \ {t} : mc'[w] = mc[w] /\ tracked'[w] = tracked[w]
    BY <1>0, <1>4, NewContextEffect
  <2> QED
    BY <1>1, <1>2, <2>1, LimitCombine DEF Only, Limited, Events, Limitable
<1>5. CASE UNCHANGED <<mc, tracked>>
  BY <1>2, <1>3, <1>5, LimitStill
<1> QED
  BY <1>4, <1>5 DEF Boot, Tramp

LEMMA LimitAlways == ASSUME Limitable PROVE Spec => []LimitInv
<1>1. Init => LimitInv
  <2> SUFFICES ASSUME Init, NEW t \in Threads PROVE Limited(t)
    BY TrapsInvInit, LogInit DEF LimitInv, Logged
  <2>1. mc[t].state = "INIT" /\ mc[t].count = 0
    BY DEF Init, FreshContext
  <2> QED
    BY <2>1 DEF Limited, Events, Limitable
<1>2. LimitInv /\ [Next]_vars => LimitInv'
  <2> SUFFICES ASSUME LimitInv, [Next]_vars PROVE LimitInv'
    OBVIOUS
  <2>0. Logged' /\ Main \in Threads
    <3>1. LogInv'
      BY LogNext DEF LimitInv, Logged, Limitable, LogStep
    <3>2. TrapsInv'
      BY <3>1, TrapsInvNext DEF LimitInv, Logged, LogInv, NonePending, Limitable
    <3> QED
      BY <3>1, <3>2, ConstantsAssumption DEF Logged
  <2>1. CASE Boot
    BY <2>0, <2>1, LimitBringup
  <2>2. CASE Install
    BY <2>0, <2>2, LimitStill DEF Install
  <2>3. ASSUME NEW t \in Threads, Target(t) PROVE LimitInv'
    BY <2>0, <2>3, LimitTarget
  <2>4. ASSUME NEW t \in Threads, Kernel(t) PROVE LimitInv'
    BY <2>0, <2>4, LimitKernel
  <2>5. ASSUME NEW t \in Threads, Tramp(t) PROVE LimitInv'
    BY <2>0, <2>5, LimitBringup
  <2>6. ASSUME NEW t \in Threads, Kick(t) PROVE LimitInv'
    BY <2>0, <2>6, LimitTrap, LimitActing DEF Kick, TypeOK
  <2>7. ASSUME NEW t \in Threads, Abort(t) PROVE LimitInv'
    BY <2>0, <2>7, LimitAbort
  <2>8. CASE UNCHANGED vars \/ BootFails
    BY <2>0, <2>8, LimitStill DEF vars, tvars, BootFails, Die
  <2>9. ASSUME NEW t \in Threads PROVE ~AlarmResumes(t)
    BY LimitActing DEF AlarmResumes, AlarmSteps, ThreadInv, Unnested
  <2> QED
    BY <2>1, <2>2, <2>3, <2>4, <2>5, <2>6, <2>7, <2>8, <2>9 DEF Next, Terminated
<1> QED
  BY <1>1, <1>2, PTL DEF Spec

(* A sample of n events has at most n records.                             *)
LEMMA SampleBound ==
  ASSUME NEW n \in Nat
  PROVE  /\ SampledUpTo(n) \in Seq(Nat)
         /\ Len(SampledUpTo(n)) \in 0..n
<1> DEFINE P == SamplePeriod
<1> DEFINE K == (n + P - 1) \div P
<1>0. P \in Nat \ {0} /\ n + P - 1 \in Nat
  BY ConstantsAssumption
<1>1. K \in Nat /\ (n + P - 1) % P \in 0..(P - 1) /\ n + P - 1 = P * K + ((n + P - 1) % P)
  BY <1>0, DivRem
<1>2. SampledUpTo(n) = [k \in 1..K |-> (k - 1) * P + 1]
  BY DEF SampledUpTo
<1>3. SampledUpTo(n) \in Seq(Nat)
  BY SampleInSeq
<1> HIDE DEF P, K
<1>4. Len(SampledUpTo(n)) = K
  BY <1>1, <1>2, <1>3
<1>5. K <= n
  <2> SUFFICES ASSUME n < K PROVE FALSE
    BY <1>1
  <2>1. P * K >= P * n + P
    BY <1>0, <1>1, NextMultiple
  <2>2. P * n >= n
    BY <1>0
  <2> QED
    BY <1>0, <1>1, <2>1, <2>2
<1> QED
  BY <1>1, <1>3, <1>4, <1>5

(* What is not the abort record is in the sample.                          *)
LEMMA OnlyTheSample ==
  ASSUME NEW s \in Seq(Nat), NEW e \in Seq(Nat), \A i \in 1..Len(e) : e[i] = AbortRecord,
         NEW n \in Nat, Len(s) <= n
  PROVE  Cardinality({i \in DOMAIN (s \o e) : (s \o e)[i] # AbortRecord}) <= n
<1> DEFINE R == {i \in DOMAIN (s \o e) : (s \o e)[i] # AbortRecord}
<1>1. /\ Len(s) \in Nat /\ Len(e) \in Nat /\ s \o e \in Seq(Nat)
      /\ Len(s \o e) = Len(s) + Len(e)
      /\ \A i \in 1 .. Len(s) + Len(e) :
           (s \o e)[i] = IF i <= Len(s) THEN s[i] ELSE e[i - Len(s)]
  BY LenProperties, ConcatProperties
<1>2. DOMAIN (s \o e) = 1..Len(s) + Len(e)
  BY <1>1, LenProperties
<1>3. R \in SUBSET (1..n)
  <2> SUFFICES ASSUME NEW i \in DOMAIN (s \o e), (s \o e)[i] # AbortRecord PROVE i \in 1..n
    OBVIOUS
  <2>1. i \in 1..Len(s) + Len(e)
    BY <1>2
  <2>2. CASE i <= Len(s)
    BY <1>1, <2>1, <2>2
  <2>3. CASE i > Len(s)
    <3>1. i - Len(s) \in 1..Len(e) /\ (s \o e)[i] = e[i - Len(s)]
      BY <1>1, <2>1, <2>3
    <3> QED
      BY <3>1
  <2> QED
    BY <1>1, <2>1, <2>2, <2>3
<1>4. IsFiniteSet(1..n) /\ Cardinality(1..n) = n
  BY FS_Interval
<1>5. Cardinality(R) <= Cardinality(1..n)
  BY <1>3, <1>4, FS_Subset
<1> QED
  BY <1>4, <1>5

(* FPSpy records at most FPSPY_MAXCOUNT events of a thread, with any       *)
(* threads, periods, buffers and aborts: at the limit brk_trap_handler()   *)
(* masks, and nothing unmasks again.  Without Poisson sampling, whose      *)
(* timer does (the run limit_poisson), without integer division errors,    *)
(* which trap although masked, without a SIGTRAP from outside, and for a   *)
(* limit of at least 1, because the handlers look at it only after an      *)
(* event.                                                                  *)
THEOREM LimitIsKept ==
  ASSUME MaxCount # 0, ~Timers, "intdiv" \notin Inputs, CreateMonitorFile, ~KickStart
  PROVE  Spec => []EventLimit
<1>1. CASE MaxCount = -1
  <2>1. EventLimit
    BY <1>1 DEF EventLimit
  <2> QED
    BY <2>1, PTL
<1>2. CASE MaxCount # -1
  <2>0. Limitable
    BY <1>2, ConstantsAssumption DEF Limitable, Traceable
  <2>1. LimitInv /\ TraceIsExact => EventLimit
    <3> SUFFICES ASSUME LimitInv, TraceIsExact, NEW t \in Threads
                 PROVE  Cardinality({i \in DOMAIN Trace(t) : Trace(t)[i] # AbortRecord}) <= MaxCount
      BY DEF EventLimit
    <3>1. seen[t] \in Nat /\ seen[t] <= MaxCount
      BY LogActing DEF LimitInv, Logged, Limited, LogInv, Counting
    <3> DEFINE tail == IF mc[t].state = "ABORT" THEN <<AbortRecord>> ELSE <<>>
    <3>2. Trace(t) = SampledUpTo(seen[t]) \o tail
      BY DEF TraceIsExact
    <3>3. SampledUpTo(seen[t]) \in Seq(Nat) /\ Len(SampledUpTo(seen[t])) \in 0..seen[t]
      BY <3>1, SampleBound
    <3>4. tail \in Seq(Nat) /\ \A i \in 1..Len(tail) : tail[i] = AbortRecord
      BY DEF AbortRecord
    <3> HIDE DEF tail
    <3> QED
      <4> DEFINE s == SampledUpTo(seen[t])
      <4>1. MaxCount \in Nat /\ Len(s) <= MaxCount /\ s \in Seq(Nat)
        BY <2>0, <3>1, <3>3 DEF Limitable
      <4> HIDE DEF s
      <4>2. Cardinality({i \in DOMAIN (s \o tail) : (s \o tail)[i] # AbortRecord}) <= MaxCount
        BY <3>4, <4>1, OnlyTheSample
      <4> QED
        BY <3>2, <4>2 DEF s
  <2> QED
    BY <2>0, <2>1, LimitAlways, TracesAreExact, PTL
<1> QED
  BY <1>1, <1>2

-----------------------------------------------------------------------------
(* A target of one thread survives FPSpy.                                  *)

Single == {"create", "intdiv", "cleanup"} \cap Inputs = {} /\ ~Timers /\ ~KickStart

(* FPSpy has its handlers while the thread may need them: from the first   *)
(* kick until the thread is marked ABORT and has masked its traps.         *)
Serving == pc[Main] \in {"kick", "user"} /\ ~aborted
Handled ==
  /\ Serving => saFpe = "fpspy" /\ saTrap = "fpspy"
  /\ pc[Main] \in {"restoreFpe", "mark", "abortKick", "restoreTrap"} => saTrap = "fpspy"
  /\ aborted => pc[Main] \in {"user", "gone"} /\ mc[Main].state = "ABORT"
  /\ pc[Main] = "user" => mc[Main].state # "INIT"
AloneInv ==
  /\ proc # "leaked" /\ NonePending /\ back[Main] = "none"
  /\ proc = "up" /\ pc[Main] # "boot" => tracked[Main] \/ Main \in left
  /\ Main \in left => pc[Main] \in {"user", "gone"} /\ uc[Main].insn = "none"
  /\ Handled

Basis == TypeOK /\ TrapsInv /\ SafetyInv

(* Nobody but the initial thread runs.                                     *)
LEMMA OnlyMain ==
  ASSUME Single, Basis, NEW t \in Threads, pc[t] # "unborn" PROVE t = Main
BY DEF Single, Basis, SafetyInv, OwnInv, Unstarted

(* What is known of the thread when a signal or a call arrives.            *)
LEMMA AloneActing ==
  ASSUME Basis, AloneInv
  PROVE  /\ Main \in Threads /\ TypeOK /\ GlobalInv /\ ThreadInv(Main) /\ OwnInv(Main)
         /\ mc[Main] \in Contexts /\ uc[Main] \in Registers /\ mc[Main].state \in States
         /\ proc = "up" /\ pc[Main] = "user" /\ Main \notin left => RegistersMatch(Main)
<1>1. Main \in Threads
  BY ConstantsAssumption
<1>2. proc = "up" /\ pc[Main] = "user" /\ Main \notin left => tracked[Main]
  BY DEF AloneInv
<1> QED
  BY <1>1, <1>2, Acting DEF Basis, SafetyInv, ThreadInv

(* A SIGTRAP of the thread's own kick or step reaches brk_trap_handler(),  *)
(* which expects it.                                                       *)
LEMMA AloneTrap ==
  ASSUME Basis, AloneInv, NEW u \in Registers, SigTrap(Main, u, pend, "user"),
         Serving, proc = "up", Main \notin left, mc[Main].state \in {"INIT", "AWAIT_TRAP"}, ~nested'
  PROVE  AloneInv'
<1>0. Main \in Threads /\ TypeOK /\ pend \in BOOLEAN /\ tracked[Main]
  BY AloneActing DEF TypeOK, AloneInv, Serving
<1>1. saTrap = "fpspy" /\ proc' = proc
  BY DEF AloneInv, Handled, SigTrap, brk_trap_handler
<1>2. ~Die("leaked")
  BY <1>1 DEF Die
<1>3. /\ pend' = pend /\ UNCHANGED <<tracked, left, saFpe, saTrap, aborted>>
      /\ Started(Main, u) \/ SteppedOver(Main, u) \/ Halted(Main, u) \/ Surprised(Main, u)
  BY <1>0, <1>2, SigTrapEffect DEF KeepsLogs
<1>4. pc'[Main] = "user" /\ back' = back /\ mc'[Main].state = "AWAIT_FPE"
  BY <1>0, <1>3 DEF Started, SteppedOver, Halted, Surprised
<1> QED
  BY <1>0, <1>1, <1>3, <1>4 DEF AloneInv, Handled, Serving, NonePending

LEMMA AloneFault ==
  ASSUME Single, Basis, AloneInv, FpTraps(Main) PROVE AloneInv'
<1>9. Main \notin left
  BY DEF FpTraps, AtInsn, Calls, Single, AloneInv
<1>0. /\ Main \in Threads /\ TypeOK /\ mc[Main].state \in States /\ pc[Main] = "user"
      /\ proc = "up" /\ tracked[Main] /\ RegistersMatch(Main) /\ ~uc[Main].mask
      /\ Number(Main) \in Nat
  BY <1>9, AloneActing DEF FpTraps, Running, AloneInv, Number, TypeOK
<1>1. mc[Main].state = "AWAIT_FPE" /\ ~aborted
  BY <1>0 DEF RegistersMatch, AloneInv, Handled, States
<1>2. fp_trap_handler(Main, "fp", Number(Main))
  BY <1>0, <1>1 DEF FpTraps, AloneInv, Handled, Serving
<1>3. CASE AbortOnFpe
  <2>1. Die("crashed")
    BY <1>2, <1>3 DEF fp_trap_handler
  <2> QED
    BY <1>0, <2>1 DEF Die, tvars, AloneInv, Handled, Serving, NonePending
<1>4. CASE ~AbortOnFpe
  <2>1. proc' = proc
    BY <1>0, <1>2, <1>4 DEF fp_trap_handler, Fault, gvars
  <2>2. ~\E f \in {"crashed", "leaked"} : Die(f)
    BY <1>0, <2>1 DEF Die
  <2>3. Faulted(Main, "fp", Number(Main))
    BY <1>0, <1>2, <2>2, FaultEffect
  <2>4. mc'[Main].state = "AWAIT_TRAP" /\ UNCHANGED <<pc, back, tracked, left, gvars>>
    BY <1>1, <2>3 DEF Faulted
  <2> QED
    BY <1>0, <1>1, <1>9, <2>4 DEF AloneInv, Handled, Serving, NonePending, gvars
<1> QED
  BY <1>3, <1>4

LEMMA AloneTarget ==
  ASSUME Single, Basis, AloneInv, Target(Main) PROVE AloneInv'
<1>0. Main \in Threads /\ TypeOK /\ ThreadInv(Main) /\ uc[Main] \in Registers
  BY AloneActing
<1>1. CASE FpTraps(Main)
  BY <1>1, AloneFault
<1>2. CASE FpSilent(Main)
  BY <1>2 DEF FpSilent, Calls, Single, AloneInv, Handled, Serving, NonePending, gvars
<1>3. ~IntDivTraps(Main)
  BY <1>0 DEF IntDivTraps, AtInsn, Single, ThreadInv, NoIntDiv
<1>4. CASE TargetConflict(Main)
  <2>1. /\ EnterAbort(Main, "none") /\ UNCHANGED <<mc, tracked, left, gvars>>
        /\ pc[Main] = "user" /\ proc = "up" /\ Main \notin left
    BY <1>4 DEF TargetConflict, InTarget, Calls, Single, Running
  <2>2. back'[Main] = "none" /\ pc'[Main] = IF aborted THEN "user" ELSE "restoreFpe"
    BY <1>0, <2>1 DEF EnterAbort, AloneInv, TypeOK
  <2> QED
    BY <2>1, <2>2 DEF AloneInv, Handled, Serving, NonePending, gvars
<1>5. CASE ThreadExit(Main) \/ ThreadEnd(Main)
  <2>1. /\ teardown_monitoring_context(Main) \/ mc' = mc
        /\ pc[Main] = "user" /\ pc'[Main] \in {"user", "gone"} /\ uc'[Main].insn = "none"
        /\ proc' \in {proc, "exited"} /\ Main \in left'
        /\ UNCHANGED <<back, saFpe, saTrap, aborted, pend, nested>>
    BY <1>0, <1>5 DEF ThreadExit, ThreadEnd, InTarget, Running, HandlerRegisters, TypeOK
  <2>2. mc'[Main].state = mc[Main].state
    BY <1>0, <2>1, TeardownEffect
  <2> QED
    BY <2>1, <2>2 DEF AloneInv, Handled, Serving, NonePending
<1>6. CASE ProcessExit(Main) \/ Interrupted(Main)
  <2>1. /\ teardown_monitoring_context(Main) /\ proc' \in {"exited", "crashed"}
        /\ UNCHANGED <<uc, pc, back, left, saFpe, saTrap, aborted, pend, nested>>
    BY <1>6 DEF ProcessExit, Interrupted
  <2>2. mc'[Main].state = mc[Main].state
    BY <1>0, <2>1, TeardownEffect
  <2> QED
    BY <2>1, <2>2 DEF AloneInv, Handled, Serving, NonePending
<1>7. ASSUME NEW u \in Threads PROVE ~Create(Main, u)
  BY DEF Create, Single
<1> QED
  BY <1>1, <1>2, <1>3, <1>4, <1>5, <1>6, <1>7 DEF Target

LEMMA AloneKernel ==
  ASSUME Single, Basis, AloneInv, ~nested', Kernel(Main) PROVE AloneInv'
<1>0. /\ Main \in Threads /\ TypeOK /\ GlobalInv /\ uc[Main] \in Registers
      /\ mc[Main].state \in States
  BY AloneActing
<1>1. CASE FpStepped(Main)
  <2>1. /\ pc[Main] = "user" /\ proc = "up" /\ uc[Main].tf /\ Main \notin left
        /\ SigTrap(Main, Executed(Main), pend, "user") /\ RegistersMatch(Main)
    BY <1>1, AloneActing DEF FpStepped, Running, AloneInv
  <2>2. mc[Main].state = "AWAIT_TRAP" /\ Serving
    BY <1>0, <2>1 DEF RegistersMatch, States, Serving, AloneInv, Handled
  <2>3. Executed(Main) \in Registers
    BY <1>0 DEF Executed, Registers
  <2> QED
    BY <2>1, <2>2, <2>3, AloneTrap
<1>2. ~DeliverTrap(Main) /\ ~AlarmTrapped(Main) /\ ~TrapHangs(Main)
  BY DEF DeliverTrap, AlarmTrapped, TrapHangs, AloneInv, NonePending
<1>3. ~Alarm(Main) /\ ~AlarmHangs(Main)
  BY <1>0 DEF Alarm, AlarmHangs, AlarmOpen, GlobalInv, Single
<1> QED
  BY <1>1, <1>2, <1>3 DEF Kernel

(* abort_operation(), step by step: SIGTRAP is still FPSpy's at the kick.  *)
LEMMA AloneAbort ==
  ASSUME Basis, AloneInv, Abort(Main) PROVE AloneInv'
<1>0. /\ Main \in Threads /\ TypeOK /\ ThreadInv(Main) /\ mc[Main] \in Contexts
      /\ pc[Main] \in AbortSteps /\ proc = "up" /\ tracked[Main] /\ ~aborted /\ Main \notin left
  BY AloneActing
  DEF Abort, AbortRestoreFpe, AbortMark, AbortKick, AbortRestoreTrap, AbortSetAborted, At,
      AbortSteps, AloneInv, Handled
<1> USE DEF At, Goto
<1>1. CASE AbortRestoreFpe(Main)
  BY <1>0, <1>1 DEF AbortRestoreFpe, AloneInv, Handled, Serving, NonePending, TypeOK
<1>2. CASE AbortMark(Main)
  <2>1. pc'[Main] = "abortKick" /\ UNCHANGED <<tracked, back, left, gvars>> /\ pc[Main] = "mark"
    BY <1>0, <1>2 DEF AbortMark, TypeOK
  <2> QED
    BY <1>0, <2>1 DEF AloneInv, Handled, Serving, NonePending, gvars
<1>3. CASE AbortKick(Main)
  <2>1. saTrap = "fpspy" /\ back[Main] = "none" /\ pc[Main] = "abortKick"
    BY <1>3 DEF AbortKick, AloneInv, Handled
  <2>2. pc'[Main] = "restoreTrap" /\ UNCHANGED <<mc, tracked, back, left, gvars>>
    BY <1>0, <1>3, <2>1 DEF AbortKick, TypeOK
  <2> QED
    BY <1>0, <2>1, <2>2 DEF AloneInv, Handled, Serving, NonePending, gvars
<1>4. CASE AbortRestoreTrap(Main)
  BY <1>0, <1>4 DEF AbortRestoreTrap, AloneInv, Handled, Serving, NonePending, TypeOK
<1>5. CASE AbortSetAborted(Main)
  <2>1. pc[Main] = "setAborted" /\ mc[Main].state = "ABORT"
    BY <1>0, <1>5 DEF AbortSetAborted, ThreadInv, Aborting, AbortSteps
  <2>2. /\ pc'[Main] = "user" /\ aborted' = TRUE
        /\ back'[Main] = "none"
        /\ UNCHANGED <<mc, tracked, left, proc, saFpe, saTrap, pend, nested>>
    BY <1>0, <1>5 DEF AbortSetAborted, Return, AloneInv, TypeOK
  <2> QED
    BY <1>0, <2>1, <2>2 DEF AloneInv, Handled, Serving, NonePending
<1> QED
  BY <1>1, <1>2, <1>3, <1>4, <1>5 DEF Abort

LEMMA AloneBringup ==
  ASSUME Single, Basis, AloneInv, Boot \/ Install PROVE AloneInv'
<1>0. /\ Main \in Threads /\ TypeOK /\ ~aborted /\ Main \notin left
  BY AloneActing DEF Boot, Install, GlobalInv, Booting, AloneInv
<1>1. CASE Boot
  <2>1. /\ NewContext(Main) /\ pc'[Main] = "install"
        /\ UNCHANGED <<back, left, uc, proc, saFpe, saTrap, aborted, pend, nested>>
    BY <1>0, <1>1 DEF Boot, TypeOK
  <2>2. tracked'[Main]
    BY <1>0, <2>1, NewContextEffect
  <2> QED
    BY <1>0, <2>1, <2>2 DEF AloneInv, Handled, Serving, NonePending
<1>2. CASE Install
  <2>1. /\ pc'[Main] = "kick" /\ ~pend' /\ saFpe' = "fpspy" /\ saTrap' = "fpspy"
        /\ pc[Main] = "install" /\ UNCHANGED <<mc, tracked, back, left, uc, proc, aborted, nested>>
    BY <1>0, <1>2 DEF Install, TypeOK, Single
  <2> QED
    BY <1>0, <2>1 DEF AloneInv, Handled, Serving, NonePending
<1> QED
  BY <1>1, <1>2

(* FPSpy never gets a single-threaded target killed by a signal of its     *)
(* own, however it ends: by running on, by a fenv or signal call that      *)
(* makes abort_operation() give the handlers back step by step, or by      *)
(* exiting.  With a second thread it may (the run thread_abort).  An       *)
(* integer division error during a step-over, a SIGTRAP from outside that  *)
(* is still to come, and a timer armed before its handler is installed     *)
(* leave a signal pending, and cleanup handlers run with traps and without *)
(* a context: these are excluded.                                          *)
THEOREM SingleThreadSurvives ==
  ASSUME {"create", "intdiv", "cleanup"} \cap Inputs = {}, ~Timers, ~KickStart
  PROVE  Spec => []NothingLeaks
<1>0. Single
  BY DEF Single
<1>1. Init => Basis /\ AloneInv
  <2>1. Init => Basis
    BY TrapsInvInit, SafetyInit DEF Basis, SafetyInv
  <2>2. Init => AloneInv
    BY ConstantsAssumption DEF Init, AloneInv, Handled, Serving, NonePending
  <2> QED
    BY <2>1, <2>2
<1>2. Basis /\ AloneInv /\ [Next]_vars => Basis' /\ AloneInv'
  <2> SUFFICES ASSUME Basis, AloneInv, [Next]_vars PROVE Basis' /\ AloneInv'
    OBVIOUS
  <2>0. Basis' /\ ~nested'
    <3>0. ~nested'
      BY NoNesting DEF AloneInv
    <3>1. TrapsInv'
      BY <3>0, TrapsInvNext DEF Basis, Single
    <3>2. SafetyInv'
      BY <3>0, SafetyNext DEF Basis, SafeStep
    <3> QED
      BY <3>0, <3>1, <3>2 DEF Basis, SafetyInv
  <2>1. CASE Boot \/ Install
    BY <1>0, <2>0, <2>1, AloneBringup
  <2>2. ASSUME NEW t \in Threads, Target(t) \/ Kernel(t) \/ Tramp(t) \/ Kick(t) \/ Abort(t)
        PROVE  AloneInv'
    <3>1. t = Main
      <4>1. pc[t] # "unborn"
        BY <2>2
        DEF Target, FpTraps, FpSilent, IntDivTraps, TargetConflict, ThreadExit, ThreadEnd,
            ProcessExit, Interrupted, Create, InTarget, Running, Kernel, FpStepped, DeliverTrap,
            TrapOpen, AlarmSteps, AbortSteps, Alarm, AlarmTrapped, AlarmHangs, TrapHangs, AlarmOpen,
            Tramp, Kick, Abort, AbortRestoreFpe, AbortMark, AbortKick, AbortRestoreTrap,
            AbortSetAborted, At
      <4> QED
        BY <1>0, <4>1, OnlyMain
    <3>2. ~Tramp(Main)
      BY AloneActing DEF Tramp, AloneInv, OwnInv, Unstarted
    <3>3. CASE Kick(Main)
      <4>1. Serving /\ mc[Main].state = "INIT" /\ uc[Main] \in Registers /\ Main \notin left
        BY <3>3, AloneActing DEF Kick, Serving, AloneInv, Handled, OwnInv, Unstarted
      <4> QED
        BY <2>0, <3>3, <4>1, AloneTrap DEF Kick
    <3> QED
      BY <1>0, <2>0, <2>2, <3>1, <3>2, <3>3, AloneTarget, AloneKernel, AloneAbort
  <2>3. CASE UNCHANGED vars \/ BootFails
    BY <2>0, <2>3 DEF vars, tvars, gvars, BootFails, Die, AloneInv, Handled, Serving, NonePending
  <2>4. ASSUME NEW t \in Threads PROVE ~AlarmResumes(t)
    BY Acting DEF Basis, AlarmResumes, AlarmSteps, ThreadInv, Unnested
  <2> QED
    BY <2>0, <2>1, <2>2, <2>3, <2>4 DEF Next, Terminated
<1>3. AloneInv => NothingLeaks
  BY DEF AloneInv, NothingLeaks
<1> QED
  BY <1>1, <1>2, <1>3, PTL DEF Spec

-----------------------------------------------------------------------------
(* A target that gives FPSpy no reason to abort survives it, whatever the  *)
(* number of its threads.                                                  *)

Calm ==
  /\ {"fe", "intdiv", "openfail", "cleanup"} \cap Inputs = {}
  /\ "signal" \notin Inputs \/ Aggressive
  /\ ~Timers /\ ~KickStart
  /\ IsFiniteSet(Threads) /\ Cardinality(Threads) <= MaxContexts

(* Nobody aborts; every thread in the target's code has a context and has  *)
(* had its first SIGTRAP, until it calls pthread_exit(), which does not    *)
(* come back.                                                              *)
CalmThread(t) ==
  /\ pc[t] \notin AbortSteps /\ mc[t].state # "ABORT"
  /\ proc = "up" /\ pc[t] \in {"kick", "user"} => tracked[t] \/ t \in left
  /\ pc[t] = "user" => mc[t].state # "INIT"
  /\ t \in left => pc[t] \in {"user", "gone"} /\ uc[t].insn = "none"
CalmProcess ==
  /\ proc # "leaked" /\ ~aborted /\ NonePending
  /\ ~Booting => saFpe = "fpspy" /\ saTrap = "fpspy"
CalmInv == CalmProcess /\ \A t \in Threads : CalmThread(t)

LEMMA CalmActing ==
  ASSUME Basis, CalmInv, NEW t \in Threads
  PROVE  /\ Main \in Threads /\ TypeOK /\ GlobalInv /\ ThreadInv(t) /\ CalmThread(t)
         /\ mc[t] \in Contexts /\ uc[t] \in Registers /\ mc[t].state \in States
         /\ proc = "up" /\ pc[t] = "user" /\ t \notin left => tracked[t] /\ RegistersMatch(t)
         /\ pc[t] \in {"kick", "user"} => saFpe = "fpspy" /\ saTrap = "fpspy"
<1>1. /\ Main \in Threads /\ TypeOK /\ GlobalInv /\ ThreadInv(t) /\ CalmThread(t)
      /\ mc[t] \in Contexts /\ uc[t] \in Registers /\ mc[t].state \in States
  BY Acting, ConstantsAssumption DEF Basis, CalmInv
<1>2. proc = "up" /\ pc[t] = "user" /\ t \notin left => tracked[t] /\ RegistersMatch(t)
  BY <1>1 DEF CalmThread, ThreadInv
<1>3. pc[t] \in {"kick", "user"} => ~Booting
  BY <1>1 DEF GlobalInv, Booting
<1> QED
  BY <1>1, <1>2, <1>3 DEF CalmInv, CalmProcess

(* A step of t alone.                                                      *)
LEMMA CalmCombine ==
  ASSUME CalmInv, NEW t \in Threads, Only(t), proc = "up", left' \in {left, left \cup {t}},
         CalmProcess', CalmThread(t)'
  PROVE  CalmInv'
<1>1. ASSUME NEW u \in Threads \ {t} PROVE CalmThread(u)'
  BY <1>1 DEF CalmInv, CalmThread, Only
<1> QED
  BY <1>1 DEF CalmInv

(* A SIGTRAP that the thread waits for: its first, or the one after a      *)
(* step.                                                                   *)
LEMMA CalmTrap ==
  ASSUME Basis, CalmInv, ~nested', NEW t \in Threads, NEW u \in Registers,
         SigTrap(t, u, pend, "user"), proc = "up", pc[t] \in {"kick", "user"}, t \notin left,
         mc[t].state \in {"INIT", "AWAIT_TRAP"}
  PROVE  CalmInv'
<1>0. /\ TypeOK /\ tracked[t] /\ saTrap = "fpspy" /\ Main \in Threads
      /\ pc[t] \notin {"boot", "install"} /\ GlobalInv /\ pend \in BOOLEAN
  BY CalmActing DEF CalmThread, TypeOK
<1>1. proc' = proc
  BY <1>0 DEF SigTrap, brk_trap_handler
<1>2. ~Die("leaked")
  BY <1>1 DEF Die
<1>3. /\ UNCHANGED <<pend, tracked, left, saFpe, saTrap, aborted>> /\ Only(t)
      /\ Started(t, u) \/ SteppedOver(t, u) \/ Halted(t, u) \/ Surprised(t, u)
  BY <1>0, <1>2, SigTrapEffect DEF KeepsLogs
<1>4. pc'[t] = "user" /\ mc'[t].state = "AWAIT_FPE"
  BY <1>0, <1>3 DEF Started, SteppedOver, Halted, Surprised
<1>5. CalmThread(t)'
  BY <1>0, <1>3, <1>4 DEF CalmThread, AbortSteps
<1>6. ~Booting /\ ~Booting'
  BY <1>0, <1>3, <1>4 DEF GlobalInv, Booting, Only
<1>7. CalmProcess'
  BY <1>0, <1>1, <1>3, <1>6 DEF CalmInv, CalmProcess, NonePending
<1> QED
  BY <1>1, <1>3, <1>5, <1>7, CalmCombine

LEMMA CalmFault ==
  ASSUME Calm, Basis, CalmInv, NEW t \in Threads, FpTraps(t) PROVE CalmInv'
<1>9. t \notin left
  BY CalmActing DEF FpTraps, AtInsn, Calls, Calm, CalmThread
<1>0. /\ TypeOK /\ mc[t].state \in States /\ pc[t] = "user" /\ proc = "up" /\ tracked[t]
      /\ RegistersMatch(t) /\ ~uc[t].mask /\ Number(t) \in Nat /\ CalmThread(t)
      /\ saFpe = "fpspy" /\ Main \in Threads
  BY <1>9, CalmActing DEF FpTraps, Running, Number, TypeOK
<1>1. mc[t].state = "AWAIT_FPE"
  BY <1>0 DEF RegistersMatch, CalmThread, States
<1>2. fp_trap_handler(t, "fp", Number(t))
  BY <1>0 DEF FpTraps
<1>3. CASE AbortOnFpe
  <2>1. Die("crashed")
    BY <1>2, <1>3 DEF fp_trap_handler
  <2> QED
    BY <1>0, <2>1 DEF Die, tvars, CalmInv, CalmProcess, CalmThread, Booting, NonePending
<1>4. CASE ~AbortOnFpe
  <2>1. proc' = proc
    BY <1>0, <1>2, <1>4 DEF fp_trap_handler, Fault, gvars
  <2>2. ~\E f \in {"crashed", "leaked"} : Die(f)
    BY <1>0, <2>1 DEF Die
  <2>3. Only(t) /\ Faulted(t, "fp", Number(t))
    BY <1>0, <1>2, <2>2, FaultEffect
  <2>4. mc'[t].state = "AWAIT_TRAP" /\ UNCHANGED <<pc, tracked, left, gvars>>
    BY <1>1, <2>3 DEF Faulted
  <2>5. CalmThread(t)'
    BY <1>0, <1>9, <2>4 DEF CalmThread
  <2>6. CalmProcess'
    BY <1>0, <1>1, <2>3, <2>4 DEF CalmInv, CalmProcess, Booting, NonePending, gvars
  <2> QED
    BY <1>0, <2>3, <2>4, <2>5, <2>6, CalmCombine DEF gvars
<1> QED
  BY <1>3, <1>4

LEMMA CalmTarget ==
  ASSUME Calm, Basis, CalmInv, NEW t \in Threads, Target(t) PROVE CalmInv'
<1>0. /\ TypeOK /\ ThreadInv(t) /\ uc[t] \in Registers /\ CalmThread(t) /\ Main \in Threads
      /\ CalmProcess /\ GlobalInv
  BY CalmActing DEF CalmInv
<1>1. CASE FpTraps(t)
  BY <1>1, CalmFault
<1>2. CASE FpSilent(t)
  <2>1. /\ uc' = [uc EXCEPT ![t] = Executed(t)] /\ Executed(t).mask = uc[t].mask
        /\ UNCHANGED <<mc, tracked, pc, back, left, gvars>> /\ proc = "up" /\ t \notin left
    BY <1>0, <1>2 DEF FpSilent, Executed, Registers, Running, Calls, Calm
  <2>2. Only(t)
    BY <1>0, <2>1 DEF Only, TypeOK
  <2> QED
    BY <1>0, <2>1, <2>2, CalmCombine DEF CalmThread, CalmProcess, Booting, NonePending, gvars
<1>3. ~IntDivTraps(t)
  BY <1>0 DEF IntDivTraps, AtInsn, Calm, ThreadInv, NoIntDiv
<1>4. ~TargetConflict(t)
  BY DEF TargetConflict, SignalAborts, Calm
<1>5. CASE ThreadExit(t) \/ ProcessExit(t) \/ Interrupted(t)
  <2>1. /\ teardown_monitoring_context(t) /\ proc = "up" /\ pc[t] = "user"
        /\ UNCHANGED <<uc, pc, back, saFpe, saTrap, aborted, pend, nested>>
        /\ \/ proc' = proc /\ uc[t].insn = "none" /\ left' = left \cup {t}
           \/ proc' \in {"exited", "crashed"} /\ left' = left
    BY <1>5 DEF ThreadExit, ProcessExit, Interrupted, InTarget, Running
  <2>2. /\ mc'[t].state = mc[t].state
        /\ \A w \in Threads \ {t} : mc'[w] = mc[w] /\ tracked'[w] = tracked[w]
    BY <1>0, <2>1, TeardownEffect
  <2>3. Only(t)
    BY <1>0, <2>1, <2>2 DEF Only
  <2> QED
    BY <1>0, <2>1, <2>2, <2>3, CalmCombine DEF CalmThread, CalmProcess, Booting, NonePending
<1>6. CASE ThreadEnd(t)
  <2>1. /\ UNCHANGED <<mc, tracked, back, left, saFpe, saTrap, aborted, pend, nested>>
        /\ pc' = [pc EXCEPT ![t] = "gone"] /\ uc' = [uc EXCEPT ![t] = HandlerRegisters]
        /\ proc = "up" /\ proc' \in {"up", "exited"} /\ pc[t] = "user"
    BY <1>6 DEF ThreadEnd, Running
  <2>2. Only(t) /\ pc'[t] = "gone" /\ uc'[t].insn = "none"
    BY <1>0, <2>1 DEF Only, TypeOK, HandlerRegisters
  <2>3. ~Booting /\ ~Booting'
    BY <1>0, <2>1, <2>2 DEF GlobalInv, Booting, Only
  <2> QED
    BY <1>0, <2>1, <2>2, <2>3, CalmCombine DEF CalmThread, CalmProcess, AbortSteps, NonePending
<1>7. ASSUME NEW u \in Threads, Create(t, u) PROVE CalmInv'
  <2>1. /\ pc[u] = "unborn" /\ pc' = [pc EXCEPT ![u] = "tramp"] /\ proc = "up"
        /\ uc' = [uc EXCEPT ![u] = uc[t]] /\ UNCHANGED <<mc, tracked, back, left, gvars>>
        /\ pc[t] = "user"
    BY <1>0, <1>7 DEF Create, CalmProcess, InTarget, Running
  <2>2. Only(u) /\ pc'[u] = "tramp" /\ CalmThread(u)
    BY <1>0, <2>1 DEF Only, TypeOK, CalmInv
  <2>3. CalmThread(u)'
    BY <2>1, <2>2 DEF CalmThread, AbortSteps
  <2>4. ~Booting
    BY <1>0, <2>1 DEF GlobalInv, Booting
  <2>5. CalmProcess'
    BY <1>0, <2>1, <2>2, <2>4 DEF CalmProcess, Booting, NonePending, gvars, Only
  <2> QED
    BY <2>1, <2>2, <2>3, <2>5, CalmCombine DEF gvars
<1> QED
  BY <1>1, <1>2, <1>3, <1>4, <1>5, <1>6, <1>7 DEF Target

LEMMA CalmKernel ==
  ASSUME Calm, Basis, CalmInv, ~nested', NEW t \in Threads, Kernel(t) PROVE CalmInv'
<1>0. /\ TypeOK /\ GlobalInv /\ uc[t] \in Registers /\ mc[t].state \in States /\ CalmProcess
      /\ CalmThread(t) /\ pend \in BOOLEAN
  BY CalmActing DEF CalmInv, TypeOK
<1>1. CASE FpStepped(t)
  <2>1. /\ pc[t] = "user" /\ proc = "up" /\ uc[t].tf /\ SigTrap(t, Executed(t), pend, "user")
        /\ t \notin left
    BY <1>0, <1>1 DEF FpStepped, Running, CalmThread
  <2>2. mc[t].state = "AWAIT_TRAP"
    BY <1>0, <2>1, CalmActing DEF RegistersMatch, States, CalmThread
  <2>3. Executed(t) \in Registers
    BY <1>0 DEF Executed, Registers
  <2> QED
    BY <1>0, <2>1, <2>2, <2>3, CalmTrap
<1>2. ~DeliverTrap(t) /\ ~AlarmTrapped(t) /\ ~TrapHangs(t)
  BY <1>0 DEF DeliverTrap, AlarmTrapped, TrapHangs, CalmProcess, NonePending
<1>3. ~Alarm(t) /\ ~AlarmHangs(t)
  BY <1>0 DEF Alarm, AlarmHangs, AlarmOpen, GlobalInv, Calm
<1> QED
  BY <1>1, <1>2, <1>3 DEF Kernel

(* A new thread gets a context, because there are as many as threads.      *)
LEMMA CalmTramp ==
  ASSUME Calm, Basis, CalmInv, NEW t \in Threads, Tramp(t) PROVE CalmInv'
<1>0. /\ TypeOK /\ ThreadInv(t) /\ CalmProcess /\ Main \in Threads /\ proc = "up"
      /\ pc[t] = "tramp" /\ ~tracked[t] /\ GlobalInv /\ CalmThread(t)
  BY CalmActing DEF CalmInv, Tramp, ThreadInv, FreshUntilKicked
<1> DEFINE S == {u \in Threads : tracked[u]}
<1>1. Cardinality(S) < MaxContexts
  <2>1. S \subseteq Threads /\ S # Threads
    BY <1>0
  <2>2. /\ IsFiniteSet(S) /\ Cardinality(S) <= Cardinality(Threads)
        /\ Cardinality(S) # Cardinality(Threads)
    BY <2>1, FS_Subset DEF Calm
  <2>3. Cardinality(S) \in Nat /\ Cardinality(Threads) \in Nat
    BY <2>2, FS_CardinalityType DEF Calm
  <2> QED
    BY <2>2, <2>3, ConstantsAssumption DEF Calm
<1>2. ~(Cardinality(S) >= MaxContexts)
  <2>1. IsFiniteSet(S)
    BY FS_Subset DEF Calm
  <2>2. Cardinality(S) \in Nat
    BY <2>1, FS_CardinalityType
  <2> QED
    BY <1>1, <2>2, ConstantsAssumption
<1>3. /\ NewContext(t) /\ pc' = [pc EXCEPT ![t] = "kick"]
      /\ uc' = [uc EXCEPT ![t] = arch_clear_fp_exceptions(uc[t])]
      /\ UNCHANGED <<back, left, proc, saFpe, saTrap, aborted, pend, nested>>
  BY <1>2 DEF Tramp, Calm
<1>4. /\ tracked'[t] /\ mc'[t].state = "INIT"
      /\ \A w \in Threads \ {t} : mc'[w] = mc[w] /\ tracked'[w] = tracked[w]
  BY <1>0, <1>3, NewContextEffect
<1>5. Only(t) /\ pc'[t] = "kick"
  BY <1>0, <1>3, <1>4 DEF Only, TypeOK
<1>6. CalmThread(t)'
  BY <1>0, <1>3, <1>4, <1>5 DEF CalmThread, AbortSteps
<1>7. ~Booting
  BY <1>0 DEF GlobalInv, Booting
<1>8. CalmProcess'
  BY <1>0, <1>3, <1>5, <1>7 DEF CalmProcess, Only, Booting, NonePending
<1> QED
  BY <1>0, <1>3, <1>5, <1>6, <1>8, CalmCombine

LEMMA CalmBringup ==
  ASSUME Calm, Basis, CalmInv, Boot \/ Install PROVE CalmInv'
<1>0. /\ Main \in Threads /\ TypeOK /\ ~aborted /\ CalmProcess /\ CalmThread(Main)
      /\ ThreadInv(Main) /\ proc = "up"
  BY CalmActing, ConstantsAssumption DEF Boot, Install, CalmInv, CalmProcess
<1>1. CASE Boot
  <2>1. /\ NewContext(Main) /\ pc' = [pc EXCEPT ![Main] = "install"] /\ pc[Main] = "boot"
        /\ UNCHANGED <<uc, back, left, proc, saFpe, saTrap, aborted, pend, nested>>
    BY <1>1 DEF Boot
  <2>2. /\ tracked'[Main] /\ mc'[Main].state = "INIT"
        /\ \A w \in Threads \ {Main} : mc'[w] = mc[w] /\ tracked'[w] = tracked[w]
    BY <1>0, <2>1, NewContextEffect
  <2>3. Only(Main) /\ pc'[Main] = "install"
    BY <1>0, <2>1, <2>2 DEF Only, TypeOK
  <2>4. CalmThread(Main)' /\ CalmProcess'
    BY <1>0, <2>1, <2>2, <2>3 DEF CalmThread, CalmProcess, Booting, AbortSteps, NonePending
  <2> QED
    BY <1>0, <2>1, <2>3, <2>4, CalmCombine
<1>2. CASE Install
  <2>1. /\ pc' = [pc EXCEPT ![Main] = "kick"] /\ ~pend'
        /\ saFpe' = "fpspy" /\ saTrap' = "fpspy"
        /\ pc[Main] = "install" /\ UNCHANGED <<mc, tracked, uc, back, left, proc, aborted, nested>>
    BY <1>2 DEF Install, Calm
  <2>2. tracked[Main] /\ mc[Main].state = "INIT"
    BY <1>0, <2>1 DEF ThreadInv, FreshUntilKicked, CalmThread
  <2>3. Only(Main) /\ pc'[Main] = "kick"
    BY <1>0, <2>1 DEF Only, TypeOK
  <2>4. CalmThread(Main)' /\ CalmProcess'
    BY <1>0, <2>1, <2>2, <2>3 DEF CalmThread, CalmProcess, Booting, AbortSteps, NonePending
  <2> QED
    BY <1>0, <2>1, <2>3, <2>4, CalmCombine
<1> QED
  BY <1>1, <1>2

(* FPSpy gets no target killed by a signal of its own that makes no fenv   *)
(* call, has no more threads than there are contexts, leaves FPSpy its     *)
(* signals, by not asking for them or because FPSpy is aggressive, and     *)
(* runs no code of its own inside pthread_exit(): every SIGFPE and SIGTRAP *)
(* finds a handler and a context that waits for it, while threads are      *)
(* created, trap, are interrupted and end.  In a cleanup handler, and in a *)
(* thread that got no slot or trace file, an instruction traps with no     *)
(* context; an integer division error makes the next SIGTRAP a surprise;   *)
(* a timer may expire before its handler is installed; a SIGTRAP from      *)
(* outside may come in the wrong thread; and an abort for one thread takes *)
(* the handlers from the others (the run thread_abort).                    *)
THEOREM CalmTargetsSurvive ==
  ASSUME {"fe", "intdiv", "openfail", "cleanup"} \cap Inputs = {},
         "signal" \notin Inputs \/ Aggressive, ~Timers, ~KickStart,
         IsFiniteSet(Threads), Cardinality(Threads) <= MaxContexts
  PROVE  Spec => []NothingLeaks
<1>0. Calm
  BY DEF Calm
<1>1. Init => Basis /\ CalmInv
  <2> SUFFICES ASSUME Init PROVE Basis /\ CalmInv
    OBVIOUS
  <2>1. Basis
    BY TrapsInvInit, SafetyInit DEF Basis, SafetyInv
  <2>2. CalmInv
    BY ConstantsAssumption
    DEF Init, CalmInv, CalmProcess, CalmThread, Booting, FreshContext, AbortSteps, NonePending
  <2> QED
    BY <2>1, <2>2
<1>2. Basis /\ CalmInv /\ [Next]_vars => Basis' /\ CalmInv'
  <2> SUFFICES ASSUME Basis, CalmInv, [Next]_vars PROVE Basis' /\ CalmInv'
    OBVIOUS
  <2>0. Basis' /\ ~nested'
    <3>0. ~nested'
      BY NoNesting DEF CalmInv, CalmProcess
    <3>1. TrapsInv'
      BY <3>0, TrapsInvNext DEF Basis, Calm
    <3>2. SafetyInv'
      BY <3>0, SafetyNext DEF Basis, SafeStep
    <3> QED
      BY <3>0, <3>1, <3>2 DEF Basis, SafetyInv
  <2>1. CASE Boot \/ Install
    BY <1>0, <2>0, <2>1, CalmBringup
  <2>2. ASSUME NEW t \in Threads, Target(t) \/ Kernel(t) \/ Tramp(t) \/ Kick(t) \/ Abort(t)
        PROVE  CalmInv'
    <3>1. ~Abort(t)
      BY CalmActing
      DEF Abort, AbortRestoreFpe, AbortMark, AbortKick, AbortRestoreTrap, AbortSetAborted, At,
          AbortSteps, CalmThread
    <3>2. CASE Kick(t)
      <4>1. /\ mc[t].state = "INIT" /\ uc[t] \in Registers /\ t \notin left
            /\ pc[t] = "kick" /\ proc = "up" /\ SigTrap(t, uc[t], pend, "user")
        BY <3>2, CalmActing DEF Kick, ThreadInv, FreshUntilKicked, CalmThread
      <4> QED
        BY <2>0, <4>1, CalmTrap
    <3> QED
      BY <1>0, <2>0, <2>2, <3>1, <3>2, CalmTarget, CalmKernel, CalmTramp
  <2>3. CASE UNCHANGED vars \/ BootFails
    BY <2>0, <2>3
    DEF vars, tvars, gvars, BootFails, Die, CalmInv, CalmProcess, CalmThread, Booting, NonePending
  <2>4. ASSUME NEW t \in Threads PROVE ~AlarmResumes(t)
    BY Acting DEF Basis, AlarmResumes, AlarmSteps, ThreadInv, Unnested
  <2> QED
    BY <2>0, <2>1, <2>2, <2>3, <2>4 DEF Next, Terminated
<1>3. CalmInv => NothingLeaks
  BY DEF CalmInv, CalmProcess, NothingLeaks
<1> QED
  BY <1>1, <1>2, <1>3, PTL DEF Spec

=============================================================================
