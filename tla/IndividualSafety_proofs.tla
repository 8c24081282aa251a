----------------------- MODULE IndividualSafety_proofs ----------------------
(***************************************************************************)
(* Proofs about individual mode, continued: the flags a record shows, the  *)
(* buffers at exit, the finality of an abort and the rounding mode after   *)
(* one.  One inductive invariant carries all four.                         *)
(***************************************************************************)
EXTENDS Individual_proofs, SequenceTheorems

-----------------------------------------------------------------------------
(* What the handlers do, field by field.                                   *)

LEMMA RegistersEffect ==
  ASSUME NEW u \in Registers, NEW m \in Contexts, origRound \in Rounds
  PROVE  /\ ~Watch(u).dirty /\ (~ControlRound => Watch(u).rnd = u.rnd)
         /\ ~StepOver(u).dirty /\ (~ControlRound => StepOver(u).rnd = u.rnd)
         /\ ~Quiesce(u).dirty /\ Quiesce(u).rnd = IF ControlRound THEN origRound ELSE u.rnd
         /\ ~FlipTraps(m, u).dirty /\ FlipTraps(m, u).rnd = u.rnd
<1>1. ~Watch(u).dirty /\ (~ControlRound => Watch(u).rnd = u.rnd)
  BY DEF Watch, arch_reset_trap_mode, SetRound, arch_unmask_fp_traps, arch_clear_fp_exceptions,
         Registers
<1>2. ~StepOver(u).dirty /\ (~ControlRound => StepOver(u).rnd = u.rnd)
  BY DEF StepOver, arch_set_trap_mode, SetRound, arch_mask_fp_traps, arch_clear_fp_exceptions,
         Registers
<1>3. ~Quiesce(u).dirty /\ Quiesce(u).rnd = IF ControlRound THEN origRound ELSE u.rnd
  BY DEF Quiesce, arch_reset_trap_mode, SetRound, arch_mask_fp_traps, arch_clear_fp_exceptions,
         Registers
<1>4. ~FlipTraps(m, u).dirty /\ FlipTraps(m, u).rnd = u.rnd
  BY DEF FlipTraps, arch_reset_trap_mode, arch_unmask_fp_traps, arch_mask_fp_traps,
         arch_clear_fp_exceptions, Registers
<1> QED
  BY <1>1, <1>2, <1>3, <1>4

(* Appending to the end of two concatenated sequences.                     *)
LEMMA ConcatAppend ==
  ASSUME NEW S, NEW f \in Seq(S), NEW b \in Seq(S), NEW r \in S
  PROVE  f \o Append(b, r) = Append(f \o b, r)
<1> DEFINE e == <<r>>
<1>1. e \in Seq(S)
  OBVIOUS
<1>2. f \o b \in Seq(S)
  BY ConcatProperties
<1>3. Append(b, r) = b \o e
  BY AppendIsConcat
<1>4. Append(f \o b, r) = (f \o b) \o e
  BY <1>2, AppendIsConcat
<1> HIDE DEF e
<1>5. (f \o b) \o e = f \o (b \o e)
  BY <1>1, ConcatAssociative
<1> QED
  BY <1>3, <1>4, <1>5

(* The trace grows by the record, whether the buffer is written or not;    *)
(* a buffer of one record or none is always written.                       *)
LEMMA PushEffect ==
  ASSUME TypeOK, NEW t \in Threads, NEW m \in Contexts, m.buf = mc[t].buf, NEW r \in Nat,
         push_trace_record(t, m, r)
  PROVE  /\ Trace(t)' = IF CreateMonitorFile THEN Append(Trace(t), r) ELSE Trace(t)
         /\ ~CreateMonitorFile => mc'[t].buf = mc[t].buf
         /\ CreateMonitorFile /\ BufLen <= 1 => mc'[t].buf = <<>>
         /\ \A u \in Threads \ {t} : file'[u] = file[u]
<1> DEFINE b == Append(m.buf, r)
<1>0. m.buf \in Seq(Nat) /\ file[t] \in Seq(Nat)
  BY DEF Contexts, TypeOK
<1>1. b \in Seq(Nat) /\ Len(b) = Len(m.buf) + 1 /\ Len(m.buf) \in Nat
  BY <1>0, AppendProperties, LenProperties
<1>2. Buffered(m, r).buf = b /\ Buffered(m, r) = [m EXCEPT !.buf = b]
  <2>1. Buffered(m, r) = [m EXCEPT !.buf = b]
    BY DEF Buffered
  <2> HIDE DEF b
  <2> QED
    BY <2>1 DEF Contexts
<1>3. file[t] \o b = Append(file[t] \o m.buf, r)
  <2>1. \A f, c \in Seq(Nat), n \in Nat : f \o Append(c, n) = Append(f \o c, n)
    BY ConcatAppend
  <2> QED
    BY <1>0, <2>1, Zenon
<1>4. CASE ~CreateMonitorFile
  BY <1>4 DEF push_trace_record, TypeOK, Trace
<1>5. CASE CreateMonitorFile /\ BufFull(Buffered(m, r))
  <2>1. /\ mc' = [mc EXCEPT ![t] = [Buffered(m, r) EXCEPT !.buf = <<>>]]
        /\ file' = [file EXCEPT ![t] = file[t] \o b]
    BY <1>2, <1>5 DEF push_trace_record
  <2>2. mc'[t].buf = <<>> /\ file'[t] = file[t] \o b
    <3>1. mc'[t] = [[m EXCEPT !.buf = b] EXCEPT !.buf = <<>>]
      BY <1>2, <2>1 DEF TypeOK
    <3> HIDE DEF b
    <3> QED
      BY <2>1, <3>1 DEF TypeOK, Contexts
  <2>3. (file[t] \o b) \o <<>> = file[t] \o b
    <3> HIDE DEF b
    <3>1. file[t] \o b \in Seq(Nat)
      BY <1>0, <1>1
    <3> QED
      BY <3>1, ConcatEmptySeq
  <2> HIDE DEF b
  <2> QED
    BY <1>3, <1>5, <2>1, <2>2, <2>3 DEF Trace, TypeOK
<1>6. CASE CreateMonitorFile /\ ~BufFull(Buffered(m, r))
  <2>1. mc' = [mc EXCEPT ![t] = Buffered(m, r)] /\ file' = file
    BY <1>6 DEF push_trace_record
  <2>2. mc'[t].buf = b
    <3>1. mc'[t] = Buffered(m, r)
      BY <2>1 DEF TypeOK
    <3> QED
      BY <1>2, <3>1
  <2>3. BufLen > 1
    BY <1>1, <1>2, <1>6, ConstantsAssumption DEF BufFull
  <2>4. ~(BufLen <= 1)
    BY <2>3, ConstantsAssumption
  <2>5. Trace(t)' = file[t] \o b
    BY <2>1, <2>2 DEF Trace
  <2> HIDE DEF b
  <2> QED
    BY <1>3, <1>6, <2>1, <2>4, <2>5, Zenon DEF Trace
<1> QED
  BY <1>4, <1>5, <1>6

(* The fields a handler keeps when it does not say otherwise.              *)
KeepsContext(t) ==
  mc'[t].state = mc[t].state /\ mc'[t].count = mc[t].count /\ mc'[t].buf = mc[t].buf
KeepsLogs == UNCHANGED <<tracked, left, file, seen>>

(* The four ways through brk_trap_handler().                               *)
Started(t, u) ==
  /\ tracked[t] /\ mc[t].state = "INIT"
  /\ mc'[t].state = "AWAIT_FPE" /\ mc'[t].count = mc[t].count
  /\ mc'[t].buf = mc[t].buf /\ mc'[t].inTrap = mc[t].inTrap
  /\ uc'[t] = Watch(u) /\ origRound' = u.rnd
  /\ pc'[t] = "user" /\ back' = back
SteppedOver(t, u) ==
  /\ tracked[t] /\ mc[t].state = "AWAIT_TRAP"
  /\ mc'[t].state = "AWAIT_FPE" /\ mc'[t].count = mc[t].count + 1
  /\ mc'[t].buf = mc[t].buf /\ mc'[t].inTrap = mc[t].inTrap
  /\ ~uc'[t].tf /\ ~uc'[t].dirty /\ uc'[t].insn = u.insn
  /\ ~ControlRound => uc'[t].rnd = u.rnd
  /\ LimitReached(mc[t].count + 1) => uc'[t].rnd = IF ControlRound THEN origRound ELSE u.rnd
  /\ pc'[t] = "user" /\ back' = back /\ origRound' = origRound
Halted(t, u) ==
  /\ tracked[t] /\ mc[t].state = "ABORT" /\ mc' = mc
  /\ uc'[t] = Quiesce(u)
  /\ pc'[t] = "user" /\ back' = back /\ origRound' = origRound
Surprised(t, u) ==
  /\ tracked[t] => mc[t].state = "AWAIT_FPE" /\ mc'[t].inTrap
  /\ ~tracked[t] => mc' = mc
  /\ KeepsContext(t)
  /\ uc'[t] = Quiesce(u)
  /\ EnterAbort(t, "user") /\ origRound' = origRound

LEMMA SigTrapEffect ==
  ASSUME TypeOK, NEW t \in Threads, NEW u \in Registers, NEW p \in BOOLEAN, SigTrap(t, u, p, "user")
  PROVE  \/ Die("leaked")
         \/ /\ saTrap = "fpspy" /\ pend' = p /\ Only(t) /\ KeepsLogs
            /\ UNCHANGED <<proc, saFpe, saTrap, aborted>>
            /\ Started(t, u) \/ SteppedOver(t, u) \/ Halted(t, u) \/ Surprised(t, u)
<1>1. CASE saTrap # "fpspy"
  BY <1>1 DEF SigTrap
<1>2. CASE saTrap = "fpspy"
  <2>0. /\ mc[t] \in Contexts /\ uc[t] \in Registers /\ origRound \in Rounds
    BY DEF TypeOK
  <2>1. /\ brk_trap_handler(t, u, "user", timer) /\ pend' = p /\ KeepsLogs
        /\ UNCHANGED <<proc, saFpe, saTrap, aborted>>
    BY <1>2 DEF SigTrap, brk_trap_handler, KeepsLogs
  <2>2. ASSUME BrkInit(t, u, "user", timer) PROVE Only(t) /\ Started(t, u)
    <3>1. /\ mc' = [mc EXCEPT ![t] = [mc[t] EXCEPT !.state = "AWAIT_FPE"]]
          /\ uc' = [uc EXCEPT ![t] = Watch(u)] /\ pc' = [pc EXCEPT ![t] = "user"]
          /\ back' = back /\ origRound' = u.rnd /\ tracked[t] /\ mc[t].state = "INIT"
      BY <2>2, EditedUser DEF BrkInit
    <3> QED
      BY <2>0, <2>1, <3>1 DEF Only, Started, TypeOK, Contexts, KeepsLogs
  <2>3. ASSUME BrkStepped(t, u, "user", timer) PROVE Only(t) /\ SteppedOver(t, u)
    <3> DEFINE m == Counted(mc[t])
    <3> DEFINE v == IF LimitReached(m.count) THEN Quiesce(u) ELSE Watch(u)
    <3>1. /\ tracked[t] /\ mc[t].state = "AWAIT_TRAP"
          /\ pc' = [pc EXCEPT ![t] = "user"] /\ back' = back /\ origRound' = origRound
          /\ \/ update_sampler(t, m, v, "user")
             \/ mc' = [mc EXCEPT ![t] = m] /\ uc' = [uc EXCEPT ![t] = v]
      BY <2>3, EditedUser DEF BrkStepped
    <3>2. /\ m \in Contexts /\ m.state = "AWAIT_FPE" /\ m.count = mc[t].count + 1
          /\ m.inTrap = mc[t].inTrap
      BY <2>0, CountedOK
    <3>3. m.buf = mc[t].buf
      BY <2>0 DEF Counted, Contexts
    <3>4. /\ v \in Registers /\ ~v.tf /\ ~v.dirty /\ v.insn = u.insn
          /\ ~ControlRound => v.rnd = u.rnd
          /\ LimitReached(m.count) => v.rnd = IF ControlRound THEN origRound ELSE u.rnd
      BY <2>0, WatchOK, QuiesceOK, RegistersEffect
    <3> HIDE DEF m, v
    <3>5. CASE mc' = [mc EXCEPT ![t] = m] /\ uc' = [uc EXCEPT ![t] = v]
      BY <2>1, <3>1, <3>2, <3>3, <3>4, <3>5 DEF Only, SteppedOver, TypeOK, KeepsLogs
    <3>6. CASE update_sampler(t, m, v, "user")
      <4>1. mc' = [mc EXCEPT ![t] = FlipSampler(m)] /\ uc' = [uc EXCEPT ![t] = FlipTraps(m, v)]
        BY <3>6, EditedUser DEF update_sampler
      <4>2. /\ FlipSampler(m).state = m.state /\ FlipSampler(m).count = m.count
            /\ FlipSampler(m).inTrap = m.inTrap
        BY <3>2, FlipSamplerOK
      <4>3. FlipSampler(m).buf = m.buf
        BY <3>2 DEF FlipSampler, Contexts
      <4>4. /\ ~FlipTraps(m, v).tf /\ ~FlipTraps(m, v).dirty /\ FlipTraps(m, v).rnd = v.rnd
            /\ FlipTraps(m, v).insn = v.insn
        BY <2>0, <3>2, <3>4, FlipTrapsOK, RegistersEffect
      <4> QED
        BY <2>1, <3>1, <3>2, <3>3, <3>4, <4>1, <4>2, <4>3, <4>4
        DEF Only, SteppedOver, TypeOK, KeepsLogs
    <3> QED
      BY <3>1, <3>5, <3>6
  <2>4. ASSUME BrkAborted(t, u, "user", timer) PROVE Only(t) /\ Halted(t, u)
    BY <2>1, <2>4, EditedUser DEF BrkAborted, Only, Halted, TypeOK, KeepsLogs
  <2>5. ASSUME BrkSurprise(t, u, "user", timer) PROVE Only(t) /\ Surprised(t, u)
    <3>1. /\ uc' = [uc EXCEPT ![t] = Quiesce(u)] /\ origRound' = origRound
          /\ tracked[t] => mc[t].state = "AWAIT_FPE"
          /\ mc' = IF tracked[t] THEN [mc EXCEPT ![t] = [mc[t] EXCEPT !.inTrap = TRUE]] ELSE mc
          /\ EnterAbort(t, "user")
      BY <2>5, EditedUser DEF BrkSurprise
    <3>2. \A w \in Threads \ {t} : pc'[w] = pc[w] /\ back'[w] = back[w]
      BY <3>1 DEF EnterAbort, TypeOK
    <3>3. KeepsContext(t) /\ (tracked[t] => mc'[t].inTrap)
      BY <2>0, <3>1 DEF KeepsContext, TypeOK, Contexts
    <3> QED
      BY <2>1, <3>1, <3>2, <3>3 DEF Only, Surprised, TypeOK, KeepsLogs
  <2> QED
    BY <1>2, <2>1, <2>2, <2>3, <2>4, <2>5 DEF brk_trap_handler
<1> QED
  BY <1>1, <1>2

(* A SIGFPE that fp_trap_handler() handles: the event's number n is        *)
(* recorded if it is sampled, and the thread steps over its instruction,   *)
(* or aborts if it was not waiting for a SIGFPE.                           *)
OthersFiles(t) == \A u \in Threads \ {t} : file'[u] = file[u]
Faulted(t, j, n) ==
  /\ tracked[t] /\ OthersFiles(t)
  /\ Trace(t)' = IF CreateMonitorFile /\ Sampled(mc[t]) THEN Append(Trace(t), n) ELSE Trace(t)
  /\ (BufLen <= 1 \/ ~CreateMonitorFile) /\ mc[t].buf = <<>> => mc'[t].buf = <<>>
  /\ mc'[t].count = mc[t].count /\ mc'[t].inTrap = mc[t].inTrap
  /\ uc'[t].mask /\ ~uc'[t].dirty /\ uc'[t].insn = j
  /\ ~ControlRound => uc'[t].rnd = uc[t].rnd
  /\ seen' = [seen EXCEPT ![t] = n] /\ UNCHANGED <<tracked, left, gvars>>
  /\ IF mc[t].state = "AWAIT_FPE"
     THEN mc'[t].state = "AWAIT_TRAP" /\ uc'[t].tf /\ UNCHANGED <<pc, back>>
     ELSE /\ mc'[t].state = mc[t].state /\ EnterAbort(t, "user")
          /\ ControlRound => uc'[t].rnd = origRound

LEMMA FaultEffect ==
  ASSUME TypeOK, NEW t \in Threads, NEW j \in {"fp", "intdiv"}, NEW n \in Nat,
         fp_trap_handler(t, j, n)
  PROVE  (\E f \in {"crashed", "leaked"} : Die(f)) \/ (Only(t) /\ Faulted(t, j, n))
<1>1. CASE ~(tracked[t] /\ Fault(t, j, n))
  BY <1>1 DEF fp_trap_handler
<1>2. CASE tracked[t] /\ Fault(t, j, n)
  <2> DEFINE u == [uc[t] EXCEPT !.insn = j, !.dirty = @ \/ j = "fp"]
  <2> DEFINE m == IF mc[t].state = "AWAIT_FPE" THEN [mc[t] EXCEPT !.state = "AWAIT_TRAP"]
                  ELSE mc[t]
  <2>1. mc[t] \in Contexts /\ uc[t] \in Registers /\ origRound \in Rounds
    BY DEF TypeOK
  <2>2. /\ m \in Contexts /\ m.inTrap = mc[t].inTrap /\ m.count = mc[t].count
        /\ m.buf = mc[t].buf
        /\ mc[t].state = "AWAIT_FPE" => m.state = "AWAIT_TRAP"
        /\ mc[t].state # "AWAIT_FPE" => m.state = mc[t].state
    BY <2>1 DEF Contexts, States
  <2>3. u \in Registers /\ u.insn = j /\ u.rnd = uc[t].rnd
    BY <2>1 DEF Registers
  <2>4. /\ IF Sampled(mc[t])
           THEN push_trace_record(t, m, n)
           ELSE mc' = [mc EXCEPT ![t] = m] /\ file' = file
        /\ seen' = [seen EXCEPT ![t] = n] /\ UNCHANGED <<tracked, left, gvars>>
    BY <1>2 DEF Fault
  <2>5. IF mc[t].state = "AWAIT_FPE"
        THEN uc' = [uc EXCEPT ![t] = StepOver(u)] /\ UNCHANGED <<pc, back>>
        ELSE uc' = [uc EXCEPT ![t] = Quiesce(u)] /\ EnterAbort(t, "user")
    BY <1>2 DEF Fault
  <2> HIDE DEF m, u
  <2>6. /\ Trace(t)' = IF CreateMonitorFile /\ Sampled(mc[t]) THEN Append(Trace(t), n)
                       ELSE Trace(t)
        /\ (BufLen <= 1 \/ ~CreateMonitorFile) /\ mc[t].buf = <<>> => mc'[t].buf = <<>>
        /\ mc'[t].state = m.state /\ mc'[t].count = m.count /\ mc'[t].inTrap = m.inTrap
        /\ OthersFiles(t) /\ \A w \in Threads \ {t} : mc'[w] = mc[w]
    <3>1. CASE Sampled(mc[t])
      <4>1. push_trace_record(t, m, n)
        BY <2>4, <3>1
      <4>2. /\ mc'[t].state = m.state /\ mc'[t].count = m.count /\ mc'[t].inTrap = m.inTrap
            /\ \A w \in Threads \ {t} : mc'[w] = mc[w]
        BY <2>2, <4>1, PushOK
      <4>3. /\ Trace(t)' = IF CreateMonitorFile THEN Append(Trace(t), n) ELSE Trace(t)
            /\ ~CreateMonitorFile => mc'[t].buf = mc[t].buf
            /\ CreateMonitorFile /\ BufLen <= 1 => mc'[t].buf = <<>>
            /\ \A w \in Threads \ {t} : file'[w] = file[w]
        BY <2>2, <4>1, PushEffect
      <4> QED
        BY <3>1, <4>2, <4>3, Zenon DEF OthersFiles
    <3>2. CASE ~Sampled(mc[t])
      <4>1. mc' = [mc EXCEPT ![t] = m] /\ file' = file
        BY <2>4, <3>2
      <4>2. mc'[t] = m /\ \A w \in Threads \ {t} : mc'[w] = mc[w]
        BY <4>1 DEF TypeOK
      <4>3. Trace(t)' = Trace(t)
        BY <2>2, <4>1, <4>2 DEF Trace
      <4> QED
        BY <2>2, <3>2, <4>1, <4>2, <4>3, Zenon DEF OthersFiles
    <3> QED
      BY <3>1, <3>2
  <2>7. CASE mc[t].state = "AWAIT_FPE"
    <3>1. uc'[t] = StepOver(u) /\ pc' = pc /\ back' = back
          /\ \A w \in Threads \ {t} : uc'[w] = uc[w]
      BY <2>5, <2>7 DEF TypeOK
    <3>2. /\ uc'[t].mask /\ uc'[t].tf /\ ~uc'[t].dirty /\ uc'[t].insn = j
          /\ ~ControlRound => uc'[t].rnd = uc[t].rnd
      BY <2>1, <2>3, <3>1, StepOverOK, RegistersEffect
    <3>3. Only(t)
      BY <2>4, <2>6, <3>1 DEF Only
    <3> QED
      BY <1>2, <2>2, <2>4, <2>6, <2>7, <3>1, <3>2, <3>3 DEF Faulted
  <2>8. CASE mc[t].state # "AWAIT_FPE"
    <3>1. uc'[t] = Quiesce(u) /\ EnterAbort(t, "user")
          /\ \A w \in Threads \ {t} : uc'[w] = uc[w]
      BY <2>5, <2>8 DEF TypeOK
    <3>2. /\ uc'[t].mask /\ ~uc'[t].dirty /\ uc'[t].insn = j
          /\ ~ControlRound => uc'[t].rnd = uc[t].rnd
          /\ ControlRound => uc'[t].rnd = origRound
      BY <2>1, <2>3, <3>1, QuiesceOK, RegistersEffect
    <3>3. \A w \in Threads \ {t} : pc'[w] = pc[w] /\ back'[w] = back[w]
      BY <3>1 DEF EnterAbort, TypeOK
    <3>4. Only(t)
      BY <2>4, <2>6, <3>1, <3>3 DEF Only
    <3> QED
      BY <1>2, <2>2, <2>4, <2>6, <2>8, <3>1, <3>2, <3>4 DEF Faulted
  <2> QED
    BY <2>7, <2>8
<1> QED
  BY <1>1, <1>2

(* sigalrm_handler() touches the registers of a waiting thread only.       *)
LEMMA AlarmEffect ==
  ASSUME TypeOK, NEW t \in Threads, sigalrm_handler(t, FALSE)
  PROVE  /\ KeepsContext(t) /\ mc'[t].inTrap = mc[t].inTrap
         /\ uc'[t].rnd = uc[t].rnd /\ uc'[t].insn = uc[t].insn
         /\ uc' = uc \/ (mc[t].state = "AWAIT_FPE" /\ ~uc'[t].dirty /\ ~uc'[t].tf)
         /\ \A w \in Threads \ {t} : mc'[w] = mc[w] /\ uc'[w] = uc[w]
<1>0. mc[t] \in Contexts /\ uc[t] \in Registers /\ origRound \in Rounds
  BY DEF TypeOK
<1>1. CASE tracked[t] /\ mc[t].state = "AWAIT_FPE"
  <2>1. /\ mc' = [mc EXCEPT ![t] = FlipSampler(mc[t])]
        /\ uc' = [uc EXCEPT ![t] = FlipTraps(mc[t], uc[t])]
    BY <1>1, EditedUser DEF sigalrm_handler, AlarmSwitches, update_sampler
  <2>2. /\ mc'[t] = FlipSampler(mc[t]) /\ uc'[t] = FlipTraps(mc[t], uc[t])
        /\ \A w \in Threads \ {t} : mc'[w] = mc[w] /\ uc'[w] = uc[w]
    BY <2>1 DEF TypeOK
  <2>3. /\ ~uc'[t].dirty /\ ~uc'[t].tf
        /\ uc'[t].rnd = uc[t].rnd /\ uc'[t].insn = uc[t].insn
    BY <1>0, <2>2, RegistersEffect, FlipTrapsOK
  <2>4. KeepsContext(t) /\ mc'[t].inTrap = mc[t].inTrap
    BY <1>0, <2>2 DEF FlipSampler, KeepsContext, Contexts
  <2> QED
    BY <1>1, <2>2, <2>3, <2>4
<1>2. CASE ~(tracked[t] /\ mc[t].state = "AWAIT_FPE")
  <2>1. /\ uc' = uc
        /\ mc' = mc \/ mc' = [mc EXCEPT ![t] = [mc[t] EXCEPT !.delayed = TRUE]]
    BY <1>2 DEF sigalrm_handler, AlarmSwitches, Defer
  <2>2. /\ mc'[t] = mc[t] \/ mc'[t] = [mc[t] EXCEPT !.delayed = TRUE]
        /\ \A w \in Threads \ {t} : mc'[w] = mc[w]
    BY <2>1 DEF TypeOK
  <2>3. KeepsContext(t) /\ mc'[t].inTrap = mc[t].inTrap
    BY <1>0, <2>2 DEF KeepsContext, Contexts
  <2> QED
    BY <2>1, <2>2, <2>3
<1> QED
  BY <1>1, <1>2

(* Tearing a context down writes its buffer: the trace stays the same.     *)
LEMMA TeardownEffect ==
  ASSUME TypeOK, NEW t \in Threads, teardown_monitoring_context(t)
  PROVE  /\ ~tracked'[t] /\ Trace(t)' = Trace(t) /\ OthersFiles(t)
         /\ tracked[t] => mc'[t].buf = <<>>
         /\ ~tracked[t] => mc'[t].buf = mc[t].buf
         /\ mc'[t].state = mc[t].state /\ mc'[t].count = mc[t].count
         /\ mc'[t].inTrap = mc[t].inTrap
         /\ \A w \in Threads \ {t} : mc'[w] = mc[w] /\ tracked'[w] = tracked[w]
<1>0. mc[t] \in Contexts /\ file[t] \in Seq(Nat)
  BY DEF TypeOK
<1>1. CASE tracked[t]
  <2>1. /\ file' = [file EXCEPT ![t] = file[t] \o mc[t].buf]
        /\ mc' = [mc EXCEPT ![t] = [mc[t] EXCEPT !.buf = <<>>, !.on = TRUE, !.delayed = FALSE]]
        /\ tracked' = [tracked EXCEPT ![t] = FALSE]
    BY <1>1 DEF teardown_monitoring_context
  <2>2. /\ mc'[t] = [mc[t] EXCEPT !.buf = <<>>, !.on = TRUE, !.delayed = FALSE]
        /\ file'[t] = Trace(t) /\ ~tracked'[t]
        /\ \A w \in Threads \ {t} :
             mc'[w] = mc[w] /\ tracked'[w] = tracked[w] /\ file'[w] = file[w]
    BY <2>1 DEF TypeOK, Trace
  <2>3. /\ mc'[t].buf = <<>> /\ mc'[t].state = mc[t].state /\ mc'[t].count = mc[t].count
        /\ mc'[t].inTrap = mc[t].inTrap
    BY <1>0, <2>2 DEF Contexts
  <2>4. Trace(t) \in Seq(Nat)
    <3>1. mc[t].buf \in Seq(Nat)
      BY <1>0 DEF Contexts
    <3> QED
      BY <1>0, <3>1 DEF Trace
  <2>5. Trace(t) \o <<>> = Trace(t)
    BY <2>4, ConcatEmptySeq
  <2>6. Trace(t)' = Trace(t)
    BY <2>2, <2>3, <2>5, Zenon DEF Trace
  <2> QED
    BY <1>1, <2>2, <2>3, <2>6 DEF OthersFiles
<1>2. CASE ~tracked[t]
  BY <1>2 DEF teardown_monitoring_context, Trace, OthersFiles, TypeOK
<1> QED
  BY <1>1, <1>2

(* A context is brought up fresh.                                          *)
LEMMA NewContextEffect ==
  ASSUME TypeOK, NEW t \in Threads, NewContext(t)
  PROVE  /\ tracked'[t] /\ mc'[t].state = "INIT" /\ mc'[t].count = 0 /\ mc'[t].buf = <<>>
         /\ ~mc'[t].inTrap
         /\ \A w \in Threads \ {t} : mc'[w] = mc[w] /\ tracked'[w] = tracked[w]
<1>1. PICK d \in {FALSE, leftDelayed} : mc' = [mc EXCEPT ![t] = FreshContext(d)]
  BY DEF NewContext
<1>2. mc'[t] = FreshContext(d) /\ \A w \in Threads \ {t} : mc'[w] = mc[w]
  BY <1>1 DEF TypeOK
<1>3. /\ mc'[t].state = "INIT" /\ mc'[t].count = 0 /\ mc'[t].buf = <<>> /\ ~mc'[t].inTrap
  BY <1>2 DEF FreshContext
<1> QED
  BY <1>2, <1>3 DEF NewContext, TypeOK

-----------------------------------------------------------------------------
(* The parts of the invariant, for a thread t.                             *)

(* Sticky flags are set only where exceptions are masked.                  *)
Clean(t) == ~uc[t].mask => ~uc[t].dirty

(* Before its first SIGTRAP a thread has no context, or a fresh one.       *)
Unstarted(t) ==
  /\ pc[t] \in {"unborn", "boot", "tramp", "install", "kick"} =>
       mc[t].state = "INIT" /\ ~mc[t].inTrap
  /\ pc[t] \in {"unborn", "boot", "tramp"} => ~tracked[t]
  /\ pc[t] \in {"boot", "install"} => t = Main
  /\ "create" \notin Inputs /\ t # Main => pc[t] = "unborn"
  /\ mc[t].state = "INIT" => mc[t].count = 0

(* A thread is marked ABORT once, after SIGFPE has been given back, and is *)
(* on its way out of abort_operation() or has left it for good.  The trap  *)
(* handler's own surprise is remembered until then.                        *)
AbortedOnce(t) ==
  /\ pc[t] \in AbortSteps \ {"restoreFpe"} => saFpe = "old"
  /\ mc[t].state = "ABORT" =>
       saFpe = "old" /\ pc[t] \in {"abortKick", "restoreTrap", "setAborted", "user", "gone"}
  /\ mc[t].state = "ABORT" /\ pc[t] = "user" => aborted
  /\ mc[t].inTrap => IF pc[t] \in AbortSteps THEN back[t] # "none" ELSE aborted

(* Records are buffered only with a context and a buffer to hold them.     *)
Flushed(t) ==
  /\ ~tracked[t] => mc[t].buf = <<>>
  /\ BufLen <= 1 \/ ~CreateMonitorFile => mc[t].buf = <<>>

(* The rounding mode is the target's until brk_trap_handler() starts       *)
(* FPSpy, and again from the event that reaches the limit, or from the     *)
(* moment abort_operation() has seen to it.                                *)
OneRounding == ~ControlRound \/ "create" \notin Inputs
AtLimit(m) == m.state = "AWAIT_FPE" /\ m.count > 0 /\ LimitReached(m.count)
Rounded(t) ==
  pc[t] # "gone" =>
    /\ ~ControlRound => uc[t].rnd = "target"
    /\ OneRounding =>
         /\ mc[t].state = "INIT" \/ AtLimit(mc[t]) => uc[t].rnd = "target"
         /\ mc[t].state = "ABORT" /\ pc[t] # "abortKick" => uc[t].rnd = "target"
         /\ pc[t] \in AbortSteps /\ back[t] # "none" => uc[t].rnd = "target"

OwnInv(t) ==
  Clean(t) /\ Unstarted(t) /\ AbortedOnce(t) /\ Flushed(t) /\ Rounded(t) /\ Unnested(t)

(* And for the process.                                                    *)
ProcessInv ==
  /\ Booting => ~aborted /\ \A t \in Threads \ {Main} : pc[t] = "unborn"
  /\ OneRounding => origRound = "target"
  /\ proc = "exited" /\ "create" \notin Inputs => ~tracked[Main]
  /\ Main \in left => ~tracked[Main] /\ pc[Main] \notin {"unborn", "boot", "tramp"}

SafetyInv == TypeOK /\ ProcessInv /\ \A t \in Threads : OwnInv(t)

(* What AbortIsFinal says of a step.                                       *)
Final(t) ==
  mc[t].state = "ABORT" =>
    mc'[t].state = "ABORT" /\ mc'[t].count = mc[t].count /\ Trace(t)' = Trace(t)

(* A step that keeps the invariant, and what has been aborted aborted.     *)
SafeStep == SafetyInv' /\ \A t \in Threads : Final(t)
Stays == (saFpe = "old" => saFpe' = "old") /\ (aborted => aborted')

LEMMA SafeBystander ==
  ASSUME SafetyInv, Stays, NEW u \in Threads, mc'[u] = mc[u], tracked'[u] = tracked[u],
         uc'[u] = uc[u], pc'[u] = pc[u], back'[u] = back[u], file'[u] = file[u]
  PROVE  OwnInv(u)' /\ Final(u)
<1>1. OwnInv(u)
  BY DEF SafetyInv
<1>2. OwnInv(u)'
  BY <1>1 DEF Stays, OwnInv, Clean, Unstarted, AbortedOnce, Flushed, Rounded, AtLimit,
     OneRounding, Unnested
<1>3. Final(u)
  BY DEF Final, Trace
<1> QED
  BY <1>2, <1>3

(* A step of one thread that is neither booting nor exiting the process.   *)
LEMMA SafeCombine ==
  ASSUME SafetyInv, TypeOK', NEW t \in Threads, Only(t), OthersFiles(t), Stays,
         pc[t] \notin {"unborn", "boot", "install"}, left' = left,
         pc'[t] \notin {"unborn", "boot", "install", "tramp"},
         tracked'[t] => tracked[t] \/ pc[t] = "tramp",
         proc' # "exited", OneRounding => origRound' = "target",
         OwnInv(t)', Final(t)
  PROVE  SafeStep
<1>1. ASSUME NEW u \in Threads \ {t} PROVE OwnInv(u)' /\ Final(u)
  BY <1>1, SafeBystander DEF Only, OthersFiles
<1>2. ~Booting
  BY ConstantsAssumption DEF SafetyInv, ProcessInv, Booting
<1>3. ~Booting'
  BY <1>2, ConstantsAssumption DEF Booting, Only
<1>4. ProcessInv'
  BY <1>3, ConstantsAssumption DEF SafetyInv, ProcessInv, OneRounding, Only
<1> QED
  BY <1>1, <1>4 DEF SafeStep, SafetyInv

(* Nothing of the threads, the handlers or the logs changes, and the       *)
(* process does not exit.                                                  *)
LEMMA SafeStill ==
  ASSUME SafetyInv, TypeOK', UNCHANGED <<tvars, saFpe, aborted, origRound>>,
         proc' = proc \/ proc' # "exited"
  PROVE  SafeStep
<1>1. ASSUME NEW u \in Threads PROVE OwnInv(u)' /\ Final(u)
  BY SafeBystander DEF Stays, tvars
<1>2. ProcessInv'
  BY DEF SafetyInv, ProcessInv, Booting, OneRounding, tvars
<1> QED
  BY <1>1, <1>2 DEF SafeStep, SafetyInv

LEMMA SafeDie ==
  ASSUME SafetyInv, TypeOK', NEW f, f # "exited", Die(f) PROVE SafeStep
BY SafeStill DEF Die

LEMMA SafeActing ==
  ASSUME SafetyInv, NEW t \in Threads
  PROVE  /\ TypeOK /\ ProcessInv /\ OwnInv(t)
         /\ mc[t] \in Contexts /\ uc[t] \in Registers /\ origRound \in Rounds
         /\ mc[t].inTrap \in BOOLEAN
<1>1. mc[t] \in Contexts /\ uc[t] \in Registers /\ origRound \in Rounds
  BY DEF SafetyInv, TypeOK
<1>2. mc[t].inTrap \in BOOLEAN
  BY <1>1 DEF Contexts
<1> QED
  BY <1>1, <1>2 DEF SafetyInv

LEMMA SafeTrap ==
  ASSUME SafetyInv, TypeOK', NEW t \in Threads, NEW u \in Registers, NEW p \in BOOLEAN,
         pc[t] \in {"user", "kick"}, proc = "up", u.rnd = uc[t].rnd, SigTrap(t, u, p, "user")
  PROVE  SafeStep
<1>0. TypeOK /\ ProcessInv /\ OwnInv(t) /\ origRound \in Rounds /\ mc[t] \in Contexts
  BY SafeActing
<1>1. CASE Die("leaked")
  BY <1>1, SafeDie
<1>2. CASE ~Die("leaked")
  <2>1. /\ Only(t) /\ KeepsLogs /\ UNCHANGED <<proc, saFpe, saTrap, aborted>>
        /\ Started(t, u) \/ SteppedOver(t, u) \/ Halted(t, u) \/ Surprised(t, u)
    BY <1>0, <1>2, SigTrapEffect
  <2>2. /\ OthersFiles(t) /\ Stays /\ proc' # "exited" /\ tracked'[t] = tracked[t]
        /\ left' = left
        /\ mc'[t].buf = mc[t].buf => Trace(t)' = Trace(t)
    BY <2>1 DEF OthersFiles, KeepsLogs, Stays, Trace
  <2>3. /\ mc[t].inTrap /\ pc[t] = "user" => aborted
        /\ pc[t] = "kick" => mc[t].state = "INIT" /\ ~mc[t].inTrap
        /\ "create" \notin Inputs => t = Main
    BY <1>0 DEF OwnInv, AbortedOnce, Unstarted, AbortSteps
  <2>4. CASE Started(t, u)
    <3>1. /\ pc'[t] = "user" /\ mc'[t].state = "AWAIT_FPE" /\ ~uc'[t].dirty
          /\ mc'[t].inTrap => aborted
          /\ ~ControlRound => uc'[t].rnd = u.rnd
          /\ mc'[t].buf = mc[t].buf /\ mc[t].state = "INIT" /\ origRound' = u.rnd
          /\ mc'[t].count = 0 /\ back' = back
      BY <1>0, <2>3, <2>4, RegistersEffect DEF Started, OwnInv, Unstarted
    <3>2. OwnInv(t)'
      BY <1>0, <2>1, <2>2, <2>3, <3>1
      DEF OwnInv, Clean, Unstarted, AbortedOnce, Flushed, Rounded, AtLimit, OneRounding, Unnested,
          AbortSteps
    <3>3. OneRounding => origRound' = "target"
      BY <1>0, <3>1 DEF OwnInv, Rounded
    <3> QED
      BY <2>1, <2>2, <3>1, <3>2, <3>3, SafeCombine DEF Final
  <2>5. CASE SteppedOver(t, u)
    <3>1. /\ pc'[t] = "user" /\ mc'[t].state = "AWAIT_FPE" /\ ~uc'[t].dirty
          /\ mc'[t].inTrap => aborted
          /\ ~ControlRound => uc'[t].rnd = u.rnd
          /\ mc'[t].buf = mc[t].buf /\ mc[t].state = "AWAIT_TRAP" /\ origRound' = origRound
          /\ LimitReached(mc'[t].count) => uc'[t].rnd = IF ControlRound THEN origRound ELSE u.rnd
          /\ back' = back
      BY <1>0, <2>3, <2>5 DEF SteppedOver
    <3>2. OwnInv(t)'
      BY <1>0, <2>1, <2>2, <2>3, <3>1
      DEF OwnInv, Clean, Unstarted, AbortedOnce, Flushed, Rounded, AtLimit, OneRounding, Unnested,
          AbortSteps, ProcessInv
    <3> QED
      BY <1>0, <2>1, <2>2, <3>1, <3>2, SafeCombine DEF Final, ProcessInv
  <2>6. CASE Halted(t, u)
    <3>1. /\ pc'[t] = "user" /\ mc' = mc /\ mc[t].state = "ABORT" /\ origRound' = origRound
          /\ back' = back
          /\ pc[t] = "user" /\ ~uc'[t].dirty
          /\ uc'[t].rnd = IF ControlRound THEN origRound ELSE u.rnd
      BY <1>0, <2>3, <2>6, RegistersEffect DEF Halted
    <3>2. OwnInv(t)'
      BY <1>0, <2>1, <2>2, <2>3, <3>1
      DEF OwnInv, Clean, Unstarted, AbortedOnce, Flushed, Rounded, AtLimit, OneRounding, Unnested,
          AbortSteps, ProcessInv
    <3> QED
      BY <1>0, <2>1, <2>2, <3>1, <3>2, SafeCombine DEF Final, ProcessInv
  <2>7. CASE Surprised(t, u)
    <3>1. /\ KeepsContext(t) /\ ~uc'[t].dirty /\ origRound' = origRound
          /\ uc'[t].rnd = IF ControlRound THEN origRound ELSE u.rnd
          /\ tracked[t] => mc[t].state = "AWAIT_FPE"
          /\ ~tracked[t] => mc'[t].inTrap = mc[t].inTrap
          /\ IF aborted THEN pc'[t] = "user" /\ back' = back
             ELSE pc'[t] = "restoreFpe" /\ back'[t] = "user"
      BY <1>0, <2>7, RegistersEffect DEF Surprised, EnterAbort, TypeOK
    <3>2. mc[t].state = "ABORT" => saFpe = "old" /\ aborted /\ pc[t] = "user"
      BY <1>0, <2>3 DEF OwnInv, AbortedOnce
    <3>3. OwnInv(t)'
      BY <1>0, <2>1, <2>2, <2>3, <3>1, <3>2
      DEF OwnInv, Clean, Unstarted, AbortedOnce, Flushed, Rounded, AtLimit, OneRounding, Unnested,
          AbortSteps, ProcessInv, KeepsContext
    <3>4. /\ Final(t) /\ pc'[t] \notin {"unborn", "boot", "install", "tramp"}
          /\ OneRounding => origRound' = "target"
      BY <1>0, <2>2, <3>1 DEF Final, ProcessInv, KeepsContext
    <3> QED
      BY <2>1, <2>2, <3>3, <3>4, SafeCombine
  <2> QED
    BY <2>1, <2>4, <2>5, <2>6, <2>7
<1> QED
  BY <1>1, <1>2

(* An aborted process does not enter fp_trap_handler(): SIGFPE has been    *)
(* given back before any context says ABORT.                               *)
LEMMA SafeFault ==
  ASSUME SafetyInv, TypeOK', NEW t \in Threads, NEW j \in {"fp", "intdiv"}, NEW n \in Nat,
         pc[t] = "user", proc = "up", saFpe = "fpspy", fp_trap_handler(t, j, n)
  PROVE  SafeStep
<1>0. TypeOK /\ ProcessInv /\ OwnInv(t)
  BY SafeActing
<1>1. CASE \E f \in {"crashed", "leaked"} : Die(f)
  BY <1>1, SafeDie
<1>2. CASE ~\E f \in {"crashed", "leaked"} : Die(f)
  <2>1. Only(t) /\ Faulted(t, j, n)
    BY <1>0, <1>2, FaultEffect
  <2>2. /\ OthersFiles(t) /\ Stays /\ proc' # "exited" /\ origRound' = origRound
        /\ tracked'[t] = tracked[t] /\ tracked[t]
        /\ UNCHANGED <<left, saFpe, aborted>>
    BY <2>1 DEF Faulted, gvars, Stays
  <2>3. mc[t].state # "ABORT" /\ (mc[t].inTrap => aborted) /\ ("create" \notin Inputs => t = Main)
    BY <1>0 DEF OwnInv, AbortedOnce, Unstarted, AbortSteps
  <2>4. /\ (BufLen <= 1 \/ ~CreateMonitorFile) /\ mc[t].buf = <<>> => mc'[t].buf = <<>>
        /\ mc'[t].inTrap = mc[t].inTrap /\ uc'[t].mask /\ mc'[t].count = mc[t].count
        /\ ~ControlRound => uc'[t].rnd = uc[t].rnd
    BY <2>1 DEF Faulted
  <2>5. CASE mc[t].state = "AWAIT_FPE"
    <3>1. mc'[t].state = "AWAIT_TRAP" /\ UNCHANGED <<pc, back>>
      BY <2>1, <2>5 DEF Faulted
    <3>2. OwnInv(t)'
      BY <1>0, <2>2, <2>3, <2>4, <3>1
      DEF OwnInv, Clean, Unstarted, AbortedOnce, Flushed, Rounded, AtLimit, OneRounding, Unnested,
          AbortSteps
    <3> QED
      BY <1>0, <2>1, <2>2, <2>3, <3>1, <3>2, SafeCombine DEF Final, ProcessInv
  <2>6. CASE mc[t].state # "AWAIT_FPE"
    <3>1. /\ mc'[t].state = mc[t].state /\ (ControlRound => uc'[t].rnd = origRound)
          /\ EnterAbort(t, "user")
      BY <2>1, <2>6 DEF Faulted
    <3>2. IF aborted THEN pc'[t] = "user" /\ back' = back
          ELSE pc'[t] = "restoreFpe" /\ back'[t] = "user"
      BY <1>0, <3>1 DEF EnterAbort, TypeOK
    <3>3. OwnInv(t)'
      BY <1>0, <2>2, <2>3, <2>4, <3>1, <3>2
      DEF OwnInv, Clean, Unstarted, AbortedOnce, Flushed, Rounded, AtLimit, OneRounding, Unnested,
          AbortSteps, ProcessInv
    <3>4. pc'[t] \notin {"unborn", "boot", "install", "tramp"} /\ Final(t)
      BY <2>3, <3>2 DEF Final
    <3> QED
      BY <1>0, <2>1, <2>2, <3>3, <3>4, SafeCombine DEF ProcessInv
  <2> QED
    BY <2>5, <2>6
<1> QED
  BY <1>1, <1>2

LEMMA SafeTarget ==
  ASSUME SafetyInv, TypeOK', NEW t \in Threads, Target(t) PROVE SafeStep
<1>0. /\ TypeOK /\ ProcessInv /\ OwnInv(t) /\ mc[t] \in Contexts /\ uc[t] \in Registers
      /\ Number(t) \in Nat
  BY SafeActing DEF Number, TypeOK
<1>1. pc[t] = "user" /\ proc = "up"
  BY DEF Target, FpTraps, FpSilent, IntDivTraps, TargetConflict, ThreadExit, ThreadEnd,
     ProcessExit, Interrupted, Create, InTarget, Running
<1>2. ("create" \notin Inputs => t = Main) /\ (mc[t].inTrap => aborted)
      /\ (mc[t].state = "ABORT" => saFpe = "old" /\ aborted)
  BY <1>0, <1>1 DEF OwnInv, Unstarted, AbortedOnce, AbortSteps
<1>3. CASE FpTraps(t)
  BY <1>0, <1>1, <1>3, SafeFault, SafeDie DEF FpTraps, TypeOK
<1>4. CASE FpSilent(t)
  <2>1. /\ uc' = [uc EXCEPT ![t] = Executed(t)] /\ uc[t].mask
        /\ UNCHANGED <<mc, tracked, pc, back, left, file, gvars>>
    BY <1>4 DEF FpSilent
  <2>2. uc'[t].mask /\ uc'[t].rnd = uc[t].rnd /\ \A w \in Threads \ {t} : uc'[w] = uc[w]
    BY <1>0, <2>1 DEF TypeOK, Executed, Registers
  <2>3. OwnInv(t)' /\ Final(t)
    BY <1>0, <1>1, <2>1, <2>2
    DEF OwnInv, Clean, Unstarted, AbortedOnce, Flushed, Rounded, AtLimit, OneRounding, Unnested,
        gvars, Final, Trace
  <2>4. Only(t) /\ OthersFiles(t) /\ Stays
    BY <2>1, <2>2 DEF Only, OthersFiles, Stays, gvars
  <2> QED
    BY <1>0, <1>1, <2>1, <2>3, <2>4, SafeCombine DEF ProcessInv, gvars
<1>5. CASE IntDivTraps(t)
  BY <1>0, <1>1, <1>5, SafeFault, SafeDie DEF IntDivTraps, TypeOK
<1>6. CASE TargetConflict(t)
  <2>1. /\ EnterAbort(t, "none") /\ UNCHANGED <<mc, tracked, left, file, gvars>>
        /\ uc' = IF aborted THEN uc
                 ELSE [uc EXCEPT ![t] = arch_clear_fp_exceptions(arch_mask_fp_traps(uc[t]))]
    BY <1>6 DEF TargetConflict
  <2>2. \A w \in Threads \ {t} : uc'[w] = uc[w] /\ pc'[w] = pc[w] /\ back'[w] = back[w]
    BY <1>0, <2>1 DEF EnterAbort, TypeOK
  <2>3. Only(t) /\ OthersFiles(t) /\ Stays
    BY <2>1, <2>2 DEF Only, OthersFiles, Stays, gvars
  <2>4. IF aborted THEN pc'[t] = "user" /\ back' = back /\ uc' = uc
        ELSE pc'[t] = "restoreFpe" /\ back'[t] = "none"
    BY <1>0, <2>1 DEF EnterAbort, TypeOK
  <2>5. uc'[t].rnd = uc[t].rnd /\ (~aborted => uc'[t].mask)
    BY <1>0, <2>1 DEF TypeOK, arch_clear_fp_exceptions, arch_mask_fp_traps, Registers
  <2>6. OwnInv(t)'
    BY <1>0, <1>1, <1>2, <2>1, <2>4, <2>5
    DEF OwnInv, Clean, Unstarted, AbortedOnce, Flushed, Rounded, AtLimit, OneRounding, Unnested,
        gvars, AbortSteps
  <2>7. Final(t) /\ pc'[t] \notin {"unborn", "boot", "install", "tramp"}
    BY <2>1, <2>4 DEF Final, Trace
  <2> QED
    BY <1>0, <1>1, <2>1, <2>3, <2>6, <2>7, SafeCombine DEF ProcessInv, gvars
<1>7. ~Booting
  BY <1>0, <1>1, ConstantsAssumption DEF ProcessInv, Booting
<1>8. ASSUME teardown_monitoring_context(t), UNCHANGED <<uc, pc, back, saFpe, aborted, origRound>>,
             left' \in {left, left \cup {t}}
      PROVE  SafeStep
  <2>1. /\ ~tracked'[t] /\ Trace(t)' = Trace(t) /\ OthersFiles(t)
        /\ tracked[t] => mc'[t].buf = <<>>
        /\ ~tracked[t] => mc'[t].buf = mc[t].buf
        /\ mc'[t].state = mc[t].state /\ mc'[t].count = mc[t].count
        /\ mc'[t].inTrap = mc[t].inTrap
        /\ \A w \in Threads \ {t} : mc'[w] = mc[w] /\ tracked'[w] = tracked[w]
    BY <1>0, <1>8, TeardownEffect
  <2>2. mc'[t].buf = <<>>
    BY <1>0, <2>1 DEF OwnInv, Flushed
  <2>3. OwnInv(t)' /\ Final(t)
    BY <1>0, <1>1, <1>2, <1>8, <2>1, <2>2
    DEF OwnInv, Clean, Unstarted, AbortedOnce, Flushed, Rounded, AtLimit, OneRounding, Unnested,
        AbortSteps, Final
  <2>4. ASSUME NEW u \in Threads PROVE OwnInv(u)' /\ Final(u)
    BY <1>8, <2>1, <2>3, SafeBystander DEF OthersFiles, Stays
  <2>5. /\ proc' = "exited" /\ "create" \notin Inputs => ~tracked'[Main]
        /\ Main \in left' => ~tracked'[Main] /\ pc'[Main] \notin {"unborn", "boot", "tramp"}
    BY <1>0, <1>1, <1>2, <1>8, <2>1, ConstantsAssumption DEF ProcessInv
  <2>6. ProcessInv'
    BY <1>0, <1>7, <1>8, <2>5 DEF ProcessInv, Booting, OneRounding
  <2> QED
    BY <2>4, <2>6 DEF SafeStep, SafetyInv
<1>9. CASE ThreadExit(t) \/ ProcessExit(t) \/ Interrupted(t)
  BY <1>8, <1>9 DEF ThreadExit, ProcessExit, Interrupted
<1>11. CASE ThreadEnd(t)
  <2>1. /\ t \in left /\ uc' = [uc EXCEPT ![t] = HandlerRegisters]
        /\ pc' = [pc EXCEPT ![t] = "gone"]
        /\ UNCHANGED <<mc, tracked, back, left, file, saFpe, aborted, origRound>>
    BY <1>11 DEF ThreadEnd
  <2>2. /\ pc'[t] = "gone" /\ ~uc'[t].dirty
        /\ \A w \in Threads \ {t} : pc'[w] = pc[w] /\ uc'[w] = uc[w]
    BY <1>0, <2>1 DEF TypeOK, HandlerRegisters
  <2>3. OwnInv(t)' /\ Final(t)
    BY <1>0, <1>1, <1>2, <2>1, <2>2
    DEF OwnInv, Clean, Unstarted, AbortedOnce, Flushed, Rounded, AtLimit, OneRounding, Unnested,
        AbortSteps, Final, Trace
  <2>4. ASSUME NEW u \in Threads PROVE OwnInv(u)' /\ Final(u)
    BY <2>1, <2>2, <2>3, SafeBystander DEF Stays
  <2>5. /\ ~Booting'
        /\ Main \in left => ~tracked[Main] /\ pc'[Main] \notin {"unborn", "boot", "tramp"}
    BY <1>0, <1>7, <2>2, ConstantsAssumption DEF Booting, ProcessInv
  <2>6. ProcessInv'
    BY <1>0, <1>2, <2>1, <2>5 DEF ProcessInv, OneRounding
  <2> QED
    BY <2>4, <2>6 DEF SafeStep, SafetyInv
<1>10. ASSUME NEW w \in Threads, Create(t, w) PROVE SafeStep
  <2>1. /\ "create" \in Inputs /\ pc[w] = "unborn"
        /\ pc' = [pc EXCEPT ![w] = IF aborted THEN "user" ELSE "tramp"]
        /\ uc' = [uc EXCEPT ![w] = uc[t]]
        /\ UNCHANGED <<mc, tracked, back, left, file, gvars>>
    BY <1>10 DEF Create
  <2>2. /\ pc'[w] = (IF aborted THEN "user" ELSE "tramp") /\ uc'[w] = uc[t]
        /\ \A u \in Threads \ {w} : pc'[u] = pc[u] /\ uc'[u] = uc[u]
    BY <1>0, <2>1 DEF TypeOK
  <2>3. Only(w) /\ OthersFiles(w) /\ Stays
    BY <2>1, <2>2 DEF Only, OthersFiles, Stays, gvars
  <2>4. OwnInv(w) /\ Final(w)
    BY <2>1, SafeActing DEF Final, Trace
  <2>5. OwnInv(w)'
    BY <1>0, <1>1, <2>1, <2>2, <2>4
    DEF OwnInv, Clean, Unstarted, AbortedOnce, Flushed, Rounded, AtLimit, OneRounding, Unnested,
        gvars, AbortSteps
  <2>6. ASSUME NEW u \in Threads PROVE OwnInv(u)' /\ Final(u)
    BY <2>3, <2>4, <2>5, SafeBystander DEF Only, OthersFiles
  <2>7. ~Booting' /\ (Main \in left => pc'[Main] \notin {"unborn", "boot", "tramp"})
    BY <1>0, <1>7, <2>1, <2>2, ConstantsAssumption DEF Booting, ProcessInv
  <2>8. ProcessInv'
    BY <1>0, <1>1, <2>1, <2>7 DEF ProcessInv, OneRounding, gvars
  <2> QED
    BY <2>6, <2>8 DEF SafeStep, SafetyInv
<1> QED
  BY <1>3, <1>4, <1>5, <1>6, <1>9, <1>10, <1>11 DEF Target

LEMMA SafeKernel ==
  ASSUME SafetyInv, TypeOK', ~nested', NEW t \in Threads, Kernel(t) PROVE SafeStep
<1>0. TypeOK /\ ProcessInv /\ OwnInv(t) /\ mc[t] \in Contexts /\ uc[t] \in Registers
  BY SafeActing
<1>1. CASE FpStepped(t)
  <2>1. Executed(t) \in Registers /\ Executed(t).rnd = uc[t].rnd
    BY <1>0 DEF Executed, Registers
  <2> QED
    BY <1>0, <1>1, <2>1, SafeTrap DEF FpStepped, Running, TypeOK
<1>2. CASE DeliverTrap(t)
  <2>1. proc = "up" /\ (Die("leaked") \/ (pc[t] = "user" /\ SigTrap(t, uc[t], FALSE, "user")))
    BY <1>2 DEF DeliverTrap, SigTrap, brk_trap_handler, AlarmSteps
  <2> QED
    BY <1>0, <2>1, SafeDie, SafeTrap DEF TypeOK
<1>3. CASE Alarm(t) /\ saAlrm # "fpspy"
  BY <1>3, SafeDie DEF Alarm
<1>4. CASE Alarm(t) /\ saAlrm = "fpspy"
  <2>1. /\ sigalrm_handler(t, FALSE) /\ proc = "up"
        /\ UNCHANGED <<tracked, pc, back, left, file, proc, saFpe, aborted, origRound>>
    BY <1>4 DEF Alarm, AlarmOpen
  <2>2. /\ KeepsContext(t) /\ mc'[t].inTrap = mc[t].inTrap
        /\ uc'[t].rnd = uc[t].rnd /\ (uc' = uc \/ ~uc'[t].dirty)
        /\ \A w \in Threads \ {t} : mc'[w] = mc[w] /\ uc'[w] = uc[w]
    BY <1>0, <2>1, AlarmEffect
  <2>3. OwnInv(t)' /\ Final(t)
    BY <1>0, <2>1, <2>2
    DEF OwnInv, Clean, Unstarted, AbortedOnce, Flushed, Rounded, AtLimit, OneRounding, Unnested,
        KeepsContext, Final, Trace
  <2>4. Only(t) /\ OthersFiles(t) /\ Stays
    BY <2>1, <2>2 DEF Only, OthersFiles, Stays
  <2>5. ASSUME NEW u \in Threads PROVE OwnInv(u)' /\ Final(u)
    BY <2>3, <2>4, SafeBystander DEF Only, OthersFiles
  <2>6. ProcessInv'
    BY <1>0, <2>1 DEF ProcessInv, Booting, OneRounding
  <2> QED
    BY <2>5, <2>6 DEF SafeStep, SafetyInv
<1>5. ASSUME AlarmTrapped(t) PROVE FALSE
  BY <1>5 DEF AlarmTrapped, brk_trap_handler
<1>6. CASE AlarmHangs(t) \/ TrapHangs(t)
  BY <1>6, SafeDie DEF AlarmHangs, TrapHangs
<1> QED
  BY <1>1, <1>2, <1>3, <1>4, <1>5, <1>6 DEF Kernel

LEMMA SafeAbort ==
  ASSUME SafetyInv, TypeOK', NEW t \in Threads, Abort(t) PROVE SafeStep
<1>0. /\ TypeOK /\ ProcessInv /\ OwnInv(t) /\ mc[t] \in Contexts /\ uc[t] \in Registers
      /\ origRound \in Rounds
  BY SafeActing
<1>1. pc[t] \in AbortSteps /\ proc = "up"
  BY DEF Abort, At, AbortRestoreFpe, AbortMark, AbortKick, AbortRestoreTrap, AbortSetAborted,
     AbortSteps
<1>2. "create" \notin Inputs => t = Main
  BY <1>0, <1>1 DEF OwnInv, Unstarted, AbortSteps
<1> USE DEF At, Goto
<1>3. CASE AbortRestoreFpe(t)
  <2>1. /\ pc[t] = "restoreFpe" /\ pc' = [pc EXCEPT ![t] = "mark"] /\ saFpe' = "old"
        /\ UNCHANGED <<mc, tracked, uc, back, left, file, proc, aborted, origRound>>
    BY <1>3 DEF AbortRestoreFpe
  <2>2. pc'[t] = "mark"
    BY <1>0, <2>1 DEF TypeOK
  <2>3. OwnInv(t)' /\ Final(t)
    BY <1>0, <1>2, <2>1, <2>2
    DEF OwnInv, Clean, Unstarted, AbortedOnce, Flushed, Rounded, AtLimit, OneRounding, Unnested,
        AbortSteps, Final, Trace
  <2>4. Only(t) /\ OthersFiles(t) /\ Stays
    BY <1>0, <2>1 DEF Only, OthersFiles, Stays, TypeOK
  <2> QED
    BY <1>0, <1>1, <2>1, <2>2, <2>3, <2>4, SafeCombine DEF ProcessInv
<1>4. CASE AbortMark(t)
  <2> DEFINE m == [mc[t] EXCEPT !.state = "ABORT"]
  <2>1. /\ pc[t] = "mark" /\ pc' = [pc EXCEPT ![t] = "abortKick"]
        /\ UNCHANGED <<tracked, uc, back, left, gvars>>
        /\ IF tracked[t] THEN push_trace_record(t, m, AbortRecord) ELSE UNCHANGED <<mc, file>>
    BY <1>4 DEF AbortMark
  <2>2. m \in Contexts /\ m.buf = mc[t].buf /\ m.inTrap = mc[t].inTrap /\ m.state = "ABORT"
    BY <1>0 DEF Contexts, States
  <2> HIDE DEF m
  <2>3. /\ mc'[t].inTrap = mc[t].inTrap /\ (mc'[t].state = "ABORT" \/ mc'[t] = mc[t])
        /\ (BufLen <= 1 \/ ~CreateMonitorFile) /\ mc[t].buf = <<>> => mc'[t].buf = <<>>
        /\ ~tracked[t] => mc'[t].buf = mc[t].buf
        /\ OthersFiles(t) /\ \A w \in Threads \ {t} : mc'[w] = mc[w]
    <3>1. CASE tracked[t]
      <4>1. AbortRecord \in Nat
        BY DEF AbortRecord
      <4>2. /\ mc'[t].inTrap = m.inTrap /\ mc'[t].state = m.state
            /\ \A w \in Threads \ {t} : mc'[w] = mc[w]
        BY <1>0, <2>1, <2>2, <3>1, <4>1, PushOK
      <4>3. /\ ~CreateMonitorFile => mc'[t].buf = mc[t].buf
            /\ CreateMonitorFile /\ BufLen <= 1 => mc'[t].buf = <<>>
            /\ OthersFiles(t)
        BY <1>0, <2>1, <2>2, <3>1, <4>1, PushEffect DEF OthersFiles
      <4> QED
        BY <2>2, <3>1, <4>2, <4>3, Zenon
    <3>2. CASE ~tracked[t]
      BY <2>1, <3>2 DEF OthersFiles
    <3> QED
      BY <3>1, <3>2
  <2>4. pc'[t] = "abortKick"
    BY <1>0, <2>1 DEF TypeOK
  <2>5. mc[t].state # "ABORT" /\ saFpe = "old"
    BY <1>0, <2>1 DEF OwnInv, AbortedOnce, AbortSteps
  <2>6. OwnInv(t)' /\ Final(t)
    BY <1>0, <1>2, <2>1, <2>3, <2>4, <2>5
    DEF OwnInv, Clean, Unstarted, AbortedOnce, Flushed, Rounded, AtLimit, OneRounding, Unnested,
        AbortSteps, Final, gvars
  <2>7. Only(t) /\ Stays
    BY <1>0, <2>1, <2>3 DEF Only, Stays, TypeOK, gvars
  <2> QED
    BY <1>0, <1>1, <2>1, <2>3, <2>4, <2>6, <2>7, SafeCombine DEF ProcessInv, gvars
<1>5. CASE AbortKick(t)
  <2>1. /\ pc[t] = "abortKick" /\ proc' # "exited"
        /\ UNCHANGED <<mc, tracked, back, left, file, saFpe, aborted, origRound>>
    BY <1>1, <1>5 DEF AbortKick, gvars
  <2>2. \/ UNCHANGED <<uc, pc>>
        \/ /\ pc' = [pc EXCEPT ![t] = "restoreTrap"] /\ uc' = uc
           /\ back[t] # "none" \/ mc[t].inTrap
        \/ /\ pc' = [pc EXCEPT ![t] = "restoreTrap"]
           /\ uc' = [uc EXCEPT ![t] = Quiesce(uc[t])]
    BY <1>0, <1>5 DEF AbortKick, KickNeeded, TypeOK
  <2>3. CASE UNCHANGED <<uc, pc>>
    <3>1. OwnInv(t)' /\ Final(t) /\ Only(t) /\ OthersFiles(t) /\ Stays
      BY <2>1, <2>3, SafeBystander DEF Only, OthersFiles, Stays
    <3> QED
      BY <1>0, <2>1, <2>3, <3>1, SafeCombine DEF ProcessInv
  <2>4. CASE pc' = [pc EXCEPT ![t] = "restoreTrap"]
    <3>1. pc'[t] = "restoreTrap" /\ \A w \in Threads \ {t} : pc'[w] = pc[w]
      BY <1>0, <2>4 DEF TypeOK
    <3>2. /\ uc' = uc \/ ~uc'[t].dirty
          /\ ~ControlRound => uc'[t].rnd = uc[t].rnd
          /\ OneRounding => uc'[t].rnd = "target"
          /\ \A w \in Threads \ {t} : uc'[w] = uc[w]
      <4>1. CASE uc' = [uc EXCEPT ![t] = Quiesce(uc[t])]
        <5>1. uc'[t] = Quiesce(uc[t]) /\ \A w \in Threads \ {t} : uc'[w] = uc[w]
          BY <1>0, <4>1 DEF TypeOK
        <5>2. ~uc'[t].dirty /\ uc'[t].rnd = IF ControlRound THEN origRound ELSE uc[t].rnd
          BY <1>0, <5>1, RegistersEffect
        <5> QED
          BY <1>0, <2>1, <5>1, <5>2 DEF OwnInv, Rounded, ProcessInv
      <4>2. CASE uc' = uc /\ (back[t] # "none" \/ mc[t].inTrap)
        BY <1>0, <2>1, <4>2 DEF OwnInv, Rounded, AbortedOnce, AbortSteps
      <4>3. CASE UNCHANGED <<uc, pc>>
        BY <2>1, <3>1, <4>3
      <4> QED
        BY <2>2, <4>1, <4>2, <4>3
    <3>3. OwnInv(t)' /\ Final(t)
      BY <1>0, <1>2, <2>1, <3>1, <3>2
      DEF OwnInv, Clean, Unstarted, AbortedOnce, Flushed, Rounded, AtLimit, OneRounding, Unnested,
          AbortSteps, Final, Trace
    <3>4. Only(t) /\ OthersFiles(t) /\ Stays
      BY <2>1, <3>1, <3>2 DEF Only, OthersFiles, Stays
    <3> QED
      BY <1>0, <2>1, <3>1, <3>3, <3>4, SafeCombine DEF ProcessInv
  <2> QED
    BY <2>2, <2>3, <2>4
<1>6. CASE AbortRestoreTrap(t) \/ AbortSetAborted(t)
  <2>1. /\ UNCHANGED <<mc, tracked, uc, left, file, proc, saFpe, origRound>>
        /\ \/ /\ pc[t] = "restoreTrap" /\ pc' = [pc EXCEPT ![t] = "setAborted"]
              /\ UNCHANGED <<back, aborted>>
           \/ /\ pc[t] = "setAborted" /\ pc' = [pc EXCEPT ![t] = "user"] /\ aborted'
              /\ back' = [back EXCEPT ![t] = "none"]
    BY <1>0, <1>6 DEF AbortRestoreTrap, AbortSetAborted, Return, OwnInv, Unnested
  <2>2. /\ pc[t] \in {"restoreTrap", "setAborted"}
        /\ \/ pc'[t] = "setAborted" /\ back' = back
           \/ pc'[t] = "user" /\ back'[t] = "none" /\ aborted'
        /\ \A w \in Threads \ {t} : pc'[w] = pc[w] /\ back'[w] = back[w]
    BY <1>0, <2>1 DEF TypeOK
  <2>3. OwnInv(t)' /\ Final(t)
    BY <1>0, <1>2, <2>1, <2>2
    DEF OwnInv, Clean, Unstarted, AbortedOnce, Flushed, Rounded, AtLimit, OneRounding, Unnested,
        AbortSteps, Final, Trace
  <2>4. Only(t) /\ OthersFiles(t) /\ Stays
    BY <2>1, <2>2 DEF Only, OthersFiles, Stays
  <2> QED
    BY <1>0, <1>1, <2>1, <2>2, <2>3, <2>4, SafeCombine DEF ProcessInv
<1> QED
  BY <1>3, <1>4, <1>5, <1>6 DEF Abort

LEMMA SafeBringup ==
  ASSUME SafetyInv, TypeOK', Boot \/ Install PROVE SafeStep
<1>0. /\ Main \in Threads /\ TypeOK /\ ProcessInv /\ OwnInv(Main)
      /\ \A t \in Threads : OwnInv(t)
  BY ConstantsAssumption DEF SafetyInv
<1>1. Booting /\ ~aborted /\ \A t \in Threads \ {Main} : pc[t] = "unborn"
  BY <1>0 DEF Boot, Install, Booting, ProcessInv
<1>2. CASE Boot
  <2>1. /\ NewContext(Main) /\ pc[Main] = "boot" /\ pc' = [pc EXCEPT ![Main] = "install"]
        /\ UNCHANGED <<uc, back, left, file, proc, saFpe, aborted, origRound>> /\ proc = "up"
    BY <1>2 DEF Boot
  <2>2. /\ mc'[Main].state = "INIT" /\ ~mc'[Main].inTrap /\ tracked'[Main]
        /\ mc'[Main].buf = <<>> /\ mc'[Main].count = 0
        /\ \A w \in Threads \ {Main} : mc'[w] = mc[w] /\ tracked'[w] = tracked[w]
    BY <1>0, <2>1, NewContextEffect
  <2>3. pc'[Main] = "install" /\ \A w \in Threads \ {Main} : pc'[w] = pc[w]
    BY <1>0, <2>1 DEF TypeOK
  <2>4. mc[Main].state = "INIT"
    BY <1>0, <2>1 DEF OwnInv, Unstarted
  <2>5. OwnInv(Main)' /\ Final(Main)
    BY <1>0, <2>1, <2>2, <2>3, <2>4
    DEF OwnInv, Clean, Unstarted, AbortedOnce, Flushed, Rounded, AtLimit, OneRounding, Unnested,
        AbortSteps, Final
  <2>6. ASSUME NEW u \in Threads PROVE OwnInv(u)' /\ Final(u)
    BY <2>1, <2>2, <2>3, <2>5, SafeBystander DEF Stays
  <2>7. ProcessInv'
    BY <1>0, <1>1, <2>1, <2>3 DEF ProcessInv, OneRounding
  <2> QED
    BY <2>6, <2>7 DEF SafeStep, SafetyInv
<1>3. CASE Install
  <2>1. /\ pc[Main] = "install" /\ proc = "up" /\ proc' = proc
        /\ pc' = [pc EXCEPT ![Main] = IF KickStart THEN "user" ELSE "kick"]
        /\ UNCHANGED <<mc, tracked, uc, back, left, file, aborted, origRound>>
    BY <1>3 DEF Install
  <2>2. pc'[Main] \in {"user", "kick"} /\ \A w \in Threads \ {Main} : pc'[w] = pc[w]
    BY <1>0, <2>1 DEF TypeOK
  <2>3. ASSUME NEW u \in Threads PROVE OwnInv(u)' /\ Final(u)
    <3>1. mc[u].state = "INIT" /\ ~mc[u].inTrap /\ pc'[u] \in {"user", "kick", "unborn"}
          /\ (u # Main => pc'[u] = "unborn")
      BY <1>0, <1>1, <2>1, <2>2 DEF OwnInv, Unstarted
    <3>2. OwnInv(u)
      BY <1>0
    <3> QED
      BY <1>1, <2>1, <2>2, <3>1, <3>2
      DEF OwnInv, Clean, Unstarted, AbortedOnce, Flushed, Rounded, AtLimit, OneRounding, Unnested,
          AbortSteps, Final
  <2>4. ~Booting'
    BY <2>2 DEF Booting
  <2>5. ProcessInv'
    BY <1>0, <2>1, <2>2, <2>4 DEF ProcessInv, OneRounding
  <2> QED
    BY <2>3, <2>5 DEF SafeStep, SafetyInv
<1> QED
  BY <1>2, <1>3

LEMMA SafeTramp ==
  ASSUME SafetyInv, TypeOK', NEW t \in Threads, Tramp(t) PROVE SafeStep
<1>0. TypeOK /\ ProcessInv /\ OwnInv(t) /\ mc[t] \in Contexts /\ uc[t] \in Registers
  BY SafeActing
<1>1. /\ pc[t] = "tramp" /\ UNCHANGED <<back, left, file, saFpe, aborted, origRound>>
      /\ uc' = [uc EXCEPT ![t] = arch_clear_fp_exceptions(uc[t])]
      /\ proc = "up" /\ proc' = proc
  BY DEF Tramp
<1>2. uc'[t].rnd = uc[t].rnd /\ ~uc'[t].dirty /\ \A w \in Threads \ {t} : uc'[w] = uc[w]
  BY <1>0, <1>1 DEF TypeOK, arch_clear_fp_exceptions, Registers
<1>3. /\ mc[t].state = "INIT" /\ ~mc[t].inTrap /\ ~tracked[t] /\ mc[t].buf = <<>>
      /\ mc[t].count = 0
      /\ "create" \notin Inputs => t = Main
  BY <1>0, <1>1 DEF OwnInv, Unstarted, Flushed
<1>4. /\ mc'[t].state = "INIT" /\ ~mc'[t].inTrap /\ mc'[t].buf = <<>> /\ mc'[t].count = 0
      /\ \A w \in Threads \ {t} :
           mc'[w] = mc[w] /\ tracked'[w] = tracked[w] /\ pc'[w] = pc[w]
      /\ pc'[t] \in {"kick", "user"}
  <2>1. CASE NewContext(t) /\ pc' = [pc EXCEPT ![t] = "kick"]
    BY <1>0, <2>1, NewContextEffect DEF TypeOK
  <2>2. CASE pc' = [pc EXCEPT ![t] = "user"] /\ UNCHANGED <<tracked, mc>>
    BY <1>0, <1>3, <2>2 DEF TypeOK
  <2> QED
    BY <2>1, <2>2 DEF Tramp
<1>5. OwnInv(t)' /\ Final(t)
  BY <1>0, <1>1, <1>2, <1>3, <1>4
  DEF OwnInv, Clean, Unstarted, AbortedOnce, Flushed, Rounded, AtLimit, OneRounding, Unnested,
      AbortSteps, Final
<1>6. Only(t) /\ OthersFiles(t) /\ Stays
  BY <1>1, <1>2, <1>4 DEF Only, OthersFiles, Stays
<1> QED
  BY <1>0, <1>1, <1>4, <1>5, <1>6, SafeCombine DEF ProcessInv

LEMMA SafetyInit == Init => SafetyInv
<1> SUFFICES ASSUME Init PROVE SafetyInv
  OBVIOUS
<1>1. TypeOK
  BY TypeInit
<1>2. ProcessInv
  BY ConstantsAssumption DEF Init, ProcessInv, Booting
<1>3. ASSUME NEW t \in Threads PROVE OwnInv(t)
  <2>1. mc[t] = FreshContext(FALSE)
    BY DEF Init
  <2>2. mc[t].state = "INIT" /\ ~mc[t].inTrap /\ mc[t].buf = <<>> /\ mc[t].count = 0
    BY <2>1 DEF FreshContext
  <2>3. /\ ~tracked[t] /\ ~uc[t].dirty /\ uc[t].rnd = "target"
        /\ pc[t] = (IF t = Main THEN "boot" ELSE "unborn") /\ back[t] = "none"
    BY DEF Init
  <2> QED
    BY <2>2, <2>3
    DEF OwnInv, Clean, Unstarted, AbortedOnce, Flushed, Rounded, AtLimit, OneRounding, Unnested,
        AbortSteps
<1> QED
  BY <1>1, <1>2, <1>3 DEF SafetyInv

LEMMA SafetyNext == ASSUME SafetyInv, ~nested', [Next]_vars PROVE SafeStep
<1>0. TypeOK'
  BY TypeNext DEF SafetyInv
<1>1. CASE Boot \/ Install
  BY <1>0, <1>1, SafeBringup
<1>2. ASSUME NEW t \in Threads, Target(t) PROVE SafeStep
  BY <1>0, <1>2, SafeTarget
<1>3. ASSUME NEW t \in Threads, Kernel(t) PROVE SafeStep
  BY <1>0, <1>3, SafeKernel
<1>4. ASSUME NEW t \in Threads, Tramp(t) PROVE SafeStep
  BY <1>0, <1>4, SafeTramp
<1>5. ASSUME NEW t \in Threads, Kick(t) PROVE SafeStep
  <2>1. uc[t] \in Registers /\ pend \in BOOLEAN
    BY DEF SafetyInv, TypeOK
  <2> QED
    BY <1>0, <1>5, <2>1, SafeTrap DEF Kick
<1>6. ASSUME NEW t \in Threads, Abort(t) PROVE SafeStep
  BY <1>0, <1>6, SafeAbort
<1>7. CASE UNCHANGED vars
  BY <1>0, <1>7, SafeStill DEF vars, gvars
<1>8. ASSUME NEW t \in Threads, AlarmResumes(t) PROVE FALSE
  <2>1. pc[t] \in AlarmSteps /\ OwnInv(t)
    BY <1>8, SafeActing DEF AlarmResumes
  <2> QED
    BY <2>1 DEF OwnInv, Unnested, AlarmSteps
<1>9. CASE BootFails
  BY <1>0, <1>9, SafeDie DEF BootFails
<1> QED
  BY <1>1, <1>2, <1>3, <1>4, <1>5, <1>6, <1>7, <1>8, <1>9 DEF Next, Terminated

LEMMA SafetyAlways == Spec => [](~nested => SafetyInv)
<1>1. ASSUME ~nested => SafetyInv, [Next]_vars PROVE (~nested => SafetyInv)'
  BY <1>1, SafetyNext, NestedStays DEF SafeStep
<1> QED
  BY <1>1, SafetyInit, PTL DEF Spec

-----------------------------------------------------------------------------
(* The theorems.                                                           *)

(* A step that sets t's registers to ones without sticky flags, or masked. *)
Cleaned(t, v) == uc' = [uc EXCEPT ![t] = v] /\ (v.mask \/ ~v.dirty)
CleanStep == uc' = uc \/ \E t \in Threads, v \in Registers : Cleaned(t, v)

LEMMA EditClean ==
  ASSUME NEW t \in Threads, NEW v \in Registers, NEW b, v.mask \/ ~v.dirty, uc' = Edited(t, b, v)
  PROVE  CleanStep
BY DEF Edited, CleanStep, Cleaned

LEMMA HandlersClean ==
  ASSUME TypeOK, NEW t \in Threads
  PROVE  /\ \A m \in Contexts, u \in Registers : \A b : update_sampler(t, m, u, b) => CleanStep
         /\ \A u \in Registers : \A b, a : brk_trap_handler(t, u, b, a) => CleanStep
         /\ \A j \in {"fp", "intdiv"} : \A n : Fault(t, j, n) => CleanStep
<1>0. mc[t] \in Contexts /\ uc[t] \in Registers /\ origRound \in Rounds
  BY DEF TypeOK
<1>1. ASSUME NEW m \in Contexts, NEW u \in Registers, NEW b, update_sampler(t, m, u, b)
      PROVE  CleanStep
  <2>1. FlipTraps(m, u) \in Registers /\ ~FlipTraps(m, u).dirty
    BY <1>0, FlipTrapsOK, RegistersEffect
  <2> QED
    BY <1>1, <2>1, EditClean DEF update_sampler
<1>2. ASSUME NEW u \in Registers, NEW b, NEW a, brk_trap_handler(t, u, b, a) PROVE CleanStep
  <2>1. /\ Watch(u) \in Registers /\ ~Watch(u).dirty
        /\ Quiesce(u) \in Registers /\ ~Quiesce(u).dirty
    BY <1>0, WatchOK, QuiesceOK, RegistersEffect
  <2>2. CASE BrkInit(t, u, b, a)
    BY <2>1, <2>2, EditClean DEF BrkInit
  <2>3. CASE BrkStepped(t, u, b, a)
    <3> DEFINE m == Counted(mc[t])
    <3> DEFINE v == IF LimitReached(m.count) THEN Quiesce(u) ELSE Watch(u)
    <3>1. m \in Contexts /\ v \in Registers /\ ~v.dirty
      BY <1>0, <2>1, CountedOK
    <3>2. update_sampler(t, m, v, b) \/ uc' = Edited(t, b, v)
      BY <2>3 DEF BrkStepped
    <3> HIDE DEF m, v
    <3> QED
      BY <1>1, <3>1, <3>2, EditClean
  <2>4. CASE BrkAborted(t, u, b, a)
    BY <2>1, <2>4, EditClean DEF BrkAborted
  <2>5. CASE BrkSurprise(t, u, b, a)
    BY <2>1, <2>5, EditClean DEF BrkSurprise
  <2> QED
    BY <1>2, <2>2, <2>3, <2>4, <2>5 DEF brk_trap_handler
<1>3. ASSUME NEW j \in {"fp", "intdiv"}, NEW n, Fault(t, j, n) PROVE CleanStep
  <2> DEFINE u == [uc[t] EXCEPT !.insn = j, !.dirty = @ \/ j = "fp"]
  <2>1. u \in Registers
    BY <1>0 DEF Registers
  <2>2. uc' = [uc EXCEPT ![t] = StepOver(u)] \/ uc' = [uc EXCEPT ![t] = Quiesce(u)]
    BY <1>3 DEF Fault
  <2> HIDE DEF u
  <2>3. StepOver(u) \in Registers /\ Quiesce(u) \in Registers
        /\ ~StepOver(u).dirty /\ ~Quiesce(u).dirty
    BY <1>0, <2>1, StepOverOK, QuiesceOK, RegistersEffect
  <2> QED
    BY <2>2, <2>3 DEF CleanStep, Cleaned
<1> QED
  BY <1>1, <1>2, <1>3

LEMMA StepsClean ==
  ASSUME TypeOK, \A t \in Threads : Clean(t), [Next]_vars
  PROVE  CleanStep \/ \E t, w \in Threads : uc' = [uc EXCEPT ![w] = uc[t]]
<1>0. \A t \in Threads : mc[t] \in Contexts /\ uc[t] \in Registers
  BY DEF TypeOK
<1>1. ASSUME NEW f, Die(f) PROVE CleanStep
  BY <1>1 DEF Die, tvars, CleanStep
<1>2. ASSUME NEW t \in Threads, NEW u \in Registers, NEW p, NEW b, SigTrap(t, u, p, b)
      PROVE  CleanStep
  BY <1>1, <1>2, HandlersClean DEF SigTrap
<1>3. ASSUME NEW t \in Threads, NEW j \in {"fp", "intdiv"}, NEW n, fp_trap_handler(t, j, n)
      PROVE  CleanStep
  BY <1>1, <1>3, HandlersClean DEF fp_trap_handler
<1>4. HandlerRegisters \in Registers /\ ~HandlerRegisters.dirty
  BY DEF HandlerRegisters, Registers, Rounds
<1>5. ASSUME NEW t \in Threads
      PROVE  /\ Executed(t) \in Registers /\ Executed(t).mask = uc[t].mask
             /\ arch_clear_fp_exceptions(uc[t]) \in Registers
             /\ ~arch_clear_fp_exceptions(uc[t]).dirty
             /\ arch_clear_fp_exceptions(arch_mask_fp_traps(uc[t])) \in Registers
             /\ arch_clear_fp_exceptions(arch_mask_fp_traps(uc[t])).mask
             /\ Quiesce(uc[t]) \in Registers /\ Quiesce(uc[t]).mask
  <2>1. uc[t] \in Registers /\ origRound \in Rounds
    BY DEF TypeOK
  <2> QED
    BY <2>1, QuiesceOK DEF Executed, arch_clear_fp_exceptions, arch_mask_fp_traps, Registers
<1>6. ASSUME NEW t \in Threads, Target(t)
      PROVE  CleanStep \/ \E w \in Threads : uc' = [uc EXCEPT ![w] = uc[t]]
  <2>1. CASE FpTraps(t) \/ IntDivTraps(t)
    BY <1>1, <1>3, <2>1 DEF FpTraps, IntDivTraps
  <2>2. CASE FpSilent(t)
    BY <1>5, <2>2 DEF FpSilent, CleanStep, Cleaned
  <2>3. CASE TargetConflict(t)
    BY <1>5, <2>3 DEF TargetConflict, CleanStep, Cleaned
  <2>4. CASE ThreadExit(t) \/ ProcessExit(t) \/ Interrupted(t)
    BY <2>4 DEF ThreadExit, ProcessExit, Interrupted, CleanStep
  <2>5. CASE ThreadEnd(t)
    BY <1>4, <2>5 DEF ThreadEnd, CleanStep, Cleaned
  <2>6. CASE \E w \in Threads : Create(t, w)
    BY <2>6 DEF Create
  <2> QED
    BY <1>6, <2>1, <2>2, <2>3, <2>4, <2>5, <2>6 DEF Target
<1>7. ASSUME NEW t \in Threads, NEW a, sigalrm_handler(t, a) PROVE CleanStep
  BY <1>0, <1>7, HandlersClean DEF sigalrm_handler, Defer, CleanStep
<1>8. ASSUME NEW t \in Threads, Kernel(t) PROVE CleanStep
  <2>1. CASE FpStepped(t)
    BY <1>2, <1>5, <2>1 DEF FpStepped
  <2>2. CASE DeliverTrap(t)
    BY <1>0, <1>2, <1>4, <2>2 DEF DeliverTrap
  <2>3. CASE Alarm(t)
    BY <1>1, <1>7, <2>3 DEF Alarm
  <2>4. CASE AlarmTrapped(t)
    BY <1>4, <2>4, HandlersClean DEF AlarmTrapped
  <2>5. CASE AlarmHangs(t) \/ TrapHangs(t)
    BY <1>1, <2>5 DEF AlarmHangs, TrapHangs
  <2> QED
    BY <1>8, <2>1, <2>2, <2>3, <2>4, <2>5 DEF Kernel
<1>9. ASSUME NEW t \in Threads, AlarmResumes(t) PROVE CleanStep
  <2>1. \/ \E a : sigalrm_handler(t, a)
        \/ Defer(t)
        \/ update_sampler(t, mc[t], uc[t], "user")
    BY <1>9 DEF AlarmResumes, AlarmSteps
  <2> QED
    BY <1>0, <1>7, <2>1, HandlersClean DEF Defer, CleanStep
<1>10. ASSUME NEW t \in Threads, Tramp(t) \/ Kick(t) \/ Abort(t) PROVE CleanStep
  <2>1. CASE Tramp(t)
    BY <1>5, <2>1 DEF Tramp, CleanStep, Cleaned
  <2>2. CASE Kick(t)
    BY <1>0, <1>2, <2>2 DEF Kick
  <2>3. CASE Abort(t)
    BY <1>5, <2>3
    DEF Abort, AbortRestoreFpe, AbortMark, AbortKick, AbortRestoreTrap, AbortSetAborted,
        CleanStep, Cleaned
  <2> QED
    BY <1>10, <2>1, <2>2, <2>3
<1>11. CASE Boot \/ BootFails \/ Install \/ UNCHANGED vars
  BY <1>1, <1>11 DEF Boot, BootFails, Install, vars, tvars, CleanStep
<1> QED
  BY <1>6, <1>8, <1>9, <1>10, <1>11 DEF Next, Terminated

(* No sticky exception flag is left over when a monitored thread's traps   *)
(* are unmasked, so a record shows its own instruction's exceptions: every *)
(* unmask in the handlers follows an arch_clear_fp_exceptions(), with any  *)
(* threads, sampler, limit and inputs, and whatever code the handlers      *)
(* interrupt.                                                              *)
THEOREM FlagsAreAlwaysOwn == Spec => []RecordsShowOwnFlags
<1> DEFINE AllClean == TypeOK /\ \A t \in Threads : Clean(t)
<1>1. Init => AllClean
  BY TypeInit DEF Init, Clean
<1>2. ASSUME AllClean, [Next]_vars PROVE AllClean'
  <2>1. TypeOK'
    BY <1>2, TypeNext
  <2>2. ASSUME NEW u \in Threads PROVE Clean(u)'
    BY <1>2, StepsClean DEF CleanStep, Cleaned, Clean, TypeOK
  <2> QED
    BY <2>1, <2>2
<1>3. AllClean => RecordsShowOwnFlags
  BY DEF Clean, RecordsShowOwnFlags
<1> QED
  BY <1>1, <1>2, <1>3, PTL DEF Spec

(* After abort_operation() has marked a context ABORT, nothing is counted  *)
(* or recorded for it: SIGFPE was given back before the mark, so           *)
(* fp_trap_handler() never sees the context again, and brk_trap_handler()  *)
(* only quiesces.  A SIGTRAP that interrupts an abort_operation() called   *)
(* by a wrapper can start a second one that marks the context first, so    *)
(* this is for the executions in which none interrupts FPSpy's own code.   *)
THEOREM AbortIsAlwaysFinal == Spec /\ []~nested => AbortIsFinal
<1> DEFINE Mark == \A t \in Threads : mc[t].state = "ABORT" /\ pc[t] # "tramp" =>
                    mc'[t].state = "ABORT" /\ mc'[t].count = mc[t].count /\ Trace(t)' = Trace(t)
<1>1. SafetyInv /\ ~nested' /\ [Next]_vars => [Mark]_vars
  BY SafetyNext DEF SafeStep, Final
<1>2. [][Mark]_vars <=> AbortIsFinal
  BY PTL DEF AbortIsFinal
<1> QED
  BY <1>1, <1>2, SafetyAlways, PTL DEF Spec

(* When the process exits, no record is left in a buffer: fpspy_deinit()   *)
(* flushes the thread that runs it, so this needs one thread, a buffer     *)
(* that is written with every record, or no trace at all; and no SIGTRAP   *)
(* that has interrupted FPSpy's own code.                                  *)
THEOREM NothingIsLost ==
  ASSUME "create" \notin Inputs \/ BufLen <= 1 \/ ~CreateMonitorFile
  PROVE  Spec => [](~nested => NothingLost)
<1>1. SafetyInv => NothingLost
  <2> SUFFICES ASSUME SafetyInv, proc = "exited", NEW t \in Threads PROVE mc[t].buf = <<>>
    BY DEF NothingLost
  <2>1. CASE BufLen <= 1 \/ ~CreateMonitorFile
    BY <2>1 DEF SafetyInv, OwnInv, Flushed
  <2>2. CASE "create" \notin Inputs
    <3>1. ~tracked[t]
      BY <2>2 DEF SafetyInv, ProcessInv, OwnInv, Unstarted
    <3> QED
      BY <3>1 DEF SafetyInv, OwnInv, Flushed
  <2> QED
    BY <2>1, <2>2
<1> QED
  BY <1>1, SafetyAlways, PTL

(* A thread that has aborted or has reached its event limit rounds as the  *)
(* target did before FPSpy.  With several threads and forced rounding this *)
(* fails: orig_round_config is one variable of the process, and a created  *)
(* thread inherits FPSpy's mode and overwrites it.                         *)
THEOREM RoundingIsRestored ==
  ASSUME ~ControlRound \/ "create" \notin Inputs PROVE Spec => []RoundingRestored
<1>1. (~nested => SafetyInv) => RoundingRestored
  BY DEF SafetyInv, OwnInv, Rounded, AtLimit, Over, OneRounding, RoundingRestored
<1> QED
  BY <1>1, SafetyAlways, PTL

=============================================================================
