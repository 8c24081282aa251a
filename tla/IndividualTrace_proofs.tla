----------------------- MODULE IndividualTrace_proofs -----------------------
(***************************************************************************)
(* Proofs about individual mode, continued: the trace of every thread is   *)
(* exactly its sampled events, and the handlers implement the abstract     *)
(* event log.                                                              *)
(*                                                                         *)
(* Three things the code does are excluded by hypothesis.  An integer      *)
(* division error is a SIGFPE that stepping over does not get past, so it  *)
(* is recorded again and again.  Without a trace file there is no trace.   *)
(* A process started by SIGTRAP (KickStart) may take it in the middle of   *)
(* FPSpy's own code, or in a thread that waits for a SIGFPE.               *)
(***************************************************************************)
EXTENDS IndividualSafety_proofs

Traceable ==
  /\ "intdiv" \notin Inputs
  /\ CreateMonitorFile
  /\ ~KickStart

-----------------------------------------------------------------------------
(* Sampling: what one more event adds to SampledUpTo.                      *)

LEMMA DivRem ==
  ASSUME NEW P \in Nat \ {0}, NEW n \in Nat
  PROVE  n \div P \in Nat /\ n % P \in 0..(P - 1) /\ n = P * (n \div P) + (n % P)
OBVIOUS

LEMMA NextMultiple ==
  ASSUME NEW P \in Nat \ {0}, NEW a \in Nat, NEW b \in Nat, a < b
  PROVE  P * b >= P * a + P
<1> DEFINE d == b - a - 1
<1>1. d \in Nat /\ b = a + 1 + d
  OBVIOUS
<1> HIDE DEF d
<1>2. P * b = P * a + P + P * d
  BY <1>1
<1>3. P * d >= 0 /\ P * a \in Int /\ P * d \in Int
  BY <1>1
<1> DEFINE x == P * a
<1> DEFINE z == P * d
<1> HIDE DEF x, z
<1> QED
  BY <1>2, <1>3 DEF x, z

LEMMA DivUnique ==
  ASSUME NEW P \in Nat \ {0}, NEW q \in Nat, NEW r \in 0..(P - 1), NEW n \in Nat,
         n = P * q + r
  PROVE  n \div P = q
<1> DEFINE k == n \div P
<1> DEFINE m == n % P
<1>1. k \in Nat /\ m \in 0..(P - 1) /\ n = P * k + m
  BY DivRem
<1> HIDE DEF k, m
<1>2. ASSUME NEW a \in Nat, NEW b \in Nat, a < b, NEW i \in 0..(P - 1), NEW j \in 0..(P - 1)
      PROVE  P * a + i # P * b + j
  <2> DEFINE x == P * a
  <2> DEFINE y == P * b
  <2>1. x \in Int /\ y \in Int /\ y >= x + P
    BY <1>2, NextMultiple
  <2> HIDE DEF x, y
  <2>2. x + i # y + j
    BY <2>1
  <2> QED
    BY <2>2 DEF x, y
<1>3. ~(k < q) /\ ~(q < k)
  BY <1>1, <1>2
<1> QED
  BY <1>1, <1>3 DEF k

(* The next event is the next of the sample when the events so far are a   *)
(* multiple of the period, and is left out otherwise.                      *)
LEMMA SampleGrows ==
  ASSUME NEW n \in Nat
  PROVE  SampledUpTo(n + 1) = IF n % SamplePeriod = 0 THEN Append(SampledUpTo(n), n + 1)
                              ELSE SampledUpTo(n)
<1> DEFINE P == SamplePeriod
<1> DEFINE q == n \div P
<1> DEFINE r == n % P
<1> DEFINE elt(k) == (k - 1) * P + 1
<1>0. P \in Nat \ {0}
  BY ConstantsAssumption
<1> HIDE DEF P
<1>1. q \in Nat /\ r \in 0..(P - 1) /\ n = P * q + r
  BY <1>0, DivRem
<1>2. SampledUpTo(n) = [k \in 1..((n + P - 1) \div P) |-> elt(k)]
  BY DEF SampledUpTo, P
<1>3. SampledUpTo(n + 1) = [k \in 1..((n + 1 + P - 1) \div P) |-> elt(k)]
  BY DEF SampledUpTo, P
<1>4. P * (q + 1) = P * q + P /\ P * q \in Nat
  BY <1>0, <1>1
<1>5. elt(q + 1) = q * P + 1
  <2> HIDE DEF q
  <2> QED
    BY <1>0, <1>1
<1> DEFINE x == P * q
<1> HIDE DEF q, r, elt
<1>6. (n + 1 + P - 1) \div P = q + 1
  <2>1. n + 1 + P - 1 = P * (q + 1) + r /\ n + 1 + P - 1 \in Nat
    <3> HIDE DEF x
    <3>1. n = x + r /\ x \in Nat /\ P * (q + 1) = x + P
      BY <1>1, <1>4 DEF x
    <3> QED
      BY <1>0, <1>1, <3>1
  <2> QED
    BY <1>0, <1>1, <2>1, DivUnique
<1>7. CASE r = 0
  <2>1. (n + P - 1) \div P = q
    <3>1. n + P - 1 = P * q + (P - 1) /\ n + P - 1 \in Nat /\ P - 1 \in 0..(P - 1)
      <4>1. n = x /\ x \in Nat
        BY <1>1, <1>4, <1>7
      <4> HIDE DEF x
      <4>2. n + P - 1 = x + (P - 1) /\ n + P - 1 \in Nat /\ P - 1 \in 0..(P - 1)
        BY <1>0, <4>1
      <4> QED
        BY <4>2 DEF x
    <3> QED
      BY <1>0, <1>1, <3>1, DivUnique
  <2>2. elt(q + 1) = n + 1
    <3>1. q * P = P * q
      BY <1>0, <1>1
    <3>2. n = P * q
      BY <1>1, <1>4, <1>7
    <3> QED
      BY <1>5, <3>1, <3>2
  <2>3. SampledUpTo(n) = [k \in 1..q |-> elt(k)]
    BY <1>2, <2>1
  <2>4. SampledUpTo(n + 1) = [k \in 1..(q + 1) |-> elt(k)]
    BY <1>3, <1>6
  <2>5. [k \in 1..(q + 1) |-> elt(k)] = Append([k \in 1..q |-> elt(k)], elt(q + 1))
    BY <1>1
  <2> QED
    BY <1>7, <2>2, <2>3, <2>4, <2>5 DEF r, P
<1>8. CASE r # 0
  <2>1. (n + P - 1) \div P = q + 1
    <3>1. n + P - 1 = P * (q + 1) + (r - 1) /\ n + P - 1 \in Nat /\ r - 1 \in 0..(P - 1)
      <4>1. n = x + r /\ x \in Nat /\ P * (q + 1) = x + P
        BY <1>1, <1>4
      <4> HIDE DEF x
      <4> QED
        BY <1>0, <1>1, <1>8, <4>1
    <3> QED
      BY <1>0, <1>1, <3>1, DivUnique
  <2> QED
    BY <1>2, <1>3, <1>6, <1>8, <2>1 DEF r, P
<1> QED
  BY <1>7, <1>8

LEMMA SampleInSeq == ASSUME NEW n \in Nat PROVE SampledUpTo(n) \in Seq(Nat)
<1> DEFINE P == SamplePeriod
<1> DEFINE N == (n + P - 1) \div P
<1>0. P \in Nat \ {0}
  BY ConstantsAssumption
<1> HIDE DEF P
<1>1. N \in Nat
  <2>1. n + P - 1 \in Nat
    BY <1>0
  <2> QED
    BY <1>0, <2>1, DivRem
<1> HIDE DEF N
<1>2. \A k \in 1..N : (k - 1) * P + 1 \in Nat
  BY <1>0, <1>1
<1>3. SampledUpTo(n) = [k \in 1..N |-> (k - 1) * P + 1]
  BY DEF SampledUpTo, N, P
<1> QED
  BY <1>1, <1>2, <1>3

LEMMA NoSample == SampledUpTo(0) = <<>>
<1> DEFINE P == SamplePeriod
<1>0. P \in Nat \ {0}
  BY ConstantsAssumption
<1> HIDE DEF P
<1>1. (0 + P - 1) \div P = 0
  BY <1>0, DivUnique
<1>2. SampledUpTo(0) = [k \in 1..((0 + P - 1) \div P) |-> (k - 1) * P + 1]
  BY DEF SampledUpTo, P
<1> QED
  BY <1>1, <1>2

-----------------------------------------------------------------------------
(* The parts of the invariant, for a thread t.                             *)

(* The events t's context has seen, the one it is stepping over included.  *)
Events(t) == mc[t].count + IF mc[t].state = "AWAIT_TRAP" THEN 1 ELSE 0

(* The history counts what the context counts, from 0.                     *)
Counting(t) ==
  /\ seen[t] = Events(t)
  /\ pc[t] \in {"unborn", "boot", "tramp"} => mc[t].count = 0

(* While the process runs, a thread is at a faulted instruction exactly    *)
(* when it steps over it, monitored and in the target's code.              *)
Stepping(t) ==
  proc = "up" =>
    IF mc[t].state = "AWAIT_TRAP"
    THEN tracked[t] /\ pc[t] = "user" /\ uc[t].mask /\ uc[t].tf /\ uc[t].insn = "fp"
    ELSE uc[t].insn = "none" /\ ~uc[t].tf

(* A monitored thread has left INIT when it reaches the target's code, and *)
(* only the target's own calls abort.                                      *)
Begun(t) ==
  /\ pc[t] \in {"install", "kick"} => tracked[t]
  /\ tracked[t] /\ mc[t].state = "INIT" => pc[t] \in {"install", "kick"}
  /\ back[t] = "none"

(* No SIGTRAP is ever pending, so that none interrupts FPSpy's own code.   *)
NonePending == ~pend /\ ~nested

LogInv == SafetyInv /\ NonePending /\ \A t \in Threads : Counting(t) /\ Stepping(t) /\ Begun(t)

(* The trace of t is the sample of its events, and the abort record.       *)
Exact(t) ==
  Trace(t) = SampledUpTo(Events(t)) \o IF mc[t].state = "ABORT" THEN <<AbortRecord>> ELSE <<>>

-----------------------------------------------------------------------------
(* What a step does to the log of thread t.                                *)

Quiet(t) ==
  /\ Trace(t)' = Trace(t) /\ Events(t)' = Events(t)
  /\ mc'[t].state = "ABORT" <=> mc[t].state = "ABORT"
Observed(t) ==
  /\ mc[t].state # "ABORT" /\ mc'[t].state # "ABORT"
  /\ Events(t)' = Events(t) + 1
  /\ Trace(t)' = IF Events(t) % SamplePeriod = 0 THEN Append(Trace(t), Events(t) + 1)
                 ELSE Trace(t)
GivenUp(t) ==
  /\ mc[t].state # "ABORT" /\ mc'[t].state = "ABORT"
  /\ Events(t)' = Events(t) /\ Trace(t)' = Append(Trace(t), AbortRecord)

LogStepOf(t) ==
  /\ Quiet(t) \/ Observed(t) \/ GivenUp(t)
  /\ \A u \in Threads \ {t} : Quiet(u)
LogStep == LogInv' /\ \E t \in Threads : LogStepOf(t)

Mine(t) == Counting(t) /\ Stepping(t) /\ Begun(t)
OthersSeen(t) == \A u \in Threads \ {t} : seen'[u] = seen[u]

LEMMA LogBystander ==
  ASSUME LogInv, NEW u \in Threads, mc'[u] = mc[u], tracked'[u] = tracked[u],
         uc'[u] = uc[u], pc'[u] = pc[u], back'[u] = back[u], file'[u] = file[u],
         seen'[u] = seen[u], proc' = "up" => proc = "up"
  PROVE  Mine(u)' /\ Quiet(u)
<1>1. Mine(u)
  BY DEF LogInv, Mine
<1>2. Events(u)' = Events(u)
  BY DEF Events
<1>3. Mine(u)'
  BY <1>1, <1>2 DEF Mine, Counting, Stepping, Begun
<1>4. Quiet(u)
  BY <1>2 DEF Quiet, Trace
<1> QED
  BY <1>3, <1>4

LEMMA LogCombine ==
  ASSUME LogInv, SafetyInv', NEW t \in Threads, Only(t), OthersFiles(t), OthersSeen(t),
         proc' = "up" => proc = "up", NonePending', Mine(t)',
         Quiet(t) \/ Observed(t) \/ GivenUp(t)
  PROVE  LogStep
<1>1. ASSUME NEW u \in Threads \ {t} PROVE Mine(u)' /\ Quiet(u)
  BY <1>1, LogBystander DEF Only, OthersFiles, OthersSeen
<1>2. LogStepOf(t)
  BY <1>1 DEF LogStepOf
<1>3. \A u \in Threads : Mine(u)'
  BY <1>1
<1>4. LogInv'
  BY <1>3 DEF LogInv, Mine
<1> QED
  BY <1>2, <1>4 DEF LogStep

(* Nothing of the threads or the logs changes.                             *)
LEMMA LogStill ==
  ASSUME LogInv, SafetyInv', UNCHANGED <<tvars, pend, nested>>, proc' = "up" => proc = "up"
  PROVE  LogStep
<1>1. ASSUME NEW u \in Threads PROVE Mine(u)' /\ Quiet(u)
  BY LogBystander DEF tvars
<1>2. NonePending'
  BY DEF LogInv, NonePending, tvars
<1>3. LogInv'
  BY <1>1, <1>2 DEF LogInv, Mine
<1> QED
  BY <1>1, <1>3, ConstantsAssumption DEF LogStep, LogStepOf

LEMMA LogDie ==
  ASSUME LogInv, SafetyInv', NEW f, f # "up", Die(f) PROVE LogStep
BY LogStill DEF Die

LEMMA LogActing ==
  ASSUME LogInv, NEW t \in Threads
  PROVE  /\ SafetyInv /\ TypeOK /\ OwnInv(t) /\ Mine(t) /\ NonePending
         /\ mc[t] \in Contexts /\ uc[t] \in Registers /\ origRound \in Rounds
         /\ mc[t].count \in Nat /\ mc[t].state \in States /\ seen[t] \in Nat
         /\ Main \in Threads
<1>1. mc[t] \in Contexts /\ uc[t] \in Registers /\ seen[t] \in Nat /\ origRound \in Rounds
  BY DEF LogInv, SafetyInv, TypeOK
<1>2. mc[t].count \in Nat /\ mc[t].state \in States
  BY <1>1 DEF Contexts
<1> QED
  BY <1>1, <1>2, ConstantsAssumption DEF LogInv, SafetyInv, Mine

(* A SIGTRAP that arrives where one is awaited: in INIT, AWAIT_TRAP or     *)
(* ABORT, never in AWAIT_FPE or without a context.                         *)
LEMMA LogTrap ==
  ASSUME LogInv, SafetyInv', NEW t \in Threads, NEW u \in Registers, NEW p \in BOOLEAN,
         pc[t] \in {"user", "kick"}, proc = "up", SigTrap(t, u, p, "user"),
         tracked[t], mc[t].state # "AWAIT_FPE", u.insn = "none", ~p, ~nested'
  PROVE  LogStep
<1>0. /\ TypeOK /\ OwnInv(t) /\ Mine(t) /\ NonePending /\ origRound \in Rounds
      /\ mc[t].count \in Nat /\ Main \in Threads
  BY LogActing
<1>1. CASE Die("leaked")
  BY <1>1, LogDie
<1>2. CASE ~Die("leaked")
  <2>1. /\ Only(t) /\ KeepsLogs /\ proc' = proc /\ pend' = p
        /\ Started(t, u) \/ SteppedOver(t, u) \/ Halted(t, u)
    <3>1. ~Surprised(t, u)
      BY DEF Surprised
    <3> QED
      BY <1>0, <1>2, <3>1, SigTrapEffect
  <2>2. /\ OthersFiles(t) /\ OthersSeen(t) /\ tracked' = tracked /\ seen' = seen
        /\ mc'[t].buf = mc[t].buf => Trace(t)' = Trace(t)
    BY <2>1 DEF OthersFiles, OthersSeen, KeepsLogs, Trace
  <2>3. /\ Quiet(t) /\ pc'[t] = "user" /\ back'[t] = back[t]
        /\ mc'[t].state \in {"AWAIT_FPE", "ABORT"}
        /\ mc[t].state = "ABORT" => mc'[t].state = "ABORT"
        /\ ~uc'[t].tf /\ uc'[t].insn = "none"
    <3>1. CASE Started(t, u)
      BY <1>0, <2>2, <3>1, WatchOK DEF Started, Quiet, Events
    <3>2. CASE SteppedOver(t, u)
      BY <1>0, <2>2, <3>2 DEF SteppedOver, Quiet, Events
    <3>3. CASE Halted(t, u)
      BY <1>0, <2>2, <3>3, QuiesceOK DEF Halted, Quiet, Events
    <3> QED
      BY <2>1, <3>1, <3>2, <3>3
  <2>4. Mine(t)'
    <3>1. Counting(t)'
      BY <1>0, <2>2, <2>3 DEF Mine, Counting, Quiet
    <3>2. Stepping(t)'
      BY <2>3 DEF Stepping
    <3>3. Begun(t)'
      BY <1>0, <2>3 DEF Mine, Begun
    <3> QED
      BY <3>1, <3>2, <3>3 DEF Mine
  <2>5. NonePending'
    BY <2>1 DEF NonePending
  <2> QED
    BY <2>1, <2>2, <2>3, <2>4, <2>5, LogCombine
<1> QED
  BY <1>1, <1>2

(* The one event: a SIGFPE in AWAIT_FPE, by an instruction that is new.    *)
LEMMA LogFault ==
  ASSUME Traceable, LogInv, SafetyInv', NEW t \in Threads, FpTraps(t) PROVE LogStep
<1>0. /\ TypeOK /\ OwnInv(t) /\ Mine(t) /\ NonePending /\ Main \in Threads
      /\ mc[t].count \in Nat /\ mc[t].state \in States /\ seen[t] \in Nat
  BY LogActing
<1>1. pc[t] = "user" /\ proc = "up" /\ ~uc[t].mask
  BY DEF FpTraps, Running
<1>2. CASE saFpe # "fpspy"
  BY <1>2, LogDie DEF FpTraps
<1>3. CASE saFpe = "fpspy" /\ \E f \in {"crashed", "leaked"} : Die(f)
  BY <1>3, LogDie
<1>4. CASE saFpe = "fpspy" /\ ~\E f \in {"crashed", "leaked"} : Die(f)
  <2>1. Only(t) /\ Faulted(t, "fp", Number(t))
    <3>1. fp_trap_handler(t, "fp", Number(t)) /\ Number(t) \in Nat
      BY <1>0, <1>4 DEF FpTraps, Number
    <3> QED
      BY <1>0, <1>4, <3>1, FaultEffect
  <2>2. mc[t].state = "AWAIT_FPE"
    <3>1. mc[t].state # "AWAIT_TRAP"
      BY <1>0, <1>1 DEF Mine, Stepping
    <3>2. mc[t].state # "ABORT"
      BY <1>0, <1>4 DEF OwnInv, AbortedOnce
    <3>3. mc[t].state # "INIT"
      BY <1>0, <1>1, <2>1 DEF Mine, Begun, Faulted
    <3> QED
      BY <1>0, <3>1, <3>2, <3>3 DEF States
  <2>3. Events(t) = mc[t].count /\ seen[t] = mc[t].count /\ Number(t) = mc[t].count + 1
    <3>1. uc[t].insn = "none"
      BY <1>0, <1>1, <2>2 DEF Mine, Stepping
    <3> QED
      BY <1>0, <2>2, <3>1 DEF Mine, Counting, Events, Number
  <2>4. /\ tracked[t] /\ OthersFiles(t) /\ mc'[t].count = mc[t].count
        /\ mc'[t].state = "AWAIT_TRAP"
        /\ uc'[t].mask /\ uc'[t].tf /\ uc'[t].insn = "fp"
        /\ seen' = [seen EXCEPT ![t] = Number(t)]
        /\ UNCHANGED <<pc, back, tracked, gvars>>
    BY <2>1, <2>2 DEF Faulted
  <2>5. Events(t)' = Events(t) + 1 /\ seen'[t] = Events(t) + 1 /\ OthersSeen(t)
    BY <1>0, <2>3, <2>4 DEF Events, OthersSeen, TypeOK
  <2>6. Trace(t)' = IF Events(t) % SamplePeriod = 0 THEN Append(Trace(t), Events(t) + 1)
                   ELSE Trace(t)
    BY <2>1, <2>3 DEF Faulted, Sampled, Traceable
  <2>7. Observed(t)
    BY <2>2, <2>4, <2>5, <2>6 DEF Observed
  <2>8. Mine(t)'
    BY <1>0, <1>1, <2>4, <2>5 DEF Mine, Counting, Stepping, Begun
  <2>9. NonePending'
    BY <1>0, <1>1, <2>1, <2>2, <2>4 DEF NonePending, Only, gvars
  <2> QED
    BY <1>1, <2>1, <2>4, <2>5, <2>7, <2>8, <2>9, LogCombine
<1> QED
  BY <1>2, <1>3, <1>4

LEMMA LogTarget ==
  ASSUME Traceable, LogInv, SafetyInv', NEW t \in Threads, Target(t) PROVE LogStep
<1>0. /\ TypeOK /\ OwnInv(t) /\ Mine(t) /\ NonePending /\ Main \in Threads
      /\ mc[t] \in Contexts /\ uc[t] \in Registers /\ mc[t].count \in Nat
  BY LogActing
<1>1. pc[t] = "user" /\ proc = "up"
  BY DEF Target, FpTraps, FpSilent, IntDivTraps, TargetConflict, ThreadExit, ThreadEnd,
     ProcessExit, Interrupted, Create, InTarget, Running
<1>2. CASE FpTraps(t)
  BY <1>2, LogFault
<1>3. CASE FpSilent(t)
  <2>1. /\ uc' = [uc EXCEPT ![t] = Executed(t)] /\ ~uc[t].tf
        /\ UNCHANGED <<mc, tracked, pc, back, file, seen, gvars>>
    BY <1>3 DEF FpSilent
  <2>2. /\ uc'[t].mask = uc[t].mask /\ ~uc'[t].tf /\ uc'[t].insn = "none"
        /\ \A w \in Threads \ {t} : uc'[w] = uc[w]
    BY <1>0, <2>1 DEF TypeOK, Executed, Registers
  <2>3. Quiet(t)
    BY <2>1 DEF Quiet, Events, Trace
  <2>4. Mine(t)'
    BY <1>0, <1>1, <2>1, <2>2 DEF Mine, Counting, Events, Stepping, Begun
  <2>5. NonePending' /\ Only(t) /\ OthersFiles(t) /\ OthersSeen(t) /\ proc' = proc
    BY <1>0, <2>1, <2>2 DEF NonePending, Only, OthersFiles, OthersSeen, gvars
  <2> QED
    BY <2>3, <2>4, <2>5, LogCombine
<1>4. CASE IntDivTraps(t)
  <2>1. uc[t].insn = "intdiv"
    BY <1>4 DEF IntDivTraps, AtInsn, Traceable
  <2> QED
    BY <1>0, <1>1, <2>1 DEF Mine, Stepping
<1>5. CASE TargetConflict(t)
  <2>1. /\ EnterAbort(t, "none") /\ uc[t].insn = "none"
        /\ UNCHANGED <<mc, tracked, file, seen, gvars>>
        /\ uc' = IF aborted THEN uc
                 ELSE [uc EXCEPT ![t] = arch_clear_fp_exceptions(arch_mask_fp_traps(uc[t]))]
    BY <1>5 DEF TargetConflict, InTarget
  <2>2. \A w \in Threads \ {t} : uc'[w] = uc[w] /\ pc'[w] = pc[w] /\ back'[w] = back[w]
    BY <1>0, <2>1 DEF EnterAbort, TypeOK
  <2>3. pc'[t] \in {"user", "restoreFpe"} /\ back'[t] \in {back[t], "none"}
    BY <1>0, <2>1 DEF EnterAbort, TypeOK
  <2>4. uc'[t].tf = uc[t].tf /\ uc'[t].insn = uc[t].insn /\ (uc[t].mask => uc'[t].mask)
    BY <1>0, <2>1 DEF TypeOK, arch_clear_fp_exceptions, arch_mask_fp_traps, Registers
  <2>5. Quiet(t) /\ mc[t].state # "AWAIT_TRAP"
    BY <1>0, <1>1, <2>1 DEF Quiet, Events, Trace, Mine, Stepping
  <2>6. Mine(t)'
    BY <1>0, <1>1, <2>1, <2>3, <2>4, <2>5 DEF Mine, Counting, Events, Stepping, Begun
  <2>7. NonePending' /\ Only(t) /\ OthersFiles(t) /\ OthersSeen(t) /\ proc' = proc
    BY <1>0, <2>1, <2>2 DEF NonePending, Only, OthersFiles, OthersSeen, gvars
  <2> QED
    BY <2>5, <2>6, <2>7, LogCombine
<1>6. CASE ThreadExit(t) \/ ProcessExit(t) \/ Interrupted(t)
  <2>1. /\ teardown_monitoring_context(t) /\ UNCHANGED <<uc, pc, back, seen, pend, nested>>
        /\ \/ proc' \in {"exited", "crashed"}
           \/ proc' = proc /\ uc[t].insn = "none"
    BY <1>6 DEF ThreadExit, ProcessExit, Interrupted, InTarget
  <2>2. /\ ~tracked'[t] /\ Trace(t)' = Trace(t) /\ OthersFiles(t)
        /\ mc'[t].state = mc[t].state /\ mc'[t].count = mc[t].count
        /\ \A w \in Threads \ {t} : mc'[w] = mc[w] /\ tracked'[w] = tracked[w]
    BY <1>0, <2>1, TeardownEffect
  <2>4. Quiet(t)
    BY <2>2 DEF Quiet, Events
  <2>5. Mine(t)'
    BY <1>0, <1>1, <2>1, <2>2 DEF Mine, Counting, Events, Stepping, Begun
  <2>6. NonePending' /\ Only(t) /\ OthersSeen(t)
    BY <1>0, <1>1, <2>1, <2>2 DEF NonePending, Only, OthersSeen
  <2> QED
    BY <1>1, <2>2, <2>4, <2>5, <2>6, LogCombine
<1>8. CASE ThreadEnd(t)
  <2>1. /\ UNCHANGED <<mc, tracked, back, file, seen, pend, nested>> /\ uc[t].insn = "none"
        /\ uc' = [uc EXCEPT ![t] = HandlerRegisters] /\ pc' = [pc EXCEPT ![t] = "gone"]
        /\ proc' \in {proc, "exited"}
    BY <1>8 DEF ThreadEnd
  <2>2. /\ uc'[t].insn = "none" /\ ~uc'[t].tf /\ pc'[t] = "gone"
        /\ \A w \in Threads \ {t} : uc'[w] = uc[w] /\ pc'[w] = pc[w]
    BY <1>0, <2>1 DEF TypeOK, HandlerRegisters
  <2>3. Quiet(t)
    BY <2>1 DEF Quiet, Events, Trace
  <2>4. Mine(t)'
    BY <1>0, <1>1, <2>1, <2>2 DEF Mine, Counting, Events, Stepping, Begun
  <2>5. NonePending' /\ Only(t) /\ OthersFiles(t) /\ OthersSeen(t)
    BY <1>0, <2>1, <2>2 DEF NonePending, Only, OthersFiles, OthersSeen
  <2> QED
    BY <1>1, <2>1, <2>3, <2>4, <2>5, LogCombine
<1>7. ASSUME NEW w \in Threads, Create(t, w) PROVE LogStep
  <2>1. /\ "create" \in Inputs /\ pc[w] = "unborn" /\ uc[t].insn = "none"
        /\ pc' = [pc EXCEPT ![w] = IF aborted THEN "user" ELSE "tramp"]
        /\ uc' = [uc EXCEPT ![w] = uc[t]]
        /\ UNCHANGED <<mc, tracked, back, file, seen, gvars>>
    BY <1>7 DEF Create, InTarget
  <2>2. /\ pc'[w] \in {"user", "tramp"} /\ uc'[w] = uc[t]
        /\ \A u \in Threads \ {w} : pc'[u] = pc[u] /\ uc'[u] = uc[u]
    BY <1>0, <2>1 DEF TypeOK
  <2>3. /\ OwnInv(w) /\ Mine(w)
    BY LogActing
  <2>4. ~tracked[w] /\ mc[w].state = "INIT"
    BY <2>1, <2>3 DEF OwnInv, Unstarted
  <2>5. ~uc[t].tf
    BY <1>0, <1>1, <2>1 DEF Mine, Stepping
  <2>6. Quiet(w)
    BY <2>1 DEF Quiet, Events, Trace
  <2>7. Mine(w)'
    BY <2>1, <2>2, <2>3, <2>4, <2>5 DEF Mine, Counting, Events, Stepping, Begun
  <2>8. NonePending' /\ Only(w) /\ OthersFiles(w) /\ OthersSeen(w) /\ proc' = proc
    BY <1>0, <2>1, <2>2 DEF NonePending, Only, OthersFiles, OthersSeen, gvars
  <2> QED
    BY <2>6, <2>7, <2>8, LogCombine
<1> QED
  BY <1>2, <1>3, <1>4, <1>5, <1>6, <1>7, <1>8 DEF Target

LEMMA LogKernel ==
  ASSUME Traceable, LogInv, SafetyInv', ~nested', NEW t \in Threads, Kernel(t) PROVE LogStep
<1>0. /\ TypeOK /\ OwnInv(t) /\ Mine(t) /\ NonePending /\ Main \in Threads
      /\ mc[t] \in Contexts /\ uc[t] \in Registers /\ mc[t].count \in Nat
  BY LogActing
<1>1. CASE FpStepped(t)
  <2>1. /\ pc[t] = "user" /\ proc = "up" /\ uc[t].tf /\ SigTrap(t, Executed(t), pend, "user")
    BY <1>1 DEF FpStepped, Running
  <2>2. tracked[t] /\ mc[t].state = "AWAIT_TRAP"
    BY <1>0, <2>1 DEF Mine, Stepping
  <2>3. Executed(t) \in Registers /\ Executed(t).insn = "none"
    BY <1>0 DEF Executed, Registers
  <2>4. ~pend
    BY <1>0 DEF NonePending
  <2> QED
    BY <1>0, <2>1, <2>2, <2>3, <2>4, LogTrap DEF TypeOK
<1>2. CASE DeliverTrap(t) \/ AlarmTrapped(t) \/ TrapHangs(t)
  BY <1>0, <1>2 DEF DeliverTrap, AlarmTrapped, TrapHangs, NonePending
<1>3. CASE Alarm(t) /\ saAlrm # "fpspy"
  BY <1>3, LogDie DEF Alarm
<1>5. CASE AlarmHangs(t)
  BY <1>5, LogDie DEF AlarmHangs
<1>4. CASE Alarm(t) /\ saAlrm = "fpspy"
  <2>1. /\ sigalrm_handler(t, FALSE) /\ proc = "up"
        /\ UNCHANGED <<tracked, pc, back, file, seen, proc, pend, nested>>
    BY <1>4 DEF Alarm, AlarmOpen
  <2>2. /\ KeepsContext(t) /\ uc'[t].insn = uc[t].insn
        /\ uc' = uc \/ (mc[t].state = "AWAIT_FPE" /\ ~uc'[t].tf)
        /\ \A w \in Threads \ {t} : mc'[w] = mc[w] /\ uc'[w] = uc[w]
    BY <1>0, <2>1, AlarmEffect
  <2>3. Quiet(t)
    BY <2>1, <2>2 DEF Quiet, Events, Trace, KeepsContext
  <2>4. Mine(t)'
    BY <1>0, <2>1, <2>2 DEF Mine, Counting, Events, Stepping, Begun, KeepsContext
  <2>5. NonePending' /\ Only(t) /\ OthersFiles(t) /\ OthersSeen(t)
    BY <1>0, <2>1, <2>2 DEF NonePending, Only, OthersFiles, OthersSeen, KeepsContext
  <2> QED
    BY <2>1, <2>3, <2>4, <2>5, LogCombine
<1> QED
  BY <1>1, <1>2, <1>3, <1>4, <1>5 DEF Kernel

(* abort_operation(): its mark is the one step that gives a thread up.     *)
LEMMA LogMark ==
  ASSUME Traceable, LogInv, SafetyInv', NEW t \in Threads, AbortMark(t) PROVE LogStep
<1>0. /\ TypeOK /\ OwnInv(t) /\ Mine(t) /\ NonePending /\ Main \in Threads
      /\ mc[t] \in Contexts /\ mc[t].count \in Nat
  BY LogActing
<1> DEFINE m == [mc[t] EXCEPT !.state = "ABORT"]
<1>1. /\ pc[t] = "mark" /\ pc' = [pc EXCEPT ![t] = "abortKick"] /\ proc = "up"
      /\ UNCHANGED <<tracked, uc, back, seen, gvars>>
      /\ IF tracked[t] THEN push_trace_record(t, m, AbortRecord) ELSE UNCHANGED <<mc, file>>
  BY DEF AbortMark, At, Goto
<1>2. /\ m \in Contexts /\ m.buf = mc[t].buf /\ m.state = "ABORT"
      /\ m.count = mc[t].count
  BY <1>0 DEF Contexts, States
<1> HIDE DEF m
<1>3. pc'[t] = "abortKick" /\ \A w \in Threads \ {t} : pc'[w] = pc[w]
  BY <1>0, <1>1 DEF TypeOK
<1>4. mc[t].state \notin {"ABORT", "AWAIT_TRAP"} /\ uc[t].insn = "none" /\ ~uc[t].tf
  BY <1>0, <1>1 DEF OwnInv, AbortedOnce, Mine, Stepping
<1>5. CASE tracked[t]
  <2>1. push_trace_record(t, m, AbortRecord) /\ AbortRecord \in Nat
    BY <1>1, <1>5 DEF AbortRecord
  <2>2. /\ mc'[t].state = "ABORT" /\ mc'[t].count = mc[t].count
        /\ \A w \in Threads \ {t} : mc'[w] = mc[w]
    BY <1>0, <1>2, <2>1, PushOK
  <2>3. Trace(t)' = Append(Trace(t), AbortRecord) /\ OthersFiles(t)
    BY <1>0, <1>2, <2>1, PushEffect DEF Traceable, OthersFiles
  <2>4. GivenUp(t)
    BY <1>4, <2>2, <2>3 DEF GivenUp, Events
  <2>5. Mine(t)'
    BY <1>0, <1>1, <1>3, <1>4, <2>2 DEF Mine, Counting, Events, Stepping, Begun
  <2>6. NonePending' /\ Only(t) /\ OthersSeen(t) /\ proc' = proc
    BY <1>0, <1>1, <1>3, <2>2 DEF NonePending, Only, OthersSeen, gvars
  <2> QED
    BY <2>3, <2>4, <2>5, <2>6, LogCombine
<1>6. CASE ~tracked[t]
  <2>1. mc' = mc /\ file' = file
    BY <1>1, <1>6
  <2>2. Quiet(t)
    BY <2>1 DEF Quiet, Events, Trace
  <2>3. Mine(t)'
    BY <1>0, <1>1, <1>3, <1>4, <1>6, <2>1 DEF Mine, Counting, Events, Stepping, Begun
  <2>4. NonePending' /\ Only(t) /\ OthersFiles(t) /\ OthersSeen(t) /\ proc' = proc
    BY <1>0, <1>1, <1>3, <2>1 DEF NonePending, Only, OthersFiles, OthersSeen, gvars
  <2> QED
    BY <2>2, <2>3, <2>4, LogCombine
<1> QED
  BY <1>5, <1>6

LEMMA LogAbort ==
  ASSUME Traceable, LogInv, SafetyInv', NEW t \in Threads, Abort(t) PROVE LogStep
<1>0. /\ TypeOK /\ OwnInv(t) /\ Mine(t) /\ NonePending /\ Main \in Threads
      /\ uc[t] \in Registers /\ origRound \in Rounds /\ mc[t].count \in Nat
  BY LogActing
<1>1. CASE AbortMark(t)
  BY <1>1, LogMark
<1>2. CASE ~AbortMark(t)
  <2>1. /\ pc[t] \in AbortSteps /\ proc = "up" /\ UNCHANGED <<mc, tracked, file, seen>>
        /\ back' = back \/ back' = [back EXCEPT ![t] = "none"]
        /\ pc' = pc \/ \E s \in AbortSteps \cup {"user"} : pc' = [pc EXCEPT ![t] = s]
        /\ uc' = uc \/ uc' = [uc EXCEPT ![t] = Quiesce(uc[t])]
        /\ pend' = pend /\ nested' = nested
    BY <1>0, <1>2
    DEF Abort, AbortRestoreFpe, AbortKick, AbortRestoreTrap, AbortSetAborted, At, Goto, Return,
        AbortSteps, gvars, Mine, Begun
  <2>2. /\ pc'[t] \in AbortSteps \cup {"user"}
        /\ back'[t] \in {back[t], "none"}
        /\ \A w \in Threads \ {t} :
             pc'[w] = pc[w] /\ uc'[w] = uc[w] /\ back'[w] = back[w]
    BY <1>0, <2>1 DEF TypeOK
  <2>3. mc[t].state # "AWAIT_TRAP" /\ uc[t].insn = "none" /\ ~uc[t].tf
    BY <1>0, <2>1 DEF Mine, Stepping, AbortSteps
  <2>4. uc'[t].insn = "none" /\ ~uc'[t].tf /\ (uc[t].mask => uc'[t].mask)
    BY <1>0, <2>1, <2>3, QuiesceOK DEF TypeOK
  <2>5. Quiet(t)
    BY <2>1 DEF Quiet, Events, Trace
  <2>6. Mine(t)'
    BY <1>0, <2>1, <2>2, <2>3, <2>4 DEF Mine, Counting, Events, Stepping, Begun, AbortSteps
  <2>7. NonePending' /\ Only(t) /\ OthersFiles(t) /\ OthersSeen(t)
    BY <1>0, <2>1, <2>2 DEF NonePending, Only, OthersFiles, OthersSeen
  <2> QED
    BY <2>1, <2>5, <2>6, <2>7, LogCombine
<1> QED
  BY <1>1, <1>2

LEMMA LogBringup ==
  ASSUME Traceable, LogInv, SafetyInv', Boot \/ Install PROVE LogStep
<1>0. /\ TypeOK /\ OwnInv(Main) /\ Mine(Main) /\ NonePending /\ Main \in Threads
  BY LogActing, ConstantsAssumption
<1>1. /\ mc[Main].state = "INIT" /\ uc[Main].insn = "none" /\ ~uc[Main].tf
      /\ pc[Main] \in {"boot", "install"} /\ proc = "up"
  BY <1>0 DEF Boot, Install, OwnInv, Unstarted, Mine, Stepping
<1>2. CASE Boot
  <2>1. /\ NewContext(Main) /\ pc[Main] = "boot" /\ pc' = [pc EXCEPT ![Main] = "install"]
        /\ UNCHANGED <<uc, back, file, seen, proc, pend, nested>>
    BY <1>2 DEF Boot
  <2>2. /\ mc'[Main].state = "INIT" /\ mc'[Main].count = 0 /\ tracked'[Main]
        /\ mc'[Main].buf = <<>>
        /\ \A w \in Threads \ {Main} : mc'[w] = mc[w] /\ tracked'[w] = tracked[w]
    BY <1>0, <2>1, NewContextEffect
  <2>3. pc'[Main] = "install" /\ \A w \in Threads \ {Main} : pc'[w] = pc[w]
    BY <1>0, <2>1 DEF TypeOK
  <2>4. mc[Main].count = 0 /\ mc[Main].buf = <<>>
    BY <1>0, <2>1 DEF Mine, Counting, OwnInv, Unstarted, Flushed
  <2>5. Quiet(Main)
    BY <1>1, <2>1, <2>2, <2>4 DEF Quiet, Events, Trace
  <2>6. Mine(Main)'
    BY <1>0, <1>1, <2>1, <2>2, <2>3, <2>4 DEF Mine, Counting, Events, Stepping, Begun
  <2>7. NonePending' /\ Only(Main) /\ OthersFiles(Main) /\ OthersSeen(Main)
    BY <1>0, <1>1, <2>1, <2>2, <2>3 DEF NonePending, Only, OthersFiles, OthersSeen
  <2> QED
    BY <1>0, <2>1, <2>5, <2>6, <2>7, LogCombine
<1>3. CASE Install
  <2>1. /\ pc[Main] = "install" /\ pend' = KickStart
        /\ pc' = [pc EXCEPT ![Main] = IF KickStart THEN "user" ELSE "kick"]
        /\ UNCHANGED <<mc, tracked, uc, back, file, seen, proc, nested>>
    BY <1>3 DEF Install
  <2>2. /\ pc'[Main] = IF KickStart THEN "user" ELSE "kick"
        /\ \A w \in Threads \ {Main} : pc'[w] = pc[w]
    BY <1>0, <2>1 DEF TypeOK
  <2>3. Quiet(Main) /\ tracked[Main]
    BY <1>0, <2>1 DEF Quiet, Events, Trace, Mine, Begun
  <2>4. Mine(Main)'
    BY <1>0, <1>1, <2>1, <2>2, <2>3 DEF Mine, Counting, Events, Stepping, Begun, Traceable
  <2>5. NonePending' /\ Only(Main) /\ OthersFiles(Main) /\ OthersSeen(Main)
    BY <1>0, <1>1, <2>1, <2>2, <2>3 DEF NonePending, Only, OthersFiles, OthersSeen, Traceable
  <2> QED
    BY <1>0, <2>1, <2>3, <2>4, <2>5, LogCombine
<1> QED
  BY <1>2, <1>3

LEMMA LogTramp ==
  ASSUME Traceable, LogInv, SafetyInv', NEW t \in Threads, Tramp(t) PROVE LogStep
<1>0. /\ TypeOK /\ OwnInv(t) /\ Mine(t) /\ NonePending /\ Main \in Threads /\ uc[t] \in Registers
  BY LogActing
<1>1. /\ pc[t] = "tramp" /\ UNCHANGED <<back, file, seen, proc, pend, nested>> /\ proc = "up"
      /\ uc' = [uc EXCEPT ![t] = arch_clear_fp_exceptions(uc[t])]
  BY DEF Tramp
<1>2. /\ mc[t].state = "INIT" /\ mc[t].count = 0 /\ mc[t].buf = <<>> /\ ~tracked[t]
      /\ uc[t].insn = "none" /\ ~uc[t].tf
  BY <1>0, <1>1 DEF Mine, Counting, Stepping, Begun, OwnInv, Unstarted, Flushed
<1>3. uc'[t].insn = "none" /\ ~uc'[t].tf /\ \A w \in Threads \ {t} : uc'[w] = uc[w]
  BY <1>0, <1>1, <1>2 DEF TypeOK, arch_clear_fp_exceptions, Registers
<1>4. /\ mc'[t].state = "INIT" /\ mc'[t].count = 0 /\ mc'[t].buf = <<>>
      /\ \A w \in Threads \ {t} :
           mc'[w] = mc[w] /\ tracked'[w] = tracked[w] /\ pc'[w] = pc[w]
      /\ pc'[t] = IF tracked'[t] THEN "kick" ELSE "user"
  <2>1. CASE NewContext(t) /\ pc' = [pc EXCEPT ![t] = "kick"]
    BY <1>0, <2>1, NewContextEffect DEF TypeOK
  <2>2. CASE pc' = [pc EXCEPT ![t] = "user"] /\ UNCHANGED <<tracked, mc>>
    BY <1>0, <1>2, <2>2 DEF TypeOK
  <2> QED
    BY <2>1, <2>2 DEF Tramp
<1>5. Quiet(t)
  BY <1>1, <1>2, <1>4 DEF Quiet, Events, Trace
<1>6. Mine(t)'
  BY <1>0, <1>1, <1>2, <1>3, <1>4 DEF Mine, Counting, Events, Stepping, Begun
<1>7. NonePending' /\ Only(t) /\ OthersFiles(t) /\ OthersSeen(t)
  BY <1>0, <1>1, <1>2, <1>3, <1>4 DEF NonePending, Only, OthersFiles, OthersSeen
<1> QED
  BY <1>1, <1>5, <1>6, <1>7, LogCombine

(* Without a pending SIGTRAP no handler interrupts FPSpy's own code.       *)
LEMMA NoNesting == ASSUME NonePending, [Next]_vars PROVE ~nested'
<1> USE DEF NonePending
<1>1. ASSUME NEW f, Die(f) PROVE ~nested'
  BY <1>1 DEF Die
<1>2. ASSUME NEW t, NEW u, NEW p, SigTrap(t, u, p, "user") PROVE ~nested'
  BY <1>1, <1>2 DEF SigTrap, brk_trap_handler
<1>3. ASSUME NEW t, NEW j, NEW n, fp_trap_handler(t, j, n) PROVE ~nested'
  BY <1>1, <1>3 DEF fp_trap_handler, Fault, gvars
<1>4. ASSUME NEW t \in Threads, Target(t) PROVE ~nested'
  BY <1>1, <1>3, <1>4
  DEF Target, FpTraps, FpSilent, IntDivTraps, TargetConflict, ThreadExit, ThreadEnd,
      ProcessExit, Interrupted, Create, gvars
<1>5. ASSUME NEW t \in Threads, Kernel(t) PROVE ~nested'
  BY <1>1, <1>2, <1>5
  DEF Kernel, FpStepped, DeliverTrap, Alarm, AlarmTrapped, AlarmHangs, TrapHangs
<1>6. ASSUME NEW t \in Threads, Tramp(t) \/ Kick(t) \/ Abort(t) \/ AlarmResumes(t)
      PROVE  ~nested'
  BY <1>2, <1>6
  DEF Tramp, Kick, Abort, AbortRestoreFpe, AbortMark, AbortKick, AbortRestoreTrap,
      AbortSetAborted, AlarmResumes, gvars
<1> QED
  BY <1>1, <1>4, <1>5, <1>6 DEF Next, Boot, BootFails, Install, Terminated, vars, gvars

LEMMA LogNext == ASSUME Traceable, LogInv, [Next]_vars PROVE LogStep
<1>0. SafetyInv' /\ ~nested'
  <2>1. ~nested'
    BY NoNesting DEF LogInv
  <2> QED
    BY <2>1, SafetyNext DEF LogInv, SafeStep
<1>1. CASE Boot \/ Install
  BY <1>0, <1>1, LogBringup
<1>2. ASSUME NEW t \in Threads, Target(t) PROVE LogStep
  BY <1>0, <1>2, LogTarget
<1>3. ASSUME NEW t \in Threads, Kernel(t) PROVE LogStep
  BY <1>0, <1>3, LogKernel
<1>4. ASSUME NEW t \in Threads, Tramp(t) PROVE LogStep
  BY <1>0, <1>4, LogTramp
<1>5. ASSUME NEW t \in Threads, Kick(t) PROVE LogStep
  <2>1. /\ TypeOK /\ OwnInv(t) /\ Mine(t) /\ NonePending /\ uc[t] \in Registers
    BY LogActing
  <2>2. pc[t] = "kick" /\ proc = "up" /\ SigTrap(t, uc[t], pend, "user")
    BY <1>5 DEF Kick
  <2>3. tracked[t] /\ mc[t].state = "INIT" /\ uc[t].insn = "none"
    BY <2>1, <2>2 DEF Mine, Begun, Stepping, OwnInv, Unstarted
  <2>4. ~pend /\ pend \in BOOLEAN
    BY <2>1 DEF NonePending, TypeOK
  <2> QED
    BY <1>0, <2>2, <2>1, <2>3, <2>4, LogTrap
<1>6. ASSUME NEW t \in Threads, Abort(t) PROVE LogStep
  BY <1>0, <1>6, LogAbort
<1>7. CASE UNCHANGED vars
  BY <1>0, <1>7, LogStill DEF vars, gvars
<1>8. ASSUME NEW t \in Threads, AlarmResumes(t) PROVE FALSE
  BY <1>8, LogActing DEF AlarmResumes, OwnInv, Unnested, AlarmSteps
<1>9. CASE BootFails
  BY <1>0, <1>9, LogDie DEF BootFails
<1> QED
  BY <1>1, <1>2, <1>3, <1>4, <1>5, <1>6, <1>7, <1>8, <1>9 DEF Next, Terminated

LEMMA LogInit == Init => LogInv /\ \A t \in Threads : Trace(t) = <<>> /\ Events(t) = 0
<1> SUFFICES ASSUME Init
             PROVE  LogInv /\ \A t \in Threads : Trace(t) = <<>> /\ Events(t) = 0
  OBVIOUS
<1>1. SafetyInv /\ NonePending
  BY SafetyInit DEF Init, NonePending
<1>2. ASSUME NEW t \in Threads PROVE Mine(t) /\ Trace(t) = <<>> /\ Events(t) = 0
  <2>1. mc[t] = FreshContext(FALSE) /\ file[t] = <<>> /\ seen[t] = 0
    BY DEF Init
  <2>2. mc[t].state = "INIT" /\ mc[t].count = 0 /\ mc[t].buf = <<>>
    BY <2>1 DEF FreshContext
  <2>3. /\ ~tracked[t] /\ uc[t].mask /\ ~uc[t].tf /\ uc[t].insn = "none" /\ back[t] = "none"
        /\ pc[t] = IF t = Main THEN "boot" ELSE "unborn"
    BY DEF Init
  <2>4. Events(t) = 0
    BY <2>2 DEF Events
  <2>5. Mine(t)
    BY <2>1, <2>2, <2>3, <2>4 DEF Mine, Counting, Stepping, Begun
  <2>6. Trace(t) = <<>>
    <3>1. <<>> \in Seq(Nat)
      OBVIOUS
    <3>2. <<>> \o <<>> = <<>>
      BY <3>1, ConcatEmptySeq
    <3> QED
      BY <2>1, <2>2, <3>2, Zenon DEF Trace
  <2> QED
    BY <2>4, <2>5, <2>6
<1> QED
  BY <1>1, <1>2 DEF LogInv, Mine

-----------------------------------------------------------------------------
(* The theorems.                                                           *)

(* A step of the log keeps the trace exact.                                *)
LEMMA ExactStep ==
  ASSUME LogInv, NEW t \in Threads, Exact(t), Quiet(t) \/ Observed(t) \/ GivenUp(t)
  PROVE  Exact(t)'
<1>0. Events(t) \in Nat /\ AbortRecord \in Nat
  BY LogActing DEF Events, AbortRecord
<1>1. \A n \in Nat : SampledUpTo(n) \in Seq(Nat)
  BY SampleInSeq
<1>2. \A n \in Nat : SampledUpTo(n) \o <<>> = SampledUpTo(n)
  BY <1>1, ConcatEmptySeq
<1>3. CASE Quiet(t)
  <2>1. Trace(t)' = Trace(t) /\ Events(t)' = Events(t)
        /\ (mc'[t].state = "ABORT" <=> mc[t].state = "ABORT")
    BY <1>3 DEF Quiet
  <2>2. CASE mc[t].state = "ABORT"
    BY <2>1, <2>2 DEF Exact, SampledUpTo
  <2>3. CASE mc[t].state # "ABORT"
    BY <2>1, <2>3 DEF Exact, SampledUpTo
  <2> QED
    BY <2>2, <2>3
<1>4. CASE Observed(t)
  <2>1. /\ mc[t].state # "ABORT" /\ mc'[t].state # "ABORT" /\ Events(t)' = Events(t) + 1
        /\ Trace(t)' = IF Events(t) % SamplePeriod = 0 THEN Append(Trace(t), Events(t) + 1)
                       ELSE Trace(t)
    BY <1>4 DEF Observed
  <2>2. Trace(t) = SampledUpTo(Events(t))
    BY <1>0, <1>2, <2>1 DEF Exact
  <2>3. Trace(t)' = SampledUpTo(Events(t) + 1)
    BY <1>0, <2>1, <2>2, SampleGrows
  <2>4. SampledUpTo(Events(t) + 1) \o <<>> = SampledUpTo(Events(t) + 1)
    BY <1>0, <1>2
  <2>5. SampledUpTo(Events(t))' = SampledUpTo(Events(t) + 1)
    BY <2>1 DEF SampledUpTo
  <2> QED
    BY <2>1, <2>3, <2>4, <2>5, Zenon DEF Exact
<1>5. CASE GivenUp(t)
  <2>1. /\ mc[t].state # "ABORT" /\ mc'[t].state = "ABORT" /\ Events(t)' = Events(t)
        /\ Trace(t)' = Append(Trace(t), AbortRecord)
    BY <1>5 DEF GivenUp
  <2>2. Trace(t) = SampledUpTo(Events(t))
    BY <1>0, <1>2, <2>1 DEF Exact
  <2>3. Append(SampledUpTo(Events(t)), AbortRecord) = SampledUpTo(Events(t)) \o <<AbortRecord>>
    BY <1>0, <1>1, AppendIsConcat
  <2>4. SampledUpTo(Events(t))' = SampledUpTo(Events(t))
    BY <2>1 DEF SampledUpTo
  <2> QED
    BY <2>1, <2>2, <2>3, <2>4, Zenon DEF Exact
<1> QED
  BY <1>3, <1>4, <1>5

(* The trace of every thread, written and buffered, is exactly every       *)
(* SamplePeriod-th of its trapping instructions, each once and in order,   *)
(* and then the abort record if abort_operation() has marked it, for any   *)
(* threads, buffer length, period, event limit and Poisson sampling.       *)
THEOREM TracesAreExact ==
  ASSUME "intdiv" \notin Inputs, CreateMonitorFile, ~KickStart
  PROVE  Spec => []TraceIsExact
<1> DEFINE Inv == LogInv /\ \A t \in Threads : Exact(t)
<1>0. Traceable
  BY DEF Traceable
<1>1. Init => Inv
  <2> SUFFICES ASSUME Init, NEW t \in Threads PROVE Exact(t)
    BY LogInit
  <2>1. Trace(t) = <<>> /\ Events(t) = 0 /\ mc[t].state = "INIT"
    BY LogInit DEF Init, FreshContext
  <2>2. <<>> \o <<>> = <<>>
    BY ConcatEmptySeq
  <2>3. SampledUpTo(Events(t)) = <<>>
    BY <2>1, NoSample
  <2> QED
    BY <2>1, <2>2, <2>3, Zenon DEF Exact
<1>2. Inv /\ [Next]_vars => Inv'
  <2> SUFFICES ASSUME Inv, [Next]_vars PROVE Inv'
    OBVIOUS
  <2>1. LogInv' /\ \E t \in Threads : LogStepOf(t)
    BY <1>0, LogNext DEF LogStep
  <2>2. ASSUME NEW u \in Threads PROVE Exact(u)'
    BY <2>1, ExactStep DEF LogStepOf
  <2> QED
    BY <2>1, <2>2
<1>3. Inv => TraceIsExact
  <2> SUFFICES ASSUME LogInv, NEW t \in Threads, Exact(t)
               PROVE  Trace(t) = SampledUpTo(seen[t]) \o
                                 IF mc[t].state = "ABORT" THEN <<AbortRecord>> ELSE <<>>
    BY DEF TraceIsExact
  <2>1. seen[t] = Events(t)
    BY DEF LogInv, Counting
  <2> QED
    BY <2>1 DEF Exact
<1> QED
  BY <1>1, <1>2, <1>3, PTL DEF Spec

(* The handlers implement the abstract event log: the SIGFPE of a waiting  *)
(* thread is an Event, abort_operation()'s mark a GiveUp, and every other  *)
(* step of every thread, buffer flushes included, changes nothing a user   *)
(* of the log sees.                                                        *)
THEOREM EventLogImplemented ==
  ASSUME "intdiv" \notin Inputs, CreateMonitorFile, ~KickStart
  PROVE  Spec => ImplementsEventLog
<1> DEFINE log == [t \in Threads |-> Trace(t)]
<1> DEFINE events == [t \in Threads |-> mc[t].count + IF mc[t].state = "AWAIT_TRAP" THEN 1 ELSE 0]
<1> DEFINE open == [t \in Threads |-> mc[t].state # "ABORT"]
<1>0. Traceable
  BY DEF Traceable
<1>1. Init => LogInv /\ Log!Init
  <2> SUFFICES ASSUME Init PROVE LogInv /\ Log!Init
    OBVIOUS
  <2>1. \A t \in Threads : mc[t].state # "ABORT"
    BY DEF Init, FreshContext
  <2> QED
    BY <2>1, LogInit DEF Log!Init, Events
<1>2. LogInv /\ [Next]_vars => LogInv' /\ [Log!Next]_<<log, events, open>>
  <2> SUFFICES ASSUME LogInv, [Next]_vars PROVE LogInv' /\ [Log!Next]_<<log, events, open>>
    OBVIOUS
  <2>1. LogInv'
    BY <1>0, LogNext DEF LogStep
  <2>2. PICK t \in Threads : LogStepOf(t)
    BY <1>0, LogNext DEF LogStep
  <2>3. /\ events = [u \in Threads |-> Events(u)]
        /\ events' = [u \in Threads |-> Events(u)']
        /\ log' = [u \in Threads |-> Trace(u)']
        /\ open' = [u \in Threads |-> mc'[u].state # "ABORT"]
    BY DEF Events
  <2>4. \A u \in Threads \ {t} : /\ Trace(u)' = Trace(u) /\ Events(u)' = Events(u)
                                 /\ mc'[u].state # "ABORT" <=> mc[u].state # "ABORT"
    BY <2>2 DEF LogStepOf, Quiet
  <2>5. CASE Quiet(t)
    <3>1. log' = log /\ events' = events
      BY <2>3, <2>4, <2>5 DEF Quiet
    <3>2. open' = open
      BY <2>3, <2>4, <2>5 DEF Quiet
    <3> QED
      BY <2>1, <3>1, <3>2
  <2>6. CASE Observed(t)
    <3>1. /\ events' = [events EXCEPT ![t] = Events(t) + 1] /\ events[t] = Events(t)
          /\ open' = open /\ open[t] /\ log[t] = Trace(t)
      BY <2>3, <2>4, <2>6 DEF Observed
    <3>2. log' = [log EXCEPT ![t] = Trace(t)']
      BY <2>3, <2>4
    <3>3. log' = IF Events(t) % SamplePeriod = 0
                 THEN [log EXCEPT ![t] = Append(Trace(t), Events(t) + 1)]
                 ELSE log
      <4>1. CASE Events(t) % SamplePeriod = 0
        BY <2>6, <3>2, <4>1 DEF Observed
      <4>2. CASE Events(t) % SamplePeriod # 0
        BY <2>6, <3>2, <4>2 DEF Observed
      <4> QED
        BY <4>1, <4>2
    <3>4. Log!Event(t)
      <4>1. /\ open[t] /\ open' = open
            /\ events' = [events EXCEPT ![t] = events[t] + 1]
            /\ log' = IF events[t] % SamplePeriod = 0
                      THEN [log EXCEPT ![t] = Append(log[t], events[t] + 1)]
                      ELSE log
        <5> HIDE DEF log, events, open
        <5> QED
          BY <3>1, <3>3, Zenon
      <4> QED
        BY <4>1, Zenon DEF Log!Event
    <3> QED
      BY <2>1, <3>4 DEF Log!Next
  <2>7. CASE GivenUp(t)
    <3>1. /\ events' = events /\ open[t] /\ open' = [open EXCEPT ![t] = FALSE]
      BY <2>3, <2>4, <2>7 DEF GivenUp
    <3>2. log' = [log EXCEPT ![t] = Append(log[t], 0)]
      BY <2>3, <2>4, <2>7 DEF GivenUp, AbortRecord
    <3>3. Log!GiveUp(t)
      BY <3>1, <3>2, Zenon DEF Log!GiveUp
    <3> QED
      BY <2>1, <3>3 DEF Log!Next
  <2> QED
    BY <2>2, <2>5, <2>6, <2>7 DEF LogStepOf
<1> QED
  BY <1>1, <1>2, PTL DEF Spec, ImplementsEventLog, Log!Spec

=============================================================================
