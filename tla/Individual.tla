----------------------------- MODULE Individual -----------------------------
(***************************************************************************)
(* FPSpy's individual mode (src/src/fpspy.c): every floating point         *)
(* instruction that raises an unmasked exception is trapped (SIGFPE),      *)
(* recorded, re-executed with the exceptions masked and the single-step    *)
(* flag set, trapped again (SIGTRAP), and the exceptions are unmasked.     *)
(* The model holds one process with several threads, the Poisson sampler,  *)
(* the event limit, the trace buffers, and abort_operation(), by which     *)
(* FPSpy "gets out of the way" of the target.                              *)
(*                                                                         *)
(* A signal handler is one action: what it edits is its own thread's, its  *)
(* monitoring context and the registers it interrupted.  The handlers of   *)
(* SIGFPE and SIGTRAP block FPSpy's other signals; that of SIGALRM does    *)
(* not block SIGTRAP, which may interrupt it, as it may interrupt the code *)
(* of FPSpy that runs outside handlers (nested).  abort_operation()        *)
(* changes process-wide state in several calls, so each of them is an      *)
(* action of its own that the other threads may interleave with.  The lock *)
(* of the context table is ContextTable's; here it matters that a handler  *)
(* which interrupts its own thread inside a lookup spins on it for ever.   *)
(***************************************************************************)
EXTENDS Integers, Sequences, FiniteSets

CONSTANTS
  Threads,       \* the threads the target may ever have
  Main,          \* the initial thread
  Inputs,        \* what the target and the user may do, see InputKinds
  MaxContexts,   \* CONFIG_MAX_CONTEXTS
  BufLen,        \* CONFIG_TRACE_BUFLEN, in records
  MaxCount,      \* FPSPY_MAXCOUNT, -1 for no limit
  SamplePeriod,  \* FPSPY_SAMPLE
  Timers,        \* FPSPY_POISSON given
  ZeroDraw,      \* whether the first exponential draw may be 0 us
  Aggressive,    \* FPSPY_AGGRESSIVE
  ControlRound,  \* FPSPY_FORCE_ROUNDING given
  KickStart,     \* FPSPY_KICKSTART
  AbortOnFpe,    \* FPSPY_ABORT
  CreateMonitorFile,  \* not FPSPY_ABORT, and not FPSPY_ENABLE_TRACE=n
  MaxFp          \* bound: trapping instructions per thread

(* "fp": FP instructions that raise an exception; "intdiv": an integer     *)
(* division error, which is a SIGFPE too; "fe": a fenv.h call; "signal": a *)
(* signal() or sigaction() call on a signal FPSpy needs; "create": a       *)
(* pthread_create call; "openfail": the trace file of a new thread cannot  *)
(* be opened; "exit": pthread_exit; "cleanup": the target's cleanup        *)
(* handlers and destructors, which run inside pthread_exit, do any of      *)
(* these; "quit": exit(), or a SIGINT; "ignored": a SIGINT in a process    *)
(* that was started with SIGINT ignored.                                   *)
InputKinds ==
  {"fp", "intdiv", "fe", "signal", "create", "openfail", "exit", "cleanup", "quit", "ignored"}

ASSUME ConstantsAssumption ==
  /\ Main \in Threads
  /\ Inputs \subseteq InputKinds
  /\ MaxContexts \in Nat \ {0}
  /\ BufLen \in Nat
  /\ MaxCount \in Nat \cup {-1}
  /\ SamplePeriod \in Nat \ {0}
  /\ Timers \in BOOLEAN /\ ZeroDraw \in BOOLEAN
  /\ Aggressive \in BOOLEAN /\ ControlRound \in BOOLEAN
  /\ KickStart \in BOOLEAN /\ AbortOnFpe \in BOOLEAN
  /\ CreateMonitorFile \in BOOLEAN /\ (AbortOnFpe => ~CreateMonitorFile)
  /\ MaxFp \in Nat

VARIABLES
  mc,         \* thread -> its monitoring_context_t
  tracked,    \* thread -> whether a context slot holds its tid
  uc,         \* thread -> its registers, as a handler finds them in ucontext_t
  pc,         \* thread -> where it is in the code of FPSpy, or "user"
  back,       \* thread -> the step its abort_operation() returns to from a
              \*           handler, "none" when it is not in a handler
  under,      \* thread -> the step its interrupted sigalrm_handler() returns to
  left,       \* the threads that are inside orig_pthread_exit()
  file,       \* thread -> the records written to its trace file
  seen,       \* thread -> trapping FP instructions it has issued (history)
  proc,       \* the fate of the process
  saFpe, saTrap, saAlrm,  \* whose the signal dispositions are
  aborted, origRound,     \* the globals of the same name
  timer,      \* whether the process's interval timer is armed
  pend,       \* whether a SIGTRAP is pending on the process
  leftDelayed,\* whether a freed slot still has delayed_processing set
  nested      \* whether a SIGTRAP has interrupted FPSpy's own code (history)

tvars == <<mc, tracked, uc, pc, back, under, left, file, seen>>
gvars == <<proc, saFpe, saTrap, saAlrm, aborted, origRound, timer, pend, leftDelayed, nested>>
vars == <<tvars, gvars>>

States == {"INIT", "AWAIT_FPE", "AWAIT_TRAP", "ABORT"}
Rounds == {"target", "ours", "default"}

(* The steps of the code a thread can be at.  "user" is the target's own   *)
(* code; "tramp" the thread trampoline; "kick" a kick_self() in state      *)
(* INIT; the AbortSteps are the calls of abort_operation() in their order. *)
(* The AlarmSteps say what is left to do in a sigalrm_handler() that a     *)
(* SIGTRAP has interrupted: to look its context up, to switch the sampler  *)
(* or to defer that.                                                       *)
AbortSteps == {"restoreFpe", "mark", "abortKick", "restoreTrap", "setAborted"}
AlarmSteps == {"find", "switch", "defer"}
Steps ==
  {"unborn", "boot", "install", "tramp", "kick", "user", "gone"}
    \cup AbortSteps \cup AlarmSteps

(* The abort record: a record of all ones instead of an event's number.    *)
AbortRecord == 0

Contexts ==
  [state : States, count : Nat, inTrap : BOOLEAN, on : BOOLEAN,
   delayed : BOOLEAN, buf : Seq(Nat)]

(* mask: the handled exceptions are masked; dirty: sticky exception flags  *)
(* are set; tf: the single-step flag; rnd: the rounding configuration, the *)
(* target's, FPSpy's or the one a signal handler is started with;          *)
(* insn: the instruction at the program counter, when it has faulted and   *)
(* will execute again.                                                     *)
Registers ==
  [mask : BOOLEAN, dirty : BOOLEAN, tf : BOOLEAN, rnd : Rounds,
   insn : {"none", "fp", "intdiv"}]

(* Every variable has its type; counts and record numbers never go below 0 *)
(* (monitoring_context_t and the globals of fpspy.c).                      *)
TypeOK ==
  /\ mc \in [Threads -> Contexts]
  /\ tracked \in [Threads -> BOOLEAN]
  /\ uc \in [Threads -> Registers]
  /\ pc \in [Threads -> Steps]
  /\ back \in [Threads -> Steps \cup {"none"}]
  /\ under \in [Threads -> Steps]
  /\ left \subseteq Threads
  /\ file \in [Threads -> Seq(Nat)]
  /\ seen \in [Threads -> Nat]
  /\ proc \in {"up", "unmonitored", "exited", "leaked", "crashed", "hung"}
  /\ {saFpe, saTrap, saAlrm} \subseteq {"fpspy", "old"}
  /\ aborted \in BOOLEAN /\ timer \in BOOLEAN /\ pend \in BOOLEAN
  /\ leftDelayed \in BOOLEAN /\ nested \in BOOLEAN
  /\ origRound \in Rounds

-----------------------------------------------------------------------------
(* The architecture layer on a saved register context.                     *)

arch_clear_fp_exceptions(u) == [u EXCEPT !.dirty = FALSE]
arch_mask_fp_traps(u) == [u EXCEPT !.mask = TRUE]
arch_unmask_fp_traps(u) == [u EXCEPT !.mask = FALSE]
arch_set_trap_mode(u) == [u EXCEPT !.tf = TRUE]
arch_reset_trap_mode(u) == [u EXCEPT !.tf = FALSE]
SetRound(u, r) == IF ControlRound THEN [u EXCEPT !.rnd = r] ELSE u

(* What the handlers do to registers, named for the reason they do it.  A  *)
(* definition with an underscored suffix, here and below, is a mutant of   *)
(* the one that follows it: a bug the properties must tell from the code.  *)
Quiesce_keepsRounding(u) ==
  arch_reset_trap_mode(arch_mask_fp_traps(arch_clear_fp_exceptions(u)))
Quiesce(u) ==
  arch_reset_trap_mode(SetRound(arch_mask_fp_traps(arch_clear_fp_exceptions(u)), origRound))
Watch_keepsStepping(u) ==
  SetRound(arch_unmask_fp_traps(arch_clear_fp_exceptions(u)), "ours")
Watch(u) ==
  arch_reset_trap_mode(SetRound(arch_unmask_fp_traps(arch_clear_fp_exceptions(u)), "ours"))
StepOver_doesNotStep(u) ==
  SetRound(arch_mask_fp_traps(arch_clear_fp_exceptions(u)), "ours")
StepOver(u) ==
  arch_set_trap_mode(SetRound(arch_mask_fp_traps(arch_clear_fp_exceptions(u)), "ours"))

-----------------------------------------------------------------------------
(* Trace records.                                                          *)

Buffered(m, r) == [m EXCEPT !.buf = Append(m.buf, r)]
BufFull(m) == Len(m.buf) >= BufLen

(* t's context becomes m with record r pushed: the buffer is written out   *)
(* once it is full, which with BufLen = 0 or 1 it is at once.  Nothing is  *)
(* recorded when there is no trace file.                                   *)
push_trace_record(t, m, r) ==
  LET n == Buffered(m, r) IN
  IF ~CreateMonitorFile
  THEN mc' = [mc EXCEPT ![t] = m] /\ file' = file
  ELSE IF BufFull(n)
  THEN /\ mc' = [mc EXCEPT ![t] = [n EXCEPT !.buf = <<>>]]
       /\ file' = [file EXCEPT ![t] = @ \o n.buf]
  ELSE mc' = [mc EXCEPT ![t] = n] /\ file' = file

(* Whether the event the context is about to handle is to be recorded, and *)
(* whether it has handled as many as it may.                               *)
Sampled_offByOne(m) == (m.count + 1) % SamplePeriod = 0
Sampled(m) == m.count % SamplePeriod = 0
LimitReached(c) == MaxCount # -1 /\ c >= MaxCount

(* The context after its instruction has been stepped over.                *)
Counted_down(m) == [m EXCEPT !.count = @ - 1, !.state = "AWAIT_FPE"]
Counted_not(m) == [m EXCEPT !.state = "AWAIT_FPE"]
Counted(m) == [m EXCEPT !.count = @ + 1, !.state = "AWAIT_FPE"]

-----------------------------------------------------------------------------
(* The Poisson sampler.                                                    *)

FlipSampler(m) == [m EXCEPT !.on = ~m.on, !.delayed = FALSE]
FlipTraps_keepsFlags(m, u) ==
  arch_reset_trap_mode(IF m.on THEN arch_mask_fp_traps(u) ELSE arch_unmask_fp_traps(u))
FlipTraps(m, u) ==
  LET v == arch_clear_fp_exceptions(u) IN
  arch_reset_trap_mode(IF m.on THEN arch_mask_fp_traps(v) ELSE arch_unmask_fp_traps(v))

(* setitimer() with the first draw, which disarms the timer when it is 0.  *)
init_sampler ==
  IF Timers THEN timer' \in (IF ZeroDraw THEN BOOLEAN ELSE {TRUE})
            ELSE timer' = timer

(* A handler of t that will return to step b changes the registers it has  *)
(* interrupted to v.  Above an interrupted sigalrm_handler() those are that *)
(* handler's own, and lost when it returns.                                *)
Edited(t, b, v) == IF b \in AlarmSteps THEN uc ELSE [uc EXCEPT ![t] = v]

(* The later draws are at least 1, so the timer is always armed again.     *)
update_sampler_doesNotRearm(t, m, u, b) ==
  /\ mc' = [mc EXCEPT ![t] = FlipSampler(m)]
  /\ uc' = Edited(t, b, FlipTraps(m, u))
  /\ timer' = FALSE
update_sampler(t, m, u, b) ==
  /\ mc' = [mc EXCEPT ![t] = FlipSampler(m)]
  /\ uc' = Edited(t, b, FlipTraps(m, u))
  /\ timer' = TRUE

-----------------------------------------------------------------------------
(* Outcomes shared by the actions.                                         *)

Die(fate) == proc' = fate /\ UNCHANGED <<tvars, saFpe, saTrap, saAlrm, aborted,
                                         origRound, timer, pend, leftDelayed, nested>>

(* abort_operation() called by t, to return to step b from the handler it  *)
(* is in: nothing to do if the process has aborted before.                 *)
EnterAbort_again(t, b) ==
  pc' = [pc EXCEPT ![t] = "restoreFpe"] /\ back' = [back EXCEPT ![t] = b]
EnterAbort(t, b) ==
  IF aborted
  THEN pc' = [pc EXCEPT ![t] = IF b = "none" THEN "user" ELSE b] /\ back' = back
  ELSE pc' = [pc EXCEPT ![t] = "restoreFpe"] /\ back' = [back EXCEPT ![t] = b]

Running(t) == proc = "up" /\ pc[t] = "user"

(* t executes the target's code and is at an instruction boundary that     *)
(* FPSpy is not in the middle of handling.                                 *)
Calls(t) == t \in left => "cleanup" \in Inputs
InTarget(t) == Running(t) /\ uc[t].insn = "none" /\ Calls(t)

-----------------------------------------------------------------------------
(* brk_trap_handler(), entered by t with registers u and the timer armed   *)
(* or not, to return to step b.                                            *)

BrkInit(t, u, b, armed) ==
  /\ tracked[t] /\ mc[t].state = "INIT"
  /\ origRound' = u.rnd
  /\ uc' = Edited(t, b, Watch(u))
  /\ mc' = [mc EXCEPT ![t].state = "AWAIT_FPE"]
  /\ pc' = [pc EXCEPT ![t] = b]
  /\ timer' = armed
  /\ UNCHANGED back

BrkStepped(t, u, b, armed) ==
  /\ tracked[t] /\ mc[t].state = "AWAIT_TRAP"
  /\ LET m == Counted(mc[t])
         v == IF LimitReached(m.count) THEN Quiesce(u) ELSE Watch(u)
     IN IF m.delayed
        THEN update_sampler(t, m, v, b)
        ELSE mc' = [mc EXCEPT ![t] = m] /\ uc' = Edited(t, b, v) /\ timer' = armed
  /\ pc' = [pc EXCEPT ![t] = b]
  /\ UNCHANGED <<back, origRound>>

BrkAborted(t, u, b, armed) ==
  /\ tracked[t] /\ mc[t].state = "ABORT"
  /\ uc' = Edited(t, b, Quiesce(u))
  /\ pc' = [pc EXCEPT ![t] = b]
  /\ timer' = armed
  /\ UNCHANGED <<mc, back, origRound>>

(* A SIGTRAP nobody waits for, with a context or without one.              *)
BrkSurprise(t, u, b, armed) ==
  /\ tracked[t] => mc[t].state = "AWAIT_FPE"
  /\ uc' = Edited(t, b, Quiesce(u))
  /\ mc' = IF tracked[t] THEN [mc EXCEPT ![t].inTrap = TRUE] ELSE mc
  /\ EnterAbort(t, b)
  /\ timer' = armed
  /\ UNCHANGED origRound

brk_trap_handler(t, u, b, armed) ==
  /\ \/ BrkInit(t, u, b, armed)
     \/ BrkStepped(t, u, b, armed)
     \/ BrkAborted(t, u, b, armed)
     \/ BrkSurprise(t, u, b, armed)
  /\ nested' = (nested \/ b # "user")
  /\ UNCHANGED <<tracked, left, file, seen, proc, saFpe, saTrap, saAlrm, aborted, leftDelayed>>

(* A SIGTRAP delivered to t: the handler, or the target's disposition.  p  *)
(* says whether a SIGTRAP stays pending on the process, b where t goes on. *)
SigTrap(t, u, p, b) ==
  IF saTrap = "fpspy"
  THEN brk_trap_handler(t, u, b, timer) /\ pend' = p /\ under' = under
  ELSE Die("leaked")

-----------------------------------------------------------------------------
(* fp_trap_handler(), entered by t because of instruction i, which is its  *)
(* n-th trapping instruction.                                              *)

Fault(t, i, n) ==
  LET u == [uc[t] EXCEPT !.insn = i, !.dirty = @ \/ i = "fp"]
      waiting == mc[t].state = "AWAIT_FPE"
      m == IF waiting THEN [mc[t] EXCEPT !.state = "AWAIT_TRAP"] ELSE mc[t]
  IN /\ IF Sampled(mc[t])
        THEN push_trace_record(t, m, n)
        ELSE mc' = [mc EXCEPT ![t] = m] /\ file' = file
     /\ uc' = [uc EXCEPT ![t] = IF waiting THEN StepOver(u) ELSE Quiesce(u)]
     /\ IF waiting THEN UNCHANGED <<pc, back>> ELSE EnterAbort(t, "user")
     /\ seen' = [seen EXCEPT ![t] = n]
     /\ UNCHANGED <<tracked, under, left, gvars>>

(* Without a context the handler reads through the null pointer it has     *)
(* just tested, and the process dies.                                      *)
fp_trap_handler(t, i, n) ==
  IF AbortOnFpe THEN Die("crashed")
  ELSE IF ~tracked[t] THEN Die("leaked")
  ELSE Fault(t, i, n)

-----------------------------------------------------------------------------
(* The target executes.                                                    *)

(* The number of the instruction i at t's program counter, new or again.   *)
Number(t) == IF uc[t].insn = "none" THEN seen[t] + 1 ELSE seen[t]
AtInsn(t, i) ==
  \/ uc[t].insn = i
  \/ uc[t].insn = "none" /\ i \in Inputs /\ Calls(t) /\ seen[t] < MaxFp

(* A floating point instruction with an unmasked exception: SIGFPE.        *)
FpTraps(t) ==
  /\ Running(t) /\ AtInsn(t, "fp") /\ ~uc[t].mask
  /\ IF saFpe = "fpspy" THEN fp_trap_handler(t, "fp", Number(t)) ELSE Die("leaked")

(* The same instruction with the exceptions masked only sets sticky flags; *)
(* in single-step mode a SIGTRAP follows it.                               *)
Executed(t) == [uc[t] EXCEPT !.insn = "none", !.dirty = TRUE]
FpSilent(t) ==
  /\ Running(t) /\ "fp" \in Inputs /\ Calls(t)
  /\ uc[t].insn # "intdiv" /\ uc[t].mask /\ ~uc[t].tf
  /\ uc' = [uc EXCEPT ![t] = Executed(t)]
  /\ UNCHANGED <<mc, tracked, pc, back, under, left, file, seen, gvars>>
FpStepped(t) ==
  /\ Running(t) /\ uc[t].insn = "fp" /\ uc[t].mask /\ uc[t].tf
  /\ SigTrap(t, Executed(t), pend, "user")

(* An integer division error: SIGFPE whatever the FP masks say.            *)
IntDivTraps(t) ==
  /\ Running(t) /\ AtInsn(t, "intdiv")
  /\ IF saFpe = "fpspy" THEN fp_trap_handler(t, "intdiv", Number(t)) ELSE Die("crashed")

(* Registers as a handler starts with them (x86: the default environment). *)
HandlerRegisters ==
  [mask |-> TRUE, dirty |-> FALSE, tf |-> FALSE, rnd |-> "default", insn |-> "none"]

(* A SIGTRAP pending on the process goes to a thread that does not block   *)
(* it: one that is in no handler, or in a sigalrm_handler().               *)
TrapOpen(t) ==
  \/ pc[t] \in {"user", "tramp", "kick"} \cup AlarmSteps
  \/ pc[t] \in AbortSteps /\ back[t] = "none"
DeliverTrap(t) ==
  /\ proc = "up" /\ pend /\ TrapOpen(t)
  /\ SigTrap(t, IF pc[t] \in AlarmSteps THEN HandlerRegisters ELSE uc[t], FALSE, pc[t])

(* The interval timer expires and t takes the signal, unless it is in a    *)
(* handler, which blocks it.                                               *)
AlarmOpen(t) ==
  /\ proc = "up" /\ timer /\ pc[t] \notin {"unborn", "gone"} \cup AlarmSteps
  /\ pc[t] \in AbortSteps => back[t] = "none"
Defer(t) ==
  /\ mc' = IF tracked[t] THEN [mc EXCEPT ![t].delayed = TRUE] ELSE mc
  /\ uc' = uc
AlarmSwitches(t) == tracked[t] /\ mc[t].state = "AWAIT_FPE"
sigalrm_handler(t, armed) ==
  IF AlarmSwitches(t)
  THEN update_sampler(t, mc[t], uc[t], "user")
  ELSE Defer(t) /\ timer' = armed
Alarm(t) ==
  /\ AlarmOpen(t)
  /\ IF saAlrm = "fpspy"
     THEN /\ sigalrm_handler(t, FALSE)
          /\ UNCHANGED <<tracked, pc, back, under, left, file, seen, proc, saFpe, saTrap, saAlrm,
                         aborted, origRound, pend, leftDelayed, nested>>
     ELSE Die("leaked")

(* A SIGTRAP interrupts the handler before its lookup or after it has      *)
(* tested the state, and the handler goes on from there.                   *)
AlarmTrapped(t) ==
  /\ AlarmOpen(t) /\ saAlrm = "fpspy" /\ pend /\ saTrap = "fpspy"
  /\ \E b \in {"find", IF AlarmSwitches(t) THEN "switch" ELSE "defer"} :
       brk_trap_handler(t, HandlerRegisters, b, FALSE)
  /\ under' = [under EXCEPT ![t] = pc[t]]
  /\ pend' = FALSE
AlarmResumes(t) ==
  /\ proc = "up" /\ pc[t] \in AlarmSteps
  /\ CASE pc[t] = "find"   -> sigalrm_handler(t, timer)
       [] pc[t] = "switch" -> update_sampler(t, mc[t], uc[t], "user")
       [] pc[t] = "defer"  -> Defer(t) /\ timer' = timer
  /\ pc' = [pc EXCEPT ![t] = under[t]] /\ under' = [under EXCEPT ![t] = "user"]
  /\ UNCHANGED <<tracked, back, left, file, seen, proc, saFpe, saTrap, saAlrm, aborted, origRound,
                 pend, leftDelayed, nested>>

(* A signal interrupts t inside find_, alloc_ or free_monitoring_context() *)
(* and its handler waits for the lock that t holds: t hangs, and so does   *)
(* every other thread at its next lookup.                                  *)
HoldsLock(t) ==
  \/ pc[t] = "mark" /\ back[t] = "none"
  \/ pc[t] \in {"tramp", "find"}
  \/ InTarget(t) /\ t \notin left /\ Inputs \cap {"exit", "quit"} # {}
AlarmHangs(t) ==
  /\ AlarmOpen(t) /\ saAlrm = "fpspy" /\ HoldsLock(t)
  /\ Die("hung")
TrapHangs(t) ==
  /\ proc = "up" /\ pend /\ saTrap = "fpspy"
  /\ \/ TrapOpen(t) /\ HoldsLock(t)
     \/ AlarmOpen(t) /\ saAlrm = "fpspy"
  /\ Die("hung")

-----------------------------------------------------------------------------
(* Threads come and go.                                                    *)

FreshContext(d) ==
  [state |-> "INIT", count |-> 0, inTrap |-> FALSE, on |-> TRUE, delayed |-> d, buf |-> <<>>]

(* bringup_monitoring_context() in a free slot.                            *)
NewContext(t) ==
  /\ tracked' = [tracked EXCEPT ![t] = TRUE]
  /\ \E d \in {FALSE, leftDelayed} : mc' = [mc EXCEPT ![t] = FreshContext(d)]
  /\ init_sampler

(* bringup(), up to the first context.  If it cannot be made nothing is    *)
(* installed and the target runs on its own.                               *)
Boot ==
  /\ proc = "up" /\ pc[Main] = "boot"
  /\ NewContext(Main)
  /\ pc' = [pc EXCEPT ![Main] = "install"]
  /\ UNCHANGED <<uc, back, under, left, file, seen, proc, saFpe, saTrap, saAlrm, aborted,
                 origRound, pend, leftDelayed, nested>>
BootFails ==
  /\ proc = "up" /\ pc[Main] = "boot" /\ "openfail" \in Inputs
  /\ Die("unmonitored")

(* bringup(), after the first context: the handlers are installed and the  *)
(* process kicks itself, unless it is to be started by a SIGTRAP from      *)
(* outside, which may come at any time from now on.                        *)
Install ==
  /\ proc = "up" /\ pc[Main] = "install"
  /\ saFpe' = "fpspy" /\ saTrap' = "fpspy" /\ saAlrm' = IF Timers THEN "fpspy" ELSE saAlrm
  /\ pc' = [pc EXCEPT ![Main] = IF KickStart THEN "user" ELSE "kick"]
  /\ pend' = KickStart
  /\ UNCHANGED <<mc, tracked, uc, back, under, left, file, seen, proc, aborted, origRound, timer,
                 leftDelayed, nested>>

(* pthread_create(): thread u starts with t's FP registers.                *)
Create(t, u) ==
  /\ InTarget(t) /\ "create" \in Inputs /\ pc[u] = "unborn"
  /\ pc' = [pc EXCEPT ![u] = IF aborted THEN "user" ELSE "tramp"]
  /\ uc' = [uc EXCEPT ![u] = uc[t]]
  /\ UNCHANGED <<mc, tracked, back, under, left, file, seen, gvars>>

(* The trampoline of a new thread: bringup_monitoring_context() succeeds,  *)
(* or fails and the thread runs without a context.                         *)
Tramp(t) ==
  /\ proc = "up" /\ pc[t] = "tramp"
  /\ \/ /\ Cardinality({u \in Threads : tracked[u]}) < MaxContexts
        /\ NewContext(t)
        /\ pc' = [pc EXCEPT ![t] = "kick"]
     \/ /\ \/ Cardinality({u \in Threads : tracked[u]}) >= MaxContexts
           \/ "openfail" \in Inputs
        /\ pc' = [pc EXCEPT ![t] = "user"]
        /\ UNCHANGED <<tracked, mc, timer>>
  /\ uc' = [uc EXCEPT ![t] = arch_clear_fp_exceptions(@)]
  /\ UNCHANGED <<back, under, left, file, seen, proc, saFpe, saTrap, saAlrm, aborted, origRound,
                 pend, leftDelayed, nested>>

(* kick_self() in state INIT.  kill() names the caller, which runs and     *)
(* does not block SIGTRAP, so that the kernel gives the signal to it.      *)
Kick(t) == proc = "up" /\ pc[t] = "kick" /\ SigTrap(t, uc[t], pend, "user")

(* teardown_monitoring_context(): the buffer is written and the slot       *)
(* freed, with the delayed_processing it holds; registers stay as they     *)
(* are.                                                                    *)
teardown_monitoring_context_doesNotFlush(t) ==
  IF tracked[t]
  THEN /\ tracked' = [tracked EXCEPT ![t] = FALSE]
       /\ leftDelayed' = (leftDelayed \/ mc[t].delayed)
       /\ UNCHANGED <<file, mc>>
  ELSE UNCHANGED <<file, mc, tracked, leftDelayed>>
teardown_monitoring_context(t) ==
  IF tracked[t]
  THEN /\ file' = [file EXCEPT ![t] = @ \o mc[t].buf]
       /\ mc' = [mc EXCEPT ![t].buf = <<>>, ![t].on = TRUE, ![t].delayed = FALSE]
       /\ tracked' = [tracked EXCEPT ![t] = FALSE]
       /\ leftDelayed' = (leftDelayed \/ mc[t].delayed)
  ELSE UNCHANGED <<file, mc, tracked, leftDelayed>>

(* pthread_exit(): t's context is torn down, its traps stay as they are,   *)
(* and orig_pthread_exit() runs the target's cleanup handlers.             *)
ThreadExit(t) ==
  /\ InTarget(t) /\ "exit" \in Inputs /\ t \notin left
  /\ teardown_monitoring_context(t)
  /\ left' = left \cup {t}
  /\ UNCHANGED <<uc, pc, back, under, seen, proc, saFpe, saTrap, saAlrm, aborted, origRound, timer,
                 pend, nested>>

(* The thread ends, its registers with it, and with the last thread the    *)
(* process.                                                                *)
Alive(t) == pc[t] \notin {"unborn", "gone"}
ThreadEnd(t) ==
  /\ Running(t) /\ t \in left /\ uc[t].insn = "none"
  /\ uc' = [uc EXCEPT ![t] = HandlerRegisters]
  /\ pc' = [pc EXCEPT ![t] = "gone"]
  /\ proc' = IF \E u \in Threads \ {t} : Alive(u) THEN proc ELSE "exited"
  /\ UNCHANGED <<mc, tracked, back, under, left, file, seen, saFpe, saTrap, saAlrm, aborted,
                 origRound, timer, pend, leftDelayed, nested>>

(* exit(), or a SIGINT: fpspy_deinit() by the thread that calls it.  The   *)
(* other contexts are closed without being flushed.                        *)
ProcessExit(t) ==
  /\ Running(t) /\ "quit" \in Inputs
  /\ teardown_monitoring_context(t)
  /\ proc' = "exited"
  /\ UNCHANGED <<uc, pc, back, under, left, seen, saFpe, saTrap, saAlrm, aborted, origRound, timer,
                 pend, nested>>

(* A SIGINT that the process was started to ignore: sigint_handler() calls *)
(* fpspy_deinit() and then the earlier disposition as if it were a         *)
(* function, which SIG_IGN is not.                                         *)
Interrupted(t) ==
  /\ Running(t) /\ "ignored" \in Inputs
  /\ teardown_monitoring_context(t)
  /\ proc' = "crashed"
  /\ UNCHANGED <<uc, pc, back, under, left, seen, saFpe, saTrap, saAlrm, aborted, origRound, timer,
                 pend, nested>>

-----------------------------------------------------------------------------
(* abort_operation(): the calls that make it, and its steps in order.      *)

(* A fenv.h call always calls it, a signal() or sigaction() call unless    *)
(* FPSpy is aggressive or has aborted.  fedisableexcept() and              *)
(* feclearexcept() act on the live registers.                              *)
SignalAborts == ~Aggressive /\ ~aborted
TargetConflict(t) ==
  /\ InTarget(t)
  /\ "fe" \in Inputs \/ ("signal" \in Inputs /\ SignalAborts)
  /\ uc' = IF aborted THEN uc
           ELSE [uc EXCEPT ![t] = arch_clear_fp_exceptions(arch_mask_fp_traps(@))]
  /\ EnterAbort(t, "none")
  /\ UNCHANGED <<mc, tracked, under, left, file, seen, gvars>>

At(t, s) == proc = "up" /\ pc[t] = s
Goto(t, s) == pc' = [pc EXCEPT ![t] = s]

AbortRestoreFpe(t) ==
  /\ At(t, "restoreFpe") /\ Goto(t, "mark")
  /\ saFpe' = "old"
  /\ UNCHANGED <<mc, tracked, uc, back, under, left, file, seen, proc, saTrap, saAlrm, aborted,
                 origRound, timer, pend, leftDelayed, nested>>

AbortMark(t) ==
  /\ At(t, "mark") /\ Goto(t, "abortKick")
  /\ IF tracked[t]
     THEN push_trace_record(t, [mc[t] EXCEPT !.state = "ABORT"], AbortRecord)
     ELSE UNCHANGED <<mc, file>>
  /\ UNCHANGED <<tracked, uc, back, under, left, seen, gvars>>

(* kick_self(), skipped when the interrupted registers have been restored  *)
(* by brk_trap_handler() already.  In the thread itself the SIGTRAP is     *)
(* taken at once; inside a handler it is blocked and stays pending.  A     *)
(* thread without a context ends in a second abort_operation() inside the  *)
(* handler, whose own kick is pending when SIGTRAP is given back.          *)
KickNeeded(m, has) == ~has \/ ~m.inTrap
AbortKick(t) ==
  /\ At(t, "abortKick")
  /\ \/ /\ ~KickNeeded(mc[t], tracked[t])
        /\ Goto(t, "restoreTrap")
        /\ UNCHANGED <<uc, gvars>>
     \/ /\ KickNeeded(mc[t], tracked[t]) /\ back[t] # "none"
        /\ pend' = TRUE
        /\ Goto(t, "restoreTrap")
        /\ UNCHANGED <<uc, proc, saFpe, saTrap, saAlrm, aborted, origRound, timer, leftDelayed,
                       nested>>
     \/ /\ KickNeeded(mc[t], tracked[t]) /\ back[t] = "none"
        /\ saTrap = "fpspy" /\ tracked[t]
        /\ uc' = [uc EXCEPT ![t] = Quiesce(@)]
        /\ Goto(t, "restoreTrap")
        /\ UNCHANGED gvars
     \/ /\ KickNeeded(mc[t], tracked[t]) /\ back[t] = "none"
        /\ saTrap = "old" \/ ~tracked[t]
        /\ proc' = "leaked"
        /\ UNCHANGED <<uc, pc, saFpe, saTrap, saAlrm, aborted, origRound, timer, pend,
                       leftDelayed, nested>>
  /\ UNCHANGED <<mc, tracked, back, under, left, file, seen>>

AbortRestoreTrap(t) ==
  /\ At(t, "restoreTrap") /\ Goto(t, "setAborted")
  /\ saTrap' = "old"
  /\ UNCHANGED <<mc, tracked, uc, back, under, left, file, seen, proc, saFpe, saAlrm, aborted,
                 origRound, timer, pend, leftDelayed, nested>>

(* The end of abort_operation(): t goes on in the target, or with what the *)
(* handler it is in has interrupted.                                       *)
Return(t) ==
  /\ Goto(t, IF back[t] = "none" THEN "user" ELSE back[t])
  /\ back' = [back EXCEPT ![t] = "none"]
AbortSetAborted_forgets(t) ==
  /\ At(t, "setAborted") /\ Return(t)
  /\ UNCHANGED <<mc, tracked, uc, under, left, file, seen, gvars>>
AbortSetAborted(t) ==
  /\ At(t, "setAborted") /\ Return(t)
  /\ aborted' = TRUE
  /\ UNCHANGED <<mc, tracked, uc, under, left, file, seen, proc, saFpe, saTrap, saAlrm, origRound,
                 timer, pend, leftDelayed, nested>>

-----------------------------------------------------------------------------
Init ==
  /\ mc = [t \in Threads |-> FreshContext(FALSE)]
  /\ tracked = [t \in Threads |-> FALSE]
  /\ uc = [t \in Threads |->
            [mask |-> TRUE, dirty |-> FALSE, tf |-> FALSE, rnd |-> "target", insn |-> "none"]]
  /\ pc = [t \in Threads |-> IF t = Main THEN "boot" ELSE "unborn"]
  /\ back = [t \in Threads |-> "none"] /\ under = [t \in Threads |-> "user"]
  /\ left = {}
  /\ file = [t \in Threads |-> <<>>]
  /\ seen = [t \in Threads |-> 0]
  /\ proc = "up"
  /\ saFpe = "old" /\ saTrap = "old" /\ saAlrm = "old"
  /\ aborted = FALSE /\ pend = FALSE /\ leftDelayed = FALSE /\ nested = FALSE
  /\ timer = FALSE
  /\ origRound = "target"

Abort(t) ==
  \/ AbortRestoreFpe(t)
  \/ AbortMark(t)
  \/ AbortKick(t)
  \/ AbortRestoreTrap(t)
  \/ AbortSetAborted(t)

Target(t) ==
  \/ FpTraps(t)
  \/ FpSilent(t)
  \/ IntDivTraps(t)
  \/ TargetConflict(t)
  \/ ThreadExit(t)
  \/ ThreadEnd(t)
  \/ ProcessExit(t)
  \/ Interrupted(t)
  \/ \E u \in Threads : Create(t, u)

Kernel(t) ==
  \/ FpStepped(t)
  \/ DeliverTrap(t)
  \/ Alarm(t)
  \/ AlarmTrapped(t)
  \/ AlarmHangs(t)
  \/ TrapHangs(t)

Terminated == proc # "up" /\ UNCHANGED vars

Next ==
  \/ Boot
  \/ BootFails
  \/ Install
  \/ \E t \in Threads :
       Target(t) \/ Kernel(t) \/ Tramp(t) \/ Kick(t) \/ Abort(t) \/ AlarmResumes(t)
  \/ Terminated

Spec == Init /\ [][Next]_vars

(* A thread that is scheduled runs FPSpy's own code to its end and         *)
(* executes the instruction it has returned to from a handler; the kernel  *)
(* delivers a due signal to some thread.  What the target does next is up  *)
(* to the target.                                                          *)
Reexecute(t) ==
  uc[t].insn # "none" /\ (FpStepped(t) \/ FpTraps(t) \/ FpSilent(t) \/ IntDivTraps(t))
Fairness ==
  /\ WF_vars(Boot \/ BootFails \/ Install)
  /\ \A t \in Threads :
       /\ WF_vars(Reexecute(t))
       /\ WF_vars(Tramp(t) \/ Kick(t) \/ Abort(t) \/ AlarmResumes(t))
  /\ WF_vars(\E t \in Threads : Alarm(t))
  /\ WF_vars(\E t \in Threads : DeliverTrap(t))
FairSpec == Spec /\ Fairness

-----------------------------------------------------------------------------
(* Safety.                                                                 *)

(* What a monitoring context's state promises of the registers: stepping   *)
(* over the faulted instruction with everything masked in AWAIT_TRAP; in   *)
(* AWAIT_FPE not stepping, and watching unless the sampler is off or the   *)
(* event limit is reached; silent in ABORT.                                *)
RegistersMatch(t) ==
  /\ mc[t].state = "AWAIT_TRAP" => uc[t].mask /\ uc[t].tf /\ uc[t].insn # "none"
  /\ mc[t].state = "AWAIT_FPE"  => /\ ~uc[t].tf
                                   /\ ~mc[t].on => uc[t].mask
                                   /\ uc[t].mask => ~mc[t].on \/ LimitReached(mc[t].count)
  /\ mc[t].state = "ABORT"      => uc[t].mask /\ ~uc[t].tf
  /\ mc[t].state = "INIT"       => ~uc[t].tf

(* The registers of a monitored thread in the target's code are what its   *)
(* state promises, after every handler and whatever signals came in        *)
(* between (brk_trap_handler, fp_trap_handler, update_sampler,             *)
(* abort_operation), until a SIGTRAP interrupts FPSpy's own code: in       *)
(* sigalrm_handler() it changes the state and not the thread's registers.  *)
TrapsMatchState ==
  ~nested => \A t \in Threads : tracked[t] /\ pc[t] = "user" => RegistersMatch(t)

(* No sticky exception flag is left over when traps are unmasked, so the   *)
(* mxcsr of a record shows the recorded instruction's exceptions only      *)
(* (every arch_clear_fp_exceptions call before an unmask).                 *)
RecordsShowOwnFlags ==
  \A t \in Threads : tracked[t] /\ pc[t] = "user" /\ ~uc[t].mask => ~uc[t].dirty

(* The records of every SamplePeriod-th of n events, and t's trace, the    *)
(* part written to the file and the part still buffered.                   *)
SampledUpTo(n) == [k \in 1..((n + SamplePeriod - 1) \div SamplePeriod) |-> (k - 1) * SamplePeriod + 1]
Trace(t) == file[t] \o mc[t].buf

(* The trace of a thread, written or buffered, is exactly every            *)
(* SamplePeriod-th trapping instruction in order, once each, and then the  *)
(* abort record if the thread has aborted (fp_trap_handler's               *)
(* count % sample_period, push_trace_record, abort_operation).             *)
TraceIsExact ==
  \A t \in Threads :
    Trace(t) = SampledUpTo(seen[t]) \o IF mc[t].state = "ABORT" THEN <<AbortRecord>> ELSE <<>>

(* A thread records at most MaxCount events (maxcount: "maximum number of  *)
(* events to record, per thread").                                         *)
EventLimit ==
  MaxCount # -1 =>
    \A t \in Threads : Cardinality({i \in DOMAIN Trace(t) : Trace(t)[i] # AbortRecord}) <= MaxCount

(* FPSpy never makes a signal of its own reach the target's disposition,   *)
(* which would terminate the target.                                       *)
NothingLeaks == proc # "leaked"

(* When the process exits every record is in a trace file                  *)
(* (sigint_handler, fpspy_deinit).                                         *)
NothingLost == proc = "exited" => \A t \in Threads : mc[t].buf = <<>>

(* A monitored thread whose monitoring is over, by abort or by an event    *)
(* that reached the limit, rounds the way the target did before FPSpy      *)
(* (orig_round_config), until a SIGTRAP interrupts FPSpy's own code: one   *)
(* inside sigalrm_handler() saves that handler's rounding for the target's.*)
Over(t) ==
  \/ mc[t].state = "ABORT"
  \/ mc[t].state = "AWAIT_FPE" /\ mc[t].count > 0 /\ LimitReached(mc[t].count)
RoundingRestored ==
  ~nested => \A t \in Threads :
    tracked[t] /\ pc[t] = "user" /\ Over(t) => uc[t].rnd = "target"

(* ABORT is final: an aborted thread's context records and counts nothing  *)
(* more until it is torn down.                                             *)
AbortIsFinal ==
  [][\A t \in Threads : mc[t].state = "ABORT" /\ pc[t] # "tramp" =>
       mc'[t].state = "ABORT" /\ mc'[t].count = mc[t].count /\ Trace(t)' = Trace(t)]_vars

-----------------------------------------------------------------------------
(* Liveness.                                                               *)

(* Every instruction FPSpy steps over gets out of AWAIT_TRAP, unless the   *)
(* process ends or hangs.                                                  *)
StepsOver ==
  \A t \in Threads :
    tracked[t] /\ mc[t].state = "AWAIT_TRAP" ~> mc[t].state # "AWAIT_TRAP" \/ proc # "up"

(* An abort that has begun completes, unless the process ends or hangs: a  *)
(* SIGALRM inside the lookup of an abort_operation() that a wrapper has    *)
(* called spins on context_lock (AlarmHangs).                              *)
AbortCompletes == \A t \in Threads : pc[t] = "restoreFpe" ~> aborted \/ proc # "up"

(* An OFF period of the Poisson sampler ends (update_sampler: "make sure   *)
(* we do actually wake up again").                                         *)
OffPeriodEnds ==
  \A t \in Threads :
    tracked[t] /\ ~mc[t].on ~> mc[t].on \/ ~tracked[t] \/ aborted \/ proc # "up"

-----------------------------------------------------------------------------
(* The traces implement the abstract event log.                            *)

Log == INSTANCE EventLog WITH
  log <- [t \in Threads |-> Trace(t)],
  events <- [t \in Threads |-> mc[t].count + IF mc[t].state = "AWAIT_TRAP" THEN 1 ELSE 0],
  open <- [t \in Threads |-> mc[t].state # "ABORT"]

(* Every step of the handlers is an event, a give-up or invisible.         *)
ImplementsEventLog == Log!Spec

=============================================================================
